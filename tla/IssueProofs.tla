----------------------------- MODULE IssueProofs -----------------------------
(***************************************************************************)
(* Proofs about Issue, for every program, every number of registers and    *)
(* units and every size.  The folds of the issue stage and of rename are   *)
(* treated first, then what the reorder buffer and the alias table keep,   *)
(* then one action after the other.                                        *)
(***************************************************************************)
EXTENDS Issue, RingProofs, SequenceTheorems

-----------------------------------------------------------------------------
(* The invariant.  The first four operators are about any reorder buffer   *)
(* r, mapping m and next identifier n, since those change one instruction  *)
(* at a time while a group is renamed.                                     *)

\* Identifiers count on from entry to entry.
IdAt(r, n, i) == (n + ROB_SIZE + i - Len(r) - 1) % ROB_SIZE

News(r) == {r[i].new : i \in DOMAIN r}
Olds(r) == {r[i].old : i \in DOMAIN r}

\* The mapping as it was before all but the first k entries.
MapAt(r, m, k) ==
  [a \in Arch |->
     LET later == {i \in k + 1 .. Len(r) : r[i].arch = a}
     IN  IF later = {} THEN m[a]
         ELSE r[CHOOSE i \in later : \A j \in later : i <= j].old]

\* Every mapping in between is one-to-one and shows no register of an entry
\* behind it; an entry's register is in the table or replaced by a later entry.
Mappings(r, m, n) ==
  /\ r \in Seq(Entry) /\ Len(r) <= ROB_SIZE
  /\ m \in [Arch -> Phy]
  /\ n \in RobId
  /\ \A i \in DOMAIN r : r[i].id = IdAt(r, n, i)
  /\ \A i \in DOMAIN r : IF r[i].arch = NoArch THEN r[i].new = NoPhy /\ r[i].old = NoPhy
                         ELSE r[i].new \in Phy /\ r[i].old \in Phy
  /\ \A i, j \in DOMAIN r : r[i].new # NoPhy /\ r[i].new = r[j].new => i = j
  /\ \A i \in DOMAIN r :
       r[i].new \in Range(m) \cup {NoPhy} \cup {r[j].old : j \in i + 1 .. Len(r)}
  /\ \A k \in 0 .. Len(r) : IsInjective(MapAt(r, m, k))
  /\ \A k \in 0 .. Len(r), a \in Arch, i \in DOMAIN r :
       r[i].new = MapAt(r, m, k)[a] => i <= k

\* What commit has told the stages is about entries that have left.
FeedbackOK ==
  /\ \A i \in DOMAIN rob : rob[i].id \notin committed
  /\ stage \in {"execute", "issue"} /\ rob # << >> => next_handle_rob_id = rob[1].id
  /\ stage = "commit" => committed = {} /\ released = {}
  /\ stage = "execute" => commit_port = {}

Belongs(r, x) ==
  \E i \in DOMAIN r : r[i].id = x.id /\ r[i].op = x.op /\ r[i].new = x.rd /\ r[i].finish = "no"

Distinct(things) == \A x, y \in things : x.id = y.id => x = y

\* x is before y in the reorder buffer.
Precedes(r, x, y) == \A i, j \in DOMAIN r : r[i].id = x.id /\ r[j].id = y.id => i < j

InOrder(r, s) == \A k, l \in DOMAIN s : k < l => Precedes(r, s[k], s[l])

Behind(r, s, t) == \A k \in DOMAIN s, l \in DOMAIN t : Precedes(r, s[k], t[l])

\* Every unfinished instruction is in one place, and the queues are in order.
PlacesOK ==
  /\ \A x \in Before \cup InUnits \cup Results : Belongs(rob, x)
  /\ Distinct(InUnits) /\ Distinct(wb_port) /\ Distinct(commit_port)
  /\ Ids(Before) \cap (Ids(InUnits) \cup Ids(Results)) = {}
  /\ Ids(InUnits) \cap Ids(Results) = {}
  /\ Ids(wb_port) \cap Ids(commit_port) = {}
  /\ Unfinished \subseteq Ids(Before) \cup Ids(InUnits) \cup Ids(Results)
  /\ InOrder(rob, issue_q) /\ InOrder(rob, readreg_issue) /\ InOrder(rob, rename_readreg)
  /\ Behind(rob, issue_q, readreg_issue) /\ Behind(rob, issue_q, rename_readreg)
  /\ Behind(rob, readreg_issue, rename_readreg)
  /\ \A u \in Unit : \A x \in fifo[u] : UnitOf(x.op) = u
  /\ \A x \in held : x.op = "store"
  /\ \A x \in held, y \in fifo["lsu"] : x.id # y.id

\* An operand that was not found yet is Unloaded, every other is right.
Right(src, val) == val = src \/ (val = Unloaded /\ src # NoPhy)

DataOK ==
  /\ \A x \in Before : Right(x.src1, x.val1) /\ Right(x.src2, x.val2)
  /\ \A x \in Before : x.op = "fence" => x.val1 # Unloaded /\ x.val2 # Unloaded
  /\ OperandsRight
  /\ \A r \in Results : r.value = r.rd
  /\ \A p \in data_valid : content[p] = p
  /\ data_valid \subseteq Range(map) \cup Olds(rob) \cup News(rob) \cup released
  /\ \A p \in Phy \cap (Range(map) \cup Olds(rob) \cup News(rob)) :
       content[p] = p \/ \E i \in DOMAIN rob : rob[i].new = p /\ rob[i].finish # "ok"
  /\ stage = "commit" =>
       \A r \in commit_port : ~r.raised /\ r.rd # NoPhy => content[r.rd] = r.rd

\* NoMissedResult, through the cycle.
ListeningOK ==
  \A x \in ToSet(issue_q) : \A src \in Awaited(x) :
    /\ src \notin data_valid
    /\ stage # "issue" => \A r \in Results : r.rd = src => r.raised

\* AloneInTheMachine: the instruction that is alone is the one issue waits for.
AloneOK ==
  \A i \in DOMAIN rob : Alone(rob[i].op) =>
    IF Dispatched(i)
    THEN /\ i = 1 /\ \A j \in DOMAIN rob \ {i} : ~Dispatched(j)
         /\ is_inst_waiting /\ inst_waiting_rob_id = rob[i].id
    ELSE \A j \in DOMAIN rob : j > i => ~Dispatched(j)

\* FenceOrders: no store of an instruction before the fence is left to drain.
FenceOK ==
  \A i \in DOMAIN rob : rob[i].op = "fence" =>
    IF Dispatched(i) THEN i = 1 /\ draining = 0 /\ stores \cap committed = {}
    ELSE \A j \in DOMAIN rob : j > i => ~Dispatched(j)

\* MemoryInOrder: the older one has executed, or is held with the younger behind it.
MemoryOK ==
  \A i, j \in DOMAIN rob :
    i < j /\ {UnitOf(rob[i].op), UnitOf(rob[j].op)} = {"lsu"} /\ Dispatched(j) =>
      Executed(i) \/ (rob[i].id \in Ids(held) /\ rob[j].id \in Ids(fifo["lsu"]))

IInv ==
  /\ TypeOK
  /\ Mappings(rob, map, next_id)
  /\ FeedbackOK
  /\ PlacesOK
  /\ DataOK
  /\ ListeningOK
  /\ AloneOK
  /\ FenceOK
  /\ MemoryOK

-----------------------------------------------------------------------------
(* The folds are what their equations say: with a number, the recursion    *)
(* is defined up to the next one.                                          *)

LEMMA ScanIs ==
  ASSUME Len(issue_q) \in Nat
  PROVE  scan = [i \in 0 .. Len(issue_q) |->
                   IF i = 0 THEN [places |-> {}, room |-> unit_available, lsu |-> FALSE, stop |-> FALSE]
                   ELSE Consider(scan[i - 1], issue_q[i], i)]
<1> DEFINE start == [places |-> {}, room |-> unit_available, lsu |-> FALSE, stop |-> FALSE]
           Further(s, i) == Consider(s, issue_q[i], i)
           Step(g, i) == IF i = 0 THEN start ELSE Further(g[i - 1], i)
           S == {n \in Nat : \E g : g = [i \in 0 .. n |-> Step(g, i)]}
<1> HIDE DEF start, Further
<1>1. 0 \in S
  <2> DEFINE g == [i \in 0 .. 0 |-> start]
  <2>1. g = [i \in 0 .. 0 |-> Step(g, i)]
    OBVIOUS
  <2> QED
    BY <2>1
<1>2. ASSUME NEW n \in Nat, n \in S
      PROVE  n + 1 \in S
  <2>1. PICK g : g = [i \in 0 .. n |-> Step(g, i)]
    BY <1>2
  <2> DEFINE h == [i \in 0 .. n + 1 |-> IF i = n + 1 THEN Further(g[n], n + 1) ELSE g[i]]
  <2>2. \A i \in 0 .. n + 1 : h[i] = Step(h, i)
    <3> SUFFICES ASSUME NEW i \in 0 .. n + 1
                 PROVE  h[i] = Step(h, i)
      OBVIOUS
    <3>1. CASE i = n + 1
      BY <3>1
    <3>2. CASE i \in 0 .. n
      <4>1. g[i] = Step(g, i)
        BY <2>1, <3>2, Zenon
      <4> QED
        BY <4>1, <3>2
    <3> QED
      BY <3>1, <3>2
  <2>3. h = [i \in 0 .. n + 1 |-> Step(h, i)]
    <3> HIDE DEF Step
    <3> QED
      BY <2>2
  <2> HIDE DEF h
  <2> QED
    BY <2>3
<1>3. Len(issue_q) \in S
  <2> HIDE DEF S
  <2> QED
    BY <1>1, <1>2, NatInd
<1> QED
  BY <1>3, Zenon DEF scan, start, Further

LEMMA SendingIs ==
  ASSUME Len(issue_q) \in Nat
  PROVE  sending = [i \in 0 .. Len(issue_q) |->
                   IF i = 0 THEN [fifo |-> fifo, waiting |-> {}, stop |-> FALSE]
                   ELSE IF i \in Chosen THEN Send(sending[i - 1], Listen(issue_q[i]))
                   ELSE sending[i - 1]]
<1> DEFINE start == [fifo |-> fifo, waiting |-> {}, stop |-> FALSE]
           Further(s, i) == IF i \in Chosen THEN Send(s, Listen(issue_q[i])) ELSE s
           Step(g, i) == IF i = 0 THEN start ELSE Further(g[i - 1], i)
           S == {n \in Nat : \E g : g = [i \in 0 .. n |-> Step(g, i)]}
<1> HIDE DEF start, Further
<1>1. 0 \in S
  <2> DEFINE g == [i \in 0 .. 0 |-> start]
  <2>1. g = [i \in 0 .. 0 |-> Step(g, i)]
    OBVIOUS
  <2> QED
    BY <2>1
<1>2. ASSUME NEW n \in Nat, n \in S
      PROVE  n + 1 \in S
  <2>1. PICK g : g = [i \in 0 .. n |-> Step(g, i)]
    BY <1>2
  <2> DEFINE h == [i \in 0 .. n + 1 |-> IF i = n + 1 THEN Further(g[n], n + 1) ELSE g[i]]
  <2>2. \A i \in 0 .. n + 1 : h[i] = Step(h, i)
    <3> SUFFICES ASSUME NEW i \in 0 .. n + 1
                 PROVE  h[i] = Step(h, i)
      OBVIOUS
    <3>1. CASE i = n + 1
      BY <3>1
    <3>2. CASE i \in 0 .. n
      <4>1. g[i] = Step(g, i)
        BY <2>1, <3>2, Zenon
      <4> QED
        BY <4>1, <3>2
    <3> QED
      BY <3>1, <3>2
  <2>3. h = [i \in 0 .. n + 1 |-> Step(h, i)]
    <3> HIDE DEF Step
    <3> QED
      BY <2>2
  <2> HIDE DEF h
  <2> QED
    BY <2>3
<1>3. Len(issue_q) \in S
  <2> HIDE DEF S
  <2> QED
    BY <1>1, <1>2, NatInd
<1> QED
  BY <1>3, Zenon DEF sending, start, Further

LEMMA StayingIs ==
  ASSUME Len(issue_q) \in Nat
  PROVE  staying = [i \in 0 .. Len(issue_q) |->
                   IF i = 0 THEN << >>
                   ELSE IF i \in Chosen THEN staying[i - 1]
                   ELSE Append(staying[i - 1], Listen(issue_q[i]))]
<1> DEFINE start == << >>
           Further(s, i) == IF i \in Chosen THEN s ELSE Append(s, Listen(issue_q[i]))
           Step(g, i) == IF i = 0 THEN start ELSE Further(g[i - 1], i)
           S == {n \in Nat : \E g : g = [i \in 0 .. n |-> Step(g, i)]}
<1> HIDE DEF start, Further
<1>1. 0 \in S
  <2> DEFINE g == [i \in 0 .. 0 |-> start]
  <2>1. g = [i \in 0 .. 0 |-> Step(g, i)]
    OBVIOUS
  <2> QED
    BY <2>1
<1>2. ASSUME NEW n \in Nat, n \in S
      PROVE  n + 1 \in S
  <2>1. PICK g : g = [i \in 0 .. n |-> Step(g, i)]
    BY <1>2
  <2> DEFINE h == [i \in 0 .. n + 1 |-> IF i = n + 1 THEN Further(g[n], n + 1) ELSE g[i]]
  <2>2. \A i \in 0 .. n + 1 : h[i] = Step(h, i)
    <3> SUFFICES ASSUME NEW i \in 0 .. n + 1
                 PROVE  h[i] = Step(h, i)
      OBVIOUS
    <3>1. CASE i = n + 1
      BY <3>1
    <3>2. CASE i \in 0 .. n
      <4>1. g[i] = Step(g, i)
        BY <2>1, <3>2, Zenon
      <4> QED
        BY <4>1, <3>2
    <3> QED
      BY <3>1, <3>2
  <2>3. h = [i \in 0 .. n + 1 |-> Step(h, i)]
    <3> HIDE DEF Step
    <3> QED
      BY <2>2
  <2> HIDE DEF h
  <2> QED
    BY <2>3
<1>3. Len(issue_q) \in S
  <2> HIDE DEF S
  <2> QED
    BY <1>1, <1>2, NatInd
<1> QED
  BY <1>3, Zenon DEF staying, start, Further

LEMMA RenamedUpToIs ==
  ASSUME NEW group, Len(group) \in Nat
  PROVE  RenamedUpTo(group) = [i \in 0 .. Len(group) |->
                   IF i = 0 THEN [map |-> map, free |-> FreePhy, rob |-> rob, port |-> << >>, id |-> next_id]
                   ELSE RenameOne(RenamedUpTo(group)[i - 1], group[i])]
<1> DEFINE start == [map |-> map, free |-> FreePhy, rob |-> rob, port |-> << >>, id |-> next_id]
           Further(s, i) == RenameOne(s, group[i])
           Step(g, i) == IF i = 0 THEN start ELSE Further(g[i - 1], i)
           S == {n \in Nat : \E g : g = [i \in 0 .. n |-> Step(g, i)]}
<1> HIDE DEF start, Further
<1>1. 0 \in S
  <2> DEFINE g == [i \in 0 .. 0 |-> start]
  <2>1. g = [i \in 0 .. 0 |-> Step(g, i)]
    OBVIOUS
  <2> QED
    BY <2>1
<1>2. ASSUME NEW n \in Nat, n \in S
      PROVE  n + 1 \in S
  <2>1. PICK g : g = [i \in 0 .. n |-> Step(g, i)]
    BY <1>2
  <2> DEFINE h == [i \in 0 .. n + 1 |-> IF i = n + 1 THEN Further(g[n], n + 1) ELSE g[i]]
  <2>2. \A i \in 0 .. n + 1 : h[i] = Step(h, i)
    <3> SUFFICES ASSUME NEW i \in 0 .. n + 1
                 PROVE  h[i] = Step(h, i)
      OBVIOUS
    <3>1. CASE i = n + 1
      BY <3>1
    <3>2. CASE i \in 0 .. n
      <4>1. g[i] = Step(g, i)
        BY <2>1, <3>2, Zenon
      <4> QED
        BY <4>1, <3>2
    <3> QED
      BY <3>1, <3>2
  <2>3. h = [i \in 0 .. n + 1 |-> Step(h, i)]
    <3> HIDE DEF Step
    <3> QED
      BY <2>2
  <2> HIDE DEF h
  <2> QED
    BY <2>3
<1>3. Len(group) \in S
  <2> HIDE DEF S
  <2> QED
    BY <1>1, <1>2, NatInd
<1> QED
  BY <1>3, Zenon DEF RenamedUpTo, start, Further

-----------------------------------------------------------------------------
(* The choice.                                                             *)

ScanState ==
  [places : SUBSET Nat, room : [Unit -> Int], lsu : BOOLEAN, stop : BOOLEAN]

LEMMA UnitOfType == \A op \in Op : UnitOf(op) \in Unit
BY DEF Op, UnitOf, Unit

LEMMA QueueType ==
  ASSUME TypeOK
  PROVE  /\ Len(issue_q) \in Nat
         /\ DOMAIN issue_q = 1 .. Len(issue_q)
         /\ \A i \in 1 .. Len(issue_q) : issue_q[i] \in Pack /\ issue_q[i].op \in Op
<1>1. issue_q \in Seq(Pack)
  BY DEF TypeOK
<1>2. \A x \in Pack : x.op \in Op
  BY DEF Pack
<1> QED
  BY <1>1, <1>2

LEMMA FiniteFifos ==
  ASSUME IInv
  PROVE  /\ IsFiniteSet(InUnits) /\ IsFiniteSet(held)
         /\ \A u \in Unit : IsFiniteSet(fifo[u]) /\ Cardinality(fifo[u]) \in Nat
<1> DEFINE f == [x \in InUnits |-> x.id]
<1>1. \A x \in InUnits : x \in Pack /\ x.id \in RobId
  BY DEF IInv, TypeOK, InUnits, Pack
<1>2. f \in Injection(InUnits, RobId)
  BY <1>1 DEF Injection, IsInjective, IInv, PlacesOK, Distinct
<1>3. IsFiniteSet(RobId)
  <2>1. ROB_SIZE - 1 \in Int
    BY IssueAssumption
  <2>2. IsFiniteSet(0 .. ROB_SIZE - 1)
    BY <2>1, FS_Interval
  <2> QED
    BY <2>2 DEF RobId
<1>4. IsFiniteSet(InUnits)
  <2> HIDE DEF f
  <2> QED
    BY <1>2, <1>3, FS_Injection
<1>5. held \subseteq InUnits /\ \A u \in Unit : fifo[u] \subseteq InUnits
  BY DEF InUnits
<1> QED
  BY <1>4, <1>5, FS_Subset, FS_CardinalityType

LEMMA Available ==
  ASSUME IInv
  PROVE  unit_available \in [Unit -> Int]
<1>1. \A u \in Unit : unit_cnt(u) \in Nat /\ Cardinality(fifo[u]) \in Nat
  BY FiniteFifos, IssueAssumption DEF unit_cnt
<1> QED
  BY <1>1 DEF unit_available

LEMMA PlacesFinite ==
  ASSUME NEW n \in Nat, NEW S \in SUBSET (1 .. n)
  PROVE  IsFiniteSet(S) /\ Cardinality(S) \in Nat /\ (Cardinality(S) = 0 <=> S = {})
<1>1. IsFiniteSet(1 .. n)
  BY FS_Interval
<1>2. IsFiniteSet(S)
  BY <1>1, FS_Subset
<1> QED
  BY <1>2, FS_CardinalityType, FS_EmptySet

\* The i-th instruction of the queue is chosen.
Takes(i) ==
  LET at == scan[i - 1]
      x  == issue_q[i]
      n  == Cardinality(at.places)
  IN  /\ ~at.stop /\ n # ISSUE_WIDTH /\ ~NotYetAlone(x, n)
      /\ OperandsReady(x)
      /\ at.room[UnitOf(x.op)] > 0
      /\ ~(at.lsu /\ UnitOf(x.op) = "lsu")
      /\ ~fence_trigger(x, n)

\* One step of the scan, when nothing has ended it.
LEMMA ScanStep ==
  ASSUME IInv, NEW i \in 1 .. Len(issue_q), scan[i - 1] \in ScanState
  PROVE  LET at == scan[i - 1]
             x  == issue_q[i]
             n  == Cardinality(at.places)
         IN  /\ scan[i] \in ScanState
             /\ scan[i].places = IF Takes(i) THEN at.places \cup {i} ELSE at.places
             /\ scan[i].room = IF Takes(i)
                               THEN [at.room EXCEPT ![UnitOf(x.op)] = @ - 1] ELSE at.room
             /\ at.stop => scan[i].stop
             /\ at.lsu => scan[i].lsu
             /\ at.stop \/ n = ISSUE_WIDTH => scan[i] = at
             /\ ~at.stop /\ n # ISSUE_WIDTH =>
                  /\ Alone(x.op) => scan[i].stop
                  /\ fence_trigger(x, n) => scan[i].stop
                  /\ UnitOf(x.op) = "lsu" => scan[i].lsu
<1> DEFINE at == scan[i - 1]
           x == issue_q[i]
           n == Cardinality(at.places)
           u == UnitOf(x.op)
<1>1. i \in 0 .. Len(issue_q) /\ i # 0 /\ i \in Nat /\ x \in Pack /\ u \in Unit
  BY QueueType, UnitOfType DEF IInv
<1>2. scan[i] = Consider(at, x, i)
  BY <1>1, QueueType, ScanIs DEF IInv
<1>3. /\ at.places \in SUBSET Nat /\ at.room \in [Unit -> Int] /\ at.lsu \in BOOLEAN
      /\ at.stop \in BOOLEAN
      /\ at = [places |-> at.places, room |-> at.room, lsu |-> at.lsu, stop |-> at.stop]
  BY DEF ScanState
<1>4. (Alone(x.op) \/ fence_trigger(x, n)) \in BOOLEAN
  BY DEF Alone, fence_trigger
<1>5. CASE at.stop \/ n = ISSUE_WIDTH
  <2>1. scan[i] = at
    BY <1>2, <1>5 DEF Consider
  <2>2. ~Takes(i)
    BY <1>5 DEF Takes
  <2> QED
    BY <1>5, <2>1, <2>2
<1>6. CASE ~(at.stop \/ n = ISSUE_WIDTH) /\ NotYetAlone(x, n)
  <2>1. scan[i] = [at EXCEPT !.stop = TRUE]
    BY <1>2, <1>6 DEF Consider
  <2>2. ~Takes(i)
    BY <1>6 DEF Takes
  <2>3. scan[i] = [places |-> at.places, room |-> at.room, lsu |-> at.lsu, stop |-> TRUE]
    BY <1>3, <2>1
  <2>4. Alone(x.op) /\ UnitOf(x.op) # "lsu"
    BY <1>6 DEF NotYetAlone, Alone, UnitOf
  <2> QED
    BY <1>3, <1>6, <2>2, <2>3, <2>4 DEF ScanState
<1>7. CASE ~(at.stop \/ n = ISSUE_WIDTH) /\ ~NotYetAlone(x, n)
  <2>1. scan[i] = [places |-> IF Takes(i) THEN at.places \cup {i} ELSE at.places,
                   room   |-> IF Takes(i) THEN [at.room EXCEPT ![u] = @ - 1] ELSE at.room,
                   lsu    |-> at.lsu \/ u = "lsu",
                   stop   |-> Alone(x.op) \/ fence_trigger(x, n)]
    BY <1>2, <1>7 DEF Consider, Takes, HoldsBack
  <2>2. /\ scan[i].places = IF Takes(i) THEN at.places \cup {i} ELSE at.places
        /\ scan[i].room = IF Takes(i) THEN [at.room EXCEPT ![u] = @ - 1] ELSE at.room
        /\ scan[i].lsu = (at.lsu \/ u = "lsu")
        /\ scan[i].stop = (Alone(x.op) \/ fence_trigger(x, n))
    BY <2>1
  <2>3. scan[i].places \in SUBSET Nat /\ scan[i].room \in [Unit -> Int]
    BY <1>1, <1>3, <2>2
  <2>4. scan[i] \in ScanState
    BY <1>3, <1>4, <2>1, <2>2, <2>3 DEF ScanState
  <2> QED
    BY <1>7, <2>2, <2>4
<1> QED
  BY <1>5, <1>6, <1>7

\* What the scan knows when it comes to a place.
LEMMA ScanInv ==
  ASSUME IInv
  PROVE  \A i \in 0 .. Len(issue_q) :
           /\ scan[i] \in ScanState
           /\ scan[i].places = {k \in 1 .. i : Takes(k)}
           /\ scan[i].places = {} => scan[i].room = unit_available
<1> DEFINE P(i) == /\ scan[i] \in ScanState
                   /\ scan[i].places = {k \in 1 .. i : Takes(k)}
                   /\ scan[i].places = {} => scan[i].room = unit_available
           S == {i \in Nat : P(i)}
<1>0. Len(issue_q) \in Nat
  BY QueueType DEF IInv
<1>1. 0 \in S
  <2>1. scan[0] = [places |-> {}, room |-> unit_available, lsu |-> FALSE, stop |-> FALSE]
    BY <1>0, ScanIs
  <2>2. {k \in 1 .. 0 : Takes(k)} = {}
    OBVIOUS
  <2>3. /\ scan[0].places = {} /\ scan[0].room = unit_available
        /\ scan[0].lsu = FALSE /\ scan[0].stop = FALSE
    BY <2>1
  <2>4. scan[0] \in ScanState
    <3> HIDE DEF P, S
    <3>1. unit_available \in [Unit -> Int] /\ {} \in SUBSET Nat
      BY Available
    <3> QED
      BY <2>1, <3>1 DEF ScanState
  <2> QED
    BY <2>2, <2>3, <2>4
<1>2. ASSUME NEW i \in 0 .. Len(issue_q) - 1, i \in S
      PROVE  i + 1 \in S
  <2> DEFINE j == i + 1
  <2>1. j \in 1 .. Len(issue_q) /\ j - 1 = i
    BY <1>0
  <2>2. scan[j - 1] \in ScanState
    BY <1>2, <2>1
  <2>3. /\ scan[j] \in ScanState
        /\ scan[j].places = IF Takes(j) THEN scan[i].places \cup {j} ELSE scan[i].places
        /\ ~Takes(j) => scan[j].room = scan[i].room
    BY <2>1, <2>2, ScanStep
  <2>4. scan[j].places = {k \in 1 .. j : Takes(k)}
    <3> HIDE DEF j
    <3>1. 1 .. j = (1 .. i) \cup {j}
      BY <2>1
    <3> QED
      BY <1>2, <2>3, <3>1
  <2>5. scan[j].places = {} => scan[j].room = unit_available
    BY <1>2, <2>3
  <2> QED
    BY <2>3, <2>4, <2>5
<1>3. 0 .. Len(issue_q) \subseteq S
  <2> HIDE DEF S
  <2> QED
    BY <1>0, <1>1, <1>2, UpTo
<1> QED
  BY <1>3

LEMMA ChosenIs ==
  ASSUME IInv
  PROVE  Chosen = IF MayIssue THEN {k \in 1 .. Len(issue_q) : Takes(k)} ELSE {}
<1>1. Len(issue_q) \in 0 .. Len(issue_q)
  BY QueueType DEF IInv
<1> QED
  BY <1>1, ScanInv DEF Chosen

\* What holds of an instruction that the scan has gone past.
Passed(i, k) ==
  LET at == scan[i]
      x  == issue_q[k]
  IN  \/ at.stop \/ Cardinality(at.places) = ISSUE_WIDTH
      \/ /\ ~Alone(x.op)
         /\ UnitOf(x.op) = "lsu" => at.lsu
         /\ x.op = "fence" /\ ~Takes(k) =>
              ~OperandsReady(x) \/ (IsNext(x) /\ unit_available["alu"] <= 0)

LEMMA ScanPasses ==
  ASSUME IInv
  PROVE  \A i \in 0 .. Len(issue_q) : \A k \in 1 .. i : Passed(i, k)
<1> DEFINE S == {i \in Nat : \A k \in 1 .. i : Passed(i, k)}
<1>0. Len(issue_q) \in Nat
  BY QueueType DEF IInv
<1>1. 0 \in S
  OBVIOUS
<1>2. ASSUME NEW i \in 0 .. Len(issue_q) - 1, i \in S
      PROVE  i + 1 \in S
  <2> DEFINE j == i + 1
             y == issue_q[j]
  <2>1. j \in 1 .. Len(issue_q) /\ j - 1 = i /\ i \in 0 .. Len(issue_q) /\ j \in Nat
    BY <1>0
  <2>2. scan[i] \in ScanState /\ (scan[i].places = {} => scan[i].room = unit_available)
    BY <2>1, ScanInv
  <2>3. LET n == Cardinality(scan[i].places)
        IN  /\ scan[i].stop => scan[j].stop
            /\ scan[i].lsu => scan[j].lsu
            /\ scan[i].stop \/ n = ISSUE_WIDTH => scan[j] = scan[i]
            /\ ~scan[i].stop /\ n # ISSUE_WIDTH =>
                 /\ Alone(y.op) => scan[j].stop
                 /\ fence_trigger(y, n) => scan[j].stop
                 /\ UnitOf(y.op) = "lsu" => scan[j].lsu
    <3> HIDE DEF j
    <3>1. scan[j - 1] \in ScanState
      BY <2>1, <2>2
    <3>2. LET n == Cardinality(scan[j - 1].places)
          IN  /\ scan[j - 1].stop => scan[j].stop
              /\ scan[j - 1].lsu => scan[j].lsu
              /\ scan[j - 1].stop \/ n = ISSUE_WIDTH => scan[j] = scan[j - 1]
              /\ ~scan[j - 1].stop /\ n # ISSUE_WIDTH =>
                   /\ Alone(y.op) => scan[j].stop
                   /\ fence_trigger(y, n) => scan[j].stop
                   /\ UnitOf(y.op) = "lsu" => scan[j].lsu
      <4>1. j \in 1 .. Len(issue_q)
        BY <2>1
      <4> QED
        BY <3>1, <4>1, ScanStep, Zenon
    <3> QED
      BY <2>1, <3>2, Zenon
  <2> SUFFICES ASSUME NEW k \in 1 .. j
               PROVE  Passed(j, k)
    BY <2>1
  <2>4. CASE scan[i].stop \/ Cardinality(scan[i].places) = ISSUE_WIDTH
    BY <2>3, <2>4 DEF Passed
  <2>5. CASE ~(scan[i].stop \/ Cardinality(scan[i].places) = ISSUE_WIDTH) /\ k # j
    <3>1. k \in 1 .. i
      BY <2>1, <2>5
    <3>2. Passed(i, k)
      BY <1>2, <3>1
    <3> QED
      BY <2>3, <2>5, <3>2 DEF Passed
  <2>6. CASE ~(scan[i].stop \/ Cardinality(scan[i].places) = ISSUE_WIDTH) /\ k = j
    <3>1. CASE scan[j].stop \/ Alone(y.op)
      BY <2>3, <2>6, <3>1 DEF Passed
    <3>2. CASE ~scan[j].stop /\ ~Alone(y.op)
      <4>1. UnitOf(y.op) = "lsu" => scan[j].lsu
        BY <2>3, <2>6
      <4>2. ASSUME y.op = "fence", ~Takes(j)
            PROVE  ~OperandsReady(y) \/ (IsNext(y) /\ unit_available["alu"] <= 0)
        <5>1. ~fence_trigger(y, Cardinality(scan[i].places))
          BY <2>3, <2>6, <3>2
        <5>2. Cardinality(scan[i].places) = 0 /\ IsNext(y)
          BY <4>2, <5>1 DEF fence_trigger
        <5>3. scan[i].places = {}
          <6>1. scan[i].places \in SUBSET (1 .. i) /\ i \in Nat
            BY <2>1, ScanInv
          <6> QED
            BY <5>2, <6>1, PlacesFinite
        <5>4. UnitOf(y.op) = "alu"
          BY <4>2, Zenon DEF UnitOf
        <5>5. ~OperandsReady(y) \/ ~(scan[i].room["alu"] > 0)
          BY <2>1, <2>6, <3>2, <4>2, <5>1, <5>4 DEF Takes, NotYetAlone
        <5>6. unit_available["alu"] \in Int
          BY Available DEF Unit
        <5> QED
          BY <2>2, <5>2, <5>3, <5>5, <5>6
      <4> QED
        BY <2>6, <3>2, <4>1, <4>2 DEF Passed
    <3> QED
      BY <3>1, <3>2
  <2> QED
    BY <2>4, <2>5, <2>6
<1>3. 0 .. Len(issue_q) \subseteq S
  <2> HIDE DEF S
  <2> QED
    BY <1>0, <1>1, <1>2, UpTo
<1> QED
  BY <1>3

\* What the choice respects: who may be sent, and whom it does not overtake.
LEMMA Choice ==
  ASSUME IInv, NEW l \in Chosen
  PROVE  /\ l \in 1 .. Len(issue_q) /\ MayIssue
         /\ OperandsReady(issue_q[l])
         /\ Alone(issue_q[l].op) => Chosen = {l} /\ IsNext(issue_q[l])
         /\ issue_q[l].op = "fence" => StoreBufferEmpty /\ IsNext(issue_q[l])
         /\ \A k \in 1 .. l - 1 :
              /\ ~Alone(issue_q[k].op)
              /\ issue_q[k].op = "fence" /\ k \notin Chosen =>
                   \/ ~OperandsReady(issue_q[k])
                   \/ IsNext(issue_q[k]) /\ unit_available["alu"] <= 0
              /\ ~(UnitOf(issue_q[k].op) = "lsu" /\ UnitOf(issue_q[l].op) = "lsu")
<1>1. MayIssue /\ l \in 1 .. Len(issue_q) /\ Takes(l)
  BY ChosenIs
<1>2. l - 1 \in 0 .. Len(issue_q) /\ Len(issue_q) \in Nat
  BY <1>1, QueueType DEF IInv
<1>3. ASSUME NEW k \in 1 .. l - 1
      PROVE  /\ ~Alone(issue_q[k].op)
             /\ issue_q[k].op = "fence" /\ k \notin Chosen =>
                  \/ ~OperandsReady(issue_q[k])
                  \/ IsNext(issue_q[k]) /\ unit_available["alu"] <= 0
             /\ ~(UnitOf(issue_q[k].op) = "lsu" /\ UnitOf(issue_q[l].op) = "lsu")
  <2>1. Passed(l - 1, k)
    BY <1>2, ScanPasses
  <2>2. k \in 1 .. Len(issue_q) /\ (k \notin Chosen => ~Takes(k))
    BY <1>1, <1>2, ChosenIs
  <2> QED
    BY <1>1, <2>1, <2>2 DEF Takes, Passed
<1>4. ASSUME Alone(issue_q[l].op)
      PROVE  Chosen = {l} /\ IsNext(issue_q[l])
  <2>1. IsNext(issue_q[l]) /\ Cardinality(scan[l - 1].places) = 0
    BY <1>1, <1>4 DEF Takes, NotYetAlone
  <2>2. \A k \in Chosen : k >= l
    <3>1. scan[l - 1].places = {k \in 1 .. l - 1 : Takes(k)}
      BY <1>2, ScanInv
    <3>2. scan[l - 1].places = {}
      <4>1. scan[l - 1].places \in SUBSET (1 .. l - 1) /\ l - 1 \in Nat
        BY <1>2, <3>1
      <4> QED
        BY <2>1, <4>1, PlacesFinite
    <3> QED
      BY <1>1, <3>1, <3>2, ChosenIs
  <2>3. ASSUME NEW k \in Chosen, k > l
        PROVE  FALSE
    <3>1. k \in 1 .. Len(issue_q) /\ k - 1 \in 0 .. Len(issue_q) /\ l \in 1 .. k - 1 /\ Takes(k)
      BY <1>1, <1>2, <2>3, ChosenIs
    <3>2. Passed(k - 1, l)
      BY <3>1, ScanPasses
    <3> QED
      BY <1>4, <3>1, <3>2 DEF Takes, Passed
  <2>4. \A k \in Chosen : k \in Int
    BY ChosenIs
  <2>5. \A k \in Chosen : k = l
    BY <1>1, <2>2, <2>3, <2>4
  <2> QED
    BY <2>1, <2>5
<1>5. issue_q[l].op = "fence" => StoreBufferEmpty /\ IsNext(issue_q[l])
  BY <1>1 DEF Takes, fence_trigger
<1> QED
  BY <1>1, <1>3, <1>4, <1>5 DEF Takes

-----------------------------------------------------------------------------
(* Sending.                                                                *)

LEMMA NotPhy ==
  /\ NoPhy \notin Phy /\ Junk \notin Phy /\ Unloaded \notin Phy
  /\ NoPhy # Junk /\ NoPhy # Unloaded /\ Junk # Unloaded
  /\ Unloaded \notin Value /\ Unloaded \notin Source
BY IssueAssumption DEF Phy, NoPhy, Junk, Unloaded, Value, Source

LEMMA HeardType ==
  ASSUME TypeOK, NEW src \in Source, NEW val \in Value \cup {Unloaded}
  PROVE  /\ Heard(src, val) \in Value \cup {Unloaded}
         /\ val # Unloaded => Heard(src, val) = val
         /\ HeardFrom(src, val) => Heard(src, val) # Unloaded
<1> DEFINE heard == {r \in execute_feedback_pack \cup wb_feedback_pack : r.rd = src}
<1>1. \A r \in heard : r.value \in Value
  BY DEF TypeOK, execute_feedback_pack, wb_feedback_pack, Feedback, Result
<1>2. heard # {} => (CHOOSE r \in heard : TRUE) \in heard
  <2> HIDE DEF heard
  <2> QED
    OBVIOUS
<1>3. Heard(src, val) = IF val # Unloaded \/ heard = {} THEN val
                        ELSE (CHOOSE r \in heard : TRUE).value
  BY DEF Heard
<1>4. HeardFrom(src, val) => val # Unloaded \/ heard # {}
  BY DEF HeardFrom
<1> HIDE DEF heard
<1> QED
  BY <1>1, <1>2, <1>3, <1>4, NotPhy

LEMMA ListenIs ==
  ASSUME TypeOK, NEW x \in Pack
  PROVE  /\ Listen(x) \in Pack
         /\ Listen(x).id = x.id /\ Listen(x).op = x.op /\ Listen(x).rd = x.rd
         /\ Listen(x).src1 = x.src1 /\ Listen(x).src2 = x.src2
         /\ Listen(x).val1 = Heard(x.src1, x.val1)
         /\ Listen(x).val2 = Heard(x.src2, x.val2)
         /\ OperandsReady(x) => Loaded(Listen(x))
<1>1. /\ x.src1 \in Source /\ x.val1 \in Value \cup {Unloaded}
      /\ x.src2 \in Source /\ x.val2 \in Value \cup {Unloaded}
  BY DEF Pack
<1>2. /\ Heard(x.src1, x.val1) \in Value \cup {Unloaded}
      /\ Heard(x.src2, x.val2) \in Value \cup {Unloaded}
  BY <1>1, HeardType
<1>3. Listen(x) = [x EXCEPT !.val1 = Heard(x.src1, x.val1), !.val2 = Heard(x.src2, x.val2)]
  BY DEF Listen
<1>4. /\ Listen(x) \in Pack
      /\ Listen(x).id = x.id /\ Listen(x).op = x.op /\ Listen(x).rd = x.rd
      /\ Listen(x).src1 = x.src1 /\ Listen(x).src2 = x.src2
      /\ Listen(x).val1 = Heard(x.src1, x.val1)
      /\ Listen(x).val2 = Heard(x.src2, x.val2)
  BY <1>2, <1>3 DEF Pack
<1>5. OperandsReady(x) => Loaded(Listen(x))
  BY <1>1, <1>4, HeardType DEF OperandsReady, Loaded
<1> QED
  BY <1>4, <1>5

\* No instruction is in the queue twice, and none in the queue is in a unit.
LEMMA QueueIds ==
  ASSUME IInv, NEW k \in 1 .. Len(issue_q)
  PROVE  /\ \A l \in 1 .. Len(issue_q) : issue_q[k].id = issue_q[l].id => k = l
         /\ issue_q[k] \in ToSet(issue_q)
         /\ issue_q[k].id \notin Ids(InUnits) \cup Ids(Results)
<1>1. DOMAIN issue_q = 1 .. Len(issue_q)
  BY QueueType DEF IInv
<1>2. \A i, j \in 1 .. Len(issue_q) : i < j => Precedes(rob, issue_q[i], issue_q[j])
  BY <1>1 DEF IInv, PlacesOK, InOrder
<1>3. \E p \in DOMAIN rob : rob[p].id = issue_q[k].id
  BY <1>1 DEF IInv, PlacesOK, Belongs, Before, ToSet
<1>4. \A l \in 1 .. Len(issue_q) : issue_q[k].id = issue_q[l].id => k = l
  <2> SUFFICES ASSUME NEW l \in 1 .. Len(issue_q), issue_q[k].id = issue_q[l].id, k # l
               PROVE  FALSE
    OBVIOUS
  <2>1. k < l \/ l < k
    OBVIOUS
  <2>2. PICK p \in DOMAIN rob : rob[p].id = issue_q[k].id
    BY <1>3
  <2>3. p < p
    BY <1>2, <2>1, <2>2 DEF Precedes
  <2>4. p \in Int
    BY DEF IInv, TypeOK
  <2> QED
    BY <2>3, <2>4
<1>5. issue_q[k] \in ToSet(issue_q)
  BY <1>1 DEF ToSet
<1> QED
  BY <1>4, <1>5 DEF IInv, PlacesOK, Before, Ids

\* What is in the FIFO of a unit, and awaited, when the first i have been sent.
SentTo(u, i) ==
  fifo[u] \cup {Listen(issue_q[k]) : k \in {k \in Chosen : k <= i /\ UnitOf(issue_q[k].op) = u}}

WaitingFor(i) == {issue_q[k].id : k \in {k \in Chosen : k <= i /\ Alone(issue_q[k].op)}}

SendState(i) ==
  /\ sending[i].fifo = [u \in Unit |-> SentTo(u, i)]
  /\ sending[i].waiting = WaitingFor(i)
  /\ \A u \in Unit : /\ IsFiniteSet(SentTo(u, i))
                     /\ Cardinality(SentTo(u, i)) <= unit_cnt(u)
  /\ MayIssue =>
       /\ \A u \in Unit : scan[i].room[u] = unit_cnt(u) - Cardinality(SentTo(u, i))
       /\ sending[i].stop => scan[i].stop

LEMMA SendBase ==
  ASSUME IInv
  PROVE  SendState(0)
<1>0. Len(issue_q) \in Nat /\ Chosen \subseteq 1 .. Len(issue_q)
  BY QueueType, ChosenIs DEF IInv
<1>1. sending[0] = [fifo |-> fifo, waiting |-> {}, stop |-> FALSE]
  BY <1>0, SendingIs
<1>2. scan[0] = [places |-> {}, room |-> unit_available, lsu |-> FALSE, stop |-> FALSE]
  BY <1>0, ScanIs
<1>3. \A k \in Chosen : ~(k <= 0)
  BY <1>0
<1>4. \A u : SentTo(u, 0) = fifo[u]
  BY <1>3 DEF SentTo
<1>5. WaitingFor(0) = {}
  BY <1>3 DEF WaitingFor
<1>6. \A u \in Unit : IsFiniteSet(fifo[u]) /\ Cardinality(fifo[u]) <= unit_cnt(u)
  BY FiniteFifos DEF IInv, TypeOK
<1>7. fifo = [u \in Unit |-> fifo[u]]
  BY DEF IInv, TypeOK
<1>8. \A u \in Unit : scan[0].room[u] = unit_cnt(u) - Cardinality(fifo[u])
  BY <1>2 DEF unit_available
<1>9. [u \in Unit |-> SentTo(u, 0)] = [u \in Unit |-> fifo[u]]
  BY <1>4, Zenon
<1>10. sending[0].fifo = fifo /\ sending[0].waiting = {} /\ ~sending[0].stop
  BY <1>1
<1>11. sending[0].fifo = [u \in Unit |-> SentTo(u, 0)] /\ sending[0].waiting = WaitingFor(0)
  BY <1>5, <1>7, <1>9, <1>10, Zenon
<1>12. \A u \in Unit :
         /\ IsFiniteSet(SentTo(u, 0)) /\ Cardinality(SentTo(u, 0)) <= unit_cnt(u)
         /\ scan[0].room[u] = unit_cnt(u) - Cardinality(SentTo(u, 0))
  BY <1>4, <1>6, <1>8, Zenon
<1> QED
  BY <1>10, <1>11, <1>12, Zenon DEF SendState

LEMMA SendStep ==
  ASSUME IInv, NEW i \in 0 .. Len(issue_q) - 1, SendState(i)
  PROVE  SendState(i + 1)
<1> DEFINE j == i + 1
           x == issue_q[j]
           y == Listen(x)
<1>0. /\ Len(issue_q) \in Nat /\ j \in 1 .. Len(issue_q) /\ j - 1 = i /\ i \in 0 .. Len(issue_q)
      /\ j \in 0 .. Len(issue_q) /\ j # 0 /\ i \in Nat /\ j \in Nat
      /\ Chosen \subseteq 1 .. Len(issue_q)
  BY QueueType, ChosenIs DEF IInv
<1>1. sending[j] = IF j \in Chosen THEN Send(sending[i], y) ELSE sending[i]
  BY <1>0, SendingIs
<1>2. x \in Pack /\ UnitOf(x.op) \in Unit
  BY <1>0, QueueType, UnitOfType DEF IInv
<1>3. y.id = x.id /\ y.op = x.op
  BY <1>2, ListenIs DEF IInv
<1>4. scan[i] \in ScanState /\ scan[j - 1] \in ScanState
  BY <1>0, ScanInv
<1>5. /\ scan[j].room = IF Takes(j) THEN [scan[i].room EXCEPT ![UnitOf(x.op)] = @ - 1] ELSE scan[i].room
      /\ scan[i].stop => scan[j].stop
      /\ ~scan[i].stop /\ Cardinality(scan[i].places) # ISSUE_WIDTH /\ Alone(x.op) => scan[j].stop
  <2> HIDE DEF j, x
  <2>1. /\ scan[j].room = IF Takes(j) THEN [scan[j - 1].room EXCEPT ![UnitOf(issue_q[j].op)] = @ - 1]
                          ELSE scan[j - 1].room
        /\ scan[j - 1].stop => scan[j].stop
        /\ ~scan[j - 1].stop /\ Cardinality(scan[j - 1].places) # ISSUE_WIDTH /\ Alone(issue_q[j].op)
             => scan[j].stop
    BY <1>0, <1>4, ScanStep, Zenon
  <2> QED
    BY <1>0, <2>1, Zenon DEF x
<1>6. \A k \in Chosen : k <= j <=> k <= i \/ k = j
  BY <1>0
<1> HIDE DEF j, x, y
<1>7. CASE j \notin Chosen
  <2>1. \A k \in Chosen : k <= j <=> k <= i
    BY <1>6, <1>7
  <2>2. (\A u : SentTo(u, j) = SentTo(u, i)) /\ WaitingFor(j) = WaitingFor(i)
    BY <2>1 DEF SentTo, WaitingFor
  <2>3. MayIssue => scan[j].room = scan[i].room
    BY <1>0, <1>5, <1>7, ChosenIs
  <2>4. sending[j] = sending[i]
    BY <1>1, <1>7
  <2>5. SendState(j)
    BY <1>5, <2>2, <2>3, <2>4 DEF SendState
  <2> QED
    BY <2>5 DEF j
<1>8. CASE j \in Chosen
  <2> DEFINE v == UnitOf(x.op)
  <2>1. MayIssue /\ Takes(j)
    BY <1>8, ChosenIs
  <2>2. /\ ~scan[i].stop /\ Cardinality(scan[i].places) # ISSUE_WIDTH
        /\ OperandsReady(x) /\ scan[i].room[v] > 0
    BY <1>0, <2>1 DEF Takes, x
  <2>3. Loaded(y)
    BY <1>2, <2>2, ListenIs DEF IInv, y
  <2>4. \A u \in Unit : unit_cnt(u) \in Nat /\ Cardinality(SentTo(u, i)) \in Nat
    BY IssueAssumption, FS_CardinalityType DEF SendState, unit_cnt
  <2>5. Cardinality(SentTo(v, i)) < unit_cnt(v)
    BY <1>2, <2>1, <2>2, <2>4 DEF SendState
  <2>6. ~sending[i].stop
    BY <2>1, <2>2 DEF SendState
  <2>7. sending[i].fifo[v] = SentTo(v, i)
    BY <1>2 DEF SendState
  <2>8. sending[j] = [fifo    |-> [sending[i].fifo EXCEPT ![v] = @ \cup {y}],
                      waiting |-> IF Alone(x.op) THEN {x.id} ELSE sending[i].waiting,
                      stop    |-> Alone(x.op)]
    <3>1. Cardinality(sending[i].fifo[UnitOf(y.op)]) < unit_cnt(UnitOf(y.op))
      BY <1>3, <2>5, <2>7
    <3>2. sending[j] = Send(sending[i], y)
      BY <1>1, <1>8
    <3>3. UnitOf(y.op) = v /\ Alone(y.op) = Alone(x.op)
      BY <1>3
    <3> HIDE DEF v
    <3>4. Loaded(y) /\ Cardinality(sending[i].fifo[v]) < unit_cnt(v)
      BY <2>3, <3>1, <3>3, Zenon
    <3>5. sending[j] = [fifo    |-> [sending[i].fifo EXCEPT ![v] = @ \cup {y}],
                        waiting |-> IF Alone(x.op) THEN {y.id} ELSE sending[i].waiting,
                        stop    |-> ~TRUE \/ Alone(x.op)]
      BY <2>6, <3>2, <3>3, <3>4, Zenon DEF Send
    <3> QED
      BY <1>3, <3>5 DEF Alone
  <2>9. \A u : SentTo(u, j) = IF u = v THEN SentTo(u, i) \cup {y} ELSE SentTo(u, i)
    <3> TAKE u
    <3>1. CASE u = v
      <4>1. {k \in Chosen : k <= j /\ UnitOf(issue_q[k].op) = u}
              = {k \in Chosen : k <= i /\ UnitOf(issue_q[k].op) = u} \cup {j}
        BY <1>6, <1>8, <3>1 DEF x
      <4> QED
        BY <3>1, <4>1 DEF SentTo, y, x
    <3>2. CASE u # v
      <4>1. {k \in Chosen : k <= j /\ UnitOf(issue_q[k].op) = u}
              = {k \in Chosen : k <= i /\ UnitOf(issue_q[k].op) = u}
        BY <1>6, <1>8, <3>2 DEF x
      <4> QED
        BY <3>2, <4>1 DEF SentTo
    <3> QED
      BY <3>1, <3>2
  <2>10. WaitingFor(j) = IF Alone(x.op) THEN {x.id} ELSE WaitingFor(i)
    <3>1. CASE Alone(x.op)
      <4>1. Chosen = {j}
        BY <1>8, <3>1, Choice DEF x
      <4>2. {k \in Chosen : k <= j /\ Alone(issue_q[k].op)} = {j}
        BY <1>6, <3>1, <4>1 DEF x
      <4> QED
        BY <3>1, <4>2 DEF WaitingFor, x
    <3>2. CASE ~Alone(x.op)
      <4>1. {k \in Chosen : k <= j /\ Alone(issue_q[k].op)} = {k \in Chosen : k <= i /\ Alone(issue_q[k].op)}
        BY <1>6, <3>2 DEF x
      <4> QED
        BY <3>2, <4>1 DEF WaitingFor
    <3> QED
      BY <3>1, <3>2
  <2>11. y \notin SentTo(v, i)
    <3>1. y \notin fifo[v]
      <4>1. y.id \notin Ids(InUnits)
        BY <1>0, <1>3, QueueIds DEF x
      <4> QED
        BY <1>2, <4>1 DEF Ids, InUnits
    <3>2. ASSUME NEW k \in Chosen, k <= i, y = Listen(issue_q[k])
          PROVE  FALSE
      <4>1. k \in 1 .. Len(issue_q) /\ k # j
        BY <1>0, <3>2
      <4>2. issue_q[k] \in Pack
        BY <4>1, QueueType DEF IInv
      <4>3. issue_q[k].id = issue_q[j].id
        BY <1>3, <3>2, <4>2, ListenIs DEF IInv, x
      <4> QED
        BY <1>0, <4>1, <4>3, QueueIds
    <3> QED
      BY <3>1, <3>2 DEF SentTo
  <2>12. /\ IsFiniteSet(SentTo(v, i) \cup {y})
         /\ Cardinality(SentTo(v, i) \cup {y}) = Cardinality(SentTo(v, i)) + 1
    BY <1>2, <2>11, FS_AddElement DEF SendState
  <2>v. v \in Unit
    BY <1>2
  <2> HIDE DEF v
  <2>13. sending[j].fifo = [u \in Unit |-> SentTo(u, j)]
    <3>1. sending[j].fifo = [sending[i].fifo EXCEPT ![v] = SentTo(v, i) \cup {y}]
      BY <2>7, <2>8
    <3>2. sending[i].fifo = [u \in Unit |-> SentTo(u, i)]
      BY DEF SendState
    <3> QED
      BY <2>9, <3>1, <3>2
  <2>14. sending[j].waiting = WaitingFor(j)
    BY <2>8, <2>10 DEF SendState
  <2>15. \A u \in Unit : IsFiniteSet(SentTo(u, j)) /\ Cardinality(SentTo(u, j)) <= unit_cnt(u)
    <3> TAKE u \in Unit
    <3>1. CASE u = v
      <4>1. SentTo(u, j) = SentTo(v, i) \cup {y}
        BY <2>9, <3>1
      <4>2. unit_cnt(u) \in Nat /\ Cardinality(SentTo(v, i)) \in Nat
            /\ Cardinality(SentTo(v, i)) < unit_cnt(u)
        BY <2>4, <2>5, <3>1
      <4>3. Cardinality(SentTo(v, i)) + 1 <= unit_cnt(u)
        BY <4>2
      <4> QED
        BY <2>12, <4>1, <4>3
    <3>2. CASE u # v
      <4>1. SentTo(u, j) = SentTo(u, i)
        BY <2>9, <3>2
      <4> QED
        BY <4>1 DEF SendState
    <3> QED
      BY <3>1, <3>2
  <2>16. \A u \in Unit : scan[j].room[u] = unit_cnt(u) - Cardinality(SentTo(u, j))
    <3>1. scan[j].room = [scan[i].room EXCEPT ![v] = @ - 1]
      BY <1>5, <2>1 DEF v
    <3>2. scan[i].room \in [Unit -> Int]
      BY <1>4 DEF ScanState
    <3>3. \A u \in Unit : scan[i].room[u] = unit_cnt(u) - Cardinality(SentTo(u, i))
      BY <2>1 DEF SendState
    <3> TAKE u \in Unit
    <3>4. CASE u = v
      <4>1. SentTo(u, j) = SentTo(v, i) \cup {y}
        BY <2>9, <3>4
      <4>2. scan[j].room[u] = scan[i].room[u] - 1
        BY <3>1, <3>2, <3>4
      <4>3. unit_cnt(u) \in Nat /\ Cardinality(SentTo(v, i)) \in Nat
            /\ scan[i].room[u] = unit_cnt(u) - Cardinality(SentTo(v, i))
        BY <2>4, <3>3, <3>4
      <4>4. Cardinality(SentTo(u, j)) = Cardinality(SentTo(v, i)) + 1
        BY <2>12, <4>1
      <4> QED
        BY <4>2, <4>3, <4>4
    <3>5. CASE u # v
      <4>1. SentTo(u, j) = SentTo(u, i)
        BY <2>9, <3>5
      <4>2. scan[j].room[u] = scan[i].room[u]
        BY <3>1, <3>2, <3>5
      <4> QED
        BY <3>3, <4>1, <4>2
    <3> QED
      BY <3>4, <3>5
  <2>17. sending[j].stop => scan[j].stop
    BY <1>5, <2>2, <2>8
  <2>18. SendState(j)
    BY <2>13, <2>14, <2>15, <2>16, <2>17 DEF SendState
  <2> QED
    BY <2>18 DEF j
<1> QED
  BY <1>7, <1>8

\* All that is chosen is sent.
LEMMA Dispatch ==
  ASSUME IInv
  PROVE  /\ Sent.fifo = [u \in Unit |-> fifo[u] \cup
                {Listen(issue_q[k]) : k \in {k \in Chosen : UnitOf(issue_q[k].op) = u}}]
         /\ Sent.waiting = {issue_q[k].id : k \in {k \in Chosen : Alone(issue_q[k].op)}}
         /\ \A u \in Unit : IsFiniteSet(Sent.fifo[u]) /\ Cardinality(Sent.fifo[u]) <= unit_cnt(u)
<1> DEFINE n == Len(issue_q)
           S == {i \in Nat : SendState(i)}
<1>0. n \in Nat /\ Chosen \subseteq 1 .. n
  BY QueueType, ChosenIs DEF IInv
<1>1. 0 \in S
  BY SendBase
<1>2. \A i \in 0 .. n - 1 : i \in S => i + 1 \in S
  BY <1>0, SendStep
<1>3. 0 .. n \subseteq S
  <2> HIDE DEF S, n
  <2> QED
    BY <1>0, <1>1, <1>2, UpTo
<1>4. SendState(n)
  BY <1>0, <1>3
<1>5. \A k \in Chosen : k <= n
  BY <1>0
<1>6. Sent = sending[n]
  BY DEF Sent
<1> HIDE DEF n
<1>7. \A u : SentTo(u, n) = fifo[u] \cup
           {Listen(issue_q[k]) : k \in {k \in Chosen : UnitOf(issue_q[k].op) = u}}
  BY <1>5 DEF SentTo
<1>8. WaitingFor(n) = {issue_q[k].id : k \in {k \in Chosen : Alone(issue_q[k].op)}}
  BY <1>5 DEF WaitingFor
<1>9. /\ Sent.fifo = [u \in Unit |-> SentTo(u, n)] /\ Sent.waiting = WaitingFor(n)
      /\ \A u \in Unit : IsFiniteSet(SentTo(u, n)) /\ Cardinality(SentTo(u, n)) <= unit_cnt(u)
  BY <1>4, <1>6, Zenon DEF SendState
<1> QED
  BY <1>7, <1>8, <1>9

-----------------------------------------------------------------------------
(* What stays.                                                             *)

\* f says where in the queue each of those that stay among the first i was.
StayState(i, f) ==
  /\ staying[i] \in Seq(Pack) /\ Len(staying[i]) <= i
  /\ f \in [1 .. Len(staying[i]) -> (1 .. i) \ Chosen]
  /\ \A k, l \in 1 .. Len(staying[i]) : k < l => f[k] < f[l]
  /\ \A p \in (1 .. i) \ Chosen : \E k \in 1 .. Len(staying[i]) : f[k] = p
  /\ \A k \in 1 .. Len(staying[i]) : staying[i][k] = Listen(issue_q[f[k]])

LEMMA StayStep ==
  ASSUME IInv, NEW i \in 0 .. Len(issue_q) - 1, NEW f, StayState(i, f)
  PROVE  \E g : StayState(i + 1, g)
<1> DEFINE j == i + 1
           x == issue_q[j]
<1>0. /\ Len(issue_q) \in Nat /\ j \in 1 .. Len(issue_q) /\ j - 1 = i
      /\ j \in 0 .. Len(issue_q) /\ j # 0 /\ i \in Nat /\ j \in Nat
  BY QueueType DEF IInv
<1>1. staying[j] = IF j \in Chosen THEN staying[i] ELSE Append(staying[i], Listen(x))
  BY <1>0, StayingIs
<1>2. Listen(x) \in Pack
  BY <1>0, QueueType, ListenIs DEF IInv
<1>3. 1 .. j = (1 .. i) \cup {j} /\ \A p \in 1 .. i : p < j /\ p # j
  BY <1>0
<1> HIDE DEF j
<1>4. CASE j \in Chosen
  <2>1. (1 .. j) \ Chosen = (1 .. i) \ Chosen /\ staying[j] = staying[i]
    BY <1>1, <1>3, <1>4
  <2>2. Len(staying[i]) \in Nat
    BY DEF StayState
  <2>3. StayState(j, f)
    BY <1>0, <2>1, <2>2 DEF StayState
  <2> QED
    BY <2>3 DEF j
<1>5. CASE j \notin Chosen
  <2> DEFINE s == staying[i]
             n == Len(s)
             g == [k \in 1 .. n + 1 |-> IF k = n + 1 THEN j ELSE f[k]]
  <2>1. s \in Seq(Pack) /\ n \in Nat /\ n <= i
    BY DEF StayState
  <2>2. staying[j] = Append(s, Listen(x))
    BY <1>1, <1>5
  <2>3. /\ staying[j] \in Seq(Pack) /\ Len(staying[j]) = n + 1 /\ Len(staying[j]) <= j
        /\ \A k \in 1 .. n : staying[j][k] = s[k]
        /\ staying[j][n + 1] = Listen(x)
    BY <1>0, <1>2, <2>1, <2>2 DEF j
  <2>4. /\ f \in [1 .. n -> (1 .. i) \ Chosen]
        /\ \A k, l \in 1 .. n : k < l => f[k] < f[l]
        /\ \A p \in (1 .. i) \ Chosen : \E k \in 1 .. n : f[k] = p
        /\ \A k \in 1 .. n : s[k] = Listen(issue_q[f[k]])
    BY DEF StayState
  <2> HIDE DEF s, n
  <2>5. 1 .. n + 1 = (1 .. n) \cup {n + 1} /\ \A k \in 1 .. n : k # n + 1 /\ k < n + 1
    BY <2>1
  <2>6. g \in [1 .. n + 1 -> (1 .. j) \ Chosen]
    BY <1>3, <1>5, <2>4, <2>5
  <2>7. \A k, l \in 1 .. n + 1 : k < l => g[k] < g[l]
    <3> SUFFICES ASSUME NEW k \in 1 .. n + 1, NEW l \in 1 .. n + 1, k < l
                 PROVE  g[k] < g[l]
      OBVIOUS
    <3>1. k \in 1 .. n
      BY <2>1
    <3>2. g[k] = f[k] /\ f[k] \in 1 .. i
      BY <2>4, <2>5, <3>1
    <3>3. CASE l = n + 1
      BY <1>3, <3>2, <3>3
    <3>4. CASE l \in 1 .. n
      BY <2>4, <2>5, <3>1, <3>2, <3>4
    <3> QED
      BY <2>5, <3>3, <3>4
  <2>8. \A p \in (1 .. j) \ Chosen : \E k \in 1 .. n + 1 : g[k] = p
    <3> SUFFICES ASSUME NEW p \in (1 .. j) \ Chosen
                 PROVE  \E k \in 1 .. n + 1 : g[k] = p
      OBVIOUS
    <3>1. CASE p = j
      <4>1. n + 1 \in 1 .. n + 1 /\ g[n + 1] = p
        BY <2>5, <3>1
      <4> QED
        BY <4>1
    <3>2. CASE p # j
      <4>1. PICK k \in 1 .. n : f[k] = p
        BY <1>3, <2>4, <3>2
      <4>2. k \in 1 .. n + 1 /\ g[k] = p
        BY <2>5, <4>1
      <4> QED
        BY <4>2
    <3> QED
      BY <3>1, <3>2
  <2>9. \A k \in 1 .. n + 1 : staying[j][k] = Listen(issue_q[g[k]])
    <3> SUFFICES ASSUME NEW k \in 1 .. n + 1
                 PROVE  staying[j][k] = Listen(issue_q[g[k]])
      OBVIOUS
    <3>1. CASE k = n + 1
      BY <2>3, <3>1
    <3>2. CASE k \in 1 .. n
      <4>1. g[k] = f[k]
        BY <2>5, <3>2
      <4> QED
        BY <2>3, <2>4, <3>2, <4>1
    <3> QED
      BY <2>5, <3>1, <3>2
  <2> HIDE DEF g
  <2>10. StayState(j, g)
    BY <2>3, <2>6, <2>7, <2>8, <2>9 DEF StayState
  <2> QED
    BY <2>10 DEF j
<1> QED
  BY <1>4, <1>5

\* Those not chosen stay, in their order, and listen.
LEMMA StayingAre ==
  ASSUME IInv
  PROVE  \E f :
           /\ Staying \in Seq(Pack) /\ Len(Staying) <= Len(issue_q)
           /\ f \in [1 .. Len(Staying) -> (1 .. Len(issue_q)) \ Chosen]
           /\ \A k, l \in 1 .. Len(Staying) : k < l => f[k] < f[l]
           /\ \A p \in (1 .. Len(issue_q)) \ Chosen : \E k \in 1 .. Len(Staying) : f[k] = p
           /\ \A k \in 1 .. Len(Staying) : Staying[k] = Listen(issue_q[f[k]])
<1> DEFINE n == Len(issue_q)
           S == {i \in Nat : \E f : StayState(i, f)}
<1>0. n \in Nat
  BY QueueType DEF IInv
<1>1. 0 \in S
  <2> DEFINE f == [k \in 1 .. 0 |-> 0]
  <2>1. staying[0] = << >>
    BY <1>0, StayingIs
  <2>2. 1 .. 0 = {} /\ Len(<< >>) = 0 /\ << >> \in Seq(Pack)
    OBVIOUS
  <2>3. f \in [{} -> {}]
    BY <2>2
  <2> HIDE DEF f
  <2>4. StayState(0, f)
    BY <2>1, <2>2, <2>3 DEF StayState
  <2> QED
    BY <2>4
<1>2. \A i \in 0 .. n - 1 : i \in S => i + 1 \in S
  BY <1>0, StayStep
<1>3. 0 .. n \subseteq S
  <2> HIDE DEF S, n
  <2> QED
    BY <1>0, <1>1, <1>2, UpTo
<1>4. PICK f : StayState(n, f)
  BY <1>0, <1>3
<1>5. Staying = staying[n]
  BY DEF Staying
<1> QED
  BY <1>4, <1>5, Zenon DEF StayState

-----------------------------------------------------------------------------
(* The reorder buffer and the mappings.                                    *)

LEMMA Sizes ==
  /\ ROB_SIZE \in Nat \ {0} /\ ISSUE_QUEUE_SIZE \in Nat \ {0} /\ STORE_BUFFER_SIZE \in Nat \ {0}
  /\ RENAME_WIDTH \in Nat \ {0} /\ COMMIT_WIDTH \in Nat \ {0} /\ ALU_UNIT_NUM \in Nat \ {0}
BY IssueAssumption

\* The i-th entry is the first after the k-th to change the mapping of a.
First(r, k, a, i) ==
  i \in k + 1 .. Len(r) /\ r[i].arch = a /\ \A j \in k + 1 .. i - 1 : r[j].arch # a

\* Either some entry after the k-th changes the mapping of a or none does.
Either(r, m, k, a) ==
  \/ \E i \in k + 1 .. Len(r) : First(r, k, a, i) /\ MapAt(r, m, k)[a] = r[i].old
  \/ (\A i \in k + 1 .. Len(r) : r[i].arch # a) /\ MapAt(r, m, k)[a] = m[a]

LEMMA MapAtIs ==
  ASSUME NEW r \in Seq(Entry), NEW m, NEW k \in 0 .. Len(r), NEW a \in Arch
  PROVE  Either(r, m, k, a)
<1> DEFINE later == {i \in k + 1 .. Len(r) : r[i].arch = a}
           c == CHOOSE i \in later : \A j \in later : i <= j
<1>1. MapAt(r, m, k)[a] = IF later = {} THEN m[a] ELSE r[c].old
  BY DEF MapAt
<1>2. later \in SUBSET Nat
  OBVIOUS
<1>3. CASE later = {}
  BY <1>1, <1>3 DEF Either
<1>4. CASE later # {}
  <2>1. \E i \in later : \A j \in later : i <= j
    <3> HIDE DEF later
    <3> QED
      BY <1>2, <1>4, LeastElement
  <2>2. c \in later /\ \A j \in later : c <= j
    <3> HIDE DEF later
    <3> QED
      BY <2>1
  <2>3. c \in k + 1 .. Len(r) /\ r[c].arch = a
    BY <2>2
  <2>4. \A j \in k + 1 .. c - 1 : r[j].arch # a
    <3> SUFFICES ASSUME NEW j \in k + 1 .. c - 1, r[j].arch = a
                 PROVE  FALSE
      OBVIOUS
    <3> HIDE DEF c
    <3>1. j \in later /\ j < c
      BY <2>3
    <3> HIDE DEF later
    <3>2. c <= j /\ j \in Int /\ c \in Int
      BY <2>2, <2>3, <3>1
    <3> QED
      BY <3>1, <3>2
  <2>5. First(r, k, a, c)
    BY <2>3, <2>4 DEF First
  <2>6. MapAt(r, m, k)[a] = r[c].old
    BY <1>1, <1>4
  <2> HIDE DEF c, later
  <2> QED
    BY <2>3, <2>5, <2>6 DEF Either
<1> QED
  BY <1>3, <1>4

\* The same as two rules.
LEMMA MapAtRules ==
  ASSUME NEW r \in Seq(Entry), NEW m, NEW k \in 0 .. Len(r), NEW a \in Arch
  PROVE  /\ \A i : First(r, k, a, i) => MapAt(r, m, k)[a] = r[i].old
         /\ (\A i \in k + 1 .. Len(r) : r[i].arch # a) => MapAt(r, m, k)[a] = m[a]
<1>1. ASSUME NEW i, First(r, k, a, i)
      PROVE  MapAt(r, m, k)[a] = r[i].old
  <2>1. i \in k + 1 .. Len(r) /\ r[i].arch = a /\ \A j \in k + 1 .. i - 1 : r[j].arch # a
    BY <1>1 DEF First
  <2>2. PICK l \in k + 1 .. Len(r) : First(r, k, a, l) /\ MapAt(r, m, k)[a] = r[l].old
    BY <2>1, MapAtIs DEF Either
  <2>3. r[l].arch = a /\ \A j \in k + 1 .. l - 1 : r[j].arch # a
    BY <2>2 DEF First
  <2>4. ~(i < l) /\ ~(l < i)
    BY <2>1, <2>3
  <2>5. i = l
    BY <2>1, <2>4
  <2> QED
    BY <2>2, <2>5
<1>2. ASSUME \A i \in k + 1 .. Len(r) : r[i].arch # a
      PROVE  MapAt(r, m, k)[a] = m[a]
  BY <1>2, MapAtIs DEF First, Either
<1> QED
  BY <1>1, <1>2

LEMMA MapAtType ==
  ASSUME NEW r, NEW m, NEW n, Mappings(r, m, n), NEW k \in 0 .. Len(r)
  PROVE  /\ MapAt(r, m, k) \in [Arch -> Phy]
         /\ \A a \in Arch : MapAt(r, m, k)[a] \in Range(m) \cup Olds(r)
         /\ MapAt(r, m, Len(r)) = m
<1>1. r \in Seq(Entry) /\ Len(r) \in Nat /\ DOMAIN r = 1 .. Len(r) /\ m \in [Arch -> Phy]
  BY DEF Mappings
<1>2. ASSUME NEW a \in Arch
      PROVE  MapAt(r, m, k)[a] \in Phy /\ MapAt(r, m, k)[a] \in Range(m) \cup Olds(r)
  <2>1. CASE \E i \in k + 1 .. Len(r) : First(r, k, a, i) /\ MapAt(r, m, k)[a] = r[i].old
    <3>1. PICK i \in k + 1 .. Len(r) : r[i].arch = a /\ MapAt(r, m, k)[a] = r[i].old
      BY <2>1 DEF First
    <3>2. i \in DOMAIN r /\ a # NoArch
      BY <1>1, <3>1, IssueAssumption
    <3>3. r[i].old \in Phy /\ r[i].old \in Olds(r)
      BY <3>1, <3>2 DEF Mappings, Olds
    <3> QED
      BY <3>1, <3>3
  <2>2. CASE MapAt(r, m, k)[a] = m[a]
    BY <1>1, <2>2 DEF Range
  <2> QED
    BY <1>1, <2>1, <2>2, MapAtIs DEF Either
<1>3. MapAt(r, m, k) \in [Arch -> Phy]
  <2>1. MapAt(r, m, k) = [a \in Arch |-> MapAt(r, m, k)[a]]
    BY DEF MapAt
  <2> QED
    BY <1>2, <2>1
<1>4. MapAt(r, m, Len(r)) = m
  <2>1. \A a \in Arch : MapAt(r, m, Len(r))[a] = m[a]
    <3> SUFFICES ASSUME NEW a \in Arch
                 PROVE  MapAt(r, m, Len(r))[a] = m[a]
      OBVIOUS
    <3>1. Len(r) \in 0 .. Len(r) /\ \A i \in Len(r) + 1 .. Len(r) : r[i].arch # a
      BY <1>1
    <3> QED
      BY <1>1, <3>1, MapAtRules
  <2>2. MapAt(r, m, Len(r)) = [a \in Arch |-> MapAt(r, m, Len(r))[a]]
    BY DEF MapAt
  <2> QED
    BY <1>1, <2>1, <2>2
<1> QED
  BY <1>2, <1>3, <1>4

LEMMA IdAtIs ==
  ASSUME NEW r \in Seq(Entry), Len(r) <= ROB_SIZE, NEW n \in RobId, NEW i \in 1 .. Len(r)
  PROVE  /\ n + ROB_SIZE + i - Len(r) - 1 \in n .. n + ROB_SIZE - 1
         /\ IdAt(r, n, i) = IF n + ROB_SIZE + i - Len(r) - 1 < ROB_SIZE
                            THEN n + ROB_SIZE + i - Len(r) - 1 ELSE n + i - Len(r) - 1
         /\ IdAt(r, n, i) \in RobId
<1> DEFINE x == n + ROB_SIZE + i - Len(r) - 1
<1>1. /\ Len(r) \in Nat /\ ROB_SIZE \in Nat \ {0} /\ n \in 0 .. ROB_SIZE - 1
  BY Sizes DEF RobId
<1>2. x \in n .. n + ROB_SIZE - 1 /\ x \in 0 .. 2 * ROB_SIZE - 1
  BY <1>1
<1> HIDE DEF x
<1>3. x % ROB_SIZE = IF x < ROB_SIZE THEN x ELSE x - ROB_SIZE
  BY <1>1, <1>2, Remainder
<1>4. IdAt(r, n, i) = x % ROB_SIZE
  BY DEF IdAt, x
<1>5. x % ROB_SIZE \in 0 .. ROB_SIZE - 1
  BY <1>1, <1>2, <1>3
<1> QED
  BY <1>1, <1>2, <1>3, <1>4, <1>5 DEF x, RobId

LEMMA IdsDistinct ==
  ASSUME NEW r, NEW m, NEW n, Mappings(r, m, n)
  PROVE  /\ DOMAIN r = 1 .. Len(r) /\ Len(r) \in Nat
         /\ \A i \in DOMAIN r : r[i] \in Entry /\ r[i].id \in RobId
         /\ \A i, j \in DOMAIN r : r[i].id = r[j].id => i = j
<1>1. r \in Seq(Entry) /\ Len(r) <= ROB_SIZE /\ n \in RobId
  BY DEF Mappings
<1>2. DOMAIN r = 1 .. Len(r) /\ Len(r) \in Nat
  BY <1>1
<1>3. \A i \in DOMAIN r : r[i] \in Entry /\ r[i].id \in RobId
  <2>1. \A i \in DOMAIN r : r[i] \in Entry
    BY <1>1, <1>2
  <2>2. \A e \in Entry : e.id \in RobId
    BY DEF Entry
  <2> QED
    BY <2>1, <2>2
<1>4. ASSUME NEW i \in DOMAIN r, NEW j \in DOMAIN r, r[i].id = r[j].id
      PROVE  i = j
  <2>1. IdAt(r, n, i) = IdAt(r, n, j)
    BY <1>4 DEF Mappings
  <2>2. /\ n + ROB_SIZE + i - Len(r) - 1 \in n .. n + ROB_SIZE - 1
        /\ IdAt(r, n, i) = IF n + ROB_SIZE + i - Len(r) - 1 < ROB_SIZE
                           THEN n + ROB_SIZE + i - Len(r) - 1 ELSE n + i - Len(r) - 1
    BY <1>1, <1>2, IdAtIs
  <2>3. /\ n + ROB_SIZE + j - Len(r) - 1 \in n .. n + ROB_SIZE - 1
        /\ IdAt(r, n, j) = IF n + ROB_SIZE + j - Len(r) - 1 < ROB_SIZE
                           THEN n + ROB_SIZE + j - Len(r) - 1 ELSE n + j - Len(r) - 1
    BY <1>1, <1>2, IdAtIs
  <2>4. n \in 0 .. ROB_SIZE - 1 /\ ROB_SIZE \in Nat /\ Len(r) \in Nat /\ i \in Nat /\ j \in Nat
    BY <1>1, <1>2, Sizes DEF RobId
  <2>5. /\ n + ROB_SIZE + i - Len(r) - 1 < ROB_SIZE <=> n + i - Len(r) - 1 < 0
        /\ n + ROB_SIZE + j - Len(r) - 1 < ROB_SIZE <=> n + j - Len(r) - 1 < 0
    BY <2>4
  <2> DEFINE a == n + i - Len(r) - 1
             b == n + j - Len(r) - 1
  <2>a. /\ a \in Int /\ n + ROB_SIZE + i - Len(r) - 1 = a + ROB_SIZE
        /\ b \in Int /\ n + ROB_SIZE + j - Len(r) - 1 = b + ROB_SIZE
    BY <2>4, SMTT(60)
  <2>b. IdAt(r, n, i) = IF a < 0 THEN a + ROB_SIZE ELSE a
    BY <2>2, <2>5, <2>a
  <2>c. IdAt(r, n, j) = IF b < 0 THEN b + ROB_SIZE ELSE b
    BY <2>3, <2>5, <2>a
  <2>6. /\ a \in Int /\ b \in Int /\ a + ROB_SIZE \in n .. n + ROB_SIZE - 1
        /\ b + ROB_SIZE \in n .. n + ROB_SIZE - 1
        /\ (IF a < 0 THEN a + ROB_SIZE ELSE a) = (IF b < 0 THEN b + ROB_SIZE ELSE b)
    <3>1. (IF a < 0 THEN a + ROB_SIZE ELSE a) = (IF b < 0 THEN b + ROB_SIZE ELSE b)
      BY <2>1, <2>b, <2>c
    <3>2. a + ROB_SIZE \in n .. n + ROB_SIZE - 1 /\ b + ROB_SIZE \in n .. n + ROB_SIZE - 1
      BY <2>2, <2>3, <2>a
    <3> QED
      BY <2>a, <3>1, <3>2
  <2>7. a = b
    <3> HIDE DEF a, b
    <3> QED
      BY <2>4, <2>6
  <2> QED
    BY <2>4, <2>7
<1> QED
  BY <1>2, <1>3, <1>4

\* s are the entries of r that are left when the first n have gone.
Left(s, r, n) ==
  /\ Len(s) = Len(r) - n
  /\ \A i \in 1 .. Len(s) : /\ s[i].id = r[n + i].id /\ s[i].arch = r[n + i].arch
                             /\ s[i].new = r[n + i].new /\ s[i].old = r[n + i].old

LEMMA Suffix ==
  ASSUME NEW r, NEW m, NEW nx, Mappings(r, m, nx), NEW n \in 0 .. Len(r),
         NEW s \in Seq(Entry), Left(s, r, n)
  PROVE  Mappings(s, m, nx)
<1>1. /\ r \in Seq(Entry) /\ Len(r) <= ROB_SIZE /\ m \in [Arch -> Phy] /\ nx \in RobId
      /\ Len(r) \in Nat /\ DOMAIN r = 1 .. Len(r) /\ Len(s) \in Nat /\ DOMAIN s = 1 .. Len(s)
      /\ n \in Nat /\ Len(s) = Len(r) - n
  BY DEF Mappings, Left
<1>2. \A i \in DOMAIN s : n + i \in DOMAIN r /\ i \in Nat
  BY <1>1
<1>3. \A i \in DOMAIN s : s[i].id = IdAt(s, nx, i)
  <2> SUFFICES ASSUME NEW i \in DOMAIN s
               PROVE  s[i].id = IdAt(s, nx, i)
    OBVIOUS
  <2>1. nx \in Nat /\ ROB_SIZE \in Nat
    BY <1>1, Sizes DEF RobId
  <2>2. nx + ROB_SIZE + i - Len(s) - 1 = nx + ROB_SIZE + (n + i) - Len(r) - 1
    BY <1>1, <1>2, <2>1
  <2> QED
    BY <1>1, <1>2, <2>2 DEF Mappings, IdAt, Left
<1>4. ASSUME NEW k \in 0 .. Len(s)
      PROVE  n + k \in 0 .. Len(r) /\ MapAt(s, m, k) = MapAt(r, m, n + k)
  <2>1. n + k \in 0 .. Len(r)
    BY <1>1
  <2>2. ASSUME NEW a \in Arch
        PROVE  MapAt(s, m, k)[a] = MapAt(r, m, n + k)[a]
    <3>1. CASE \E i \in k + 1 .. Len(s) : First(s, k, a, i) /\ MapAt(s, m, k)[a] = s[i].old
      <4>1. PICK i \in k + 1 .. Len(s) :
              /\ s[i].arch = a /\ (\A j \in k + 1 .. i - 1 : s[j].arch # a)
              /\ MapAt(s, m, k)[a] = s[i].old
        BY <3>1 DEF First
      <4>2. i \in 1 .. Len(s) /\ n + i \in n + k + 1 .. Len(r)
        BY <1>1
      <4>3. r[n + i].arch = a /\ r[n + i].old = s[i].old
        BY <4>1, <4>2 DEF Left
      <4>4. \A j \in n + k + 1 .. n + i - 1 : r[j].arch # a
        <5> SUFFICES ASSUME NEW j \in n + k + 1 .. n + i - 1
                     PROVE  r[j].arch # a
          OBVIOUS
        <5>1. j - n \in k + 1 .. i - 1 /\ j - n \in 1 .. Len(s) /\ n + (j - n) = j
          BY <1>1, <4>2
        <5>2. s[j - n].arch # a /\ s[j - n].arch = r[n + (j - n)].arch
          BY <4>1, <5>1 DEF Left
        <5> QED
          BY <5>1, <5>2
      <4>5. First(r, n + k, a, n + i)
        BY <4>2, <4>3, <4>4, SMTT(60) DEF First
      <4>6. MapAt(r, m, n + k)[a] = r[n + i].old
        BY <1>1, <2>1, <4>5, MapAtRules
      <4> QED
        BY <4>1, <4>3, <4>6
    <3>2. CASE (\A i \in k + 1 .. Len(s) : s[i].arch # a) /\ MapAt(s, m, k)[a] = m[a]
      <4>1. \A j \in n + k + 1 .. Len(r) : r[j].arch # a
        <5> SUFFICES ASSUME NEW j \in n + k + 1 .. Len(r)
                     PROVE  r[j].arch # a
          OBVIOUS
        <5>1. j - n \in k + 1 .. Len(s) /\ j - n \in 1 .. Len(s) /\ n + (j - n) = j
          BY <1>1
        <5>2. s[j - n].arch # a /\ s[j - n].arch = r[n + (j - n)].arch
          BY <3>2, <5>1 DEF Left
        <5> QED
          BY <5>1, <5>2
      <4>2. MapAt(r, m, n + k)[a] = m[a]
        BY <1>1, <2>1, <4>1, MapAtRules
      <4> QED
        BY <3>2, <4>2
    <3>3. Either(s, m, k, a)
      BY MapAtIs
    <3> QED
      BY <3>1, <3>2, <3>3 DEF Either
  <2>3. /\ MapAt(s, m, k) = [a \in Arch |-> MapAt(s, m, k)[a]]
        /\ MapAt(r, m, n + k) = [a \in Arch |-> MapAt(r, m, n + k)[a]]
    BY DEF MapAt
  <2>4. [a \in Arch |-> MapAt(s, m, k)[a]] = [a \in Arch |-> MapAt(r, m, n + k)[a]]
    BY <2>2
  <2> QED
    BY <2>1, <2>3, <2>4, Zenon
<1>5. \A i \in DOMAIN s :
        IF s[i].arch = NoArch THEN s[i].new = NoPhy /\ s[i].old = NoPhy
        ELSE s[i].new \in Phy /\ s[i].old \in Phy
  BY <1>1, <1>2 DEF Mappings, Left
<1>6. \A i, j \in DOMAIN s : s[i].new # NoPhy /\ s[i].new = s[j].new => i = j
  <2> SUFFICES ASSUME NEW i \in DOMAIN s, NEW j \in DOMAIN s, s[i].new # NoPhy, s[i].new = s[j].new
               PROVE  i = j
    OBVIOUS
  <2>1. n + i = n + j
    BY <1>1, <1>2, SMTT(60) DEF Mappings, Left
  <2> QED
    BY <1>1, <1>2, <2>1
<1>7. \A i \in DOMAIN s : s[i].new \in Range(m) \cup {NoPhy} \cup {s[j].old : j \in i + 1 .. Len(s)}
  <2> SUFFICES ASSUME NEW i \in DOMAIN s, s[i].new \notin Range(m) \cup {NoPhy}
               PROVE  \E j \in i + 1 .. Len(s) : s[i].new = s[j].old
    OBVIOUS
  <2>1. r[n + i].new \in Range(m) \cup {NoPhy} \cup {r[j].old : j \in n + i + 1 .. Len(r)}
    BY <1>2 DEF Mappings
  <2>2. PICK j \in n + i + 1 .. Len(r) : r[j].old = s[i].new
    BY <1>1, <2>1, SMTT(60) DEF Left
  <2>3. j - n \in i + 1 .. Len(s) /\ j - n \in 1 .. Len(s) /\ n + (j - n) = j
    BY <1>1, <1>2
  <2>4. s[j - n].old = r[n + (j - n)].old
    BY <2>3 DEF Left
  <2> QED
    BY <2>2, <2>3, <2>4
<1>8. \A k \in 0 .. Len(s) : IsInjective(MapAt(s, m, k))
  BY <1>4 DEF Mappings
<1>9. \A k \in 0 .. Len(s), a \in Arch, i \in DOMAIN s : s[i].new = MapAt(s, m, k)[a] => i <= k
  <2> SUFFICES ASSUME NEW k \in 0 .. Len(s), NEW a \in Arch, NEW i \in DOMAIN s,
                      s[i].new = MapAt(s, m, k)[a]
               PROVE  i <= k
    OBVIOUS
  <2>1. r[n + i].new = MapAt(r, m, n + k)[a] /\ n + k \in 0 .. Len(r) /\ n + i \in DOMAIN r
    BY <1>1, <1>2, <1>4 DEF Left
  <2>2. n + i <= n + k
    BY <2>1 DEF Mappings
  <2> QED
    BY <1>1, <1>2, <2>2
<1>10. Len(s) <= ROB_SIZE
  BY <1>1, Sizes
<1> QED
  BY <1>1, <1>3, <1>5, <1>6, <1>7, <1>8, <1>9, <1>10, Zenon DEF Mappings

-----------------------------------------------------------------------------
(* Renaming a group.                                                       *)

\* What renaming one instruction does to the table m.
Extends(e, r, m, m2) ==
  \/ e.arch = NoArch /\ e.new = NoPhy /\ e.old = NoPhy /\ m2 = m
  \/ /\ e.arch \in Arch /\ e.new \in Phy /\ e.new \notin Range(m) \cup News(r) \cup Olds(r)
     /\ e.old = m[e.arch] /\ m2 = [m EXCEPT ![e.arch] = e.new]

Extended(e, r, m, m2) ==
  /\ m2 \in [Arch -> Phy]
  /\ IF e.arch = NoArch THEN e.new = NoPhy /\ e.old = NoPhy ELSE e.new \in Phy /\ e.old \in Phy
  /\ \A a \in Arch : m2[a] = IF a = e.arch THEN e.new ELSE m[a]
  /\ \A a \in Arch : a = e.arch => e.old = m[a]
  /\ e.new # NoPhy => e.new \notin Range(m) \cup News(r) \cup Olds(r)
  /\ IsInjective(m) => IsInjective(m2)

LEMMA ExtendsType ==
  ASSUME NEW r, NEW m \in [Arch -> Phy], NEW e, NEW m2, Extends(e, r, m, m2)
  PROVE  Extended(e, r, m, m2)
<1>1. CASE e.arch = NoArch /\ e.new = NoPhy /\ e.old = NoPhy /\ m2 = m
  BY <1>1, IssueAssumption DEF Extended
<1>2. CASE /\ e.arch \in Arch /\ e.new \in Phy /\ e.new \notin Range(m) \cup News(r) \cup Olds(r)
           /\ e.old = m[e.arch] /\ m2 = [m EXCEPT ![e.arch] = e.new]
  <2>1. e.arch # NoArch /\ m2 \in [Arch -> Phy] /\ e.old \in Phy
    BY <1>2, IssueAssumption
  <2>2. \A a \in Arch : m2[a] = IF a = e.arch THEN e.new ELSE m[a]
    BY <1>2
  <2>3. \A a \in Arch : m[a] # e.new
    BY <1>2 DEF Range
  <2>4. IsInjective(m) => IsInjective(m2)
    BY <1>2, <2>1, <2>2, <2>3 DEF IsInjective
  <2> QED
    BY <1>2, <2>1, <2>2, <2>4 DEF Extended
<1> QED
  BY <1>1, <1>2 DEF Extends

LEMMA AppendMapAt ==
  ASSUME NEW r, NEW m, NEW nx, Mappings(r, m, nx), NEW e \in Entry, NEW m2, Extends(e, r, m, m2)
  PROVE  /\ \A k \in 0 .. Len(r) : MapAt(Append(r, e), m2, k) = MapAt(r, m, k)
         /\ MapAt(Append(r, e), m2, Len(r) + 1) = m2
<1> DEFINE s == Append(r, e)
           L == Len(r)
<1>1. r \in Seq(Entry) /\ L \in Nat /\ m \in [Arch -> Phy]
  BY DEF Mappings
<1>2. /\ s \in Seq(Entry) /\ Len(s) = L + 1 /\ s[L + 1] = e
      /\ \A i \in 1 .. L : s[i] = r[i]
  BY <1>1
<1> HIDE DEF s, L
<1>e. Extended(e, r, m, m2)
  BY <1>1, ExtendsType
<1>3. ASSUME NEW k \in 0 .. L, NEW a \in Arch
      PROVE  MapAt(s, m2, k)[a] = MapAt(r, m, k)[a]
  <2>1. k \in 0 .. Len(r) /\ k \in 0 .. Len(s)
    BY <1>1, <1>2 DEF L
  <2>2. Either(r, m, k, a)
    BY <1>1, <2>1, MapAtIs
  <2>3. CASE \E i \in k + 1 .. L : First(r, k, a, i) /\ MapAt(r, m, k)[a] = r[i].old
    <3>1. PICK i \in k + 1 .. L : First(r, k, a, i) /\ MapAt(r, m, k)[a] = r[i].old
      BY <2>3
    <3>2. r[i].arch = a /\ \A j \in k + 1 .. i - 1 : r[j].arch # a
      BY <3>1 DEF First
    <3>3. \A j \in k + 1 .. i : j \in 1 .. L
      BY <1>1
    <3>4. i \in 1 .. L /\ i \in k + 1 .. Len(s) /\ \A j \in k + 1 .. i - 1 : j \in k + 1 .. i
      BY <1>1, <1>2
    <3>5. s[i].arch = a /\ \A j \in k + 1 .. i - 1 : s[j].arch # a
      BY <1>2, <3>2, <3>3, <3>4
    <3>6. First(s, k, a, i)
      BY <3>4, <3>5 DEF First
    <3>7. MapAt(s, m2, k)[a] = s[i].old
      BY <1>2, <2>1, <3>6, MapAtRules
    <3> QED
      BY <1>2, <3>1, <3>4, <3>7
  <2>4. CASE (\A i \in k + 1 .. L : r[i].arch # a) /\ MapAt(r, m, k)[a] = m[a]
    <3>1. \A i \in k + 1 .. L : i \in 1 .. L /\ s[i].arch # a
      BY <1>1, <1>2, <2>4
    <3>2. CASE e.arch = a
      <4>1. First(s, k, a, L + 1)
        <5>1. PICK l \in k + 1 .. Len(s) : l = L + 1 /\ l - 1 = L
          BY <1>1, <1>2
        <5>2. \A j \in k + 1 .. l - 1 : s[j].arch # a
          BY <3>1, <5>1
        <5>3. s[l].arch = a
          BY <1>2, <3>2, <5>1
        <5>4. First(s, k, a, l)
          BY <5>2, <5>3 DEF First
        <5> QED
          BY <5>1, <5>4
      <4>2. MapAt(s, m2, k)[a] = s[L + 1].old
        BY <1>2, <2>1, <4>1, MapAtRules
      <4>3. e.old = m[a]
        BY <1>e, <3>2 DEF Extended
      <4> QED
        BY <1>2, <2>4, <4>2, <4>3
    <3>3. CASE e.arch # a
      <4>1. \A i \in k + 1 .. Len(s) : s[i].arch # a
        <5>1. \A i \in k + 1 .. Len(s) : i \in k + 1 .. L \/ i = L + 1
          BY <1>1, <1>2
        <5> QED
          BY <1>2, <3>1, <3>3, <5>1
      <4>2. MapAt(s, m2, k)[a] = m2[a]
        BY <1>2, <2>1, <4>1, MapAtRules
      <4>3. m2[a] = m[a]
        BY <1>e, <3>3 DEF Extended
      <4> QED
        BY <2>4, <4>2, <4>3
    <3> QED
      BY <3>2, <3>3
  <2> QED
    BY <2>2, <2>3, <2>4 DEF Either, L
<1>4. \A k \in 0 .. L : MapAt(s, m2, k) = MapAt(r, m, k)
  <2> TAKE k \in 0 .. L
  <2>1. /\ MapAt(s, m2, k) = [a \in Arch |-> MapAt(s, m2, k)[a]]
        /\ MapAt(r, m, k) = [a \in Arch |-> MapAt(r, m, k)[a]]
    BY DEF MapAt
  <2>2. [a \in Arch |-> MapAt(s, m2, k)[a]] = [a \in Arch |-> MapAt(r, m, k)[a]]
    BY <1>3
  <2> QED
    BY <2>1, <2>2, Zenon
<1>5. MapAt(s, m2, L + 1) = m2
  <2>1. L + 1 \in 0 .. Len(s) /\ \A i \in (L + 1) + 1 .. Len(s) : FALSE
    BY <1>1, <1>2
  <2>2. ASSUME NEW a \in Arch
        PROVE  MapAt(s, m2, L + 1)[a] = m2[a]
    BY <1>2, <2>1, MapAtRules
  <2>3. MapAt(s, m2, L + 1) = [a \in Arch |-> MapAt(s, m2, L + 1)[a]]
    BY DEF MapAt
  <2>4. m2 \in [Arch -> Phy]
    BY <1>e DEF Extended
  <2> QED
    BY <2>2, <2>3, <2>4
<1> QED
  BY <1>4, <1>5 DEF s, L

LEMMA AppendEntry ==
  ASSUME NEW r, NEW m, NEW nx, Mappings(r, m, nx), Len(r) < ROB_SIZE,
         NEW e \in Entry, e.id = nx, NEW m2, Extends(e, r, m, m2)
  PROVE  Mappings(Append(r, e), m2, (nx + 1) % ROB_SIZE)
<1> DEFINE s == Append(r, e)
           L == Len(r)
           n2 == (nx + 1) % ROB_SIZE
<1>1. /\ r \in Seq(Entry) /\ L \in Nat /\ m \in [Arch -> Phy] /\ DOMAIN r = 1 .. L
      /\ nx \in RobId /\ L < ROB_SIZE
  BY DEF Mappings
<1>2. /\ s \in Seq(Entry) /\ Len(s) = L + 1 /\ s[L + 1] = e /\ DOMAIN s = 1 .. L + 1
      /\ \A i \in 1 .. L : s[i] = r[i]
  BY <1>1
<1>3. nx \in 0 .. ROB_SIZE - 1 /\ ROB_SIZE \in Nat \ {0}
  BY <1>1, Sizes DEF RobId
<1>4. n2 = (IF nx + 1 < ROB_SIZE THEN nx + 1 ELSE 0) /\ n2 \in RobId
  <2>1. nx + 1 \in 0 .. 2 * ROB_SIZE - 1
    BY <1>3
  <2>2. n2 = IF nx + 1 < ROB_SIZE THEN nx + 1 ELSE nx + 1 - ROB_SIZE
    <3>1. PICK y \in 0 .. 2 * ROB_SIZE - 1 : y = nx + 1
      BY <2>1
    <3>2. y % ROB_SIZE = IF y < ROB_SIZE THEN y ELSE y - ROB_SIZE
      BY <1>3, Remainder
    <3> QED
      BY <1>3, <3>1, <3>2
  <2> QED
    BY <1>3, <2>2 DEF RobId
<1>5. /\ \A k \in 0 .. L : MapAt(s, m2, k) = MapAt(r, m, k)
      /\ MapAt(s, m2, L + 1) = m2
  BY AppendMapAt
<1>6. \A k \in 0 .. L : MapAt(r, m, k) \in [Arch -> Phy] /\
        \A a \in Arch : MapAt(r, m, k)[a] \in Range(m) \cup Olds(r)
  BY MapAtType
<1>7. \A k \in 0 .. L + 1 : k \in 0 .. L \/ k = L + 1
  BY <1>1
<1>8. IsInjective(m)
  BY <1>1, MapAtType DEF Mappings
<1>9. Len(s) <= ROB_SIZE
  BY <1>1, <1>2, <1>3
<1>10. /\ m2 \in [Arch -> Phy]
       /\ IF e.arch = NoArch THEN e.new = NoPhy /\ e.old = NoPhy ELSE e.new \in Phy /\ e.old \in Phy
       /\ \A a \in Arch : m2[a] = IF a = e.arch THEN e.new ELSE m[a]
       /\ \A a \in Arch : a = e.arch => e.old = m[a]
       /\ e.new # NoPhy => e.new \notin Range(m) \cup News(r) \cup Olds(r)
       /\ IsInjective(m2)
  <2>1. Extended(e, r, m, m2)
    BY <1>1, ExtendsType
  <2> QED
    BY <1>8, <2>1 DEF Extended
<1>11. \A i \in 1 .. L + 1 : i \in 1 .. L \/ i = L + 1
  BY <1>1
<1>12. L + 1 \in DOMAIN s /\ \A i \in 1 .. L : i \in DOMAIN s
  BY <1>1, <1>2
<1> HIDE DEF s, L, n2
<1>13. \A i \in DOMAIN s : s[i].id = IdAt(s, n2, i)
  <2> SUFFICES ASSUME NEW i \in DOMAIN s
               PROVE  s[i].id = IdAt(s, n2, i)
    OBVIOUS
  <2> DEFINE x == nx + ROB_SIZE + i - L - 1
             y == n2 + ROB_SIZE + i - Len(s) - 1
  <2>1. /\ y \in n2 .. n2 + ROB_SIZE - 1
        /\ IdAt(s, n2, i) = IF y < ROB_SIZE THEN y ELSE n2 + i - Len(s) - 1
    BY <1>2, <1>4, <1>9, IdAtIs
  <2>2. CASE i \in 1 .. L
    <3>1. r[i].id = IF x < ROB_SIZE THEN x ELSE nx + i - L - 1
      <4>1. r[i].id = IdAt(r, nx, i)
        BY <1>1, <2>2 DEF Mappings
      <4>2. IdAt(r, nx, i) = IF x < ROB_SIZE THEN x ELSE nx + i - L - 1
        <5>1. Len(r) <= ROB_SIZE /\ i \in 1 .. Len(r)
          BY <1>1, <1>3, <2>2 DEF L
        <5> QED
          BY <1>1, <5>1, IdAtIs DEF L
      <4> QED
        BY <4>1, <4>2
    <3>2. /\ y = IF nx + 1 < ROB_SIZE THEN x ELSE i - L - 2 + ROB_SIZE
          /\ n2 + i - Len(s) - 1 = IF nx + 1 < ROB_SIZE THEN nx + i - L - 1 ELSE i - L - 2
      BY <1>1, <1>2, <1>3, <1>4
    <3>3. CASE nx + 1 < ROB_SIZE
      BY <1>2, <2>1, <2>2, <3>1, <3>2, <3>3
    <3>4. CASE ~(nx + 1 < ROB_SIZE)
      <4>1. nx = ROB_SIZE - 1
        BY <1>3, <3>4
      <4>2. y < ROB_SIZE /\ y = nx + i - L - 1
        BY <1>1, <1>3, <2>2, <3>2, <3>4, <4>1, SMTT(60)
      <4>3. IdAt(s, n2, i) = nx + i - L - 1
        BY <2>1, <4>2
      <4>4. CASE x < ROB_SIZE
        <5>1. i - L - 2 + ROB_SIZE >= 0 /\ x = i - L - 2 + ROB_SIZE + ROB_SIZE
          BY <1>1, <1>3, <2>2, <4>1
        <5> QED
          BY <1>1, <1>3, <2>2, <4>4, <5>1
      <4>5. CASE ~(x < ROB_SIZE)
        BY <1>2, <2>2, <3>1, <4>3, <4>5
      <4> QED
        BY <4>4, <4>5
    <3> QED
      BY <3>3, <3>4
  <2>3. CASE i = L + 1
    <3>1. y = n2 + ROB_SIZE - 1 /\ n2 + i - Len(s) - 1 = n2 - 1
      BY <1>1, <1>2, <1>3, <1>4, <2>3
    <3>2. CASE nx + 1 < ROB_SIZE
      BY <1>1, <1>2, <1>3, <1>4, <2>1, <2>3, <3>1, <3>2
    <3>3. CASE ~(nx + 1 < ROB_SIZE)
      BY <1>1, <1>2, <1>3, <1>4, <2>1, <2>3, <3>1, <3>3
    <3> QED
      BY <3>2, <3>3
  <2> QED
    BY <1>2, <1>11, <2>2, <2>3
<1>14. \A i \in DOMAIN s :
         IF s[i].arch = NoArch THEN s[i].new = NoPhy /\ s[i].old = NoPhy
         ELSE s[i].new \in Phy /\ s[i].old \in Phy
  BY <1>1, <1>2, <1>10, <1>11 DEF Mappings
<1>15. \A i \in 1 .. L : e.new # NoPhy => e.new # r[i].new
  BY <1>1, <1>10 DEF News
<1>16. \A i, j \in DOMAIN s : s[i].new # NoPhy /\ s[i].new = s[j].new => i = j
  BY <1>1, <1>2, <1>11, <1>15 DEF Mappings
<1>17. \A i \in DOMAIN s : s[i].new \in Range(m2) \cup {NoPhy} \cup {s[j].old : j \in i + 1 .. Len(s)}
  <2> SUFFICES ASSUME NEW i \in DOMAIN s, s[i].new \notin {NoPhy} \cup {s[j].old : j \in i + 1 .. Len(s)}
               PROVE  s[i].new \in Range(m2)
    OBVIOUS
  <2>1. CASE i = L + 1
    <3>1. e.arch \in Arch /\ m2[e.arch] = e.new
      BY <1>2, <1>10, <2>1 DEF Entry
    <3> QED
      BY <1>2, <1>10, <2>1, <3>1 DEF Range
  <2>2. CASE i \in 1 .. L
    <3>1. r[i].new \in Range(m) \cup {NoPhy} \cup {r[j].old : j \in i + 1 .. L}
      BY <1>1, <2>2 DEF Mappings, L
    <3>2. \A j \in i + 1 .. L : s[j] = r[j] /\ j \in i + 1 .. Len(s)
      BY <1>1, <1>2, <2>2
    <3>3. r[i].new \in Range(m) /\ s[i] = r[i]
      BY <1>2, <2>2, <3>1, <3>2
    <3>4. PICK a \in Arch : m[a] = r[i].new
      BY <1>1, <3>3 DEF Range
    <3>5. L + 1 \in i + 1 .. Len(s)
      BY <1>1, <1>2, <2>2
    <3>6. a # e.arch
      BY <1>2, <1>10, <3>3, <3>4, <3>5
    <3>7. m2[a] = s[i].new
      BY <1>10, <3>3, <3>4, <3>6
    <3> QED
      BY <1>10, <3>7 DEF Range
  <2> QED
    BY <1>2, <1>11, <2>1, <2>2
<1>18. \A k \in 0 .. Len(s) : IsInjective(MapAt(s, m2, k))
  BY <1>1, <1>2, <1>5, <1>7, <1>10 DEF Mappings, L
<1>19. \A k \in 0 .. Len(s), a \in Arch, i \in DOMAIN s : s[i].new = MapAt(s, m2, k)[a] => i <= k
  <2> SUFFICES ASSUME NEW k \in 0 .. Len(s), NEW a \in Arch, NEW i \in DOMAIN s,
                      s[i].new = MapAt(s, m2, k)[a]
               PROVE  i <= k
    OBVIOUS
  <2>1. CASE k = L + 1
    BY <1>1, <1>2, <2>1
  <2>2. CASE k \in 0 .. L /\ i \in 1 .. L
    <3>1. r[i].new = MapAt(r, m, k)[a]
      BY <1>2, <1>5, <2>2
    <3> QED
      BY <1>1, <2>2, <3>1 DEF Mappings, L
  <2>3. CASE k \in 0 .. L /\ i = L + 1
    <3>1. e.new = MapAt(r, m, k)[a]
      BY <1>2, <1>5, <2>3
    <3>2. e.new \in Phy /\ e.new \in Range(m) \cup Olds(r)
      BY <1>6, <2>3, <3>1
    <3> QED
      BY <1>10, <3>2, NotPhy
  <2> QED
    BY <1>2, <1>7, <1>11, <2>1, <2>2, <2>3
<1>20. Mappings(s, m2, n2)
  BY <1>2, <1>4, <1>9, <1>10, <1>13, <1>14, <1>16, <1>17, <1>18, <1>19, Zenon DEF Mappings
<1> QED
  BY <1>20 DEF s, n2

\* The registers that a reorder buffer and a table know of.
Used(r, m) == Range(m) \cup Olds(r) \cup News(r)

\* An instruction in the port and its entry.
Joined(x, e) ==
  /\ x.id = e.id /\ x.op = e.op /\ x.rd = e.new /\ e.finish = "no"
  /\ Right(x.src1, x.val1) /\ Right(x.src2, x.val2)
  /\ x.op = "fence" => x.val1 # Unloaded /\ x.val2 # Unloaded

Takers(group, i) == {k \in 1 .. i : group[k].rd # NoArch}

\* When the first i of the group are renamed.
GroupState(group, at, i) ==
  /\ Mappings(at.rob, at.map, at.id)
  /\ Len(at.rob) = Len(rob) + i
  /\ \A k \in 1 .. Len(rob) : at.rob[k] = rob[k]
  /\ at.port \in Seq(Pack) /\ Len(at.port) = i
  /\ \A k \in 1 .. i : Joined(at.port[k], at.rob[Len(rob) + k])
  /\ at.free \subseteq FreePhy /\ at.free \cap Used(at.rob, at.map) = {}
  /\ Cardinality(at.free) = Cardinality(FreePhy) - Cardinality(Takers(group, i))
  /\ FreePhy \ at.free \subseteq {at.rob[k].new : k \in Len(rob) + 1 .. Len(rob) + i}
  /\ Used(at.rob, at.map) \subseteq Used(rob, map) \cup (FreePhy \ at.free) \cup {NoPhy}
  /\ Used(rob, map) \subseteq Used(at.rob, at.map)

LEMMA FreeIs ==
  /\ IsFiniteSet(FreePhy) /\ FreePhy \subseteq Phy /\ FreePhy \subseteq Nat
  /\ FreePhy \cap Used(rob, map) = {} /\ FreePhy \cap released = {}
<1>1. IsFiniteSet(Phy) /\ Phy \subseteq Nat
  BY IssueAssumption, FS_Interval DEF Phy
<1>2. FreePhy \subseteq Phy
  BY DEF FreePhy
<1>3. ToSet(rob) = {rob[i] : i \in DOMAIN rob}
  BY DEF ToSet
<1>4. {e.new : e \in ToSet(rob)} = News(rob) /\ {e.old : e \in ToSet(rob)} = Olds(rob)
  BY <1>3 DEF News, Olds
<1>5. FreePhy = Phy \ (Range(map) \cup News(rob) \cup Olds(rob) \cup released)
  BY <1>4 DEF FreePhy
<1> QED
  BY <1>1, <1>2, <1>5, FS_Subset DEF Used

LEMMA TakersFinite ==
  ASSUME NEW group, NEW i \in Nat
  PROVE  /\ IsFiniteSet(Takers(group, i)) /\ Cardinality(Takers(group, i)) \in Nat
         /\ Cardinality(Takers(group, i + 1)) =
              Cardinality(Takers(group, i)) + (IF group[i + 1].rd # NoArch THEN 1 ELSE 0)
<1>1. IsFiniteSet(Takers(group, i)) /\ Cardinality(Takers(group, i)) \in Nat
  <2>1. IsFiniteSet(1 .. i) /\ Takers(group, i) \subseteq 1 .. i
    BY FS_Interval DEF Takers
  <2> QED
    BY <2>1, FS_Subset, FS_CardinalityType
<1>2. CASE group[i + 1].rd # NoArch
  <2>1. Takers(group, i + 1) = Takers(group, i) \cup {i + 1} /\ i + 1 \notin Takers(group, i)
    BY <1>2 DEF Takers
  <2> QED
    BY <1>1, <1>2, <2>1, FS_AddElement
<1>3. CASE group[i + 1].rd = NoArch
  <2>1. Takers(group, i + 1) = Takers(group, i)
    BY <1>3 DEF Takers
  <2> QED
    BY <1>1, <1>3, <2>1
<1> QED
  BY <1>1, <1>2, <1>3

LEMMA TakersGrow ==
  ASSUME NEW group, NEW i \in Nat, NEW n \in Nat, i < n, group[i + 1].rd # NoArch
  PROVE  Cardinality(Takers(group, i)) < Cardinality(Takers(group, n))
<1>1. Takers(group, i + 1) \subseteq Takers(group, n)
  BY DEF Takers
<1>2. /\ IsFiniteSet(Takers(group, n)) /\ Cardinality(Takers(group, n)) \in Nat
      /\ Cardinality(Takers(group, i)) \in Nat /\ Cardinality(Takers(group, i + 1)) \in Nat
      /\ Cardinality(Takers(group, i + 1)) = Cardinality(Takers(group, i)) + 1
  BY TakersFinite
<1>3. Cardinality(Takers(group, i + 1)) <= Cardinality(Takers(group, n))
  BY <1>1, <1>2, FS_Subset
<1> QED
  BY <1>2, <1>3

\* An instruction with a destination finds a register.
LEMMA FreeLeft ==
  ASSUME NEW group, NEW at, NEW i \in Nat, GroupState(group, at, i), i < Len(group),
         Len(group) \in Nat, DOMAIN group = 1 .. Len(group), CanRename(group),
         group[i + 1].rd # NoArch
  PROVE  Min(at.free) \in at.free
<1>1. Takers(group, Len(group)) = {k \in DOMAIN group : group[k].rd # NoArch}
  BY DEF Takers
<1>2. Cardinality(Takers(group, Len(group))) <= Cardinality(FreePhy)
  BY <1>1 DEF CanRename
<1>3. Cardinality(Takers(group, i)) < Cardinality(Takers(group, Len(group)))
  BY TakersGrow
<1>4. /\ Cardinality(Takers(group, i)) \in Nat /\ Cardinality(Takers(group, Len(group))) \in Nat
      /\ Cardinality(FreePhy) \in Nat
  BY FreeIs, TakersFinite, FS_CardinalityType
<1>5. Cardinality(at.free) # 0
  BY <1>2, <1>3, <1>4 DEF GroupState
<1>6. at.free # {}
  BY <1>5, FS_EmptySet
<1>7. at.free \in SUBSET Nat
  BY FreeIs DEF GroupState
<1> DEFINE F == at.free
<1>8. \E x \in F : \A y \in F : x <= y
  <2> HIDE DEF F
  <2>1. F # {} /\ F \in SUBSET Nat
    BY <1>6, <1>7 DEF F
  <2> QED
    BY <2>1, LeastElement
<1>9. Min(F) \in F
  <2> HIDE DEF F
  <2> QED
    BY <1>8 DEF Min
<1> QED
  BY <1>9

LEMMA RenameStep ==
  ASSUME IInv, NEW group, Len(group) \in Nat, DOMAIN group = 1 .. Len(group),
         NEW i \in Nat, i < Len(group), group[i + 1] \in Inst, CanRename(group),
         NEW at, GroupState(group, at, i)
  PROVE  GroupState(group, RenameOne(at, group[i + 1]), i + 1)
<1> DEFINE inst == group[i + 1]
           new == IF inst.rd = NoArch THEN NoPhy ELSE Min(at.free)
           e == [id |-> at.id, op |-> inst.op, arch |-> inst.rd, new |-> new,
                 old |-> Mapped(at.map, inst.rd), finish |-> "no"]
           x == [id |-> at.id, op |-> inst.op, rd |-> new,
                 src1 |-> Mapped(at.map, inst.rs1), src2 |-> Mapped(at.map, inst.rs2),
                 val1 |-> IF inst.rs1 = NoArch THEN NoPhy ELSE Unloaded,
                 val2 |-> IF inst.rs2 = NoArch THEN NoPhy ELSE Unloaded]
           m2 == IF inst.rd = NoArch THEN at.map ELSE [at.map EXCEPT ![inst.rd] = new]
           free2 == IF inst.rd = NoArch THEN at.free ELSE at.free \ {new}
           r2 == Append(at.rob, e)
           p2 == Append(at.port, x)
           to == RenameOne(at, inst)
           L == Len(rob)
<1>1. to.map = m2 /\ to.free = free2 /\ to.rob = r2 /\ to.port = p2 /\ to.id = (at.id + 1) % ROB_SIZE
  BY DEF RenameOne
<1>2. /\ inst.op \in Op /\ inst.rs1 \in Arch \cup {NoArch} /\ inst.rs2 \in Arch \cup {NoArch}
      /\ inst.rd \in Arch \cup {NoArch} /\ NoArch \notin Arch
      /\ inst.op = "fence" => inst.rs1 = NoArch /\ inst.rs2 = NoArch
  BY IssueAssumption, FenceAssumption
<1>3. /\ at.rob \in Seq(Entry) /\ at.map \in [Arch -> Phy] /\ at.id \in RobId
      /\ Mappings(at.rob, at.map, at.id) /\ Len(at.rob) = L + i /\ L \in Nat
      /\ at.port \in Seq(Pack) /\ Len(at.port) = i
  BY DEF GroupState, Mappings, IInv
<1>4. inst.rd # NoArch => new \in at.free /\ new \in Phy /\ new \in FreePhy
                          /\ new \notin Used(at.rob, at.map)
  <2>1. inst.rd # NoArch => new \in at.free
    BY FreeLeft
  <2> HIDE DEF new, inst
  <2> QED
    BY <2>1, FreeIs DEF GroupState
<1>5. new \in Source /\ NoPhy \in Source /\ Phy \subseteq Source /\ NoPhy \notin Phy
  <2>1. new = NoPhy \/ new \in Phy
    BY <1>4
  <2> HIDE DEF new
  <2> QED
    BY <2>1, NotPhy DEF Source
<1>6. \A a \in Arch \cup {NoArch} : Mapped(at.map, a) \in Source /\ (a # NoArch => Mapped(at.map, a) \in Phy)
  BY <1>3, <1>5 DEF Mapped
<1>7. e \in Entry
  <2> HIDE DEF new, inst
  <2> QED
    BY <1>2, <1>3, <1>5, <1>6 DEF Entry
<1>8. x \in Pack
  <2>1. Unloaded \in Value \cup {Unloaded} /\ NoPhy \in Value \cup {Unloaded}
    BY DEF Value
  <2> HIDE DEF new, inst
  <2> QED
    BY <1>2, <1>3, <1>5, <1>6, <2>1 DEF Pack
<1>9. Joined(x, e)
  <2>1. \A a \in Arch \cup {NoArch} :
          Right(Mapped(at.map, a), IF a = NoArch THEN NoPhy ELSE Unloaded)
    BY <1>2, <1>5, <1>6 DEF Right, Mapped
  <2>2. NoPhy # Unloaded
    BY NotPhy
  <2> HIDE DEF new, inst
  <2> QED
    BY <1>2, <2>1, <2>2 DEF Joined
<1>10. Extends(e, at.rob, at.map, m2)
  <2> HIDE DEF new, inst
  <2>1. CASE inst.rd = NoArch
    BY <1>4, <2>1 DEF Extends, Mapped, new
  <2>2. CASE inst.rd # NoArch
    BY <1>2, <1>4, <2>2 DEF Extends, Mapped, Used
  <2> QED
    BY <2>1, <2>2
<1>11. Len(at.rob) < ROB_SIZE
  <2>1. Len(rob) + Cardinality(committed) + Len(group) <= ROB_SIZE
    BY DEF CanRename
  <2>2. Cardinality(committed) \in Nat
    <3>1. committed \subseteq RobId
      BY DEF IInv, TypeOK
    <3>2. IsFiniteSet(RobId)
      BY Sizes, FS_Interval DEF RobId
    <3> QED
      BY <3>1, <3>2, FS_Subset, FS_CardinalityType
  <2> QED
    BY <1>3, <2>1, <2>2, Sizes
<1> HIDE DEF inst, new, e, x, m2, free2, to
<1>12. e.id = at.id /\ e.new = new /\ (inst.rd = NoArch => new = NoPhy)
  BY DEF e, new
<1>13. Mappings(r2, m2, (at.id + 1) % ROB_SIZE)
  BY <1>3, <1>7, <1>10, <1>11, <1>12, AppendEntry
<1>14. /\ r2 \in Seq(Entry) /\ Len(r2) = L + (i + 1) /\ r2[L + i + 1] = e
       /\ \A k \in 1 .. L + i : r2[k] = at.rob[k]
  BY <1>3, <1>7
<1>15. /\ p2 \in Seq(Pack) /\ Len(p2) = i + 1 /\ p2[i + 1] = x
       /\ \A k \in 1 .. i : p2[k] = at.port[k]
  BY <1>3, <1>8
<1> HIDE DEF r2, p2, L
<1>16. DOMAIN r2 = 1 .. L + i + 1 /\ DOMAIN at.rob = 1 .. L + i
  BY <1>3, <1>14
<1>17. \A k \in 1 .. L + i + 1 : k \in 1 .. L + i \/ k = L + i + 1
  BY <1>3
<1>18. /\ News(r2) = News(at.rob) \cup {new}
       /\ Olds(r2) = Olds(at.rob) \cup {e.old}
  <2>1. L + i + 1 \in 1 .. L + i + 1 /\ \A k \in 1 .. L + i : k \in 1 .. L + i + 1
    BY <1>3
  <2>2. News(r2) = News(at.rob) \cup {new}
    BY <1>12, <1>14, <1>16, <1>17, <2>1 DEF News
  <2>3. Olds(r2) = Olds(at.rob) \cup {e.old}
    BY <1>14, <1>16, <1>17, <2>1 DEF Olds
  <2> QED
    BY <2>2, <2>3
<1>19. Extended(e, at.rob, at.map, m2)
  BY <1>3, <1>10, ExtendsType
<1>20. /\ Range(m2) \subseteq Range(at.map) \cup {new}
       /\ Range(at.map) \subseteq Range(m2) \cup {e.old}
       /\ e.old \in Range(at.map) \cup {NoPhy}
  <2>1. Range(m2) \subseteq Range(at.map) \cup {new}
    BY <1>3, <1>12, <1>19 DEF Range, Extended
  <2>2. Range(at.map) \subseteq Range(m2) \cup {e.old}
    BY <1>3, <1>19 DEF Range, Extended
  <2>3. e.old \in Range(at.map) \cup {NoPhy}
    BY <1>3, <1>10 DEF Extends, Range
  <2> QED
    BY <2>1, <2>2, <2>3
<1>21. Used(r2, m2) \subseteq Used(at.rob, at.map) \cup {new, NoPhy}
  BY <1>18, <1>20 DEF Used
<1>22. Used(at.rob, at.map) \subseteq Used(r2, m2)
  BY <1>18, <1>20 DEF Used
<1>23. free2 \subseteq FreePhy /\ FreePhy \ free2 = (FreePhy \ at.free) \cup ({new} \ {NoPhy})
  <2>1. CASE inst.rd = NoArch
    BY <1>12, <2>1 DEF free2, GroupState
  <2>2. CASE inst.rd # NoArch
    BY <1>4, <1>5, <2>2 DEF free2, GroupState
  <2> QED
    BY <2>1, <2>2
<1>24. free2 \cap Used(r2, m2) = {}
  <2>1. NoPhy \notin free2 /\ new \notin free2
    BY <1>5, <1>12, <1>23, FreeIs DEF free2
  <2>2. free2 \subseteq at.free
    BY DEF free2
  <2> QED
    BY <1>21, <2>1, <2>2 DEF GroupState
<1>25. Cardinality(free2) = Cardinality(FreePhy) - Cardinality(Takers(group, i + 1))
  <2>1. IsFiniteSet(at.free) /\ Cardinality(at.free) \in Nat /\ Cardinality(FreePhy) \in Nat
    BY FreeIs, FS_Subset, FS_CardinalityType DEF GroupState
  <2>2. /\ Cardinality(Takers(group, i)) \in Nat
        /\ Cardinality(Takers(group, i + 1)) =
             Cardinality(Takers(group, i)) + (IF inst.rd # NoArch THEN 1 ELSE 0)
    BY TakersFinite DEF inst
  <2>3. CASE inst.rd = NoArch
    BY <2>1, <2>2, <2>3 DEF free2, GroupState
  <2>4. CASE inst.rd # NoArch
    <3>1. Cardinality(at.free \ {new}) = Cardinality(at.free) - 1
      BY <1>4, <2>1, <2>4, FS_RemoveElement
    <3> QED
      BY <2>1, <2>2, <2>4, <3>1 DEF free2, GroupState
  <2> QED
    BY <2>3, <2>4
<1>26. \A k \in 1 .. L : r2[k] = rob[k]
  <2>1. \A k \in 1 .. L : k \in 1 .. L + i
    BY <1>3
  <2> QED
    BY <1>14, <2>1 DEF GroupState, L
<1>27. \A k \in 1 .. i + 1 : Joined(p2[k], r2[L + k])
  <2> TAKE k \in 1 .. i + 1
  <2>1. CASE k = i + 1
    <3>1. L + k = L + i + 1
      BY <1>3, <2>1
    <3> QED
      BY <1>9, <1>14, <1>15, <2>1, <3>1
  <2>2. CASE k \in 1 .. i
    <3>1. L + k \in 1 .. L + i
      BY <1>3, <2>2
    <3> QED
      BY <1>14, <1>15, <2>2, <3>1 DEF GroupState, L
  <2> QED
    BY <2>1, <2>2
<1>28. FreePhy \ free2 \subseteq {r2[k].new : k \in L + 1 .. L + (i + 1)}
  <2> SUFFICES ASSUME NEW p \in FreePhy \ free2
               PROVE  \E k \in L + 1 .. L + (i + 1) : r2[k].new = p
    OBVIOUS
  <2>1. CASE p = new
    <3>1. L + i + 1 \in L + 1 .. L + (i + 1)
      BY <1>3
    <3> QED
      BY <1>12, <1>14, <2>1, <3>1
  <2>2. CASE p \in FreePhy \ at.free
    <3>1. PICK k \in L + 1 .. L + i : at.rob[k].new = p
      BY <2>2 DEF GroupState, L
    <3>2. k \in 1 .. L + i /\ k \in L + 1 .. L + (i + 1)
      BY <1>3
    <3> QED
      BY <1>14, <3>1, <3>2
  <2> QED
    BY <1>23, <2>1, <2>2
<1>29. Used(r2, m2) \subseteq Used(rob, map) \cup (FreePhy \ free2) \cup {NoPhy}
  <2>1. new = NoPhy \/ new \in FreePhy \ free2
    BY <1>4, <1>12 DEF free2
  <2> QED
    BY <1>21, <1>23, <2>1 DEF GroupState
<1>30. Used(rob, map) \subseteq Used(r2, m2)
  BY <1>22 DEF GroupState
<1>31. GroupState(group, to, i + 1)
  BY <1>1, <1>13, <1>14, <1>15, <1>23, <1>24, <1>25, <1>26, <1>27, <1>28, <1>29, <1>30
     DEF GroupState, L
<1> QED
  BY <1>31 DEF to, inst

LEMMA RenamedIs ==
  ASSUME IInv, NEW group \in Seq(Inst), CanRename(group)
  PROVE  GroupState(group, Renamed(group), Len(group))
<1> DEFINE n == Len(group)
           S == {i \in Nat : i <= n => GroupState(group, RenamedUpTo(group)[i], i)}
<1>0. n \in Nat /\ DOMAIN group = 1 .. n
  OBVIOUS
<1>1. 0 \in S
  <2> DEFINE at == [map |-> map, free |-> FreePhy, rob |-> rob, port |-> << >>, id |-> next_id]
  <2>1. RenamedUpTo(group)[0] = at
    BY <1>0, RenamedUpToIs
  <2>2. at.map = map /\ at.free = FreePhy /\ at.rob = rob /\ at.port = << >> /\ at.id = next_id
    OBVIOUS
  <2> HIDE DEF at
  <2>3. Takers(group, 0) = {} /\ Cardinality({}) = 0
    BY FS_EmptySet DEF Takers
  <2>4. Cardinality(FreePhy) \in Nat /\ FreePhy \cap Used(rob, map) = {}
    BY FreeIs, FS_CardinalityType
  <2>5. << >> \in Seq(Pack) /\ Len(<< >>) = 0 /\ \A k \in 1 .. 0 : FALSE
    OBVIOUS
  <2>6. Len(rob) \in Nat /\ Mappings(rob, map, next_id)
    BY DEF IInv, Mappings
  <2>8. /\ Len(at.rob) = Len(rob) + 0
        /\ Cardinality(at.free) = Cardinality(FreePhy) - Cardinality(Takers(group, 0))
    <3>1. Cardinality(Takers(group, 0)) = 0
      BY <2>3, Zenon
    <3>2. Len(at.rob) = Len(rob) /\ Cardinality(at.free) = Cardinality(FreePhy)
      BY <2>2, Zenon
    <3> QED
      BY <2>4, <2>6, <3>1, <3>2
  <2>9. /\ FreePhy \ at.free = {}
        /\ Used(at.rob, at.map) = Used(rob, map)
    BY <2>2
  <2>10. \A k \in 1 .. 0 : Joined(at.port[k], at.rob[Len(rob) + k])
    BY <2>5
  <2>7. GroupState(group, at, 0)
    BY <2>2, <2>4, <2>5, <2>6, <2>8, <2>9, <2>10, Zenon DEF GroupState
  <2> QED
    BY <2>1, <2>7
<1>2. ASSUME NEW i \in 0 .. n - 1, i \in S
      PROVE  i + 1 \in S
  <2> DEFINE at == RenamedUpTo(group)[i]
  <2>1. i \in Nat /\ i < n /\ i + 1 \in DOMAIN group /\ i + 1 \in 0 .. n /\ i + 1 # 0 /\ (i + 1) - 1 = i
    BY <1>0
  <2>2. GroupState(group, at, i)
    BY <1>2, <2>1
  <2>3. RenamedUpTo(group)[i + 1] = RenameOne(at, group[i + 1])
    BY <1>0, <2>1, RenamedUpToIs
  <2> HIDE DEF at
  <2>4. group[i + 1] \in Inst
    BY <2>1
  <2>5. GroupState(group, RenameOne(at, group[i + 1]), i + 1)
    BY <1>0, <2>1, <2>2, <2>4, RenameStep
  <2> QED
    BY <2>1, <2>3, <2>5
<1>3. 0 .. n \subseteq S
  <2> HIDE DEF S, n
  <2> QED
    BY <1>0, <1>1, <1>2, UpTo
<1>4. n \in S
  <2> HIDE DEF S, n
  <2>1. n \in 0 .. n
    BY <1>0
  <2> QED
    BY <1>3, <2>1
<1> QED
  BY <1>0, <1>4 DEF Renamed

-----------------------------------------------------------------------------
(* Operands.                                                               *)

Fine(x) ==
  /\ Right(x.src1, x.val1) /\ Right(x.src2, x.val2)
  /\ x.op = "fence" => x.val1 # Unloaded /\ x.val2 # Unloaded

\* The same instruction, whatever is known of its operands.
Same(x, y) ==
  /\ x.id = y.id /\ x.op = y.op /\ x.rd = y.rd /\ x.src1 = y.src1 /\ x.src2 = y.src2

\* Nothing that is on its way has been missed.
Attentive(x) == \A src \in Awaited(x) : \A r \in Results : r.rd = src => r.raised

LEMMA HeardRight ==
  ASSUME TypeOK, DataOK, NEW src \in Source, NEW val \in Value \cup {Unloaded}, Right(src, val)
  PROVE  /\ Right(src, Heard(src, val))
         /\ Heard(src, val) = Unloaded =>
              val = Unloaded /\ \A r \in Results : r.rd = src => r.raised
<1> DEFINE heard == {r \in execute_feedback_pack \cup wb_feedback_pack : r.rd = src}
           c == CHOOSE r \in heard : TRUE
<1>1. Heard(src, val) = IF val # Unloaded \/ heard = {} THEN val ELSE c.value
  BY DEF Heard
<1>2. heard = {r \in Results : r.rd = src /\ r.rd # NoPhy /\ ~r.raised}
  BY DEF execute_feedback_pack, wb_feedback_pack, Feedback, Results
<1>3. \A r \in Results : r.value = r.rd
  BY DEF DataOK
<1>4. heard # {} => c \in heard
  <2> HIDE DEF heard
  <2> QED
    OBVIOUS
<1>5. heard # {} => c.value = src
  BY <1>2, <1>3, <1>4
<1>6. src # Unloaded
  BY NotPhy
<1> HIDE DEF c
<1>7. CASE val # Unloaded
  <2>1. Heard(src, val) = val
    BY <1>1, <1>7
  <2> QED
    BY <1>7, <2>1
<1>8. CASE val = Unloaded /\ heard # {}
  <2>1. Heard(src, val) = src
    BY <1>1, <1>5, <1>8
  <2> QED
    BY <1>6, <2>1 DEF Right
<1>9. CASE val = Unloaded /\ heard = {}
  <2>1. Heard(src, val) = Unloaded
    BY <1>1, <1>9
  <2>2. src # NoPhy
    BY <1>6, <1>9 DEF Right
  <2>3. \A r \in Results : r.rd = src => r.raised
    BY <1>2, <1>9, <2>2
  <2> QED
    BY <1>9, <2>1, <2>3
<1> QED
  BY <1>7, <1>8, <1>9

LEMMA FromFileRight ==
  ASSUME TypeOK, DataOK, NEW src \in Source, NEW val \in Value \cup {Unloaded}, Right(src, val)
  PROVE  /\ FromFile(src, val) \in Value \cup {Unloaded}
         /\ Right(src, FromFile(src, val))
         /\ FromFile(src, val) = Unloaded => val = Unloaded /\ src \notin data_valid
<1>1. src \in data_valid => content[src] = src /\ content[src] \in Value
  BY DEF TypeOK, DataOK
<1>2. src # Unloaded
  BY NotPhy
<1> QED
  BY <1>1, <1>2 DEF FromFile, Right

LEMMA ListenFine ==
  ASSUME TypeOK, DataOK, NEW x \in Pack, Fine(x)
  PROVE  /\ Listen(x) \in Pack /\ Same(Listen(x), x) /\ Fine(Listen(x))
         /\ Attentive(Listen(x)) /\ Awaited(Listen(x)) \subseteq Awaited(x)
         /\ OperandsReady(x) => Listen(x).val1 = x.src1 /\ Listen(x).val2 = x.src2
<1> DEFINE y == Listen(x)
<1>1. /\ x.src1 \in Source /\ x.val1 \in Value \cup {Unloaded}
      /\ x.src2 \in Source /\ x.val2 \in Value \cup {Unloaded}
  BY DEF Pack
<1>2. /\ y \in Pack
      /\ y.id = x.id /\ y.op = x.op /\ y.rd = x.rd /\ y.src1 = x.src1 /\ y.src2 = x.src2
      /\ y.val1 = Heard(x.src1, x.val1) /\ y.val2 = Heard(x.src2, x.val2)
      /\ OperandsReady(x) => Loaded(y)
  BY ListenIs
<1> HIDE DEF y
<1>3. /\ Right(x.src1, y.val1)
      /\ y.val1 = Unloaded => x.val1 = Unloaded /\ \A r \in Results : r.rd = x.src1 => r.raised
  BY <1>1, <1>2, HeardRight DEF Fine
<1>4. /\ Right(x.src2, y.val2)
      /\ y.val2 = Unloaded => x.val2 = Unloaded /\ \A r \in Results : r.rd = x.src2 => r.raised
  BY <1>1, <1>2, HeardRight DEF Fine
<1>5. Same(y, x) /\ Fine(y)
  BY <1>2, <1>3, <1>4 DEF Same, Fine
<1>6. Attentive(y) /\ Awaited(y) \subseteq Awaited(x)
  BY <1>2, <1>3, <1>4 DEF Attentive, Awaited
<1>7. OperandsReady(x) => y.val1 = x.src1 /\ y.val2 = x.src2
  BY <1>2, <1>3, <1>4 DEF Loaded, Right
<1> QED
  BY <1>2, <1>5, <1>6, <1>7 DEF y

LEMMA ReadFine ==
  ASSUME TypeOK, DataOK, NEW x \in Pack, Fine(x)
  PROVE  /\ Read(x) \in Pack /\ Same(Read(x), x) /\ Fine(Read(x))
         /\ Attentive(Read(x)) /\ Awaited(Read(x)) \cap data_valid = {}
<1> DEFINE y == [x EXCEPT !.val1 = FromFile(x.src1, @), !.val2 = FromFile(x.src2, @)]
           v1 == FromFile(x.src1, x.val1)
           v2 == FromFile(x.src2, x.val2)
<1>1. /\ x.src1 \in Source /\ x.val1 \in Value \cup {Unloaded}
      /\ x.src2 \in Source /\ x.val2 \in Value \cup {Unloaded}
  BY DEF Pack
<1>2. /\ v1 \in Value \cup {Unloaded} /\ Right(x.src1, v1)
      /\ v1 = Unloaded => x.val1 = Unloaded /\ x.src1 \notin data_valid
  BY <1>1, FromFileRight DEF Fine
<1>3. /\ v2 \in Value \cup {Unloaded} /\ Right(x.src2, v2)
      /\ v2 = Unloaded => x.val2 = Unloaded /\ x.src2 \notin data_valid
  BY <1>1, FromFileRight DEF Fine
<1>4. y = [x EXCEPT !.val1 = v1, !.val2 = v2]
  OBVIOUS
<1> HIDE DEF v1, v2
<1>5. /\ y \in Pack /\ Same(y, x) /\ y.val1 = v1 /\ y.val2 = v2
  BY <1>2, <1>3, <1>4 DEF Pack, Same
<1>6. Read(x) = Listen(y)
  BY DEF Read
<1> HIDE DEF y
<1>7. Fine(y) /\ Awaited(y) \cap data_valid = {}
  BY <1>2, <1>3, <1>5 DEF Fine, Awaited, Same
<1>8. /\ Listen(y) \in Pack /\ Same(Listen(y), y) /\ Fine(Listen(y))
      /\ Attentive(Listen(y)) /\ Awaited(Listen(y)) \subseteq Awaited(y)
  BY <1>5, <1>7, ListenFine
<1> QED
  BY <1>5, <1>6, <1>7, <1>8 DEF Same

-----------------------------------------------------------------------------
(* What the parts of the invariant say of single instructions.             *)

\* An instruction that has not been dispatched waits before the units.
LEMMA WaitsBefore ==
  ASSUME IInv, NEW i \in DOMAIN rob, ~Dispatched(i)
  PROVE  \E x \in Before : x.id = rob[i].id /\ x.op = rob[i].op
<1>1. rob[i].id \in Unfinished
  <2>1. rob[i] \in ToSet(rob) /\ rob[i].finish = "no"
    BY DEF Dispatched, ToSet
  <2> QED
    BY <2>1 DEF Unfinished
<1>2. PICK x \in Before : x.id = rob[i].id
  BY <1>1 DEF IInv, PlacesOK, Dispatched, Ids
<1>3. PICK j \in DOMAIN rob : rob[j].id = x.id /\ rob[j].op = x.op
  BY DEF IInv, PlacesOK, Belongs
<1>4. i = j
  BY <1>2, <1>3, IdsDistinct DEF IInv
<1> QED
  BY <1>2, <1>3, <1>4

\* Of two in the buffer, one in the queue and one before the units: the one
\* nearer to the front of the buffer is in the queue, and nearer to its front.
LEMMA QueueOrder ==
  ASSUME IInv, NEW l \in 1 .. Len(issue_q), NEW j \in DOMAIN rob, rob[j].id = issue_q[l].id,
         NEW x \in Before, NEW i \in DOMAIN rob, rob[i].id = x.id, i < j
  PROVE  \E k \in 1 .. l - 1 : x = issue_q[k]
<1>0. /\ DOMAIN issue_q = 1 .. Len(issue_q) /\ Len(issue_q) \in Nat
      /\ i \in Int /\ j \in Int
  BY QueueType DEF IInv, TypeOK
<1>1. CASE x \in ToSet(issue_q)
  <2>1. PICK k \in 1 .. Len(issue_q) : x = issue_q[k]
    BY <1>0, <1>1 DEF ToSet
  <2>2. k # l
    <3> SUFFICES ASSUME k = l
                 PROVE  FALSE
      OBVIOUS
    <3>1. i = j
      BY <2>1, IdsDistinct DEF IInv
    <3> QED
      BY <1>0, <3>1
  <2>3. ~(l < k)
    <3> SUFFICES ASSUME l < k
                 PROVE  FALSE
      OBVIOUS
    <3>1. Precedes(rob, issue_q[l], issue_q[k])
      BY <1>0, <2>1 DEF IInv, PlacesOK, InOrder
    <3>2. j < i
      BY <2>1, <3>1 DEF Precedes
    <3> QED
      BY <1>0, <3>2
  <2>4. k \in 1 .. l - 1
    BY <1>0, <2>2, <2>3
  <2> QED
    BY <2>1, <2>4
<1>2. ASSUME NEW t \in {readreg_issue, rename_readreg}, x \in ToSet(t)
      PROVE  FALSE
  <2>1. PICK k \in DOMAIN t : x = t[k]
    BY <1>2 DEF ToSet
  <2>2. Behind(rob, issue_q, t)
    BY <1>2 DEF IInv, PlacesOK
  <2>3. Precedes(rob, issue_q[l], x)
    BY <1>0, <2>1, <2>2 DEF Behind
  <2>4. j < i
    BY <2>3 DEF Precedes
  <2> QED
    BY <1>0, <2>4
<1> QED
  BY <1>1, <1>2 DEF Before

-----------------------------------------------------------------------------
(* The beginning.                                                          *)

\* There are enough registers for a one-to-one map.
LEMMA SomeMap == \E m \in [Arch -> Phy] : IsInjective(m)
<1> DEFINE n == Cardinality(Arch)
<1>1. IsFiniteSet(Arch) /\ n \in Nat /\ n <= PHY_REG_NUM /\ PHY_REG_NUM \in Nat
  BY IssueAssumption, FS_CardinalityType
<1>2. PICK b : b \in Bijection(1 .. n, Arch)
  BY <1>1, FS_NatBijection, FS_CountingElements DEF ExistsBijection
<1> HIDE DEF n
<1>3. \A a \in Arch : \E i \in 1 .. n : b[i] = a
  BY <1>2 DEF Bijection, Surjection
<1> DEFINE at(a) == CHOOSE i \in 1 .. n : b[i] = a
           m == [a \in Arch |-> at(a) - 1]
<1>4. \A a \in Arch : at(a) \in 1 .. n /\ b[at(a)] = a
  BY <1>3
<1> HIDE DEF at
<1>5. m \in [Arch -> Phy]
  BY <1>1, <1>4 DEF Phy
<1>6. \A a, c \in Arch : m[a] = m[c] => a = c
  <2> SUFFICES ASSUME NEW a \in Arch, NEW c \in Arch, m[a] = m[c]
               PROVE  a = c
    OBVIOUS
  <2>1. at(a) = at(c)
    BY <1>4
  <2> QED
    BY <1>4, <2>1
<1>7. IsInjective(m)
  <2>1. DOMAIN m = Arch
    OBVIOUS
  <2> HIDE DEF m
  <2> QED
    BY <1>6, <2>1 DEF IsInjective
<1> QED
  BY <1>5, <1>7

\* The tables without an entry.
LEMMA EmptyMappings ==
  ASSUME NEW m \in [Arch -> Phy], IsInjective(m)
  PROVE  Mappings(<< >>, m, 0)
<1> DEFINE r == << >>
<1>1. r \in Seq(Entry) /\ Len(r) = 0 /\ DOMAIN r = {} /\ Len(r) <= ROB_SIZE /\ 0 \in RobId
  BY Sizes DEF RobId
<1>2. \A k \in 0 .. Len(r) : MapAt(r, m, k) = m
  <2> SUFFICES ASSUME NEW k \in 0 .. Len(r)
               PROVE  MapAt(r, m, k) = m
    OBVIOUS
  <2>1. \A a \in Arch : MapAt(r, m, k)[a] = m[a]
    <3> SUFFICES ASSUME NEW a \in Arch
                 PROVE  MapAt(r, m, k)[a] = m[a]
      OBVIOUS
    <3> HIDE DEF r
    <3>1. Either(r, m, k, a)
      BY <1>1, MapAtIs
    <3>2. k + 1 .. Len(r) = {}
      BY <1>1
    <3> QED
      BY <3>1, <3>2 DEF Either
  <2>2. MapAt(r, m, k) = [a \in Arch |-> MapAt(r, m, k)[a]]
    BY DEF MapAt
  <2> HIDE DEF r
  <2> QED
    BY <2>1, <2>2
<1> HIDE DEF r
<1>3. Mappings(r, m, 0)
  BY <1>1, <1>2 DEF Mappings
<1> QED
  BY <1>3 DEF r

\* With nothing in the machine, little is left to say.
NothingIn ==
  /\ rob = << >> /\ rename_readreg = << >> /\ readreg_issue = << >> /\ issue_q = << >>
  /\ fifo = [u \in Unit |-> {}] /\ held = {} /\ wb_port = {} /\ commit_port = {}
  /\ map \in [Arch -> Phy] /\ IsInjective(map) /\ data_valid = Range(map)
  /\ \A p \in data_valid : content[p] = p
  /\ committed = {} /\ released = {} /\ next_id = 0

AllButTypes ==
  /\ Mappings(rob, map, next_id) /\ FeedbackOK /\ PlacesOK /\ DataOK /\ ListeningOK
  /\ AloneOK /\ FenceOK /\ MemoryOK

LEMMA NothingInside == NothingIn => AllButTypes
<1> SUFFICES ASSUME NothingIn
             PROVE  AllButTypes
  OBVIOUS
<1> USE DEF NothingIn
<1>1. DOMAIN rob = {} /\ DOMAIN << >> = {} /\ ToSet(<< >>) = {}
  BY DEF ToSet
<1>2. Before = {} /\ InUnits = {} /\ Results = {} /\ Unfinished = {}
  <2>1. UNION {fifo[u] : u \in Unit} = {}
    OBVIOUS
  <2> QED
    BY <1>1, <2>1 DEF Before, InUnits, Results, Unfinished
<1>3. Mappings(rob, map, next_id)
  BY EmptyMappings
<1>4. FeedbackOK
  BY <1>1 DEF FeedbackOK
<1>5. PlacesOK
  <2>1. Ids({}) = {}
    BY DEF Ids
  <2>2. \A u \in Unit : fifo[u] = {}
    OBVIOUS
  <2>3. "lsu" \in Unit
    BY DEF Unit
  <2> QED
    BY <1>1, <1>2, <2>1, <2>2, <2>3 DEF PlacesOK, Distinct, InOrder, Behind
<1>6. DataOK
  <2>1. OperandsRight
    BY <1>2 DEF OperandsRight
  <2>2. Olds(rob) = {} /\ News(rob) = {}
    BY <1>1 DEF Olds, News
  <2> QED
    BY <1>2, <2>1, <2>2 DEF DataOK
<1>7. ListeningOK
  BY <1>1 DEF ListeningOK
<1>8. AloneOK /\ FenceOK /\ MemoryOK
  BY <1>1 DEF AloneOK, FenceOK, MemoryOK
<1> QED
  BY <1>3, <1>4, <1>5, <1>6, <1>7, <1>8 DEF AllButTypes

LEMMA InitOK ==
  ASSUME Init
  PROVE  IInv
<1>1. map \in [Arch -> Phy] /\ IsInjective(map)
  BY SomeMap DEF Init
<1>2. data_valid = Range(map) /\ content = [p \in Phy |-> p] /\ data_valid \subseteq Phy
  BY <1>1 DEF Init, Range
<1>3. AllButTypes
  <2>1. \A p \in data_valid : content[p] = p
    BY <1>2
  <2> QED
    BY <1>1, <1>2, <2>1, NothingInside DEF Init, NothingIn
<1>4. TypeOK
  <2>1. << >> \in Seq(Entry) /\ << >> \in Seq(Pack) /\ Len(<< >>) = 0
    OBVIOUS
  <2>2. content \in [Phy -> Value]
    BY <1>2 DEF Value
  <2>3. Cardinality({}) = 0
    BY FS_EmptySet
  <2>4. fifo \in [Unit -> SUBSET Pack] /\ \A u \in Unit : Cardinality(fifo[u]) <= unit_cnt(u)
    BY <2>3, Sizes DEF Init, unit_cnt
  <2>5. 0 \in RobId /\ 0 \in 0 .. STORE_BUFFER_SIZE /\ 0 <= 1
        /\ 0 <= ROB_SIZE /\ 0 <= RENAME_WIDTH /\ 0 <= ISSUE_QUEUE_SIZE /\ 0 + 0 <= STORE_BUFFER_SIZE
    BY Sizes DEF RobId
  <2>6. rob \in Seq(Entry) /\ Len(rob) <= ROB_SIZE /\ next_id \in RobId
    BY <2>1, <2>5 DEF Init
  <2>7. /\ rename_readreg \in Seq(Pack) /\ Len(rename_readreg) <= RENAME_WIDTH
        /\ readreg_issue \in Seq(Pack) /\ Len(readreg_issue) <= RENAME_WIDTH
        /\ issue_q \in Seq(Pack) /\ Len(issue_q) <= ISSUE_QUEUE_SIZE
    BY <2>1, <2>5 DEF Init
  <2>8. /\ held \subseteq Pack /\ Cardinality(held) <= 1
        /\ stores \subseteq RobId /\ draining \in 0 .. STORE_BUFFER_SIZE
        /\ Cardinality(stores) + draining <= STORE_BUFFER_SIZE
    BY <2>3, <2>5 DEF Init
  <2>9. /\ is_inst_waiting \in BOOLEAN /\ inst_waiting_rob_id \in RobId
        /\ wb_port \subseteq Result /\ commit_port \subseteq Result
        /\ committed \subseteq RobId /\ next_handle_rob_id \in RobId
        /\ released \subseteq Phy
        /\ stage \in {"commit", "execute", "issue", "readreg"}
    BY <2>5 DEF Init
  <2> QED
    BY <1>1, <1>2, <2>2, <2>4, <2>6, <2>7, <2>8, <2>9 DEF TypeOK
<1> QED
  BY <1>3, <1>4 DEF IInv, AllButTypes

-----------------------------------------------------------------------------
(* Commit and flush.                                                       *)

\* The entries that can leave have finished.
LEMMA RetirableIs ==
  ASSUME IInv
  PROVE  /\ Retirable \in 0 .. Len(rob)
         /\ \A i \in 1 .. Retirable : rob[i].finish = "ok"
<1> DEFINE busy == {i \in 1 .. Len(rob) : rob[i].finish # "ok"} \cup {Len(rob) + 1, COMMIT_WIDTH + 1}
           c == CHOOSE i \in busy : \A j \in busy : i <= j
<1>1. Len(rob) \in Nat /\ COMMIT_WIDTH \in Nat
  BY Sizes DEF IInv, TypeOK
<1>2. busy \in SUBSET Nat /\ busy # {} /\ Len(rob) + 1 \in busy /\ 0 \notin busy
  BY <1>1
<1>3. \A i \in 1 .. Len(rob) : i \notin busy => rob[i].finish = "ok"
  OBVIOUS
<1>4. Retirable = c - 1
  BY DEF Retirable
<1> HIDE DEF busy
<1>5. \E i \in busy : \A j \in busy : i <= j
  BY <1>2, LeastElement
<1>6. c \in busy /\ \A j \in busy : c <= j
  BY <1>5
<1> HIDE DEF c
<1>7. c \in Nat /\ c # 0 /\ c <= Len(rob) + 1
  BY <1>2, <1>6
<1>8. Retirable \in 0 .. Len(rob)
  BY <1>1, <1>4, <1>7
<1>9. \A i \in 1 .. Retirable : rob[i].finish = "ok"
  <2> SUFFICES ASSUME NEW i \in 1 .. Retirable
               PROVE  rob[i].finish = "ok"
    OBVIOUS
  <2>1. i \in 1 .. Len(rob) /\ i < c
    BY <1>1, <1>4, <1>7
  <2>2. i \notin busy
    BY <1>6, <1>7, <2>1
  <2> QED
    BY <1>3, <2>1, <2>2
<1> QED
  BY <1>8, <1>9

LEMMA RetiresIs ==
  ASSUME IInv, NEW n \in {0} \cup Retires
  PROVE  /\ n \in 0 .. Len(rob)
         /\ \A i \in 1 .. n : i \in DOMAIN rob /\ rob[i].finish = "ok"
<1>1. Retirable \in 0 .. Len(rob) /\ \A i \in 1 .. Retirable : rob[i].finish = "ok"
  BY RetirableIs
<1>2. n \in 0 .. Retirable
  BY <1>1 DEF Retires
<1>3. DOMAIN rob = 1 .. Len(rob) /\ Len(rob) \in Nat
  BY IdsDistinct DEF IInv
<1> QED
  BY <1>1, <1>2, <1>3

LEMMA FlushOK ==
  ASSUME IInv, NEW n \in {0} \cup Retires, Flush(n)
  PROVE  IInv'
<1>1. n \in 0 .. Len(rob) /\ \A i \in 1 .. n : i \in DOMAIN rob /\ rob[i].finish = "ok"
  BY RetiresIs
<1>2. /\ rob' = << >> /\ next_id' = 0 /\ map' = MapAt(rob, map, n) /\ data_valid' = Range(map')
      /\ rename_readreg' = << >> /\ readreg_issue' = << >> /\ issue_q' = << >>
      /\ is_inst_waiting' = FALSE /\ inst_waiting_rob_id' = inst_waiting_rob_id
      /\ fifo' = [u \in Unit |-> {}] /\ held' = {} /\ wb_port' = {} /\ commit_port' = {}
      /\ draining' = draining + Cardinality(stores \cap {e.id : e \in Gone(n)})
      /\ stores' = {} /\ content' = content /\ released' = released /\ committed' = committed
      /\ next_handle_rob_id' = next_handle_rob_id /\ stage' = stage /\ stage = "commit"
  BY DEF Flush, FlushStages, FlushTo, feedback, MapBefore, MapAt
<1>3. committed' = {} /\ released' = {}
  BY <1>2 DEF IInv, FeedbackOK
<1>4. map' \in [Arch -> Phy] /\ \A a \in Arch : map'[a] \in Range(map) \cup Olds(rob)
  BY <1>1, <1>2, MapAtType DEF IInv
<1>5. IsInjective(map')
  BY <1>1, <1>2 DEF IInv, Mappings
<1>6. data_valid' \subseteq Phy /\ \A p \in data_valid' : content'[p] = p
  <2> SUFFICES ASSUME NEW p \in data_valid'
               PROVE  p \in Phy /\ content'[p] = p
    OBVIOUS
  <2>1. PICK a \in Arch : p = map'[a]
    BY <1>2, <1>4 DEF Range
  <2>2. p \in Phy /\ p \in Range(map) \cup Olds(rob)
    BY <1>4, <2>1
  <2>3. ASSUME NEW i \in DOMAIN rob, rob[i].new = p, rob[i].finish # "ok"
        PROVE  FALSE
    <3>1. rob[i].new = MapAt(rob, map, n)[a]
      BY <1>2, <2>1, <2>3
    <3>2. i <= n
      BY <1>1, <3>1 DEF IInv, Mappings
    <3>3. i \in 1 .. n
      BY <1>1, <3>2, IdsDistinct DEF IInv
    <3> QED
      BY <1>1, <2>3, <3>3
  <2>4. content[p] = p
    BY <2>2, <2>3 DEF IInv, DataOK
  <2> QED
    BY <1>2, <2>2, <2>4
<1>7. AllButTypes'
  <2>1. NothingIn'
    BY <1>2, <1>3, <1>4, <1>5, <1>6 DEF NothingIn
  <2> QED
    BY <2>1, NothingInside, PTL
<1>8. /\ IsFiniteSet(stores) /\ Cardinality(stores) \in Nat
      /\ Cardinality(stores \cap {e.id : e \in Gone(n)}) \in Nat
      /\ Cardinality(stores \cap {e.id : e \in Gone(n)}) <= Cardinality(stores)
  <2>1. IsFiniteSet(RobId) /\ stores \subseteq RobId
    <3>1. IsFiniteSet(RobId)
      BY Sizes, FS_Interval DEF RobId
    <3> QED
      BY <3>1 DEF IInv, TypeOK
  <2>2. IsFiniteSet(stores)
    BY <2>1, FS_Subset
  <2>3. stores \cap {e.id : e \in Gone(n)} \subseteq stores
    OBVIOUS
  <2> QED
    BY <2>2, <2>3, FS_Subset, FS_CardinalityType
<1>9. /\ draining' \in 0 .. STORE_BUFFER_SIZE /\ Cardinality(stores') + draining' <= STORE_BUFFER_SIZE
  <2>1. draining \in Nat /\ Cardinality(stores) + draining <= STORE_BUFFER_SIZE /\ STORE_BUFFER_SIZE \in Nat
    BY Sizes DEF IInv, TypeOK
  <2>2. Cardinality(stores') = 0
    BY <1>2, FS_EmptySet
  <2> QED
    BY <1>2, <1>8, <2>1, <2>2
<1>10. TypeOK'
  <2>1. << >> \in Seq(Entry) /\ << >> \in Seq(Pack) /\ Len(<< >>) = 0 /\ Cardinality({}) = 0
    BY FS_EmptySet
  <2>2. (fifo \in [Unit -> SUBSET Pack] /\ \A u \in Unit : Cardinality(fifo[u]) <= unit_cnt(u))'
    BY <1>2, <2>1, Sizes DEF unit_cnt
  <2>3. 0 \in RobId /\ 0 <= 1 /\ 0 <= ROB_SIZE /\ 0 <= RENAME_WIDTH /\ 0 <= ISSUE_QUEUE_SIZE
    BY Sizes DEF RobId
  <2>4. rob' \in Seq(Entry) /\ Len(rob') <= ROB_SIZE /\ next_id' \in RobId
    BY <1>2, <2>1, <2>3
  <2>5. /\ rename_readreg' \in Seq(Pack) /\ Len(rename_readreg') <= RENAME_WIDTH
        /\ readreg_issue' \in Seq(Pack) /\ Len(readreg_issue') <= RENAME_WIDTH
        /\ issue_q' \in Seq(Pack) /\ Len(issue_q') <= ISSUE_QUEUE_SIZE
    BY <1>2, <2>1, <2>3
  <2>6. /\ content' \in [Phy -> Value] /\ is_inst_waiting' \in BOOLEAN /\ inst_waiting_rob_id' \in RobId
        /\ held' \subseteq Pack /\ Cardinality(held') <= 1
        /\ wb_port' \subseteq Result /\ commit_port' \subseteq Result /\ stores' \subseteq RobId
        /\ committed' \subseteq RobId /\ next_handle_rob_id' \in RobId /\ released' \subseteq Phy
        /\ stage' \in {"commit", "execute", "issue", "readreg"}
    BY <1>2, <2>1, <2>3 DEF IInv, TypeOK
  <2> QED
    BY <1>4, <1>5, <1>6, <1>9, <2>2, <2>4, <2>5, <2>6 DEF TypeOK
<1> QED
  BY <1>7, <1>10 DEF IInv, AllButTypes

LEMMA NotedIs ==
  ASSUME NEW e \in Entry
  PROVE  /\ Noted(e) \in Entry
         /\ Noted(e).id = e.id /\ Noted(e).op = e.op /\ Noted(e).arch = e.arch
         /\ Noted(e).new = e.new /\ Noted(e).old = e.old
         /\ Noted(e).finish = "no" <=> e.finish = "no" /\ e.id \notin Ids(commit_port)
         /\ Noted(e).finish = "ok" =>
              \/ e.finish = "ok"
              \/ \E r \in commit_port : r.id = e.id /\ ~r.raised
<1> DEFINE mine == {r \in commit_port : r.id = e.id}
           f == IF \E r \in mine : r.raised THEN "exception" ELSE "ok"
<1>1. Noted(e) = IF mine = {} THEN e ELSE [e EXCEPT !.finish = f]
  BY DEF Noted
<1>2. mine = {} <=> e.id \notin Ids(commit_port)
  BY DEF Ids
<1>3. f \in {"exception", "ok"} /\ (f = "ok" => \A r \in mine : ~r.raised)
  OBVIOUS
<1>4. mine # {} => \E r \in commit_port : r.id = e.id /\ r \in mine
  OBVIOUS
<1> HIDE DEF mine, f
<1>5. CASE mine = {}
  BY <1>1, <1>2, <1>5
<1>6. CASE mine # {}
  <2>1. /\ Noted(e) \in Entry
        /\ Noted(e).id = e.id /\ Noted(e).op = e.op /\ Noted(e).arch = e.arch
        /\ Noted(e).new = e.new /\ Noted(e).old = e.old /\ Noted(e).finish = f
    BY <1>1, <1>3, <1>6 DEF Entry
  <2> QED
    BY <1>2, <1>3, <1>4, <1>6, <2>1
<1> QED
  BY <1>5, <1>6

\* The identifier of the entry after the first n.
LEMMA NextToRetire ==
  ASSUME NEW r, NEW m, NEW nx, Mappings(r, m, nx), NEW n \in 0 .. Len(r), n < Len(r)
  PROVE  (r[1].id + n) % ROB_SIZE = r[n + 1].id
<1>1. /\ r \in Seq(Entry) /\ Len(r) \in Nat /\ Len(r) <= ROB_SIZE /\ nx \in RobId
      /\ 1 \in 1 .. Len(r) /\ n + 1 \in 1 .. Len(r) /\ DOMAIN r = 1 .. Len(r)
  BY DEF Mappings
<1>2. r[1].id = IdAt(r, nx, 1) /\ r[n + 1].id = IdAt(r, nx, n + 1)
  BY <1>1 DEF Mappings
<1>3. ROB_SIZE \in Nat \ {0} /\ nx \in 0 .. ROB_SIZE - 1
  BY <1>1, Sizes DEF RobId
<1>4. PICK v \in 0 .. 2 * ROB_SIZE - 1 : v = nx + ROB_SIZE + 1 - Len(r) - 1 /\ v + n < nx + ROB_SIZE
  BY <1>1, <1>3
<1>5. IdAt(r, nx, 1) = IF v < ROB_SIZE THEN v ELSE v - ROB_SIZE
  <2>1. IdAt(r, nx, 1) = IF nx + ROB_SIZE + 1 - Len(r) - 1 < ROB_SIZE
                         THEN nx + ROB_SIZE + 1 - Len(r) - 1 ELSE nx + 1 - Len(r) - 1
    BY <1>1, IdAtIs
  <2> QED
    BY <1>1, <1>3, <1>4, <2>1
<1>6. IdAt(r, nx, n + 1) = IF v + n < ROB_SIZE THEN v + n ELSE v + n - ROB_SIZE
  <2>1. IdAt(r, nx, n + 1) = IF nx + ROB_SIZE + (n + 1) - Len(r) - 1 < ROB_SIZE
                             THEN nx + ROB_SIZE + (n + 1) - Len(r) - 1
                             ELSE nx + (n + 1) - Len(r) - 1
    BY <1>1, IdAtIs
  <2> QED
    BY <1>1, <1>3, <1>4, <2>1
<1>7. PICK w \in 0 .. 2 * ROB_SIZE - 1 : w = r[1].id + n
  BY <1>1, <1>2, <1>3, <1>4, <1>5, SMTT(60)
<1>8. w % ROB_SIZE = IF w < ROB_SIZE THEN w ELSE w - ROB_SIZE
  BY <1>3, Remainder
<1>9. (IF w < ROB_SIZE THEN w ELSE w - ROB_SIZE)
        = (IF v + n < ROB_SIZE THEN v + n ELSE v + n - ROB_SIZE)
  <2>1. CASE v < ROB_SIZE
    BY <1>2, <1>3, <1>4, <1>5, <1>7, <2>1, SMTT(60)
  <2>2. CASE ~(v < ROB_SIZE)
    BY <1>1, <1>2, <1>3, <1>4, <1>5, <1>7, <2>2, SMTT(60)
  <2> QED
    BY <2>1, <2>2
<1> QED
  BY <1>2, <1>6, <1>7, <1>8, <1>9

LEMMA CommitOK ==
  ASSUME IInv, NEW n \in Retires, Commit(n)
  PROVE  IInv'
<1> DEFINE L == Len(rob)
           M == L - n
<1>1. /\ rob' = [i \in 1 .. M |-> Noted(rob[n + i])]
      /\ released' = {e.old : e \in Gone(n)} \ {NoPhy} /\ committed' = {e.id : e \in Gone(n)}
      /\ next_handle_rob_id' = IF rob = << >> THEN 0 ELSE (rob[1].id + n) % ROB_SIZE
      /\ commit_port' = {} /\ stage = "commit" /\ stage' = "execute"
      /\ next_id' = next_id /\ map' = map /\ data_valid' = data_valid /\ content' = content
      /\ rename_readreg' = rename_readreg /\ readreg_issue' = readreg_issue /\ issue_q' = issue_q
      /\ is_inst_waiting' = is_inst_waiting /\ inst_waiting_rob_id' = inst_waiting_rob_id
      /\ fifo' = fifo /\ held' = held /\ wb_port' = wb_port
      /\ stores' = stores /\ draining' = draining
  BY DEF Commit, regfile, ports, issuevars, units, stbuf
<1>2. /\ rob \in Seq(Entry) /\ L \in Nat /\ DOMAIN rob = 1 .. L
      /\ \A i \in 1 .. L : rob[i] \in Entry /\ rob[i].id \in RobId
      /\ \A i, j \in 1 .. L : rob[i].id = rob[j].id => i = j
  BY IdsDistinct DEF IInv, TypeOK
<1>3. n \in 0 .. L /\ M \in Nat /\ \A i \in 1 .. n : i \in 1 .. L /\ rob[i].finish = "ok"
  <2>1. n \in 0 .. Len(rob) /\ \A i \in 1 .. n : i \in DOMAIN rob /\ rob[i].finish = "ok"
    BY RetiresIs
  <2> QED
    BY <1>2, <2>1
<1> HIDE DEF L, M
<1>4. \A i \in 1 .. M : n + i \in 1 .. L /\ n + i > n
  BY <1>2, <1>3 DEF M
<1>5. rob' \in Seq(Entry) /\ Len(rob') = M /\ DOMAIN rob' = 1 .. M
  <2>1. \A i \in 1 .. M : Noted(rob[n + i]) \in Entry
    BY <1>2, <1>4, NotedIs
  <2>2. rob' \in [1 .. M -> Entry]
    BY <1>1, <2>1
  <2> QED
    BY <1>3, <2>2
<1>6. \A i \in 1 .. M :
        LET e == rob[n + i]
        IN  /\ rob'[i].id = e.id /\ rob'[i].op = e.op /\ rob'[i].arch = e.arch
            /\ rob'[i].new = e.new /\ rob'[i].old = e.old
            /\ rob'[i].finish = "no" <=> e.finish = "no" /\ e.id \notin Ids(commit_port)
            /\ rob'[i].finish = "ok" =>
                 \/ e.finish = "ok"
                 \/ \E r \in commit_port : r.id = e.id /\ ~r.raised
  <2> TAKE i \in 1 .. M
  <2>1. rob'[i] = Noted(rob[n + i]) /\ rob[n + i] \in Entry
    BY <1>1, <1>2, <1>4
  <2> QED
    BY <2>1, NotedIs
<1>7. \A j \in n + 1 .. L : j - n \in 1 .. M /\ n + (j - n) = j
  BY <1>2, <1>3 DEF M
<1>8. Gone(n) = {rob[i] : i \in 1 .. n}
  BY DEF Gone
<1>9. Mappings(rob', map', next_id')
  <2>1. Left(rob', rob, n)
    BY <1>2, <1>3, <1>5, <1>6 DEF Left, M, L
  <2>2. Mappings(rob', map, next_id)
    BY <1>2, <1>3, <1>5, <2>1, Suffix DEF IInv, L
  <2> QED
    BY <1>1, <2>2
<1>10. FeedbackOK'
  <2>1. \A i \in 1 .. M : rob'[i].id \notin committed'
    <3> SUFFICES ASSUME NEW i \in 1 .. M, NEW j \in 1 .. n, rob'[i].id = rob[j].id
                 PROVE  FALSE
      BY <1>1, <1>8
    <3>1. n + i = j
      <4>1. n + i \in 1 .. L /\ j \in 1 .. L /\ rob'[i].id = rob[n + i].id
        BY <1>3, <1>4, <1>6
      <4>2. rob[n + i].id = rob[j].id
        BY <4>1
      <4> QED
        BY <1>2, <4>1, <4>2
    <3> QED
      BY <1>3, <1>4, <3>1
  <2>2. rob' # << >> => next_handle_rob_id' = rob'[1].id
    <3> SUFFICES ASSUME rob' # << >>
                 PROVE  next_handle_rob_id' = rob'[1].id
      OBVIOUS
    <3>1. M # 0
      BY <1>5
    <3>2. n < L /\ 1 \in 1 .. M /\ rob # << >>
      <4>1. n < L /\ 1 \in 1 .. M /\ L # 0
        BY <1>2, <1>3, <3>1 DEF M
      <4> QED
        BY <4>1 DEF L
    <3>3. (rob[1].id + n) % ROB_SIZE = rob[n + 1].id
      BY <1>3, <3>2, NextToRetire DEF IInv, L
    <3> QED
      BY <1>1, <1>6, <3>2, <3>3
  <2> QED
    BY <1>1, <1>5, <2>1, <2>2 DEF FeedbackOK
<1>11. Before' = Before /\ InUnits' = InUnits /\ Results' = wb_port
  BY <1>1 DEF Before, InUnits, Results
<1>12. ASSUME NEW i \in 1 .. L, rob[i].finish = "no"
       PROVE  i \in n + 1 .. L
  BY <1>2, <1>3, <1>12
<1>13. PlacesOK'
  <2>1. ASSUME NEW x \in Before \cup InUnits \cup wb_port
        PROVE  Belongs(rob', x)
    <3>1. PICK j \in 1 .. L : rob[j].id = x.id /\ rob[j].op = x.op /\ rob[j].new = x.rd /\ rob[j].finish = "no"
      BY <1>2 DEF IInv, PlacesOK, Results, Belongs
    <3>2. x.id \notin Ids(commit_port)
      BY DEF IInv, PlacesOK, Results, Ids
    <3>3. j - n \in 1 .. M /\ n + (j - n) = j
      BY <1>7, <1>12, <3>1
    <3> DEFINE i == j - n
    <3>4. i \in 1 .. M /\ rob[n + i] = rob[j]
      BY <3>3
    <3> HIDE DEF i
    <3>5. rob'[i].id = x.id /\ rob'[i].op = x.op /\ rob'[i].new = x.rd /\ rob'[i].finish = "no"
      BY <1>6, <3>1, <3>2, <3>4
    <3> QED
      BY <1>5, <3>4, <3>5 DEF Belongs
  <2>2. Unfinished' \subseteq Ids(Before) \cup Ids(InUnits) \cup Ids(wb_port)
    <3> SUFFICES ASSUME NEW id \in Unfinished'
                 PROVE  id \in Ids(Before) \cup Ids(InUnits) \cup Ids(wb_port)
      OBVIOUS
    <3>1. PICK i \in 1 .. M : rob'[i].id = id /\ rob'[i].finish = "no"
      BY <1>5 DEF Unfinished, ToSet
    <3>2. rob[n + i].id = id /\ rob[n + i].finish = "no" /\ id \notin Ids(commit_port) /\ n + i \in 1 .. L
      BY <1>4, <1>6, <3>1
    <3>3. id \in Unfinished
      BY <1>2, <3>2 DEF Unfinished, ToSet
    <3> QED
      BY <3>2, <3>3 DEF IInv, PlacesOK, Results, Ids
  <2>3. ASSUME NEW x, NEW y, Precedes(rob, x, y)
        PROVE  Precedes(rob', x, y)
    <3> SUFFICES ASSUME NEW i \in 1 .. M, NEW j \in 1 .. M, rob'[i].id = x.id, rob'[j].id = y.id
                 PROVE  i < j
      BY <1>5 DEF Precedes
    <3>1. n + i < n + j
      BY <1>2, <1>4, <1>6, <2>3 DEF Precedes
    <3> QED
      BY <1>3, <3>1
  <2>4. /\ \A s : InOrder(rob, s) => InOrder(rob', s)
        /\ \A s, t : Behind(rob, s, t) => Behind(rob', s, t)
    BY <2>3 DEF InOrder, Behind
  <2>5. /\ InOrder(rob', issue_q) /\ InOrder(rob', readreg_issue) /\ InOrder(rob', rename_readreg)
        /\ Behind(rob', issue_q, readreg_issue) /\ Behind(rob', issue_q, rename_readreg)
        /\ Behind(rob', readreg_issue, rename_readreg)
    BY <2>4 DEF IInv, PlacesOK
  <2>6. /\ Distinct(InUnits) /\ Distinct(wb_port) /\ Distinct({})
        /\ Ids(Before) \cap (Ids(InUnits) \cup Ids(wb_port)) = {}
        /\ Ids(InUnits) \cap Ids(wb_port) = {} /\ Ids({}) = {}
    BY DEF IInv, PlacesOK, Results, Ids, Distinct
  <2>7. /\ \A u \in Unit : \A x \in fifo[u] : UnitOf(x.op) = u
        /\ \A x \in held : x.op = "store"
        /\ \A x \in held, y \in fifo["lsu"] : x.id # y.id
    BY DEF IInv, PlacesOK
  <2> QED
    BY <1>1, <1>11, <2>1, <2>2, <2>5, <2>6, <2>7 DEF PlacesOK
<1>14. /\ Olds(rob) \subseteq Olds(rob') \cup released' \cup {NoPhy}
       /\ Olds(rob') \subseteq Olds(rob) /\ News(rob') \subseteq News(rob)
       /\ News(rob) \subseteq News(rob') \cup Range(map) \cup Olds(rob') \cup released' \cup {NoPhy}
  <2>1. ASSUME NEW j \in 1 .. L
        PROVE  rob[j].old \in Olds(rob') \cup released' \cup {NoPhy}
    <3>1. CASE j \in 1 .. n
      BY <1>1, <1>8, <3>1
    <3>2. CASE j \notin 1 .. n
      <4>1. PICK i \in 1 .. M : n + i = j
        <5>1. j \in n + 1 .. L
          BY <1>2, <1>3, <3>2
        <5> QED
          BY <1>7, <5>1
      <4> QED
        BY <1>5, <1>6, <4>1 DEF Olds
    <3> QED
      BY <3>1, <3>2
  <2>2. ASSUME NEW j \in 1 .. L
        PROVE  rob[j].new \in News(rob') \cup Range(map) \cup Olds(rob') \cup released' \cup {NoPhy}
    <3>1. CASE j \in 1 .. n
      <4>1. rob[j].new \in Range(map) \cup {NoPhy} \cup {rob[k].old : k \in j + 1 .. L}
        BY <1>2 DEF IInv, Mappings, L
      <4>2. \A k \in j + 1 .. L : k \in 1 .. L
        BY <1>2
      <4> QED
        BY <2>1, <4>1, <4>2
    <3>2. CASE j \notin 1 .. n
      <4>1. PICK i \in 1 .. M : n + i = j
        <5>1. j \in n + 1 .. L
          BY <1>2, <1>3, <3>2
        <5> QED
          BY <1>7, <5>1
      <4> QED
        BY <1>5, <1>6, <4>1 DEF News
    <3> QED
      BY <3>1, <3>2
  <2>3. Olds(rob') \subseteq Olds(rob) /\ News(rob') \subseteq News(rob)
    BY <1>2, <1>4, <1>5, <1>6, SMTT(60) DEF Olds, News
  <2>4. Olds(rob) \subseteq Olds(rob') \cup released' \cup {NoPhy}
    BY <1>2, <2>1 DEF Olds
  <2>5. News(rob) \subseteq News(rob') \cup Range(map) \cup Olds(rob') \cup released' \cup {NoPhy}
    BY <1>2, <2>2 DEF News
  <2> QED
    BY <2>3, <2>4, <2>5
<1>15. DataOK'
  <2>1. OperandsRight'
    BY <1>11 DEF IInv, DataOK, OperandsRight
  <2>2. data_valid \subseteq Range(map) \cup Olds(rob') \cup News(rob') \cup released'
    <3>1. NoPhy \notin data_valid /\ released = {}
      BY <1>1, NotPhy DEF IInv, TypeOK, FeedbackOK
    <3> QED
      BY <1>14, <3>1 DEF IInv, DataOK
  <2>3. ASSUME NEW p \in Phy \cap (Range(map) \cup Olds(rob') \cup News(rob')), content[p] # p
        PROVE  \E i \in 1 .. M : rob'[i].new = p /\ rob'[i].finish # "ok"
    <3>1. p \in Phy \cap (Range(map) \cup Olds(rob) \cup News(rob))
      BY <1>14
    <3>2. PICK j \in 1 .. L : rob[j].new = p /\ rob[j].finish # "ok"
      BY <1>2, <2>3, <3>1 DEF IInv, DataOK
    <3>3. PICK i \in 1 .. M : n + i = j
      BY <1>2, <1>3, <1>7, <3>2
    <3>4. ASSUME rob'[i].finish = "ok"
          PROVE  FALSE
      <4>1. PICK r \in commit_port : r.id = rob[j].id /\ ~r.raised
        BY <1>6, <3>2, <3>3, <3>4
      <4>2. PICK k \in 1 .. L : rob[k].id = r.id /\ rob[k].new = r.rd
        BY <1>2 DEF IInv, PlacesOK, Belongs, Results
      <4>3. r.rd = p
        BY <1>2, <3>2, <4>1, <4>2
      <4>4. r.rd # NoPhy
        BY <4>3, NotPhy
      <4>5. content[r.rd] = r.rd
        BY <1>1, <4>1, <4>4 DEF IInv, DataOK
      <4> QED
        BY <2>3, <4>3, <4>5
    <3> QED
      BY <1>6, <3>2, <3>3, <3>4
  <2>4. /\ \A x \in Before : Right(x.src1, x.val1) /\ Right(x.src2, x.val2)
        /\ \A x \in Before : x.op = "fence" => x.val1 # Unloaded /\ x.val2 # Unloaded
        /\ \A r \in wb_port : r.value = r.rd
        /\ \A p \in data_valid : content[p] = p
    BY DEF IInv, DataOK, Results
  <2> QED
    BY <1>1, <1>5, <1>11, <2>1, <2>2, <2>3, <2>4 DEF DataOK
<1>16. ListeningOK'
  <2>1. \A x \in ToSet(issue_q) : \A src \in Awaited(x) :
          src \notin data_valid /\ \A r \in wb_port : r.rd = src => r.raised
    BY <1>1 DEF IInv, ListeningOK, Results
  <2> QED
    BY <1>1, <1>11, <2>1 DEF ListeningOK
<1>17. \A i \in 1 .. M : /\ Dispatched(i)' <=> Dispatched(n + i)
                         /\ Executed(i)' <=> Executed(n + i)
  <2> TAKE i \in 1 .. M
  <2>1. Ids(Results) = Ids(wb_port) \cup Ids(commit_port)
    BY DEF Ids, Results
  <2>2. rob'[i].id = rob[n + i].id
        /\ (rob'[i].finish # "no" <=> rob[n + i].finish # "no" \/ rob[n + i].id \in Ids(commit_port))
    BY <1>6
  <2> QED
    BY <1>11, <2>1, <2>2 DEF Dispatched, Executed
<1>18. AloneOK'
  <2> SUFFICES ASSUME NEW i \in 1 .. M, Alone(rob'[i].op)
               PROVE  IF Dispatched(i)'
                      THEN /\ i = 1 /\ \A j \in 1 .. M \ {i} : ~Dispatched(j)'
                           /\ is_inst_waiting' /\ inst_waiting_rob_id' = rob'[i].id
                      ELSE \A j \in 1 .. M : j > i => ~Dispatched(j)'
    BY <1>5 DEF AloneOK
  <2>1. /\ n + i \in DOMAIN rob /\ Alone(rob[n + i].op)
        /\ \A j \in 1 .. M : n + j \in DOMAIN rob /\ (n + j = n + i => j = i) /\ (j > i => n + j > n + i)
    <3>1. n + i \in DOMAIN rob /\ Alone(rob[n + i].op)
      BY <1>2, <1>4, <1>6
    <3>2. \A j \in 1 .. M : n + j \in DOMAIN rob
      BY <1>2, <1>4
    <3>3. n \in Int /\ M \in Int
      BY <1>2, <1>3
    <3> QED
      BY <3>1, <3>2, <3>3
  <2>2. CASE Dispatched(n + i)
    <3>1. n + i = 1 /\ (\A j \in DOMAIN rob \ {n + i} : ~Dispatched(j))
          /\ is_inst_waiting /\ inst_waiting_rob_id = rob[n + i].id
      BY <2>1, <2>2 DEF IInv, AloneOK
    <3>2. i = 1
      BY <1>3, <3>1
    <3>3. \A j \in 1 .. M \ {i} : ~Dispatched(n + j)
      BY <2>1, <3>1
    <3> QED
      BY <1>1, <1>6, <1>17, <2>2, <3>1, <3>2, <3>3
  <2>3. CASE ~Dispatched(n + i)
    <3>1. \A j \in DOMAIN rob : j > n + i => ~Dispatched(j)
      BY <2>1, <2>3 DEF IInv, AloneOK
    <3>2. \A j \in 1 .. M : j > i => ~Dispatched(n + j)
      BY <2>1, <3>1
    <3> QED
      BY <1>17, <2>3, <3>2
  <2> QED
    BY <2>2, <2>3
<1>19. FenceOK'
  <2> SUFFICES ASSUME NEW i \in 1 .. M, rob'[i].op = "fence"
               PROVE  IF Dispatched(i)'
                      THEN i = 1 /\ draining' = 0 /\ stores' \cap committed' = {}
                      ELSE \A j \in 1 .. M : j > i => ~Dispatched(j)'
    BY <1>5 DEF FenceOK
  <2>1. /\ n + i \in DOMAIN rob /\ rob[n + i].op = "fence"
        /\ \A j \in 1 .. M : n + j \in DOMAIN rob /\ (j > i => n + j > n + i)
    <3>1. n + i \in DOMAIN rob /\ rob[n + i].op = "fence"
      BY <1>2, <1>4, <1>6
    <3>2. \A j \in 1 .. M : n + j \in DOMAIN rob
      BY <1>2, <1>4
    <3>3. n \in Int /\ M \in Int
      BY <1>2, <1>3
    <3> QED
      BY <3>1, <3>2, <3>3
  <2>2. CASE Dispatched(n + i)
    <3>1. n + i = 1 /\ draining = 0
      BY <2>1, <2>2 DEF IInv, FenceOK
    <3>2. i = 1 /\ n = 0
      BY <1>3, <3>1
    <3>3. committed' = {}
      BY <1>1, <1>8, <3>2
    <3> QED
      BY <1>1, <1>17, <2>2, <3>1, <3>2, <3>3
  <2>3. CASE ~Dispatched(n + i)
    <3>1. \A j \in DOMAIN rob : j > n + i => ~Dispatched(j)
      BY <2>1, <2>3 DEF IInv, FenceOK
    <3>2. \A j \in 1 .. M : j > i => ~Dispatched(n + j)
      BY <2>1, <3>1
    <3> QED
      BY <1>17, <2>3, <3>2
  <2> QED
    BY <2>2, <2>3
<1>20. MemoryOK'
  <2> SUFFICES ASSUME NEW i \in 1 .. M, NEW j \in 1 .. M, i < j,
                      {UnitOf(rob'[i].op), UnitOf(rob'[j].op)} = {"lsu"}, Dispatched(j)'
               PROVE  Executed(i)' \/ (rob'[i].id \in Ids(held)' /\ rob'[j].id \in Ids(fifo["lsu"])')
    BY <1>5 DEF MemoryOK
  <2>1. /\ n + i \in DOMAIN rob /\ n + j \in DOMAIN rob /\ n + i < n + j
        /\ {UnitOf(rob[n + i].op), UnitOf(rob[n + j].op)} = {"lsu"} /\ Dispatched(n + j)
    <3>1. rob'[i].op = rob[n + i].op /\ rob'[j].op = rob[n + j].op /\ Dispatched(n + j)
      BY <1>6, <1>17
    <3>2. n + i < n + j
      BY <1>2, <1>3
    <3>3. n + i \in DOMAIN rob /\ n + j \in DOMAIN rob
      BY <1>2, <1>4
    <3> QED
      BY <3>1, <3>2, <3>3
  <2>2. Executed(n + i) \/ (rob[n + i].id \in Ids(held) /\ rob[n + j].id \in Ids(fifo["lsu"]))
    BY <2>1 DEF IInv, MemoryOK
  <2> QED
    BY <1>1, <1>6, <1>17, <2>2
<1>21. TypeOK'
  <2>1. Len(rob') <= ROB_SIZE
    BY <1>2, <1>3, <1>5, Sizes DEF M, L, IInv, TypeOK
  <2>2. released' \subseteq Phy
    <3>1. \A i \in 1 .. n : rob[i].old \in Phy \cup {NoPhy}
      <4>1. \A e \in Entry : e.old \in Phy \cup {NoPhy}
        BY DEF Entry, Source
      <4> QED
        BY <1>2, <1>3, <4>1
    <3> QED
      BY <1>1, <1>8, <3>1
  <2>3. committed' \subseteq RobId
    BY <1>1, <1>2, <1>3, <1>8
  <2>4. next_handle_rob_id' \in RobId
    <3>1. CASE rob = << >>
      BY <1>1, <3>1, Sizes DEF RobId
    <3>2. CASE rob # << >>
      <4>1. rob[1].id \in Nat /\ n \in Nat /\ ROB_SIZE \in Nat \ {0}
        <5>1. 1 \in 1 .. L
          BY <1>2, <3>2 DEF L
        <5> QED
          BY <1>2, <1>3, <5>1, Sizes DEF RobId
      <4>2. (rob[1].id + n) % ROB_SIZE \in 0 .. ROB_SIZE - 1
        BY <4>1
      <4> QED
        BY <1>1, <3>2, <4>2 DEF RobId
    <3> QED
      BY <3>1, <3>2
  <2>5. map' \in [Arch -> Phy] /\ IsInjective(map')
    BY <1>1 DEF IInv, TypeOK
  <2> QED
    BY <1>1, <1>5, <2>1, <2>2, <2>3, <2>4, <2>5 DEF IInv, TypeOK
<1> QED
  BY <1>9, <1>10, <1>13, <1>15, <1>16, <1>18, <1>19, <1>20, <1>21 DEF IInv

-----------------------------------------------------------------------------
(* Execution.                                                              *)

LEMMA AtMostOne ==
  ASSUME NEW S, IsFiniteSet(S), Cardinality(S) <= 1
  PROVE  \A x, y \in S : x = y
<1> SUFFICES ASSUME NEW x \in S, NEW y \in S, x # y
             PROVE  FALSE
  OBVIOUS
<1>1. Cardinality({x, y}) = 2
  <2>1. {x, y} = {x} \cup {y} /\ y \notin {x} /\ IsFiniteSet({x}) /\ Cardinality({x}) = 1
    BY FS_Singleton
  <2> QED
    BY <2>1, FS_AddElement, SMTT(60)
<1>2. Cardinality({x, y}) <= Cardinality(S) /\ Cardinality(S) \in Nat
  BY FS_Subset, FS_CardinalityType
<1> QED
  BY <1>1, <1>2

LEMMA OneOrNone ==
  ASSUME NEW S, \A x, y \in S : x = y
  PROVE  S = {} \/ \E x \in S : S = {x}
OBVIOUS

\* Only the load/store unit executes stores, one at a time.
LEMMA ExecutingAre ==
  ASSUME IInv
  PROVE  /\ Executing \subseteq InUnits /\ held \subseteq Executing
         /\ \A x \in InUnits : x \in Pack /\ x.id \in RobId
         /\ \A x, y \in Executing : x.op = "store" /\ y.op = "store" => x = y
         /\ \A x \in held, y \in fifo["lsu"] : y \notin Executing
<1>1. Executing \subseteq InUnits /\ held \subseteq Executing
  BY DEF Executing, InUnits
<1>2. \A x \in InUnits : x \in Pack /\ x.id \in RobId
  BY DEF IInv, TypeOK, InUnits, Pack
<1>3. "lsu" \in Unit /\ unit_cnt("lsu") = 1 /\ UnitOf("store") = "lsu"
  BY DEF Unit, unit_cnt, UnitOf
<1>4. /\ \A x, y \in fifo["lsu"] : x = y
      /\ \A x, y \in held : x = y
  <2>1. /\ IsFiniteSet(fifo["lsu"]) /\ Cardinality(fifo["lsu"]) <= 1
        /\ IsFiniteSet(held) /\ Cardinality(held) <= 1
    BY <1>3, FiniteFifos DEF IInv, TypeOK
  <2> QED
    BY <2>1, AtMostOne
<1>5. \A u \in Unit : \A x \in fifo[u] : UnitOf(x.op) = u
  BY DEF IInv, PlacesOK
<1>6. ASSUME NEW x \in Executing, x.op = "store"
      PROVE  IF held = {} THEN x \in fifo["lsu"] ELSE x \in held
  BY <1>3, <1>5, <1>6 DEF Executing
<1>7. ASSUME NEW x \in held, NEW y \in fifo["lsu"], y \in Executing
      PROVE  FALSE
  <2>1. y \notin held
    BY DEF IInv, PlacesOK
  <2>2. PICK u \in Unit \ {"lsu"} : y \in fifo[u]
    BY <1>7, <2>1 DEF Executing
  <2> QED
    BY <1>3, <1>5, <2>2
<1> QED
  BY <1>1, <1>2, <1>4, <1>6, <1>7

LEMMA ExecuteOK ==
  ASSUME IInv, NEW raises, Execute(raises)
  PROVE  IInv'
<1> DEFINE Done == Executing \ Refused(raises)
           New  == {x.id : x \in {y \in Done \ raises : y.op = "store"}}
<1>1. /\ commit_port' = wb_port /\ stage = "execute" /\ stage' = "issue"
      /\ wb_port' = {ResultOf(x, x \in raises) : x \in Done}
      /\ held' = Refused(raises)
      /\ fifo' = [u \in Unit |-> fifo[u] \ Executing]
      /\ rob' = rob /\ next_id' = next_id /\ map' = map /\ released' = released
      /\ data_valid' = data_valid /\ content' = content
      /\ rename_readreg' = rename_readreg /\ readreg_issue' = readreg_issue /\ issue_q' = issue_q
      /\ is_inst_waiting' = is_inst_waiting /\ inst_waiting_rob_id' = inst_waiting_rob_id
      /\ draining' = draining /\ committed' = committed
      /\ next_handle_rob_id' = next_handle_rob_id
  BY DEF Execute, robvars, regfile, ports, issuevars, feedback
<1>2. stores' = stores \cup New
  BY DEF Execute
<1>3. commit_port = {} /\ Results = wb_port
  BY <1>1 DEF IInv, FeedbackOK, Results
<1>4. /\ Done \subseteq Executing /\ Refused(raises) \subseteq Executing
      /\ Done \cap Refused(raises) = {} /\ Executing = Done \cup Refused(raises)
      /\ \A x \in Refused(raises) : x.op = "store" /\ StoreBufferFull
      /\ \A x \in Done \ raises : x.op = "store" => ~StoreBufferFull
  BY DEF Refused
<1>5. /\ Executing \subseteq InUnits /\ held \subseteq Executing
      /\ \A x \in InUnits : x \in Pack /\ x.id \in RobId
      /\ \A x, y \in Executing : x.op = "store" /\ y.op = "store" => x = y
      /\ \A x \in held, y \in fifo["lsu"] : y \notin Executing
  BY ExecutingAre
<1> HIDE DEF Done
<1>6. \A x, y \in InUnits : x.id = y.id => x = y
  BY DEF IInv, PlacesOK, Distinct
<1>7. /\ \A u \in Unit : fifo'[u] = fifo[u] \ Executing
      /\ InUnits' = InUnits \ Done
  <2>1. \A u \in Unit : fifo'[u] = fifo[u] \ Executing
    BY <1>1
  <2>2. InUnits' = Refused(raises) \cup UNION {fifo'[u] : u \in Unit}
    BY <1>1 DEF InUnits
  <2>3. InUnits = held \cup UNION {fifo[u] : u \in Unit}
    BY DEF InUnits
  <2>4. \A x : x \in UNION {fifo'[u] : u \in Unit} <=> x \in UNION {fifo[u] : u \in Unit} /\ x \notin Executing
    BY <2>1
  <2> QED
    BY <1>4, <1>5, <2>1, <2>2, <2>3, <2>4
<1>8. \A x \in Done :
        LET r == ResultOf(x, x \in raises)
        IN  /\ r.id = x.id /\ r.op = x.op /\ r.rd = x.rd /\ r.value = r.rd /\ r \in Result
  <2> SUFFICES ASSUME NEW x \in Done
               PROVE  LET r == ResultOf(x, x \in raises)
                      IN  /\ r.id = x.id /\ r.op = x.op /\ r.rd = x.rd /\ r.value = r.rd
                          /\ r \in Result
    OBVIOUS
  <2>1. x \in InUnits /\ x \in Pack
    BY <1>4, <1>5
  <2>2. x.val1 = x.src1 /\ x.val2 = x.src2
    BY <2>1 DEF IInv, DataOK, OperandsRight
  <2>3. ResultOf(x, x \in raises)
          = [id |-> x.id, op |-> x.op, rd |-> x.rd, raised |-> x \in raises, value |-> x.rd]
    BY <2>2 DEF ResultOf
  <2>4. x.id \in RobId /\ x.op \in Op /\ x.rd \in Source /\ Source \subseteq Value
    BY <2>1 DEF Pack, Source, Value
  <2> DEFINE b == x \in raises
  <2>5. b \in BOOLEAN
    OBVIOUS
  <2> HIDE DEF b
  <2>6. ResultOf(x, b) = [id |-> x.id, op |-> x.op, rd |-> x.rd, raised |-> b, value |-> x.rd]
    BY <2>3 DEF b
  <2>7. LET r == ResultOf(x, b)
        IN  /\ r.id = x.id /\ r.op = x.op /\ r.rd = x.rd /\ r.value = r.rd /\ r \in Result
    BY <2>4, <2>5, <2>6 DEF Result
  <2> QED
    BY <2>7 DEF b
<1>9. Results' = wb_port \cup wb_port'
  BY <1>1 DEF Results
<1>10. Ids(wb_port') = Ids(Done)
  BY <1>1, <1>8 DEF Ids
<1>11. /\ Ids(InUnits') \cap Ids(Done) = {}
       /\ Ids(InUnits') \cup Ids(Done) = Ids(InUnits)
       /\ Ids(Results') = Ids(Results) \cup Ids(Done)
  BY <1>3, <1>4, <1>5, <1>6, <1>7, <1>9, <1>10 DEF Ids
<1>12. (\A i : Dispatched(i)' <=> Dispatched(i)) /\ (\A i : Executed(i) => Executed(i)')
  BY <1>1, <1>11 DEF Dispatched, Executed
<1>13. TypeOK'
  <2>1. Cardinality(held') <= 1 /\ held' \subseteq Pack
    <3>1. \A x, y \in Refused(raises) : x = y
      BY <1>4, <1>5
    <3>2. Refused(raises) = {} \/ \E x \in Refused(raises) : Refused(raises) = {x}
      BY <3>1, OneOrNone
    <3>3. Cardinality(Refused(raises)) <= 1
      BY <3>2, FS_EmptySet, FS_Singleton
    <3> QED
      BY <1>1, <1>4, <1>5, <3>3
  <2>2. fifo' \in [Unit -> SUBSET Pack] /\ \A u \in Unit : Cardinality(fifo'[u]) <= unit_cnt(u)
    <3>1. fifo' \in [Unit -> SUBSET Pack]
      BY <1>1 DEF IInv, TypeOK
    <3>2. ASSUME NEW u \in Unit
          PROVE  Cardinality(fifo'[u]) <= unit_cnt(u)
      <4>1. IsFiniteSet(fifo[u]) /\ Cardinality(fifo[u]) <= unit_cnt(u) /\ unit_cnt(u) \in Nat
        BY FiniteFifos, Sizes DEF IInv, TypeOK, unit_cnt
      <4>2. fifo'[u] \subseteq fifo[u]
        BY <1>7
      <4>3. /\ Cardinality(fifo'[u]) <= Cardinality(fifo[u])
            /\ Cardinality(fifo'[u]) \in Nat /\ Cardinality(fifo[u]) \in Nat
        BY <4>1, <4>2, FS_Subset, FS_CardinalityType
      <4> QED
        BY <4>1, <4>3
    <3> QED
      BY <3>1, <3>2
  <2>3. wb_port' \subseteq Result /\ commit_port' \subseteq Result
    BY <1>1, <1>8 DEF IInv, TypeOK
  <2>4. stores' \subseteq RobId /\ Cardinality(stores') + draining <= STORE_BUFFER_SIZE
    <3>1. /\ stores \subseteq RobId /\ draining \in Nat
          /\ Cardinality(stores) + draining <= STORE_BUFFER_SIZE
      BY DEF IInv, TypeOK
    <3>2. IsFiniteSet(stores) /\ Cardinality(stores) \in Nat
      <4>1. IsFiniteSet(RobId)
        BY Sizes, FS_Interval DEF RobId
      <4> QED
        BY <3>1, <4>1, FS_Subset, FS_CardinalityType
    <3>3. CASE \A x \in Done \ raises : x.op # "store"
      <4>1. stores' = stores
        BY <1>2, <3>3
      <4> QED
        BY <3>1, <4>1
    <3>4. ASSUME NEW x \in Done \ raises, x.op = "store"
          PROVE  /\ stores' \subseteq RobId
                 /\ Cardinality(stores') + draining <= STORE_BUFFER_SIZE
      <4>1. New = {x.id} /\ x.id \in RobId
        BY <1>4, <1>5, <3>4
      <4>2. Cardinality(stores) + draining # STORE_BUFFER_SIZE
        BY <1>4, <3>4 DEF StoreBufferFull
      <4>3. stores' = stores \cup {x.id}
        BY <1>2, <4>1
      <4>4. Cardinality(stores') <= Cardinality(stores) + 1 /\ Cardinality(stores') \in Nat
        <5>1. CASE x.id \in stores
          <6>1. stores' = stores
            BY <4>3, <5>1
          <6> QED
            BY <3>2, <6>1
        <5>2. CASE x.id \notin stores
          <6>1. Cardinality(stores \cup {x.id}) = Cardinality(stores) + 1
            BY <3>2, <5>2, FS_AddElement
          <6> QED
            BY <3>2, <4>3, <6>1
        <5> QED
          BY <5>1, <5>2
      <4> QED
        BY <3>1, <3>2, <4>1, <4>2, <4>3, <4>4, Sizes
    <3> QED
      BY <3>3, <3>4
  <2> QED
    BY <1>1, <2>1, <2>2, <2>3, <2>4 DEF IInv, TypeOK
<1>14. Mappings(rob', map', next_id')
  BY <1>1 DEF IInv
<1>15. FeedbackOK'
  BY <1>1 DEF IInv, FeedbackOK
<1>16. Before' = Before /\ Unfinished' = Unfinished
  BY <1>1 DEF Before, Unfinished
<1>17. PlacesOK'
  <2>1. ASSUME NEW x \in Before \cup InUnits' \cup Results'
        PROVE  Belongs(rob, x)
    <3>1. CASE x \in Before \cup InUnits \cup Results
      BY <3>1 DEF IInv, PlacesOK
    <3>2. CASE x \in wb_port'
      <4>1. PICK y \in Done : x = ResultOf(y, y \in raises)
        BY <1>1, <3>2
      <4>2. Belongs(rob, y)
        BY <1>4, <1>5 DEF IInv, PlacesOK
      <4> QED
        BY <1>8, <4>1, <4>2 DEF Belongs
    <3> QED
      BY <1>3, <1>7, <1>9, <2>1, <3>1, <3>2
  <2>2. Distinct(InUnits')
    BY <1>6, <1>7 DEF Distinct
  <2>3. Distinct(wb_port')
    <3> SUFFICES ASSUME NEW r \in wb_port', NEW s \in wb_port', r.id = s.id
                 PROVE  r = s
      BY DEF Distinct
    <3>1. PICK x \in Done : r = ResultOf(x, x \in raises)
      BY <1>1
    <3>2. PICK y \in Done : s = ResultOf(y, y \in raises)
      BY <1>1
    <3>3. x = y
      BY <1>4, <1>5, <1>6, <1>8, <3>1, <3>2
    <3> QED
      BY <3>1, <3>2, <3>3
  <2>4. Distinct(commit_port')
    BY <1>1 DEF IInv, PlacesOK
  <2>5. /\ Ids(Before) \cap (Ids(InUnits) \cup Ids(Results)) = {}
        /\ Ids(InUnits) \cap Ids(Results) = {}
        /\ Unfinished \subseteq Ids(Before) \cup Ids(InUnits) \cup Ids(Results)
    BY DEF IInv, PlacesOK
  <2>6. /\ Ids(Before') \cap (Ids(InUnits') \cup Ids(Results')) = {}
        /\ Ids(InUnits') \cap Ids(Results') = {}
        /\ Unfinished' \subseteq Ids(Before') \cup Ids(InUnits') \cup Ids(Results')
    BY <1>11, <1>16, <2>5
  <2>7. Ids(wb_port') \cap Ids(commit_port') = {}
    <3>1. Ids(Done) \subseteq Ids(InUnits)
      BY <1>11
    <3> QED
      BY <1>1, <1>3, <1>10, <2>5, <3>1
  <2>8. \A u \in Unit : \A x \in fifo'[u] : UnitOf(x.op) = u
    BY <1>7 DEF IInv, PlacesOK
  <2>9. /\ \A x \in held' : x.op = "store"
        /\ \A x \in held', y \in fifo'["lsu"] : x.id # y.id
    <3>1. "lsu" \in Unit
      BY DEF Unit
    <3>2. fifo["lsu"] \subseteq InUnits
      BY <3>1 DEF InUnits
    <3> QED
      BY <1>1, <1>4, <1>5, <1>6, <1>7, <3>1, <3>2
  <2>10. /\ InOrder(rob, issue_q) /\ InOrder(rob, readreg_issue) /\ InOrder(rob, rename_readreg)
         /\ Behind(rob, issue_q, readreg_issue) /\ Behind(rob, issue_q, rename_readreg)
         /\ Behind(rob, readreg_issue, rename_readreg)
    BY DEF IInv, PlacesOK
  <2> QED
    BY <1>1, <1>16, <2>1, <2>2, <2>3, <2>4, <2>6, <2>7, <2>8, <2>9, <2>10 DEF PlacesOK
<1>18. DataOK'
  <2>1. OperandsRight'
    BY <1>7 DEF IInv, DataOK, OperandsRight
  <2>2. \A r \in Results' : r.value = r.rd
    BY <1>1, <1>3, <1>8, <1>9 DEF IInv, DataOK
  <2> QED
    BY <1>1, <1>16, <2>1, <2>2 DEF IInv, DataOK
<1>19. ListeningOK'
  BY <1>1 DEF IInv, ListeningOK, Awaited
<1>20. AloneOK'
  BY <1>1, <1>12 DEF IInv, AloneOK
<1>21. FenceOK'
  <2>1. New \cap committed = {}
    <3>1. ASSUME NEW x \in Done
          PROVE  x.id \notin committed
      <4>1. PICK i \in DOMAIN rob : rob[i].id = x.id
        BY <1>4, <1>5 DEF IInv, PlacesOK, Belongs
      <4> QED
        BY <4>1 DEF IInv, FeedbackOK
    <3> QED
      BY <3>1
  <2>2. stores \cap committed = {} => stores' \cap committed' = {}
    BY <1>1, <1>2, <2>1
  <2> HIDE DEF New
  <2> QED
    BY <1>1, <1>12, <2>2 DEF IInv, FenceOK
<1>22. MemoryOK'
  <2> SUFFICES ASSUME NEW i \in DOMAIN rob, NEW j \in DOMAIN rob, i < j,
                      {UnitOf(rob[i].op), UnitOf(rob[j].op)} = {"lsu"}, Dispatched(j)'
               PROVE  Executed(i)' \/ (rob[i].id \in Ids(held)' /\ rob[j].id \in Ids(fifo["lsu"])')
    BY <1>1 DEF MemoryOK
  <2>1. Executed(i) \/ (rob[i].id \in Ids(held) /\ rob[j].id \in Ids(fifo["lsu"]))
    BY <1>12 DEF IInv, MemoryOK
  <2>2. CASE Executed(i)
    BY <1>12, <2>2
  <2>3. CASE rob[i].id \in Ids(held) /\ rob[j].id \in Ids(fifo["lsu"])
    <3>1. PICK x \in held, y \in fifo["lsu"] : rob[i].id = x.id /\ rob[j].id = y.id
      BY <2>3 DEF Ids
    <3>2. y \in fifo'["lsu"]
      BY <1>5, <1>7, <3>1 DEF Unit
    <3>3. CASE x \in Done
      <4>1. rob[i].id \in Ids(Results')
        BY <1>11, <3>1, <3>3 DEF Ids
      <4> QED
        BY <1>1, <4>1 DEF Executed
    <3>4. CASE x \in held'
      BY <3>1, <3>2, <3>4 DEF Ids
    <3> QED
      BY <1>1, <1>4, <1>5, <3>3, <3>4
  <2> QED
    BY <2>1, <2>2, <2>3
<1> QED
  BY <1>13, <1>14, <1>15, <1>17, <1>18, <1>19, <1>20, <1>21, <1>22 DEF IInv

-----------------------------------------------------------------------------
(* The issue stage: what becomes of the queue and of the port before it.   *)

\* f says where in the queue each of the first n of the new queue q was; e of
\* the port enter after them and t is left.
NextQueue(q, t, n, e, f) ==
  /\ q \in Seq(Pack) /\ n \in Nat /\ e \in Nat /\ Len(q) = n + e /\ Len(q) <= ISSUE_QUEUE_SIZE
  /\ f \in [1 .. n -> (1 .. Len(issue_q)) \ Chosen]
  /\ \A k, l \in 1 .. n : k < l => f[k] < f[l]
  /\ \A p \in (1 .. Len(issue_q)) \ Chosen : \E k \in 1 .. n : f[k] = p
  /\ \A k \in 1 .. n : q[k] = Listen(issue_q[f[k]])
  /\ e <= Len(readreg_issue)
  /\ \A k \in 1 .. e : q[n + k] = Enter(readreg_issue[k])
  /\ t \in Seq(Pack) /\ Len(t) = Len(readreg_issue) - e
  /\ \A k \in 1 .. Len(t) : t[k] = readreg_issue[e + k]

LEMMA EnteringIs ==
  ASSUME TypeOK
  PROVE  /\ Entering \in Nat /\ Entering <= Len(readreg_issue)
         /\ Entering <= ISSUE_QUEUE_SIZE - Len(issue_q)
<1> DEFINE a == Len(readreg_issue)
           b == ISSUE_QUEUE_SIZE - Len(issue_q)
<1>1. a \in Nat /\ b \in Nat
  BY Sizes DEF TypeOK
<1>2. Entering = Min({a, b})
  BY DEF Entering
<1> HIDE DEF a, b
<1>3. {a, b} \in SUBSET Nat /\ {a, b} # {}
  BY <1>1
<1>4. Min({a, b}) = CHOOSE x \in {a, b} : \A y \in {a, b} : x <= y
  BY DEF Min
<1>5. \E x \in {a, b} : \A y \in {a, b} : x <= y
  BY <1>1
<1>6. Min({a, b}) \in {a, b} /\ \A y \in {a, b} : Min({a, b}) <= y
  BY <1>4, <1>5
<1> QED
  BY <1>1, <1>2, <1>6 DEF a, b

LEMMA BeforeType ==
  ASSUME IInv
  PROVE  /\ \A x \in Before : x \in Pack /\ x.id \in RobId /\ x.op \in Op /\ Fine(x)
         /\ DOMAIN readreg_issue = 1 .. Len(readreg_issue) /\ Len(readreg_issue) \in Nat
         /\ \A k \in 1 .. Len(readreg_issue) : readreg_issue[k] \in Before
         /\ \A k \in 1 .. Len(issue_q) : issue_q[k] \in Before
<1>1. \A s \in {rename_readreg, readreg_issue, issue_q} : s \in Seq(Pack)
  BY DEF IInv, TypeOK
<1>2. \A x \in Before : x \in Pack
  BY <1>1 DEF Before, ToSet
<1>3. \A x \in Pack : x.id \in RobId /\ x.op \in Op
  BY DEF Pack
<1>4. \A x \in Before : Fine(x)
  BY DEF IInv, DataOK, Fine
<1>5. /\ DOMAIN readreg_issue = 1 .. Len(readreg_issue) /\ Len(readreg_issue) \in Nat
      /\ DOMAIN issue_q = 1 .. Len(issue_q)
  BY <1>1
<1>6. /\ \A k \in 1 .. Len(readreg_issue) : readreg_issue[k] \in Before
      /\ \A k \in 1 .. Len(issue_q) : issue_q[k] \in Before
  BY <1>5 DEF Before, ToSet
<1> QED
  BY <1>2, <1>3, <1>4, <1>5, <1>6

LEMMA QueueNext ==
  ASSUME IInv, Run
  PROVE  \E n, e, f : NextQueue(issue_q', readreg_issue', n, e, f)
<1> DEFINE n == Len(Staying)
           e == Entering
           R == Len(readreg_issue)
           new == [i \in 1 .. e |-> Enter(readreg_issue[i])]
<1>1. PICK f :
        /\ Staying \in Seq(Pack) /\ Len(Staying) <= Len(issue_q)
        /\ f \in [1 .. Len(Staying) -> (1 .. Len(issue_q)) \ Chosen]
        /\ \A k, l \in 1 .. Len(Staying) : k < l => f[k] < f[l]
        /\ \A p \in (1 .. Len(issue_q)) \ Chosen : \E k \in 1 .. Len(Staying) : f[k] = p
        /\ \A k \in 1 .. Len(Staying) : Staying[k] = Listen(issue_q[f[k]])
  BY StayingAre
<1>2. e \in Nat /\ e <= R /\ e <= ISSUE_QUEUE_SIZE - Len(issue_q)
  BY EnteringIs DEF IInv
<1>3. /\ issue_q' = Staying \o new
      /\ readreg_issue' = SubSeq(readreg_issue, e + 1, R)
  BY DEF Run
<1>4. /\ readreg_issue \in Seq(Pack) /\ R \in Nat /\ Len(issue_q) \in Nat
      /\ ISSUE_QUEUE_SIZE \in Nat
  BY Sizes DEF IInv, TypeOK
<1>5. \A i \in 1 .. e : Enter(readreg_issue[i]) \in Pack
  <2> SUFFICES ASSUME NEW i \in 1 .. e
               PROVE  Enter(readreg_issue[i]) \in Pack
    OBVIOUS
  <2>1. i \in 1 .. R
    BY <1>2, <1>4
  <2>2. readreg_issue[i] \in Pack /\ Fine(readreg_issue[i])
    BY <2>1, BeforeType
  <2> QED
    BY <2>2, ReadFine DEF IInv, Enter
<1> HIDE DEF n, e, R
<1>6. new \in Seq(Pack) /\ Len(new) = e /\ \A i \in 1 .. e : new[i] = Enter(readreg_issue[i])
  BY <1>2, <1>5
<1> HIDE DEF new
<1>7. /\ Staying \in Seq(Pack) /\ n = Len(Staying) /\ n \in Nat /\ n <= Len(issue_q)
      /\ \A k \in 1 .. n : Staying[k] = Listen(issue_q[f[k]])
  BY <1>1 DEF n
<1>8. /\ issue_q' \in Seq(Pack) /\ Len(issue_q') = n + e
      /\ \A k \in 1 .. n : issue_q'[k] = Staying[k]
      /\ \A k \in 1 .. e : issue_q'[n + k] = new[k]
  <2> DEFINE c == Staying \o new
  <2>1. /\ c \in Seq(Pack) /\ Len(c) = n + e
        /\ \A i \in 1 .. n + e : c[i] = IF i <= n THEN Staying[i] ELSE new[i - n]
    BY <1>6, <1>7, ConcatProperties
  <2> HIDE DEF c
  <2>2. \A k \in 1 .. n : k \in 1 .. n + e /\ k <= n
    BY <1>2, <1>7
  <2>3. \A k \in 1 .. e : n + k \in 1 .. n + e /\ ~(n + k <= n) /\ (n + k) - n = k
    BY <1>2, <1>7
  <2>4. issue_q' = c
    BY <1>3 DEF c
  <2> QED
    BY <2>1, <2>2, <2>3, <2>4
<1>9. Len(issue_q') <= ISSUE_QUEUE_SIZE
  BY <1>2, <1>4, <1>7, <1>8
<1>10. /\ readreg_issue' \in Seq(Pack) /\ Len(readreg_issue') = R - e
       /\ \A k \in 1 .. R - e : readreg_issue'[k] = readreg_issue[e + k]
  <2>1. \A i \in e + 1 .. R : readreg_issue[i] \in Pack
    <3>1. \A i \in 1 .. R : readreg_issue[i] \in Pack
      BY <1>4 DEF R
    <3>2. \A i \in e + 1 .. R : i \in 1 .. R
      BY <1>2, <1>4
    <3> QED
      BY <3>1, <3>2
  <2> DEFINE s == SubSeq(readreg_issue, e + 1, R)
  <2>2. /\ s \in Seq(Pack) /\ Len(s) = IF e + 1 <= R THEN R - (e + 1) + 1 ELSE 0
        /\ \A k \in 1 .. R - (e + 1) + 1 : s[k] = readreg_issue[e + 1 + k - 1]
    BY <1>2, <1>4, <2>1, SubSeqProperties
  <2> HIDE DEF s
  <2>3. Len(s) = R - e /\ R - (e + 1) + 1 = R - e
    BY <1>2, <1>4, <2>2
  <2>4. \A k \in 1 .. R - e : e + 1 + k - 1 = e + k
    <3>1. e \in Int /\ R - e \in Int
      BY <1>2, <1>4
    <3> QED
      BY <3>1
  <2>5. \A k \in 1 .. R - e : s[k] = readreg_issue[e + k]
    BY <2>2, <2>3, <2>4
  <2>6. readreg_issue' = s
    BY <1>3 DEF s
  <2> QED
    BY <2>2, <2>3, <2>5, <2>6
<1>11. NextQueue(issue_q', readreg_issue', n, e, f)
  BY <1>1, <1>2, <1>6, <1>7, <1>8, <1>9, <1>10 DEF NextQueue, n, R
<1> QED
  BY <1>11

\* What is issued, by its identifiers.
ChosenIds == {issue_q[k].id : k \in Chosen}

\* A difference in order is a difference.
LEMMA Apart ==
  ASSUME IInv, NEW x \in Before, NEW y, Precedes(rob, x, y)
  PROVE  x.id # y.id
<1>1. PICK i \in DOMAIN rob : rob[i].id = x.id
  BY DEF IInv, PlacesOK, Belongs
<1>2. i \in Int
  BY <1>1 DEF IInv, TypeOK
<1> QED
  BY <1>1, <1>2 DEF Precedes

LEMMA ChosenApart ==
  ASSUME IInv, NEW x \in ToSet(readreg_issue) \cup ToSet(rename_readreg)
  PROVE  x.id \notin ChosenIds
<1> SUFFICES ASSUME NEW c \in Chosen, issue_q[c].id = x.id
             PROVE  FALSE
  BY DEF ChosenIds
<1>1. c \in DOMAIN issue_q /\ issue_q[c] \in Before
  BY ChosenIs, QueueType, BeforeType DEF IInv
<1>2. Precedes(rob, issue_q[c], x)
  BY <1>1 DEF IInv, PlacesOK, Behind, ToSet
<1> QED
  BY <1>1, <1>2, Apart

\* The instructions of the new queue and the new port are those that were there
\* and have not been issued.
LEMMA NextAre ==
  ASSUME IInv, NEW q, NEW t, NEW n, NEW e, NEW f, NextQueue(q, t, n, e, f)
  PROVE  /\ \A x \in ToSet(q) : /\ x \in Pack /\ Fine(x) /\ Attentive(x)
                                /\ stage = "issue" => Awaited(x) \cap data_valid = {}
         /\ \A x \in ToSet(q) \cup ToSet(t) : \E y \in Before : Same(x, y)
         /\ \A x \in ToSet(q) \cup ToSet(t) : x.id \notin ChosenIds
         /\ ToSet(t) \subseteq ToSet(readreg_issue)
         /\ Ids(Before) \subseteq
              ChosenIds \cup Ids(ToSet(q)) \cup Ids(ToSet(t)) \cup Ids(ToSet(rename_readreg))
<1> DEFINE Q == Len(issue_q)
           R == Len(readreg_issue)
           M == Len(t)
<1>1. /\ q \in Seq(Pack) /\ n \in Nat /\ e \in Nat /\ Len(q) = n + e
      /\ f \in [1 .. n -> (1 .. Q) \ Chosen]
      /\ \A p \in (1 .. Q) \ Chosen : \E k \in 1 .. n : f[k] = p
      /\ \A k \in 1 .. n : q[k] = Listen(issue_q[f[k]])
      /\ e <= R /\ \A k \in 1 .. e : q[n + k] = Enter(readreg_issue[k])
      /\ t \in Seq(Pack) /\ M = R - e /\ \A k \in 1 .. M : t[k] = readreg_issue[e + k]
  BY DEF NextQueue
<1>2. Q \in Nat /\ R \in Nat /\ M \in Nat
  BY <1>1, QueueType, BeforeType DEF IInv
<1>3. /\ DOMAIN q = 1 .. n + e /\ DOMAIN t = 1 .. M
      /\ DOMAIN issue_q = 1 .. Q /\ DOMAIN readreg_issue = 1 .. R
  BY <1>1, QueueType, BeforeType DEF IInv
<1> HIDE DEF Q, R, M
<1>4. ASSUME NEW k \in 1 .. n
      PROVE  LET y == issue_q[f[k]]
             IN  /\ y \in Before /\ y \in ToSet(issue_q) /\ q[k] \in ToSet(q)
                 /\ q[k] \in Pack /\ Same(q[k], y) /\ Fine(q[k]) /\ Attentive(q[k])
                 /\ Awaited(q[k]) \subseteq Awaited(y) /\ y.id \notin ChosenIds
  <2> DEFINE y == issue_q[f[k]]
  <2>1. f[k] \in 1 .. Q /\ f[k] \notin Chosen /\ q[k] = Listen(y) /\ k \in 1 .. n + e
    BY <1>1
  <2>2. y \in Before /\ y \in ToSet(issue_q) /\ q[k] \in ToSet(q)
    BY <1>3, <2>1, BeforeType DEF ToSet, Q
  <2>3. y \in Pack /\ Fine(y)
    BY <2>2, BeforeType
  <2>4. y.id \notin ChosenIds
    <3> SUFFICES ASSUME NEW c \in Chosen, issue_q[c].id = y.id
                 PROVE  FALSE
      BY DEF ChosenIds
    <3>1. c \in 1 .. Q
      BY ChosenIs DEF Q
    <3> QED
      BY <2>1, <3>1, QueueIds DEF Q
  <2> HIDE DEF y
  <2>5. /\ q[k] \in Pack /\ Same(q[k], y) /\ Fine(q[k]) /\ Attentive(q[k])
        /\ Awaited(q[k]) \subseteq Awaited(y)
    BY <2>1, <2>3, ListenFine DEF IInv
  <2> QED
    BY <2>2, <2>4, <2>5 DEF y
<1>5. ASSUME NEW k \in 1 .. e
      PROVE  LET y == readreg_issue[k]
             IN  /\ y \in Before /\ y \in ToSet(readreg_issue) /\ q[n + k] \in ToSet(q)
                 /\ q[n + k] \in Pack /\ Same(q[n + k], y) /\ Fine(q[n + k]) /\ Attentive(q[n + k])
                 /\ Awaited(q[n + k]) \cap data_valid = {}
  <2> DEFINE y == readreg_issue[k]
  <2>1. k \in 1 .. R /\ n + k \in 1 .. n + e /\ q[n + k] = Read(y)
    BY <1>1, <1>2 DEF Enter
  <2>2. y \in Before /\ y \in ToSet(readreg_issue) /\ q[n + k] \in ToSet(q)
    BY <1>3, <2>1, BeforeType DEF ToSet, R
  <2>3. y \in Pack /\ Fine(y)
    BY <2>2, BeforeType
  <2> HIDE DEF y
  <2>4. /\ q[n + k] \in Pack /\ Same(q[n + k], y) /\ Fine(q[n + k]) /\ Attentive(q[n + k])
        /\ Awaited(q[n + k]) \cap data_valid = {}
    BY <2>1, <2>3, ReadFine DEF IInv
  <2> QED
    BY <2>2, <2>4 DEF y
<1>6. ASSUME NEW k \in 1 .. M
      PROVE  t[k] = readreg_issue[e + k] /\ e + k \in 1 .. R
  BY <1>1, <1>2
<1>7. ToSet(t) \subseteq ToSet(readreg_issue)
  BY <1>3, <1>6 DEF ToSet
<1>8. ASSUME NEW x \in ToSet(q)
      PROVE  (\E k \in 1 .. n : x = q[k]) \/ (\E k \in 1 .. e : x = q[n + k])
  <2>1. PICK p \in 1 .. n + e : x = q[p]
    BY <1>3 DEF ToSet
  <2>2. CASE p <= n
    BY <1>1, <2>1, <2>2
  <2>3. CASE ~(p <= n)
    <3>1. p - n \in 1 .. e /\ n + (p - n) = p
      BY <1>1, <2>3
    <3> QED
      BY <2>1, <3>1
  <2> QED
    BY <2>2, <2>3
<1>9. ASSUME NEW x \in ToSet(q)
      PROVE  /\ x \in Pack /\ Fine(x) /\ Attentive(x)
             /\ stage = "issue" => Awaited(x) \cap data_valid = {}
             /\ \E y \in Before : Same(x, y)
             /\ x.id \notin ChosenIds
  <2>1. CASE \E k \in 1 .. n : x = q[k]
    <3>1. PICK k \in 1 .. n : x = q[k]
      BY <2>1
    <3> DEFINE y == issue_q[f[k]]
    <3>2. /\ y \in Before /\ y \in ToSet(issue_q) /\ y.id \notin ChosenIds
          /\ x \in Pack /\ Same(x, y) /\ Fine(x) /\ Attentive(x) /\ Awaited(x) \subseteq Awaited(y)
      BY <1>4, <3>1
    <3> HIDE DEF y
    <3>3. Awaited(y) \cap data_valid = {}
      BY <3>2 DEF IInv, ListeningOK
    <3> QED
      BY <3>2, <3>3 DEF Same
  <2>2. CASE \E k \in 1 .. e : x = q[n + k]
    <3>1. PICK k \in 1 .. e : x = q[n + k]
      BY <2>2
    <3> DEFINE y == readreg_issue[k]
    <3>2. /\ y \in Before /\ y \in ToSet(readreg_issue)
          /\ x \in Pack /\ Same(x, y) /\ Fine(x) /\ Attentive(x) /\ Awaited(x) \cap data_valid = {}
      BY <1>5, <3>1
    <3>3. y.id \notin ChosenIds
      BY <3>2, ChosenApart
    <3> QED
      BY <3>2, <3>3 DEF Same
  <2> QED
    BY <1>8, <2>1, <2>2
<1>10. ASSUME NEW x \in ToSet(t)
       PROVE  (\E y \in Before : Same(x, y)) /\ x.id \notin ChosenIds
  <2>1. x \in Before /\ x.id \notin ChosenIds
    BY <1>7, ChosenApart DEF Before
  <2> QED
    BY <2>1 DEF Same
<1>11. ASSUME NEW x \in Before
       PROVE  x.id \in ChosenIds \cup Ids(ToSet(q)) \cup Ids(ToSet(t)) \cup Ids(ToSet(rename_readreg))
  <2>1. CASE x \in ToSet(issue_q)
    <3>1. PICK p \in 1 .. Q : x = issue_q[p]
      BY <1>3, <2>1 DEF ToSet
    <3>2. CASE p \in Chosen
      BY <3>1, <3>2 DEF ChosenIds
    <3>3. CASE p \notin Chosen
      <4>1. PICK k \in 1 .. n : f[k] = p
        BY <1>1, <3>3
      <4>2. q[k] \in ToSet(q) /\ q[k].id = x.id
        BY <1>4, <3>1, <4>1 DEF Same
      <4> QED
        BY <4>2 DEF Ids
    <3> QED
      BY <3>2, <3>3
  <2>2. CASE x \in ToSet(readreg_issue)
    <3>1. PICK p \in 1 .. R : x = readreg_issue[p]
      BY <1>3, <2>2 DEF ToSet
    <3>2. CASE p <= e
      <4>1. p \in 1 .. e
        BY <1>1, <1>2, <3>2
      <4>2. q[n + p] \in ToSet(q) /\ q[n + p].id = x.id
        BY <1>5, <3>1, <4>1 DEF Same
      <4> QED
        BY <4>2 DEF Ids
    <3>3. CASE ~(p <= e)
      <4>1. p - e \in 1 .. M /\ e + (p - e) = p
        BY <1>1, <1>2, <3>3
      <4>2. t[p - e] = x /\ t[p - e] \in ToSet(t)
        BY <1>3, <1>6, <3>1, <4>1 DEF ToSet
      <4> QED
        BY <4>2 DEF Ids
    <3> QED
      BY <3>2, <3>3
  <2>3. CASE x \in ToSet(rename_readreg)
    BY <2>3 DEF Ids
  <2> QED
    BY <2>1, <2>2, <2>3 DEF Before
<1>12. Ids(Before) \subseteq
         ChosenIds \cup Ids(ToSet(q)) \cup Ids(ToSet(t)) \cup Ids(ToSet(rename_readreg))
  BY <1>11 DEF Ids
<1> QED
  BY <1>7, <1>9, <1>10, <1>12

LEMMA SamePrecedes ==
  ASSUME NEW r, NEW x, NEW y, NEW x2, NEW y2, x.id = x2.id, y.id = y2.id, Precedes(r, x, y)
  PROVE  Precedes(r, x2, y2)
BY DEF Precedes

LEMMA NextOrder ==
  ASSUME IInv, NEW q, NEW t, NEW n, NEW e, NEW f, NextQueue(q, t, n, e, f)
  PROVE  /\ InOrder(rob, q) /\ InOrder(rob, t)
         /\ Behind(rob, q, t) /\ Behind(rob, q, rename_readreg) /\ Behind(rob, t, rename_readreg)
<1> DEFINE Q == Len(issue_q)
           R == Len(readreg_issue)
           M == Len(t)
<1>1. /\ q \in Seq(Pack) /\ n \in Nat /\ e \in Nat /\ Len(q) = n + e
      /\ f \in [1 .. n -> (1 .. Q) \ Chosen]
      /\ \A k, l \in 1 .. n : k < l => f[k] < f[l]
      /\ \A k \in 1 .. n : q[k] = Listen(issue_q[f[k]])
      /\ e <= R /\ \A k \in 1 .. e : q[n + k] = Enter(readreg_issue[k])
      /\ t \in Seq(Pack) /\ M = R - e /\ \A k \in 1 .. M : t[k] = readreg_issue[e + k]
  BY DEF NextQueue
<1>2. Q \in Nat /\ R \in Nat /\ M \in Nat
  BY <1>1, QueueType, BeforeType DEF IInv
<1>3. /\ DOMAIN q = 1 .. n + e /\ DOMAIN t = 1 .. M
      /\ DOMAIN issue_q = 1 .. Q /\ DOMAIN readreg_issue = 1 .. R
  BY <1>1, QueueType, BeforeType DEF IInv
<1>4. \A k \in 1 .. n : f[k] \in 1 .. Q /\ q[k].id = issue_q[f[k]].id
  <2> SUFFICES ASSUME NEW k \in 1 .. n
               PROVE  f[k] \in 1 .. Q /\ q[k].id = issue_q[f[k]].id
    OBVIOUS
  <2>1. f[k] \in 1 .. Q /\ q[k] = Listen(issue_q[f[k]])
    BY <1>1
  <2>2. issue_q[f[k]] \in Pack
    BY <2>1, BeforeType
  <2> QED
    BY <2>1, <2>2, ListenIs DEF IInv
<1>5. \A k \in 1 .. e : k \in 1 .. R /\ q[n + k].id = readreg_issue[k].id
  <2> SUFFICES ASSUME NEW k \in 1 .. e
               PROVE  k \in 1 .. R /\ q[n + k].id = readreg_issue[k].id
    OBVIOUS
  <2>1. k \in 1 .. R /\ q[n + k] = Read(readreg_issue[k])
    BY <1>1, <1>2 DEF Enter
  <2>2. readreg_issue[k] \in Pack /\ Fine(readreg_issue[k])
    BY <2>1, BeforeType
  <2> QED
    BY <2>1, <2>2, ReadFine DEF IInv, Same
<1>6. \A k \in 1 .. M : e + k \in 1 .. R /\ t[k] = readreg_issue[e + k]
  BY <1>1, <1>2
<1> HIDE DEF Q, R, M
<1>7. \A p \in 1 .. n + e : p \in 1 .. n \/ (p - n \in 1 .. e /\ n + (p - n) = p)
  BY <1>1
<1>8. /\ \A k, l \in 1 .. Q : k < l => Precedes(rob, issue_q[k], issue_q[l])
      /\ \A k, l \in 1 .. R : k < l => Precedes(rob, readreg_issue[k], readreg_issue[l])
      /\ \A k \in 1 .. Q, l \in 1 .. R : Precedes(rob, issue_q[k], readreg_issue[l])
      /\ \A k \in 1 .. Q, l \in DOMAIN rename_readreg : Precedes(rob, issue_q[k], rename_readreg[l])
      /\ \A k \in 1 .. R, l \in DOMAIN rename_readreg :
           Precedes(rob, readreg_issue[k], rename_readreg[l])
  BY <1>3 DEF IInv, PlacesOK, InOrder, Behind
<1>9. ASSUME NEW k \in 1 .. n + e, NEW l \in 1 .. n + e, k < l
      PROVE  Precedes(rob, q[k], q[l])
  <2>1. CASE k \in 1 .. n /\ l \in 1 .. n
    <3>1. Precedes(rob, issue_q[f[k]], issue_q[f[l]])
      BY <1>1, <1>4, <1>8, <1>9, <2>1
    <3> QED
      BY <1>4, <2>1, <3>1, SamePrecedes
  <2>2. CASE k \in 1 .. n /\ l \notin 1 .. n
    <3>1. l - n \in 1 .. e /\ n + (l - n) = l
      BY <1>7, <2>2
    <3>2. q[l].id = readreg_issue[l - n].id /\ l - n \in 1 .. R
      BY <1>5, <3>1
    <3>3. Precedes(rob, issue_q[f[k]], readreg_issue[l - n])
      BY <1>4, <1>8, <2>2, <3>2
    <3> QED
      BY <1>4, <2>2, <3>2, <3>3, SamePrecedes
  <2>3. CASE k \notin 1 .. n
    <3>1. k - n \in 1 .. e /\ n + (k - n) = k
      BY <1>7, <2>3
    <3>2. l \notin 1 .. n
      BY <1>1, <1>9, <2>3
    <3>3. l - n \in 1 .. e /\ n + (l - n) = l /\ k - n < l - n
      BY <1>1, <1>7, <1>9, <3>2
    <3>4. /\ q[k].id = readreg_issue[k - n].id /\ k - n \in 1 .. R
          /\ q[l].id = readreg_issue[l - n].id /\ l - n \in 1 .. R
      BY <1>5, <3>1, <3>3
    <3>5. Precedes(rob, readreg_issue[k - n], readreg_issue[l - n])
      BY <1>8, <3>3, <3>4
    <3> QED
      BY <3>4, <3>5, SamePrecedes
  <2> QED
    BY <2>1, <2>2, <2>3
<1>10. ASSUME NEW k \in 1 .. M, NEW l \in 1 .. M, k < l
       PROVE  Precedes(rob, t[k], t[l])
  <2>1. e + k < e + l
    BY <1>1, <1>10
  <2> QED
    BY <1>6, <1>8, <2>1
<1>11. ASSUME NEW k \in 1 .. n + e, NEW l \in 1 .. M
       PROVE  Precedes(rob, q[k], t[l])
  <2>1. CASE k \in 1 .. n
    <3>1. Precedes(rob, issue_q[f[k]], t[l])
      BY <1>4, <1>6, <1>8, <2>1
    <3> QED
      BY <1>4, <2>1, <3>1, SamePrecedes
  <2>2. CASE k \notin 1 .. n
    <3>1. k - n \in 1 .. e /\ n + (k - n) = k
      BY <1>7, <2>2
    <3>2. q[k].id = readreg_issue[k - n].id /\ k - n \in 1 .. R
      BY <1>5, <3>1
    <3>3. k - n < e + l
      BY <1>1, <3>1
    <3>4. Precedes(rob, readreg_issue[k - n], t[l])
      BY <1>6, <1>8, <3>2, <3>3
    <3> QED
      BY <3>2, <3>4, SamePrecedes
  <2> QED
    BY <2>1, <2>2
<1>12. ASSUME NEW k \in 1 .. n + e, NEW l \in DOMAIN rename_readreg
       PROVE  Precedes(rob, q[k], rename_readreg[l])
  <2>1. CASE k \in 1 .. n
    <3>1. Precedes(rob, issue_q[f[k]], rename_readreg[l])
      BY <1>4, <1>8, <2>1
    <3> QED
      BY <1>4, <2>1, <3>1, SamePrecedes
  <2>2. CASE k \notin 1 .. n
    <3>1. k - n \in 1 .. e /\ n + (k - n) = k
      BY <1>7, <2>2
    <3>2. q[k].id = readreg_issue[k - n].id /\ k - n \in 1 .. R
      BY <1>5, <3>1
    <3>3. Precedes(rob, readreg_issue[k - n], rename_readreg[l])
      BY <1>8, <3>2
    <3> QED
      BY <3>2, <3>3, SamePrecedes
  <2> QED
    BY <2>1, <2>2
<1>13. ASSUME NEW k \in 1 .. M, NEW l \in DOMAIN rename_readreg
       PROVE  Precedes(rob, t[k], rename_readreg[l])
  BY <1>6, <1>8
<1> QED
  BY <1>3, <1>9, <1>10, <1>11, <1>12, <1>13 DEF InOrder, Behind

-----------------------------------------------------------------------------
(* What issue does to the units.                                           *)

ChosenOnes == {Listen(issue_q[k]) : k \in Chosen}

LEMMA ChosenAre ==
  ASSUME IInv
  PROVE  /\ Chosen \subseteq 1 .. Len(issue_q)
         /\ \A k \in 1 .. Len(issue_q) :
              LET x == Listen(issue_q[k])
              IN  x \in Pack /\ Same(x, issue_q[k]) /\ issue_q[k].op \in Op
         /\ Ids(ChosenOnes) = ChosenIds /\ Distinct(ChosenOnes)
         /\ ChosenOnes \subseteq Pack
         /\ \A x \in ChosenOnes : (\E y \in Before : Same(x, y)) /\ x.val1 = x.src1 /\ x.val2 = x.src2
         /\ ChosenIds \cap (Ids(InUnits) \cup Ids(Results)) = {}
<1>1. Chosen \subseteq 1 .. Len(issue_q)
  BY ChosenIs
<1>2. ASSUME NEW k \in 1 .. Len(issue_q)
      PROVE  LET x == Listen(issue_q[k])
             IN  /\ x \in Pack /\ Same(x, issue_q[k]) /\ issue_q[k].op \in Op
                 /\ issue_q[k] \in Before
                 /\ k \in Chosen => x.val1 = x.src1 /\ x.val2 = x.src2
  <2>1. /\ issue_q[k] \in Before /\ issue_q[k] \in Pack /\ Fine(issue_q[k])
        /\ issue_q[k].op \in Op
    BY BeforeType
  <2>2. k \in Chosen => OperandsReady(issue_q[k])
    BY Choice
  <2> QED
    BY <2>1, <2>2, ListenFine DEF IInv, Same
<1>3. \A k \in Chosen : Listen(issue_q[k]).id = issue_q[k].id
  BY <1>1, <1>2 DEF Same
<1>4. Ids(ChosenOnes) = ChosenIds
  BY <1>3 DEF Ids, ChosenOnes, ChosenIds
<1>5. Distinct(ChosenOnes)
  <2> SUFFICES ASSUME NEW k \in Chosen, NEW l \in Chosen,
                      Listen(issue_q[k]).id = Listen(issue_q[l]).id
               PROVE  Listen(issue_q[k]) = Listen(issue_q[l])
    BY DEF Distinct, ChosenOnes
  <2>1. issue_q[k].id = issue_q[l].id
    BY <1>3
  <2>2. k = l
    BY <1>1, <2>1, QueueIds
  <2> QED
    BY <2>2
<1>6. \A x \in ChosenOnes : /\ x \in Pack /\ (\E y \in Before : Same(x, y))
                            /\ x.val1 = x.src1 /\ x.val2 = x.src2
  <2> SUFFICES ASSUME NEW k \in Chosen
               PROVE  LET x == Listen(issue_q[k])
                      IN  /\ x \in Pack /\ (\E y \in Before : Same(x, y))
                          /\ x.val1 = x.src1 /\ x.val2 = x.src2
    BY DEF ChosenOnes
  <2> QED
    BY <1>1, <1>2
<1>7. ChosenIds \cap (Ids(InUnits) \cup Ids(Results)) = {}
  BY <1>1, QueueIds DEF ChosenIds
<1> QED
  BY <1>1, <1>2, <1>4, <1>5, <1>6, <1>7

LEMMA UnionOf ==
  ASSUME NEW U, NEW f, NEW g, NEW h, NEW C, NEW F, NEW G,
         F = UNION {f[u] : u \in U}, G = UNION {g[u] : u \in U},
         \A u \in U : g[u] = f[u] \cup h[u],
         \A u \in U : h[u] \subseteq C, \A x \in C : \E u \in U : x \in h[u]
  PROVE  G = F \cup C
<1>1. ASSUME NEW x
      PROVE  x \in G <=> x \in F \cup C
  <2>1. CASE x \in G
    BY <2>1
  <2>2. CASE x \in F
    BY <2>2
  <2>3. CASE x \in C
    BY <2>3
  <2> QED
    BY <2>1, <2>2, <2>3
<1> QED
  BY <1>1

LEMMA RunUnits ==
  ASSUME IInv, Run
  PROVE  /\ \A u \in Unit :
              /\ fifo'[u] = fifo[u] \cup
                   {Listen(issue_q[k]) : k \in {k \in Chosen : UnitOf(issue_q[k].op) = u}}
              /\ IsFiniteSet(fifo'[u]) /\ Cardinality(fifo'[u]) <= unit_cnt(u)
              /\ fifo'[u] \subseteq Pack
         /\ fifo' \in [Unit -> SUBSET Pack]
         /\ InUnits' = InUnits \cup ChosenOnes
         /\ Results' = Results
<1>1. /\ fifo' = Sent.fifo /\ held' = held /\ wb_port' = wb_port /\ commit_port' = commit_port
  BY DEF Run
<1>2. \A u \in Unit :
        /\ fifo'[u] = fifo[u] \cup
             {Listen(issue_q[k]) : k \in {k \in Chosen : UnitOf(issue_q[k].op) = u}}
        /\ IsFiniteSet(fifo'[u]) /\ Cardinality(fifo'[u]) <= unit_cnt(u)
  BY <1>1, Dispatch
<1>3. \A u \in Unit : fifo'[u] \subseteq Pack
  <2> SUFFICES ASSUME NEW u \in Unit, NEW x \in fifo'[u]
               PROVE  x \in Pack
    OBVIOUS
  <2>1. x \in fifo[u] \/ x \in ChosenOnes
    BY <1>2 DEF ChosenOnes
  <2> QED
    BY <2>1, ChosenAre DEF IInv, TypeOK
<1>4. fifo' \in [Unit -> SUBSET Pack]
  <2>1. fifo' = [u \in Unit |-> fifo'[u]]
    BY <1>1, Dispatch
  <2> QED
    BY <1>3, <2>1
<1>5. InUnits' = InUnits \cup ChosenOnes
  <2>1. \A k \in Chosen : UnitOf(issue_q[k].op) \in Unit
    BY ChosenAre, UnitOfType
  <2> DEFINE h == [u \in Unit |->
                     {Listen(issue_q[k]) : k \in {k \in Chosen : UnitOf(issue_q[k].op) = u}}]
             A == UNION {fifo'[u] : u \in Unit}
             B == UNION {fifo[u] : u \in Unit}
  <2>2. \A u \in Unit : fifo'[u] = fifo[u] \cup h[u]
    BY <1>2
  <2>3. \A u \in Unit : h[u] \subseteq ChosenOnes
    BY DEF ChosenOnes
  <2>4. \A x \in ChosenOnes : \E u \in Unit : x \in h[u]
    BY <2>1 DEF ChosenOnes
  <2> HIDE DEF h, A, B
  <2>5. A = B \cup ChosenOnes
    <3>1. A = UNION {fifo'[u] : u \in Unit} /\ B = UNION {fifo[u] : u \in Unit}
      BY DEF A, B
    <3> QED
      BY <2>2, <2>3, <2>4, <3>1, UnionOf
  <2>6. InUnits = held \cup B /\ InUnits' = held' \cup A
    BY DEF InUnits, A, B
  <2> QED
    BY <1>1, <2>5, <2>6
<1> QED
  BY <1>1, <1>2, <1>3, <1>4, <1>5 DEF Results

\* The entry of an instruction in the queue.
LEMMA EntryOfChosen ==
  ASSUME IInv, NEW k \in 1 .. Len(issue_q), NEW i \in DOMAIN rob, rob[i].id = issue_q[k].id
  PROVE  rob[i].op = issue_q[k].op /\ ~Dispatched(i)
<1>1. issue_q[k] \in Before
  BY BeforeType
<1>2. PICK j \in DOMAIN rob : /\ rob[j].id = issue_q[k].id /\ rob[j].op = issue_q[k].op
                              /\ rob[j].finish = "no"
  BY <1>1 DEF IInv, PlacesOK, Belongs
<1>3. i = j
  BY <1>2, IdsDistinct DEF IInv
<1>4. rob[i].id \notin Ids(InUnits) \cup Ids(Results)
  BY QueueIds
<1> QED
  BY <1>2, <1>3, <1>4 DEF Dispatched

\* Whom an issued instruction overtakes waits before it in the queue.
LEMMA Overtaken ==
  ASSUME IInv, NEW l \in Chosen, NEW j \in DOMAIN rob, rob[j].id = issue_q[l].id,
         NEW i \in DOMAIN rob, i < j, ~Dispatched(i)
  PROVE  \E k \in 1 .. l - 1 : issue_q[k].id = rob[i].id /\ issue_q[k].op = rob[i].op
<1>1. l \in 1 .. Len(issue_q)
  BY ChosenAre
<1>2. PICK x \in Before : x.id = rob[i].id /\ x.op = rob[i].op
  BY WaitsBefore
<1>3. \E k \in 1 .. l - 1 : x = issue_q[k]
  BY <1>1, <1>2, QueueOrder
<1> QED
  BY <1>2, <1>3

\* The one that is next to retire is the first entry.
LEMMA NextIsFirst ==
  ASSUME IInv, stage = "issue", NEW i \in DOMAIN rob, rob[i].id = next_handle_rob_id
  PROVE  i = 1
<1>1. rob # << >> /\ 1 \in DOMAIN rob
  BY DEF IInv, TypeOK
<1>2. rob[1].id = rob[i].id
  BY <1>1 DEF IInv, FeedbackOK
<1> QED
  BY <1>1, <1>2, IdsDistinct DEF IInv

LEMMA RunDispatched ==
  ASSUME IInv, Run
  PROVE  /\ \A i : Dispatched(i)' <=> Dispatched(i) \/ rob[i].id \in ChosenIds
         /\ \A i : Executed(i)' <=> Executed(i)
<1>1. rob' = rob
  BY DEF Run, robvars
<1>2. InUnits' = InUnits \cup ChosenOnes /\ Results' = Results
  BY RunUnits
<1>3. Ids(InUnits') = Ids(InUnits) \cup ChosenIds /\ Ids(Results') = Ids(Results)
  BY <1>2, ChosenAre DEF Ids
<1> QED
  BY <1>1, <1>3 DEF Dispatched, Executed

LEMMA RunWaits ==
  ASSUME IInv, Run
  PROVE  /\ is_inst_waiting' \in BOOLEAN /\ inst_waiting_rob_id' \in RobId
         /\ ~MayIssue => /\ Chosen = {} /\ is_inst_waiting' = is_inst_waiting
                         /\ inst_waiting_rob_id' = inst_waiting_rob_id
         /\ \A k \in Chosen : Alone(issue_q[k].op) =>
              is_inst_waiting' /\ inst_waiting_rob_id' = issue_q[k].id
<1> DEFINE W == {issue_q[k].id : k \in {k \in Chosen : Alone(issue_q[k].op)}}
<1>1. Sent.waiting = W
  BY Dispatch
<1>2. /\ is_inst_waiting' = IF MayIssue THEN W # {} ELSE is_inst_waiting
      /\ inst_waiting_rob_id' = IF W = {} THEN inst_waiting_rob_id ELSE CHOOSE id \in W : TRUE
  BY <1>1 DEF Run
<1>3. W \subseteq RobId
  BY ChosenAre, BeforeType
<1>4. ASSUME NEW k \in Chosen, Alone(issue_q[k].op)
      PROVE  W = {issue_q[k].id} /\ MayIssue
  <2>1. Chosen = {k} /\ MayIssue
    BY <1>4, Choice
  <2> QED
    BY <1>4, <2>1
<1>5. ~MayIssue => Chosen = {} /\ W = {}
  BY DEF Chosen
<1>6. is_inst_waiting \in BOOLEAN /\ inst_waiting_rob_id \in RobId
  BY DEF IInv, TypeOK
<1> HIDE DEF W
<1>7. W # {} => (CHOOSE id \in W : TRUE) \in W
  OBVIOUS
<1>8. inst_waiting_rob_id' \in RobId /\ is_inst_waiting' \in BOOLEAN
  BY <1>2, <1>3, <1>6, <1>7
<1>9. ASSUME NEW k \in Chosen, Alone(issue_q[k].op)
      PROVE  is_inst_waiting' /\ inst_waiting_rob_id' = issue_q[k].id
  BY <1>2, <1>4, <1>7, <1>9
<1> QED
  BY <1>2, <1>5, <1>8, <1>9

LEMMA RunAlone ==
  ASSUME IInv, Run
  PROVE  AloneOK'
<1>1. rob' = rob /\ stage = "issue"
  BY DEF Run, robvars
<1>2. \A i : Dispatched(i)' <=> Dispatched(i) \/ rob[i].id \in ChosenIds
  BY RunDispatched
<1> SUFFICES ASSUME NEW i \in DOMAIN rob, Alone(rob[i].op)
             PROVE  IF Dispatched(i)'
                    THEN /\ i = 1 /\ \A j \in DOMAIN rob \ {i} : ~Dispatched(j)'
                         /\ is_inst_waiting' /\ inst_waiting_rob_id' = rob[i].id
                    ELSE \A j \in DOMAIN rob : j > i => ~Dispatched(j)'
  BY <1>1 DEF AloneOK
<1>3. CASE Dispatched(i)
  <2>1. /\ i = 1 /\ \A j \in DOMAIN rob \ {i} : ~Dispatched(j)
        /\ is_inst_waiting /\ inst_waiting_rob_id = rob[i].id
    BY <1>3 DEF IInv, AloneOK
  <2>2. ~MayIssue
    BY <2>1 DEF IInv, FeedbackOK, MayIssue
  <2>3. /\ ChosenIds = {} /\ is_inst_waiting' = is_inst_waiting
        /\ inst_waiting_rob_id' = inst_waiting_rob_id
    BY <2>2, RunWaits DEF ChosenIds
  <2>4. \A j \in DOMAIN rob \ {i} : ~Dispatched(j)'
    BY <1>2, <2>1, <2>3
  <2> QED
    BY <1>2, <1>3, <2>1, <2>3, <2>4
<1>4. CASE ~Dispatched(i) /\ rob[i].id \in ChosenIds
  <2>1. PICK k \in Chosen : issue_q[k].id = rob[i].id
    BY <1>4 DEF ChosenIds
  <2>2. k \in 1 .. Len(issue_q) /\ rob[i].op = issue_q[k].op
    BY <2>1, ChosenAre, EntryOfChosen
  <2>3. Chosen = {k} /\ issue_q[k].id = next_handle_rob_id
    BY <2>2, Choice DEF IsNext
  <2>4. i = 1
    BY <1>1, <2>1, <2>3, NextIsFirst
  <2>5. ASSUME NEW j \in DOMAIN rob \ {i}
        PROVE  ~Dispatched(j)'
    <3>1. ~Dispatched(j)
      <4>1. j > i
        BY <2>4, IdsDistinct DEF IInv
      <4> QED
        BY <1>4, <4>1 DEF IInv, AloneOK
    <3>2. rob[j].id # rob[i].id
      BY IdsDistinct DEF IInv
    <3>3. rob[j].id \notin ChosenIds
      BY <2>1, <2>3, <3>2 DEF ChosenIds
    <3> QED
      BY <1>2, <3>1, <3>3
  <2>6. is_inst_waiting' /\ inst_waiting_rob_id' = rob[i].id
    BY <2>1, <2>2, RunWaits
  <2>7. Dispatched(i)'
    BY <1>2, <1>4
  <2> QED
    BY <2>4, <2>5, <2>6, <2>7
<1>5. CASE ~Dispatched(i) /\ rob[i].id \notin ChosenIds
  <2>1. ASSUME NEW j \in DOMAIN rob, j > i, Dispatched(j)'
        PROVE  FALSE
    <3>1. ~Dispatched(j)
      BY <1>5, <2>1 DEF IInv, AloneOK
    <3>2. PICK l \in Chosen : issue_q[l].id = rob[j].id
      BY <1>2, <2>1, <3>1 DEF ChosenIds
    <3>3. i < j
      BY <2>1, IdsDistinct DEF IInv
    <3>4. PICK k \in 1 .. l - 1 : issue_q[k].op = rob[i].op
      BY <1>5, <3>2, <3>3, Overtaken
    <3> QED
      BY <3>4, Choice
  <2>2. ~Dispatched(i)'
    BY <1>2, <1>5
  <2> QED
    BY <2>1, <2>2
<1> QED
  BY <1>3, <1>4, <1>5

LEMMA RunFence ==
  ASSUME IInv, Run
  PROVE  FenceOK'
<1>1. rob' = rob /\ stage = "issue" /\ stores' = stores /\ draining' = draining /\ committed' = committed
  BY DEF Run, robvars, stbuf, feedback
<1>2. \A i : Dispatched(i)' <=> Dispatched(i) \/ rob[i].id \in ChosenIds
  BY RunDispatched
<1> SUFFICES ASSUME NEW i \in DOMAIN rob, rob[i].op = "fence"
             PROVE  IF Dispatched(i)'
                    THEN i = 1 /\ draining = 0 /\ stores \cap committed = {}
                    ELSE \A j \in DOMAIN rob : j > i => ~Dispatched(j)'
  BY <1>1 DEF FenceOK
<1>3. CASE Dispatched(i)
  BY <1>2, <1>3 DEF IInv, FenceOK
<1>4. CASE ~Dispatched(i) /\ rob[i].id \in ChosenIds
  <2>1. PICK k \in Chosen : issue_q[k].id = rob[i].id
    BY <1>4 DEF ChosenIds
  <2>2. k \in 1 .. Len(issue_q) /\ rob[i].op = issue_q[k].op
    BY <2>1, ChosenAre, EntryOfChosen
  <2>3. StoreBufferEmpty /\ issue_q[k].id = next_handle_rob_id
    BY <2>2, Choice DEF IsNext
  <2>4. i = 1
    BY <1>1, <2>1, <2>3, NextIsFirst
  <2> QED
    BY <1>2, <1>4, <2>3, <2>4 DEF StoreBufferEmpty
<1>5. CASE ~Dispatched(i) /\ rob[i].id \notin ChosenIds
  <2>1. ASSUME NEW j \in DOMAIN rob, j > i, Dispatched(j)'
        PROVE  FALSE
    <3>1. ~Dispatched(j)
      BY <1>5, <2>1 DEF IInv, FenceOK
    <3>2. PICK l \in Chosen : issue_q[l].id = rob[j].id
      BY <1>2, <2>1, <3>1 DEF ChosenIds
    <3>3. i < j
      BY <2>1, IdsDistinct DEF IInv
    <3>4. PICK k \in 1 .. l - 1 : issue_q[k].id = rob[i].id /\ issue_q[k].op = rob[i].op
      BY <1>5, <3>2, <3>3, Overtaken
    <3>5. k \notin Chosen
      BY <1>5, <3>4 DEF ChosenIds
    <3>6. \/ ~OperandsReady(issue_q[k])
          \/ issue_q[k].id = next_handle_rob_id /\ unit_available["alu"] <= 0
      BY <3>4, <3>5, Choice DEF IsNext
    <3>7. OperandsReady(issue_q[k])
      <4>1. l \in 1 .. Len(issue_q) /\ Len(issue_q) \in Nat
        BY ChosenAre, QueueType DEF IInv
      <4>2. k \in 1 .. Len(issue_q)
        BY <4>1
      <4>3. Fine(issue_q[k])
        BY <4>2, BeforeType
      <4> QED
        BY <3>4, <4>3 DEF Fine, OperandsReady, HeardFrom
    <3>8. i = 1
      BY <1>1, <3>4, <3>6, <3>7, NextIsFirst
    <3>9. fifo["alu"] = {}
      <4> SUFFICES ASSUME NEW y \in fifo["alu"]
                   PROVE  FALSE
        OBVIOUS
      <4>1. y \in InUnits
        BY DEF InUnits, Unit
      <4>2. PICK p \in DOMAIN rob : rob[p].id = y.id
        BY <4>1 DEF IInv, PlacesOK, Belongs
      <4>3. Dispatched(p)
        BY <4>1, <4>2 DEF Dispatched, Ids
      <4>4. p # i /\ p > i
        BY <1>5, <3>8, <4>3, IdsDistinct DEF IInv
      <4> QED
        BY <1>5, <4>3, <4>4 DEF IInv, FenceOK
    <3>10. unit_available["alu"] = ALU_UNIT_NUM
      <4>1. unit_available["alu"] = unit_cnt("alu") - Cardinality(fifo["alu"])
        BY DEF unit_available, Unit
      <4> QED
        BY <3>9, <4>1, Sizes, FS_EmptySet DEF unit_cnt
    <3> QED
      BY <3>6, <3>7, <3>10, Sizes
  <2>2. ~Dispatched(i)'
    BY <1>2, <1>5
  <2> QED
    BY <2>1, <2>2
<1> QED
  BY <1>3, <1>4, <1>5

LEMMA RunMemory ==
  ASSUME IInv, Run
  PROVE  MemoryOK'
<1>1. rob' = rob /\ held' = held
  BY DEF Run, robvars
<1>2. /\ \A i : Dispatched(i)' <=> Dispatched(i) \/ rob[i].id \in ChosenIds
      /\ \A i : Executed(i)' <=> Executed(i)
  BY RunDispatched
<1>3. /\ fifo'["lsu"] = fifo["lsu"] \cup
           {Listen(issue_q[k]) : k \in {k \in Chosen : UnitOf(issue_q[k].op) = "lsu"}}
      /\ IsFiniteSet(fifo'["lsu"]) /\ Cardinality(fifo'["lsu"]) <= 1
  <2>1. "lsu" \in Unit /\ unit_cnt("lsu") = 1
    BY DEF Unit, unit_cnt
  <2> QED
    BY <2>1, RunUnits
<1> SUFFICES ASSUME NEW i \in DOMAIN rob, NEW j \in DOMAIN rob, i < j,
                    {UnitOf(rob[i].op), UnitOf(rob[j].op)} = {"lsu"}, Dispatched(j)'
             PROVE  Executed(i)' \/ (rob[i].id \in Ids(held)' /\ rob[j].id \in Ids(fifo["lsu"])')
  BY <1>1 DEF MemoryOK
<1>4. UnitOf(rob[i].op) = "lsu" /\ UnitOf(rob[j].op) = "lsu"
  OBVIOUS
<1>5. CASE Dispatched(j)
  <2>1. Executed(i) \/ (rob[i].id \in Ids(held) /\ rob[j].id \in Ids(fifo["lsu"]))
    BY <1>5 DEF IInv, MemoryOK
  <2> QED
    BY <1>1, <1>2, <1>3, <2>1 DEF Ids
<1>6. CASE ~Dispatched(j)
  <2>1. PICK l \in Chosen : issue_q[l].id = rob[j].id
    BY <1>2, <1>6 DEF ChosenIds
  <2>2. l \in 1 .. Len(issue_q) /\ rob[j].op = issue_q[l].op
    BY <2>1, ChosenAre, EntryOfChosen
  <2>3. Listen(issue_q[l]) \in fifo'["lsu"] /\ Listen(issue_q[l]).id = rob[j].id
    BY <1>3, <1>4, <2>1, <2>2, ChosenAre DEF Same
  <2>4. Dispatched(i)
    <3> SUFFICES ASSUME ~Dispatched(i)
                 PROVE  FALSE
      OBVIOUS
    <3>1. PICK k \in 1 .. l - 1 : issue_q[k].op = rob[i].op
      BY <2>1, Overtaken
    <3> QED
      BY <1>4, <2>2, <3>1, Choice
  <2>5. CASE Executed(i)
    BY <1>2, <2>5
  <2>6. CASE ~Executed(i)
    <3>1. PICK y \in InUnits : y.id = rob[i].id
      BY <2>4, <2>6 DEF Dispatched, Executed, Ids
    <3>2. UnitOf(y.op) = "lsu"
      <4>1. PICK p \in DOMAIN rob : rob[p].id = y.id /\ rob[p].op = y.op
        BY DEF IInv, PlacesOK, Belongs
      <4>2. p = i
        BY <3>1, <4>1, IdsDistinct DEF IInv
      <4> QED
        BY <1>4, <4>1, <4>2
    <3>3. CASE y \in held
      BY <1>1, <2>3, <3>1, <3>3 DEF Ids
    <3>4. CASE y \notin held
      <4>1. PICK u \in Unit : y \in fifo[u]
        BY <3>4 DEF InUnits
      <4>2. u = "lsu"
        BY <3>2, <4>1 DEF IInv, PlacesOK
      <4>3. y \in fifo'["lsu"]
        BY <1>3, <4>1, <4>2
      <4>4. y = Listen(issue_q[l])
        BY <1>3, <2>3, <4>3, AtMostOne
      <4>5. i = j
        BY <2>3, <3>1, <4>4, IdsDistinct DEF IInv
      <4>6. i \in Int
        BY IdsDistinct DEF IInv
      <4> QED
        BY <4>5, <4>6
    <3> QED
      BY <3>3, <3>4
  <2> QED
    BY <2>5, <2>6
<1> QED
  BY <1>5, <1>6

LEMMA RunOK ==
  ASSUME IInv, Run
  PROVE  IInv'
<1> DEFINE q == issue_q'
           t == readreg_issue'
<1>1. /\ stage = "issue" /\ stage' = "readreg"
      /\ rob' = rob /\ next_id' = next_id /\ map' = map /\ released' = released
      /\ data_valid' = data_valid /\ content' = content /\ rename_readreg' = rename_readreg
      /\ held' = held /\ wb_port' = wb_port /\ commit_port' = commit_port
      /\ stores' = stores /\ draining' = draining
      /\ committed' = committed /\ next_handle_rob_id' = next_handle_rob_id
  BY DEF Run, robvars, regfile, stbuf, feedback
<1>2. PICK n, e, f : NextQueue(issue_q', readreg_issue', n, e, f)
  BY QueueNext
<1>3. /\ \A x \in ToSet(q) : /\ x \in Pack /\ Fine(x) /\ Attentive(x)
                             /\ Awaited(x) \cap data_valid = {}
      /\ \A x \in ToSet(q) \cup ToSet(t) : \E y \in Before : Same(x, y)
      /\ \A x \in ToSet(q) \cup ToSet(t) : x.id \notin ChosenIds
      /\ ToSet(t) \subseteq ToSet(readreg_issue)
      /\ Ids(Before) \subseteq
           ChosenIds \cup Ids(ToSet(q)) \cup Ids(ToSet(t)) \cup Ids(ToSet(rename_readreg))
  BY <1>1, <1>2, NextAre
<1>4. /\ InOrder(rob, q) /\ InOrder(rob, t)
      /\ Behind(rob, q, t) /\ Behind(rob, q, rename_readreg) /\ Behind(rob, t, rename_readreg)
  BY <1>2, NextOrder
<1>5. /\ q \in Seq(Pack) /\ Len(q) <= ISSUE_QUEUE_SIZE
      /\ t \in Seq(Pack) /\ Len(t) <= RENAME_WIDTH
  <2>1. /\ q \in Seq(Pack) /\ Len(q) <= ISSUE_QUEUE_SIZE /\ t \in Seq(Pack)
        /\ e \in Nat /\ Len(t) = Len(readreg_issue) - e
    BY <1>2 DEF NextQueue
  <2>2. Len(readreg_issue) \in Nat /\ Len(readreg_issue) <= RENAME_WIDTH
    BY DEF IInv, TypeOK
  <2> QED
    BY <2>1, <2>2, Sizes
<1> HIDE DEF q, t
<1>6. Before' = ToSet(rename_readreg) \cup ToSet(t) \cup ToSet(q)
  BY <1>1 DEF Before, q, t
<1>7. InUnits' = InUnits \cup ChosenOnes /\ Results' = Results
  BY RunUnits
<1>8. /\ Ids(ChosenOnes) = ChosenIds /\ Distinct(ChosenOnes)
      /\ \A x \in ChosenOnes : (\E y \in Before : Same(x, y)) /\ x.val1 = x.src1 /\ x.val2 = x.src2
      /\ ChosenIds \cap (Ids(InUnits) \cup Ids(Results)) = {}
  BY ChosenAre
<1>9. \A x \in ToSet(rename_readreg) : x \in Before /\ x.id \notin ChosenIds
  BY ChosenApart DEF Before
<1>10. \A x \in Before' : (\E y \in Before : Same(x, y)) /\ x.id \notin ChosenIds
  <2>1. \A x : Same(x, x)
    BY DEF Same
  <2> QED
    BY <1>3, <1>6, <1>9, <2>1
<1>11. TypeOK'
  <2>1. fifo' \in [Unit -> SUBSET Pack] /\ \A u \in Unit : Cardinality(fifo'[u]) <= unit_cnt(u)
    BY RunUnits
  <2>2. is_inst_waiting' \in BOOLEAN /\ inst_waiting_rob_id' \in RobId
    BY RunWaits
  <2> QED
    BY <1>1, <1>5, <2>1, <2>2 DEF IInv, TypeOK, q, t
<1>12. Mappings(rob', map', next_id')
  BY <1>1 DEF IInv
<1>13. FeedbackOK'
  BY <1>1 DEF IInv, FeedbackOK
<1>14. Unfinished' = Unfinished
  BY <1>1 DEF Unfinished
<1>15. PlacesOK'
  <2>1. ASSUME NEW x, NEW y \in Before, Same(x, y)
        PROVE  Belongs(rob, x)
    <3>1. Belongs(rob, y)
      BY DEF IInv, PlacesOK
    <3> QED
      BY <2>1, <3>1 DEF Belongs, Same
  <2>2. \A x \in Before' \cup InUnits' \cup Results' : Belongs(rob, x)
    <3>1. \A x \in InUnits \cup Results : Belongs(rob, x)
      BY DEF IInv, PlacesOK
    <3> QED
      BY <1>7, <1>8, <1>10, <2>1, <3>1
  <2>3. Distinct(InUnits')
    <3>1. Distinct(InUnits)
      BY DEF IInv, PlacesOK
    <3>2. Ids(ChosenOnes) \cap Ids(InUnits) = {}
      BY <1>8
    <3> QED
      BY <1>7, <1>8, <3>1, <3>2 DEF Distinct, Ids
  <2>4. /\ Distinct(wb_port) /\ Distinct(commit_port) /\ Ids(wb_port) \cap Ids(commit_port) = {}
        /\ Ids(Before) \cap (Ids(InUnits) \cup Ids(Results)) = {}
        /\ Ids(InUnits) \cap Ids(Results) = {}
        /\ Unfinished \subseteq Ids(Before) \cup Ids(InUnits) \cup Ids(Results)
        /\ InOrder(rob, rename_readreg)
    BY DEF IInv, PlacesOK
  <2>5. Ids(InUnits') = Ids(InUnits) \cup ChosenIds /\ Ids(Results') = Ids(Results)
    BY <1>7, <1>8 DEF Ids
  <2>6. Ids(Before') \subseteq Ids(Before) \ ChosenIds
    <3> SUFFICES ASSUME NEW x \in Before'
                 PROVE  x.id \in Ids(Before) \ ChosenIds
      BY DEF Ids
    <3>1. PICK y \in Before : Same(x, y)
      BY <1>10
    <3> QED
      BY <1>10, <3>1 DEF Ids, Same
  <2>7. Ids(Before) \subseteq ChosenIds \cup Ids(Before')
    <3>1. Ids(Before') = Ids(ToSet(q)) \cup Ids(ToSet(t)) \cup Ids(ToSet(rename_readreg))
      BY <1>6 DEF Ids
    <3> QED
      BY <1>3, <3>1
  <2>8. /\ Ids(Before') \cap (Ids(InUnits') \cup Ids(Results')) = {}
        /\ Ids(InUnits') \cap Ids(Results') = {}
        /\ Unfinished' \subseteq Ids(Before') \cup Ids(InUnits') \cup Ids(Results')
    BY <1>8, <1>14, <2>4, <2>5, <2>6, <2>7
  <2>9. ASSUME NEW u \in Unit, NEW x \in fifo'[u]
        PROVE  UnitOf(x.op) = u /\ (x \in fifo[u] \/ x \in ChosenOnes)
    <3>1. CASE x \in fifo[u]
      BY <3>1 DEF IInv, PlacesOK
    <3>2. CASE \E k \in Chosen : UnitOf(issue_q[k].op) = u /\ x = Listen(issue_q[k])
      BY <3>2, ChosenAre DEF Same, ChosenOnes
    <3> QED
      BY <2>9, <3>1, <3>2, RunUnits
  <2>10. \A x \in held : x.op = "store"
    BY DEF IInv, PlacesOK
  <2>11. ASSUME NEW x \in held, NEW y \in fifo'["lsu"]
         PROVE  x.id # y.id
    <3>1. CASE y \in fifo["lsu"]
      BY <3>1 DEF IInv, PlacesOK
    <3>2. CASE y \in ChosenOnes
      <4>1. x.id \in Ids(InUnits)
        BY DEF Ids, InUnits
      <4>2. y.id \in ChosenIds
        BY <1>8, <3>2 DEF Ids
      <4> QED
        BY <1>8, <4>1, <4>2
    <3> QED
      BY <2>9, <3>1, <3>2 DEF Unit
  <2>12. /\ InOrder(rob', issue_q') /\ InOrder(rob', readreg_issue')
         /\ Behind(rob', issue_q', readreg_issue') /\ Behind(rob', issue_q', rename_readreg')
         /\ Behind(rob', readreg_issue', rename_readreg') /\ InOrder(rob', rename_readreg')
    BY <1>1, <1>4, <2>4 DEF q, t
  <2>13. \A x \in Before' \cup InUnits' \cup Results' : Belongs(rob', x)
    BY <1>1, <2>2
  <2>14. \A x \in held', y \in fifo'["lsu"] : x.id # y.id
    BY <1>1, <2>11
  <2>15. \A u \in Unit : \A x \in fifo'[u] : UnitOf(x.op) = u
    BY <2>9
  <2>16. /\ Distinct(wb_port') /\ Distinct(commit_port') /\ Ids(wb_port') \cap Ids(commit_port') = {}
         /\ \A x \in held' : x.op = "store"
    BY <1>1, <2>4, <2>10
  <2> QED
    BY <2>3, <2>8, <2>12, <2>13, <2>14, <2>15, <2>16 DEF PlacesOK
<1>16. DataOK'
  <2>1. \A x \in Before' : Fine(x)
    <3>1. \A x \in ToSet(rename_readreg) \cup ToSet(readreg_issue) : Fine(x)
      BY BeforeType DEF Before
    <3> QED
      BY <1>3, <1>6, <3>1
  <2>2. OperandsRight'
    BY <1>7, <1>8 DEF IInv, DataOK, OperandsRight
  <2>3. \A x \in Before' : /\ Right(x.src1, x.val1) /\ Right(x.src2, x.val2)
                           /\ x.op = "fence" => x.val1 # Unloaded /\ x.val2 # Unloaded
    BY <2>1 DEF Fine
  <2> QED
    BY <1>1, <1>7, <2>2, <2>3 DEF IInv, DataOK
<1>17. ListeningOK'
  <2>1. \A x \in ToSet(q) : \A src \in Awaited(x) :
          /\ src \notin data_valid'
          /\ \A r \in Results' : r.rd = src => r.raised
    BY <1>1, <1>3, <1>7 DEF Attentive
  <2>2. \A x : Awaited(x)' = Awaited(x)
    BY DEF Awaited
  <2> QED
    BY <2>1, <2>2 DEF ListeningOK, q, Awaited
<1> QED
  BY <1>11, <1>12, <1>13, <1>15, <1>16, <1>17, RunAlone, RunFence, RunMemory DEF IInv

-----------------------------------------------------------------------------
(* Rename and the reading of registers.                                    *)

\* The reorder buffer s is r with entries behind it that have not finished.
Grown(r, s) ==
  /\ Len(r) \in Nat /\ Len(s) \in Nat /\ Len(r) <= Len(s)
  /\ DOMAIN r = 1 .. Len(r) /\ DOMAIN s = 1 .. Len(s)
  /\ \A k \in 1 .. Len(r) : k \in 1 .. Len(s) /\ s[k] = r[k]
  /\ \A k \in Len(r) + 1 .. Len(s) : s[k].finish = "no"
  /\ \A i, j \in 1 .. Len(s) : s[i].id = s[j].id => i = j

LEMMA GrownOrder ==
  ASSUME NEW r, NEW s, Grown(r, s), NEW x, Belongs(r, x), NEW y
  PROVE  /\ Belongs(s, x)
         /\ Belongs(r, y) /\ Precedes(r, x, y) => Precedes(s, x, y)
         /\ \A k \in Len(r) + 1 .. Len(s) : s[k].id = y.id => Precedes(s, x, y) /\ x.id # y.id
<1>0. /\ Len(r) \in Nat /\ Len(s) \in Nat /\ Len(r) <= Len(s)
      /\ DOMAIN r = 1 .. Len(r) /\ DOMAIN s = 1 .. Len(s)
      /\ \A k \in 1 .. Len(r) : k \in 1 .. Len(s) /\ s[k] = r[k]
      /\ \A i, j \in 1 .. Len(s) : s[i].id = s[j].id => i = j
  BY DEF Grown
<1>1. PICK a \in 1 .. Len(r) : /\ r[a].id = x.id /\ r[a].op = x.op /\ r[a].new = x.rd
                               /\ r[a].finish = "no"
  BY <1>0 DEF Belongs
<1>2. Belongs(s, x)
  BY <1>0, <1>1 DEF Belongs
<1>3. ASSUME Belongs(r, y), Precedes(r, x, y)
      PROVE  Precedes(s, x, y)
  <2>1. PICK b \in 1 .. Len(r) : r[b].id = y.id
    BY <1>0, <1>3 DEF Belongs
  <2>2. a < b
    BY <1>0, <1>1, <1>3, <2>1 DEF Precedes
  <2> QED
    BY <1>0, <1>1, <2>1, <2>2 DEF Precedes
<1>4. ASSUME NEW k \in Len(r) + 1 .. Len(s), s[k].id = y.id
      PROVE  Precedes(s, x, y) /\ x.id # y.id
  <2>1. k \in 1 .. Len(s) /\ a < k /\ a # k /\ s[a].id = x.id /\ a \in 1 .. Len(s)
    BY <1>0, <1>1
  <2> QED
    BY <1>0, <1>4, <2>1 DEF Precedes
<1> QED
  BY <1>2, <1>3, <1>4

LEMMA GroupType ==
  ASSUME NEW group \in BoundedSeq(Inst, RENAME_WIDTH)
  PROVE  group \in Seq(Inst) /\ Len(group) \in Nat /\ Len(group) <= RENAME_WIDTH
<1>1. PICK m \in 0 .. RENAME_WIDTH : group \in [1 .. m -> Inst]
  BY DEF BoundedSeq, SeqOf
<1>2. m \in Nat /\ m <= RENAME_WIDTH
  BY <1>1, Sizes
<1>3. group \in Seq(Inst) /\ Len(group) = m
  BY <1>1, <1>2
<1> QED
  BY <1>2, <1>3

LEMMA SyncTables ==
  ASSUME IInv, NEW group \in BoundedSeq(Inst, RENAME_WIDTH), ReadregRenameSync(group)
  PROVE  /\ Mappings(rob', map', next_id') /\ IsInjective(map')
         /\ Grown(rob, rob')
         /\ Renamed(group).port \in Seq(Pack) /\ Len(Renamed(group).port) = Len(rob') - Len(rob)
         /\ Len(Renamed(group).port) \in Nat /\ Len(Renamed(group).port) <= RENAME_WIDTH
         /\ \A k \in 1 .. Len(Renamed(group).port) :
              Joined(Renamed(group).port[k], rob'[Len(rob) + k])
         /\ group = << >> => rob' = rob
<1> DEFINE at == Renamed(group)
           n == Len(group)
<1>1. group \in Seq(Inst) /\ n \in Nat /\ n <= RENAME_WIDTH
  BY GroupType
<1>2. CanRename(group) /\ rob' = at.rob /\ next_id' = at.id /\ map' = at.map
  BY DEF ReadregRenameSync
<1>3. GroupState(group, at, n)
  BY <1>1, <1>2, RenamedIs
<1> HIDE DEF at, n
<1>4. /\ Mappings(at.rob, at.map, at.id) /\ Len(at.rob) = Len(rob) + n
      /\ \A k \in 1 .. Len(rob) : at.rob[k] = rob[k]
      /\ at.port \in Seq(Pack) /\ Len(at.port) = n
      /\ \A k \in 1 .. n : Joined(at.port[k], at.rob[Len(rob) + k])
  BY <1>3 DEF GroupState
<1>5. Mappings(rob', map', next_id')
  BY <1>2, <1>4
<1>6. IsInjective(map')
  <2>1. Len(rob') \in Nat
    BY <1>5 DEF Mappings
  <2>2. IsInjective(MapAt(rob', map', Len(rob')))
    BY <1>5, <2>1 DEF Mappings
  <2>3. MapAt(rob', map', Len(rob')) = map'
    BY <1>5, <2>1, MapAtType
  <2> QED
    BY <2>2, <2>3
<1>7. /\ rob \in Seq(Entry) /\ rob' \in Seq(Entry) /\ Len(rob) \in Nat /\ Len(rob') \in Nat
      /\ DOMAIN rob = 1 .. Len(rob) /\ DOMAIN rob' = 1 .. Len(rob')
      /\ Len(rob') = Len(rob) + n
      /\ \A k \in 1 .. Len(rob) : rob'[k] = rob[k]
  BY <1>2, <1>4, <1>5 DEF IInv, Mappings
<1>8. Grown(rob, rob')
  <2>1. \A k \in 1 .. Len(rob) : k \in 1 .. Len(rob') /\ rob'[k] = rob[k]
    BY <1>1, <1>7 DEF n
  <2>2. ASSUME NEW k \in Len(rob) + 1 .. Len(rob')
        PROVE  rob'[k].finish = "no"
    <3>1. k - Len(rob) \in 1 .. n /\ Len(rob) + (k - Len(rob)) = k
      BY <1>7, <1>1
    <3>2. Joined(at.port[k - Len(rob)], rob'[k])
      BY <1>2, <1>4, <3>1
    <3> QED
      BY <3>2 DEF Joined
  <2>3. \A i, j \in 1 .. Len(rob') : rob'[i].id = rob'[j].id => i = j
    BY <1>5, <1>7, IdsDistinct
  <2>4. Len(rob) <= Len(rob')
    BY <1>1, <1>7
  <2> QED
    BY <1>7, <2>1, <2>2, <2>3, <2>4 DEF Grown
<1>9. /\ at.port \in Seq(Pack) /\ Len(at.port) = Len(rob') - Len(rob)
      /\ Len(at.port) \in Nat /\ Len(at.port) <= RENAME_WIDTH
      /\ \A k \in 1 .. Len(at.port) : Joined(at.port[k], rob'[Len(rob) + k])
  BY <1>1, <1>2, <1>4, <1>7
<1>10. group = << >> => rob' = rob
  <2> SUFFICES ASSUME group = << >>
               PROVE  rob' = rob
    OBVIOUS
  <2>1. n = 0
    BY DEF n
  <2>2. Len(rob') = Len(rob) /\ \A k \in 1 .. Len(rob) : rob'[k] = rob[k]
    BY <1>7, <2>1
  <2> QED
    BY <1>7, <2>2, SeqEqual
<1> QED
  BY <1>5, <1>6, <1>8, <1>9, <1>10 DEF at

\* Which registers have changed.
LEMMA SyncFile ==
  ASSUME IInv, NEW group \in BoundedSeq(Inst, RENAME_WIDTH), ReadregRenameSync(group)
  PROVE  LET Given == FreePhy \ Renamed(group).free
         IN  /\ Given \subseteq Phy /\ Given \cap Used(rob, map) = {} /\ Given \cap released = {}
             /\ Written \subseteq News(rob) \cap Phy /\ Written \subseteq Used(rob, map)
             /\ \A p \in Phy :
                  content'[p] = IF p \in Given THEN Junk
                                ELSE IF p \in Written THEN p ELSE content[p]
             /\ Used(rob', map') \subseteq Used(rob, map) \cup Given \cup {NoPhy}
             /\ Used(rob, map) \subseteq Used(rob', map')
             /\ \A p \in Given :
                  \E i \in DOMAIN rob' : rob'[i].new = p /\ rob'[i].finish # "ok"
<1> DEFINE at == Renamed(group)
           n == Len(group)
           Given == FreePhy \ at.free
<1>1. group \in Seq(Inst) /\ n \in Nat /\ n <= RENAME_WIDTH
  BY GroupType
<1>2. CanRename(group) /\ rob' = at.rob /\ next_id' = at.id /\ map' = at.map
  BY DEF ReadregRenameSync
<1>3. GroupState(group, at, n)
  BY <1>1, <1>2, RenamedIs
<1>4. content' = [p \in Phy |->
         IF p \in Given THEN Junk
         ELSE IF p \in Written THEN (CHOOSE r \in wb_feedback_pack : r.rd = p).value
         ELSE content[p]]
  BY DEF ReadregRenameSync
<1> HIDE DEF at, n
<1>5. Given \subseteq Phy /\ Given \cap Used(rob, map) = {} /\ Given \cap released = {}
  BY FreeIs
<1>6. \A r \in wb_feedback_pack : r \in Results /\ r.rd \in Phy /\ r.rd \in News(rob) /\ r.value = r.rd
  <2> SUFFICES ASSUME NEW r \in wb_feedback_pack
               PROVE  r \in Results /\ r.rd \in Phy /\ r.rd \in News(rob) /\ r.value = r.rd
    OBVIOUS
  <2>1. r \in commit_port /\ r.rd # NoPhy
    BY DEF wb_feedback_pack, Feedback
  <2>2. r \in Results /\ r.rd \in Source
    BY <2>1 DEF Results, IInv, TypeOK, Result
  <2>3. r.rd \in News(rob)
    BY <2>2 DEF IInv, PlacesOK, Belongs, News
  <2>4. r.value = r.rd
    BY <2>2 DEF IInv, DataOK
  <2> QED
    BY <2>1, <2>2, <2>3, <2>4 DEF Source
<1>7. Written \subseteq News(rob) \cap Phy /\ Written \subseteq Used(rob, map)
  BY <1>6 DEF Written, Used
<1>8. ASSUME NEW p \in Written
      PROVE  (CHOOSE r \in wb_feedback_pack : r.rd = p).value = p
  <2>1. \E r \in wb_feedback_pack : r.rd = p
    BY DEF Written
  <2> DEFINE c == CHOOSE r \in wb_feedback_pack : r.rd = p
  <2>2. c \in wb_feedback_pack /\ c.rd = p
    BY <2>1
  <2> QED
    BY <1>6, <2>2
<1>9. \A p \in Phy : content'[p] = IF p \in Given THEN Junk
                                   ELSE IF p \in Written THEN p ELSE content[p]
  BY <1>4, <1>8
<1>10. /\ Used(rob', map') \subseteq Used(rob, map) \cup Given \cup {NoPhy}
       /\ Used(rob, map) \subseteq Used(rob', map')
  BY <1>2, <1>3 DEF GroupState
<1>11. ASSUME NEW p \in Given
       PROVE  \E i \in DOMAIN rob' : rob'[i].new = p /\ rob'[i].finish # "ok"
  <2>1. /\ Given \subseteq {at.rob[k].new : k \in Len(rob) + 1 .. Len(rob) + n}
        /\ Len(at.rob) = Len(rob) + n
    BY <1>3 DEF GroupState
  <2>2. PICK k \in Len(rob) + 1 .. Len(rob) + n : rob'[k].new = p
    BY <1>2, <2>1
  <2>3. Grown(rob, rob')
    BY SyncTables
  <2>4. k \in DOMAIN rob' /\ rob'[k].finish = "no"
    BY <1>2, <2>1, <2>2, <2>3 DEF Grown
  <2> QED
    BY <2>2, <2>4
<1> QED
  BY <1>5, <1>7, <1>9, <1>10, <1>11 DEF at

\* What stays as it is, and the ports in the two cases.
LEMMA SyncSteps ==
  ASSUME IInv, NEW group \in BoundedSeq(Inst, RENAME_WIDTH), ReadregRenameSync(group)
  PROVE  /\ stage = "readreg" /\ stage' = "commit"
         /\ issue_q' = issue_q /\ is_inst_waiting' = is_inst_waiting
         /\ inst_waiting_rob_id' = inst_waiting_rob_id
         /\ fifo' = fifo /\ held' = held /\ wb_port' = wb_port /\ commit_port' = commit_port
         /\ InUnits' = InUnits /\ Results' = Results
         /\ committed' = {} /\ released' = {} /\ next_handle_rob_id' = 0
         /\ stores' = stores \ committed /\ data_valid' = (data_valid \ released) \cup Written
         /\ draining' = (IF draining > 0 THEN draining - 1 ELSE 0)
                          + Cardinality(stores \cap committed)
         /\ stall => /\ rob' = rob /\ readreg_issue' = readreg_issue
                     /\ rename_readreg' = rename_readreg
         /\ ~stall => /\ rename_readreg' = Renamed(group).port /\ readreg_issue = << >>
                      /\ readreg_issue' = [i \in DOMAIN rename_readreg |-> Read(rename_readreg[i])]
<1>1. /\ stage = "readreg" /\ stage' = "commit"
      /\ issue_q' = issue_q /\ is_inst_waiting' = is_inst_waiting
      /\ inst_waiting_rob_id' = inst_waiting_rob_id
      /\ fifo' = fifo /\ held' = held /\ wb_port' = wb_port /\ commit_port' = commit_port
      /\ committed' = {} /\ released' = {} /\ next_handle_rob_id' = 0
      /\ stores' = stores \ committed /\ data_valid' = (data_valid \ released) \cup Written
      /\ draining' = (IF draining > 0 THEN draining - 1 ELSE 0)
                       + Cardinality(stores \cap committed)
  BY DEF ReadregRenameSync, issuevars, units
<1>2. stall => /\ group = << >> /\ readreg_issue' = readreg_issue
               /\ rename_readreg' = rename_readreg
  BY DEF ReadregRenameSync
<1>3. ~stall => /\ rename_readreg' = Renamed(group).port
                /\ readreg_issue' = [i \in DOMAIN rename_readreg |-> Read(rename_readreg[i])]
  BY DEF ReadregRenameSync
<1>4. group = << >> => rob' = rob
  BY SyncTables
<1>5. InUnits' = InUnits /\ Results' = Results
  BY <1>1 DEF InUnits, Results
<1>6. ~stall => readreg_issue = << >>
  BY DEF stall
<1> QED
  BY <1>1, <1>2, <1>3, <1>4, <1>5, <1>6

\* Without a stall: what was in the port has been read, the port has the group.
LEMMA SyncPorts ==
  ASSUME IInv, NEW group \in BoundedSeq(Inst, RENAME_WIDTH), ReadregRenameSync(group), ~stall
  PROVE  /\ readreg_issue' \in Seq(Pack) /\ Len(readreg_issue') <= RENAME_WIDTH
         /\ DOMAIN readreg_issue' = DOMAIN rename_readreg
         /\ \A k \in DOMAIN rename_readreg :
              /\ rename_readreg[k] \in Before
              /\ Same(readreg_issue'[k], rename_readreg[k]) /\ Fine(readreg_issue'[k])
         /\ rename_readreg' \in Seq(Pack) /\ Len(rename_readreg') <= RENAME_WIDTH
         /\ DOMAIN rename_readreg' = 1 .. Len(rob') - Len(rob)
         /\ \A k \in DOMAIN rename_readreg' :
              /\ Len(rob) + k \in Len(rob) + 1 .. Len(rob')
              /\ Joined(rename_readreg'[k], rob'[Len(rob) + k])
<1>1. /\ rename_readreg' = Renamed(group).port
      /\ readreg_issue' = [i \in DOMAIN rename_readreg |-> Read(rename_readreg[i])]
  BY SyncSteps
<1>2. /\ rename_readreg \in Seq(Pack) /\ Len(rename_readreg) <= RENAME_WIDTH
      /\ Len(rename_readreg) \in Nat /\ DOMAIN rename_readreg = 1 .. Len(rename_readreg)
  BY DEF IInv, TypeOK
<1>3. ASSUME NEW k \in DOMAIN rename_readreg
      PROVE  /\ rename_readreg[k] \in Before /\ readreg_issue'[k] \in Pack
             /\ Same(readreg_issue'[k], rename_readreg[k]) /\ Fine(readreg_issue'[k])
  <2>1. rename_readreg[k] \in Before
    BY DEF Before, ToSet
  <2>2. rename_readreg[k] \in Pack /\ Fine(rename_readreg[k])
    BY <2>1, BeforeType
  <2>3. readreg_issue'[k] = Read(rename_readreg[k])
    BY <1>1
  <2> QED
    BY <2>1, <2>2, <2>3, ReadFine DEF IInv
<1>4. /\ readreg_issue' \in Seq(Pack) /\ Len(readreg_issue') <= RENAME_WIDTH
      /\ DOMAIN readreg_issue' = DOMAIN rename_readreg
  <2>1. readreg_issue' \in [1 .. Len(rename_readreg) -> Pack]
    <3>1. \A k \in 1 .. Len(rename_readreg) : Read(rename_readreg[k]) \in Pack
      BY <1>1, <1>2, <1>3
    <3> QED
      BY <1>1, <1>2, <3>1
  <2> QED
    BY <1>2, <2>1
<1>5. Grown(rob, rob')
  BY SyncTables
<1>6. /\ Len(rob) \in Nat /\ Len(rob') \in Nat
  BY <1>5 DEF Grown
<1> DEFINE p == Renamed(group).port
<1>7. /\ p \in Seq(Pack) /\ Len(p) = Len(rob') - Len(rob) /\ Len(p) \in Nat
      /\ Len(p) <= RENAME_WIDTH
      /\ \A k \in 1 .. Len(p) : Joined(p[k], rob'[Len(rob) + k])
  BY SyncTables
<1>8. p = rename_readreg'
  BY <1>1
<1> HIDE DEF p
<1>9. \A k \in 1 .. Len(rob') - Len(rob) : Len(rob) + k \in Len(rob) + 1 .. Len(rob')
  BY <1>6
<1>10. DOMAIN rename_readreg' = 1 .. Len(rob') - Len(rob)
  BY <1>7, <1>8
<1> QED
  BY <1>3, <1>4, <1>7, <1>8, <1>9, <1>10

LEMMA SyncPlaces ==
  ASSUME IInv, NEW group \in BoundedSeq(Inst, RENAME_WIDTH), ReadregRenameSync(group)
  PROVE  PlacesOK'
<1>1. /\ issue_q' = issue_q /\ fifo' = fifo /\ held' = held /\ wb_port' = wb_port
      /\ commit_port' = commit_port /\ InUnits' = InUnits /\ Results' = Results
  BY SyncSteps
<1>2. CASE stall
  <2>1. rob' = rob /\ readreg_issue' = readreg_issue /\ rename_readreg' = rename_readreg
    BY <1>2, SyncSteps
  <2>2. Before' = Before /\ Unfinished' = Unfinished
    BY <1>1, <2>1 DEF Before, Unfinished
  <2>3. PlacesOK
    BY DEF IInv
  <2> QED
    BY <1>1, <2>1, <2>2, <2>3 DEF PlacesOK
<1>3. CASE ~stall
  <2> DEFINE r == rob'
             s == readreg_issue'
             t == rename_readreg'
             L == Len(rob)
             K == L + 1 .. Len(r)
  <2>1. Grown(rob, r)
    BY SyncTables
  <2>2. /\ DOMAIN s = DOMAIN rename_readreg
        /\ \A k \in DOMAIN rename_readreg :
             rename_readreg[k] \in Before /\ Same(s[k], rename_readreg[k])
        /\ DOMAIN t = 1 .. Len(r) - L
        /\ \A k \in DOMAIN t : L + k \in K /\ Joined(t[k], r[L + k])
    BY <1>3, SyncPorts
  <2>3. readreg_issue = << >> /\ ToSet(readreg_issue) = {}
    BY <1>3, SyncSteps DEF ToSet
  <2> HIDE DEF r, s, t, L, K
  <2>4. /\ L \in Nat /\ Len(r) \in Nat /\ DOMAIN rob = 1 .. L /\ DOMAIN r = 1 .. Len(r)
        /\ \A k \in 1 .. L : k \in 1 .. Len(r) /\ r[k] = rob[k]
        /\ \A i, j \in 1 .. Len(r) : r[i].id = r[j].id => i = j
    BY <2>1 DEF Grown, L
  <2>5. K \subseteq DOMAIN r
    BY <2>4 DEF K
  <2>6. \A k \in K : k - L \in DOMAIN t /\ L + (k - L) = k
    BY <2>2, <2>4 DEF K
  <2>7. Before' = ToSet(t) \cup ToSet(s) \cup ToSet(issue_q)
    BY <1>1 DEF Before, s, t
  <2>8. /\ \A x \in Before \cup InUnits \cup Results : Belongs(rob, x)
        /\ Distinct(InUnits) /\ Distinct(wb_port) /\ Distinct(commit_port)
        /\ Ids(Before) \cap (Ids(InUnits) \cup Ids(Results)) = {}
        /\ Ids(InUnits) \cap Ids(Results) = {}
        /\ Ids(wb_port) \cap Ids(commit_port) = {}
        /\ Unfinished \subseteq Ids(Before) \cup Ids(InUnits) \cup Ids(Results)
        /\ InOrder(rob, issue_q) /\ InOrder(rob, rename_readreg)
        /\ Behind(rob, issue_q, rename_readreg)
        /\ \A u \in Unit : \A x \in fifo[u] : UnitOf(x.op) = u
        /\ \A x \in held : x.op = "store"
        /\ \A x \in held, y \in fifo["lsu"] : x.id # y.id
    BY DEF IInv, PlacesOK
  <2>9. \A k \in DOMAIN issue_q : issue_q[k] \in Before
    BY DEF Before, ToSet
  <2>10. ASSUME NEW x \in ToSet(t)
         PROVE  Belongs(r, x) /\ \E k \in K : r[k].id = x.id
    <3>1. PICK k \in DOMAIN t : x = t[k]
      BY DEF ToSet
    <3>2. L + k \in K /\ Joined(x, r[L + k])
      BY <2>2, <3>1
    <3> QED
      BY <2>5, <3>2 DEF Joined, Belongs
  <2>11. ASSUME NEW x \in ToSet(s) \cup ToSet(issue_q)
         PROVE  \E y \in Before : Same(x, y)
    <3>1. CASE x \in ToSet(s)
      BY <2>2, <3>1 DEF ToSet
    <3>2. CASE x \in ToSet(issue_q)
      <4>1. x \in Before /\ Same(x, x)
        BY <3>2 DEF Before, Same
      <4> QED
        BY <4>1
    <3> QED
      BY <3>1, <3>2
  <2>12. ASSUME NEW x, NEW y \in Before, Same(x, y)
         PROVE  Belongs(rob, x)
    <3>1. Belongs(rob, y)
      BY <2>8
    <3> QED
      BY <2>12, <3>1 DEF Belongs, Same
  <2>13. \A x \in Before' \cup InUnits' \cup Results' : Belongs(r, x)
    <3> SUFFICES ASSUME NEW x \in Before' \cup InUnits' \cup Results'
                 PROVE  Belongs(r, x)
      OBVIOUS
    <3>1. CASE x \in ToSet(t)
      BY <2>10, <3>1
    <3>2. CASE x \in ToSet(s) \cup ToSet(issue_q) \cup InUnits \cup Results
      <4>1. Belongs(rob, x)
        BY <2>8, <2>11, <2>12, <3>2
      <4> QED
        BY <2>1, <4>1, GrownOrder
    <3> QED
      BY <1>1, <2>7, <3>1, <3>2
  <2>14. \A x \in ToSet(t) : x.id \notin Ids(InUnits) \cup Ids(Results)
    <3> SUFFICES ASSUME NEW x \in ToSet(t), NEW y \in InUnits \cup Results, y.id = x.id
                 PROVE  FALSE
      BY DEF Ids
    <3>1. PICK k \in K : r[k].id = x.id
      BY <2>10
    <3>2. Belongs(rob, y)
      BY <2>8
    <3> QED
      BY <2>1, <3>1, <3>2, GrownOrder DEF K, L
  <2>15. Ids(ToSet(s)) \cup Ids(ToSet(issue_q)) = Ids(Before)
    <3>1. Ids(ToSet(s)) \cup Ids(ToSet(issue_q)) \subseteq Ids(Before)
      BY <2>11 DEF Ids, Same
    <3>2. ASSUME NEW x \in Before
          PROVE  x.id \in Ids(ToSet(s)) \cup Ids(ToSet(issue_q))
      <4>1. CASE x \in ToSet(issue_q)
        BY <4>1 DEF Ids
      <4>2. CASE x \in ToSet(rename_readreg)
        <5>1. PICK k \in DOMAIN rename_readreg : x = rename_readreg[k]
          BY <4>2 DEF ToSet
        <5>2. s[k] \in ToSet(s) /\ s[k].id = x.id
          BY <2>2, <5>1 DEF ToSet, Same
        <5> QED
          BY <5>2 DEF Ids
      <4> QED
        BY <2>3, <4>1, <4>2 DEF Before
    <3>3. Ids(Before) \subseteq Ids(ToSet(s)) \cup Ids(ToSet(issue_q))
      BY <3>2 DEF Ids
    <3> QED
      BY <3>1, <3>3
  <2>16. Ids(Before') = Ids(Before) \cup Ids(ToSet(t))
    <3>1. Ids(Before') = Ids(ToSet(t)) \cup Ids(ToSet(s)) \cup Ids(ToSet(issue_q))
      BY <2>7 DEF Ids
    <3> QED
      BY <2>15, <3>1
  <2>17. Ids(Before') \cap (Ids(InUnits') \cup Ids(Results')) = {}
    <3>1. Ids(ToSet(t)) \cap (Ids(InUnits) \cup Ids(Results)) = {}
      BY <2>14 DEF Ids
    <3> QED
      BY <1>1, <2>8, <2>16, <3>1
  <2>18. Unfinished' \subseteq Ids(Before') \cup Ids(InUnits') \cup Ids(Results')
    <3> SUFFICES ASSUME NEW i \in 1 .. Len(r), r[i].finish = "no"
                 PROVE  r[i].id \in Ids(Before') \cup Ids(InUnits') \cup Ids(Results')
      <4>1. Unfinished' = {e.id : e \in {e \in ToSet(r) : e.finish = "no"}}
        BY DEF Unfinished, r
      <4>2. ToSet(r) = {r[i] : i \in 1 .. Len(r)}
        BY <2>4 DEF ToSet
      <4> QED
        BY <4>1, <4>2
    <3>1. CASE i \in 1 .. L
      <4>1. rob[i] \in ToSet(rob) /\ rob[i] = r[i]
        BY <2>4, <3>1 DEF ToSet
      <4>2. r[i].id \in Unfinished
        BY <4>1 DEF Unfinished
      <4> QED
        BY <1>1, <2>8, <2>16, <4>2
    <3>2. CASE i \notin 1 .. L
      <4>1. i \in K
        BY <2>4, <3>2 DEF K
      <4>2. i - L \in DOMAIN t /\ t[i - L].id = r[i].id
        BY <2>2, <2>6, <4>1 DEF Joined
      <4>3. t[i - L] \in ToSet(t)
        BY <4>2 DEF ToSet
      <4> QED
        BY <2>16, <4>2, <4>3 DEF Ids
    <3> QED
      BY <3>1, <3>2
  <2>19. \A k \in DOMAIN s : /\ s[k].id = rename_readreg[k].id /\ Belongs(rob, s[k])
                             /\ k \in DOMAIN rename_readreg
    BY <2>2, <2>12 DEF Same
  <2>20. InOrder(r, issue_q)
    <3> SUFFICES ASSUME NEW k \in DOMAIN issue_q, NEW l \in DOMAIN issue_q, k < l
                 PROVE  Precedes(r, issue_q[k], issue_q[l])
      BY DEF InOrder
    <3>1. /\ Precedes(rob, issue_q[k], issue_q[l])
          /\ Belongs(rob, issue_q[k]) /\ Belongs(rob, issue_q[l])
      BY <2>8, <2>9 DEF InOrder
    <3> QED
      BY <2>1, <3>1, GrownOrder
  <2>21. InOrder(r, s)
    <3> SUFFICES ASSUME NEW k \in DOMAIN s, NEW l \in DOMAIN s, k < l
                 PROVE  Precedes(r, s[k], s[l])
      BY DEF InOrder
    <3>1. Precedes(rob, rename_readreg[k], rename_readreg[l])
      BY <2>8, <2>19 DEF InOrder
    <3>2. Precedes(rob, s[k], s[l])
      BY <2>19, <3>1, SamePrecedes
    <3> QED
      BY <2>1, <2>19, <3>2, GrownOrder
  <2>22. Behind(r, issue_q, s)
    <3> SUFFICES ASSUME NEW k \in DOMAIN issue_q, NEW l \in DOMAIN s
                 PROVE  Precedes(r, issue_q[k], s[l])
      BY DEF Behind
    <3>1. Precedes(rob, issue_q[k], rename_readreg[l]) /\ Belongs(rob, issue_q[k])
      BY <2>8, <2>9, <2>19 DEF Behind
    <3>2. Precedes(rob, issue_q[k], s[l])
      BY <2>19, <3>1, SamePrecedes
    <3> QED
      BY <2>1, <2>19, <3>1, <3>2, GrownOrder
  <2>23. ASSUME NEW x, Belongs(rob, x), NEW l \in DOMAIN t
         PROVE  Precedes(r, x, t[l])
    <3>1. L + l \in K /\ r[L + l].id = t[l].id
      BY <2>2 DEF Joined
    <3> QED
      BY <2>1, <2>23, <3>1, GrownOrder DEF K, L
  <2>24. Behind(r, issue_q, t) /\ Behind(r, s, t)
    BY <2>8, <2>9, <2>19, <2>23 DEF Behind
  <2>25. InOrder(r, t)
    <3> SUFFICES ASSUME NEW k \in DOMAIN t, NEW l \in DOMAIN t, k < l,
                        NEW i \in DOMAIN r, NEW j \in DOMAIN r, r[i].id = t[k].id, r[j].id = t[l].id
                 PROVE  i < j
      BY DEF InOrder, Precedes
    <3>1. /\ L + k \in DOMAIN r /\ r[L + k].id = t[k].id
          /\ L + l \in DOMAIN r /\ r[L + l].id = t[l].id
      BY <2>2, <2>5 DEF Joined
    <3>2. i = L + k /\ j = L + l
      BY <2>4, <3>1
    <3>3. k \in Int /\ l \in Int
      BY <2>2
    <3> QED
      BY <2>4, <3>2, <3>3
  <2> QED
    BY <1>1, <2>8, <2>13, <2>17, <2>18, <2>20, <2>21, <2>22, <2>24, <2>25 DEF PlacesOK, r, s, t
<1> QED
  BY <1>2, <1>3

LEMMA SyncDispatched ==
  ASSUME IInv, NEW group \in BoundedSeq(Inst, RENAME_WIDTH), ReadregRenameSync(group)
  PROVE  /\ DOMAIN rob \subseteq DOMAIN rob' /\ DOMAIN rob' \subseteq Nat
         /\ \A i \in DOMAIN rob : /\ rob'[i] = rob[i]
                                  /\ Dispatched(i)' <=> Dispatched(i)
                                  /\ Executed(i)' <=> Executed(i)
         /\ \A i \in DOMAIN rob' \ DOMAIN rob :
              ~Dispatched(i)' /\ \A j \in DOMAIN rob : j < i
<1>1. InUnits' = InUnits /\ Results' = Results
  BY SyncSteps
<1>2. Grown(rob, rob')
  BY SyncTables
<1>3. /\ Len(rob) \in Nat /\ Len(rob') \in Nat /\ Len(rob) <= Len(rob')
      /\ DOMAIN rob = 1 .. Len(rob) /\ DOMAIN rob' = 1 .. Len(rob')
      /\ \A k \in 1 .. Len(rob) : k \in 1 .. Len(rob') /\ rob'[k] = rob[k]
      /\ \A k \in Len(rob) + 1 .. Len(rob') : rob'[k].finish = "no"
  BY <1>2 DEF Grown
<1>4. \A i \in DOMAIN rob : /\ rob'[i] = rob[i]
                            /\ Dispatched(i)' <=> Dispatched(i)
                            /\ Executed(i)' <=> Executed(i)
  BY <1>1, <1>3 DEF Dispatched, Executed
<1>5. ASSUME NEW i \in DOMAIN rob' \ DOMAIN rob
      PROVE  ~Dispatched(i)' /\ \A j \in DOMAIN rob : j < i
  <2>1. i \in Len(rob) + 1 .. Len(rob') /\ \A j \in DOMAIN rob : j < i
    BY <1>3
  <2>2. rob'[i].id \notin Ids(InUnits) \cup Ids(Results)
    <3> SUFFICES ASSUME NEW y \in InUnits \cup Results, y.id = rob'[i].id
                 PROVE  FALSE
      BY DEF Ids
    <3>1. Belongs(rob, y)
      BY DEF IInv, PlacesOK
    <3> QED
      BY <1>2, <2>1, <3>1, GrownOrder
  <2>3. ~Dispatched(i)'
    BY <1>1, <1>3, <2>1, <2>2 DEF Dispatched
  <2> QED
    BY <2>1, <2>3
<1> QED
  BY <1>3, <1>4, <1>5

LEMMA SyncOrders ==
  ASSUME IInv, NEW group \in BoundedSeq(Inst, RENAME_WIDTH), ReadregRenameSync(group)
  PROVE  AloneOK' /\ FenceOK' /\ MemoryOK'
<1>1. /\ is_inst_waiting' = is_inst_waiting /\ inst_waiting_rob_id' = inst_waiting_rob_id
      /\ fifo' = fifo /\ held' = held /\ committed' = {}
      /\ draining' = (IF draining > 0 THEN draining - 1 ELSE 0)
                       + Cardinality(stores \cap committed)
  BY SyncSteps
<1>2. /\ DOMAIN rob \subseteq DOMAIN rob' /\ DOMAIN rob' \subseteq Nat
      /\ \A i \in DOMAIN rob : /\ rob'[i] = rob[i]
                               /\ Dispatched(i)' <=> Dispatched(i)
                               /\ Executed(i)' <=> Executed(i)
      /\ \A i \in DOMAIN rob' \ DOMAIN rob :
           ~Dispatched(i)' /\ \A j \in DOMAIN rob : j < i
  BY SyncDispatched
<1>3. ASSUME NEW i \in DOMAIN rob', ~Dispatched(i)',
             i \in DOMAIN rob => \A j \in DOMAIN rob : j > i => ~Dispatched(j)
      PROVE  \A j \in DOMAIN rob' : j > i => ~Dispatched(j)'
  <2> SUFFICES ASSUME NEW j \in DOMAIN rob', j > i, Dispatched(j)'
               PROVE  FALSE
    OBVIOUS
  <2>1. j \in DOMAIN rob /\ Dispatched(j)
    BY <1>2
  <2>2. i \notin DOMAIN rob
    BY <1>3, <2>1
  <2>3. j < i
    BY <1>2, <2>1, <2>2
  <2> QED
    BY <1>2, <2>3
<1>4. AloneOK'
  <2> SUFFICES ASSUME NEW i \in DOMAIN rob', Alone(rob'[i].op)
               PROVE  IF Dispatched(i)'
                      THEN /\ i = 1 /\ \A j \in DOMAIN rob' \ {i} : ~Dispatched(j)'
                           /\ is_inst_waiting' /\ inst_waiting_rob_id' = rob'[i].id
                      ELSE \A j \in DOMAIN rob' : j > i => ~Dispatched(j)'
    BY DEF AloneOK
  <2>1. CASE Dispatched(i)'
    <3>1. i \in DOMAIN rob /\ rob'[i] = rob[i] /\ Dispatched(i)
      BY <1>2, <2>1
    <3>2. /\ i = 1 /\ \A j \in DOMAIN rob \ {i} : ~Dispatched(j)
          /\ is_inst_waiting /\ inst_waiting_rob_id = rob[i].id
      BY <3>1 DEF IInv, AloneOK
    <3>3. \A j \in DOMAIN rob' \ {i} : ~Dispatched(j)'
      BY <1>2, <3>2
    <3> QED
      BY <1>1, <2>1, <3>1, <3>2, <3>3
  <2>2. CASE ~Dispatched(i)'
    <3>1. i \in DOMAIN rob => \A j \in DOMAIN rob : j > i => ~Dispatched(j)
      BY <1>2, <2>2 DEF IInv, AloneOK
    <3>2. \A j \in DOMAIN rob' : j > i => ~Dispatched(j)'
      BY <1>3, <2>2, <3>1
    <3> QED
      BY <2>2, <3>2
  <2> QED
    BY <2>1, <2>2
<1>5. FenceOK'
  <2> SUFFICES ASSUME NEW i \in DOMAIN rob', rob'[i].op = "fence"
               PROVE  IF Dispatched(i)'
                      THEN i = 1 /\ draining' = 0 /\ stores' \cap committed' = {}
                      ELSE \A j \in DOMAIN rob' : j > i => ~Dispatched(j)'
    BY DEF FenceOK
  <2>1. CASE Dispatched(i)'
    <3>1. i \in DOMAIN rob /\ rob'[i] = rob[i] /\ Dispatched(i)
      BY <1>2, <2>1
    <3>2. i = 1 /\ draining = 0 /\ stores \cap committed = {}
      BY <3>1 DEF IInv, FenceOK
    <3>3. draining' = 0
      BY <1>1, <3>2, FS_EmptySet
    <3> QED
      BY <1>1, <2>1, <3>2, <3>3
  <2>2. CASE ~Dispatched(i)'
    <3>1. i \in DOMAIN rob => \A j \in DOMAIN rob : j > i => ~Dispatched(j)
      BY <1>2, <2>2 DEF IInv, FenceOK
    <3>2. \A j \in DOMAIN rob' : j > i => ~Dispatched(j)'
      BY <1>3, <2>2, <3>1
    <3> QED
      BY <2>2, <3>2
  <2> QED
    BY <2>1, <2>2
<1>6. MemoryOK'
  <2> SUFFICES ASSUME NEW i \in DOMAIN rob', NEW j \in DOMAIN rob', i < j,
                      {UnitOf(rob'[i].op), UnitOf(rob'[j].op)} = {"lsu"}, Dispatched(j)'
               PROVE  Executed(i)' \/ (rob'[i].id \in Ids(held)' /\ rob'[j].id \in Ids(fifo["lsu"])')
    BY DEF MemoryOK
  <2>1. j \in DOMAIN rob /\ Dispatched(j) /\ rob'[j] = rob[j]
    BY <1>2
  <2>2. i \in DOMAIN rob /\ rob'[i] = rob[i]
    <3>1. i \notin DOMAIN rob => j < i
      BY <1>2, <2>1
    <3> QED
      BY <1>2, <3>1
  <2>3. Executed(i) \/ (rob[i].id \in Ids(held) /\ rob[j].id \in Ids(fifo["lsu"]))
    BY <2>1, <2>2 DEF IInv, MemoryOK
  <2>4. Ids(held)' = Ids(held) /\ Ids(fifo["lsu"])' = Ids(fifo["lsu"])
    BY <1>1 DEF Ids
  <2> QED
    BY <1>2, <2>1, <2>2, <2>3, <2>4
<1> QED
  BY <1>4, <1>5, <1>6

LEMMA SyncData ==
  ASSUME IInv, NEW group \in BoundedSeq(Inst, RENAME_WIDTH), ReadregRenameSync(group)
  PROVE  /\ DataOK' /\ ListeningOK'
         /\ data_valid' \subseteq Phy /\ content' \in [Phy -> Value]
<1>1. /\ stage = "readreg" /\ stage' = "commit" /\ issue_q' = issue_q /\ commit_port' = commit_port
      /\ InUnits' = InUnits /\ Results' = Results /\ released' = {}
      /\ data_valid' = (data_valid \ released) \cup Written
  BY SyncSteps
<1> DEFINE Given == FreePhy \ Renamed(group).free
           U == Used(rob, map)
           U2 == Used(rob', map')
<1>2. /\ Given \subseteq Phy /\ Given \cap U = {} /\ Given \cap released = {}
      /\ Written \subseteq News(rob) \cap Phy /\ Written \subseteq U
      /\ \A p \in Phy : content'[p] = IF p \in Given THEN Junk
                                      ELSE IF p \in Written THEN p ELSE content[p]
      /\ U2 \subseteq U \cup Given \cup {NoPhy} /\ U \subseteq U2
      /\ \A p \in Given : \E i \in DOMAIN rob' : rob'[i].new = p /\ rob'[i].finish # "ok"
  BY SyncFile
<1> HIDE DEF Given
<1>3. /\ U = Range(map) \cup Olds(rob) \cup News(rob)
      /\ U2 = Range(map') \cup Olds(rob') \cup News(rob')
  BY DEF Used
<1> HIDE DEF U, U2
<1>4. /\ data_valid \subseteq U \cup released /\ data_valid \subseteq Phy
      /\ \A p \in data_valid : content[p] = p
      /\ \A p \in Phy \cap U : content[p] = p \/ \E i \in DOMAIN rob : rob[i].new = p /\ rob[i].finish # "ok"
      /\ content \in [Phy -> Value]
  BY <1>3 DEF IInv, DataOK, TypeOK
<1>5. data_valid' \subseteq Phy /\ data_valid' \subseteq U
  BY <1>1, <1>2, <1>4
<1>6. \A p \in data_valid' : content'[p] = p
  BY <1>1, <1>2, <1>4, <1>5
<1>7. data_valid' \subseteq Range(map') \cup Olds(rob') \cup News(rob') \cup released'
  BY <1>2, <1>3, <1>5
<1>8. ASSUME NEW p \in Phy \cap U2
      PROVE  content'[p] = p \/ \E i \in DOMAIN rob' : rob'[i].new = p /\ rob'[i].finish # "ok"
  <2>1. p # NoPhy
    BY NotPhy
  <2>2. CASE p \in Given
    BY <1>2, <2>2
  <2>3. CASE p \in U
    <3>1. content'[p] = p \/ content'[p] = content[p]
      BY <1>2, <2>3
    <3>2. CASE content[p] = p
      BY <3>1, <3>2
    <3>3. CASE \E i \in DOMAIN rob : rob[i].new = p /\ rob[i].finish # "ok"
      BY <3>3, SyncDispatched
    <3> QED
      BY <1>4, <2>3, <3>2, <3>3
  <2> QED
    BY <1>2, <2>1, <2>2, <2>3
<1>9. ASSUME NEW r \in commit_port, ~r.raised, r.rd # NoPhy
      PROVE  content'[r.rd] = r.rd
  <2>1. r.rd \in Written
    BY <1>9 DEF Written, wb_feedback_pack, Feedback
  <2> QED
    BY <1>2, <2>1
<1>10. \A x \in Before' : Fine(x)
  <2>1. CASE stall
    <3>1. Before' = Before
      BY <1>1, <2>1, SyncSteps DEF Before
    <3> QED
      BY <3>1, BeforeType
  <2>2. CASE ~stall
    <3>1. \A k \in DOMAIN readreg_issue' : Fine(readreg_issue'[k])
      BY <2>2, SyncPorts
    <3>2. \A k \in DOMAIN rename_readreg' : Fine(rename_readreg'[k])
      BY <2>2, SyncPorts DEF Joined, Fine
    <3>3. \A x \in ToSet(issue_q) : Fine(x)
      BY BeforeType DEF Before
    <3> QED
      BY <1>1, <3>1, <3>2, <3>3 DEF Before, ToSet
  <2> QED
    BY <2>1, <2>2
<1>11. DataOK'
  <2>1. \A x \in Before' : /\ Right(x.src1, x.val1) /\ Right(x.src2, x.val2)
                           /\ x.op = "fence" => x.val1 # Unloaded /\ x.val2 # Unloaded
    BY <1>10 DEF Fine
  <2>2. OperandsRight'
    BY <1>1 DEF IInv, DataOK, OperandsRight
  <2>3. \A r \in Results' : r.value = r.rd
    BY <1>1 DEF IInv, DataOK
  <2>4. \A r \in commit_port' : ~r.raised /\ r.rd # NoPhy => content'[r.rd] = r.rd
    BY <1>1, <1>9
  <2>5. \A p \in Phy \cap (Range(map') \cup Olds(rob') \cup News(rob')) :
          content'[p] = p \/ \E i \in DOMAIN rob' : rob'[i].new = p /\ rob'[i].finish # "ok"
    BY <1>3, <1>8
  <2> QED
    BY <1>6, <1>7, <2>1, <2>2, <2>3, <2>4, <2>5 DEF DataOK
<1>12. ListeningOK'
  <2>1. ASSUME NEW x \in ToSet(issue_q), NEW src \in Awaited(x)
        PROVE  /\ src \notin data_valid'
               /\ \A r \in Results' : r.rd = src => r.raised
    <3>1. src \notin data_valid /\ \A r \in Results : r.rd = src => r.raised
      BY <1>1 DEF IInv, ListeningOK
    <3>2. src \notin Written
      BY <3>1 DEF Written, wb_feedback_pack, Feedback, Results
    <3> QED
      BY <1>1, <3>1, <3>2
  <2>2. \A x : Awaited(x)' = Awaited(x)
    BY DEF Awaited
  <2> QED
    BY <1>1, <2>1, <2>2 DEF ListeningOK, Awaited
<1>13. content' \in [Phy -> Value]
  <2>1. content' = [p \in Phy |-> content'[p]]
    BY DEF ReadregRenameSync
  <2>2. \A p \in Phy : content'[p] \in Value
    BY <1>2, <1>4 DEF Value
  <2> QED
    BY <2>1, <2>2
<1> QED
  BY <1>5, <1>11, <1>12, <1>13

LEMMA SyncTypes ==
  ASSUME IInv, NEW group \in BoundedSeq(Inst, RENAME_WIDTH), ReadregRenameSync(group)
  PROVE  TypeOK'
<1>1. /\ stage' = "commit"
      /\ issue_q' = issue_q /\ is_inst_waiting' = is_inst_waiting
      /\ inst_waiting_rob_id' = inst_waiting_rob_id
      /\ fifo' = fifo /\ held' = held /\ wb_port' = wb_port /\ commit_port' = commit_port
      /\ committed' = {} /\ released' = {} /\ next_handle_rob_id' = 0
      /\ stores' = stores \ committed
      /\ draining' = (IF draining > 0 THEN draining - 1 ELSE 0)
                       + Cardinality(stores \cap committed)
  BY SyncSteps
<1>2. /\ rob' \in Seq(Entry) /\ Len(rob') <= ROB_SIZE /\ next_id' \in RobId
      /\ map' \in [Arch -> Phy] /\ IsInjective(map')
  BY SyncTables DEF Mappings
<1>3. data_valid' \subseteq Phy /\ content' \in [Phy -> Value]
  BY SyncData
<1>4. /\ rename_readreg' \in Seq(Pack) /\ Len(rename_readreg') <= RENAME_WIDTH
      /\ readreg_issue' \in Seq(Pack) /\ Len(readreg_issue') <= RENAME_WIDTH
  <2>1. CASE stall
    BY <2>1, SyncSteps DEF IInv, TypeOK
  <2>2. CASE ~stall
    BY <2>2, SyncPorts
  <2> QED
    BY <2>1, <2>2
<1>5. /\ stores' \subseteq RobId /\ draining' \in 0 .. STORE_BUFFER_SIZE
      /\ Cardinality(stores') + draining' <= STORE_BUFFER_SIZE
  <2>1. /\ stores \subseteq RobId /\ draining \in Nat
        /\ Cardinality(stores) + draining <= STORE_BUFFER_SIZE
    BY DEF IInv, TypeOK
  <2>2. IsFiniteSet(stores)
    <3>1. IsFiniteSet(RobId)
      BY Sizes, FS_Interval DEF RobId
    <3> QED
      BY <2>1, <3>1, FS_Subset
  <2> DEFINE a == Cardinality(stores)
             b == Cardinality(stores \cap committed)
  <2>3. a \in Nat /\ b \in Nat /\ b <= a /\ Cardinality(stores \ committed) = a - b
    BY <2>2, FS_CardinalityType, FS_Intersection, FS_Difference
  <2>4. stores' \subseteq RobId /\ Cardinality(stores') = a - b
    BY <1>1, <2>1, <2>3
  <2>5. draining' = (IF draining > 0 THEN draining - 1 ELSE 0) + b
    BY <1>1
  <2>6. a + draining <= STORE_BUFFER_SIZE
    BY <2>1
  <2> HIDE DEF a, b
  <2> QED
    BY <2>1, <2>3, <2>4, <2>5, <2>6, Sizes
<1>6. 0 \in RobId
  BY Sizes DEF RobId
<1> QED
  BY <1>1, <1>2, <1>3, <1>4, <1>5, <1>6 DEF IInv, TypeOK

LEMMA SyncOK ==
  ASSUME IInv, NEW group \in BoundedSeq(Inst, RENAME_WIDTH), ReadregRenameSync(group)
  PROVE  IInv'
<1>1. stage' = "commit" /\ committed' = {} /\ released' = {}
  BY SyncSteps
<1>2. FeedbackOK'
  BY <1>1 DEF FeedbackOK
<1>3. Mappings(rob', map', next_id')
  BY SyncTables
<1> QED
  BY <1>2, <1>3, SyncTypes, SyncPlaces, SyncData, SyncOrders DEF IInv

-----------------------------------------------------------------------------
(* The invariant holds.                                                    *)

LEMMA StutterOK ==
  ASSUME IInv, UNCHANGED vars
  PROVE  IInv'
<1>1. /\ rob' = rob /\ next_id' = next_id /\ map' = map /\ released' = released
      /\ data_valid' = data_valid /\ content' = content
      /\ rename_readreg' = rename_readreg /\ readreg_issue' = readreg_issue /\ issue_q' = issue_q
      /\ is_inst_waiting' = is_inst_waiting /\ inst_waiting_rob_id' = inst_waiting_rob_id
      /\ fifo' = fifo /\ held' = held /\ wb_port' = wb_port /\ commit_port' = commit_port
      /\ stores' = stores /\ draining' = draining /\ stage' = stage
      /\ committed' = committed /\ next_handle_rob_id' = next_handle_rob_id
  BY DEF vars, robvars, regfile, ports, issuevars, units, stbuf, feedback
<1>2. InUnits' = InUnits /\ Results' = Results /\ Before' = Before /\ Unfinished' = Unfinished
  BY <1>1 DEF InUnits, Results, Before, Unfinished
<1>3. TypeOK' /\ Mappings(rob', map', next_id') /\ FeedbackOK'
  BY <1>1 DEF IInv, TypeOK, FeedbackOK
<1>4. PlacesOK'
  BY <1>1, <1>2 DEF IInv, PlacesOK
<1>5. DataOK' /\ ListeningOK'
  BY <1>1, <1>2 DEF IInv, DataOK, ListeningOK, OperandsRight, Awaited
<1>6. \A i : (Dispatched(i)' <=> Dispatched(i)) /\ (Executed(i)' <=> Executed(i))
  BY <1>1, <1>2 DEF Dispatched, Executed
<1>7. AloneOK' /\ FenceOK'
  BY <1>1, <1>6 DEF IInv, AloneOK, FenceOK
<1>8. MemoryOK'
  <2>1. Ids(held)' = Ids(held) /\ Ids(fifo["lsu"])' = Ids(fifo["lsu"])
    BY <1>1 DEF Ids
  <2> QED
    BY <1>1, <1>6, <2>1 DEF IInv, MemoryOK
<1> QED
  BY <1>3, <1>4, <1>5, <1>7, <1>8 DEF IInv

LEMMA StepOK == IInv /\ [Next]_vars => IInv'
<1> SUFFICES ASSUME IInv, [Next]_vars
             PROVE  IInv'
  OBVIOUS
<1>1. ASSUME NEW n \in Retires, Commit(n)
      PROVE  IInv'
  BY <1>1, CommitOK
<1>2. ASSUME NEW n \in {0} \cup Retires, Flush(n)
      PROVE  IInv'
  BY <1>2, FlushOK
<1>3. ASSUME NEW raises, Execute(raises)
      PROVE  IInv'
  BY <1>3, ExecuteOK
<1>4. CASE Run
  BY <1>4, RunOK
<1>5. ASSUME NEW group \in BoundedSeq(Inst, RENAME_WIDTH), ReadregRenameSync(group)
      PROVE  IInv'
  BY <1>5, SyncOK
<1>6. CASE UNCHANGED vars
  BY <1>6, StutterOK
<1> QED
  BY <1>1, <1>2, <1>3, <1>4, <1>5, <1>6 DEF Next

(***************************************************************************)
(* The inductive invariant: what the tables, the places of the            *)
(* instructions, their operands and the order of issue keep over every     *)
(* step of the cycle, flushes included.                                    *)
(***************************************************************************)
THEOREM InvariantHolds == Spec => []IInv
<1> QED
  BY InitOK, StepOK, PTL DEF Spec

(***************************************************************************)
(* No port, queue or FIFO is ever beyond its size (main.cpp:471-499), and  *)
(* one store at most waits in the load/store unit (lsu.cpp:239-243).       *)
(***************************************************************************)
THEOREM TypeCorrect == Spec => []TypeOK
<1>1. IInv => TypeOK
  BY DEF IInv
<1> QED
  BY <1>1, InvariantHolds, PTL

(***************************************************************************)
(* Whatever is sent to a unit carries what the producers of its operands   *)
(* computed: by whichever of the four ways of issue.cpp and readreg.cpp it *)
(* came, and however often its physical register was reused.               *)
(***************************************************************************)
THEOREM OperandsAreRight == Spec => []OperandsRight
<1>1. IInv => OperandsRight
  BY DEF IInv, DataOK
<1> QED
  BY <1>1, InvariantHolds, PTL

(***************************************************************************)
(* What an instruction in the issue queue waits for has neither been       *)
(* announced nor written (issue.cpp:1397-1465, 1545-1604).                 *)
(***************************************************************************)
THEOREM NoResultIsMissed == Spec => []NoMissedResult
<1>1. IInv => NoMissedResult
  BY DEF IInv, ListeningOK, NoMissedResult
<1> QED
  BY <1>1, InvariantHolds, PTL

(***************************************************************************)
(* csr and mret are alone in the machine from their issue to their         *)
(* retirement (issue.cpp:1053, 1388; inst_waiting_rob_id).                 *)
(***************************************************************************)
THEOREM AloneIsAlone == Spec => []AloneInTheMachine
<1>1. IInv => AloneInTheMachine
  BY DEF IInv, AloneOK, AloneInTheMachine
<1> QED
  BY <1>1, InvariantHolds, PTL

(***************************************************************************)
(* A fence is issued as the oldest instruction, with the store buffer      *)
(* drained, and holds everything younger back (issue.cpp:1007-1040).       *)
(***************************************************************************)
THEOREM FencesOrder == Spec => []FenceOrders
<1>1. IInv => FenceOrders
  BY DEF IInv, FenceOK, FenceOrders
<1> QED
  BY <1>1, InvariantHolds, PTL

\* What has executed has been dispatched, and nothing is in two places.
LEMMA MemoryFollows == IInv => MemoryInOrder
<1> SUFFICES ASSUME IInv, NEW i \in DOMAIN rob, NEW j \in DOMAIN rob, i < j,
                    {UnitOf(rob[i].op), UnitOf(rob[j].op)} = {"lsu"}, Executed(j)
             PROVE  Executed(i)
  BY DEF MemoryInOrder
<1>1. Dispatched(j)
  BY DEF Dispatched, Executed
<1>2. Executed(i) \/ (rob[i].id \in Ids(held) /\ rob[j].id \in Ids(fifo["lsu"]))
  BY <1>1 DEF IInv, MemoryOK
<1>3. ASSUME rob[j].id \in Ids(fifo["lsu"])
      PROVE  FALSE
  <2>1. PICK y \in InUnits : y.id = rob[j].id
    BY <1>3 DEF Ids, InUnits, Unit
  <2>2. PICK p \in DOMAIN rob : rob[p].id = y.id /\ rob[p].finish = "no"
    BY DEF IInv, PlacesOK, Belongs
  <2>3. p = j
    BY <2>1, <2>2, IdsDistinct DEF IInv
  <2>4. rob[j].id \in Ids(InUnits)
    BY <2>1 DEF Ids
  <2> QED
    BY <2>2, <2>3, <2>4 DEF Executed, IInv, PlacesOK
<1> QED
  BY <1>2, <1>3

(***************************************************************************)
(* Loads and stores execute in program order, though either may be ready   *)
(* first and the store buffer may keep the older one (issue.cpp:1011-1025, *)
(* lsu.cpp:235-247).                                                       *)
(***************************************************************************)
THEOREM MemoryKeepsOrder == Spec => []MemoryInOrder
BY InvariantHolds, MemoryFollows, PTL

-----------------------------------------------------------------------------
(* Counting.                                                               *)

LEMMA CountIds ==
  ASSUME NEW S, Distinct(S), \A x \in S : x.id \in RobId
  PROVE  IsFiniteSet(Ids(S)) /\ Cardinality(Ids(S)) = Cardinality(S)
<1> DEFINE f == [x \in S |-> x.id]
<1>1. IsFiniteSet(RobId)
  BY Sizes, FS_Interval DEF RobId
<1>2. f \in Injection(S, RobId)
  BY DEF Injection, IsInjective, Distinct
<1>3. IsFiniteSet(S)
  <2> HIDE DEF f
  <2> QED
    BY <1>1, <1>2, FS_Injection
<1>4. f \in Bijection(S, Ids(S))
  BY DEF Bijection, Injection, Surjection, IsInjective, Distinct, Ids
<1>5. ExistsBijection(S, Ids(S))
  BY <1>4 DEF ExistsBijection
<1> QED
  BY <1>3, <1>5, FS_Bijection

LEMMA CountSequence ==
  ASSUME IInv, NEW s \in Seq(Pack), ToSet(s) \subseteq Before, InOrder(rob, s)
  PROVE  /\ IsFiniteSet(Ids(ToSet(s))) /\ Cardinality(Ids(ToSet(s))) = Len(s)
         /\ Len(s) \in Nat
<1> DEFINE f == [k \in 1 .. Len(s) |-> s[k].id]
<1>1. Len(s) \in Nat /\ DOMAIN s = 1 .. Len(s)
  OBVIOUS
<1>2. \A k \in 1 .. Len(s) : s[k] \in Before
  BY <1>1 DEF ToSet
<1>3. ASSUME NEW k \in 1 .. Len(s), NEW l \in 1 .. Len(s), k < l
      PROVE  s[k].id # s[l].id
  <2>1. Precedes(rob, s[k], s[l])
    BY <1>1, <1>3 DEF InOrder
  <2> QED
    BY <1>2, <2>1, Apart
<1>4. \A k, l \in 1 .. Len(s) : f[k] = f[l] => k = l
  <2> SUFFICES ASSUME NEW k \in 1 .. Len(s), NEW l \in 1 .. Len(s), s[k].id = s[l].id, k # l
               PROVE  FALSE
    OBVIOUS
  <2>1. k < l \/ l < k
    BY <1>1
  <2> QED
    BY <1>3, <2>1
<1>5. Ids(ToSet(s)) = {f[k] : k \in 1 .. Len(s)}
  BY <1>1 DEF Ids, ToSet
<1>6. f \in Bijection(1 .. Len(s), Ids(ToSet(s)))
  <2>1. f \in [1 .. Len(s) -> Ids(ToSet(s))] /\ DOMAIN f = 1 .. Len(s)
    BY <1>5
  <2>2. \A y \in Ids(ToSet(s)) : \E k \in 1 .. Len(s) : f[k] = y
    BY <1>5
  <2> HIDE DEF f
  <2> QED
    BY <1>4, <2>1, <2>2, Zenon DEF Bijection, Injection, Surjection, IsInjective
<1>7. ExistsBijection(1 .. Len(s), Ids(ToSet(s)))
  BY <1>6, Zenon DEF ExistsBijection
<1> QED
  BY <1>1, <1>7, FS_NatBijection, FS_CountingElements

LEMMA Together ==
  ASSUME NEW A, NEW B, IsFiniteSet(A), IsFiniteSet(B), A \cap B = {}
  PROVE  IsFiniteSet(A \cup B) /\ Cardinality(A \cup B) = Cardinality(A) + Cardinality(B)
<1>1. /\ IsFiniteSet(A \cup B)
      /\ Cardinality(A \cup B) = Cardinality(A) + Cardinality(B) - Cardinality(A \cap B)
  BY FS_Union
<1>2. Cardinality(A \cap B) = 0 /\ Cardinality(A) \in Nat /\ Cardinality(B) \in Nat
  BY FS_EmptySet, FS_CardinalityType
<1> QED
  BY <1>1, <1>2

LEMMA EveryOneOnce == IInv => NothingLostOrDoubled
<1> SUFFICES ASSUME IInv
             PROVE  NothingLostOrDoubled
  OBVIOUS
<1> DEFINE A == Ids(ToSet(rename_readreg))
           B == Ids(ToSet(readreg_issue))
           C == Ids(ToSet(issue_q))
           D == Ids(InUnits)
           E == Ids(Results)
           a == Len(rename_readreg)
           b == Len(readreg_issue)
           c == Len(issue_q)
           d == Cardinality(InUnits)
           e == Cardinality(Results)
<1>1. /\ \A x \in Before \cup InUnits \cup Results : Belongs(rob, x)
      /\ Distinct(InUnits) /\ Distinct(wb_port) /\ Distinct(commit_port)
      /\ Ids(Before) \cap (D \cup E) = {} /\ D \cap E = {}
      /\ Ids(wb_port) \cap Ids(commit_port) = {}
      /\ Unfinished \subseteq Ids(Before) \cup D \cup E
      /\ InOrder(rob, issue_q) /\ InOrder(rob, readreg_issue) /\ InOrder(rob, rename_readreg)
      /\ Behind(rob, issue_q, readreg_issue) /\ Behind(rob, issue_q, rename_readreg)
      /\ Behind(rob, readreg_issue, rename_readreg)
  BY DEF IInv, PlacesOK
<1>2. rename_readreg \in Seq(Pack) /\ readreg_issue \in Seq(Pack) /\ issue_q \in Seq(Pack)
  BY DEF IInv, TypeOK
<1>3. /\ ToSet(rename_readreg) \subseteq Before /\ ToSet(readreg_issue) \subseteq Before
      /\ ToSet(issue_q) \subseteq Before
  BY DEF Before
<1>4. /\ IsFiniteSet(A) /\ Cardinality(A) = a /\ a \in Nat
      /\ IsFiniteSet(B) /\ Cardinality(B) = b /\ b \in Nat
      /\ IsFiniteSet(C) /\ Cardinality(C) = c /\ c \in Nat
  BY <1>1, <1>2, <1>3, CountSequence
<1>5. \A x \in InUnits \cup Results : x.id \in RobId
  BY DEF IInv, TypeOK, InUnits, Results, Pack, Result
<1>6. Distinct(Results)
  BY <1>1 DEF Distinct, Results, Ids
<1>7. /\ IsFiniteSet(D) /\ Cardinality(D) = d /\ IsFiniteSet(E) /\ Cardinality(E) = e
  BY <1>1, <1>5, <1>6, CountIds
<1>8. ASSUME NEW s, NEW t, ToSet(s) \subseteq Before, Behind(rob, s, t)
      PROVE  Ids(ToSet(s)) \cap Ids(ToSet(t)) = {}
  <2> SUFFICES ASSUME NEW k \in DOMAIN s, NEW l \in DOMAIN t, s[k].id = t[l].id
               PROVE  FALSE
    BY DEF Ids, ToSet
  <2>1. Precedes(rob, s[k], t[l]) /\ s[k] \in Before
    BY <1>8 DEF Behind, ToSet
  <2> QED
    BY <2>1, Apart
<1>9. C \cap B = {} /\ C \cap A = {} /\ B \cap A = {}
  BY <1>1, <1>3, <1>8
<1>10. Ids(Before) = A \cup B \cup C
  BY DEF Before, Ids
<1>11. Ids(Before) \cup D \cup E \subseteq Unfinished
  <2> SUFFICES ASSUME NEW x \in Before \cup InUnits \cup Results
               PROVE  x.id \in Unfinished
    BY DEF Ids
  <2>1. PICK i \in DOMAIN rob : rob[i].id = x.id /\ rob[i].finish = "no"
    BY <1>1 DEF Belongs
  <2> QED
    BY <2>1 DEF Unfinished, ToSet
<1> HIDE DEF A, B, C, D, E, a, b, c, d, e
<1>12. Ids(Before) \cup D \cup E = Unfinished
  BY <1>1, <1>11
<1>13. IsFiniteSet(A \cup B) /\ Cardinality(A \cup B) = a + b
  BY <1>4, <1>9, Together
<1>14. IsFiniteSet(A \cup B \cup C) /\ Cardinality(A \cup B \cup C) = a + b + c
  <2>1. (A \cup B) \cap C = {}
    BY <1>9
  <2>2. IsFiniteSet(C) /\ Cardinality(C) = c
    BY <1>4
  <2>3. /\ IsFiniteSet((A \cup B) \cup C)
        /\ Cardinality((A \cup B) \cup C) = Cardinality(A \cup B) + Cardinality(C)
    BY <1>13, <2>1, <2>2, Together, Zenon
  <2> QED
    BY <1>13, <2>2, <2>3, Zenon
<1>15. IsFiniteSet(D \cup E) /\ Cardinality(D \cup E) = d + e
  BY <1>1, <1>7, Together
<1>16. Cardinality(Unfinished) = (a + b + c) + (d + e)
  <2>1. (A \cup B \cup C) \cap (D \cup E) = {} /\ (A \cup B \cup C) \cup (D \cup E) = Unfinished
    BY <1>1, <1>10, <1>12
  <2> QED
    BY <1>14, <1>15, <2>1, Together
<1>17. d \in Nat /\ e \in Nat
  BY <1>7, FS_CardinalityType
<1>18. a + b + c + d + e = Cardinality(Unfinished)
  BY <1>4, <1>16, <1>17
<1> QED
  BY <1>12, <1>18 DEF NothingLostOrDoubled, a, b, c, d, e, D, E

(***************************************************************************)
(* Every entry of the reorder buffer that has not finished is in exactly   *)
(* one place between rename and commit, and nothing else is anywhere       *)
(* (issue.cpp:1014, 1109, 1385).                                           *)
(***************************************************************************)
THEOREM NothingIsLostOrDoubled == Spec => []NothingLostOrDoubled
BY InvariantHolds, EveryOneOnce, PTL
=============================================================================
