------------------------------ MODULE CoreProofs ----------------------------
(***************************************************************************)
(* Core does what Hart does, a fence.i is alone and nothing overflows, for *)
(* every program and all sizes.                                            *)
(***************************************************************************)
EXTENDS Core, FiniteSetTheorems, TLAPS

Outcome == [jump : BOOLEAN, next : Pc]
Guess == [predicted : BOOLEAN, jump : BOOLEAN, next : Pc]
Packet == [pc : Pc, guess : Guess]

\* What an instruction may have to write to a control register.
Writes ==
  {<< >>} \cup
  {[r \in {Program[p].csr} |-> csr_newvalue(p, c)] : p \in {q \in Pc : Op(q) = "csr"}, c \in Csr}

Entry == [pc : Pc, guess : Guess, st : {"wait", "issued", "finish"},
          out : Outcome, write : Writes]

Feedback == [flush : BOOLEAN, jump_enable : BOOLEAN, has_exception : BOOLEAN,
             jump : BOOLEAN, next_pc : Pc]

DataOK ==
  /\ {pc, arch, last} \subseteq Pc /\ jump_wait \in BOOLEAN
  /\ fetch_decode_fifo \in Seq(Packet) /\ Len(fetch_decode_fifo) <= FIFO_SIZE
  /\ decode_rename_fifo \in Seq(Packet) /\ Len(decode_rename_fifo) <= FIFO_SIZE
  /\ rob \in Seq(Entry) /\ Len(rob) <= ROB_SIZE
  /\ undrained \in Nat /\ RetiredNow <= undrained
  /\ csr \in Csr /\ csr_next \in Csr /\ pending \subseteq Causes
  /\ cur_state \in {"normal", "flush", "interrupt_flush"}
  /\ restore \in Nat /\ popped \in 0 .. Len(rob)
  /\ interrupt \in [id : Causes \cup {0}, pc : Pc]
  /\ feedback \in Feedback /\ phase \in {"commit", "stages"}

\* What commit has left for the other stages, and its registers.
ControlOK ==
  /\ phase = "commit" => feedback = NoFeedback
  /\ popped = 0 /\ ~feedback.flush => csr = csr_next
  /\ cur_state = "normal" /\ feedback.flush =>
       /\ rob = << >>
       /\ feedback.has_exception \/ feedback.jump_enable
       /\ feedback.next_pc = arch

\* On the way to a handler the first entry is where the program stopped.
WalkOK ==
  cur_state # "normal" =>
    /\ restore \in 1 .. Len(rob) - popped
    /\ phase = "commit" => popped = 0
    /\ phase = "stages" =>
         feedback.flush /\ ~feedback.has_exception /\ ~feedback.jump_enable
    /\ rob_item.pc = arch
    /\ cur_state = "flush" => Op(arch) = "fault"
    /\ cur_state = "interrupt_flush" =>
         interrupt.pc = arch /\ interrupt.id \in csr_next.mie /\ "mie" \in csr_next.mstatus

\* What the entry e at i holds, with c in the control registers.
UnitOK(i, e, c) ==
  /\ Op(e.pc) # "csr" => e.write = << >>
  /\ e.st = "finish" /\ Op(e.pc) = "branch" => e.out \in Outcomes(e.pc)
  /\ e.st # "wait" /\ Alone(e.pc) => i = 1
  /\ e.st = "finish" /\ Op(e.pc) = "csr" =>
       e.write = [r \in {Program[e.pc].csr} |-> csr_newvalue(e.pc, c)]
  /\ e.st = "finish" /\ Op(e.pc) = "mret" => e.out = Jump(c.mepc)

UnitsOK == cur_state = "normal" => \A i \in Unretired : UnitOK(i, rob[i], csr)

\* Where fetch went on after a packet, unless it had to wait.
Follower(e) == IF e.guess.predicted THEN e.guess.next ELSE Succ(e.pc)
Waits(e) == IsBranch(e.pc) /\ ~e.guess.predicted

GuessOK(e) ==
  e.guess.predicted =>
    Op(e.pc) = "branch" /\ \E o \in Outcomes(e.pc) : e.guess = Predicted(o)

\* The core holds a path through the program, from the next instruction to
\* retire to the one fetch is at.
PathOK ==
  LET n == Len(InFlight) IN
  cur_state = "normal" /\ ~feedback.flush =>
    /\ \A i \in popped + 1 .. n : GuessOK(InFlight[i])
    /\ \A i \in popped + 1 .. n - 1 :
         InFlight[i + 1].pc = Follower(InFlight[i]) /\ ~Waits(InFlight[i])
    /\ popped < n =>
         /\ InFlight[popped + 1].pc = arch
         /\ pc = Follower(InFlight[n]) /\ (jump_wait <=> Waits(InFlight[n]))
         /\ ~feedback.jump_enable
    /\ popped = n =>
         IF feedback.jump_enable
           THEN jump_wait /\ arch = IF feedback.jump THEN feedback.next_pc ELSE pc
           ELSE ~jump_wait /\ arch = pc

Inv == DataOK /\ ControlOK /\ WalkOK /\ UnitsOK /\ PathOK

-----------------------------------------------------------------------------
(* Numbers and sequences.                                                  *)

\* A division is known by its remainder.
LEMMA ModUnique ==
  ASSUME NEW n \in Nat \ {0}, NEW q \in Int, NEW r \in 0 .. n - 1, NEW x \in Int,
         x = q * n + r
  PROVE  x % n = r
<1> DEFINE d == x \div n
<1>1. x = n * d + (x % n) /\ x % n \in 0 .. n - 1 /\ d \in Int
  BY Z3
<1>2. CASE q >= d + 1
  <2>1. q * n >= (d + 1) * n
    BY <1>1, <1>2, Z3
  <2> QED
    BY <2>1, <1>1, <1>2, Z3
<1>3. CASE q <= d - 1
  BY <1>1, <1>3, Z3
<1>4. CASE q = d
  BY <1>1, <1>4, Z3
<1> QED
  BY <1>1, <1>2, <1>3, <1>4

\* The successor of a remainder is the remainder of the successor.
LEMMA ModSucc ==
  ASSUME NEW n \in Nat \ {0}, NEW x \in Nat
  PROVE  ((x % n) + 1) % n = (x + 1) % n
<1> DEFINE d == x \div n
           m == x % n
<1>1. x = n * d + m /\ m \in 0 .. n - 1 /\ d \in Int
  BY Z3
<1>2. CASE m + 1 = n
  <2>1. n % n = 0
    <3>1. 0 \in 0 .. n - 1 /\ n = 1 * n + 0
      OBVIOUS
    <3> QED
      BY <3>1, ModUnique
  <2>2. (x + 1) % n = 0
    <3>1. d + 1 \in Int /\ 0 \in 0 .. n - 1 /\ x + 1 = (d + 1) * n + 0
      BY <1>1, <1>2, Z3
    <3> HIDE DEF d
    <3> QED
      BY <3>1, ModUnique
  <2> QED
    BY <1>2, <2>1, <2>2
<1>3. CASE m + 1 < n
  <2>1. /\ m + 1 \in 0 .. n - 1 /\ m + 1 \in Int
        /\ d \in Int /\ x + 1 \in Int
        /\ x + 1 = d * n + (m + 1) /\ m + 1 = 0 * n + (m + 1)
    BY <1>1, <1>3, Z3
  <2> HIDE DEF d, m
  <2>2. (x + 1) % n = m + 1
    <3> DEFINE y == x + 1
               k == m + 1
    <3>1. k \in 0 .. n - 1 /\ d \in Int /\ y \in Int /\ y = d * n + k
      BY <2>1
    <3> HIDE DEF y, k
    <3>2. y % n = k
      BY <3>1, ModUnique
    <3> QED
      BY <3>2 DEF y, k
  <2>3. (m + 1) % n = m + 1
    <3>1. 0 \in Int
      OBVIOUS
    <3> QED
      BY <2>1, <3>1, ModUnique
  <2> QED
    BY <2>2, <2>3 DEF m
<1> QED
  BY <1>1, <1>2, <1>3

\* The smaller of two numbers.
LEMMA MinOfTwo ==
  ASSUME NEW a \in Int, NEW b \in Int
  PROVE  Min({a, b}) = IF a <= b THEN a ELSE b
  BY DEF Min

\* What is at each place of three sequences in a row.
LEMMA Three ==
  ASSUME NEW A, NEW B, NEW a \in Seq(A), NEW b \in Seq(B), NEW c \in Seq(B)
  PROVE  /\ Len(a \o b \o c) = Len(a) + Len(b) + Len(c)
         /\ \A i \in 1 .. Len(a) : (a \o b \o c)[i] = a[i]
         /\ \A i \in 1 .. Len(b) : (a \o b \o c)[Len(a) + i] = b[i]
         /\ \A i \in 1 .. Len(c) : (a \o b \o c)[Len(a) + Len(b) + i] = c[i]
<1>1. a \in Seq(A \cup B) /\ b \in Seq(A \cup B) /\ c \in Seq(A \cup B)
  OBVIOUS
<1>2. a \o b \in Seq(A \cup B) /\ Len(a \o b) = Len(a) + Len(b)
  BY <1>1
<1>3. /\ \A i \in 1 .. Len(a) : (a \o b)[i] = a[i]
      /\ \A i \in 1 .. Len(b) : (a \o b)[Len(a) + i] = b[i]
  BY <1>1
<1>4. /\ Len(a \o b \o c) = Len(a) + Len(b) + Len(c)
      /\ \A i \in 1 .. Len(a) + Len(b) : (a \o b \o c)[i] = (a \o b)[i]
      /\ \A i \in 1 .. Len(c) : (a \o b \o c)[Len(a) + Len(b) + i] = c[i]
  BY <1>1, <1>2
<1>5. ASSUME NEW i \in 1 .. Len(a) PROVE (a \o b \o c)[i] = a[i]
  BY <1>3, <1>4
<1>6. ASSUME NEW i \in 1 .. Len(b) PROVE (a \o b \o c)[Len(a) + i] = b[i]
  <2>1. Len(a) + i \in 1 .. Len(a) + Len(b)
    OBVIOUS
  <2> QED
    BY <1>3, <1>4, <2>1
<1> QED
  BY <1>4, <1>5, <1>6

\* The parts of a sequence.
LEMMA Part ==
  ASSUME NEW A, NEW a \in Seq(A), NEW m \in 1 .. Len(a) + 1, NEW n \in m - 1 .. Len(a)
  PROVE  /\ SubSeq(a, m, n) \in Seq(A) /\ Len(SubSeq(a, m, n)) = n - m + 1
         /\ \A i \in 1 .. n - m + 1 : SubSeq(a, m, n)[i] = a[m + i - 1]
  OBVIOUS

-----------------------------------------------------------------------------
(* The program.                                                            *)

\* Program counters are the numbers below the length of the program.
LEMMA PcRange ==
  /\ Cardinality(Pc) \in Nat \ {0}
  /\ Pc = 0 .. Cardinality(Pc) - 1
  /\ 0 \in Pc
<1>1. Cardinality(Pc) \in Nat
  BY IsaAssumption, FS_CardinalityType
<1> QED
  BY <1>1, IsaAssumption

\* Every instruction has a successor.
LEMMA SuccType == \A p \in Pc : Succ(p) \in Pc
  BY PcRange, Z3 DEF Succ

\* Where a branch goes is in the program, and one that does not jump goes on
\* with its successor (bru.cpp).
LEMMA OutcomesType ==
  ASSUME NEW p \in Pc, Op(p) = "branch", NEW o \in Outcomes(p)
  PROVE  /\ o \in Outcome
         /\ ~o.jump => o.next = Succ(p)
<1>1. Program[p].to \subseteq Pc /\ Succ(p) \in Pc
  BY IsaAssumption, SuccType
<1>2. CASE \E q \in Program[p].to : o = Jump(q)
  BY <1>1, <1>2 DEF Outcome, Jump
<1>3. CASE o = Pass(p)
  BY <1>1, <1>3 DEF Outcome, Pass
<1> QED
  BY <1>2, <1>3 DEF Outcomes

-----------------------------------------------------------------------------
(* What is in the core.                                                    *)

\* InFlight by its places, and by its three parts.
LEMMA InFlightParts ==
  ASSUME DataOK
  PROVE  /\ Len(InFlight) = Len(rob) + Len(decode_rename_fifo) + Len(fetch_decode_fifo)
         /\ \A i \in 1 .. Len(rob) : InFlight[i] = rob[i]
         /\ \A i \in 1 .. Len(decode_rename_fifo) :
              InFlight[Len(rob) + i] = decode_rename_fifo[i]
         /\ \A i \in 1 .. Len(fetch_decode_fifo) :
              InFlight[Len(rob) + Len(decode_rename_fifo) + i] = fetch_decode_fifo[i]
         /\ DOMAIN InFlight = 1 .. Len(InFlight)
<1> DEFINE r == rob
           d == decode_rename_fifo
           f == fetch_decode_fifo
<1>1. r \in Seq(Entry) /\ d \in Seq(Packet) /\ f \in Seq(Packet)
  BY DEF DataOK
<1>2. r \o d \o f \in Seq(Entry \cup Packet)
  BY <1>1
<1>3. DOMAIN (r \o d \o f) = 1 .. Len(r \o d \o f)
  BY <1>2
<1> HIDE DEF r, d, f
<1> QED
  BY <1>1, <1>3, Three DEF InFlight, r, d, f

\* The same after a step.
LEMMA InFlightNext ==
  ASSUME DataOK'
  PROVE  /\ Len(InFlight') = Len(rob') + Len(decode_rename_fifo') + Len(fetch_decode_fifo')
         /\ \A i \in 1 .. Len(rob') : InFlight'[i] = rob'[i]
         /\ DOMAIN InFlight' = 1 .. Len(InFlight')
<1> DEFINE r == rob'
           d == decode_rename_fifo'
           f == fetch_decode_fifo'
<1>1. r \in Seq(Entry) /\ d \in Seq(Packet) /\ f \in Seq(Packet)
  BY DEF DataOK
<1>2. r \o d \o f \in Seq(Entry \cup Packet)
  BY <1>1
<1>3. DOMAIN (r \o d \o f) = 1 .. Len(r \o d \o f)
  BY <1>2
<1>4. InFlight' = r \o d \o f
  BY DEF InFlight
<1> HIDE DEF r, d, f
<1>5. /\ Len(r \o d \o f) = Len(r) + Len(d) + Len(f)
      /\ \A i \in 1 .. Len(r) : (r \o d \o f)[i] = r[i]
  BY <1>1, Three
<1> QED
  BY <1>3, <1>4, <1>5, Zenon DEF r, d, f

-----------------------------------------------------------------------------
(* What fetch finds.                                                       *)

\* The places fetch reads follow one another (fetch.cpp).
LEMMA AtSteps ==
  ASSUME DataOK
  PROVE  /\ At(0) = pc
         /\ \A k \in Nat : At(k) \in Pc /\ At(k + 1) = Succ(At(k))
<1>1. pc \in Pc
  BY DEF DataOK
<1> DEFINE n == Cardinality(Pc)
<1>2. n \in Nat \ {0} /\ pc \in 0 .. n - 1 /\ pc \in Nat
  BY <1>1, PcRange
<1>3. pc % n = pc
  <2>1. 0 \in Int /\ pc \in Int /\ pc = 0 * n + pc
    BY <1>2
  <2> HIDE DEF n
  <2> QED
    BY <1>2, <2>1, ModUnique
<1>4. ASSUME NEW k \in Nat PROVE At(k) \in Pc
  <2>1. (pc + k) % n \in 0 .. n - 1
    BY <1>2, Z3
  <2> QED
    BY <2>1, PcRange DEF At
<1>5. ASSUME NEW k \in Nat PROVE At(k + 1) = Succ(At(k))
  <2> DEFINE x == pc + k
  <2>1. x \in Nat /\ pc + (k + 1) = x + 1
    BY <1>2
  <2>2. ((x % n) + 1) % n = (x + 1) % n
    <3> HIDE DEF x, n
    <3> QED
      BY <1>2, <2>1, ModSucc
  <2> QED
    BY <2>1, <2>2 DEF At, Succ
<1>6. At(0) = pc
  BY <1>2, <1>3 DEF At
<1> QED
  BY <1>4, <1>5, <1>6

\* What is fetched is a run of instructions from pc on.
LEMMA FetchedRun ==
  ASSUME DataOK
  PROVE  LET c == Cardinality(Fetched) IN
         /\ c \in Nat
         /\ Fetched = 0 .. c - 1
         /\ c <= FIFO_SIZE - Len(fetch_decode_fifo)
         /\ \A k \in 0 .. c - 1 : ~Blocked(k)
         /\ \A k \in 0 .. c - 2 : ~IsBranch(At(k))
<1> DEFINE c == Cardinality(Fetched)
           room == FIFO_SIZE - Len(fetch_decode_fifo)
           m == Min({WIDTH, room})
<1>1. room \in Nat /\ m \in Nat /\ m <= room
  <2>1. Len(fetch_decode_fifo) \in Nat /\ Len(fetch_decode_fifo) <= FIFO_SIZE
    BY DEF DataOK
  <2>2. WIDTH \in Nat \ {0} /\ FIFO_SIZE \in Nat
    BY CoreAssumption
  <2>3. m = IF WIDTH <= room THEN WIDTH ELSE room
    BY <2>1, <2>2, MinOfTwo
  <2> HIDE DEF m
  <2> QED
    BY <2>1, <2>2, <2>3
<1>2. Fetched = {k \in 0 .. m - 1 : /\ \A j \in 0 .. k : ~Blocked(j)
                                    /\ \A j \in 0 .. k - 1 : ~IsBranch(At(j))}
  BY DEF Fetched
<1> HIDE DEF m, room
<1>3. Fetched \subseteq 0 .. m - 1 /\ \A k \in Fetched : 0 .. k \subseteq Fetched
  BY <1>1, <1>2
<1>4. IsFiniteSet(Fetched) /\ c \in Nat /\ c <= m
  <2>1. IsFiniteSet(0 .. m - 1) /\ Cardinality(0 .. m - 1) = m
    BY <1>1, FS_Interval
  <2>2. IsFiniteSet(Fetched) /\ Cardinality(Fetched) <= Cardinality(0 .. m - 1)
    BY <1>3, <2>1, FS_Subset, Zenon
  <2> QED
    BY <2>1, <2>2, FS_CardinalityType, Zenon
<1>5. ASSUME NEW k \in Fetched PROVE k \in 0 .. c - 1
  <2>1. k \in Nat /\ 0 .. k \subseteq Fetched
    BY <1>1, <1>3, <1>5
  <2>2. Cardinality(0 .. k) = k + 1
    BY <2>1, FS_Interval
  <2>3. Cardinality(0 .. k) <= c
    BY <1>4, <2>1, FS_Subset
  <2> QED
    BY <1>4, <2>1, <2>2, <2>3
<1>6. ASSUME NEW k \in 0 .. c - 1 PROVE k \in Fetched
  <2> SUFFICES ASSUME k \notin Fetched PROVE FALSE
    OBVIOUS
  <2>1. k \in Nat
    BY <1>4
  <2>2. Fetched \subseteq 0 .. k - 1
    BY <1>1, <1>3, <2>1
  <2>3. IsFiniteSet(0 .. k - 1) /\ Cardinality(0 .. k - 1) = k
    <3>1. 0 \in Int /\ k - 1 \in Int /\ (0 > k - 1 => k = 0)
      BY <2>1
    <3> QED
      BY <2>1, <3>1, FS_Interval
  <2>4. c <= k
    <3>1. Cardinality(Fetched) <= Cardinality(0 .. k - 1)
      BY <2>2, <2>3, FS_Subset, Zenon
    <3> QED
      BY <2>3, <3>1, Zenon
  <2> QED
    BY <1>4, <2>1, <2>4
<1>7. Fetched = 0 .. c - 1
  BY <1>5, <1>6
<1>8. \A k \in 0 .. c - 1 : ~Blocked(k)
  BY <1>1, <1>2, <1>7
<1>9. \A k \in 0 .. c - 2 : ~IsBranch(At(k))
  <2>1. ASSUME NEW k \in 0 .. c - 2 PROVE c - 1 \in Fetched /\ k \in 0 .. (c - 1) - 1
    BY <1>4, <1>7
  <2> QED
    BY <1>2, <2>1
<1> QED
  BY <1>1, <1>4, <1>7, <1>8, <1>9 DEF room

\* One that is predicted is a branch.
LEMMA GuessesOK ==
  ASSUME DataOK, Fetched # {}, NEW guess \in Guesses
  PROVE  /\ guess \in Guess
         /\ guess.predicted => /\ Op(LastFetched) = "branch"
                               /\ \E o \in Outcomes(LastFetched) : guess = Predicted(o)
<1>1. Unpredicted \in Guess /\ ~Unpredicted.predicted
  BY PcRange DEF Unpredicted, Guess
<1>2. CASE guess = Unpredicted
  BY <1>1, <1>2
<1>3. CASE guess # Unpredicted
  <2>1. Op(LastFetched) = "branch" /\ \E o \in Outcomes(LastFetched) : guess = Predicted(o)
    BY <1>3 DEF Guesses
  <2>2. LastFetched \in Pc
    <3>1. Cardinality(Fetched) - 1 \in Nat
      BY FetchedRun
    <3> QED
      BY <3>1, AtSteps DEF LastFetched
  <2>3. PICK o \in Outcomes(LastFetched) : guess = Predicted(o)
    BY <2>1
  <2>4. o \in Outcome
    BY <2>1, <2>2, OutcomesType
  <2>5. guess \in Guess
    BY <2>3, <2>4 DEF Outcome, Guess, Predicted
  <2> QED
    BY <2>1, <2>5
<1> QED
  BY <1>2, <1>3

-----------------------------------------------------------------------------
(* The control registers.                                                  *)

\* Control registers are a function on their names.
LEMMA CsrFields ==
  ASSUME NEW c \in Csr
  PROVE  /\ DOMAIN c = DOMAIN Boot
         /\ c = [r \in DOMAIN c |-> c[r]]
<1>1. Boot \in Csr
  BY IsaAssumption
<1>2. \A b \in Csr : DOMAIN b = {"mstatus", "mie", "mepc", "mtvec", "mcause"}
  BY DEF Csr
<1>3. c = [r \in DOMAIN c |-> c[r]]
  BY DEF Csr
<1> QED
  BY <1>1, <1>2, <1>3

\* The entry commit looks at.
LEMMA LookingAt ==
  ASSUME DataOK, Looking
  PROVE  /\ rob_item \in Entry
         /\ popped \in Nat /\ Len(rob) \in Nat /\ Len(InFlight) \in Nat
         /\ popped + 1 \in Unretired /\ popped + 1 \in 1 .. Len(rob)
         /\ popped < Len(InFlight) /\ InFlight[popped + 1] = rob_item
<1>1. /\ rob \in Seq(Entry) /\ popped \in 0 .. Len(rob) /\ popped < Len(rob)
      /\ Len(decode_rename_fifo) \in Nat /\ Len(fetch_decode_fifo) \in Nat
  BY DEF DataOK, Looking
<1>2. popped + 1 \in 1 .. Len(rob) /\ popped + 1 \in Unretired
  BY <1>1 DEF Unretired
<1>3. rob[popped + 1] \in Entry
  BY <1>1, <1>2
<1> QED
  BY <1>1, <1>2, <1>3, InFlightParts DEF rob_item

\* It is the next instruction of the program.
LEMMA LookingAtArch ==
  ASSUME Inv, Looking
  PROVE  /\ rob_item.pc = arch
         /\ feedback = NoFeedback /\ ~feedback.flush /\ ~feedback.jump_enable
         /\ popped = 0 => csr = csr_next
<1>1. feedback = NoFeedback /\ ~feedback.flush /\ ~feedback.jump_enable
  BY DEF Inv, ControlOK, Looking, NoFeedback
<1>2. cur_state = "normal" /\ popped < Len(InFlight) /\ InFlight[popped + 1] = rob_item
  BY LookingAt DEF Inv, Looking
<1>3. rob_item.pc = arch
  BY <1>1, <1>2 DEF Inv, PathOK
<1> QED
  BY <1>1, <1>3 DEF Inv, ControlOK

\* What retires writes what Hart writes.
LEMMA RetiredWrite ==
  ASSUME Inv, Retiring
  PROVE  /\ Op(arch) = "csr" =>
              Written(rob_item) =
                [csr_next EXCEPT ![Program[arch].csr] = csr_newvalue(arch, csr_next)]
         /\ Op(arch) # "csr" => Written(rob_item) = csr_next
         /\ Op(arch) \notin {"branch", "mret", "fault"} => Written(rob_item) \in Csr
<1>1. Looking /\ rob_item.st = "finish" /\ cur_state = "normal"
  BY DEF Retiring, Looking
<1>2. rob_item.pc = arch /\ popped + 1 \in Unretired /\ popped \in Nat
  BY <1>1, LookingAt, LookingAtArch DEF Inv
<1>3. csr_next \in Csr /\ csr_next = [r \in DOMAIN csr_next |-> csr_next[r]]
  BY CsrFields DEF Inv, DataOK
<1>4. CASE Op(arch) = "csr"
  <2> DEFINE x == Program[arch].csr
             v == csr_newvalue(arch, csr)
  <2>1. popped + 1 = 1 /\ rob_item.write = [r \in {x} |-> v]
    BY <1>1, <1>2, <1>4 DEF Inv, UnitsOK, UnitOK, rob_item, Alone
  <2>2. csr = csr_next
    BY <1>1, <1>2, <2>1, LookingAtArch
  <2>3. Written(rob_item) = [r \in DOMAIN csr_next |-> IF r \in {x} THEN v ELSE csr_next[r]]
    BY <2>1 DEF Written
  <2>4. Written(rob_item) = [csr_next EXCEPT ![x] = v]
    <3> HIDE DEF x, v
    <3> QED
      BY <1>3, <2>3
  <2>5. arch \in Pc
    BY DEF Inv, DataOK
  <2>6. Written(rob_item) \in Csr
    <3>1. [csr_next EXCEPT ![Program[arch].csr] = csr_newvalue(arch, csr_next)] \in Csr
      BY <1>3, <1>4, <2>5, IsaAssumption, Zenon
    <3> QED
      BY <2>2, <2>4, <3>1, Zenon
  <2> QED
    BY <1>4, <2>2, <2>4, <2>6
<1>5. CASE Op(arch) # "csr"
  <2>1. rob_item.write = << >>
    BY <1>1, <1>2, <1>5 DEF Inv, UnitsOK, UnitOK, rob_item
  <2>2. DOMAIN << >> = {}
    OBVIOUS
  <2>3. Written(rob_item) = [r \in DOMAIN csr_next |-> csr_next[r]]
    BY <2>1, <2>2 DEF Written
  <2> QED
    BY <1>3, <1>5, <2>3
<1> QED
  BY <1>4, <1>5

\* What mret makes of the control registers (commit.cpp:748).
LEMMA ReturnedType ==
  ASSUME DataOK, NEW p
  PROVE  Returned(p) \in Csr
<1>1. csr_next \in Csr
  BY DEF DataOK
<1>2. [csr_next EXCEPT !.mstatus = {b \in {"mie", "mpie"} : "mpie" \in csr.mstatus}] \in Csr
  BY <1>1 DEF Csr
<1> QED
  BY <1>1, <1>2 DEF Returned

\* What a trap makes of the control registers (commit.cpp:1281).
LEMMA TrappedType ==
  ASSUME DataOK, Len(rob) > popped
  PROVE  Trapped \in Csr
<1>1. csr_next \in Csr /\ interrupt.pc \in Pc /\ interrupt.id \in Causes \cup {0}
  BY DEF DataOK
<1>2. rob_item.pc \in Pc
  <2>1. rob \in Seq(Entry) /\ popped + 1 \in 1 .. Len(rob)
    BY DEF DataOK
  <2>2. rob_item \in Entry
    BY <2>1 DEF rob_item
  <2> QED
    BY <2>2 DEF Entry
<1>3. [csr_next EXCEPT !.mepc = rob_item.pc, !.mcause = Exception] \in Csr
  BY <1>1, <1>2 DEF Csr, Exception
<1>4. [csr_next EXCEPT !.mepc = interrupt.pc, !.mcause = interrupt.id,
                       !.mstatus = {"mpie" : b \in csr.mstatus \cap {"mie"}}] \in Csr
  BY <1>1 DEF Csr, Exception
<1> QED
  BY <1>3, <1>4 DEF Trapped

-----------------------------------------------------------------------------
(* Commit keeps the invariant.                                             *)

\* Feedback commit leaves when it has nothing to say.
LEMMA NoFeedbackType ==
  /\ NoFeedback \in Feedback
  /\ [NoFeedback EXCEPT !.flush = TRUE] \in Feedback
  /\ ~NoFeedback.flush /\ ~NoFeedback.jump_enable
  BY PcRange DEF NoFeedback, Feedback

\* An interrupt that is taken is enabled.
LEMMA MinTaken ==
  ASSUME DataOK, taken # {}
  PROVE  Min(taken) \in taken
<1>1. taken \subseteq 1 .. 3
  <2>1. pending \subseteq Causes
    BY DEF DataOK
  <2> QED
    BY <2>1, IsaAssumption DEF taken
<1>2. \E x \in taken : \A y \in taken : x <= y
  <2>1. CASE 1 \in taken
    <3>1. \A y \in taken : 1 <= y
      BY <1>1
    <3> QED
      BY <2>1, <3>1
  <2>2. CASE 1 \notin taken /\ 2 \in taken
    <3>1. \A y \in taken : 2 <= y
      BY <1>1, <2>2
    <3> QED
      BY <2>2, <3>1
  <2>3. CASE 1 \notin taken /\ 2 \notin taken
    <3>1. \A y \in taken : y = 3
      BY <1>1, <2>3
    <3> QED
      BY <3>1
  <2> QED
    BY <2>1, <2>2, <2>3
<1> QED
  BY <1>2 DEF Min

\* The common part of the steps that start a walk back.
LEMMA StartStep ==
  ASSUME Inv, Looking, NEW state \in {"flush", "interrupt_flush"}, StartWalkBack(state),
         interrupt' \in [id : Causes \cup {0}, pc : Pc],
         state = "flush" => Op(arch) = "fault",
         state = "interrupt_flush" =>
           interrupt'.pc = arch /\ interrupt'.id \in csr_next.mie /\ "mie" \in csr_next.mstatus
  PROVE  Inv'
<1> USE DEF StartWalkBack
<1>1. /\ popped \in Nat /\ Len(rob) \in Nat /\ popped < Len(rob)
      /\ rob_item.pc = arch
  BY LookingAt, LookingAtArch DEF Inv, Looking
<1>2. feedback' \in Feedback /\ feedback'.flush /\ ~feedback'.has_exception /\ ~feedback'.jump_enable
  BY NoFeedbackType DEF NoFeedback
<1>3. RetiredNow' = RetiredNow
  BY DEF RetiredNow, IsStore
<1>4. DataOK'
  BY <1>1, <1>2, <1>3 DEF Inv, DataOK, fetcher
<1>5. ControlOK'
  BY <1>2 DEF ControlOK
<1>6. WalkOK'
  <2>1. rob_item' = rob_item
    BY DEF rob_item
  <2> QED
    BY <1>1, <1>2, <2>1 DEF WalkOK
<1>7. UnitsOK' /\ PathOK'
  BY DEF UnitsOK, PathOK
<1> QED
  BY <1>4, <1>5, <1>6, <1>7 DEF Inv

\* An interrupt is decided with interrupts enabled (commit.cpp:574).
LEMMA TakeInterruptStep ==
  ASSUME Inv, TakeInterrupt
  PROVE  Inv'
<1>1. /\ Looking /\ popped = 0 /\ has_interrupt
      /\ interrupt' = [id |-> Min(taken), pc |-> rob_item.pc]
      /\ StartWalkBack("interrupt_flush")
  BY DEF TakeInterrupt
<1>2. rob_item.pc = arch /\ csr = csr_next /\ arch \in Pc /\ pending \subseteq Causes
  BY <1>1, LookingAtArch DEF Inv, DataOK
<1>3. Min(taken) \in taken /\ "mie" \in csr.mstatus
  BY <1>1, MinTaken DEF has_interrupt, Inv
<1> QED
  BY <1>1, <1>2, <1>3, StartStep DEF taken

\* An exception is taken at the next instruction of the program.
LEMMA TakeExceptionStep ==
  ASSUME Inv, TakeException
  PROVE  Inv'
<1>1. /\ Looking /\ Op(rob_item.pc) = "fault" /\ UNCHANGED interrupt
      /\ StartWalkBack("flush")
  BY DEF TakeException, Retiring
<1>2. rob_item.pc = arch /\ interrupt \in [id : Causes \cup {0}, pc : Pc]
  BY <1>1, LookingAtArch DEF Inv, DataOK
<1> QED
  BY <1>1, <1>2, StartStep

\* The commit loop ends without touching anything.
LEMMA LoopEndsStep ==
  ASSUME Inv, LoopEnds
  PROVE  Inv'
<1> USE DEF LoopEnds
<1>1. /\ cur_state' = "normal" /\ cur_state = "normal" /\ phase' = "stages"
      /\ UNCHANGED <<pc, jump_wait, fetch_decode_fifo, decode_rename_fifo, rob, undrained,
                     csr, csr_next, pending, restore, interrupt, popped, feedback, arch, last>>
      /\ phase = "commit" /\ feedback = NoFeedback
  BY DEF fetcher, walk, Inv, ControlOK
<1>2. RetiredNow' = RetiredNow /\ InFlight' = InFlight /\ Unretired' = Unretired
  BY <1>1 DEF RetiredNow, IsStore, InFlight, Unretired
<1>3. DataOK'
  BY <1>1, <1>2 DEF Inv, DataOK
<1>4. ControlOK' /\ WalkOK'
  BY <1>1, NoFeedbackType DEF Inv, ControlOK, WalkOK
<1>5. UnitsOK'
  BY <1>1, <1>2 DEF Inv, UnitsOK
<1>6. PathOK'
  BY <1>1, <1>2 DEF Inv, PathOK
<1> QED
  BY <1>3, <1>4, <1>5, <1>6 DEF Inv

\* A step of the walk back leaves all it is about alone.
LEMMA WalkBackStep ==
  ASSUME Inv, WalkBack
  PROVE  Inv'
<1> USE DEF WalkBack
<1>1. /\ cur_state' = cur_state /\ cur_state # "normal"
      /\ phase = "commit" /\ phase' = "stages" /\ restore > 1 /\ restore' = restore - 1
      /\ UNCHANGED <<pc, jump_wait, fetch_decode_fifo, decode_rename_fifo, rob, undrained,
                     csr, csr_next, pending, interrupt, popped, arch, last>>
  BY DEF fetcher
<1>2. feedback' \in Feedback /\ feedback'.flush /\ ~feedback'.has_exception /\ ~feedback'.jump_enable
  BY NoFeedbackType DEF NoFeedback
<1>3. RetiredNow' = RetiredNow /\ rob_item' = rob_item
  BY <1>1 DEF RetiredNow, IsStore, rob_item
<1>4. DataOK'
  BY <1>1, <1>2, <1>3 DEF Inv, DataOK
<1>5. ControlOK'
  BY <1>1, <1>2 DEF ControlOK
<1>6. WalkOK'
  BY <1>1, <1>2, <1>3 DEF Inv, DataOK, WalkOK
<1>7. UnitsOK' /\ PathOK'
  BY <1>1 DEF UnitsOK, PathOK
<1> QED
  BY <1>4, <1>5, <1>6, <1>7 DEF Inv

\* What the trap does when the walk is over, with the program where it stopped.
LEMMA EnterHandlerStep ==
  ASSUME Inv, EnterHandler
  PROVE  Inv'
<1> USE DEF EnterHandler
<1>1. /\ cur_state # "normal" /\ cur_state' = "normal" /\ phase = "commit" /\ phase' = "stages"
      /\ popped = 0 /\ popped' = 0 /\ rob' = << >> /\ restore' = 0
      /\ Len(rob) > popped /\ csr_next' = Trapped
      /\ interrupt' = [id |-> 0, pc |-> 0]
      /\ arch' = csr.mtvec
      /\ UNCHANGED <<pc, jump_wait, fetch_decode_fifo, decode_rename_fifo, undrained,
                     csr, pending, last>>
  BY DEF fetcher, Inv, WalkOK, DataOK
<1>2. csr.mtvec \in Pc
  BY DEF Inv, DataOK, Csr
<1>3. /\ feedback' \in Feedback /\ feedback'.flush /\ feedback'.has_exception
      /\ feedback'.next_pc = csr.mtvec
  BY <1>2, PcRange DEF NoFeedback, Feedback
<1>4. RetiredNow' = 0
  <2>1. {i \in 1 .. 0 : IsStore(i)'} = {}
    OBVIOUS
  <2> QED
    BY <1>1, <2>1, FS_EmptySet DEF RetiredNow
<1>5. csr_next' \in Csr
  BY <1>1, TrappedType DEF Inv
<1>6. rob' \in Seq(Entry) /\ Len(rob') = 0
  BY <1>1
<1>7. DataOK'
  BY <1>1, <1>2, <1>3, <1>4, <1>5, <1>6, PcRange, CoreAssumption DEF Inv, DataOK
<1>8. ControlOK'
  BY <1>1, <1>3 DEF ControlOK
<1>9. WalkOK' /\ PathOK'
  BY <1>1, <1>3 DEF WalkOK, PathOK
<1>10. UnitsOK'
  BY <1>1, <1>6 DEF UnitsOK, Unretired
<1> QED
  BY <1>7, <1>8, <1>9, <1>10 DEF Inv

\* A store that retires is counted.
LEMMA OneMoreRetired ==
  ASSUME DataOK, Looking, UNCHANGED rob, popped' = popped + 1
  PROVE  RetiredNow' = RetiredNow + (IF Op(rob_item.pc) = "store" THEN 1 ELSE 0)
<1> DEFINE S == {i \in 1 .. popped : IsStore(i)}
           T == {i \in 1 .. popped + 1 : IsStore(i)}
<1>1. popped \in Nat
  BY LookingAt
<1>2. RetiredNow = Cardinality(S) /\ RetiredNow' = Cardinality(T)
  BY DEF RetiredNow, IsStore
<1>3. IsFiniteSet(S) /\ popped + 1 \notin S /\ Cardinality(S) \in Nat
  <2>1. IsFiniteSet(1 .. popped) /\ S \subseteq 1 .. popped
    BY <1>1, FS_Interval
  <2> QED
    BY <1>1, <2>1, FS_Subset, FS_CardinalityType
<1>4. IsStore(popped + 1) <=> Op(rob_item.pc) = "store"
  BY DEF IsStore, rob_item
<1>5. CASE IsStore(popped + 1)
  <2>1. T = S \cup {popped + 1}
    BY <1>1, <1>5
  <2>2. Cardinality(T) = Cardinality(S) + 1
    <3> HIDE DEF S, T
    <3> QED
      BY <1>3, <2>1, FS_AddElement
  <2> QED
    BY <1>2, <1>4, <1>5, <2>2
<1>6. CASE ~IsStore(popped + 1)
  <2>1. T = S
    BY <1>1, <1>6
  <2> QED
    BY <1>2, <1>3, <1>4, <1>6, <2>1
<1> QED
  BY <1>5, <1>6

\* What retires takes the path one instruction on.
LEMMA RetireOneStep ==
  ASSUME Inv, RetireOne
  PROVE  Inv'
<1>1. /\ Retiring /\ Looking /\ ~IsBranch(rob_item.pc) /\ Op(rob_item.pc) # "fault"
      /\ popped' = popped + 1 /\ csr_next' = Written(rob_item)
      /\ undrained' = IF Op(rob_item.pc) = "store" THEN undrained + 1 ELSE undrained
      /\ arch' = Succ(rob_item.pc) /\ last' = rob_item.pc
      /\ UNCHANGED <<pc, jump_wait, fetch_decode_fifo, decode_rename_fifo, rob, csr, pending,
                     cur_state, restore, interrupt, feedback, phase>>
      /\ cur_state = "normal"
  BY DEF RetireOne, Retiring, Looking, Retire, fetcher, walk
<1>2. /\ rob_item \in Entry /\ rob_item.pc = arch /\ arch \in Pc /\ Succ(arch) \in Pc
      /\ popped \in Nat /\ popped + 1 \in 1 .. Len(rob) /\ popped + 1 \in Unretired
      /\ feedback = NoFeedback
  BY <1>1, LookingAt, LookingAtArch, SuccType DEF Inv, DataOK
<1>3. InFlight' = InFlight /\ Unretired' \subseteq Unretired
  BY <1>1, <1>2 DEF InFlight, Unretired
<1>4. DataOK'
  <2>1. csr_next' \in Csr
    BY <1>1, <1>2, RetiredWrite DEF IsBranch
  <2>2. undrained' \in Nat /\ RetiredNow' <= undrained'
    <3>1. RetiredNow \in Nat
      <4>1. IsFiniteSet(1 .. popped) /\ {i \in 1 .. popped : IsStore(i)} \subseteq 1 .. popped
        BY <1>2, FS_Interval
      <4> QED
        BY <4>1, FS_Subset, FS_CardinalityType DEF RetiredNow
    <3>2. undrained \in Nat /\ RetiredNow <= undrained /\ DataOK
      BY DEF Inv, DataOK
    <3>3. RetiredNow' = RetiredNow + (IF Op(rob_item.pc) = "store" THEN 1 ELSE 0)
      BY <1>1, <3>2, OneMoreRetired
    <3>4. CASE Op(rob_item.pc) = "store"
      BY <1>1, <3>1, <3>2, <3>3, <3>4
    <3>5. CASE Op(rob_item.pc) # "store"
      BY <1>1, <3>1, <3>2, <3>3, <3>5
    <3> QED
      BY <3>4, <3>5
  <2> QED
    BY <1>1, <1>2, <2>1, <2>2 DEF Inv, DataOK
<1>5. ControlOK' /\ WalkOK'
  BY <1>1, <1>2, NoFeedbackType DEF Inv, ControlOK, WalkOK
<1>6. UnitsOK'
  BY <1>1, <1>3 DEF Inv, UnitsOK
<1>7. PathOK'
  <2> DEFINE n == Len(InFlight)
  <2>1. /\ n \in Nat /\ popped < n /\ InFlight[popped + 1] = rob_item
        /\ ~feedback.flush /\ ~feedback.jump_enable
    BY <1>1, LookingAt, LookingAtArch DEF Inv
  <2>2. /\ \A i \in popped + 1 .. n : GuessOK(InFlight[i])
        /\ \A i \in popped + 1 .. n - 1 :
             InFlight[i + 1].pc = Follower(InFlight[i]) /\ ~Waits(InFlight[i])
        /\ pc = Follower(InFlight[n]) /\ (jump_wait <=> Waits(InFlight[n]))
    BY <1>1, <2>1 DEF Inv, PathOK
  <2>3. Follower(rob_item) = Succ(arch) /\ ~Waits(rob_item)
    <3>1. GuessOK(rob_item)
      BY <1>2, <2>1, <2>2
    <3> QED
      BY <1>1, <1>2, <3>1 DEF GuessOK, IsBranch, Follower, Waits
  <2>4. CASE popped + 1 < n
    <3>1. InFlight[popped + 2].pc = Succ(arch)
      BY <1>2, <2>1, <2>2, <2>3, <2>4
    <3>2. /\ \A i \in popped + 2 .. n : GuessOK(InFlight[i])
          /\ \A i \in popped + 2 .. n - 1 :
               InFlight[i + 1].pc = Follower(InFlight[i]) /\ ~Waits(InFlight[i])
      BY <1>2, <2>1, <2>2
    <3> QED
      BY <1>1, <1>2, <1>3, <2>1, <2>2, <2>4, <3>1, <3>2 DEF PathOK, Follower, Waits, GuessOK
  <2>5. CASE popped + 1 = n
    <3>1. pc = Succ(arch) /\ ~jump_wait
      BY <2>1, <2>2, <2>3, <2>5
    <3> QED
      BY <1>1, <1>2, <1>3, <2>1, <2>5, <3>1 DEF PathOK
  <2> QED
    BY <1>2, <2>1, <2>4, <2>5
<1> QED
  BY <1>4, <1>5, <1>6, <1>7 DEF Inv

\* A branch that retires was fetched, and what follows it is where it went,
\* unless commit has to tell fetch.
LEMMA RetiredBranch ==
  ASSUME Inv, Retiring, IsBranch(rob_item.pc)
  PROVE  /\ rob_item.out \in Outcome
         /\ rob_item.guess.predicted /\ Hit(rob_item) => Follower(rob_item) = rob_item.out.next
         /\ ~rob_item.out.jump => rob_item.out.next = Succ(rob_item.pc)
         /\ Waits(rob_item) <=> ~rob_item.guess.predicted
<1>1. Looking /\ cur_state = "normal" /\ rob_item.st = "finish"
  BY DEF Retiring, Looking
<1>2. /\ rob_item \in Entry /\ popped + 1 \in Unretired /\ InFlight[popped + 1] = rob_item
      /\ popped \in Nat /\ popped < Len(InFlight) /\ Len(InFlight) \in Nat
      /\ ~feedback.flush
  BY <1>1, LookingAt, LookingAtArch DEF Inv
<1>3. rob_item.out \in Outcome /\ rob_item.pc \in Pc
  BY <1>2 DEF Entry
<1>4. GuessOK(rob_item)
  <2>1. \A i \in popped + 1 .. Len(InFlight) : GuessOK(InFlight[i])
    BY <1>1, <1>2 DEF Inv, PathOK
  <2> QED
    BY <1>2, <2>1
<1>5. Op(rob_item.pc) = "branch" =>
        rob_item.out \in Outcomes(rob_item.pc)
  BY <1>1, <1>2 DEF Inv, UnitsOK, UnitOK, rob_item
<1>6. Op(rob_item.pc) = "mret" => rob_item.out.jump
  <2>1. Op(rob_item.pc) = "mret" => rob_item.out = Jump(csr.mepc)
    BY <1>1, <1>2 DEF Inv, UnitsOK, UnitOK, rob_item
  <2> QED
    BY <2>1 DEF Jump
<1>7. ~rob_item.out.jump => rob_item.out.next = Succ(rob_item.pc)
  BY <1>3, <1>5, <1>6, OutcomesType DEF IsBranch
<1>8. rob_item.guess.predicted /\ Hit(rob_item) => Follower(rob_item) = rob_item.out.next
  <2> SUFFICES ASSUME rob_item.guess.predicted, Hit(rob_item)
               PROVE  rob_item.guess.next = rob_item.out.next
    BY DEF Follower
  <2>1. PICK o \in Outcomes(rob_item.pc) : rob_item.guess = Predicted(o)
    BY <1>4 DEF GuessOK
  <2>2. rob_item.guess.jump = o.jump /\ rob_item.guess.next = o.next
    BY <2>1 DEF Predicted
  <2>3. ~o.jump => o.next = Succ(rob_item.pc)
    BY <1>3, <1>4, OutcomesType DEF GuessOK
  <2> QED
    BY <1>7, <2>2, <2>3 DEF Hit
<1> QED
  BY <1>3, <1>7, <1>8 DEF Waits

\* The common part of the two ways to retire a branch.
LEMMA RetireBranchParts ==
  ASSUME Inv, RetireBranch
  PROVE  /\ Retiring /\ Looking /\ IsBranch(rob_item.pc) /\ rob_item.pc = arch
         /\ rob_item \in Entry /\ Len(rob) \in Nat /\ Len(InFlight) \in Nat
         /\ popped \in Nat /\ popped + 1 \in 1 .. Len(rob) /\ popped + 1 \in Unretired
         /\ popped < Len(InFlight) /\ InFlight[popped + 1] = rob_item
         /\ csr_next' \in Csr
         /\ arch' = rob_item.out.next /\ last' = arch /\ arch' \in Pc
         /\ UNCHANGED <<pc, jump_wait, fetch_decode_fifo, decode_rename_fifo, undrained, csr,
                        pending, cur_state, restore, interrupt>>
         /\ cur_state = "normal" /\ phase' = "stages"
         /\ ~feedback.flush /\ ~feedback.jump_enable
<1>1. /\ Retiring /\ Looking /\ IsBranch(rob_item.pc) /\ cur_state = "normal"
      /\ csr_next' = Returned(rob_item.pc)
      /\ arch' = rob_item.out.next /\ last' = rob_item.pc /\ phase' = "stages"
      /\ UNCHANGED <<pc, jump_wait, fetch_decode_fifo, decode_rename_fifo, undrained, csr,
                     pending, cur_state, restore, interrupt>>
  BY DEF RetireBranch, Retiring, Looking, Retire, fetcher, walk
<1>2. rob_item.out.next \in Pc
  BY <1>1, RetiredBranch DEF Outcome
<1> QED
  BY <1>1, <1>2, LookingAt, LookingAtArch, ReturnedType DEF Inv

\* One that empties the reorder buffer.
LEMMA RetireMissStep ==
  ASSUME Inv, RetireBranch, rob_item.guess.predicted, ~Hit(rob_item)
  PROVE  Inv'
<1>1. /\ rob' = << >> /\ popped' = 0
      /\ feedback' = [flush |-> rob_item.guess.predicted, jump_enable |-> TRUE,
                      has_exception |-> FALSE, jump |-> rob_item.out.jump,
                      next_pc |-> rob_item.out.next]
  BY DEF RetireBranch
<1>2. rob_item.out \in Outcome /\ rob_item.guess \in Guess
  BY RetireBranchParts, RetiredBranch DEF Entry
<1>3. feedback' \in Feedback /\ feedback'.flush /\ feedback'.jump_enable /\ feedback'.next_pc = arch'
  BY <1>1, <1>2, RetireBranchParts DEF Feedback, Outcome, Guess
<1>4. RetiredNow' = 0 /\ Unretired' = {}
  <2>1. {i \in 1 .. 0 : IsStore(i)'} = {} /\ 1 .. 0 = {}
    OBVIOUS
  <2>2. RetiredNow' = 0
    BY <1>1, <2>1, FS_EmptySet DEF RetiredNow
  <2>3. Len(rob') = 0
    BY <1>1
  <2> QED
    BY <1>1, <2>1, <2>2, <2>3 DEF Unretired
<1>5. rob' \in Seq(Entry) /\ Len(rob') = 0
  BY <1>1
<1>6. DataOK'
  <2>1. last' \in Pc
    BY RetireBranchParts DEF Inv, DataOK
  <2>2. ROB_SIZE \in Nat
    BY CoreAssumption
  <2> QED
    BY <1>1, <1>3, <1>4, <1>5, <2>1, <2>2, RetireBranchParts DEF Inv, DataOK
<1>7. ControlOK'
  BY <1>1, <1>3, RetireBranchParts DEF ControlOK
<1>8. WalkOK' /\ PathOK'
  BY <1>3, RetireBranchParts DEF WalkOK, PathOK
<1>9. UnitsOK'
  BY <1>4 DEF UnitsOK
<1> QED
  BY <1>6, <1>7, <1>8, <1>9 DEF Inv

\* One that does not.
LEMMA RetireGoodStep ==
  ASSUME Inv, RetireBranch, ~rob_item.guess.predicted \/ Hit(rob_item)
  PROVE  Inv'
<1> DEFINE n == Len(InFlight)
<1>1. /\ rob' = rob /\ popped' = popped + 1
      /\ rob_item.guess.predicted => feedback' = feedback
      /\ ~rob_item.guess.predicted =>
           feedback' = [flush |-> rob_item.guess.predicted, jump_enable |-> TRUE,
                        has_exception |-> FALSE, jump |-> rob_item.out.jump,
                        next_pc |-> rob_item.out.next]
  BY DEF RetireBranch
<1>2. rob_item.out \in Outcome /\ rob_item.guess \in Guess
  BY RetireBranchParts, RetiredBranch DEF Entry
<1>3. feedback' \in Feedback /\ ~feedback'.flush
  <2>1. CASE rob_item.guess.predicted
    BY <1>1, <2>1, RetireBranchParts DEF Inv, DataOK
  <2>2. CASE ~rob_item.guess.predicted
    <3>1. /\ rob_item.guess.predicted \in BOOLEAN
          /\ rob_item.out.jump \in BOOLEAN /\ rob_item.out.next \in Pc
      BY <1>2 DEF Outcome, Guess
    <3> DEFINE b == rob_item.out.jump
               q == rob_item.out.next
    <3>2. rob_item.guess.predicted = FALSE
      BY <2>2, <3>1
    <3>3. feedback' = [flush |-> FALSE, jump_enable |-> TRUE, has_exception |-> FALSE,
                       jump |-> b, next_pc |-> q]
      BY <1>1, <3>2, Zenon
    <3>4. b \in BOOLEAN /\ q \in Pc
      BY <3>1
    <3> HIDE DEF b, q
    <3> QED
      BY <3>3, <3>4 DEF Feedback
  <2> QED
    BY <2>1, <2>2
<1>4. RetiredNow' = RetiredNow
  <2>1. RetiredNow \in Nat
    <3>1. /\ IsFiniteSet(1 .. popped)
          /\ {i \in 1 .. popped : IsStore(i)} \subseteq 1 .. popped
      BY RetireBranchParts, FS_Interval
    <3> QED
      BY <3>1, FS_Subset, FS_CardinalityType DEF RetiredNow
  <2>2. RetiredNow' = RetiredNow + (IF Op(rob_item.pc) = "store" THEN 1 ELSE 0)
    BY <1>1, RetireBranchParts, OneMoreRetired DEF Inv
  <2> QED
    BY <2>1, <2>2, RetireBranchParts DEF IsBranch
<1>5. InFlight' = InFlight /\ Unretired' \subseteq Unretired
  BY <1>1, RetireBranchParts DEF InFlight, Unretired
<1>6. DataOK'
  BY <1>1, <1>3, <1>4, RetireBranchParts DEF Inv, DataOK
<1>7. ControlOK' /\ WalkOK'
  BY <1>1, <1>3, RetireBranchParts DEF ControlOK, WalkOK
<1>8. UnitsOK'
  BY <1>1, <1>5, RetireBranchParts DEF Inv, UnitsOK
<1>9. PathOK'
  <2>1. /\ \A i \in popped + 1 .. n : GuessOK(InFlight[i])
        /\ \A i \in popped + 1 .. n - 1 :
             InFlight[i + 1].pc = Follower(InFlight[i]) /\ ~Waits(InFlight[i])
        /\ pc = Follower(InFlight[n]) /\ (jump_wait <=> Waits(InFlight[n]))
        /\ n \in Nat /\ popped \in Nat /\ popped < n /\ InFlight[popped + 1] = rob_item
    BY RetireBranchParts DEF Inv, PathOK
  <2>2. CASE rob_item.guess.predicted
    <3>1. Follower(rob_item) = arch' /\ ~Waits(rob_item)
      BY <2>2, RetireBranchParts, RetiredBranch
    <3>2. ~feedback'.jump_enable
      BY <1>1, <2>2, RetireBranchParts
    <3>3. CASE popped + 1 < n
      <4>1. InFlight[popped + 2].pc = arch'
        BY <2>1, <3>1, <3>3
      <4>2. /\ \A i \in popped + 2 .. n : GuessOK(InFlight[i])
            /\ \A i \in popped + 2 .. n - 1 :
                 InFlight[i + 1].pc = Follower(InFlight[i]) /\ ~Waits(InFlight[i])
        BY <2>1
      <4> QED
        BY <1>1, <1>5, <2>1, <3>2, <3>3, <4>1, <4>2, RetireBranchParts
        DEF PathOK, Follower, Waits, GuessOK
    <3>4. CASE popped + 1 = n
      <4>1. pc = arch' /\ ~jump_wait
        BY <2>1, <3>1, <3>4
      <4> QED
        BY <1>1, <1>5, <2>1, <3>2, <3>4, <4>1, RetireBranchParts DEF PathOK
    <3> QED
      BY <2>1, <3>3, <3>4
  <2>3. CASE ~rob_item.guess.predicted
    <3>1. Waits(rob_item) /\ Follower(rob_item) = Succ(rob_item.pc)
      BY <2>3, RetireBranchParts, RetiredBranch DEF Follower
    <3>2. popped + 1 = n
      BY <2>1, <3>1
    <3>3. jump_wait /\ pc = Succ(rob_item.pc)
      BY <2>1, <3>1, <3>2
    <3>4. /\ feedback'.jump_enable /\ feedback'.jump = rob_item.out.jump
          /\ feedback'.next_pc = arch'
      BY <1>1, <2>3, RetireBranchParts
    <3>5. arch' = IF feedback'.jump THEN feedback'.next_pc ELSE pc
      BY <3>3, <3>4, RetireBranchParts, RetiredBranch
    <3> QED
      BY <1>1, <1>5, <2>1, <3>2, <3>3, <3>4, <3>5, RetireBranchParts DEF PathOK
  <2> QED
    BY <2>2, <2>3
<1> QED
  BY <1>6, <1>7, <1>8, <1>9 DEF Inv

-----------------------------------------------------------------------------
(* The stages keep the invariant.                                          *)

\* At the start of a cycle nothing has retired in it.
LEMMA NoneRetired ==
  ASSUME popped' = 0
  PROVE  RetiredNow' = 0
<1>1. {i \in 1 .. 0 : IsStore(i)'} = {}
  OBVIOUS
<1> QED
  BY <1>1, FS_EmptySet DEF RetiredNow

\* A flush leaves the path where commit tells fetch to go on (fetch.cpp:359).
LEMMA FlushedStep ==
  ASSUME Inv, Flushed
  PROVE  Inv'
<1>1. /\ phase = "stages" /\ feedback.flush
      /\ fetch_decode_fifo' = << >> /\ decode_rename_fifo' = << >>
      /\ rob' = SubSeq(rob, popped + 1, Len(rob))
      /\ jump_wait' = FALSE
      /\ pc' = IF feedback.has_exception \/ feedback.jump_enable THEN feedback.next_pc ELSE pc
      /\ csr' = csr_next /\ pending' \in SUBSET Causes
      /\ popped' = 0 /\ feedback' = NoFeedback /\ phase' = "commit"
      /\ UNCHANGED <<undrained, csr_next, cur_state, restore, interrupt, arch, last>>
  BY DEF Flushed, Sync, walk
<1>2. rob \in Seq(Entry) /\ popped \in 0 .. Len(rob) /\ Len(rob) \in Nat
  BY DEF Inv, DataOK
<1>3. /\ rob' \in Seq(Entry) /\ Len(rob') = Len(rob) - popped
      /\ \A i \in 1 .. Len(rob) - popped : rob'[i] = rob[popped + i]
  BY <1>1, <1>2, Part
<1>4. RetiredNow' = 0
  BY <1>1, NoneRetired
<1>5. DataOK'
  <2>1. pc' \in Pc
    BY <1>1 DEF Inv, DataOK, Feedback
  <2>2. FIFO_SIZE \in Nat /\ ROB_SIZE \in Nat
    BY CoreAssumption
  <2>3. << >> \in Seq(Packet) /\ Len(<< >>) = 0
    OBVIOUS
  <2>4. /\ {arch, last} \subseteq Pc /\ undrained \in Nat /\ csr_next \in Csr
        /\ cur_state \in {"normal", "flush", "interrupt_flush"} /\ restore \in Nat
        /\ interrupt \in [id : Causes \cup {0}, pc : Pc] /\ Len(rob) <= ROB_SIZE
    BY DEF Inv, DataOK
  <2>5. Len(rob') <= ROB_SIZE /\ popped' \in 0 .. Len(rob') /\ RetiredNow' <= undrained'
    BY <1>1, <1>2, <1>3, <1>4, <2>2, <2>4
  <2>6. /\ fetch_decode_fifo' \in Seq(Packet) /\ Len(fetch_decode_fifo') <= FIFO_SIZE
        /\ decode_rename_fifo' \in Seq(Packet) /\ Len(decode_rename_fifo') <= FIFO_SIZE
    BY <1>1, <2>2, <2>3
  <2>7. /\ csr' \in Csr /\ csr_next' \in Csr /\ pending' \subseteq Causes
        /\ feedback' \in Feedback /\ phase' \in {"commit", "stages"}
        /\ cur_state' \in {"normal", "flush", "interrupt_flush"} /\ restore' \in Nat
        /\ interrupt' \in [id : Causes \cup {0}, pc : Pc]
        /\ {pc', arch', last'} \subseteq Pc /\ jump_wait' \in BOOLEAN /\ undrained' \in Nat
    BY <1>1, <2>1, <2>4, NoFeedbackType
  <2> QED
    BY <1>3, <2>5, <2>6, <2>7 DEF DataOK
<1>6. ControlOK'
  BY <1>1, NoFeedbackType DEF ControlOK
<1>7. WalkOK'
  <2>1. CASE cur_state # "normal"
    <3>1. /\ restore \in 1 .. Len(rob) - popped
          /\ rob[popped + 1].pc = arch
          /\ cur_state = "flush" => Op(arch) = "fault"
          /\ cur_state = "interrupt_flush" =>
               interrupt.pc = arch /\ interrupt.id \in csr_next.mie /\ "mie" \in csr_next.mstatus
      BY <2>1 DEF Inv, WalkOK, rob_item
    <3>2. /\ 1 \in 1 .. Len(rob) - popped
          /\ rob'[1] = rob[popped + 1] /\ restore \in 1 .. Len(rob') - 0
      BY <1>2, <1>3, <3>1
    <3>3. rob_item' = rob'[1]
      BY <1>1 DEF rob_item
    <3> QED
      BY <1>1, <3>1, <3>2, <3>3 DEF WalkOK
  <2>2. CASE cur_state = "normal"
    BY <1>1, <2>2 DEF WalkOK
  <2> QED
    BY <2>1, <2>2
<1>8. UnitsOK' /\ PathOK'
  <2>1. CASE cur_state # "normal"
    BY <1>1, <2>1 DEF UnitsOK, PathOK
  <2>2. CASE cur_state = "normal"
    <3>1. /\ rob = << >> /\ feedback.next_pc = arch
          /\ feedback.has_exception \/ feedback.jump_enable
      BY <1>1, <2>2 DEF Inv, ControlOK
    <3>2. Len(rob') = 0 /\ rob' = << >> /\ pc' = arch
      <4>1. Len(rob) = 0 /\ popped = 0
        BY <1>2, <3>1
      <4>2. rob' \in Seq(Entry) /\ Len(rob') = 0
        BY <1>3, <4>1
      <4>3. pc' = arch
        BY <1>1, <3>1
      <4> QED
        BY <4>2, <4>3
    <3>3. UnitsOK'
      <4>1. Unretired' = 0 + 1 .. 0
        BY <1>1, <3>2, Zenon DEF Unretired
      <4>2. Unretired' = {}
        BY <4>1
      <4> QED
        BY <4>2 DEF UnitsOK
    <3>4. InFlight' = << >> /\ Len(InFlight') = 0
      <4>1. InFlight' = << >> \o << >> \o << >>
        BY <1>1, <3>2, Zenon DEF InFlight
      <4>2. << >> \o << >> \o << >> = << >> /\ Len(<< >>) = 0
        OBVIOUS
      <4> QED
        BY <4>1, <4>2, Zenon
    <3>5. PathOK'
      BY <1>1, <3>2, <3>4, NoFeedbackType DEF PathOK
    <3> QED
      BY <3>3, <3>5
  <2> QED
    BY <2>1, <2>2
<1> QED
  BY <1>5, <1>6, <1>7, <1>8 DEF Inv

\* The smallest of three numbers.
LEMMA MinOfThree ==
  ASSUME NEW a \in Nat, NEW b \in Nat, NEW c \in Nat
  PROVE  /\ Min({a, b, c}) \in Nat
         /\ Min({a, b, c}) <= a /\ Min({a, b, c}) <= b /\ Min({a, b, c}) <= c
<1>1. \E x \in {a, b, c} : \A y \in {a, b, c} : x <= y
  <2>1. CASE a <= b /\ a <= c
    BY <2>1
  <2>2. CASE b <= a /\ b <= c
    BY <2>2
  <2>3. CASE c <= a /\ c <= b
    BY <2>3
  <2> QED
    BY <2>1, <2>2, <2>3
<1>2. Min({a, b, c}) \in {a, b, c} /\ \A y \in {a, b, c} : Min({a, b, c}) <= y
  BY <1>1 DEF Min
<1> QED
  BY <1>2

\* How much decode and rename can take.
LEMMA Rooms ==
  ASSUME DataOK
  PROVE  /\ Renamable \in Nat
         /\ Renamable <= Len(decode_rename_fifo) /\ Renamable <= ROB_SIZE - Len(rob)
         /\ Decoded \in Nat
         /\ Decoded <= Len(fetch_decode_fifo)
         /\ Decoded <= FIFO_SIZE - Len(decode_rename_fifo)
<1>1. WIDTH \in Nat /\ FIFO_SIZE \in Nat /\ ROB_SIZE \in Nat
  BY CoreAssumption
<1>2. /\ Len(decode_rename_fifo) \in Nat /\ Len(fetch_decode_fifo) \in Nat
      /\ ROB_SIZE - Len(rob) \in Nat /\ FIFO_SIZE - Len(decode_rename_fifo) \in Nat
  BY <1>1 DEF DataOK
<1> QED
  BY <1>1, <1>2, MinOfThree DEF Renamable, Decoded

\* What fetch hands to decode.
LEMMA GroupShape ==
  ASSUME DataOK, NEW guess \in Guess
  PROVE  LET c == Cardinality(Fetched) IN
         /\ Group(guess) \in Seq(Packet) /\ Len(Group(guess)) = c
         /\ \A i \in 1 .. c : /\ Group(guess)[i].pc = At(i - 1)
                              /\ Group(guess)[i].guess = IF i = c THEN guess ELSE Unpredicted
<1> DEFINE c == Cardinality(Fetched)
           e(i) == [pc |-> At(i - 1), guess |-> IF i = c THEN guess ELSE Unpredicted]
<1>1. c \in Nat
  BY FetchedRun
<1>2. Unpredicted \in Guess
  BY PcRange DEF Unpredicted, Guess
<1>3. ASSUME NEW i \in 1 .. c PROVE e(i) \in Packet
  <2>1. i - 1 \in Nat
    BY <1>1
  <2>2. At(i - 1) \in Pc
    BY <2>1, AtSteps
  <2> QED
    BY <1>2, <2>2 DEF Packet
<1>4. Group(guess) = [i \in 1 .. c |-> e(i)]
  BY DEF Group
<1>5. \A i \in 1 .. c : Group(guess)[i] = e(i)
  BY <1>4
<1> HIDE DEF e, c
<1>6. Group(guess) \in Seq(Packet) /\ Len(Group(guess)) = c
  BY <1>1, <1>3, <1>4
<1> QED
  BY <1>5, <1>6 DEF e, c

-----------------------------------------------------------------------------
(* A cycle in which nothing is flushed.                                    *)

\* Advance with the outcome and the guess it takes.
AdvanceWith(moved, renamed, out, guess) ==
  /\ moved \in Moves /\ renamed \in 0 .. Renamable
  /\ \/ \E i \in Branching(moved) : out \in Results(rob[i].pc)
     \/ Branching(moved) = {} /\ out = Pass(0)
  /\ guess \in IF FetchesBranch /\ ~jump_wait THEN Guesses ELSE {Unpredicted}
  /\ phase = "stages" /\ ~feedback.flush
  /\ rob' = After(moved, out, renamed)
  /\ Fetch(guess)
  /\ fetch_decode_fifo' =
       SubSeq(fetch_decode_fifo, Decoded + 1, Len(fetch_decode_fifo)) \o
         (IF jump_wait THEN << >> ELSE Group(guess))
  /\ decode_rename_fifo' =
       SubSeq(decode_rename_fifo, renamed + 1, Len(decode_rename_fifo)) \o
         SubSeq(fetch_decode_fifo, 1, Decoded)
  /\ undrained' = Drained
  /\ Sync

\* A cycle has one outcome of the branch unit and one guess of fetch.
LEMMA AdvancePick ==
  ASSUME NEW moved \in Moves, NEW renamed \in 0 .. Renamable, Advance(moved, renamed)
  PROVE  \E out, guess : AdvanceWith(moved, renamed, out, guess)
<1>1. PICK out :
        /\ out \in {o \in {Pass(0)} : Branching(moved) = {}}
                  \cup UNION {Results(rob[i].pc) : i \in Branching(moved)}
        /\ rob' = After(moved, out, renamed)
  BY Zenon DEF Advance
<1>2. PICK guess \in IF FetchesBranch /\ ~jump_wait THEN Guesses ELSE {Unpredicted} :
        /\ Fetch(guess)
        /\ fetch_decode_fifo' =
             SubSeq(fetch_decode_fifo, Decoded + 1, Len(fetch_decode_fifo)) \o
               (IF jump_wait THEN << >> ELSE Group(guess))
  BY Zenon DEF Advance
<1>3. \/ \E i \in Branching(moved) : out \in Results(rob[i].pc)
      \/ Branching(moved) = {} /\ out = Pass(0)
  BY <1>1
<1>4. AdvanceWith(moved, renamed, out, guess)
  BY <1>1, <1>2, <1>3, Zenon DEF Advance, AdvanceWith
<1> QED
  BY <1>4

\* Before it, no walk is under way.
LEMMA AdvanceNormal ==
  ASSUME Inv, NEW moved, NEW renamed, NEW out, NEW guess,
         AdvanceWith(moved, renamed, out, guess)
  PROVE  /\ cur_state = "normal" /\ cur_state' = "normal"
         /\ phase = "stages" /\ phase' = "commit"
         /\ popped' = 0 /\ feedback' = NoFeedback /\ csr' = csr_next
         /\ pending' \subseteq Causes
         /\ UNCHANGED <<csr_next, restore, interrupt, arch, last>>
         /\ popped = 0 => csr = csr_next
         /\ ~feedback.flush
<1>1. /\ phase = "stages" /\ ~feedback.flush /\ phase' = "commit"
      /\ popped' = 0 /\ feedback' = NoFeedback /\ csr' = csr_next
      /\ pending' \subseteq Causes
      /\ UNCHANGED <<csr_next, cur_state, restore, interrupt, arch, last>>
  BY DEF AdvanceWith, Sync, walk
<1>2. cur_state = "normal"
  BY <1>1 DEF Inv, WalkOK
<1> QED
  BY <1>1, <1>2 DEF Inv, ControlOK

\* What the branch unit may answer.
LEMMA OutType ==
  ASSUME Inv, NEW moved, NEW renamed, NEW out, NEW guess,
         AdvanceWith(moved, renamed, out, guess)
  PROVE  /\ out \in Outcome
         /\ \A i \in Branching(moved) : out \in Results(rob[i].pc)
<1>1. moved \subseteq Unretired /\ Cardinality(Branching(moved)) <= 1
  BY DEF AdvanceWith, Moves
<1>2. /\ rob \in Seq(Entry) /\ Unretired \subseteq 1 .. Len(rob)
      /\ popped \in Nat /\ Len(rob) \in Nat /\ csr \in Csr
  BY DEF Inv, DataOK, Unretired
<1>3. Branching(moved) \subseteq moved
  BY DEF Branching
<1>4. \A i, j \in Branching(moved) : i = j
  <2>1. IsFiniteSet(Branching(moved))
    <3>1. IsFiniteSet(1 .. Len(rob))
      BY <1>2, FS_Interval
    <3> QED
      BY <1>1, <1>2, <1>3, <3>1, FS_Subset
  <2> SUFFICES ASSUME NEW i \in Branching(moved), NEW j \in Branching(moved), i # j
               PROVE  FALSE
    OBVIOUS
  <2>2. Cardinality({i, j}) = 2 /\ Cardinality({i, j}) <= Cardinality(Branching(moved))
    <3>1. IsFiniteSet({i}) /\ Cardinality({i}) = 1
      BY FS_Singleton
    <3>2. Cardinality({i} \cup {j}) = 2
      BY <3>1, FS_AddElement
    <3>3. {i} \cup {j} = {i, j} /\ {i, j} \subseteq Branching(moved)
      OBVIOUS
    <3> QED
      BY <2>1, <3>2, <3>3, FS_Subset
  <2>3. Cardinality(Branching(moved)) \in Nat
    BY <2>1, FS_CardinalityType
  <2> QED
    BY <1>1, <2>2, <2>3
<1>5. ASSUME NEW i \in Branching(moved), NEW o \in Results(rob[i].pc) PROVE o \in Outcome
  <2>1. rob[i].pc \in Pc /\ IsBranch(rob[i].pc)
    <3>1. i \in 1 .. Len(rob)
      BY <1>1, <1>2, <1>3
    <3>2. rob[i] \in Entry
      BY <1>2, <3>1
    <3> QED
      BY <3>2 DEF Entry, Branching
  <2>2. csr.mepc \in Pc
    BY <1>2 DEF Csr
  <2>3. CASE Op(rob[i].pc) = "mret"
    <3>1. o = Jump(csr.mepc)
      BY <2>3 DEF Results
    <3> QED
      BY <2>2, <3>1 DEF Jump, Outcome
  <2>4. CASE Op(rob[i].pc) = "branch"
    BY <2>1, <2>4, OutcomesType DEF Results
  <2> QED
    BY <2>1, <2>3, <2>4 DEF IsBranch
<1>6. CASE Branching(moved) = {}
  <2>1. out = Pass(0)
    BY <1>6, Zenon DEF AdvanceWith
  <2> QED
    BY <1>6, <2>1, PcRange, SuccType DEF Pass, Outcome
<1>7. CASE Branching(moved) # {}
  <2>1. PICK i \in Branching(moved) : out \in Results(rob[i].pc)
    BY <1>7 DEF AdvanceWith
  <2> QED
    BY <1>4, <1>5, <2>1
<1> QED
  BY <1>6, <1>7

\* What a unit does to an entry.
LEMMA MovedType ==
  ASSUME DataOK, NEW e \in Entry, NEW out \in Outcome
  PROVE  /\ Moved(e, out) \in Entry
         /\ Moved(e, out).pc = e.pc /\ Moved(e, out).guess = e.guess
         /\ e.st = "wait" => /\ Moved(e, out).st = "issued" /\ Moved(e, out).write = e.write
         /\ e.st # "wait" =>
              /\ Moved(e, out).st = "finish" /\ Moved(e, out).out = out
              /\ Moved(e, out).write = IF Op(e.pc) = "csr"
                   THEN [r \in {Program[e.pc].csr} |-> csr_newvalue(e.pc, csr)]
                   ELSE e.write
<1> DEFINE w == IF Op(e.pc) = "csr"
                  THEN [r \in {Program[e.pc].csr} |-> csr_newvalue(e.pc, csr)]
                  ELSE e.write
<1>1. w \in Writes
  <2>1. e.pc \in Pc /\ csr \in Csr /\ e.write \in Writes
    BY DEF DataOK, Entry
  <2>2. CASE Op(e.pc) = "csr"
    BY <2>1, <2>2 DEF Writes
  <2> QED
    BY <2>1, <2>2
<1>2. CASE e.st = "wait"
  <2>1. Moved(e, out) = [e EXCEPT !.st = "issued"]
    BY <1>2 DEF Moved
  <2> QED
    BY <1>2, <2>1 DEF Entry
<1>3. CASE e.st # "wait"
  <2>1. Moved(e, out) = [e EXCEPT !.st = "finish", !.out = out, !.write = w]
    BY <1>3 DEF Moved
  <2> HIDE DEF w
  <2>2. /\ Moved(e, out) \in Entry
        /\ Moved(e, out).pc = e.pc /\ Moved(e, out).guess = e.guess
        /\ Moved(e, out).st = "finish" /\ Moved(e, out).out = out /\ Moved(e, out).write = w
    BY <1>1, <2>1 DEF Entry
  <2> QED
    BY <1>3, <2>2 DEF w
<1> QED
  BY <1>2, <1>3

\* The reorder buffer after a cycle, entry by entry.
LEMMA AfterShape ==
  ASSUME Inv, NEW moved, NEW renamed, NEW out, NEW guess,
         AdvanceWith(moved, renamed, out, guess)
  PROVE  LET left == Len(rob) - popped IN
         /\ rob' \in Seq(Entry) /\ Len(rob') = left + renamed
         /\ left \in Nat /\ renamed \in Nat
         /\ \A k \in 1 .. left :
              rob'[k] = IF popped + k \in moved THEN Moved(rob[popped + k], out)
                                                ELSE rob[popped + k]
         /\ \A k \in 1 .. renamed :
              rob'[left + k] = [pc |-> decode_rename_fifo[k].pc,
                                guess |-> decode_rename_fifo[k].guess,
                                st |-> "wait", out |-> Pass(0), write |-> << >>]
<1> DEFINE left == Len(rob) - popped
           all == [i \in DOMAIN rob |-> IF i \in moved THEN Moved(rob[i], out) ELSE rob[i]]
           old == SubSeq(all, popped + 1, Len(rob))
           fresh(k) == [pc |-> decode_rename_fifo[k].pc, guess |-> decode_rename_fifo[k].guess,
                        st |-> "wait", out |-> Pass(0), write |-> << >>]
           new == [k \in 1 .. renamed |-> fresh(k)]
<1>1. /\ rob \in Seq(Entry) /\ popped \in 0 .. Len(rob) /\ Len(rob) \in Nat /\ left \in Nat
      /\ decode_rename_fifo \in Seq(Packet) /\ DOMAIN rob = 1 .. Len(rob)
  BY DEF Inv, DataOK
<1>2. renamed \in Nat /\ renamed <= Len(decode_rename_fifo)
  BY Rooms DEF AdvanceWith, Inv
<1>3. rob' = old \o new
  BY Zenon DEF AdvanceWith, After
<1>4. all \in Seq(Entry) /\ Len(all) = Len(rob)
  <2>1. ASSUME NEW i \in 1 .. Len(rob) PROVE all[i] \in Entry
    <3>1. rob[i] \in Entry
      BY <1>1
    <3>2. Moved(rob[i], out) \in Entry
      BY <3>1, OutType, MovedType DEF Inv
    <3> QED
      BY <1>1, <3>1, <3>2
  <2>2. all = [i \in 1 .. Len(rob) |-> all[i]]
    BY <1>1
  <2> HIDE DEF all
  <2> QED
    BY <1>1, <2>1, <2>2
<1>5. /\ old \in Seq(Entry) /\ Len(old) = left
      /\ \A k \in 1 .. left : old[k] = all[popped + k]
  <2> HIDE DEF all
  <2>1. /\ popped + 1 \in 1 .. Len(all) + 1 /\ Len(rob) \in (popped + 1) - 1 .. Len(all)
        /\ Len(rob) - (popped + 1) + 1 = left
    BY <1>1, <1>4
  <2>2. /\ old \in Seq(Entry) /\ Len(old) = Len(rob) - (popped + 1) + 1
        /\ \A i \in 1 .. Len(rob) - (popped + 1) + 1 : old[i] = all[(popped + 1) + i - 1]
    BY <1>4, <2>1, Part
  <2>3. \A i \in 1 .. left : (popped + 1) + i - 1 = popped + i
    BY <1>1
  <2> QED
    BY <2>1, <2>2, <2>3
<1>6. ASSUME NEW k \in 1 .. renamed PROVE fresh(k) \in Entry
  <2>1. decode_rename_fifo[k] \in Packet
    BY <1>1, <1>2
  <2>2. Pass(0) \in Outcome
    BY PcRange, SuccType DEF Pass, Outcome
  <2>3. << >> \in Writes
    BY DEF Writes
  <2> QED
    BY <2>1, <2>2, <2>3 DEF Packet, Entry
<1>7. new \in Seq(Entry) /\ Len(new) = renamed /\ \A k \in 1 .. renamed : new[k] = fresh(k)
  <2> HIDE DEF fresh
  <2> QED
    BY <1>2, <1>6
<1>8. /\ rob' \in Seq(Entry) /\ Len(rob') = left + renamed
      /\ \A k \in 1 .. left : rob'[k] = all[popped + k]
      /\ \A k \in 1 .. renamed : rob'[left + k] = fresh(k)
  <2> HIDE DEF all, old, new, fresh, left
  <2>1. /\ old \o new \in Seq(Entry) /\ Len(old \o new) = Len(old) + Len(new)
        /\ \A i \in 1 .. Len(old) : (old \o new)[i] = old[i]
        /\ \A i \in 1 .. Len(new) : (old \o new)[Len(old) + i] = new[i]
    <3>1. old \in Seq(Entry) /\ new \in Seq(Entry)
      BY <1>5, <1>7
    <3> QED
      BY <3>1
  <2> QED
    BY <1>3, <1>5, <1>7, <2>1
<1>9. \A k \in 1 .. left :
        all[popped + k] = IF popped + k \in moved THEN Moved(rob[popped + k], out)
                                                  ELSE rob[popped + k]
  <2>1. \A k \in 1 .. left : popped + k \in DOMAIN rob
    BY <1>1
  <2> QED
    BY <2>1
<1> QED
  BY <1>1, <1>2, <1>8, <1>9

\* The two FIFOs after a cycle.
LEMMA FifosShape ==
  ASSUME Inv, NEW moved, NEW renamed, NEW out, NEW guess,
         AdvanceWith(moved, renamed, out, guess),
         NEW G \in Seq(Packet), G = IF jump_wait THEN << >> ELSE Group(guess)
  PROVE  /\ decode_rename_fifo' \in Seq(Packet) /\ fetch_decode_fifo' \in Seq(Packet)
         /\ Len(decode_rename_fifo') = Len(decode_rename_fifo) - renamed + Decoded
         /\ Len(fetch_decode_fifo') = Len(fetch_decode_fifo) - Decoded + Len(G)
         /\ \A k \in 1 .. Len(decode_rename_fifo) - renamed :
              decode_rename_fifo'[k] = decode_rename_fifo[renamed + k]
         /\ \A k \in 1 .. Decoded :
              decode_rename_fifo'[Len(decode_rename_fifo) - renamed + k] = fetch_decode_fifo[k]
         /\ \A k \in 1 .. Len(fetch_decode_fifo) - Decoded :
              fetch_decode_fifo'[k] = fetch_decode_fifo[Decoded + k]
         /\ \A k \in 1 .. Len(G) :
              fetch_decode_fifo'[Len(fetch_decode_fifo) - Decoded + k] = G[k]
<1> DEFINE d == decode_rename_fifo
           f == fetch_decode_fifo
           m == Decoded
           d1 == SubSeq(d, renamed + 1, Len(d))
           d2 == SubSeq(f, 1, m)
           f1 == SubSeq(f, m + 1, Len(f))
<1>1. /\ d \in Seq(Packet) /\ f \in Seq(Packet) /\ Len(d) \in Nat /\ Len(f) \in Nat
      /\ renamed \in 0 .. Len(d) /\ m \in 0 .. Len(f)
  <2>1. /\ d \in Seq(Packet) /\ f \in Seq(Packet) /\ DataOK
    BY DEF Inv, DataOK
  <2>2. renamed \in 0 .. Renamable
    BY Zenon DEF AdvanceWith
  <2> QED
    BY <2>1, <2>2, Rooms
<1>2. d' = d1 \o d2 /\ f' = f1 \o G
  BY Zenon DEF AdvanceWith
<1> HIDE DEF d, f, m
<1>3. /\ d1 \in Seq(Packet) /\ Len(d1) = Len(d) - renamed
      /\ \A k \in 1 .. Len(d) - renamed : d1[k] = d[renamed + k]
  BY <1>1, Part
<1>4. /\ d2 \in Seq(Packet) /\ Len(d2) = m
      /\ \A k \in 1 .. m : d2[k] = f[k]
  BY <1>1, Part
<1>5. /\ f1 \in Seq(Packet) /\ Len(f1) = Len(f) - m
      /\ \A k \in 1 .. Len(f) - m : f1[k] = f[m + k]
  BY <1>1, Part
<1> HIDE DEF d1, d2, f1
<1>6. /\ d' \in Seq(Packet) /\ Len(d') = Len(d) - renamed + m
      /\ \A k \in 1 .. Len(d) - renamed : d'[k] = d[renamed + k]
      /\ \A k \in 1 .. m : d'[Len(d) - renamed + k] = f[k]
  <2>1. /\ d1 \o d2 \in Seq(Packet) /\ Len(d1 \o d2) = Len(d1) + Len(d2)
        /\ \A i \in 1 .. Len(d1) : (d1 \o d2)[i] = d1[i]
        /\ \A i \in 1 .. Len(d2) : (d1 \o d2)[Len(d1) + i] = d2[i]
    <3>1. d1 \in Seq(Packet) /\ d2 \in Seq(Packet)
      BY <1>3, <1>4
    <3> QED
      BY <3>1
  <2> QED
    BY <1>2, <1>3, <1>4, <2>1
<1>7. /\ f' \in Seq(Packet) /\ Len(f') = Len(f) - m + Len(G)
      /\ \A k \in 1 .. Len(f) - m : f'[k] = f[m + k]
      /\ \A k \in 1 .. Len(G) : f'[Len(f) - m + k] = G[k]
  <2>1. /\ f1 \o G \in Seq(Packet) /\ Len(f1 \o G) = Len(f1) + Len(G)
        /\ \A i \in 1 .. Len(f1) : (f1 \o G)[i] = f1[i]
        /\ \A i \in 1 .. Len(G) : (f1 \o G)[Len(f1) + i] = G[i]
    <3>1. f1 \in Seq(Packet) /\ G \in Seq(Packet)
      BY <1>5
    <3> QED
      BY <3>1
  <2> QED
    BY <1>2, <1>5, <2>1
<1> QED
  BY <1>6, <1>7 DEF d, f, m

\* What was in flight and has not retired is still there, with its program
\* counters and guesses, in front of what has been fetched.
LEMMA InFlightMovesOn ==
  ASSUME Inv, NEW moved, NEW renamed, NEW out, NEW guess,
         AdvanceWith(moved, renamed, out, guess),
         NEW G \in Seq(Packet), G = IF jump_wait THEN << >> ELSE Group(guess)
  PROVE  LET n == Len(InFlight) - popped IN
         /\ n \in Nat /\ Len(InFlight') = n + Len(G)
         /\ \A k \in 1 .. n : /\ InFlight'[k].pc = InFlight[popped + k].pc
                              /\ InFlight'[k].guess = InFlight[popped + k].guess
         /\ \A k \in 1 .. Len(G) : InFlight'[n + k] = G[k]
<1> DEFINE r == Len(rob) - popped
           d == Len(decode_rename_fifo)
           f == Len(fetch_decode_fifo)
           m == Decoded
           g == Len(G)
           Same(k) == /\ InFlight'[k].pc = InFlight[popped + k].pc
                      /\ InFlight'[k].guess = InFlight[popped + k].guess
<1>1. /\ r \in Nat /\ d \in Nat /\ f \in Nat /\ m \in Nat /\ g \in Nat /\ popped \in Nat
      /\ renamed \in Nat /\ renamed <= d /\ m <= f /\ Len(rob) = popped + r
      /\ rob \in Seq(Entry)
      /\ Len(InFlight) - popped = r + d + f
  <2>1. DataOK
    BY DEF Inv
  <2>2. /\ rob \in Seq(Entry) /\ popped \in 0 .. Len(rob) /\ Len(rob) \in Nat
        /\ d \in Nat /\ f \in Nat
    BY <2>1 DEF DataOK
  <2>3. renamed \in 0 .. Renamable
    BY Zenon DEF AdvanceWith
  <2>4. Len(InFlight) = Len(rob) + d + f
    BY <2>1, InFlightParts
  <2> QED
    BY <2>1, <2>2, <2>3, <2>4, Rooms
<1>2. /\ rob' \in Seq(Entry) /\ Len(rob') = r + renamed
      /\ \A k \in 1 .. r : /\ rob'[k].pc = rob[popped + k].pc
                           /\ rob'[k].guess = rob[popped + k].guess
      /\ \A k \in 1 .. renamed : /\ rob'[r + k].pc = decode_rename_fifo[k].pc
                                 /\ rob'[r + k].guess = decode_rename_fifo[k].guess
  <2>1. ASSUME NEW k \in 1 .. r
        PROVE  rob'[k].pc = rob[popped + k].pc /\ rob'[k].guess = rob[popped + k].guess
    <3>1. rob[popped + k] \in Entry
      BY <1>1
    <3>2. Moved(rob[popped + k], out).pc = rob[popped + k].pc
          /\ Moved(rob[popped + k], out).guess = rob[popped + k].guess
      BY <3>1, MovedType, OutType DEF Inv
    <3>3. rob'[k] = Moved(rob[popped + k], out) \/ rob'[k] = rob[popped + k]
      BY AfterShape
    <3> QED
      BY <3>2, <3>3
  <2>2. /\ rob' \in Seq(Entry) /\ Len(rob') = r + renamed
    BY AfterShape
  <2>3. ASSUME NEW k \in 1 .. renamed
        PROVE  /\ rob'[r + k].pc = decode_rename_fifo[k].pc
               /\ rob'[r + k].guess = decode_rename_fifo[k].guess
    <3>1. rob'[r + k] = [pc |-> decode_rename_fifo[k].pc,
                         guess |-> decode_rename_fifo[k].guess,
                         st |-> "wait", out |-> Pass(0), write |-> << >>]
      BY AfterShape
    <3> QED
      BY <3>1
  <2> QED
    BY <2>1, <2>2, <2>3
<1>3. /\ decode_rename_fifo' \in Seq(Packet) /\ fetch_decode_fifo' \in Seq(Packet)
      /\ Len(decode_rename_fifo') = d - renamed + m
      /\ Len(fetch_decode_fifo') = f - m + g
      /\ \A k \in 1 .. d - renamed : decode_rename_fifo'[k] = decode_rename_fifo[renamed + k]
      /\ \A k \in 1 .. m : decode_rename_fifo'[d - renamed + k] = fetch_decode_fifo[k]
      /\ \A k \in 1 .. f - m : fetch_decode_fifo'[k] = fetch_decode_fifo[m + k]
      /\ \A k \in 1 .. g : fetch_decode_fifo'[f - m + k] = G[k]
  BY FifosShape, Zenon
<1>4. /\ Len(InFlight') = (r + renamed) + (d - renamed + m) + (f - m + g)
      /\ \A k \in 1 .. r + renamed : InFlight'[k] = rob'[k]
      /\ \A k \in 1 .. d - renamed + m :
           InFlight'[(r + renamed) + k] = decode_rename_fifo'[k]
      /\ \A k \in 1 .. f - m + g :
           InFlight'[(r + renamed) + (d - renamed + m) + k] = fetch_decode_fifo'[k]
  <2>1. /\ rob' \in Seq(Entry)
        /\ decode_rename_fifo' \in Seq(Packet) /\ fetch_decode_fifo' \in Seq(Packet)
    BY <1>2, <1>3
  <2> DEFINE a == rob'
             b == decode_rename_fifo'
             c == fetch_decode_fifo'
  <2>2. /\ Len(a \o b \o c) = Len(a) + Len(b) + Len(c)
        /\ \A i \in 1 .. Len(a) : (a \o b \o c)[i] = a[i]
        /\ \A i \in 1 .. Len(b) : (a \o b \o c)[Len(a) + i] = b[i]
        /\ \A i \in 1 .. Len(c) : (a \o b \o c)[Len(a) + Len(b) + i] = c[i]
    BY <2>1, Three
  <2>3. /\ InFlight' = a \o b \o c
        /\ Len(a) = r + renamed /\ Len(b) = d - renamed + m /\ Len(c) = f - m + g
    BY <1>2, <1>3 DEF InFlight
  <2> HIDE DEF a, b, c, r, d, f, m, g
  <2>4. /\ Len(InFlight') = (r + renamed) + (d - renamed + m) + (f - m + g)
        /\ \A k \in 1 .. r + renamed : InFlight'[k] = a[k]
        /\ \A k \in 1 .. d - renamed + m : InFlight'[(r + renamed) + k] = b[k]
        /\ \A k \in 1 .. f - m + g :
             InFlight'[(r + renamed) + (d - renamed + m) + k] = c[k]
    BY <2>2, <2>3, Zenon
  <2> QED
    BY <2>4, Zenon DEF a, b, c
<1>5. /\ \A k \in 1 .. Len(rob) : InFlight[k] = rob[k]
      /\ \A k \in 1 .. d : InFlight[Len(rob) + k] = decode_rename_fifo[k]
      /\ \A k \in 1 .. f : InFlight[Len(rob) + d + k] = fetch_decode_fifo[k]
  BY InFlightParts DEF Inv
<1> HIDE DEF r, d, f, m, g
<1>6. Len(InFlight') = r + d + f + g
  <2>1. Len(InFlight') = (r + renamed) + (d - renamed + m) + (f - m + g)
    BY <1>4, Zenon
  <2> QED
    BY <1>1, <2>1
<1>7. ASSUME NEW k \in 1 .. r PROVE Same(k)
  <2>1. k \in 1 .. r + renamed /\ popped + k \in 1 .. Len(rob)
    BY <1>1
  <2>2. InFlight'[k] = rob'[k] /\ InFlight[popped + k] = rob[popped + k]
    BY <1>4, <1>5, <2>1
  <2> QED
    BY <1>2, <2>2
<1>8. ASSUME NEW k \in 1 .. renamed PROVE Same(r + k)
  <2>1. r + k \in 1 .. r + renamed /\ k \in 1 .. d /\ popped + (r + k) = Len(rob) + k
    BY <1>1
  <2>2. InFlight'[r + k] = rob'[r + k] /\ InFlight[popped + (r + k)] = decode_rename_fifo[k]
    BY <1>4, <1>5, <2>1
  <2> QED
    BY <1>2, <2>2
<1>9. ASSUME NEW k \in 1 .. d - renamed PROVE Same(r + renamed + k)
  <2>1. k \in 1 .. d - renamed + m /\ renamed + k \in 1 .. d
        /\ popped + (r + renamed + k) = Len(rob) + (renamed + k)
    BY <1>1
  <2>2. InFlight'[r + renamed + k] = decode_rename_fifo'[k]
        /\ InFlight[popped + (r + renamed + k)] = decode_rename_fifo[renamed + k]
    BY <1>4, <1>5, <2>1
  <2> QED
    BY <1>3, <2>2
<1>10. ASSUME NEW k \in 1 .. m PROVE Same(r + d + k)
  <2>1. /\ d - renamed + k \in 1 .. d - renamed + m /\ k \in 1 .. f
        /\ r + d + k = (r + renamed) + (d - renamed + k)
        /\ popped + (r + d + k) = Len(rob) + d + k
    BY <1>1
  <2>2. InFlight'[r + d + k] = decode_rename_fifo'[d - renamed + k]
        /\ InFlight[popped + (r + d + k)] = fetch_decode_fifo[k]
    BY <1>4, <1>5, <2>1
  <2> QED
    BY <1>3, <2>2
<1>11. ASSUME NEW k \in 1 .. f - m PROVE Same(r + d + m + k)
  <2>1. /\ k \in 1 .. f - m + g /\ m + k \in 1 .. f
        /\ r + d + m + k = (r + renamed) + (d - renamed + m) + k
        /\ popped + (r + d + m + k) = Len(rob) + d + (m + k)
    BY <1>1
  <2>2. InFlight'[r + d + m + k] = fetch_decode_fifo'[k]
        /\ InFlight[popped + (r + d + m + k)] = fetch_decode_fifo[m + k]
    BY <1>4, <1>5, <2>1
  <2> QED
    BY <1>3, <2>2
<1>12. ASSUME NEW k \in 1 .. g PROVE InFlight'[r + d + f + k] = G[k]
  <2>1. /\ f - m + k \in 1 .. f - m + g
        /\ r + d + f + k = (r + renamed) + (d - renamed + m) + (f - m + k)
    BY <1>1
  <2>2. InFlight'[r + d + f + k] = fetch_decode_fifo'[f - m + k]
    BY <1>4, <2>1
  <2> QED
    BY <1>3, <2>2
<1>13. ASSUME NEW k \in 1 .. r + d + f PROVE Same(k)
  <2> HIDE DEF Same
  <2>1. CASE k <= r
    BY <1>1, <1>7, <2>1
  <2>2. CASE k > r /\ k <= r + renamed
    <3>1. k - r \in 1 .. renamed /\ k = r + (k - r)
      BY <1>1, <2>2
    <3> QED
      BY <1>8, <3>1
  <2>3. CASE k > r + renamed /\ k <= r + d
    <3>1. k - (r + renamed) \in 1 .. d - renamed /\ k = r + renamed + (k - (r + renamed))
      BY <1>1, <2>3
    <3> QED
      BY <1>9, <3>1
  <2>4. CASE k > r + d /\ k <= r + d + m
    <3>1. k - (r + d) \in 1 .. m /\ k = r + d + (k - (r + d))
      BY <1>1, <2>4
    <3> QED
      BY <1>10, <3>1
  <2>5. CASE k > r + d + m
    <3>1. k - (r + d + m) \in 1 .. f - m /\ k = r + d + m + (k - (r + d + m))
      BY <1>1, <2>5
    <3> QED
      BY <1>11, <3>1
  <2> QED
    BY <1>1, <2>1, <2>2, <2>3, <2>4, <2>5
<1> DEFINE n == Len(InFlight) - popped
<1>14. n = r + d + f
  BY <1>1, Zenon
<1> HIDE DEF n
<1>15. /\ n \in Nat /\ Len(InFlight') = n + g
       /\ \A k \in 1 .. n : Same(k)
       /\ \A k \in 1 .. g : InFlight'[n + k] = G[k]
  <2> HIDE DEF Same
  <2> QED
    BY <1>1, <1>6, <1>12, <1>13, <1>14
<1> QED
  BY <1>15, Zenon DEF n, g

\* What is fetched is a path from pc to where fetch goes on.
LEMMA FetchGroup ==
  ASSUME Inv, NEW moved, NEW renamed, NEW out, NEW guess,
         AdvanceWith(moved, renamed, out, guess), ~jump_wait,
         NEW c \in Nat, c = Cardinality(Fetched)
  PROVE  /\ guess \in Guess /\ jump_wait' \in BOOLEAN
         /\ c = 0 => pc' = pc /\ ~jump_wait'
         /\ c > 0 => /\ Group(guess)[1].pc = pc
                     /\ pc' = Follower(Group(guess)[c])
                     /\ (jump_wait' <=> Waits(Group(guess)[c]))
         /\ \A i \in 1 .. c : GuessOK(Group(guess)[i])
         /\ \A i \in 1 .. c - 1 : /\ Group(guess)[i + 1].pc = Follower(Group(guess)[i])
                                  /\ ~Waits(Group(guess)[i])
<1>1. DataOK
  BY DEF Inv
<1>2. Fetched = 0 .. c - 1 /\ \A k \in 0 .. c - 2 : ~IsBranch(At(k))
  BY <1>1, FetchedRun
<1>3. /\ guess \in IF FetchesBranch /\ ~jump_wait THEN Guesses ELSE {Unpredicted}
      /\ Fetch(guess)
  BY Zenon DEF AdvanceWith
<1>4. /\ jump_wait' = (FetchesBranch /\ ~guess.predicted)
      /\ pc' = IF guess.predicted THEN guess.next ELSE At(c)
  BY <1>3, Zenon DEF Fetch
<1>5. /\ guess \in Guess
      /\ guess.predicted => /\ FetchesBranch /\ Op(LastFetched) = "branch"
                            /\ \E o \in Outcomes(LastFetched) : guess = Predicted(o)
  <2>1. CASE FetchesBranch
    <3>1. guess \in Guesses /\ Fetched # {}
      BY <1>3, <2>1 DEF FetchesBranch
    <3> QED
      BY <1>1, <2>1, <3>1, GuessesOK
  <2>2. CASE ~FetchesBranch
    <3>1. guess = Unpredicted
      BY <1>3, <2>2
    <3> QED
      BY <3>1, PcRange DEF Unpredicted, Guess
  <2> QED
    BY <2>1, <2>2
<1>6. jump_wait' \in BOOLEAN
  BY <1>4, Zenon
<1>7. c > 0 => LastFetched = At(c - 1) /\ (FetchesBranch <=> IsBranch(At(c - 1)))
  <2>1. LastFetched = At(c - 1)
    BY Zenon DEF LastFetched
  <2>2. c > 0 => Fetched # {}
    <3>1. c > 0 => 0 \in 0 .. c - 1
      OBVIOUS
    <3> QED
      BY <1>2, <3>1, Zenon
  <2> QED
    BY <2>1, <2>2, Zenon DEF FetchesBranch
<1>8. At(0) = pc /\ \A k \in Nat : At(k) \in Pc /\ At(k + 1) = Succ(At(k))
  BY <1>1, AtSteps
<1>9. \A i \in 1 .. c : /\ Group(guess)[i].pc = At(i - 1)
                        /\ Group(guess)[i].guess = IF i = c THEN guess ELSE Unpredicted
  BY <1>1, <1>5, GroupShape
<1>10. CASE c = 0
  <2>1. ~FetchesBranch
    <3>1. 0 .. c - 1 = {}
      BY <1>10
    <3> QED
      BY <1>2, <3>1, Zenon DEF FetchesBranch
  <2>2. pc' = pc /\ ~jump_wait'
    BY <1>4, <1>5, <1>8, <1>10, <2>1, Zenon
  <2>3. ~(c > 0) /\ 1 .. c = {} /\ 1 .. c - 1 = {}
    BY <1>10
  <2> QED
    BY <1>5, <1>6, <2>2, <2>3, Zenon
<1>11. CASE c > 0
  <2> DEFINE last_one == Group(guess)[c]
  <2>1. c - 1 \in Nat /\ c \in 1 .. c /\ 1 \in 1 .. c /\ At((c - 1) + 1) = At(c)
    BY <1>11
  <2>2. last_one.pc = At(c - 1) /\ last_one.guess = guess /\ At(c) = Succ(At(c - 1))
    BY <1>8, <1>9, <2>1
  <2>3. Group(guess)[1].pc = pc
    BY <1>8, <1>9, <2>1
  <2>4. pc' = Follower(last_one)
    BY <1>4, <2>2, Zenon DEF Follower
  <2>5. (jump_wait' <=> Waits(last_one))
    BY <1>4, <1>7, <1>11, <2>2, Zenon DEF Waits
  <2>6. GuessOK(last_one)
    BY <1>5, <1>7, <1>11, <2>2, Zenon DEF GuessOK
  <2>7. ASSUME NEW i \in 1 .. c - 1
        PROVE  /\ GuessOK(Group(guess)[i]) /\ ~Waits(Group(guess)[i])
               /\ Group(guess)[i + 1].pc = Follower(Group(guess)[i])
    <3>1. /\ i \in 1 .. c /\ i + 1 \in 1 .. c /\ i # c /\ i - 1 \in Nat /\ i - 1 \in 0 .. c - 2
          /\ (i - 1) + 1 = i /\ (i + 1) - 1 = i
      BY <2>1
    <3>2. /\ Group(guess)[i].pc = At(i - 1) /\ Group(guess)[i].guess = Unpredicted
          /\ Group(guess)[i + 1].pc = At(i)
      BY <1>9, <3>1
    <3>3. At(i) = Succ(At(i - 1)) /\ ~IsBranch(At(i - 1))
      BY <1>2, <1>8, <3>1
    <3>4. ~Unpredicted.predicted
      BY DEF Unpredicted
    <3> QED
      BY <3>2, <3>3, <3>4, Zenon DEF GuessOK, Waits, Follower
  <2>8. \A i \in 1 .. c : i = c \/ i \in 1 .. c - 1
    OBVIOUS
  <2> QED
    BY <1>5, <1>11, <1>6, <2>3, <2>4, <2>5, <2>6, <2>7, <2>8
<1>12. c = 0 \/ c > 0
  OBVIOUS
<1> QED
  BY <1>10, <1>11, <1>12, Zenon

\* After a cycle every variable has its type and every FIFO its room.
LEMMA AdvanceData ==
  ASSUME Inv, NEW moved, NEW renamed, NEW out, NEW guess,
         AdvanceWith(moved, renamed, out, guess)
  PROVE  DataOK' /\ ControlOK' /\ WalkOK'
<1>0. PICK c \in Nat : c = Cardinality(Fetched)
  BY FetchedRun DEF Inv
<1> DEFINE G == IF jump_wait THEN << >> ELSE Group(guess)
<1>1. DataOK /\ c \in Nat /\ c <= FIFO_SIZE - Len(fetch_decode_fifo)
  BY <1>0, FetchedRun DEF Inv
<1>2. /\ G \in Seq(Packet) /\ Len(G) \in Nat /\ Len(G) <= c
      /\ pc' \in Pc /\ jump_wait' \in BOOLEAN
  <2>1. CASE jump_wait
    <3>1. G = << >>
      BY <2>1
    <3>2. pc \in Pc /\ feedback.next_pc \in Pc /\ jump_wait \in BOOLEAN
      BY <1>1 DEF DataOK, Feedback
    <3>3. pc' \in Pc /\ jump_wait' \in BOOLEAN
      BY <2>1, <3>2, Zenon DEF AdvanceWith, Fetch
    <3>4. << >> \in Seq(Packet) /\ Len(<< >>) = 0
      OBVIOUS
    <3> HIDE DEF G
    <3> QED
      BY <1>1, <3>1, <3>3, <3>4
  <2>2. CASE ~jump_wait
    <3>1. G = Group(guess)
      BY <2>2
    <3>2. /\ guess \in Guess /\ jump_wait' \in BOOLEAN
          /\ c = 0 => pc' = pc
          /\ c > 0 => pc' = Follower(Group(guess)[c])
      BY <1>0, <2>2, FetchGroup
    <3>3. Group(guess) \in Seq(Packet) /\ Len(Group(guess)) = c
      BY <1>0, <1>1, <3>2, GroupShape
    <3> HIDE DEF G
    <3>4. CASE c = 0
      <4>1. pc' \in Pc /\ jump_wait' \in BOOLEAN
        BY <1>1, <3>2, <3>4, Zenon DEF DataOK
      <4> QED
        BY <1>1, <3>1, <3>3, <4>1
    <3>5. CASE c > 0
      <4> DEFINE e == Group(guess)[c]
      <4>1. e \in Packet
        BY <1>1, <3>3, <3>5
      <4>2. e.pc \in Pc /\ e.guess.next \in Pc /\ Succ(e.pc) \in Pc
        BY <4>1, SuccType DEF Packet, Guess
      <4>3. Follower(e) \in Pc
        BY <4>2, Zenon DEF Follower
      <4> QED
        BY <1>1, <3>1, <3>2, <3>3, <3>5, <4>3
    <3> QED
      BY <1>1, <3>4, <3>5
  <2> QED
    BY <2>1, <2>2
<1>3. /\ decode_rename_fifo' \in Seq(Packet) /\ Len(decode_rename_fifo') <= FIFO_SIZE
      /\ fetch_decode_fifo' \in Seq(Packet) /\ Len(fetch_decode_fifo') <= FIFO_SIZE
  <2>1. /\ decode_rename_fifo' \in Seq(Packet) /\ fetch_decode_fifo' \in Seq(Packet)
        /\ Len(decode_rename_fifo') = Len(decode_rename_fifo) - renamed + Decoded
        /\ Len(fetch_decode_fifo') = Len(fetch_decode_fifo) - Decoded + Len(G)
    <3>1. G = IF jump_wait THEN << >> ELSE Group(guess)
      OBVIOUS
    <3> HIDE DEF G
    <3> QED
      BY <1>2, <3>1, FifosShape, Zenon
  <2>2. renamed \in 0 .. Renamable
    BY Zenon DEF AdvanceWith
  <2>3. /\ Len(decode_rename_fifo) \in Nat /\ Len(fetch_decode_fifo) \in Nat
        /\ FIFO_SIZE \in Nat
    BY <1>1, CoreAssumption DEF DataOK
  <2>4. /\ Renamable \in Nat /\ Renamable <= Len(decode_rename_fifo)
        /\ Decoded \in Nat /\ Decoded <= Len(fetch_decode_fifo)
        /\ Decoded <= FIFO_SIZE - Len(decode_rename_fifo)
    BY <1>1, Rooms
  <2> HIDE DEF G
  <2> QED
    BY <1>1, <1>2, <2>1, <2>2, <2>3, <2>4, SMTT(60)
<1>4. rob' \in Seq(Entry) /\ Len(rob') <= ROB_SIZE /\ Len(rob') \in Nat
  <2>1. rob' \in Seq(Entry) /\ Len(rob') = Len(rob) - popped + renamed
    BY AfterShape
  <2>2. renamed \in 0 .. Renamable /\ Renamable \in Nat /\ Renamable <= ROB_SIZE - Len(rob)
    <3>1. renamed \in 0 .. Renamable
      BY Zenon DEF AdvanceWith
    <3> QED
      BY <1>1, <3>1, Rooms
  <2>3. Len(rob) \in Nat /\ popped \in 0 .. Len(rob) /\ ROB_SIZE \in Nat
    BY <1>1, CoreAssumption DEF DataOK
  <2> QED
    BY <2>1, <2>2, <2>3
<1>5. undrained' \in Nat /\ RetiredNow' <= undrained'
  <2>1. RetiredNow' = 0
    BY AdvanceNormal, NoneRetired
  <2>2. undrained' = Drained
    BY Zenon DEF AdvanceWith
  <2>3. undrained \in Nat /\ RetiredNow <= undrained /\ RetiredNow \in Nat
    <3>1. popped \in Nat
      BY <1>1 DEF DataOK
    <3>2. IsFiniteSet(1 .. popped) /\ {i \in 1 .. popped : IsStore(i)} \subseteq 1 .. popped
      BY <3>1, FS_Interval
    <3>3. RetiredNow \in Nat
      BY <3>2, FS_Subset, FS_CardinalityType DEF RetiredNow
    <3> QED
      BY <1>1, <3>3 DEF DataOK
  <2>4. Min({1, undrained - RetiredNow}) =
          IF 1 <= undrained - RetiredNow THEN 1 ELSE undrained - RetiredNow
    <3>1. 1 \in Int /\ undrained - RetiredNow \in Int
      BY <2>3
    <3> QED
      BY <3>1, MinOfTwo
  <2> QED
    BY <2>1, <2>2, <2>3, <2>4 DEF Drained
<1>6. DataOK'
  <2>1. /\ {arch', last'} \subseteq Pc /\ csr' \in Csr /\ csr_next' \in Csr
        /\ pending' \subseteq Causes
        /\ cur_state' \in {"normal", "flush", "interrupt_flush"} /\ restore' \in Nat
        /\ interrupt' \in [id : Causes \cup {0}, pc : Pc]
        /\ feedback' \in Feedback /\ phase' \in {"commit", "stages"}
    BY <1>1, AdvanceNormal, NoFeedbackType DEF DataOK
  <2>2. popped' \in 0 .. Len(rob')
    BY <1>4, AdvanceNormal
  <2> QED
    BY <1>2, <1>3, <1>4, <1>5, <2>1, <2>2 DEF DataOK
<1>7. ControlOK' /\ WalkOK'
  BY AdvanceNormal, NoFeedbackType DEF ControlOK, WalkOK
<1> QED
  BY <1>6, <1>7

\* A unit reads the registers as the cycle began, which are those an
\* instruction that is alone retires with (csr.cpp, bru.cpp:371).
LEMMA AdvanceUnits ==
  ASSUME Inv, NEW moved, NEW renamed, NEW out, NEW guess,
         AdvanceWith(moved, renamed, out, guess)
  PROVE  UnitsOK'
<1> DEFINE left == Len(rob) - popped
<1>1. /\ rob \in Seq(Entry) /\ popped \in Nat /\ Len(rob) \in Nat /\ left \in Nat
      /\ DataOK
  BY DEF Inv, DataOK
<1>2. /\ renamed \in Nat /\ Len(rob') = left + renamed
      /\ \A k \in 1 .. left :
           rob'[k] = IF popped + k \in moved THEN Moved(rob[popped + k], out)
                                             ELSE rob[popped + k]
      /\ \A k \in 1 .. renamed :
           rob'[left + k] = [pc |-> decode_rename_fifo[k].pc,
                             guess |-> decode_rename_fifo[k].guess,
                             st |-> "wait", out |-> Pass(0), write |-> << >>]
  BY AfterShape
<1>3. /\ popped' = 0 /\ csr' = csr_next /\ cur_state = "normal"
      /\ popped = 0 => csr = csr_next
  BY AdvanceNormal
<1>4. \A i \in Unretired : UnitOK(i, rob[i], csr)
  BY <1>3 DEF Inv, UnitsOK
<1>5. /\ moved \subseteq Unretired
      /\ \A i \in moved : MayIssue(i) \/ MayFinish(i)
  BY DEF AdvanceWith, Moves
<1>6. out \in Outcome /\ \A i \in Branching(moved) : out \in Results(rob[i].pc)
  BY OutType
<1>7. ASSUME NEW k \in 1 .. left PROVE UnitOK(k, rob'[k], csr')
  <2> DEFINE i == popped + k
             e == rob[i]
  <2>1. i \in Unretired /\ e \in Entry
    BY <1>1 DEF Unretired
  <2>2. UnitOK(i, e, csr)
    BY <1>4, <2>1
  <2>3. i = 1 => k = 1 /\ csr' = csr
    BY <1>1, <1>3
  <2>4. CASE i \notin moved
    <3>1. rob'[k] = e
      BY <1>2, <2>4
    <3> HIDE DEF i, e
    <3> QED
      BY <2>2, <2>3, <3>1 DEF UnitOK, Alone
  <2>5. CASE i \in moved /\ e.st = "wait"
    <3>1. rob'[k] = Moved(e, out)
      BY <1>2, <2>5
    <3>2. /\ rob'[k].pc = e.pc /\ rob'[k].st = "issued" /\ rob'[k].write = e.write
      <4> HIDE DEF e
      <4>1. /\ Moved(e, out).pc = e.pc
            /\ e.st = "wait" => /\ Moved(e, out).st = "issued"
                                /\ Moved(e, out).write = e.write
        BY <1>1, <1>6, <2>1, MovedType
      <4>2. e.st = "wait"
        BY <2>5
      <4> QED
        BY <3>1, <4>1, <4>2, Zenon
    <3>3. Alone(e.pc) => k = 1
      <4>1. MayIssue(i)
        BY <1>5, <2>5 DEF MayFinish
      <4>2. Alone(e.pc) => i = popped + 1
        BY <4>1 DEF MayIssue
      <4> QED
        BY <1>1, <4>2
    <3> HIDE DEF i, e
    <3> QED
      BY <2>2, <3>2, <3>3 DEF UnitOK
  <2>6. CASE i \in moved /\ e.st # "wait"
    <3>1. rob'[k] = Moved(e, out)
      BY <1>2, <2>6
    <3>2. /\ rob'[k].pc = e.pc /\ rob'[k].st = "finish" /\ rob'[k].out = out
          /\ Op(e.pc) = "csr" =>
               rob'[k].write = [r \in {Program[e.pc].csr} |-> csr_newvalue(e.pc, csr)]
          /\ Op(e.pc) # "csr" => rob'[k].write = e.write
      <4> HIDE DEF e
      <4>1. /\ Moved(e, out).pc = e.pc
            /\ Moved(e, out).st = "finish" /\ Moved(e, out).out = out
            /\ Moved(e, out).write = IF Op(e.pc) = "csr"
                 THEN [r \in {Program[e.pc].csr} |-> csr_newvalue(e.pc, csr)]
                 ELSE e.write
        BY <1>1, <1>6, <2>1, <2>6, MovedType, Zenon
      <4> QED
        BY <3>1, <4>1, Zenon
    <3>3. Alone(e.pc) => k = 1 /\ csr' = csr
      BY <2>2, <2>3, <2>6 DEF UnitOK
    <3>4. IsBranch(e.pc) => out \in Results(e.pc)
      <4>1. e.st = "issued"
        BY <1>5, <2>6 DEF MayIssue, MayFinish
      <4>2. IsBranch(e.pc) => i \in Branching(moved)
        BY <2>6, <4>1 DEF Branching
      <4> QED
        BY <1>6, <4>2
    <3> HIDE DEF i, e
    <3>5. Op(e.pc) = "branch" => out \in Outcomes(e.pc)
      BY <3>4 DEF IsBranch, Results
    <3>6. Op(e.pc) = "mret" => out = Jump(csr.mepc)
      BY <3>4 DEF IsBranch, Results
    <3> QED
      BY <2>2, <3>2, <3>3, <3>5, <3>6 DEF UnitOK, Alone
  <2> QED
    BY <2>4, <2>5, <2>6
<1>8. ASSUME NEW k \in 1 .. renamed PROVE UnitOK(left + k, rob'[left + k], csr')
  <2> DEFINE e == rob'[left + k]
  <2>1. e = [pc |-> decode_rename_fifo[k].pc, guess |-> decode_rename_fifo[k].guess,
             st |-> "wait", out |-> Pass(0), write |-> << >>]
    BY <1>2
  <2> HIDE DEF e
  <2>2. e.st = "wait" /\ e.write = << >>
    BY <2>1
  <2>3. UnitOK(left + k, e, csr')
    BY <2>2 DEF UnitOK
  <2> QED
    BY <2>3 DEF e
<1>9. ASSUME NEW i \in Unretired' PROVE UnitOK(i, rob'[i], csr')
  <2>1. i \in 1 .. left + renamed
    BY <1>1, <1>2, <1>3 DEF Unretired
  <2>2. CASE i <= left
    BY <1>1, <1>7, <2>1, <2>2
  <2>3. CASE i > left
    <3>1. i - left \in 1 .. renamed /\ i = left + (i - left)
      BY <1>1, <1>2, <2>1, <2>3
    <3> QED
      BY <1>8, <3>1
  <2> QED
    BY <1>1, <2>1, <2>2, <2>3
<1> QED
  BY <1>9 DEF UnitsOK

\* A path is known by its packets, counted from the first.
LEMMA PathNext ==
  ASSUME popped' = 0, feedback' = NoFeedback, NEW m \in Nat, Len(InFlight') = m,
         \A k \in 1 .. m : GuessOK(InFlight'[k]),
         \A k \in 1 .. m - 1 :
           InFlight'[k + 1].pc = Follower(InFlight'[k]) /\ ~Waits(InFlight'[k]),
         m > 0 => /\ InFlight'[1].pc = arch'
                  /\ pc' = Follower(InFlight'[m]) /\ (jump_wait' <=> Waits(InFlight'[m])),
         m = 0 => ~jump_wait' /\ arch' = pc'
  PROVE  PathOK'
<1>1. ~feedback'.flush /\ ~feedback'.jump_enable
  BY NoFeedbackType
<1> DEFINE F == InFlight'
<1>2. /\ Len(F) = m
      /\ \A k \in 1 .. m : GuessOK(F[k])
      /\ \A k \in 1 .. m - 1 : F[k + 1].pc = Follower(F[k]) /\ ~Waits(F[k])
      /\ m > 0 => /\ F[1].pc = arch'
                  /\ pc' = Follower(F[m]) /\ (jump_wait' <=> Waits(F[m]))
  OBVIOUS
<1> HIDE DEF F
<1>3. /\ \A i \in popped' + 1 .. Len(F) : GuessOK(F[i])
      /\ \A i \in popped' + 1 .. Len(F) - 1 : F[i + 1].pc = Follower(F[i]) /\ ~Waits(F[i])
      /\ popped' < Len(F) =>
           /\ F[popped' + 1].pc = arch'
           /\ pc' = Follower(F[Len(F)]) /\ (jump_wait' <=> Waits(F[Len(F)]))
           /\ ~feedback'.jump_enable
      /\ popped' = Len(F) => ~jump_wait' /\ arch' = pc'
  BY <1>1, <1>2
<1> QED
  BY <1>1, <1>3, Zenon DEF PathOK, F, GuessOK, Follower, Waits

\* What is fetched goes on where the path in the core ends (fetch.cpp).
LEMMA AdvancePath ==
  ASSUME Inv, NEW moved, NEW renamed, NEW out, NEW guess,
         AdvanceWith(moved, renamed, out, guess)
  PROVE  PathOK'
<1>0. PICK c \in Nat : c = Cardinality(Fetched)
  BY FetchedRun DEF Inv
<1> DEFINE m == Len(InFlight)
           n == Len(InFlight) - popped
<1>1. /\ m \in Nat /\ popped \in Nat /\ n \in Nat /\ m = popped + n
      /\ cur_state = "normal" /\ ~feedback.flush /\ DataOK
      /\ popped' = 0 /\ feedback' = NoFeedback /\ arch' = arch
  <2>1. Len(rob) \in Nat /\ popped \in 0 .. Len(rob) /\ DataOK
        /\ Len(decode_rename_fifo) \in Nat /\ Len(fetch_decode_fifo) \in Nat
    BY DEF Inv, DataOK
  <2>2. Len(InFlight) = Len(rob) + Len(decode_rename_fifo) + Len(fetch_decode_fifo)
    BY <2>1, InFlightParts
  <2> QED
    BY <2>1, <2>2, AdvanceNormal
<1>2. ~feedback'.flush /\ ~feedback'.jump_enable
  BY <1>1, NoFeedbackType
\* What was in flight, counted from the first that has not retired.
<1>3. /\ \A k \in 1 .. n : GuessOK(InFlight[popped + k])
      /\ \A k \in 1 .. n - 1 : /\ InFlight[popped + k + 1].pc = Follower(InFlight[popped + k])
                               /\ ~Waits(InFlight[popped + k])
      /\ n > 0 => /\ InFlight[popped + 1].pc = arch
                  /\ pc = Follower(InFlight[popped + n])
                  /\ jump_wait <=> Waits(InFlight[popped + n])
                  /\ ~feedback.jump_enable
      /\ n = 0 =>
           IF feedback.jump_enable
             THEN jump_wait /\ arch = IF feedback.jump THEN feedback.next_pc ELSE pc
             ELSE ~jump_wait /\ arch = pc
  <2> DEFINE P(i) == GuessOK(InFlight[i])
             Q(i) == InFlight[i + 1].pc = Follower(InFlight[i]) /\ ~Waits(InFlight[i])
  <2>1. /\ \A i \in popped + 1 .. m : P(i)
        /\ \A i \in popped + 1 .. m - 1 : Q(i)
        /\ popped < m =>
             /\ InFlight[popped + 1].pc = arch
             /\ pc = Follower(InFlight[m]) /\ (jump_wait <=> Waits(InFlight[m]))
             /\ ~feedback.jump_enable
        /\ popped = m =>
             IF feedback.jump_enable
               THEN jump_wait /\ arch = IF feedback.jump THEN feedback.next_pc ELSE pc
               ELSE ~jump_wait /\ arch = pc
    BY <1>1 DEF Inv, PathOK
  <2> HIDE DEF m, n, P, Q
  <2>2. /\ \A k \in 1 .. n : P(popped + k)
        /\ \A k \in 1 .. n - 1 : Q(popped + k)
    BY <1>1, <2>1
  <2>3. (n > 0 <=> popped < m) /\ (n = 0 <=> popped = m) /\ popped + n = m
    BY <1>1
  <2> QED
    BY <2>1, <2>2, <2>3 DEF P, Q
\* What is in flight now has the same program counters and guesses.
<1>4. \A e, f : f.pc = e.pc /\ f.guess = e.guess =>
        /\ GuessOK(f) <=> GuessOK(e)
        /\ Follower(f) = Follower(e)
        /\ Waits(f) <=> Waits(e)
  BY DEF GuessOK, Follower, Waits
<1> HIDE DEF m, n
<1>5. CASE jump_wait
  <2> DEFINE F == InFlight'
  <2>1. /\ Len(F) = n
        /\ \A k \in 1 .. n : /\ F[k].pc = InFlight[popped + k].pc
                             /\ F[k].guess = InFlight[popped + k].guess
    <3> DEFINE G == << >>
    <3>1. G \in Seq(Packet) /\ G = (IF jump_wait THEN << >> ELSE Group(guess)) /\ Len(G) = 0
      BY <1>5
    <3> HIDE DEF G
    <3>2. /\ Len(F) = n + Len(G)
          /\ \A k \in 1 .. n : F[k].pc = InFlight[popped + k].pc /\ F[k].guess = InFlight[popped + k].guess
      BY <3>1, InFlightMovesOn, Zenon DEF n
    <3> HIDE DEF F
    <3> QED
      BY <1>1, <3>1, <3>2
  <2>2. IF feedback.jump_enable
          THEN ~jump_wait' /\ pc' = IF feedback.jump THEN feedback.next_pc ELSE pc
          ELSE pc' = pc /\ jump_wait'
    BY <1>5, Zenon DEF AdvanceWith, Fetch
  <2> HIDE DEF F
  <2>3. \A k \in 1 .. n : GuessOK(F[k])
    BY <1>3, <1>4, <2>1
  <2>4. ASSUME NEW k \in 1 .. n - 1
        PROVE  F[k + 1].pc = Follower(F[k]) /\ ~Waits(F[k])
    <3>1. k \in 1 .. n /\ k + 1 \in 1 .. n /\ popped + (k + 1) = popped + k + 1
      BY <1>1
    <3>2. /\ F[k + 1].pc = InFlight[popped + k + 1].pc
          /\ Follower(F[k]) = Follower(InFlight[popped + k])
          /\ Waits(F[k]) <=> Waits(InFlight[popped + k])
      BY <1>4, <2>1, <3>1
    <3> QED
      BY <1>3, <3>2, Zenon
  <2>5. ASSUME n > 0
        PROVE  F[1].pc = arch' /\ pc' = Follower(F[n]) /\ (jump_wait' <=> Waits(F[n]))
    <3>1. 1 \in 1 .. n /\ n \in 1 .. n
      BY <1>1, <2>5
    <3>2. /\ F[1].pc = InFlight[popped + 1].pc
          /\ Follower(F[n]) = Follower(InFlight[popped + n])
          /\ Waits(F[n]) <=> Waits(InFlight[popped + n])
      BY <1>4, <2>1, <3>1
    <3>3. pc' = pc /\ jump_wait'
      BY <1>3, <2>2, <2>5, Zenon
    <3> QED
      BY <1>1, <1>3, <1>5, <2>5, <3>2, <3>3, Zenon
  <2>6. ASSUME n = 0 PROVE ~jump_wait' /\ arch' = pc'
    <3>1. feedback.jump_enable
      BY <1>3, <1>5, <2>6, Zenon
    <3>2. arch = IF feedback.jump THEN feedback.next_pc ELSE pc
      BY <1>3, <2>6, <3>1, Zenon
    <3>3. ~jump_wait' /\ pc' = IF feedback.jump THEN feedback.next_pc ELSE pc
      BY <2>2, <3>1, Zenon
    <3> QED
      BY <1>1, <3>2, <3>3, Zenon
  <2> QED
    BY <1>1, <2>1, <2>3, <2>4, <2>5, <2>6, PathNext DEF F
<1>6. CASE ~jump_wait
  <2> DEFINE G == Group(guess)
             F == InFlight'
  <2>1. /\ guess \in Guess /\ jump_wait' \in BOOLEAN
        /\ c = 0 => pc' = pc /\ ~jump_wait'
        /\ c > 0 => /\ G[1].pc = pc
                    /\ pc' = Follower(G[c])
                    /\ jump_wait' <=> Waits(G[c])
        /\ \A i \in 1 .. c : GuessOK(G[i])
        /\ \A i \in 1 .. c - 1 : G[i + 1].pc = Follower(G[i]) /\ ~Waits(G[i])
    BY <1>0, <1>6, FetchGroup
  <2>2. G \in Seq(Packet) /\ Len(G) = c
    BY <1>0, <1>1, <2>1, GroupShape
  <2>3. /\ Len(F) = n + c
        /\ \A k \in 1 .. n : F[k].pc = InFlight[popped + k].pc /\ F[k].guess = InFlight[popped + k].guess
        /\ \A k \in 1 .. c : F[n + k] = G[k]
    <3>1. G = (IF jump_wait THEN << >> ELSE Group(guess))
      BY <1>6
    <3> HIDE DEF G
    <3>2. /\ Len(F) = n + Len(G)
          /\ \A k \in 1 .. n : F[k].pc = InFlight[popped + k].pc /\ F[k].guess = InFlight[popped + k].guess
          /\ \A k \in 1 .. Len(G) : F[n + k] = G[k]
      BY <2>2, <3>1, InFlightMovesOn, Zenon DEF n
    <3> QED
      BY <2>2, <3>2, Zenon
  <2> HIDE DEF G, F, n
  <2>4. ASSUME NEW k \in 1 .. n + c PROVE GuessOK(F[k])
    <3>1. CASE k <= n
      <4>1. k \in 1 .. n
        BY <1>1, <3>1
      <4>2. F[k].pc = InFlight[popped + k].pc /\ F[k].guess = InFlight[popped + k].guess
        BY <2>3, <4>1, Zenon
      <4> QED
        BY <1>3, <1>4, <4>1, <4>2, Zenon
    <3>2. CASE k > n
      <4>1. k - n \in 1 .. c /\ k = n + (k - n)
        BY <1>1, <3>2
      <4> QED
        BY <2>1, <2>3, <4>1
    <3> QED
      BY <1>1, <3>1, <3>2
  <2>5. ASSUME NEW k \in 1 .. n + c - 1 PROVE F[k + 1].pc = Follower(F[k]) /\ ~Waits(F[k])
    <3>1. CASE k < n
      <4>1. k \in 1 .. n - 1 /\ k \in 1 .. n /\ k + 1 \in 1 .. n
            /\ popped + (k + 1) = popped + k + 1
        BY <1>1, <3>1
      <4>2. /\ F[k + 1].pc = InFlight[popped + k + 1].pc
            /\ Follower(F[k]) = Follower(InFlight[popped + k])
            /\ Waits(F[k]) <=> Waits(InFlight[popped + k])
        BY <1>4, <2>3, <4>1
      <4> QED
        BY <1>3, <4>1, <4>2, Zenon
    <3>2. CASE k = n
      <4>1. n > 0 /\ c > 0 /\ n \in 1 .. n /\ 1 \in 1 .. c
        BY <1>1, <3>2
      <4>2. F[n].pc = InFlight[popped + n].pc /\ F[n].guess = InFlight[popped + n].guess
            /\ F[n + 1] = G[1]
        BY <2>3, <4>1
      <4> QED
        BY <1>3, <1>4, <1>6, <2>1, <3>2, <4>1, <4>2
    <3>3. CASE k > n
      <4>1. /\ k - n \in 1 .. c - 1 /\ k - n \in 1 .. c /\ (k - n) + 1 \in 1 .. c
            /\ k = n + (k - n) /\ k + 1 = n + ((k - n) + 1)
        BY <1>1, <3>3
      <4>2. F[k] = G[k - n] /\ F[k + 1] = G[(k - n) + 1]
        BY <2>3, <4>1
      <4> QED
        BY <2>1, <4>1, <4>2, Zenon
    <3> QED
      BY <1>1, <3>1, <3>2, <3>3
  <2>6. ASSUME n + c > 0
        PROVE  F[1].pc = arch' /\ pc' = Follower(F[n + c]) /\ (jump_wait' <=> Waits(F[n + c]))
    <3>1. F[1].pc = arch
      <4>1. CASE n > 0
        <5>1. 1 \in 1 .. n
          BY <1>1, <4>1
        <5> QED
          BY <1>3, <2>3, <4>1, <5>1
      <4>2. CASE n = 0
        <5>1. c > 0 /\ 1 \in 1 .. c /\ n + 1 = 1
          BY <2>6, <4>2
        <5>2. F[1] = G[1]
          BY <2>3, <5>1
        <5> QED
          BY <1>3, <1>6, <2>1, <4>2, <5>1, <5>2
      <4> QED
        BY <1>1, <4>1, <4>2
    <3>2. pc' = Follower(F[n + c]) /\ (jump_wait' <=> Waits(F[n + c]))
      <4>1. CASE c > 0
        <5>1. c \in 1 .. c
          BY <4>1
        <5>2. F[n + c] = G[c]
          BY <2>3, <5>1
        <5> QED
          BY <2>1, <4>1, <5>2
      <4>2. CASE c = 0
        <5>1. n > 0 /\ n \in 1 .. n /\ n + c = n
          BY <1>1, <2>6, <4>2
        <5>2. F[n].pc = InFlight[popped + n].pc /\ F[n].guess = InFlight[popped + n].guess
          BY <2>3, <5>1
        <5> QED
          BY <1>3, <1>4, <1>6, <2>1, <4>2, <5>1, <5>2
      <4> QED
        BY <4>1, <4>2
    <3> QED
      BY <1>1, <3>1, <3>2
  <2>7. ASSUME n + c = 0 PROVE ~jump_wait' /\ arch' = pc'
    <3>1. n = 0 /\ c = 0
      BY <1>1, <2>7
    <3> QED
      BY <1>1, <1>3, <1>6, <2>1, <3>1, Zenon
  <2>8. n + c \in Nat
    BY <1>1
  <2> QED
    BY <1>1, <2>3, <2>4, <2>5, <2>6, <2>7, <2>8, PathNext DEF F
<1> QED
  BY <1>5, <1>6

-----------------------------------------------------------------------------
(* The invariant.                                                          *)

\* The core starts with an empty path, at the first instruction.
LEMMA InvInit ==
  ASSUME Init
  PROVE  Inv
<1>1. RetiredNow = 0
  <2>1. {i \in 1 .. popped : IsStore(i)} = {}
    BY DEF Init
  <2> QED
    BY <2>1, FS_EmptySet DEF RetiredNow
<1>2. DataOK
  <2>1. 0 \in Pc /\ Boot \in Csr
    BY PcRange, IsaAssumption
  <2>2. ROB_SIZE \in Nat /\ FIFO_SIZE \in Nat
    BY CoreAssumption
  <2>3. {pc, arch, last} \subseteq Pc /\ jump_wait \in BOOLEAN /\ undrained \in Nat
    BY <2>1 DEF Init
  <2>4. /\ fetch_decode_fifo \in Seq(Packet) /\ Len(fetch_decode_fifo) <= FIFO_SIZE
        /\ decode_rename_fifo \in Seq(Packet) /\ Len(decode_rename_fifo) <= FIFO_SIZE
        /\ rob \in Seq(Entry) /\ Len(rob) <= ROB_SIZE /\ popped \in 0 .. Len(rob)
    BY <2>2 DEF Init
  <2>5. /\ csr \in Csr /\ csr_next \in Csr /\ pending \subseteq Causes
        /\ cur_state \in {"normal", "flush", "interrupt_flush"} /\ restore \in Nat
        /\ phase \in {"commit", "stages"}
    BY <2>1 DEF Init
  <2>6. interrupt \in [id : Causes \cup {0}, pc : Pc]
    BY <2>1 DEF Init
  <2>7. feedback \in Feedback
    BY NoFeedbackType, Zenon DEF Init
  <2>8. RetiredNow <= undrained
    BY <1>1 DEF Init
  <2> QED
    BY <2>3, <2>4, <2>5, <2>6, <2>7, <2>8, Zenon DEF DataOK
<1>3. ControlOK /\ WalkOK /\ UnitsOK
  BY NoFeedbackType DEF Init, ControlOK, WalkOK, UnitsOK, Unretired
<1>4. PathOK
  <2>1. Len(InFlight) = 0 /\ popped = 0
    BY <1>2, InFlightParts DEF Init
  <2>2. /\ 1 .. 0 = {} /\ popped + 1 .. Len(InFlight) = {}
        /\ popped + 1 .. Len(InFlight) - 1 = {} /\ ~(popped < Len(InFlight))
    BY <2>1
  <2>3. ~feedback.jump_enable /\ ~jump_wait /\ arch = pc
    BY NoFeedbackType, Zenon DEF Init
  <2> QED
    BY <2>2, <2>3, Zenon DEF PathOK
<1> QED
  BY <1>2, <1>3, <1>4 DEF Inv

\* Every step of the core keeps the invariant.
LEMMA InvNext ==
  ASSUME Inv, [Next]_vars
  PROVE  Inv'
<1>1. CASE TakeInterrupt
  BY <1>1, TakeInterruptStep
<1>2. CASE TakeException
  BY <1>2, TakeExceptionStep
<1>3. CASE RetireOne
  BY <1>3, RetireOneStep
<1>4. CASE RetireBranch
  BY <1>4, RetireMissStep, RetireGoodStep, Zenon
<1>5. CASE LoopEnds
  BY <1>5, LoopEndsStep
<1>6. CASE WalkBack
  BY <1>6, WalkBackStep
<1>7. CASE EnterHandler
  BY <1>7, EnterHandlerStep
<1>8. CASE Flushed
  BY <1>8, FlushedStep
<1>9. ASSUME NEW moved \in Moves, NEW renamed \in 0 .. Renamable, Advance(moved, renamed)
      PROVE  Inv'
  <2>1. PICK out, guess : AdvanceWith(moved, renamed, out, guess)
    BY <1>9, AdvancePick
  <2>2. DataOK' /\ ControlOK' /\ WalkOK'
    BY <2>1, AdvanceData
  <2>3. UnitsOK' /\ PathOK'
    BY <2>1, AdvanceUnits, AdvancePath
  <2> QED
    BY <2>2, <2>3 DEF Inv
<1>10. CASE UNCHANGED vars
  BY <1>10 DEF vars, fetcher, walk, Inv, DataOK, ControlOK, WalkOK, UnitsOK, PathOK, RetiredNow,
     IsStore, Unretired, InFlight, rob_item
<1> QED
  BY <1>1, <1>2, <1>3, <1>4, <1>5, <1>6, <1>7, <1>8, <1>9, <1>10, Zenon
     DEF Next, Commit, Stages

\* The reorder buffer, the FIFOs, the registers and the feedback stay
\* consistent, whatever the program and the sizes: what fetch, rename, the
\* units and commit hold between them is one path through the program.
THEOREM Consistent == Spec => []Inv
<1>1. Init => Inv
  BY InvInit
<1>2. Inv /\ [Next]_vars => Inv'
  BY InvNext
<1> QED
  BY <1>1, <1>2, PTL DEF Spec

-----------------------------------------------------------------------------
(* A fence.i is alone.                                                     *)

\* Of what is in flight none is a fence.i behind another instruction.
LEMMA NoFenceBehind ==
  ASSUME DataOK, FenceIAlone, NEW i \in 1 .. Len(InFlight), i > popped + 1
  PROVE  Op(InFlight[i].pc) # "fence_i"
<1>1. DOMAIN InFlight = 1 .. Len(InFlight) /\ Len(InFlight) \in Nat /\ popped \in Nat
  <2>1. /\ Len(rob) \in Nat /\ popped \in 0 .. Len(rob)
        /\ Len(decode_rename_fifo) \in Nat /\ Len(fetch_decode_fifo) \in Nat
    BY DEF DataOK
  <2> QED
    BY <2>1, InFlightParts
<1> QED
  BY <1>1 DEF FenceIAlone

\* Commit takes away what is in front, and drops what is behind, but adds nothing.
LEMMA FenceCommit ==
  ASSUME Inv, FenceIAlone, Commit
  PROVE  FenceIAlone'
<1>1. DataOK
  BY DEF Inv
<1>2. /\ Len(rob) \in Nat /\ popped \in Nat /\ popped <= Len(rob) /\ Len(InFlight) \in Nat
      /\ rob \in Seq(Entry)
      /\ decode_rename_fifo \in Seq(Packet) /\ fetch_decode_fifo \in Seq(Packet)
      /\ Len(decode_rename_fifo) \in Nat /\ Len(fetch_decode_fifo) \in Nat
      /\ Len(InFlight) = Len(rob) + Len(decode_rename_fifo) + Len(fetch_decode_fifo)
      /\ DOMAIN InFlight = 1 .. Len(InFlight)
  <2>1. /\ Len(rob) \in Nat /\ popped \in 0 .. Len(rob) /\ rob \in Seq(Entry)
        /\ decode_rename_fifo \in Seq(Packet) /\ fetch_decode_fifo \in Seq(Packet)
        /\ Len(decode_rename_fifo) \in Nat /\ Len(fetch_decode_fifo) \in Nat
    BY <1>1 DEF DataOK
  <2> QED
    BY <1>1, <2>1, InFlightParts
<1>3. CASE InFlight' = InFlight /\ popped' = popped /\ undrained' = undrained
  BY <1>3 DEF FenceIAlone
<1>4. CASE InFlight' = InFlight /\ popped' = popped + 1
  <2>1. ASSUME NEW i \in DOMAIN InFlight, Op(InFlight[i].pc) = "fence_i"
        PROVE  i <= popped + 1
    BY <2>1 DEF FenceIAlone
  <2>2. ASSUME NEW i \in DOMAIN InFlight', Op(InFlight'[i].pc) = "fence_i"
        PROVE  i <= popped' + 1 /\ (i = popped' + 1 => undrained' = 0)
    <3>1. i \in DOMAIN InFlight /\ Op(InFlight[i].pc) = "fence_i" /\ i \in 1 .. Len(InFlight)
      BY <1>2, <1>4, <2>2
    <3>2. i <= popped + 1
      BY <2>1, <3>1
    <3> QED
      BY <1>2, <1>4, <3>1, <3>2
  <2> QED
    BY <2>2 DEF FenceIAlone
<1>5. CASE /\ rob' = << >> /\ popped + 1 <= Len(rob)
           /\ decode_rename_fifo' = decode_rename_fifo /\ fetch_decode_fifo' = fetch_decode_fifo
  <2> DEFINE d == Len(decode_rename_fifo)
             f == Len(fetch_decode_fifo)
             F == << >> \o decode_rename_fifo \o fetch_decode_fifo
  <2>1. InFlight' = F
    BY <1>5 DEF InFlight
  <2>2. /\ Len(F) = d + f
        /\ \A i \in 1 .. d : F[i] = decode_rename_fifo[i]
        /\ \A i \in 1 .. f : F[d + i] = fetch_decode_fifo[i]
        /\ DOMAIN F = 1 .. Len(F)
    <3>1. << >> \in Seq(Entry) /\ Len(<< >>) = 0
      OBVIOUS
    <3> DEFINE a == << >>
               b == decode_rename_fifo
               g == fetch_decode_fifo
    <3>2. a \in Seq(Entry) /\ b \in Seq(Packet) /\ g \in Seq(Packet) /\ Len(a) = 0
      BY <1>2
    <3>3. DOMAIN (a \o b \o g) = 1 .. Len(a \o b \o g)
      <4>1. a \o b \o g \in Seq(Entry \cup Packet)
        BY <3>2
      <4> QED
        BY <4>1
    <3> HIDE DEF a, b, g
    <3>4. /\ Len(a \o b \o g) = Len(a) + Len(b) + Len(g)
          /\ \A i \in 1 .. Len(b) : (a \o b \o g)[Len(a) + i] = b[i]
          /\ \A i \in 1 .. Len(g) : (a \o b \o g)[Len(a) + Len(b) + i] = g[i]
      BY <3>2, Three
    <3>5. Len(b) \in Nat /\ Len(g) \in Nat
      BY <3>2
    <3>6. /\ Len(a \o b \o g) = Len(b) + Len(g)
          /\ \A i \in 1 .. Len(b) : (a \o b \o g)[i] = b[i]
          /\ \A i \in 1 .. Len(g) : (a \o b \o g)[Len(b) + i] = g[i]
      BY <3>2, <3>4, <3>5
    <3> QED
      BY <3>3, <3>6, Zenon DEF a, b, g
  <2> HIDE DEF F
  <2>3. ASSUME NEW i \in 1 .. Len(F) PROVE Op(F[i].pc) # "fence_i"
    <3>1. Len(rob) + i \in 1 .. Len(InFlight) /\ Len(rob) + i > popped + 1
      BY <1>2, <1>5, <2>2
    <3>2. Op(InFlight[Len(rob) + i].pc) # "fence_i"
      BY <1>1, <3>1, NoFenceBehind
    <3>3. F[i] = InFlight[Len(rob) + i]
      <4>1. CASE i <= d
        BY <1>1, <1>2, <2>2, <4>1, InFlightParts
      <4>2. CASE i > d
        <5>1. i - d \in 1 .. f /\ i = d + (i - d) /\ Len(rob) + i = Len(rob) + d + (i - d)
          BY <1>2, <2>2, <4>2
        <5> QED
          BY <1>1, <2>2, <5>1, InFlightParts
      <4> QED
        BY <1>2, <4>1, <4>2
    <3> QED
      BY <3>2, <3>3, Zenon
  <2> QED
    BY <2>1, <2>2, <2>3, Zenon DEF FenceIAlone
<1>6. CASE TakeInterrupt \/ TakeException \/ LoopEnds \/ WalkBack
  BY <1>3, <1>6 DEF TakeInterrupt, TakeException, LoopEnds, WalkBack, StartWalkBack, fetcher,
     InFlight
<1>7. CASE RetireOne
  BY <1>4, <1>7 DEF RetireOne, Retire, fetcher, InFlight
<1>8. CASE RetireBranch
  <2>1. popped + 1 <= Len(rob)
    BY <1>2, <1>8 DEF RetireBranch, Retiring, Looking
  <2>2. /\ decode_rename_fifo' = decode_rename_fifo /\ fetch_decode_fifo' = fetch_decode_fifo
        /\ rob' = << >> \/ (rob' = rob /\ popped' = popped + 1)
    BY <1>8, Zenon DEF RetireBranch, Retire, fetcher
  <2> QED
    BY <1>4, <1>5, <2>1, <2>2 DEF InFlight
<1>9. CASE EnterHandler
  <2>1. popped + 1 <= Len(rob)
    <3>1. cur_state # "normal" /\ WalkOK
      BY <1>9 DEF EnterHandler, Inv
    <3> QED
      BY <1>2, <3>1 DEF WalkOK
  <2> QED
    BY <1>5, <1>9, <2>1 DEF EnterHandler, fetcher
<1> QED
  BY <1>6, <1>7, <1>8, <1>9 DEF Commit

\* A flush drops what follows the reorder buffer.
LEMMA FenceFlushed ==
  ASSUME Inv, FenceIAlone, Flushed
  PROVE  FenceIAlone'
<1>1. /\ DataOK /\ DataOK'
      /\ popped' = 0 /\ undrained' = undrained
      /\ rob' = SubSeq(rob, popped + 1, Len(rob))
      /\ decode_rename_fifo' = << >> /\ fetch_decode_fifo' = << >>
  BY FlushedStep DEF Inv, Flushed, Sync
<1>2. rob \in Seq(Entry) /\ Len(rob) \in Nat /\ popped \in 0 .. Len(rob)
  BY <1>1 DEF DataOK
<1> DEFINE left == Len(rob) - popped
<1>3. left \in Nat /\ Len(rob') = left /\ \A i \in 1 .. left : rob'[i] = rob[popped + i]
  <2>1. popped + 1 \in 1 .. Len(rob) + 1 /\ Len(rob) \in (popped + 1) - 1 .. Len(rob)
    BY <1>2
  <2> QED
    BY <1>1, <1>2, <2>1, Part
<1>4. /\ Len(InFlight') = Len(rob') + Len(decode_rename_fifo') + Len(fetch_decode_fifo')
      /\ \A i \in 1 .. Len(rob') : InFlight'[i] = rob'[i]
      /\ DOMAIN InFlight' = 1 .. Len(InFlight')
  BY <1>1, InFlightNext
<1>5. /\ \A i \in 1 .. Len(rob) : InFlight[i] = rob[i]
      /\ DOMAIN InFlight = 1 .. Len(InFlight) /\ Len(rob) <= Len(InFlight)
      /\ Len(InFlight) \in Nat
  <2>1. Len(decode_rename_fifo) \in Nat /\ Len(fetch_decode_fifo) \in Nat
    BY <1>1 DEF DataOK
  <2> QED
    BY <1>1, <1>2, <2>1, InFlightParts
<1>6. DOMAIN InFlight' = 1 .. left
  <2>1. Len(decode_rename_fifo') = 0 /\ Len(fetch_decode_fifo') = 0
    BY <1>1
  <2>2. Len(InFlight') = left
    BY <1>3, <1>4, <2>1
  <2> QED
    BY <1>4, <2>2
<1>7. ASSUME NEW i \in 1 .. left, Op(InFlight'[i].pc) = "fence_i"
      PROVE  i <= 1 /\ undrained = 0
  <2>1. popped + i \in 1 .. Len(rob) /\ popped + i \in 1 .. Len(InFlight)
    BY <1>2, <1>5
  <2>2. InFlight'[i] = InFlight[popped + i]
    BY <1>3, <1>4, <1>5, <2>1
  <2>3. /\ popped + i <= popped + 1
        /\ popped + i = popped + 1 => undrained = 0
    BY <1>5, <1>7, <2>1, <2>2 DEF FenceIAlone
  <2> QED
    BY <1>2, <2>3
<1> QED
  BY <1>1, <1>6, <1>7 DEF FenceIAlone

\* Fetch adds a fence.i to an empty core only (fetch.cpp:249).
LEMMA FenceAdvance ==
  ASSUME Inv, FenceIAlone, NEW moved, NEW renamed, NEW out, NEW guess,
         AdvanceWith(moved, renamed, out, guess)
  PROVE  FenceIAlone'
<1>0. PICK c \in Nat : c = Cardinality(Fetched)
  BY FetchedRun DEF Inv
<1> DEFINE n == Len(InFlight) - popped
           G == IF jump_wait THEN << >> ELSE Group(guess)
           F == InFlight'
<1>1. /\ DataOK /\ DataOK' /\ popped' = 0
      /\ popped \in Nat /\ Len(InFlight) \in Nat /\ DOMAIN InFlight = 1 .. Len(InFlight)
      /\ Len(InFlight) = Len(rob) + Len(decode_rename_fifo) + Len(fetch_decode_fifo)
      /\ popped <= Len(rob) /\ n \in Nat
  <2>1. DataOK /\ DataOK' /\ popped' = 0
    BY AdvanceData, AdvanceNormal DEF Inv
  <2>2. /\ popped \in 0 .. Len(rob) /\ Len(rob) \in Nat
        /\ Len(decode_rename_fifo) \in Nat /\ Len(fetch_decode_fifo) \in Nat
    BY <2>1 DEF DataOK
  <2> QED
    BY <2>1, <2>2, InFlightParts
<1>2. undrained = 0 => undrained' = 0
  <2>1. undrained' = Drained
    BY Zenon DEF AdvanceWith
  <2>2. undrained \in Nat /\ RetiredNow <= undrained /\ RetiredNow \in Nat
    <3>1. IsFiniteSet(1 .. popped) /\ {i \in 1 .. popped : IsStore(i)} \subseteq 1 .. popped
      BY <1>1, FS_Interval
    <3>2. RetiredNow \in Nat
      BY <3>1, FS_Subset, FS_CardinalityType DEF RetiredNow
    <3> QED
      BY <1>1, <3>2 DEF DataOK
  <2>3. undrained = 0 => undrained - RetiredNow = 0
    BY <2>2
  <2>4. Min({1, 0}) = 0
    BY MinOfTwo
  <2> QED
    BY <2>1, <2>2, <2>3, <2>4 DEF Drained
<1>3. /\ G \in Seq(Packet) /\ Len(G) \in Nat
      /\ jump_wait => Len(G) = 0
      /\ ~jump_wait => Len(G) = c /\ \A i \in 1 .. c : G[i].pc = At(i - 1)
  <2>1. CASE jump_wait
    <3>1. G = << >> /\ << >> \in Seq(Packet) /\ Len(<< >>) = 0
      BY <2>1
    <3> HIDE DEF G
    <3> QED
      BY <2>1, <3>1
  <2>2. CASE ~jump_wait
    <3>1. guess \in Guess
      BY <1>0, <2>2, FetchGroup
    <3>2. /\ Group(guess) \in Seq(Packet) /\ Len(Group(guess)) = c
          /\ \A i \in 1 .. c : Group(guess)[i].pc = At(i - 1)
      BY <1>0, <1>1, <3>1, GroupShape
    <3>3. G = Group(guess)
      BY <2>2
    <3> HIDE DEF G
    <3> QED
      BY <1>0, <2>2, <3>2, <3>3
  <2> QED
    BY <2>1, <2>2
<1>4. G = (IF jump_wait THEN << >> ELSE Group(guess))
  OBVIOUS
<1> HIDE DEF G
<1>5. /\ Len(F) = n + Len(G)
      /\ \A k \in 1 .. n : F[k].pc = InFlight[popped + k].pc
      /\ \A k \in 1 .. Len(G) : F[n + k] = G[k]
  BY <1>3, <1>4, InFlightMovesOn, Zenon
<1>6. DOMAIN F = 1 .. Len(F)
  BY <1>1, InFlightNext
<1>7. ASSUME NEW k \in 1 .. n, Op(InFlight[popped + k].pc) = "fence_i"
      PROVE  k <= 1 /\ undrained = 0
  <2>1. popped + k \in 1 .. Len(InFlight)
    BY <1>1
  <2>2. popped + k <= popped + 1 /\ (popped + k = popped + 1 => undrained = 0)
    BY <1>1, <1>7, <2>1 DEF FenceIAlone
  <2> QED
    BY <1>1, <2>2
<1>8. ASSUME NEW k \in 1 .. Len(G), Op(G[k].pc) = "fence_i"
      PROVE  k = 1 /\ n = 0 /\ undrained = 0
  <2>1. G[k].pc = At(k - 1) /\ k - 1 \in 0 .. c - 1
    BY <1>0, <1>3
  <2>2. ~Blocked(k - 1)
    BY <1>0, <1>1, <2>1, FetchedRun
  <2>3. k - 1 = 0 /\ Idle
    BY <1>8, <2>1, <2>2, Zenon DEF Blocked
  <2>4. Len(rob) = 0 /\ Len(decode_rename_fifo) = 0 /\ Len(fetch_decode_fifo) = 0 /\ undrained = 0
    BY <2>3 DEF Idle
  <2> QED
    BY <1>1, <2>3, <2>4
<1> HIDE DEF n, F
<1>9. ASSUME NEW k \in DOMAIN F, Op(F[k].pc) = "fence_i"
      PROVE  k <= 1 /\ undrained = 0
  <2>0. k \in 1 .. n + Len(G)
    BY <1>5, <1>6, Zenon
  <2>1. CASE k <= n
    <3>1. k \in 1 .. n
      BY <1>1, <1>3, <2>0, <2>1
    <3>2. Op(InFlight[popped + k].pc) = "fence_i"
      <4>1. F[k].pc = InFlight[popped + k].pc
        BY <1>5, <3>1, Zenon
      <4> QED
        BY <1>9, <4>1, Zenon
    <3> QED
      BY <1>7, <3>1, <3>2
  <2>2. CASE k > n
    <3>0. n \in Nat /\ Len(G) \in Nat
      BY <1>1, <1>3, Zenon
    <3>1. k - n \in 1 .. Len(G) /\ k = n + (k - n)
      BY <2>0, <2>2, <3>0
    <3>2. F[k] = G[k - n]
      BY <1>5, <3>1
    <3>3. k - n = 1 /\ n = 0 /\ undrained = 0
      BY <1>8, <1>9, <3>1, <3>2
    <3> QED
      BY <1>1, <1>6, <3>3
  <2> QED
    BY <1>1, <1>3, <1>5, <1>6, <2>1, <2>2
<1> QED
  BY <1>1, <1>2, <1>9 DEF FenceIAlone, F

\* When a fence.i is anywhere in the core, every instruction before it has
\* retired and every store before it has reached memory (fetch.cpp:249), for
\* every program and all sizes of the buffers.
THEOREM FenceAlone == Spec => []FenceIAlone
<1>1. Init => FenceIAlone
  <2>1. ASSUME Init PROVE FenceIAlone
    <3>1. DataOK
      BY <2>1, InvInit DEF Inv
    <3>2. DOMAIN InFlight = {}
      BY <2>1, <3>1, InFlightParts DEF Init
    <3> QED
      BY <3>2 DEF FenceIAlone
  <2> QED
    BY <2>1
<1>2. Inv /\ FenceIAlone /\ [Next]_vars => FenceIAlone'
  <2> SUFFICES ASSUME Inv, FenceIAlone, [Next]_vars PROVE FenceIAlone'
    OBVIOUS
  <2>1. CASE Commit
    BY <2>1, FenceCommit
  <2>2. CASE Flushed
    BY <2>2, FenceFlushed
  <2>3. ASSUME NEW moved \in Moves, NEW renamed \in 0 .. Renamable, Advance(moved, renamed)
        PROVE  FenceIAlone'
    <3>1. PICK out, guess : AdvanceWith(moved, renamed, out, guess)
      BY <2>3, AdvancePick
    <3> QED
      BY <3>1, FenceAdvance
  <2>4. CASE UNCHANGED vars
    BY <2>4 DEF vars, fetcher, FenceIAlone, InFlight
  <2> QED
    BY <2>1, <2>2, <2>3, <2>4, Zenon DEF Next, Stages
<1> QED
  BY <1>1, <1>2, Consistent, PTL DEF Spec

-----------------------------------------------------------------------------
(* Core implements Hart.                                                   *)

\* Hart and Core read the program in the same way.
LEMMA SameProgram ==
  /\ \A p : /\ H!Op(p) = Op(p) /\ H!Succ(p) = Succ(p) /\ H!Outcomes(p) = Outcomes(p)
            /\ \A c : H!csr_newvalue(p, c) = csr_newvalue(p, c)
  /\ H!Exception = Exception
<1>1. \A p : H!Op(p) = Op(p) /\ H!Succ(p) = Succ(p)
  <2>1. H!Pc = Pc /\ \A p : H!Op(p) = Op(p)
    BY DEF H!Op, Op, H!Pc, Pc
  <2>2. H!Cardinality(Pc) = Cardinality(Pc)
    BY Zenon DEF H!Cardinality, Cardinality
  <2> QED
    BY <2>1, <2>2, Zenon DEF H!Succ, Succ
<1>2. ASSUME NEW p PROVE H!Outcomes(p) = Outcomes(p)
  <2>1. H!Pass(p) = Pass(p) /\ \A q : H!Jump(q) = Jump(q)
    BY <1>1, Zenon DEF H!Jump, Jump, H!Pass, Pass
  <2> QED
    BY <2>1 DEF H!Outcomes, Outcomes
<1>3. ASSUME NEW p, NEW c PROVE H!csr_newvalue(p, c) = csr_newvalue(p, c)
  BY Zenon DEF H!csr_newvalue, csr_newvalue
<1>4. H!Exception = Exception
  BY DEF H!Exception, Exception
<1> QED
  BY <1>1, <1>2, <1>3, <1>4, Zenon

\* An instruction that is no branch.
LEMMA RetireOneImplements ==
  ASSUME Inv, RetireOne
  PROVE  H!Next
<1>1. /\ Looking /\ Retiring /\ rob_item.pc = arch /\ arch \in Pc
      /\ ~IsBranch(arch) /\ Op(arch) # "fault"
  <2>1. Looking /\ Retiring
    BY Zenon DEF RetireOne, Retiring
  <2>2. rob_item.pc = arch
    BY <2>1, LookingAtArch
  <2>3. arch \in Pc
    BY DEF Inv, DataOK
  <2>4. ~IsBranch(rob_item.pc) /\ Op(rob_item.pc) # "fault"
    BY Zenon DEF RetireOne
  <2> QED
    BY <2>1, <2>2, <2>3, <2>4, Zenon
<1>2. csr_next' = Written(rob_item) /\ arch' = Succ(arch) /\ last' = arch
  BY <1>1, Zenon DEF RetireOne, Retire
<1>3. Op(arch) \in {"plain", "store", "fence_i", "csr", "read_csr"}
  BY <1>1, IsaAssumption DEF IsBranch
<1>4. CASE Op(arch) = "csr"
  <2>1. csr_next' = [csr_next EXCEPT ![Program[arch].csr] = csr_newvalue(arch, csr_next)]
    BY <1>1, <1>2, <1>4, RetiredWrite, Zenon
  <2>2. H!WriteCsr
    BY <1>2, <1>4, <2>1, SameProgram, Zenon DEF H!WriteCsr, H!Done
  <2> QED
    BY <2>2, Zenon DEF H!Next
<1>5. CASE Op(arch) # "csr"
  <2>1. csr_next' = csr_next
    BY <1>1, <1>2, <1>5, RetiredWrite, Zenon
  <2>2. Op(arch) \in {"plain", "store", "fence_i", "read_csr"}
    BY <1>3, <1>5
  <2>3. H!Execute
    BY <1>2, <2>1, <2>2, SameProgram, Zenon DEF H!Execute, H!Done
  <2> QED
    BY <2>3, Zenon DEF H!Next
<1> QED
  BY <1>4, <1>5

\* A branch or an mret: one that has to be alone is the first to retire in its
\* cycle, so that the registers are as they were when it began.
LEMMA RetireBranchImplements ==
  ASSUME Inv, RetireBranch
  PROVE  H!Next
<1>1. /\ Retiring /\ Looking /\ IsBranch(rob_item.pc) /\ rob_item.pc = arch
      /\ popped \in Nat /\ popped + 1 \in Unretired
      /\ arch' = rob_item.out.next /\ last' = arch /\ cur_state = "normal"
  BY RetireBranchParts
<1>2. csr_next' = Returned(arch)
  BY <1>1, Zenon DEF RetireBranch
<1>3. UnitOK(popped + 1, rob_item, csr)
  <2>1. \A i \in Unretired : UnitOK(i, rob[i], csr)
    BY <1>1 DEF Inv, UnitsOK
  <2> QED
    BY <1>1, <2>1, Zenon DEF rob_item
<1>4. rob_item.st = "finish"
  BY <1>1, Zenon DEF Retiring
<1>5. CASE Op(arch) = "branch"
  <2>1. rob_item.out \in Outcomes(arch)
    BY <1>1, <1>3, <1>4, <1>5, Zenon DEF UnitOK
  <2>2. csr_next' = csr_next
    BY <1>2, <1>5 DEF Returned
  <2>3. H!Branch
    BY <1>1, <1>5, <2>1, <2>2, SameProgram, Zenon DEF H!Branch, H!Done
  <2> QED
    BY <2>3, Zenon DEF H!Next
<1>6. CASE Op(arch) = "mret"
  <2>1. popped = 0
    <3>1. Alone(rob_item.pc)
      BY <1>1, <1>6 DEF Alone
    <3>2. popped + 1 = 1
      BY <1>3, <1>4, <3>1 DEF UnitOK
    <3> QED
      BY <1>1, <3>2
  <2>2. csr = csr_next
    BY <1>1, <2>1, LookingAtArch
  <2>3. arch' = csr_next.mepc
    <3>1. rob_item.out = Jump(csr.mepc)
      BY <1>1, <1>3, <1>4, <1>6, Zenon DEF UnitOK
    <3> QED
      BY <1>1, <2>2, <3>1 DEF Jump
  <2>4. csr_next' =
          [csr_next EXCEPT !.mstatus = {b \in {"mie", "mpie"} : "mpie" \in csr_next.mstatus}]
    BY <1>2, <1>6, <2>2, Zenon DEF Returned
  <2>5. H!Mret
    BY <1>1, <1>6, <2>3, <2>4, SameProgram, Zenon DEF H!Mret, H!Done
  <2> QED
    BY <2>5, Zenon DEF H!Next
<1> QED
  BY <1>1, <1>5, <1>6 DEF IsBranch

\* A trap: the walk back has ended where the program stopped.
LEMMA EnterHandlerImplements ==
  ASSUME Inv, EnterHandler
  PROVE  H!Next
<1>1. /\ phase = "commit" /\ cur_state # "normal"
      /\ csr_next' = Trapped /\ arch' = csr.mtvec /\ last' = last
  BY DEF EnterHandler
<1>2. /\ popped = 0 /\ rob_item.pc = arch
      /\ cur_state = "flush" => Op(arch) = "fault"
      /\ cur_state = "interrupt_flush" =>
           interrupt.pc = arch /\ interrupt.id \in csr_next.mie /\ "mie" \in csr_next.mstatus
  BY <1>1 DEF Inv, WalkOK
<1>3. csr = csr_next
  <2>1. feedback = NoFeedback /\ ControlOK
    BY <1>1 DEF Inv, ControlOK
  <2>2. ~feedback.flush
    BY <2>1, NoFeedbackType, Zenon
  <2> QED
    BY <1>2, <2>1, <2>2, Zenon DEF ControlOK
<1>4. cur_state \in {"flush", "interrupt_flush"}
  BY <1>1 DEF Inv, DataOK
<1>5. CASE cur_state = "flush"
  <2>1. csr_next' = [csr_next EXCEPT !.mepc = arch, !.mcause = Exception]
    BY <1>1, <1>2, <1>5, Zenon DEF Trapped
  <2>2. H!Raise
    BY <1>1, <1>2, <1>3, <1>5, <2>1, SameProgram, Zenon DEF H!Raise
  <2> QED
    BY <2>2, Zenon DEF H!Next
<1>6. CASE cur_state = "interrupt_flush"
  <2>1. {"mpie" : b \in csr.mstatus \cap {"mie"}} = {"mpie"}
    BY <1>2, <1>3, <1>6
  <2>2. cur_state # "flush"
    BY <1>6
  <2>3. csr_next' = [csr_next EXCEPT !.mepc = arch, !.mcause = interrupt.id,
                                     !.mstatus = {"mpie"}]
    BY <1>1, <1>2, <1>6, <2>1, <2>2, Zenon DEF Trapped
  <2>4. interrupt.id \in csr_next.mie /\ "mie" \in csr_next.mstatus
    BY <1>2, <1>6
  <2>5. arch' = csr_next.mtvec
    BY <1>1, <1>3
  <2>6. H!Interrupt
    BY <1>1, <2>3, <2>4, <2>5, Zenon DEF H!Interrupt
  <2> QED
    BY <2>6, Zenon DEF H!Next
<1> QED
  BY <1>4, <1>5, <1>6

\* What the core shows of a program is what Hart allows, for every program
\* and all sizes: instructions done one after the other, each control register
\* read and written at once though the writes are queued (commit.cpp:727), and
\* traps between two instructions (commit.cpp:574, 1281).
THEOREM CoreImplementsHart == Spec => ImplementsHart
<1>1. Init => H!Init
  BY Zenon DEF Init, H!Init
<1>2. Inv /\ [Next]_vars => [H!Next]_(H!vars)
  <2> SUFFICES ASSUME Inv, [Next]_vars
               PROVE  H!Next \/ UNCHANGED <<arch, csr_next, last>>
    BY DEF H!vars
  <2>1. CASE TakeInterrupt \/ TakeException \/ LoopEnds \/ WalkBack
    BY <2>1, Zenon DEF TakeInterrupt, TakeException, LoopEnds, WalkBack, StartWalkBack
  <2>2. CASE RetireOne
    BY <2>2, RetireOneImplements
  <2>3. CASE RetireBranch
    BY <2>3, RetireBranchImplements
  <2>4. CASE EnterHandler
    BY <2>4, EnterHandlerImplements
  <2>5. CASE Stages
    BY <2>5, Zenon DEF Stages, Flushed, Advance, Sync
  <2>6. CASE UNCHANGED vars
    BY <2>6 DEF vars
  <2> QED
    BY <2>1, <2>2, <2>3, <2>4, <2>5, <2>6, Zenon DEF Next, Commit
<1> QED
  BY <1>1, <1>2, Consistent, PTL DEF Spec, ImplementsHart, H!Spec

-----------------------------------------------------------------------------
(* The store buffer has room.                                              *)

\* The stores that are in the store buffer and have not retired.
Stores == {j \in Unretired : IsStore(j) /\ rob[j].st = "finish"}

RoomOK ==
  /\ undrained + Cardinality(Stores) <= STORE_BUFFER_SIZE
  /\ cur_state = "normal" => restore = 0

\* There are finitely many of them, and all have entries.
LEMMA StoresFinite ==
  ASSUME DataOK
  PROVE  /\ popped \in Nat /\ Len(rob) \in Nat /\ popped <= Len(rob)
         /\ rob \in Seq(Entry) /\ undrained \in Nat
         /\ IsFiniteSet(Stores) /\ Cardinality(Stores) \in Nat
<1>1. /\ popped \in Nat /\ Len(rob) \in Nat /\ popped <= Len(rob)
      /\ rob \in Seq(Entry) /\ undrained \in Nat
  BY DEF DataOK
<1>2. IsFiniteSet(Unretired)
  BY <1>1, FS_Interval DEF Unretired
<1>3. Stores \subseteq Unretired
  BY DEF Stores
<1> QED
  BY <1>1, <1>2, <1>3, FS_Subset, FS_CardinalityType

\* Moving a set of places down makes it no larger.
LEMMA Shifted ==
  ASSUME NEW S, IsFiniteSet(S), NEW T, NEW k,
         \A j \in T : k + j \in S /\ (k + j) - k = j
  PROVE  IsFiniteSet(T) /\ Cardinality(T) <= Cardinality(S)
<1> DEFINE I == {i - k : i \in S}
<1>1. IsFiniteSet(I) /\ Cardinality(I) <= Cardinality(S)
  <2> DEFINE f == [i \in S |-> i - k]
  <2>1. f \in Surjection(S, I)
    BY DEF Surjection
  <2> HIDE DEF f, I
  <2> QED
    BY <2>1, FS_Surjection
<1>2. T \subseteq I
  OBVIOUS
<1>3. Cardinality(T) \in Nat /\ Cardinality(I) \in Nat /\ Cardinality(S) \in Nat
      /\ IsFiniteSet(T) /\ Cardinality(T) <= Cardinality(I)
  <2> HIDE DEF I
  <2> QED
    BY <1>1, <1>2, FS_Subset, FS_CardinalityType
<1> QED
  BY <1>1, <1>3

\* A store that retires leaves the one set for the other; what commit drops
\* makes room.
LEMMA RoomCommit ==
  ASSUME Inv, RoomOK, Commit
  PROVE  RoomOK'
<1>1. DataOK /\ IsFiniteSet(Stores) /\ Cardinality(Stores) \in Nat /\ undrained \in Nat
      /\ popped \in Nat /\ Len(rob) \in Nat
  BY StoresFinite DEF Inv
<1>2. STORE_BUFFER_SIZE \in Nat
  BY CoreAssumption
<1>3. undrained' = undrained /\ Stores' \subseteq Stores =>
        undrained' + Cardinality(Stores') <= STORE_BUFFER_SIZE
  <2>1. Stores' \subseteq Stores => Cardinality(Stores') <= Cardinality(Stores)
                                    /\ Cardinality(Stores') \in Nat
    BY <1>1, FS_Subset, FS_CardinalityType
  <2> QED
    BY <1>1, <1>2, <2>1 DEF RoomOK
<1>4. rob' = << >> => Stores' = {}
  <2>1. ASSUME rob' = << >> PROVE Stores' = {}
    <3>1. Len(rob') = 0 /\ popped' \in {0, popped, popped + 1}
      BY <2>1 DEF Commit, TakeInterrupt, TakeException, StartWalkBack, RetireOne, RetireBranch,
         LoopEnds, WalkBack, EnterHandler
    <3>2. popped' \in Nat
      BY <1>1, <3>1
    <3>3. popped' + 1 .. 0 = {}
      <4>1. \A q \in Nat : q + 1 .. 0 = {}
        OBVIOUS
      <4> QED
        BY <3>2, <4>1
    <3> QED
      BY <3>1, <3>3 DEF Stores, Unretired
  <2> QED
    BY <2>1
<1>5. rob' = rob /\ popped' = popped => Stores' = Stores
  BY DEF Stores, Unretired, IsStore
<1>6. rob' = rob /\ popped' = popped + 1 => Stores' = Stores \ {popped + 1}
  BY <1>1 DEF Stores, Unretired, IsStore
<1>7. CASE TakeInterrupt \/ TakeException
  <2>1. /\ rob' = rob /\ popped' = popped /\ undrained' = undrained
        /\ cur_state' \in {"flush", "interrupt_flush"}
    BY <1>7 DEF TakeInterrupt, TakeException, StartWalkBack
  <2> QED
    BY <1>3, <1>5, <2>1 DEF RoomOK
<1>8. CASE LoopEnds \/ WalkBack
  <2>1. /\ rob' = rob /\ popped' = popped /\ undrained' = undrained /\ cur_state' = cur_state
        /\ cur_state = "normal" => restore' = restore
    BY <1>8 DEF LoopEnds, WalkBack, walk
  <2> QED
    BY <1>3, <1>5, <2>1 DEF RoomOK
<1>9. CASE EnterHandler
  BY <1>3, <1>4, <1>9 DEF EnterHandler, RoomOK
<1>10. CASE RetireBranch
  <2>1. /\ undrained' = undrained /\ cur_state' = cur_state /\ restore' = restore
        /\ rob' = << >> \/ (rob' = rob /\ popped' = popped + 1)
    BY <1>10, Zenon DEF RetireBranch, Retire, walk
  <2> QED
    BY <1>3, <1>4, <1>6, <2>1 DEF RoomOK
<1>11. CASE RetireOne
  <2>1. /\ rob' = rob /\ popped' = popped + 1 /\ cur_state' = cur_state /\ restore' = restore
        /\ undrained' = IF Op(rob_item.pc) = "store" THEN undrained + 1 ELSE undrained
        /\ Looking /\ rob_item.st = "finish"
    BY <1>11, Zenon DEF RetireOne, Retire, walk, Retiring
  <2>2. Stores' = Stores \ {popped + 1}
    BY <1>6, <2>1
  <2>3. CASE Op(rob_item.pc) = "store"
    <3>1. popped + 1 \in Stores
      <4>1. popped + 1 \in Unretired
        BY <1>1, <2>1, LookingAt
      <4> QED
        BY <2>1, <2>3, <4>1 DEF Stores, IsStore, rob_item
    <3>2. Cardinality(Stores') = Cardinality(Stores) - 1
      BY <1>1, <2>2, <3>1, FS_RemoveElement
    <3> QED
      BY <1>1, <1>2, <2>1, <2>3, <3>2 DEF RoomOK
  <2>4. CASE Op(rob_item.pc) # "store"
    BY <1>3, <2>1, <2>2, <2>4 DEF RoomOK
  <2> QED
    BY <2>3, <2>4
<1> QED
  BY <1>7, <1>8, <1>9, <1>10, <1>11 DEF Commit

\* The stores go down with their entries.
LEMMA RoomFlushed ==
  ASSUME Inv, RoomOK, Flushed
  PROVE  RoomOK'
<1>1. /\ DataOK /\ undrained' = undrained /\ popped' = 0
      /\ rob' = SubSeq(rob, popped + 1, Len(rob))
      /\ cur_state' = cur_state /\ restore' = restore
  BY DEF Inv, Flushed, Sync, walk
<1>2. /\ popped \in Nat /\ Len(rob) \in Nat /\ popped <= Len(rob) /\ rob \in Seq(Entry)
      /\ IsFiniteSet(Stores) /\ Cardinality(Stores) \in Nat /\ undrained \in Nat
  BY <1>1, StoresFinite
<1> DEFINE left == Len(rob) - popped
<1>3. left \in Nat /\ Len(rob') = left /\ \A i \in 1 .. left : rob'[i] = rob[popped + i]
  <2>1. popped + 1 \in 1 .. Len(rob) + 1 /\ Len(rob) \in (popped + 1) - 1 .. Len(rob)
    BY <1>2
  <2> QED
    BY <1>1, <1>2, <2>1, Part
<1>4. ASSUME NEW j \in Stores'
      PROVE  popped + j \in Stores /\ (popped + j) - popped = j
  <2> DEFINE e == rob'[j]
  <2>1. j \in 1 .. left /\ Op(e.pc) = "store" /\ e.st = "finish"
    <3>1. j \in popped' + 1 .. Len(rob') /\ Op(e.pc) = "store" /\ e.st = "finish"
      BY DEF Stores, Unretired, IsStore
    <3> HIDE DEF left, e
    <3>2. popped' = 0 /\ Len(rob') = left /\ left \in Nat
      BY <1>1, <1>3, Zenon
    <3>3. popped' + 1 = 1
      BY <3>2
    <3> QED
      BY <3>1, <3>2, <3>3, Zenon
  <2>2. popped + j \in popped + 1 .. Len(rob) /\ rob'[j] = rob[popped + j]
    BY <1>2, <1>3, <2>1
  <2> QED
    BY <1>2, <2>1, <2>2 DEF Stores, Unretired, IsStore
<1>5. Cardinality(Stores') <= Cardinality(Stores) /\ Cardinality(Stores') \in Nat
  BY <1>2, <1>4, Shifted, FS_CardinalityType
<1>6. STORE_BUFFER_SIZE \in Nat
  BY CoreAssumption
<1> QED
  BY <1>1, <1>2, <1>5, <1>6 DEF RoomOK

\* One more store enters the buffer in a cycle, when there is room for it.
LEMMA RoomAdvance ==
  ASSUME Inv, RoomOK, NEW moved, NEW renamed, NEW out, NEW guess,
         AdvanceWith(moved, renamed, out, guess)
  PROVE  RoomOK'
<1> DEFINE left == Len(rob) - popped
           New == {i \in moved : IsStore(i) /\ rob[i].st = "issued"}
<1>1. /\ DataOK /\ popped' = 0 /\ cur_state = "normal" /\ cur_state' = "normal"
      /\ restore' = restore /\ undrained' = Drained
  <2>1. undrained' = Drained
    BY Zenon DEF AdvanceWith
  <2> QED
    BY <2>1, AdvanceNormal DEF Inv
<1>2. /\ popped \in Nat /\ Len(rob) \in Nat /\ popped <= Len(rob) /\ rob \in Seq(Entry)
      /\ IsFiniteSet(Stores) /\ Cardinality(Stores) \in Nat /\ undrained \in Nat
      /\ STORE_BUFFER_SIZE \in Nat
  BY <1>1, StoresFinite, CoreAssumption
<1>3. undrained' \in Nat /\ undrained' <= undrained
  <2>1. RetiredNow <= undrained /\ RetiredNow \in Nat
    <3>1. IsFiniteSet(1 .. popped) /\ {i \in 1 .. popped : IsStore(i)} \subseteq 1 .. popped
      BY <1>2, FS_Interval
    <3>2. RetiredNow \in Nat
      BY <3>1, FS_Subset, FS_CardinalityType DEF RetiredNow
    <3> QED
      BY <1>1, <3>2 DEF DataOK
  <2>2. Min({1, undrained - RetiredNow}) =
          IF 1 <= undrained - RetiredNow THEN 1 ELSE undrained - RetiredNow
    <3>1. 1 \in Int /\ undrained - RetiredNow \in Int
      BY <1>2, <2>1
    <3> QED
      BY <3>1, MinOfTwo
  <2> QED
    BY <1>1, <1>2, <2>1, <2>2 DEF Drained
<1>4. /\ left \in Nat /\ renamed \in Nat /\ Len(rob') = left + renamed
      /\ \A k \in 1 .. left :
           rob'[k] = IF popped + k \in moved THEN Moved(rob[popped + k], out)
                                             ELSE rob[popped + k]
      /\ \A k \in 1 .. renamed :
           rob'[left + k] = [pc |-> decode_rename_fifo[k].pc,
                             guess |-> decode_rename_fifo[k].guess,
                             st |-> "wait", out |-> Pass(0), write |-> << >>]
  BY AfterShape
<1>5. ASSUME NEW i \in New
      PROVE  i \in Unretired /\ RoomFor(i) /\ IsStore(i) /\ rob[i].st = "issued"
  <2>1. moved \subseteq Unretired /\ \A k \in moved : MayIssue(k) \/ MayFinish(k)
    BY DEF AdvanceWith, Moves
  <2> QED
    BY <1>5, <2>1 DEF MayIssue, MayFinish
<1>6. \A i, j \in New : i = j
  <2>1. ASSUME NEW i \in New, NEW j \in New, j < i PROVE FALSE
    <3>1. rob[j].st = "finish"
      BY <1>5, <2>1 DEF RoomFor
    <3> QED
      BY <1>5, <3>1
  <2>2. New \subseteq Int
    BY <1>2, <1>5 DEF Unretired
  <2> HIDE DEF New
  <2> QED
    BY <2>1, <2>2
<1>7. undrained + Cardinality(Stores \cup New) <= STORE_BUFFER_SIZE
      /\ IsFiniteSet(Stores \cup New) /\ Cardinality(Stores \cup New) \in Nat
  <2>1. CASE New = {}
    <3>1. Stores \cup New = Stores
      BY <2>1
    <3> HIDE DEF New
    <3> QED
      BY <1>2, <3>1 DEF RoomOK
  <2>2. ASSUME NEW i \in New
        PROVE  /\ undrained + Cardinality(Stores \cup New) <= STORE_BUFFER_SIZE
               /\ IsFiniteSet(Stores \cup New) /\ Cardinality(Stores \cup New) \in Nat
    <3>1. New = {i}
      BY <1>6, <2>2
    <3>2. undrained + Cardinality(Stores) < STORE_BUFFER_SIZE
      BY <1>5, <2>2 DEF RoomFor, Stores
    <3> HIDE DEF New
    <3>3. IsFiniteSet(Stores \cup {i}) /\ Cardinality(Stores \cup {i}) <= Cardinality(Stores) + 1
          /\ Cardinality(Stores \cup {i}) \in Nat
      <4>1. /\ IsFiniteSet(Stores \cup {i})
            /\ Cardinality(Stores \cup {i}) = IF i \in Stores THEN Cardinality(Stores)
                                                              ELSE Cardinality(Stores) + 1
        BY <1>2, FS_AddElement, Zenon
      <4> QED
        BY <1>2, <4>1
    <3> QED
      BY <1>2, <3>1, <3>2, <3>3
  <2> HIDE DEF New
  <2> QED
    BY <2>1, <2>2
<1>8. ASSUME NEW j \in Stores'
      PROVE  popped + j \in Stores \cup New /\ (popped + j) - popped = j
  <2> DEFINE e == rob'[j]
  <2>1. j \in 1 .. left + renamed /\ Op(e.pc) = "store" /\ e.st = "finish"
    <3>1. j \in popped' + 1 .. Len(rob') /\ Op(e.pc) = "store" /\ e.st = "finish"
      BY DEF Stores, Unretired, IsStore
    <3> HIDE DEF left, e
    <3> QED
      BY <1>1, <1>4, <3>1
  <2>2. j <= left
    <3> SUFFICES ASSUME j > left PROVE FALSE
      BY <1>4, <2>1
    <3>1. j - left \in 1 .. renamed /\ j = left + (j - left)
      BY <1>4, <2>1
    <3>2. e.st = "wait"
      <4>1. e = [pc |-> decode_rename_fifo[j - left].pc,
                 guess |-> decode_rename_fifo[j - left].guess,
                 st |-> "wait", out |-> Pass(0), write |-> << >>]
        BY <1>4, <3>1
      <4> HIDE DEF e
      <4> QED
        BY <4>1
    <3> QED
      BY <2>1, <3>2
  <2>3. popped + j \in Unretired /\ (popped + j) - popped = j /\ j \in 1 .. left
    BY <1>2, <1>4, <2>1, <2>2 DEF Unretired
  <2> DEFINE i == popped + j
             d == rob[i]
  <2>4. e = IF i \in moved THEN Moved(d, out) ELSE d
    BY <1>4, <2>3
  <2>5. d \in Entry /\ out \in Outcome
    BY <1>2, <2>3, OutType DEF Unretired
  <2>6. CASE i \notin moved
    <3>1. e = d
      BY <2>4, <2>6
    <3>2. Op(d.pc) = "store" /\ d.st = "finish"
      <4> HIDE DEF e, d
      <4> QED
        BY <2>1, <3>1
    <3> QED
      BY <2>3, <3>2 DEF Stores, IsStore
  <2>7. CASE i \in moved
    <3>1. e = Moved(d, out)
      BY <2>4, <2>7
    <3>2. /\ Moved(d, out).pc = d.pc
          /\ d.st = "wait" => Moved(d, out).st = "issued"
      <4> HIDE DEF d, i
      <4>1. Moved(d, out).pc = d.pc
        BY <1>1, <2>5, MovedType, Zenon
      <4>2. d.st = "wait" => /\ Moved(d, out).st = "issued"
                             /\ Moved(d, out).write = d.write
        BY <1>1, <2>5, MovedType
      <4> QED
        BY <4>1, <4>2, Zenon
    <3>3. Op(d.pc) = "store" /\ d.st # "wait"
      <4> HIDE DEF e, d
      <4>1. e.pc = d.pc /\ (d.st = "wait" => e.st = "issued")
        BY <3>1, <3>2, Zenon
      <4> QED
        BY <2>1, <4>1
    <3>4. MayIssue(i) \/ MayFinish(i)
      BY <2>7, Zenon DEF AdvanceWith, Moves
    <3>5. d.st = "issued"
      BY <3>3, <3>4 DEF MayIssue, MayFinish
    <3> QED
      BY <2>3, <2>7, <3>3, <3>5 DEF IsStore
  <2> QED
    BY <2>3, <2>6, <2>7
<1> HIDE DEF New
<1>9. Cardinality(Stores') <= Cardinality(Stores \cup New) /\ Cardinality(Stores') \in Nat
  BY <1>7, <1>8, Shifted, FS_CardinalityType
<1>10. undrained' + Cardinality(Stores') <= STORE_BUFFER_SIZE
  BY <1>2, <1>3, <1>7, <1>9
<1> QED
  BY <1>1, <1>10 DEF RoomOK

\* Every variable has its type, and no FIFO or buffer holds more than it has
\* room for: a store that has retired still has its place in the store buffer
\* (store_buffer.h), for all sizes.
THEOREM TypeCorrect == Spec => []TypeOK
<1>1. Init => RoomOK
  <2>1. ASSUME Init PROVE RoomOK
    <3>1. Stores = {}
      BY <2>1 DEF Init, Stores, Unretired
    <3>2. Cardinality(Stores) = 0 /\ STORE_BUFFER_SIZE \in Nat
      BY <3>1, FS_EmptySet, CoreAssumption
    <3> QED
      BY <2>1, <3>2 DEF Init, RoomOK
  <2> QED
    BY <2>1
<1>2. Inv /\ RoomOK /\ [Next]_vars => RoomOK'
  <2> SUFFICES ASSUME Inv, RoomOK, [Next]_vars PROVE RoomOK'
    OBVIOUS
  <2>1. CASE Commit
    BY <2>1, RoomCommit
  <2>2. CASE Flushed
    BY <2>2, RoomFlushed
  <2>3. ASSUME NEW moved \in Moves, NEW renamed \in 0 .. Renamable, Advance(moved, renamed)
        PROVE  RoomOK'
    <3>1. PICK out, guess : AdvanceWith(moved, renamed, out, guess)
      BY <2>3, AdvancePick
    <3> QED
      BY <3>1, RoomAdvance
  <2>4. CASE UNCHANGED vars
    BY <2>4 DEF vars, walk, RoomOK, Stores, Unretired, IsStore
  <2> QED
    BY <2>1, <2>2, <2>3, <2>4, Zenon DEF Next, Stages
<1>3. Inv /\ RoomOK => TypeOK
  <2> SUFFICES ASSUME Inv, RoomOK PROVE TypeOK
    OBVIOUS
  <2>1. DataOK /\ Cardinality(Stores) \in Nat /\ undrained \in Nat /\ STORE_BUFFER_SIZE \in Nat
        /\ popped \in Nat /\ Len(rob) \in Nat
    BY StoresFinite, CoreAssumption DEF Inv
  <2>2. undrained \in 0 .. STORE_BUFFER_SIZE
    BY <2>1 DEF RoomOK
  <2>3. restore \in 0 .. Len(rob)
    BY <2>1 DEF Inv, RoomOK, WalkOK
  <2> QED
    BY <2>1, <2>2, <2>3 DEF DataOK, TypeOK
<1> QED
  BY <1>1, <1>2, <1>3, Consistent, PTL DEF Spec
=============================================================================
