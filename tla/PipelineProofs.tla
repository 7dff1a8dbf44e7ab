---------------------------- MODULE PipelineProofs ----------------------------
(***************************************************************************)
(* Proofs about Pipeline for every size and width.  The requests that wait *)
(* for the end of the cycle are reasoned about by what they will leave:    *)
(* the rings with the requests applied are what the stages mean.           *)
(* First the invariant of the cycle and what follows from it, then that    *)
(* Pipeline implements Renaming, one action at a time.                     *)
(***************************************************************************)
EXTENDS Pipeline, RingProofs, SequenceTheorems, FiniteSetTheorems, TLAPS

Straight == cur_state = "normal" /\ ~flushing

\* A predicted branch has a checkpoint, nothing else has; an entry knows it
\* only once the result has arrived.
Queued == {x \in FrontItem : x.cp # NoId <=> x.kind \in {"hit", "miss"}}
Sent   == {x \in Pack : x.cp # NoId <=> x.kind \in {"hit", "miss"}}
Reply  == {x \in Answer : x.cp # NoId <=> x.result \in {"hit", "miss"}}
Entry  == {x \in RobItem : /\ x.cp # NoId <=> x.finish \in {"hit", "miss"}
                           /\ x.new = NoPhy <=> x.old = NoPhy}

Checkpoint == [valid : SUBSET Phy, visible : SUBSET Phy, data_valid : SUBSET Phy]
RatRequest ==
  [op : {"set_map"}, arch : Arch, phy : Phy] \cup [op : {"release_map", "commit_map"}, phy : Phy]
    \cup [op : {"restore_map"}, new : Phy, old : Phy] \cup [op : {"restore"}, cp : Checkpoint]
RegRequest ==
  [op : {"write"}, phy : Phy, valid : BOOLEAN] \cup [op : {"restore"}, cp : Checkpoint]
RingRequest(n, T) == [op : {"pop"}] \cup [op : {"set_item"}, id : 0 .. n - 1, item : T]

\* No slot outside the queue is filled.
Tight(r) == \A id \in 0 .. SizeOf(r) - 1 : get_item(r, id) # Dead => check_id_valid(r, id)

\* The requests of q find what they ask for.
Finds(r, x) == IF x.op = "pop" THEN ~is_empty(r) ELSE check_id_valid(r, x.id)

Founded(r, q) == \A k \in 1 .. Len(q) : Finds(RingAfter(r, SubSeq(q, 1, k - 1)), q[k])

Types ==
  /\ rat \in RatType /\ data_valid \subseteq Phy
  /\ rob \in Rings(ROB_SIZE, Entry) /\ Tight(rob)
  /\ checkpoint_buffer \in Rings(CHECKPOINT_BUFFER_SIZE, CheckpointType)
  /\ rat_q \in Seq(RatRequest) /\ reg_q \in Seq(RegRequest)
  /\ rob_q \in Seq(RingRequest(ROB_SIZE, Entry))
  /\ cp_q \in Seq(RingRequest(CHECKPOINT_BUFFER_SIZE, CheckpointType))
  /\ cur_state \in {"normal", "flush", "interrupt_flush"}
  /\ rob_item_id \in RobId /\ restore_rob_item_id \in RobId
  /\ front \in Seq(Queued) /\ Len(front) <= FRONT_SIZE
  /\ jump_wait \in BOOLEAN /\ off_path \in BOOLEAN
  /\ inflight \subseteq Sent /\ port \in Seq(Reply)
  /\ feedback \in {"none", "jump", "flush", "flush_jump", "flush_exception"}
  /\ stage \in {"commit", "wb", "rename"} /\ slot \in Nat

\* Who has asked for what by when.
Turns ==
  /\ stage = "commit" => ~flushing /\ \A k \in DOMAIN rob_q : rob_q[k].op = "pop"
  /\ stage = "commit" /\ slot < COMMIT_WIDTH =>
       cp_q = << >> /\ feedback = "none" /\ Cardinality(Pops) = slot
  /\ stage = "rename" => ~flushing
  /\ stage # "rename" => GroupMaps = {}
  /\ flushing => cp_q = << >>
  /\ cur_state # "normal" =>
       IF stage = "commit"
       THEN /\ rob_q = << >> /\ rat_q = << >> /\ reg_q = << >>
            /\ inflight = {} /\ port = << >> /\ front = << >> /\ ~jump_wait /\ slot = 0
       ELSE feedback = "flush"
  /\ cur_state = "normal" => feedback # "flush"

\* The rings and what will be left of them.
RingsOK ==
  /\ IF cur_state = "normal" /\ flushing
     THEN is_empty(rob) /\ (feedback = "flush_exception" => rob_q = << >>)
          /\ \A k \in DOMAIN rob_q : rob_q[k].op = "pop"
     ELSE Founded(rob, rob_q)
  /\ Founded(checkpoint_buffer, cp_q)

\* The entry the walk back has come to, and the one it ends with.
WalkOK ==
  cur_state # "normal" =>
    check_id_valid(SyncedRob, restore_rob_item_id) /\ rob_item_id = SyncedRob.rptr

Ent(id) == get_item(SyncedRob, id)

Unanswered(x) == Ent(x.id) # Dead /\ Ent(x.id).finish = "no" /\ Ent(x.id).new = x.rd_phy

\* OneAnswerPerEntry, entry by entry.
AnswersOK ==
  Straight =>
    /\ \A x, y \in inflight : x.id = y.id => x = y
    /\ \A i, j \in DOMAIN port : port[i].id = port[j].id => i = j
    /\ \A x \in inflight, i \in DOMAIN port : x.id # port[i].id
    /\ \A x \in inflight : Unanswered(x)
    /\ \A i \in DOMAIN port : Unanswered(port[i])
    /\ \A id \in RobId : Ent(id) # Dead /\ Ent(id).finish = "no" =>
         PacksOf(id) # {} \/ AnswersOf(id) # {}

IInv ==
  /\ Types
  /\ Turns
  /\ RingsOK
  /\ WalkOK
  /\ AnswersOK
  /\ LiveCheckpointsIntact
  /\ JumpWaitHasBranch

-----------------------------------------------------------------------------
(* The requests of a queue one after the other: none, and one more.        *)

\* RingAfter as a recursive function that stands on its own.
LEMMA RingAfterIs ==
  ASSUME NEW r, NEW q, Len(q) \in Nat
  PROVE  \E f : /\ f = [k \in 0 .. Len(q) |-> IF k = 0 THEN r ELSE ApplyRing(f[k - 1], q[k])]
               /\ RingAfter(r, q) = f[Len(q)]
<1> DEFINE Further(s, k) == ApplyRing(s, q[k])
           Step(g, k) == IF k = 0 THEN r ELSE Further(g[k - 1], k)
           S == {n \in Nat : \E g : g = [k \in 0 .. n |-> Step(g, k)]}
           f == CHOOSE g : g = [k \in 0 .. Len(q) |-> Step(g, k)]
<1> HIDE DEF Further
<1>1. 0 \in S
  <2> DEFINE g == [k \in 0 .. 0 |-> r]
  <2>1. g = [k \in 0 .. 0 |-> Step(g, k)]
    OBVIOUS
  <2> QED
    BY <2>1
<1>2. ASSUME NEW n \in Nat, n \in S
      PROVE  n + 1 \in S
  <2>1. PICK g : g = [k \in 0 .. n |-> Step(g, k)]
    BY <1>2
  <2> DEFINE h == [k \in 0 .. n + 1 |-> IF k = n + 1 THEN Further(g[n], n + 1) ELSE g[k]]
  <2>2. \A k \in 0 .. n + 1 : h[k] = Step(h, k)
    <3> SUFFICES ASSUME NEW k \in 0 .. n + 1
                 PROVE  h[k] = Step(h, k)
      OBVIOUS
    <3>1. CASE k = n + 1
      BY <3>1
    <3>2. CASE k \in 0 .. n
      <4>1. g[k] = Step(g, k)
        BY <2>1, <3>2, Zenon
      <4> QED
        BY <4>1, <3>2
    <3> QED
      BY <3>1, <3>2
  <2>3. h = [k \in 0 .. n + 1 |-> Step(h, k)]
    <3> HIDE DEF Step
    <3> QED
      BY <2>2
  <2> HIDE DEF h
  <2> QED
    BY <2>3
<1>3. Len(q) \in S
  <2> HIDE DEF S
  <2> QED
    BY <1>1, <1>2, NatInd
<1>4. f = [k \in 0 .. Len(q) |-> Step(f, k)]
  BY <1>3, Zenon
<1>5. RingAfter(r, q) = f[Len(q)]
  BY Zenon DEF RingAfter, Further
<1> QED
  BY <1>4, <1>5, Zenon DEF Further

\* A request more is applied last (the loops of sync, rob.h, checkpoint_buffer.h).
LEMMA RingAfterAppend ==
  ASSUME NEW r, NEW T, NEW q \in Seq(T), NEW x \in T
  PROVE  /\ RingAfter(r, << >>) = r
         /\ RingAfter(r, Append(q, x)) = ApplyRing(RingAfter(r, q), x)
<1> DEFINE p == Append(q, x)
           Further(s, y) == ApplyRing(s, y)
<1>1. Len(q) \in Nat /\ Len(p) = Len(q) + 1 /\ p[Len(p)] = x /\ \A k \in 1 .. Len(q) : p[k] = q[k]
  OBVIOUS
<1> HIDE DEF p, Further
<1>2. PICK f : /\ f = [k \in 0 .. Len(q) |-> IF k = 0 THEN r ELSE Further(f[k - 1], q[k])]
              /\ RingAfter(r, q) = f[Len(q)]
  BY <1>1, RingAfterIs, Zenon DEF Further
<1>3. PICK g : /\ g = [k \in 0 .. Len(p) |-> IF k = 0 THEN r ELSE Further(g[k - 1], p[k])]
              /\ RingAfter(r, p) = g[Len(p)]
  <2>1. Len(p) \in Nat
    BY <1>1
  <2> QED
    BY <2>1, RingAfterIs, Zenon DEF Further
<1> DEFINE S == {k \in Nat : f[k] = g[k]}
<1>4. 0 \in S
  BY <1>1, <1>2, <1>3
<1>5. ASSUME NEW k \in 0 .. Len(q) - 1, k \in S
      PROVE  k + 1 \in S
  <2>1. f[k + 1] = Further(f[k], q[k + 1])
    BY <1>1, <1>2, SMTT(60)
  <2>2. g[k + 1] = Further(g[k], p[k + 1])
    BY <1>1, <1>3
  <2> QED
    BY <1>1, <1>5, <2>1, <2>2
<1>6. f[Len(q)] = g[Len(q)]
  <2>1. 0 .. Len(q) \subseteq S
    <3> HIDE DEF S
    <3> QED
      BY <1>1, <1>4, <1>5, UpTo
  <2> QED
    BY <1>1, <2>1
<1>7. g[Len(p)] = Further(g[Len(q)], x)
  BY <1>1, <1>3
<1>8. RingAfter(r, p) = Further(RingAfter(r, q), x)
  BY <1>2, <1>3, <1>6, <1>7
<1>9. RingAfter(r, << >>) = r
  <2>1. PICK e : e = << >> /\ Len(e) = 0
    OBVIOUS
  <2>2. PICK h : /\ h = [k \in 0 .. Len(e) |-> IF k = 0 THEN r ELSE Further(h[k - 1], e[k])]
                /\ RingAfter(r, e) = h[Len(e)]
    <3>1. Len(e) \in Nat
      BY <2>1
    <3> QED
      BY <3>1, RingAfterIs, Zenon DEF Further
  <2>3. h[Len(e)] = r
    BY <2>1, <2>2
  <2> QED
    BY <2>1, <2>2, <2>3
<1> QED
  BY <1>8, <1>9, Zenon DEF p, Further

\* RatAfter as a recursive function that stands on its own.
LEMMA RatAfterIs ==
  ASSUME NEW r, NEW q, Len(q) \in Nat
  PROVE  \E f : /\ f = [k \in 0 .. Len(q) |-> IF k = 0 THEN r ELSE ApplyRat(f[k - 1], q[k])]
               /\ RatAfter(r, q) = f[Len(q)]
<1> DEFINE Further(s, k) == ApplyRat(s, q[k])
           Step(g, k) == IF k = 0 THEN r ELSE Further(g[k - 1], k)
           S == {n \in Nat : \E g : g = [k \in 0 .. n |-> Step(g, k)]}
           f == CHOOSE g : g = [k \in 0 .. Len(q) |-> Step(g, k)]
<1> HIDE DEF Further
<1>1. 0 \in S
  <2> DEFINE g == [k \in 0 .. 0 |-> r]
  <2>1. g = [k \in 0 .. 0 |-> Step(g, k)]
    OBVIOUS
  <2> QED
    BY <2>1
<1>2. ASSUME NEW n \in Nat, n \in S
      PROVE  n + 1 \in S
  <2>1. PICK g : g = [k \in 0 .. n |-> Step(g, k)]
    BY <1>2
  <2> DEFINE h == [k \in 0 .. n + 1 |-> IF k = n + 1 THEN Further(g[n], n + 1) ELSE g[k]]
  <2>2. \A k \in 0 .. n + 1 : h[k] = Step(h, k)
    <3> SUFFICES ASSUME NEW k \in 0 .. n + 1
                 PROVE  h[k] = Step(h, k)
      OBVIOUS
    <3>1. CASE k = n + 1
      BY <3>1
    <3>2. CASE k \in 0 .. n
      <4>1. g[k] = Step(g, k)
        BY <2>1, <3>2, Zenon
      <4> QED
        BY <4>1, <3>2
    <3> QED
      BY <3>1, <3>2
  <2>3. h = [k \in 0 .. n + 1 |-> Step(h, k)]
    <3> HIDE DEF Step
    <3> QED
      BY <2>2
  <2> HIDE DEF h
  <2> QED
    BY <2>3
<1>3. Len(q) \in S
  <2> HIDE DEF S
  <2> QED
    BY <1>1, <1>2, NatInd
<1>4. f = [k \in 0 .. Len(q) |-> Step(f, k)]
  BY <1>3, Zenon
<1>5. RatAfter(r, q) = f[Len(q)]
  BY Zenon DEF RatAfter, Further
<1> QED
  BY <1>4, <1>5, Zenon DEF Further

\* A request more to the alias table is applied last (rat.h sync).
LEMMA RatAfterAppend ==
  ASSUME NEW r, NEW T, NEW q \in Seq(T), NEW x \in T
  PROVE  /\ RatAfter(r, << >>) = r
         /\ RatAfter(r, Append(q, x)) = ApplyRat(RatAfter(r, q), x)
<1> DEFINE p == Append(q, x)
           Further(s, y) == ApplyRat(s, y)
<1>1. Len(q) \in Nat /\ Len(p) = Len(q) + 1 /\ p[Len(p)] = x /\ \A k \in 1 .. Len(q) : p[k] = q[k]
  OBVIOUS
<1> HIDE DEF p, Further
<1>2. PICK f : /\ f = [k \in 0 .. Len(q) |-> IF k = 0 THEN r ELSE Further(f[k - 1], q[k])]
              /\ RatAfter(r, q) = f[Len(q)]
  BY <1>1, RatAfterIs, Zenon DEF Further
<1>3. PICK g : /\ g = [k \in 0 .. Len(p) |-> IF k = 0 THEN r ELSE Further(g[k - 1], p[k])]
              /\ RatAfter(r, p) = g[Len(p)]
  <2>1. Len(p) \in Nat
    BY <1>1
  <2> QED
    BY <2>1, RatAfterIs, Zenon DEF Further
<1> DEFINE S == {k \in Nat : f[k] = g[k]}
<1>4. 0 \in S
  BY <1>1, <1>2, <1>3
<1>5. ASSUME NEW k \in 0 .. Len(q) - 1, k \in S
      PROVE  k + 1 \in S
  <2>1. f[k + 1] = Further(f[k], q[k + 1])
    BY <1>1, <1>2
  <2>2. g[k + 1] = Further(g[k], p[k + 1])
    BY <1>1, <1>3
  <2> QED
    BY <1>1, <1>5, <2>1, <2>2
<1>6. f[Len(q)] = g[Len(q)]
  <2>1. 0 .. Len(q) \subseteq S
    <3> HIDE DEF S
    <3> QED
      BY <1>1, <1>4, <1>5, UpTo
  <2> QED
    BY <1>1, <2>1
<1>7. g[Len(p)] = Further(g[Len(q)], x)
  BY <1>1, <1>3
<1>8. RatAfter(r, p) = Further(RatAfter(r, q), x)
  BY <1>2, <1>3, <1>6, <1>7
<1>9. RatAfter(r, << >>) = r
  <2>1. PICK e : e = << >> /\ Len(e) = 0
    OBVIOUS
  <2>2. PICK h : /\ h = [k \in 0 .. Len(e) |-> IF k = 0 THEN r ELSE Further(h[k - 1], e[k])]
                /\ RatAfter(r, e) = h[Len(e)]
    <3>1. Len(e) \in Nat
      BY <2>1
    <3> QED
      BY <3>1, RatAfterIs, Zenon DEF Further
  <2>3. h[Len(e)] = r
    BY <2>1, <2>2
  <2> QED
    BY <2>1, <2>2, <2>3
<1> QED
  BY <1>8, <1>9, Zenon DEF p, Further

\* RegAfter as a recursive function that stands on its own.
LEMMA RegAfterIs ==
  ASSUME NEW valid, NEW q, Len(q) \in Nat
  PROVE  \E f : /\ f = [k \in 0 .. Len(q) |-> IF k = 0 THEN valid ELSE ApplyReg(f[k - 1], q[k])]
               /\ RegAfter(valid, q) = f[Len(q)]
<1> DEFINE Further(s, k) == ApplyReg(s, q[k])
           Step(g, k) == IF k = 0 THEN valid ELSE Further(g[k - 1], k)
           S == {n \in Nat : \E g : g = [k \in 0 .. n |-> Step(g, k)]}
           f == CHOOSE g : g = [k \in 0 .. Len(q) |-> Step(g, k)]
<1> HIDE DEF Further
<1>1. 0 \in S
  <2> DEFINE g == [k \in 0 .. 0 |-> valid]
  <2>1. g = [k \in 0 .. 0 |-> Step(g, k)]
    OBVIOUS
  <2> QED
    BY <2>1
<1>2. ASSUME NEW n \in Nat, n \in S
      PROVE  n + 1 \in S
  <2>1. PICK g : g = [k \in 0 .. n |-> Step(g, k)]
    BY <1>2
  <2> DEFINE h == [k \in 0 .. n + 1 |-> IF k = n + 1 THEN Further(g[n], n + 1) ELSE g[k]]
  <2>2. \A k \in 0 .. n + 1 : h[k] = Step(h, k)
    <3> SUFFICES ASSUME NEW k \in 0 .. n + 1
                 PROVE  h[k] = Step(h, k)
      OBVIOUS
    <3>1. CASE k = n + 1
      BY <3>1
    <3>2. CASE k \in 0 .. n
      <4>1. g[k] = Step(g, k)
        BY <2>1, <3>2, Zenon
      <4> QED
        BY <4>1, <3>2
    <3> QED
      BY <3>1, <3>2
  <2>3. h = [k \in 0 .. n + 1 |-> Step(h, k)]
    <3> HIDE DEF Step
    <3> QED
      BY <2>2
  <2> HIDE DEF h
  <2> QED
    BY <2>3
<1>3. Len(q) \in S
  <2> HIDE DEF S
  <2> QED
    BY <1>1, <1>2, NatInd
<1>4. f = [k \in 0 .. Len(q) |-> Step(f, k)]
  BY <1>3, Zenon
<1>5. RegAfter(valid, q) = f[Len(q)]
  BY Zenon DEF RegAfter, Further
<1> QED
  BY <1>4, <1>5, Zenon DEF Further

\* A request more to the register file is applied last.
LEMMA RegAfterAppend ==
  ASSUME NEW valid, NEW T, NEW q \in Seq(T), NEW x \in T
  PROVE  /\ RegAfter(valid, << >>) = valid
         /\ RegAfter(valid, Append(q, x)) = ApplyReg(RegAfter(valid, q), x)
<1> DEFINE p == Append(q, x)
           Further(s, y) == ApplyReg(s, y)
<1>1. Len(q) \in Nat /\ Len(p) = Len(q) + 1 /\ p[Len(p)] = x /\ \A k \in 1 .. Len(q) : p[k] = q[k]
  OBVIOUS
<1> HIDE DEF p, Further
<1>2. PICK f : /\ f = [k \in 0 .. Len(q) |-> IF k = 0 THEN valid ELSE Further(f[k - 1], q[k])]
              /\ RegAfter(valid, q) = f[Len(q)]
  BY <1>1, RegAfterIs, Zenon DEF Further
<1>3. PICK g : /\ g = [k \in 0 .. Len(p) |-> IF k = 0 THEN valid ELSE Further(g[k - 1], p[k])]
              /\ RegAfter(valid, p) = g[Len(p)]
  <2>1. Len(p) \in Nat
    BY <1>1
  <2> QED
    BY <2>1, RegAfterIs, Zenon DEF Further
<1> DEFINE S == {k \in Nat : f[k] = g[k]}
<1>4. 0 \in S
  BY <1>1, <1>2, <1>3
<1>5. ASSUME NEW k \in 0 .. Len(q) - 1, k \in S
      PROVE  k + 1 \in S
  <2>1. f[k + 1] = Further(f[k], q[k + 1])
    BY <1>1, <1>2
  <2>2. g[k + 1] = Further(g[k], p[k + 1])
    BY <1>1, <1>3
  <2> QED
    BY <1>1, <1>5, <2>1, <2>2
<1>6. f[Len(q)] = g[Len(q)]
  <2>1. 0 .. Len(q) \subseteq S
    <3> HIDE DEF S
    <3> QED
      BY <1>1, <1>4, <1>5, UpTo
  <2> QED
    BY <1>1, <2>1
<1>7. g[Len(p)] = Further(g[Len(q)], x)
  BY <1>1, <1>3
<1>8. RegAfter(valid, p) = Further(RegAfter(valid, q), x)
  BY <1>2, <1>3, <1>6, <1>7
<1>9. RegAfter(valid, << >>) = valid
  <2>1. PICK e : e = << >> /\ Len(e) = 0
    OBVIOUS
  <2>2. PICK h : /\ h = [k \in 0 .. Len(e) |-> IF k = 0 THEN valid ELSE Further(h[k - 1], e[k])]
                /\ RegAfter(valid, e) = h[Len(e)]
    <3>1. Len(e) \in Nat
      BY <2>1
    <3> QED
      BY <3>1, RegAfterIs, Zenon DEF Further
  <2>3. h[Len(e)] = valid
    BY <2>1, <2>2
  <2> QED
    BY <2>1, <2>2, <2>3
<1> QED
  BY <1>8, <1>9, Zenon DEF p, Further

-----------------------------------------------------------------------------
(* Queues of requests for a ring.                                          *)

\* Induction on sequences: what holds of << >> and is kept by Append.
LEMMA SeqInd ==
  ASSUME NEW T, NEW S, << >> \in S,
         \A q \in Seq(T), x \in T : q \in S => Append(q, x) \in S
  PROVE  Seq(T) \subseteq S
<1> DEFINE N == {n \in Nat : \A q \in Seq(T) : Len(q) = n => q \in S}
<1>1. 0 \in N
  <2>1. \A q \in Seq(T) : Len(q) = 0 => q = << >>
    OBVIOUS
  <2> QED
    BY <2>1
<1>2. ASSUME NEW n \in Nat, n \in N
      PROVE  n + 1 \in N
  <2> SUFFICES ASSUME NEW q \in Seq(T), Len(q) = n + 1
               PROVE  q \in S
    OBVIOUS
  <2> DEFINE p == SubSeq(q, 1, n)
  <2>1. p \in Seq(T) /\ Len(p) = n /\ q[n + 1] \in T /\ q = Append(p, q[n + 1])
    OBVIOUS
  <2> HIDE DEF p
  <2>2. p \in S
    BY <1>2, <2>1
  <2> QED
    BY <2>1, <2>2
<1>3. Nat \subseteq N
  <2> HIDE DEF N
  <2> QED
    BY <1>1, <1>2, NatInd
<1> SUFFICES ASSUME NEW q \in Seq(T)
             PROVE  q \in S
  OBVIOUS
<1>4. Len(q) \in N
  BY <1>3
<1> QED
  BY <1>4

\* A request more must find what it asks for in what the others leave.
LEMMA FoundedAppend ==
  ASSUME NEW r, NEW T, NEW q \in Seq(T), NEW x \in T
  PROVE  /\ Founded(r, << >>)
         /\ Founded(r, Append(q, x)) <=> Founded(r, q) /\ Finds(RingAfter(r, q), x)
<1> DEFINE p == Append(q, x)
<1>1. Founded(r, << >>)
  BY DEF Founded
<1>2. /\ Len(p) = Len(q) + 1 /\ Len(q) \in Nat /\ p[Len(q) + 1] = x
      /\ \A k \in 1 .. Len(q) : p[k] = q[k] /\ SubSeq(p, 1, k - 1) = SubSeq(q, 1, k - 1)
      /\ SubSeq(p, 1, Len(q)) = q
  OBVIOUS
<1> HIDE DEF p
<1>3. Founded(r, p) <=> /\ \A k \in 1 .. Len(q) : Finds(RingAfter(r, SubSeq(p, 1, k - 1)), p[k])
                        /\ Finds(RingAfter(r, SubSeq(p, 1, Len(q))), p[Len(q) + 1])
  <2>1. (Len(q) + 1) - 1 = Len(q) /\ 1 .. Len(p) = 1 .. Len(q) \cup {Len(q) + 1}
    BY <1>2
  <2>2. Founded(r, p) <=> /\ \A k \in 1 .. Len(q) : Finds(RingAfter(r, SubSeq(p, 1, k - 1)), p[k])
                          /\ Finds(RingAfter(r, SubSeq(p, 1, (Len(q) + 1) - 1)), p[Len(q) + 1])
    BY <2>1, Zenon DEF Founded
  <2> QED
    BY <2>1, <2>2
<1>4. (\A k \in 1 .. Len(q) : Finds(RingAfter(r, SubSeq(p, 1, k - 1)), p[k])) <=> Founded(r, q)
  BY <1>2 DEF Founded
<1> QED
  BY <1>1, <1>2, <1>3, <1>4 DEF p

\* A pop leaves nothing in the slot.
LEMMA PopLeaves ==
  ASSUME NEW n \in Nat \ {0}, NEW T, NEW r \in Rings(n, T), ~is_empty(r)
  PROVE  get_item(pop(r), r.rptr) = Dead /\ pop(r).wptr = r.wptr /\ SizeOf(pop(r)) = n
<1>1. r.rptr \in 0 .. n - 1 /\ Dead \in T \cup {Dead}
  BY ShapeFacts
<1>2. PICK p \in 0 .. n - 1 : p = r.rptr
  BY <1>1
<1> DEFINE t == set_item(r, p, Dead)
<1>3. /\ t = [slots |-> [r.slots EXCEPT ![p + 1] = Dead], rptr |-> r.rptr,
              wptr |-> r.wptr, wrapped |-> r.wrapped]
      /\ [r.slots EXCEPT ![p + 1] = Dead] \in [1 .. n -> T \cup {Dead}]
  BY <1>1, WriteSlot
<1>4. pop(r).slots = t.slots /\ pop(r).wptr = t.wptr
  <2>1. pop(r) = [t EXCEPT !.rptr = IF r.rptr + 1 = SizeOf(r) THEN 0 ELSE r.rptr + 1,
                           !.wrapped = IF r.rptr + 1 = SizeOf(r) THEN ~@ ELSE @]
    BY <1>2 DEF pop
  <2> HIDE DEF t
  <2> QED
    BY <1>3, <2>1
<1> HIDE DEF t
<1>5. get_item(pop(r), r.rptr) = Dead
  BY <1>2, <1>3, <1>4 DEF get_item
<1>6. SizeOf(pop(r)) = n
  BY <1>3, <1>4 DEF SizeOf
<1> QED
  BY <1>3, <1>4, <1>5, <1>6

\* A request that finds what it asks for leaves a ring, and a tight one tight.
LEMMA RingApply ==
  ASSUME NEW n \in Nat \ {0}, NEW T, Dead \notin T, NEW r \in Rings(n, T),
         NEW x \in RingRequest(n, T), Finds(r, x)
  PROVE  ApplyRing(r, x) \in Rings(n, T) /\ (Tight(r) => Tight(ApplyRing(r, x)))
<1> DEFINE s == ApplyRing(r, x)
<1>1. CASE x.op = "pop"
  <2>1. s = pop(r) /\ ~is_empty(r)
    BY <1>1 DEF ApplyRing, Finds
  <2> HIDE DEF s
  <2>2. /\ s \in Rings(n, T) /\ get_size(s) = get_size(r) - 1 /\ At(r, r.rptr) = 1
        /\ \A j \in 0 .. n - 1 : j # r.rptr => At(s, j) = At(r, j) - 1 /\ get_item(s, j) = get_item(r, j)
    BY <2>1, PopItem
  <2>3. get_item(s, r.rptr) = Dead /\ SizeOf(s) = n /\ SizeOf(r) = n
    BY <2>1, PopLeaves, ShapeFacts
  <2>4. Tight(r) => Tight(s)
    <3> SUFFICES ASSUME Tight(r), NEW j \in 0 .. n - 1, get_item(s, j) # Dead
                 PROVE  check_id_valid(s, j)
      BY <2>3 DEF Tight
    <3>1. j # r.rptr
      BY <2>3
    <3>2. check_id_valid(r, j)
      BY <2>2, <2>3, <3>1 DEF Tight
    <3>3. At(r, j) <= get_size(r)
      BY <3>2, ValidIs
    <3>4. At(s, j) <= get_size(s)
      BY <2>2, <3>1, <3>3, PlaceAt, SizeIs
    <3> QED
      BY <2>2, <3>4, ValidIs
  <2> QED
    BY <2>2, <2>4 DEF s
<1>2. CASE x.op # "pop"
  <2>1. s = set_item(r, x.id, x.item) /\ check_id_valid(r, x.id) /\ x.id \in 0 .. n - 1 /\ x.item \in T
    BY <1>2 DEF ApplyRing, Finds, RingRequest
  <2> HIDE DEF s
  <2>2. /\ s \in Rings(n, T) /\ get_size(s) = get_size(r)
        /\ \A j : At(s, j) = At(r, j)
        /\ \A j \in 0 .. n - 1 : get_item(s, j) = IF j = x.id THEN x.item ELSE get_item(r, j)
    BY <2>1, ItemSet
  <2>3. SizeOf(s) = n /\ SizeOf(r) = n
    BY <2>2, ShapeFacts
  <2>4. Tight(r) => Tight(s)
    <3> SUFFICES ASSUME Tight(r), NEW j \in 0 .. n - 1, get_item(s, j) # Dead
                 PROVE  check_id_valid(s, j)
      BY <2>3 DEF Tight
    <3>1. check_id_valid(r, j)
      BY <2>1, <2>2, <2>3 DEF Tight
    <3> QED
      BY <2>2, <3>1, ValidIs
  <2> QED
    BY <2>2, <2>4 DEF s
<1> QED
  BY <1>1, <1>2

\* A ring stays a ring.
LEMMA RingSynced ==
  ASSUME NEW n \in Nat \ {0}, NEW T, Dead \notin T, NEW r \in Rings(n, T),
         NEW q \in Seq(RingRequest(n, T)), Founded(r, q)
  PROVE  RingAfter(r, q) \in Rings(n, T) /\ (Tight(r) => Tight(RingAfter(r, q)))
<1> DEFINE Req == RingRequest(n, T)
           S == {u \in Seq(Req) : Founded(r, u) => /\ RingAfter(r, u) \in Rings(n, T)
                                                    /\ (Tight(r) => Tight(RingAfter(r, u)))}
<1> HIDE DEF Req
<1>1. << >> \in S
  <2>1. << >> \in Seq(Req)
    OBVIOUS
  <2>2. \A x \in Req : RingAfter(r, << >>) = r
    BY <2>1, RingAfterAppend, Zenon
  <2>3. [op |-> "pop"] \in Req
    BY DEF Req, RingRequest
  <2> QED
    BY <2>1, <2>2, <2>3
<1>2. ASSUME NEW p \in Seq(Req), NEW x \in Req, p \in S
      PROVE  Append(p, x) \in S
  <2> DEFINE a == Append(p, x)
  <2>1. a \in Seq(Req)
    OBVIOUS
  <2>2. Founded(r, a) <=> Founded(r, p) /\ Finds(RingAfter(r, p), x)
    BY FoundedAppend, Zenon
  <2>3. RingAfter(r, a) = ApplyRing(RingAfter(r, p), x)
    BY RingAfterAppend
  <2> HIDE DEF a
  <2>4. ASSUME Founded(r, a)
        PROVE  RingAfter(r, a) \in Rings(n, T) /\ (Tight(r) => Tight(RingAfter(r, a)))
    <3>1. RingAfter(r, p) \in Rings(n, T) /\ (Tight(r) => Tight(RingAfter(r, p))) /\ Finds(RingAfter(r, p), x)
      BY <1>2, <2>2, <2>4, Zenon
    <3>2. /\ ApplyRing(RingAfter(r, p), x) \in Rings(n, T)
          /\ Tight(RingAfter(r, p)) => Tight(ApplyRing(RingAfter(r, p), x))
      BY <3>1, RingApply DEF Req
    <3> QED
      BY <2>3, <3>1, <3>2
  <2> QED
    BY <2>1, <2>4 DEF a
<1>3. Seq(Req) \subseteq S
  <2> HIDE DEF S
  <2> QED
    BY <1>1, <1>2, SeqInd
<1>4. q \in S
  BY <1>3 DEF Req
<1> QED
  BY <1>4, Zenon

PopsIn(q) == {k \in DOMAIN q : q[k].op = "pop"}

\* How many of the requests are pops.
LEMMA PopsAppend ==
  ASSUME NEW T, NEW q \in Seq(T), NEW x \in T
  PROVE  /\ IsFiniteSet(PopsIn(q)) /\ Cardinality(PopsIn(q)) \in 0 .. Len(q)
         /\ Cardinality(PopsIn(<< >>)) = 0
         /\ Cardinality(PopsIn(Append(q, x))) =
              Cardinality(PopsIn(q)) + IF x.op = "pop" THEN 1 ELSE 0
         /\ Cardinality(PopsIn(q)) = Len(q) <=> \A k \in DOMAIN q : q[k].op = "pop"
<1> DEFINE p == Append(q, x)
           m == Len(q)
<1>1. /\ m \in Nat /\ DOMAIN q = 1 .. m /\ DOMAIN p = 1 .. m + 1 /\ p[m + 1] = x
      /\ \A k \in 1 .. m : p[k] = q[k]
  OBVIOUS
<1> HIDE DEF p, m
<1>2. IsFiniteSet(1 .. m) /\ Cardinality(1 .. m) = m
  BY <1>1, FS_Interval
<1>3. PopsIn(q) \subseteq 1 .. m
  BY <1>1 DEF PopsIn
<1>4. /\ IsFiniteSet(PopsIn(q)) /\ Cardinality(PopsIn(q)) <= m /\ Cardinality(PopsIn(q)) \in Nat
      /\ Cardinality(PopsIn(q)) = m => PopsIn(q) = 1 .. m
  BY <1>2, <1>3, FS_Subset, FS_CardinalityType
<1>5. PopsIn(p) = IF x.op = "pop" THEN PopsIn(q) \cup {m + 1} ELSE PopsIn(q)
  BY <1>1 DEF PopsIn
<1>6. m + 1 \notin PopsIn(q)
  BY <1>1, <1>3
<1>7. Cardinality(PopsIn(q) \cup {m + 1}) = Cardinality(PopsIn(q)) + 1
  BY <1>4, <1>6, FS_AddElement
<1>8. Cardinality(PopsIn(<< >>)) = 0
  <2>1. PopsIn(<< >>) = {}
    BY DEF PopsIn
  <2> QED
    BY <2>1, FS_EmptySet
<1>9. PopsIn(q) = 1 .. m <=> \A k \in DOMAIN q : q[k].op = "pop"
  BY <1>1 DEF PopsIn
<1>10. Cardinality(PopsIn(p)) = Cardinality(PopsIn(q)) + IF x.op = "pop" THEN 1 ELSE 0
  <2>1. CASE x.op = "pop"
    BY <1>5, <1>7, <2>1
  <2>2. CASE x.op # "pop"
    BY <1>4, <1>5, <2>2
  <2> QED
    BY <2>1, <2>2
<1> QED
  BY <1>1, <1>2, <1>4, <1>8, <1>9, <1>10 DEF p, m

\* What the requests leave is the ring without as many elements as are popped.
Shorter(r, s, k, n) ==
  /\ k \in 0 .. get_size(r) /\ get_size(s) = get_size(r) - k
  /\ \A i \in 1 .. n - k : Place(s, i) = Place(r, i + k)

\* A pop takes one from the front, a set_item changes no place.
LEMMA ShorterApply ==
  ASSUME NEW n \in Nat \ {0}, NEW T, NEW r \in Rings(n, T), NEW s \in Rings(n, T), NEW k \in Nat,
         Shorter(r, s, k, n), NEW x \in RingRequest(n, T), Finds(s, x)
  PROVE  Shorter(r, ApplyRing(s, x), k + IF x.op = "pop" THEN 1 ELSE 0, n)
<1> DEFINE u == ApplyRing(s, x)
<1>1. get_size(r) \in 0 .. n /\ get_size(s) \in 0 .. n
  BY SizeIs
<1>2. CASE x.op = "pop"
  <2>1. u = pop(s) /\ ~is_empty(s)
    BY <1>2 DEF ApplyRing, Finds
  <2> HIDE DEF u
  <2>2. get_size(u) = get_size(s) - 1 /\ \A i \in 1 .. n - 1 : Place(u, i) = Place(s, i + 1)
    BY <2>1, PopItem
  <2>3. get_size(s) # 0
    BY <2>1, SizeIs
  <2>4. ASSUME NEW i \in 1 .. n - (k + 1)
        PROVE  Place(u, i) = Place(r, i + (k + 1))
    <3>1. i \in 1 .. n - 1 /\ i + 1 \in 1 .. n - k /\ (i + 1) + k = i + (k + 1)
      OBVIOUS
    <3>2. Place(u, i) = Place(s, i + 1)
      BY <2>2, <3>1
    <3>3. Place(s, i + 1) = Place(r, (i + 1) + k)
      BY <3>1 DEF Shorter
    <3> QED
      BY <3>1, <3>2, <3>3
  <2>5. k + 1 \in 0 .. get_size(r) /\ get_size(u) = get_size(r) - (k + 1)
    BY <1>1, <2>2, <2>3 DEF Shorter
  <2>6. Shorter(r, u, k + 1, n)
    BY <2>4, <2>5 DEF Shorter
  <2> QED
    BY <1>2, <2>6 DEF u
<1>3. CASE x.op # "pop"
  <2>1. u = set_item(s, x.id, x.item) /\ x.id \in 0 .. n - 1 /\ x.item \in T
    BY <1>3 DEF ApplyRing, RingRequest
  <2> HIDE DEF u
  <2>2. get_size(u) = get_size(s) /\ \A i : Place(u, i) = Place(s, i)
    BY <2>1, ItemSet
  <2>3. Shorter(r, u, k, n)
    BY <2>2 DEF Shorter
  <2> QED
    BY <1>3, <2>3 DEF u
<1> QED
  BY <1>2, <1>3

\* What requests leave is the ring without as many as they pop.
LEMMA RingShorter ==
  ASSUME NEW n \in Nat \ {0}, NEW T, Dead \notin T, NEW r \in Rings(n, T),
         NEW q \in Seq(RingRequest(n, T)), Founded(r, q)
  PROVE  Shorter(r, RingAfter(r, q), Cardinality(PopsIn(q)), n)
<1> DEFINE Req == RingRequest(n, T)
           S == {u \in Seq(Req) : Founded(r, u) => Shorter(r, RingAfter(r, u), Cardinality(PopsIn(u)), n)}
<1> HIDE DEF Req
<1>0. [op |-> "pop"] \in Req /\ << >> \in Seq(Req)
  BY DEF Req, RingRequest
<1>1. << >> \in S
  <2>1. RingAfter(r, << >>) = r /\ Cardinality(PopsIn(<< >>)) = 0
    BY <1>0, RingAfterAppend, PopsAppend
  <2>2. Shorter(r, r, 0, n)
    BY SizeIs DEF Shorter
  <2> QED
    BY <1>0, <2>1, <2>2
<1>2. ASSUME NEW p \in Seq(Req), NEW x \in Req, p \in S
      PROVE  Append(p, x) \in S
  <2> DEFINE a == Append(p, x)
             k == Cardinality(PopsIn(p))
  <2>1. a \in Seq(Req)
    OBVIOUS
  <2>2. Founded(r, a) <=> Founded(r, p) /\ Finds(RingAfter(r, p), x)
    BY FoundedAppend, Zenon
  <2>3. RingAfter(r, a) = ApplyRing(RingAfter(r, p), x)
    BY RingAfterAppend
  <2>4. Cardinality(PopsIn(a)) = k + (IF x.op = "pop" THEN 1 ELSE 0) /\ k \in Nat
    <3>1. /\ Cardinality(PopsIn(p)) \in 0 .. Len(p) /\ Len(p) \in Nat
          /\ Cardinality(PopsIn(a)) = Cardinality(PopsIn(p)) + IF x.op = "pop" THEN 1 ELSE 0
      BY PopsAppend
    <3> QED
      BY <3>1
  <2> HIDE DEF a, k
  <2>5. ASSUME Founded(r, a)
        PROVE  Shorter(r, RingAfter(r, a), Cardinality(PopsIn(a)), n)
    <3>1. Shorter(r, RingAfter(r, p), k, n) /\ Finds(RingAfter(r, p), x)
      BY <1>2, <2>2, <2>5, Zenon DEF k
    <3>2. RingAfter(r, p) \in Rings(n, T)
      BY <2>2, <2>5, RingSynced DEF Req
    <3>3. Shorter(r, ApplyRing(RingAfter(r, p), x), k + IF x.op = "pop" THEN 1 ELSE 0, n)
      <4>1. PICK s \in Rings(n, T) : s = RingAfter(r, p)
        BY <3>2
      <4>2. Shorter(r, ApplyRing(s, x), k + IF x.op = "pop" THEN 1 ELSE 0, n)
        BY <2>4, <3>1, <4>1, ShorterApply DEF Req
      <4> QED
        BY <4>1, <4>2
    <3> QED
      BY <2>3, <2>4, <3>3
  <2> QED
    BY <2>1, <2>5 DEF a
<1>3. Seq(Req) \subseteq S
  <2> HIDE DEF S
  <2> QED
    BY <1>1, <1>2, SeqInd
<1>4. q \in S
  BY <1>3 DEF Req
<1> QED
  BY <1>4, Zenon

\* Pops leave alone what they do not take.
Leaves(r, s, k, n) ==
  \A j \in 0 .. n - 1 : At(r, j) > k => At(s, j) = At(r, j) - k /\ get_item(s, j) = get_item(r, j)

\* Pops leave what is behind them as it was.
LEMMA RingPops ==
  ASSUME NEW n \in Nat \ {0}, NEW T, Dead \notin T, NEW r \in Rings(n, T),
         NEW q \in Seq(RingRequest(n, T)), Founded(r, q), \A k \in DOMAIN q : q[k].op = "pop"
  PROVE  Leaves(r, RingAfter(r, q), Len(q), n)
<1> DEFINE Req == RingRequest(n, T)
           S == {u \in Seq(Req) : Founded(r, u) /\ (\A k \in DOMAIN u : u[k].op = "pop")
                                    => Leaves(r, RingAfter(r, u), Len(u), n)}
<1> HIDE DEF Req
<1>0. [op |-> "pop"] \in Req /\ << >> \in Seq(Req)
  BY DEF Req, RingRequest
<1>1. << >> \in S
  <2>1. RingAfter(r, << >>) = r /\ Len(<< >>) = 0
    BY <1>0, RingAfterAppend
  <2>2. Leaves(r, r, 0, n)
    BY PlaceAt DEF Leaves
  <2> QED
    BY <1>0, <2>1, <2>2
<1>2. ASSUME NEW p \in Seq(Req), NEW x \in Req, p \in S
      PROVE  Append(p, x) \in S
  <2> DEFINE a == Append(p, x)
             k == Len(p)
  <2>1. /\ a \in Seq(Req) /\ Len(a) = k + 1 /\ k \in Nat
        /\ (\A i \in DOMAIN a : a[i].op = "pop") => x.op = "pop" /\ \A i \in DOMAIN p : p[i].op = "pop"
    <3>1. a \in Seq(Req) /\ Len(a) = k + 1 /\ k \in Nat
      OBVIOUS
    <3>2. ASSUME \A i \in DOMAIN a : a[i].op = "pop"
          PROVE  x.op = "pop" /\ \A i \in DOMAIN p : p[i].op = "pop"
      <4>1. a[k + 1] = x /\ k + 1 \in DOMAIN a /\ \A i \in DOMAIN p : i \in DOMAIN a /\ a[i] = p[i]
        OBVIOUS
      <4> HIDE DEF a, k
      <4> QED
        BY <3>2, <4>1
    <3> QED
      BY <3>1, <3>2
  <2>2. Founded(r, a) <=> Founded(r, p) /\ Finds(RingAfter(r, p), x)
    BY FoundedAppend, Zenon
  <2>3. RingAfter(r, a) = ApplyRing(RingAfter(r, p), x)
    BY RingAfterAppend
  <2> HIDE DEF a, k
  <2>4. ASSUME Founded(r, a), \A i \in DOMAIN a : a[i].op = "pop"
        PROVE  Leaves(r, RingAfter(r, a), Len(a), n)
    <3>1. Leaves(r, RingAfter(r, p), k, n) /\ Finds(RingAfter(r, p), x) /\ x.op = "pop"
      BY <1>2, <2>1, <2>2, <2>4, Zenon DEF k
    <3>2. RingAfter(r, p) \in Rings(n, T) /\ Shorter(r, RingAfter(r, p), k, n)
      <4>1. Founded(r, p) /\ \A i \in DOMAIN p : p[i].op = "pop"
        BY <2>1, <2>2, <2>4
      <4>2. Cardinality(PopsIn(p)) = k
        BY <1>0, <4>1, PopsAppend DEF k
      <4> QED
        BY <4>1, <4>2, RingSynced, RingShorter DEF Req
    <3>3. PICK s \in Rings(n, T) : s = RingAfter(r, p)
      BY <3>2
    <3>4. RingAfter(r, a) = pop(s) /\ ~is_empty(s)
      BY <2>3, <3>1, <3>3 DEF ApplyRing, Finds
    <3>5. /\ \A j \in 0 .. n - 1 : j # s.rptr => /\ At(pop(s), j) = At(s, j) - 1
                                                 /\ get_item(pop(s), j) = get_item(s, j)
          /\ At(s, s.rptr) = 1
      BY <3>4, PopItem
    <3>6. ASSUME NEW j \in 0 .. n - 1, At(r, j) > k + 1
          PROVE  At(pop(s), j) = At(r, j) - (k + 1) /\ get_item(pop(s), j) = get_item(r, j)
      <4>1. At(r, j) \in 1 .. n
        BY PlaceAt
      <4>2. At(s, j) = At(r, j) - k /\ get_item(s, j) = get_item(r, j)
        BY <2>1, <3>1, <3>3, <3>6, <4>1 DEF Leaves
      <4>3. j # s.rptr
        BY <2>1, <3>5, <3>6, <4>1, <4>2
      <4> QED
        BY <2>1, <3>5, <4>1, <4>2, <4>3
    <3>7. Leaves(r, pop(s), k + 1, n)
      BY <3>6 DEF Leaves
    <3> QED
      BY <2>1, <3>4, <3>7
  <2> QED
    BY <2>1, <2>4 DEF a
<1>3. Seq(Req) \subseteq S
  <2> HIDE DEF S
  <2> QED
    BY <1>1, <1>2, SeqInd
<1>4. q \in S
  BY <1>3 DEF Req
<1> QED
  BY <1>4, Zenon

\* An empty ring has nothing to pop.
LEMMA EmptyPops ==
  ASSUME NEW r, is_empty(r), NEW Req, NEW q \in Seq(Req), \A k \in DOMAIN q : q[k].op = "pop"
  PROVE  RingAfter(r, q) = r
<1> DEFINE S == {u \in Seq(Req) : (\A k \in DOMAIN u : u[k].op = "pop") => RingAfter(r, u) = r}
<1>1. << >> \in S
  <2>1. RingAfter(r, << >>) = r
    <3>1. << >> \in Seq({0})
      OBVIOUS
    <3> QED
      BY <3>1, RingAfterAppend
  <2> QED
    BY <2>1
<1>2. ASSUME NEW p \in Seq(Req), NEW x \in Req, p \in S
      PROVE  Append(p, x) \in S
  <2> DEFINE a == Append(p, x)
  <2>1. a \in Seq(Req) /\ RingAfter(r, a) = ApplyRing(RingAfter(r, p), x)
    BY RingAfterAppend
  <2>2. ASSUME \A i \in DOMAIN a : a[i].op = "pop"
        PROVE  x.op = "pop" /\ \A i \in DOMAIN p : p[i].op = "pop"
    <3>1. a[Len(p) + 1] = x /\ Len(p) + 1 \in DOMAIN a /\ \A i \in DOMAIN p : i \in DOMAIN a /\ a[i] = p[i]
      OBVIOUS
    <3> HIDE DEF a
    <3> QED
      BY <2>2, <3>1
  <2> HIDE DEF a
  <2>3. ASSUME \A i \in DOMAIN a : a[i].op = "pop"
        PROVE  RingAfter(r, a) = r
    <3>1. RingAfter(r, p) = r /\ x.op = "pop"
      BY <1>2, <2>2, <2>3, Zenon
    <3> QED
      BY <2>1, <3>1 DEF ApplyRing, pop
  <2> QED
    BY <2>1, <2>3 DEF a
<1>3. Seq(Req) \subseteq S
  <2> HIDE DEF S
  <2> QED
    BY <1>1, <1>2, SeqInd
<1> QED
  BY <1>3

-----------------------------------------------------------------------------
(* A push takes effect at once, while the requests of the cycle wait: it   *)
(* comes to the same.                                                      *)

\* A push, written out.
LEMMA PushIs ==
  ASSUME NEW n \in Nat \ {0}, NEW T, NEW r \in Rings(n, T), ~is_full(r), NEW x \in T
  PROVE  push(r, x) = [slots |-> [r.slots EXCEPT ![r.wptr + 1] = x], rptr |-> r.rptr,
                       wptr |-> IF r.wptr + 1 = n THEN 0 ELSE r.wptr + 1,
                       wrapped |-> IF r.wptr + 1 = n THEN ~r.wrapped ELSE r.wrapped]
<1>1. r.wptr \in 0 .. n - 1 /\ x \in T \cup {Dead} /\ SizeOf(r) = n
  BY ShapeFacts
<1>2. PICK p \in 0 .. n - 1 : p = r.wptr
  BY <1>1
<1> DEFINE t == set_item(r, p, x)
<1>3. t = [slots |-> [r.slots EXCEPT ![p + 1] = x], rptr |-> r.rptr,
           wptr |-> r.wptr, wrapped |-> r.wrapped]
  BY <1>1, WriteSlot
<1>4. push(r, x) = [t EXCEPT !.wptr = IF r.wptr + 1 = n THEN 0 ELSE r.wptr + 1,
                             !.wrapped = IF r.wptr + 1 = n THEN ~@ ELSE @]
  BY <1>1, <1>2 DEF push
<1> HIDE DEF t
<1> QED
  BY <1>2, <1>3, <1>4

\* A pop, written out.
LEMMA PopIs ==
  ASSUME NEW n \in Nat \ {0}, NEW T, NEW r \in Rings(n, T), ~is_empty(r)
  PROVE  pop(r) = [slots |-> [r.slots EXCEPT ![r.rptr + 1] = Dead],
                   rptr |-> IF r.rptr + 1 = n THEN 0 ELSE r.rptr + 1, wptr |-> r.wptr,
                   wrapped |-> IF r.rptr + 1 = n THEN ~r.wrapped ELSE r.wrapped]
<1>1. r.rptr \in 0 .. n - 1 /\ Dead \in T \cup {Dead} /\ SizeOf(r) = n
  BY ShapeFacts
<1>2. PICK p \in 0 .. n - 1 : p = r.rptr
  BY <1>1
<1> DEFINE t == set_item(r, p, Dead)
<1>3. t = [slots |-> [r.slots EXCEPT ![p + 1] = Dead], rptr |-> r.rptr,
           wptr |-> r.wptr, wrapped |-> r.wrapped]
  BY <1>1, WriteSlot
<1>4. pop(r) = [t EXCEPT !.rptr = IF r.rptr + 1 = n THEN 0 ELSE r.rptr + 1,
                         !.wrapped = IF r.rptr + 1 = n THEN ~@ ELSE @]
  BY <1>1, <1>2 DEF pop
<1> HIDE DEF t
<1> QED
  BY <1>2, <1>3, <1>4

\* Two writes to different slots.
LEMMA TwoWrites ==
  ASSUME NEW I, NEW S, NEW f \in [I -> S], NEW i \in I, NEW j \in I, i # j, NEW x, NEW y
  PROVE  [[f EXCEPT ![i] = x] EXCEPT ![j] = y] = [[f EXCEPT ![j] = y] EXCEPT ![i] = x]
OBVIOUS

\* Two turns of the stage.
LEMMA TwoTurns ==
  ASSUME NEW A \in BOOLEAN, NEW B \in BOOLEAN, NEW c \in BOOLEAN, NEW d, NEW e,
         d = IF A THEN ~c ELSE c, e = IF B THEN ~c ELSE c
  PROVE  (IF B THEN ~d ELSE d) = (IF A THEN ~e ELSE e)
BY Zenon

\* A push and a pop commute while there is room and something to pop.
LEMMA PushPop ==
  ASSUME NEW n \in Nat \ {0}, NEW T, NEW r \in Rings(n, T), ~is_full(r), ~is_empty(r), NEW x \in T
  PROVE  ~is_empty(push(r, x)) /\ ~is_full(pop(r)) /\ pop(push(r, x)) = push(pop(r), x)
<1> DEFINE s == push(r, x)
           t == pop(r)
           w == r.wptr
           p == r.rptr
           lastw == w + 1 = n
           lastp == p + 1 = n
<1>1. /\ s \in Rings(n, T) /\ t \in Rings(n, T)
      /\ get_size(s) = get_size(r) + 1 /\ get_size(t) = get_size(r) - 1
  BY PushItem, PopItem
<1>2. ~is_empty(s) /\ ~is_full(t)
  <2> HIDE DEF s, t
  <2> QED
    BY <1>1, SizeIs
<1>3. s = [slots |-> [r.slots EXCEPT ![w + 1] = x], rptr |-> p,
           wptr |-> IF lastw THEN 0 ELSE w + 1, wrapped |-> IF lastw THEN ~r.wrapped ELSE r.wrapped]
  BY PushIs
<1>4. t = [slots |-> [r.slots EXCEPT ![p + 1] = Dead], rptr |-> IF lastp THEN 0 ELSE p + 1,
           wptr |-> w, wrapped |-> IF lastp THEN ~r.wrapped ELSE r.wrapped]
  BY PopIs
<1>5. w + 1 \in 1 .. n /\ p + 1 \in 1 .. n /\ w + 1 # p + 1 /\ r.slots \in [1 .. n -> T \cup {Dead}]
      /\ r.wrapped \in BOOLEAN
  BY ShapeFacts DEF is_full, is_empty
<1> HIDE DEF s, t
<1>6. pop(s) = [slots |-> [s.slots EXCEPT ![s.rptr + 1] = Dead],
                rptr |-> IF s.rptr + 1 = n THEN 0 ELSE s.rptr + 1, wptr |-> s.wptr,
                wrapped |-> IF s.rptr + 1 = n THEN ~s.wrapped ELSE s.wrapped]
  BY <1>1, <1>2, PopIs
<1>7. push(t, x) = [slots |-> [t.slots EXCEPT ![t.wptr + 1] = x], rptr |-> t.rptr,
                    wptr |-> IF t.wptr + 1 = n THEN 0 ELSE t.wptr + 1,
                    wrapped |-> IF t.wptr + 1 = n THEN ~t.wrapped ELSE t.wrapped]
  BY <1>1, <1>2, PushIs
<1>8. /\ s.slots = [r.slots EXCEPT ![w + 1] = x] /\ s.rptr = p
      /\ s.wptr = IF lastw THEN 0 ELSE w + 1
      /\ s.wrapped = IF lastw THEN ~r.wrapped ELSE r.wrapped
  BY <1>3
<1>9. /\ t.slots = [r.slots EXCEPT ![p + 1] = Dead] /\ t.wptr = w
      /\ t.rptr = IF lastp THEN 0 ELSE p + 1
      /\ t.wrapped = IF lastp THEN ~r.wrapped ELSE r.wrapped
  BY <1>4
<1>10. [s.slots EXCEPT ![s.rptr + 1] = Dead] = [t.slots EXCEPT ![t.wptr + 1] = x]
  <2>1. PICK f, i, j : /\ f = r.slots /\ i = w + 1 /\ j = p + 1 /\ f \in [1 .. n -> T \cup {Dead}]
                       /\ i \in 1 .. n /\ j \in 1 .. n /\ i # j
    BY <1>5
  <2>2. [[f EXCEPT ![i] = x] EXCEPT ![j] = Dead] = [[f EXCEPT ![j] = Dead] EXCEPT ![i] = x]
    BY <2>1, TwoWrites
  <2> QED
    BY <1>8, <1>9, <2>1, <2>2, Zenon
<1>11. (IF s.rptr + 1 = n THEN ~s.wrapped ELSE s.wrapped)
         = (IF t.wptr + 1 = n THEN ~t.wrapped ELSE t.wrapped)
  <2>1. (IF lastp THEN ~s.wrapped ELSE s.wrapped) = (IF lastw THEN ~t.wrapped ELSE t.wrapped)
    <3>1. lastp \in BOOLEAN /\ lastw \in BOOLEAN /\ r.wrapped \in BOOLEAN
      BY <1>5
    <3>2. /\ s.wrapped = IF lastw THEN ~r.wrapped ELSE r.wrapped
          /\ t.wrapped = IF lastp THEN ~r.wrapped ELSE r.wrapped
      BY <1>8, <1>9
    <3> HIDE DEF lastp, lastw
    <3> QED
      BY <3>1, <3>2, TwoTurns, Zenon
  <2> QED
    BY <1>8, <1>9, <2>1, Zenon
<1>12. pop(s) = push(t, x)
  <2>1. (IF s.rptr + 1 = n THEN 0 ELSE s.rptr + 1) = t.rptr
    BY <1>8, <1>9
  <2>2. s.wptr = IF t.wptr + 1 = n THEN 0 ELSE t.wptr + 1
    BY <1>8, <1>9
  <2> DEFINE a == [s.slots EXCEPT ![s.rptr + 1] = Dead]
             b == IF s.rptr + 1 = n THEN 0 ELSE s.rptr + 1
             d == IF s.rptr + 1 = n THEN ~s.wrapped ELSE s.wrapped
             e == [t.slots EXCEPT ![t.wptr + 1] = x]
             f == IF t.wptr + 1 = n THEN 0 ELSE t.wptr + 1
             g == IF t.wptr + 1 = n THEN ~t.wrapped ELSE t.wrapped
  <2>3. pop(s) = [slots |-> a, rptr |-> b, wptr |-> s.wptr, wrapped |-> d]
    BY <1>6
  <2>4. push(t, x) = [slots |-> e, rptr |-> t.rptr, wptr |-> f, wrapped |-> g]
    BY <1>7
  <2>5. a = e /\ b = t.rptr /\ s.wptr = f /\ d = g
    BY <1>10, <1>11, <2>1, <2>2
  <2> HIDE DEF a, b, d, e, f, g
  <2> QED
    BY <2>3, <2>4, <2>5
<1> QED
  BY <1>2, <1>12 DEF s, t

\* A push and a set_item of an element that is there commute.
LEMMA PushSet ==
  ASSUME NEW n \in Nat \ {0}, NEW T, NEW r \in Rings(n, T), ~is_full(r), NEW x \in T,
         NEW id \in 0 .. n - 1, NEW y \in T, check_id_valid(r, id)
  PROVE  /\ check_id_valid(push(r, x), id) /\ ~is_full(set_item(r, id, y))
         /\ set_item(push(r, x), id, y) = push(set_item(r, id, y), x)
<1> DEFINE s == push(r, x)
           t == set_item(r, id, y)
           w == r.wptr
           lastw == w + 1 = n
<1>1. /\ s \in Rings(n, T) /\ get_size(s) = get_size(r) + 1 /\ \A j : At(s, j) = At(r, j)
      /\ At(r, r.wptr) = get_size(r) + 1
  BY PushItem
<1>2. t \in Rings(n, T) /\ get_size(t) = get_size(r)
  BY ItemSet
<1>3. At(r, id) <= get_size(r)
  BY ValidIs
<1>4. check_id_valid(s, id) /\ ~is_full(t)
  <2> HIDE DEF s, t
  <2>1. At(s, id) <= get_size(s)
    BY <1>1, <1>3, PlaceAt, SizeIs
  <2> QED
    BY <1>1, <1>2, <2>1, ValidIs, SizeIs
<1>5. w + 1 \in 1 .. n /\ id + 1 \in 1 .. n /\ w + 1 # id + 1 /\ r.slots \in [1 .. n -> T \cup {Dead}]
      /\ x \in T \cup {Dead} /\ y \in T \cup {Dead}
  <2>1. w # id
    BY <1>1, <1>3, PlaceAt, SizeIs
  <2> QED
    BY <2>1, ShapeFacts
<1>6. s = [slots |-> [r.slots EXCEPT ![w + 1] = x], rptr |-> r.rptr,
           wptr |-> IF lastw THEN 0 ELSE w + 1, wrapped |-> IF lastw THEN ~r.wrapped ELSE r.wrapped]
  BY PushIs
<1>7. t = [slots |-> [r.slots EXCEPT ![id + 1] = y], rptr |-> r.rptr,
           wptr |-> w, wrapped |-> r.wrapped]
  BY <1>5, WriteSlot
<1> HIDE DEF s, t
<1>8. set_item(s, id, y) = [slots |-> [s.slots EXCEPT ![id + 1] = y], rptr |-> s.rptr,
                            wptr |-> s.wptr, wrapped |-> s.wrapped]
  BY <1>1, <1>5, WriteSlot
<1>9. push(t, x) = [slots |-> [t.slots EXCEPT ![t.wptr + 1] = x], rptr |-> t.rptr,
                    wptr |-> IF t.wptr + 1 = n THEN 0 ELSE t.wptr + 1,
                    wrapped |-> IF t.wptr + 1 = n THEN ~t.wrapped ELSE t.wrapped]
  <2>1. PICK u \in Rings(n, T) : u = t
    BY <1>2
  <2>2. ~is_full(u)
    BY <1>4, <2>1
  <2>3. push(u, x) = [slots |-> [u.slots EXCEPT ![u.wptr + 1] = x], rptr |-> u.rptr,
                      wptr |-> IF u.wptr + 1 = n THEN 0 ELSE u.wptr + 1,
                      wrapped |-> IF u.wptr + 1 = n THEN ~u.wrapped ELSE u.wrapped]
    BY <2>2, PushIs
  <2> QED
    BY <2>1, <2>3
<1>10. /\ s.slots = [r.slots EXCEPT ![w + 1] = x] /\ s.rptr = r.rptr
       /\ s.wptr = IF lastw THEN 0 ELSE w + 1
       /\ s.wrapped = IF lastw THEN ~r.wrapped ELSE r.wrapped
  BY <1>6
<1>11. /\ t.slots = [r.slots EXCEPT ![id + 1] = y] /\ t.wptr = w /\ t.rptr = r.rptr
       /\ t.wrapped = r.wrapped
  BY <1>7
<1>12. [s.slots EXCEPT ![id + 1] = y] = [t.slots EXCEPT ![t.wptr + 1] = x]
  <2>1. PICK f, i, j : /\ f = r.slots /\ i = w + 1 /\ j = id + 1 /\ f \in [1 .. n -> T \cup {Dead}]
                       /\ i \in 1 .. n /\ j \in 1 .. n /\ i # j
    BY <1>5
  <2>2. [[f EXCEPT ![i] = x] EXCEPT ![j] = y] = [[f EXCEPT ![j] = y] EXCEPT ![i] = x]
    BY <2>1, TwoWrites
  <2> QED
    BY <1>10, <1>11, <2>1, <2>2, Zenon
<1>13. set_item(s, id, y) = push(t, x)
  BY <1>8, <1>9, <1>10, <1>11, <1>12, Zenon
<1> QED
  BY <1>4, <1>13 DEF s, t

\* Rename and fetch push at once, the requests come at the end of the cycle: the
\* push might as well come after them.
LEMMA PushLater ==
  ASSUME NEW n \in Nat \ {0}, NEW T, Dead \notin T, NEW r \in Rings(n, T), ~is_full(r), NEW x \in T,
         NEW q \in Seq(RingRequest(n, T)), Founded(r, q)
  PROVE  /\ Founded(push(r, x), q) /\ ~is_full(RingAfter(r, q))
         /\ RingAfter(push(r, x), q) = push(RingAfter(r, q), x)
<1> DEFINE Req == RingRequest(n, T)
           v == push(r, x)
           S == {u \in Seq(Req) : Founded(r, u) => /\ Founded(v, u) /\ ~is_full(RingAfter(r, u))
                                                    /\ RingAfter(v, u) = push(RingAfter(r, u), x)}
<1> HIDE DEF Req
<1>0. [op |-> "pop"] \in Req /\ << >> \in Seq(Req)
  BY DEF Req, RingRequest
<1>1. << >> \in S
  <2>1. RingAfter(r, << >>) = r /\ RingAfter(v, << >>) = v /\ Founded(v, << >>)
    BY <1>0, RingAfterAppend, FoundedAppend
  <2> QED
    BY <1>0, <2>1
<1> HIDE DEF v
<1>2. ASSUME NEW p \in Seq(Req), NEW y \in Req, p \in S
      PROVE  Append(p, y) \in S
  <2> DEFINE a == Append(p, y)
  <2>1. a \in Seq(Req)
    OBVIOUS
  <2>2. /\ Founded(r, a) <=> Founded(r, p) /\ Finds(RingAfter(r, p), y)
        /\ Founded(v, a) <=> Founded(v, p) /\ Finds(RingAfter(v, p), y)
    BY FoundedAppend, Zenon
  <2>3. /\ RingAfter(r, a) = ApplyRing(RingAfter(r, p), y)
        /\ RingAfter(v, a) = ApplyRing(RingAfter(v, p), y)
    BY RingAfterAppend
  <2> HIDE DEF a
  <2>4. ASSUME Founded(r, a)
        PROVE  /\ Founded(v, a) /\ ~is_full(RingAfter(r, a))
               /\ RingAfter(v, a) = push(RingAfter(r, a), x)
    <3>1. Founded(v, p) /\ ~is_full(RingAfter(r, p)) /\ RingAfter(v, p) = push(RingAfter(r, p), x)
      BY <1>2, <2>2, <2>4, Zenon
    <3>2. RingAfter(r, p) \in Rings(n, T)
      BY <2>2, <2>4, RingSynced DEF Req
    <3>3. PICK s \in Rings(n, T) : s = RingAfter(r, p)
      BY <3>2
    <3>4. ~is_full(s) /\ Finds(s, y)
      BY <2>2, <2>4, <3>1, <3>3
    <3>5. /\ Finds(push(s, x), y) /\ ~is_full(ApplyRing(s, y))
          /\ ApplyRing(push(s, x), y) = push(ApplyRing(s, y), x)
      <4>1. CASE y.op = "pop"
        BY <3>4, <4>1, PushPop DEF Finds, ApplyRing
      <4>2. CASE y.op # "pop"
        <5>1. y.id \in 0 .. n - 1 /\ y.item \in T
          BY <4>2 DEF Req, RingRequest
        <5> QED
          BY <3>4, <4>2, <5>1, PushSet DEF Finds, ApplyRing
      <4> QED
        BY <4>1, <4>2
    <3> QED
      BY <2>2, <2>3, <3>1, <3>3, <3>5
  <2> QED
    BY <2>1, <2>4 DEF a
<1>3. Seq(Req) \subseteq S
  <2> HIDE DEF S
  <2> QED
    BY <1>1, <1>2, SeqInd
<1>4. q \in S
  BY <1>3 DEF Req
<1> QED
  BY <1>4, Zenon DEF v

-----------------------------------------------------------------------------
(* What the requests in the queues will leave, in every state.             *)

\* Requests never move the write pointer.
LEMMA RingWptr ==
  ASSUME NEW n \in Nat \ {0}, NEW T, Dead \notin T, NEW r \in Rings(n, T),
         NEW q \in Seq(RingRequest(n, T)), Founded(r, q)
  PROVE  RingAfter(r, q).wptr = r.wptr
<1> DEFINE Req == RingRequest(n, T)
           S == {u \in Seq(Req) : Founded(r, u) => RingAfter(r, u).wptr = r.wptr}
<1> HIDE DEF Req
<1>0. [op |-> "pop"] \in Req /\ << >> \in Seq(Req)
  BY DEF Req, RingRequest
<1>1. << >> \in S
  <2>1. RingAfter(r, << >>) = r
    BY <1>0, RingAfterAppend
  <2> QED
    BY <1>0, <2>1
<1>2. ASSUME NEW p \in Seq(Req), NEW y \in Req, p \in S
      PROVE  Append(p, y) \in S
  <2> DEFINE a == Append(p, y)
  <2>1. a \in Seq(Req)
    OBVIOUS
  <2>2. Founded(r, a) <=> Founded(r, p) /\ Finds(RingAfter(r, p), y)
    BY FoundedAppend, Zenon
  <2>3. RingAfter(r, a) = ApplyRing(RingAfter(r, p), y)
    BY RingAfterAppend
  <2> HIDE DEF a
  <2>4. ASSUME Founded(r, a)
        PROVE  RingAfter(r, a).wptr = r.wptr
    <3>1. RingAfter(r, p).wptr = r.wptr
      BY <1>2, <2>2, <2>4, Zenon
    <3>2. RingAfter(r, p) \in Rings(n, T)
      BY <2>2, <2>4, RingSynced DEF Req
    <3>3. PICK s \in Rings(n, T) : s = RingAfter(r, p)
      BY <3>2
    <3>4. Finds(s, y)
      BY <2>2, <2>4, <3>3
    <3>5. ApplyRing(s, y).wptr = s.wptr
      <4>1. CASE y.op = "pop"
        BY <3>4, <4>1, PopLeaves DEF Finds, ApplyRing
      <4>2. CASE y.op # "pop"
        <5>1. y.id \in 0 .. n - 1 /\ y.item \in T
          BY <4>2 DEF Req, RingRequest
        <5> QED
          BY <4>2, <5>1, ItemSet DEF ApplyRing
      <4> QED
        BY <4>1, <4>2
    <3> QED
      BY <2>3, <3>1, <3>3, <3>5
  <2> QED
    BY <2>1, <2>4 DEF a
<1>3. Seq(Req) \subseteq S
  <2> HIDE DEF S
  <2> QED
    BY <1>1, <1>2, SeqInd
<1>4. q \in S
  BY <1>3 DEF Req
<1> QED
  BY <1>4, Zenon

\* The two rings have room, and identifiers are what RobId and CpId say.
LEMMA Sizes ==
  /\ ROB_SIZE \in Nat \ {0} /\ CHECKPOINT_BUFFER_SIZE \in Nat \ {0}
  /\ RobId = 0 .. ROB_SIZE - 1 /\ CpId = 0 .. CHECKPOINT_BUFFER_SIZE - 1
BY PipelineAssumption DEF RobId, CpId

\* What pop leaves behind is no element.
LEMMA DeadIsNone == Dead \notin Entry /\ Dead \notin CheckpointType
<1>1. "dead" \in DOMAIN Dead
  BY DEF Dead
<1>2. \A x \in Entry : DOMAIN x = {"new", "old", "finish", "cp", "wrong"}
  BY DEF Entry, RobItem
<1>3. \A x \in CheckpointType : DOMAIN x = {"valid", "visible"}
  BY DEF CheckpointType
<1> QED
  BY <1>1, <1>2, <1>3

\* The checkpoint buffer as the cycle will leave it.
LEMMA CpIs ==
  Types /\ RingsOK =>
    /\ SyncedCp \in Rings(CHECKPOINT_BUFFER_SIZE, CheckpointType)
    /\ SyncedCp.wptr = checkpoint_buffer.wptr
<1> SUFFICES ASSUME Types, RingsOK
             PROVE  /\ SyncedCp \in Rings(CHECKPOINT_BUFFER_SIZE, CheckpointType)
                    /\ SyncedCp.wptr = checkpoint_buffer.wptr
  OBVIOUS
<1>1. /\ checkpoint_buffer \in Rings(CHECKPOINT_BUFFER_SIZE, CheckpointType)
      /\ cp_q \in Seq(RingRequest(CHECKPOINT_BUFFER_SIZE, CheckpointType))
  BY DEF Types
<1>2. Founded(checkpoint_buffer, cp_q)
  BY DEF RingsOK
<1> QED
  BY <1>1, <1>2, Sizes, DeadIsNone, RingSynced, RingWptr DEF SyncedCp

\* The reorder buffer as the cycle will leave it.
LEMMA RobIs ==
  Types /\ RingsOK =>
    /\ SyncedRob \in Rings(ROB_SIZE, Entry) /\ Tight(SyncedRob)
    /\ SyncedRob.wptr = rob.wptr
    /\ ~Founded(rob, rob_q) => SyncedRob = rob
<1> SUFFICES ASSUME Types, RingsOK
             PROVE  /\ SyncedRob \in Rings(ROB_SIZE, Entry) /\ Tight(SyncedRob)
                    /\ SyncedRob.wptr = rob.wptr
                    /\ ~Founded(rob, rob_q) => SyncedRob = rob
  OBVIOUS
<1>1. rob \in Rings(ROB_SIZE, Entry) /\ Tight(rob) /\ rob_q \in Seq(RingRequest(ROB_SIZE, Entry))
  BY DEF Types
<1>2. CASE Founded(rob, rob_q)
  BY <1>1, <1>2, Sizes, DeadIsNone, RingSynced, RingWptr DEF SyncedRob
<1>3. CASE ~Founded(rob, rob_q)
  <2>1. is_empty(rob) /\ \A k \in DOMAIN rob_q : rob_q[k].op = "pop"
    BY <1>3 DEF RingsOK
  <2>2. SyncedRob = rob
    BY <1>1, <2>1, EmptyPops DEF SyncedRob
  <2> QED
    BY <1>1, <2>2
<1> QED
  BY <1>2, <1>3

\* A live entry.
LEMMA LiveIs ==
  Types /\ RingsOK =>
    \A id \in RobId :
      /\ Ent(id) # Dead <=> check_id_valid(SyncedRob, id)
      /\ check_id_valid(SyncedRob, id) <=> At(SyncedRob, id) <= get_size(SyncedRob)
      /\ Ent(id) # Dead => Ent(id) \in Entry
<1> SUFFICES ASSUME Types, RingsOK, NEW id \in RobId
             PROVE  /\ Ent(id) # Dead <=> check_id_valid(SyncedRob, id)
                    /\ check_id_valid(SyncedRob, id) <=> At(SyncedRob, id) <= get_size(SyncedRob)
                    /\ Ent(id) # Dead => Ent(id) \in Entry
  OBVIOUS
<1>1. PICK s \in Rings(ROB_SIZE, Entry) : s = SyncedRob /\ Tight(s)
  BY RobIs
<1>2. check_id_valid(s, id) <=> At(s, id) <= get_size(s)
  BY Sizes, ValidIs
<1>3. At(s, id) <= get_size(s) => get_item(s, id) \in Entry
  BY Sizes, ItemAt
<1>4. get_item(s, id) # Dead => check_id_valid(s, id)
  BY <1>1, Sizes, ShapeFacts DEF Tight
<1> QED
  BY <1>1, <1>2, <1>3, <1>4, DeadIsNone DEF Ent

-----------------------------------------------------------------------------
(* The table and the data-valid bits the requests will leave.              *)

\* What a request does to the table when the mappings alone are applied.
ApplyMap(r, x) == IF x.op = "set_map" THEN ApplyRat(r, x) ELSE r

\* MapsAfter as a recursive function that stands on its own.
LEMMA MapsAfterIs ==
  ASSUME NEW r, NEW q, Len(q) \in Nat
  PROVE  \E f : /\ f = [k \in 0 .. Len(q) |-> IF k = 0 THEN r ELSE ApplyMap(f[k - 1], q[k])]
               /\ MapsAfter(r, q) = f[Len(q)]
<1> DEFINE Further(s, k) == ApplyMap(s, q[k])
           Step(g, k) == IF k = 0 THEN r ELSE Further(g[k - 1], k)
           S == {n \in Nat : \E g : g = [k \in 0 .. n |-> Step(g, k)]}
           f == CHOOSE g : g = [k \in 0 .. Len(q) |-> Step(g, k)]
<1> HIDE DEF Further
<1>1. 0 \in S
  <2> DEFINE g == [k \in 0 .. 0 |-> r]
  <2>1. g = [k \in 0 .. 0 |-> Step(g, k)]
    OBVIOUS
  <2> QED
    BY <2>1
<1>2. ASSUME NEW n \in Nat, n \in S
      PROVE  n + 1 \in S
  <2>1. PICK g : g = [k \in 0 .. n |-> Step(g, k)]
    BY <1>2
  <2> DEFINE h == [k \in 0 .. n + 1 |-> IF k = n + 1 THEN Further(g[n], n + 1) ELSE g[k]]
  <2>2. \A k \in 0 .. n + 1 : h[k] = Step(h, k)
    <3> SUFFICES ASSUME NEW k \in 0 .. n + 1
                 PROVE  h[k] = Step(h, k)
      OBVIOUS
    <3>1. CASE k = n + 1
      BY <3>1
    <3>2. CASE k \in 0 .. n
      <4>1. g[k] = Step(g, k)
        BY <2>1, <3>2, Zenon
      <4> QED
        BY <4>1, <3>2
    <3> QED
      BY <3>1, <3>2
  <2>3. h = [k \in 0 .. n + 1 |-> Step(h, k)]
    <3> HIDE DEF Step
    <3> QED
      BY <2>2
  <2> HIDE DEF h
  <2> QED
    BY <2>3
<1>3. Len(q) \in S
  <2> HIDE DEF S
  <2> QED
    BY <1>1, <1>2, NatInd
<1>4. f = [k \in 0 .. Len(q) |-> Step(f, k)]
  BY <1>3, Zenon
<1>5. MapsAfter(r, q) = f[Len(q)]
  BY Zenon DEF MapsAfter, Further, ApplyMap
<1> QED
  BY <1>4, <1>5, Zenon DEF Further

\* A mapping more is applied last.
LEMMA MapsAfterAppend ==
  ASSUME NEW r, NEW T, NEW q \in Seq(T), NEW x \in T
  PROVE  /\ MapsAfter(r, << >>) = r
         /\ MapsAfter(r, Append(q, x)) = ApplyMap(MapsAfter(r, q), x)
<1> DEFINE p == Append(q, x)
           Further(s, y) == ApplyMap(s, y)
<1>1. Len(q) \in Nat /\ Len(p) = Len(q) + 1 /\ p[Len(p)] = x /\ \A k \in 1 .. Len(q) : p[k] = q[k]
  OBVIOUS
<1> HIDE DEF p, Further
<1>2. PICK f : /\ f = [k \in 0 .. Len(q) |-> IF k = 0 THEN r ELSE Further(f[k - 1], q[k])]
              /\ MapsAfter(r, q) = f[Len(q)]
  BY <1>1, MapsAfterIs, Zenon DEF Further
<1>3. PICK g : /\ g = [k \in 0 .. Len(p) |-> IF k = 0 THEN r ELSE Further(g[k - 1], p[k])]
              /\ MapsAfter(r, p) = g[Len(p)]
  <2>1. Len(p) \in Nat
    BY <1>1
  <2> QED
    BY <2>1, MapsAfterIs, Zenon DEF Further
<1> DEFINE S == {k \in Nat : f[k] = g[k]}
<1>4. 0 \in S
  BY <1>1, <1>2, <1>3
<1>5. ASSUME NEW k \in 0 .. Len(q) - 1, k \in S
      PROVE  k + 1 \in S
  <2>1. f[k + 1] = Further(f[k], q[k + 1])
    BY <1>1, <1>2
  <2>2. g[k + 1] = Further(g[k], p[k + 1])
    BY <1>1, <1>3
  <2> QED
    BY <1>1, <1>5, <2>1, <2>2
<1>6. f[Len(q)] = g[Len(q)]
  <2>1. 0 .. Len(q) \subseteq S
    <3> HIDE DEF S
    <3> QED
      BY <1>1, <1>4, <1>5, UpTo
  <2> QED
    BY <1>1, <2>1
<1>7. g[Len(p)] = Further(g[Len(q)], x)
  BY <1>1, <1>3
<1>8. MapsAfter(r, p) = Further(MapsAfter(r, q), x)
  BY <1>2, <1>3, <1>6, <1>7
<1>9. MapsAfter(r, << >>) = r
  <2>1. PICK e : e = << >> /\ Len(e) = 0
    OBVIOUS
  <2>2. PICK h : /\ h = [k \in 0 .. Len(e) |-> IF k = 0 THEN r ELSE Further(h[k - 1], e[k])]
                /\ MapsAfter(r, e) = h[Len(e)]
    <3>1. Len(e) \in Nat
      BY <2>1
    <3> QED
      BY <3>1, MapsAfterIs, Zenon DEF Further
  <2>3. h[Len(e)] = r
    BY <2>1, <2>2
  <2> QED
    BY <2>1, <2>2, <2>3
<1> QED
  BY <1>8, <1>9, Zenon DEF p, Further


\* Every request leaves an alias table.
LEMMA ApplyTyped ==
  ASSUME NEW r \in RatType, NEW x \in RatRequest
  PROVE  ApplyRat(r, x) \in RatType /\ ApplyMap(r, x) \in RatType
<1>1. /\ r.table \in [Phy -> 0 .. ARCH_REG_NUM - 1] /\ r.valid \subseteq Phy
      /\ r.visible \subseteq Phy /\ r.commit \subseteq Phy
  BY DEF RatType
<1>2. 0 \in 0 .. ARCH_REG_NUM - 1 /\ Arch \subseteq 0 .. ARCH_REG_NUM - 1
  BY RatAssumption DEF Arch
<1>3. ASSUME x \in [op : {"set_map"}, arch : Arch, phy : Phy]
      PROVE  ApplyRat(r, x) \in RatType
  <2>1. x.op = "set_map" /\ x.arch \in Arch /\ x.phy \in Phy
    BY <1>3
  <2>2. set_map(r, x.arch, x.phy) \in RatType
    BY <1>1, <1>2, <2>1 DEF set_map, RatType
  <2> QED
    BY <2>1, <2>2 DEF ApplyRat
<1>4. ASSUME x \in [op : {"release_map", "commit_map"}, phy : Phy]
      PROVE  ApplyRat(r, x) \in RatType
  <2>1. x.op \in {"release_map", "commit_map"} /\ x.phy \in Phy
    BY <1>4
  <2>2. release_map(r, x.phy) \in RatType /\ commit_map(r, x.phy) \in RatType
    BY <1>1, <1>2, <2>1 DEF release_map, commit_map, RatType
  <2> QED
    BY <2>1, <2>2 DEF ApplyRat
<1>5. ASSUME x \in [op : {"restore_map"}, new : Phy, old : Phy]
      PROVE  ApplyRat(r, x) \in RatType
  <2>1. x.op = "restore_map" /\ x.new \in Phy /\ x.old \in Phy
    BY <1>5
  <2>2. restore_map(r, x.new, x.old) \in RatType
    BY <1>1, <1>2, <2>1 DEF restore_map, RatType
  <2> QED
    BY <2>1, <2>2 DEF ApplyRat
<1>6. ASSUME x \in [op : {"restore"}, cp : Checkpoint]
      PROVE  ApplyRat(r, x) \in RatType
  <2>1. x.op = "restore" /\ x.cp.valid \subseteq Phy /\ x.cp.visible \subseteq Phy
    BY <1>6 DEF Checkpoint
  <2>2. restore(r, x.cp) \in RatType
    BY <1>1, <2>1 DEF restore, RatType
  <2> QED
    BY <2>1, <2>2 DEF ApplyRat
<1>7. ApplyRat(r, x) \in RatType
  BY <1>3, <1>4, <1>5, <1>6 DEF RatRequest
<1> QED
  BY <1>7 DEF ApplyMap

\* So do all of them.
LEMMA RatTyped ==
  ASSUME NEW r \in RatType, NEW q \in Seq(RatRequest)
  PROVE  RatAfter(r, q) \in RatType /\ MapsAfter(r, q) \in RatType
<1> DEFINE S == {u \in Seq(RatRequest) : RatAfter(r, u) \in RatType /\ MapsAfter(r, u) \in RatType}
<1>0. << >> \in Seq(RatRequest) /\ << >> \in Seq({0}) /\ 0 \in {0}
  OBVIOUS
<1>1. << >> \in S
  <2>1. RatAfter(r, << >>) = r /\ MapsAfter(r, << >>) = r
    BY <1>0, RatAfterAppend, MapsAfterAppend
  <2> QED
    BY <1>0, <2>1
<1>2. ASSUME NEW p \in Seq(RatRequest), NEW x \in RatRequest, p \in S
      PROVE  Append(p, x) \in S
  <2>1. Append(p, x) \in Seq(RatRequest)
    OBVIOUS
  <2>2. /\ RatAfter(r, Append(p, x)) = ApplyRat(RatAfter(r, p), x)
        /\ MapsAfter(r, Append(p, x)) = ApplyMap(MapsAfter(r, p), x)
    BY RatAfterAppend, MapsAfterAppend
  <2> QED
    BY <1>2, <2>1, <2>2, ApplyTyped
<1>3. Seq(RatRequest) \subseteq S
  <2> HIDE DEF S
  <2> QED
    BY <1>1, <1>2, SeqInd
<1> QED
  BY <1>3

\* What the requests leave of the data-valid bits.
LEMMA RegTyped ==
  ASSUME NEW d \in SUBSET Phy, NEW q \in Seq(RegRequest)
  PROVE  RegAfter(d, q) \in SUBSET Phy
<1> DEFINE S == {u \in Seq(RegRequest) : RegAfter(d, u) \in SUBSET Phy}
<1>0. << >> \in Seq(RegRequest) /\ << >> \in Seq({0}) /\ 0 \in {0}
  OBVIOUS
<1>1. << >> \in S
  <2>1. RegAfter(d, << >>) = d
    BY <1>0, RegAfterAppend
  <2> QED
    BY <1>0, <2>1
<1>2. ASSUME NEW p \in Seq(RegRequest), NEW x \in RegRequest, p \in S
      PROVE  Append(p, x) \in S
  <2>1. Append(p, x) \in Seq(RegRequest)
    OBVIOUS
  <2>2. RegAfter(d, Append(p, x)) = ApplyReg(RegAfter(d, p), x)
    BY RegAfterAppend
  <2>3. ApplyReg(RegAfter(d, p), x) \in SUBSET Phy
    <3>1. RegAfter(d, p) \subseteq Phy
      BY <1>2
    <3>2. CASE x \in [op : {"write"}, phy : Phy, valid : BOOLEAN]
      <4>1. x.op = "write" /\ x.phy \in Phy /\ x.valid \in BOOLEAN
        BY <3>2
      <4>2. CASE x.valid
        BY <3>1, <4>1, <4>2, Zenon DEF ApplyReg
      <4>3. CASE ~x.valid
        BY <3>1, <4>1, <4>3 DEF ApplyReg
      <4> QED
        BY <4>2, <4>3
    <3>3. CASE x \in [op : {"restore"}, cp : Checkpoint]
      <4>1. x.op = "restore" /\ x.cp.data_valid \in SUBSET Phy
        BY <3>3 DEF Checkpoint
      <4> QED
        BY <4>1 DEF ApplyReg
    <3> QED
      BY <3>2, <3>3 DEF RegRequest
  <2> QED
    BY <2>1, <2>2, <2>3
<1>3. Seq(RegRequest) \subseteq S
  <2> HIDE DEF S
  <2> QED
    BY <1>1, <1>2, SeqInd
<1> QED
  BY <1>3

-----------------------------------------------------------------------------
(* What is known of an entry, and the streams of instructions after fetch. *)

\* A register of every rank below the number of the free ones.
LEMMA Ranked ==
  ASSUME NEW F, F \subseteq Nat, IsFiniteSet(F), NEW m \in Nat, m < Cardinality(F)
  PROVE  \E p \in F : Cardinality({q \in F : q < p}) = m
<1> DEFINE Rank(p) == {q \in F : q < p}
           S == {k \in Nat : k < Cardinality(F) => \E p \in F : Cardinality(Rank(p)) = k}
<1>0. Cardinality(F) \in Nat /\ \A G : G \subseteq F => IsFiniteSet(G) /\ Cardinality(G) \in Nat
  BY FS_Subset, FS_CardinalityType
<1>1. 0 \in S
  <2> SUFFICES ASSUME 0 < Cardinality(F)
               PROVE  \E p \in F : Cardinality(Rank(p)) = 0
    OBVIOUS
  <2>1. F # {}
    BY FS_EmptySet
  <2>2. PICK p \in F : \A q \in F : p <= q
    BY <2>1, LeastElement
  <2>3. Rank(p) = {}
    <3>1. \A q \in F : p \in Nat /\ q \in Nat /\ ~(q < p)
      BY <2>2
    <3> QED
      BY <3>1
  <2> QED
    BY <2>3, FS_EmptySet
<1>2. ASSUME NEW k \in Nat, k \in S
      PROVE  k + 1 \in S
  <2> SUFFICES ASSUME k + 1 < Cardinality(F)
               PROVE  \E p \in F : Cardinality(Rank(p)) = k + 1
    OBVIOUS
  <2>1. PICK p \in F : Cardinality(Rank(p)) = k
    BY <1>0, <1>2
  <2> DEFINE G == Rank(p) \cup {p}
             H == F \ G
  <2>2. Cardinality(G) = k + 1 /\ G \subseteq F
    <3>1. p \notin Rank(p) /\ IsFiniteSet(Rank(p))
      BY <1>0
    <3> QED
      BY <2>1, <3>1, FS_AddElement
  <2>3. H # {} /\ H \subseteq Nat
    <3>1. G # F
      BY <2>2
    <3> QED
      BY <2>2, <3>1
  <2>4. PICK r \in H : \A q \in H : r <= q
    BY <2>3, LeastElement
  <2>5. Rank(r) = G
    <3>1. ASSUME NEW q \in Rank(r)
          PROVE  q \in G
      BY <2>4, <3>1
    <3>2. ASSUME NEW q \in G
          PROVE  q \in Rank(r)
      <4>1. r \in F /\ ~(r < p) /\ r # p
        BY <2>4
      <4>2. p < r
        BY <4>1
      <4> QED
        BY <3>2, <4>1, <4>2
    <3> QED
      BY <3>1, <3>2
  <2> QED
    BY <2>2, <2>4, <2>5
<1>3. m \in S
  <2> HIDE DEF S
  <2> QED
    BY <1>1, <1>2, NatInd
<1> QED
  BY <1>3


\* What is known of an entry is what the pack, the answer or the entry says.
LEMMA KnownIs ==
  Types /\ RingsOK /\ AnswersOK /\ Straight =>
    \A id \in RobId :
      /\ \A x \in inflight : x.id = id => Known(id).cp = x.cp /\ PacksOf(id) = {x}
      /\ \A k \in DOMAIN port : port[k].id = id =>
           Known(id).cp = port[k].cp /\ Known(id).finish = port[k].result /\ PacksOf(id) = {}
      /\ Ent(id) # Dead /\ Ent(id).finish # "no" => Known(id) = Ent(id) /\ PacksOf(id) = {}
      /\ \/ \E x \in inflight : x.id = id
         \/ \E k \in DOMAIN port : port[k].id = id
         \/ Ent(id) # Dead /\ Ent(id).finish # "no"
         \/ Ent(id) = Dead
<1> SUFFICES ASSUME Types, RingsOK, AnswersOK, Straight, NEW id \in RobId
             PROVE  /\ \A x \in inflight : x.id = id => Known(id).cp = x.cp /\ PacksOf(id) = {x}
                    /\ \A k \in DOMAIN port : port[k].id = id =>
                         Known(id).cp = port[k].cp /\ Known(id).finish = port[k].result /\ PacksOf(id) = {}
                    /\ Ent(id) # Dead /\ Ent(id).finish # "no" => Known(id) = Ent(id) /\ PacksOf(id) = {}
                    /\ \/ \E x \in inflight : x.id = id
                       \/ \E k \in DOMAIN port : port[k].id = id
                       \/ Ent(id) # Dead /\ Ent(id).finish # "no"
                       \/ Ent(id) = Dead
  OBVIOUS
<1>1. /\ \A x, y \in inflight : x.id = y.id => x = y
      /\ \A i, j \in DOMAIN port : port[i].id = port[j].id => i = j
      /\ \A x \in inflight, i \in DOMAIN port : x.id # port[i].id
      /\ \A x \in inflight : Unanswered(x)
      /\ \A i \in DOMAIN port : Unanswered(port[i])
      /\ Ent(id) # Dead /\ Ent(id).finish = "no" => PacksOf(id) # {} \/ AnswersOf(id) # {}
  BY DEF AnswersOK
<1>2. cur_state = "normal"
  BY DEF Straight
<1>3. Known(id) =
        IF AnswersOf(id) # {}
        THEN LET a == CHOOSE a \in AnswersOf(id) : TRUE
             IN  [Ent(id) EXCEPT !.finish = a.result, !.cp = a.cp]
        ELSE IF PacksOf(id) # {}
             THEN [Ent(id) EXCEPT !.cp = (CHOOSE pack \in PacksOf(id) : TRUE).cp]
             ELSE Ent(id)
  BY <1>2 DEF Known, Ent
<1>4. ASSUME NEW x \in inflight, x.id = id
      PROVE  Known(id).cp = x.cp /\ PacksOf(id) = {x}
  <2>1. PacksOf(id) = {x}
    BY <1>1, <1>4 DEF PacksOf
  <2>2. AnswersOf(id) = {}
    BY <1>1, <1>4 DEF AnswersOf
  <2>3. (CHOOSE pack \in PacksOf(id) : TRUE) = x
    BY <2>1
  <2>4. Known(id) = [Ent(id) EXCEPT !.cp = x.cp]
    BY <1>3, <2>1, <2>2, <2>3
  <2>5. Ent(id) \in Entry
    BY <1>1, <1>4, LiveIs DEF Unanswered
  <2>6. [Ent(id) EXCEPT !.cp = x.cp].cp = x.cp
    BY <2>5 DEF Entry, RobItem
  <2> QED
    BY <2>1, <2>4, <2>6
<1>5. ASSUME NEW k \in DOMAIN port, port[k].id = id
      PROVE  Known(id).cp = port[k].cp /\ Known(id).finish = port[k].result /\ PacksOf(id) = {}
  <2>1. PacksOf(id) = {}
    BY <1>1, <1>5 DEF PacksOf
  <2>2. AnswersOf(id) = {port[k]}
    BY <1>1, <1>5 DEF AnswersOf
  <2>3. (CHOOSE a \in AnswersOf(id) : TRUE) = port[k]
    BY <2>2
  <2>4. Known(id) = [Ent(id) EXCEPT !.finish = port[k].result, !.cp = port[k].cp]
    BY <1>3, <2>2, <2>3
  <2>5. Ent(id) \in Entry
    BY <1>1, <1>5, LiveIs DEF Unanswered
  <2>6. \A a, b : /\ [Ent(id) EXCEPT !.finish = a, !.cp = b].cp = b
                  /\ [Ent(id) EXCEPT !.finish = a, !.cp = b].finish = a
    BY <2>5 DEF Entry, RobItem
  <2> QED
    BY <2>1, <2>4, <2>6
<1>6. ASSUME Ent(id) # Dead, Ent(id).finish # "no"
      PROVE  Known(id) = Ent(id) /\ PacksOf(id) = {}
  <2>1. PacksOf(id) = {}
    BY <1>1, <1>6 DEF PacksOf, Unanswered
  <2>2. AnswersOf(id) = {}
    BY <1>1, <1>6 DEF AnswersOf, Unanswered
  <2> QED
    BY <1>3, <2>1, <2>2
<1>7. PacksOf(id) # {} => \E x \in inflight : x.id = id
  BY DEF PacksOf
<1>8. AnswersOf(id) # {} => \E k \in DOMAIN port : port[k].id = id
  BY DEF AnswersOf
<1> QED
  BY <1>1, <1>4, <1>5, <1>6, <1>7, <1>8

\* The requests of the reorder buffer find what they ask for, unless commit flushes.
LEMMA FoundRob == RingsOK /\ Straight => Founded(rob, rob_q)
BY DEF RingsOK, Straight

\* The live entries are those of the ring with the requests applied.
LEMMA LiveRobIs ==
  Types /\ RingsOK /\ Straight =>
    /\ Len(LiveRob) = get_size(SyncedRob) /\ get_size(SyncedRob) \in 0 .. ROB_SIZE
    /\ \A i \in 1 .. get_size(SyncedRob) :
         LiveRob[i] = Place(SyncedRob, i) /\ LiveRob[i] \in RobId /\ Ent(LiveRob[i]) \in Entry
<1> SUFFICES ASSUME Types, RingsOK, Straight
             PROVE  /\ Len(LiveRob) = get_size(SyncedRob) /\ get_size(SyncedRob) \in 0 .. ROB_SIZE
                    /\ \A i \in 1 .. get_size(SyncedRob) :
                         LiveRob[i] = Place(SyncedRob, i) /\ LiveRob[i] \in RobId
                         /\ Ent(LiveRob[i]) \in Entry
  OBVIOUS
<1> DEFINE n == ROB_SIZE
           ids == LiveIds(rob)
           k == Cardinality(Pops)
<1>1. rob \in Rings(n, Entry) /\ rob_q \in Seq(RingRequest(n, Entry)) /\ Founded(rob, rob_q)
  BY FoundRob DEF Types
<1>2. PICK s \in Rings(n, Entry) : s = SyncedRob
  BY RobIs
<1>3. Shorter(rob, s, k, n)
  <2>1. Pops = PopsIn(rob_q)
    BY DEF Pops, PopsIn
  <2> QED
    BY <1>1, <1>2, <2>1, Sizes, DeadIsNone, RingShorter DEF SyncedRob
<1>4. /\ ids \in Seq(0 .. n - 1) /\ Len(ids) = get_size(rob) /\ get_size(rob) \in 0 .. n
      /\ \A i \in 1 .. get_size(rob) : ids[i] = Place(rob, i)
  BY <1>1, Sizes, LiveIdsIs, SizeIs
<1>5. LiveRob = SubSeq(ids, k + 1, Len(ids))
  BY DEF LiveRob, Straight
<1>6. k \in 0 .. get_size(rob) /\ get_size(s) = get_size(rob) - k
      /\ \A i \in 1 .. n - k : Place(s, i) = Place(rob, i + k)
  BY <1>3 DEF Shorter
<1> HIDE DEF n, ids, k
<1>7. Len(LiveRob) = get_size(s) /\ \A i \in 1 .. get_size(s) : LiveRob[i] = Place(s, i)
  <2>1. n \in Nat
    BY Sizes DEF n
  <2>2. Len(LiveRob) = get_size(s) /\ \A i \in 1 .. get_size(s) : LiveRob[i] = ids[i + k]
    BY <1>4, <1>5, <1>6, <2>1
  <2>3. ASSUME NEW i \in 1 .. get_size(s)
        PROVE  LiveRob[i] = Place(s, i)
    <3>1. i + k \in 1 .. get_size(rob) /\ i \in 1 .. n - k
      BY <1>4, <1>6, <2>1
    <3> QED
      BY <1>4, <1>6, <2>2, <3>1
  <2> QED
    BY <2>2, <2>3
<1>8. \A i \in 1 .. get_size(s) : Place(s, i) \in RobId /\ get_item(s, Place(s, i)) \in Entry
  <2>1. ROB_SIZE \in Nat /\ get_size(s) \in 0 .. ROB_SIZE
    BY <1>2, Sizes, SizeIs DEF n
  <2>2. \A i \in 1 .. get_size(s) : Place(s, i) \in RobId
    BY <1>2, <2>1, Sizes, AtPlace DEF n
  <2>3. \A i \in 1 .. get_size(s) : get_item(s, Place(s, i)) \in Entry
    BY <1>2 DEF Rings
  <2> QED
    BY <2>2, <2>3
<1> QED
  BY <1>2, <1>4, <1>6, <1>7, <1>8, Sizes DEF Ent, n

\* The instructions after fetch, and what is known of each.
Stream == get_size(SyncedRob) + Len(front)

\* What the pack, the answer or the entry at a place says is in the streams.
Tells(i) ==
  LET id == Place(SyncedRob, i)
  IN  /\ \A x \in inflight : x.id = id =>
           LiveCheckpoints[i] = x.cp /\ (JumpsPending[i] <=> x.kind = "jump")
      /\ \A k \in DOMAIN port : port[k].id = id =>
           LiveCheckpoints[i] = port[k].cp /\ (JumpsPending[i] <=> port[k].result = "jump")
      /\ Ent(id).finish # "no" =>
           LiveCheckpoints[i] = Ent(id).cp /\ (JumpsPending[i] <=> Ent(id).finish = "jump")
      /\ \/ \E x \in inflight : x.id = id
         \/ \E k \in DOMAIN port : port[k].id = id
         \/ Ent(id).finish # "no"

\* The streams are as long as what is live, and say what the instructions say.
LEMMA StreamIs ==
  Types /\ RingsOK /\ AnswersOK /\ Straight =>
    /\ Len(LiveCheckpoints) = Stream /\ Len(JumpsPending) = Stream /\ Stream \in Nat
    /\ \A i \in 1 .. get_size(SyncedRob) : Tells(i)
    /\ \A i \in 1 .. Len(front) :
         /\ LiveCheckpoints[get_size(SyncedRob) + i] = front[i].cp
         /\ JumpsPending[get_size(SyncedRob) + i] <=> front[i].kind = "jump"
<1> SUFFICES ASSUME Types, RingsOK, AnswersOK, Straight
             PROVE  /\ Len(LiveCheckpoints) = Stream /\ Len(JumpsPending) = Stream /\ Stream \in Nat
                    /\ \A i \in 1 .. get_size(SyncedRob) : Tells(i)
                    /\ \A i \in 1 .. Len(front) :
                         /\ LiveCheckpoints[get_size(SyncedRob) + i] = front[i].cp
                         /\ JumpsPending[get_size(SyncedRob) + i] <=> front[i].kind = "jump"
  OBVIOUS
<1> DEFINE n == get_size(SyncedRob)
           m == Len(front)
           a == [i \in 1 .. Len(LiveRob) |-> Known(LiveRob[i]).cp]
           b == [i \in 1 .. m |-> front[i].cp]
           jump(id) == IF PacksOf(id) # {} THEN \E pack \in PacksOf(id) : pack.kind = "jump"
                       ELSE Known(id).finish = "jump"
           c == [i \in 1 .. Len(LiveRob) |-> jump(LiveRob[i])]
           d == [i \in 1 .. m |-> front[i].kind = "jump"]
<1>1. n \in Nat /\ m \in Nat /\ Len(LiveRob) = n
      /\ \A i \in 1 .. n : LiveRob[i] = Place(SyncedRob, i) /\ LiveRob[i] \in RobId /\ Ent(LiveRob[i]) \in Entry
  BY LiveRobIs, Sizes DEF Types
<1>2. LiveCheckpoints = a \o b /\ JumpsPending = c \o d
  BY DEF LiveCheckpoints, JumpsPending
<1> HIDE DEF n, m, jump
<1>3. /\ Len(LiveCheckpoints) = n + m
      /\ \A i \in 1 .. n : LiveCheckpoints[i] = Known(LiveRob[i]).cp
      /\ \A i \in 1 .. m : LiveCheckpoints[n + i] = front[i].cp
  BY <1>1, <1>2
<1>4. /\ Len(JumpsPending) = n + m
      /\ \A i \in 1 .. n : JumpsPending[i] = jump(LiveRob[i])
      /\ \A i \in 1 .. m : JumpsPending[n + i] = (front[i].kind = "jump")
  BY <1>1, <1>2
<1>5. ASSUME NEW i \in 1 .. get_size(SyncedRob)
      PROVE  Tells(i)
  <2>1. PICK id \in RobId : id = LiveRob[i] /\ id = Place(SyncedRob, i) /\ Ent(id) \in Entry
    BY <1>1 DEF n
  <2>2. LiveCheckpoints[i] = Known(id).cp /\ JumpsPending[i] = jump(id)
    BY <1>3, <1>4, <2>1 DEF n
  <2>3. Ent(id) # Dead
    BY <2>1, DeadIsNone
  <2>4. /\ \A x \in inflight : x.id = id => Known(id).cp = x.cp /\ PacksOf(id) = {x}
        /\ \A k \in DOMAIN port : port[k].id = id =>
             Known(id).cp = port[k].cp /\ Known(id).finish = port[k].result /\ PacksOf(id) = {}
        /\ Ent(id).finish # "no" => Known(id) = Ent(id) /\ PacksOf(id) = {}
        /\ \/ \E x \in inflight : x.id = id
           \/ \E k \in DOMAIN port : port[k].id = id
           \/ Ent(id).finish # "no"
    BY <2>3, KnownIs
  <2>5. ASSUME NEW x \in inflight, x.id = id
        PROVE  LiveCheckpoints[i] = x.cp /\ (JumpsPending[i] <=> x.kind = "jump")
    BY <2>2, <2>4, <2>5 DEF jump
  <2>6. ASSUME PacksOf(id) = {}
        PROVE  JumpsPending[i] <=> Known(id).finish = "jump"
    BY <2>2, <2>6 DEF jump
  <2> QED
    BY <2>1, <2>2, <2>4, <2>5, <2>6 DEF Tells
<1>6. Len(LiveCheckpoints) = Stream /\ Len(JumpsPending) = Stream /\ Stream \in Nat
  BY <1>1, <1>3, <1>4 DEF Stream, n, m
<1>7. \A i \in 1 .. Len(front) :
        /\ LiveCheckpoints[get_size(SyncedRob) + i] = front[i].cp
        /\ JumpsPending[get_size(SyncedRob) + i] <=> front[i].kind = "jump"
  BY <1>3, <1>4 DEF n, m
<1>8. \A i \in 1 .. get_size(SyncedRob) : Tells(i)
  BY <1>5
<1> QED
  BY <1>6, <1>7, <1>8, Zenon

-----------------------------------------------------------------------------
(* LiveCheckpointsIntact as a relation of a stream of checkpoints and a    *)
(* ring, and what keeps it.                                                *)

Branches(c, i, m) == {j \in i + 1 .. m : c[j] # NoId}

Intact(c, m, r) ==
  \A i \in 1 .. m : c[i] # NoId =>
    LET place == get_size(r) - Cardinality(Branches(c, i, m))
    IN  place > 0 /\ c[i] = LiveIds(r)[place]

\* The branches after a place can be counted.
LEMMA BranchesIs ==
  ASSUME NEW c, NEW m \in Nat, NEW i \in Nat
  PROVE  IsFiniteSet(Branches(c, i, m)) /\ Cardinality(Branches(c, i, m)) \in Nat
<1>1. IsFiniteSet(i + 1 .. m) /\ Branches(c, i, m) \subseteq i + 1 .. m
  BY FS_Interval DEF Branches
<1> QED
  BY <1>1, FS_Subset, FS_CardinalityType

\* The place of a branch.
LEMMA IntactPlace ==
  ASSUME NEW n \in Nat \ {0}, NEW T, NEW r \in Rings(n, T), NEW c, NEW m \in Nat,
         Intact(c, m, r), NEW i \in 1 .. m, c[i] # NoId
  PROVE  /\ get_size(r) - Cardinality(Branches(c, i, m)) \in 1 .. get_size(r)
         /\ c[i] = Place(r, get_size(r) - Cardinality(Branches(c, i, m)))
         /\ c[i] \in 0 .. n - 1 /\ check_id_valid(r, c[i]) /\ get_size(r) \in 1 .. n
<1> DEFINE place == get_size(r) - Cardinality(Branches(c, i, m))
<1>1. place > 0 /\ c[i] = LiveIds(r)[place]
  BY DEF Intact
<1>2. place \in 1 .. get_size(r) /\ get_size(r) \in 1 .. n
  BY <1>1, BranchesIs, SizeIs
<1>3. c[i] = Place(r, place)
  BY <1>1, <1>2, LiveIdsIs
<1> HIDE DEF place
<1>4. c[i] \in 0 .. n - 1 /\ At(r, c[i]) = place
  BY <1>2, <1>3, AtPlace
<1>5. check_id_valid(r, c[i])
  BY <1>2, <1>4, ValidIs
<1> QED
  BY <1>2, <1>3, <1>4, <1>5 DEF place

\* The same stream.
LEMMA IntactSame ==
  ASSUME NEW n \in Nat \ {0}, NEW T, NEW r \in Rings(n, T), NEW U, NEW s \in Rings(n, U),
         get_size(s) = get_size(r), \A i \in 1 .. get_size(r) : Place(s, i) = Place(r, i),
         NEW c, NEW d, NEW m \in Nat, \A i \in 1 .. m : d[i] = c[i], Intact(c, m, r)
  PROVE  Intact(d, m, s)
<1> SUFFICES ASSUME NEW i \in 1 .. m, d[i] # NoId
             PROVE  LET place == get_size(s) - Cardinality(Branches(d, i, m))
                    IN  place > 0 /\ d[i] = LiveIds(s)[place]
  BY DEF Intact
<1> DEFINE place == get_size(r) - Cardinality(Branches(c, i, m))
<1>1. Branches(d, i, m) = Branches(c, i, m)
  BY DEF Branches
<1>2. c[i] # NoId /\ place \in 1 .. get_size(r) /\ c[i] = Place(r, place)
  BY IntactPlace
<1>3. d[i] = LiveIds(s)[place]
  <2> HIDE DEF place
  <2> QED
    BY <1>2, LiveIdsIs
<1> QED
  BY <1>1, <1>2, <1>3

\* More instructions that are no predicted branches.
LEMMA IntactPlain ==
  ASSUME NEW n \in Nat \ {0}, NEW T, NEW r \in Rings(n, T),
         NEW c, NEW d, NEW m \in Nat, NEW k \in Nat, \A i \in 1 .. m : d[i] = c[i],
         \A i \in m + 1 .. m + k : d[i] = NoId, Intact(c, m, r)
  PROVE  Intact(d, m + k, r)
<1> SUFFICES ASSUME NEW i \in 1 .. m + k, d[i] # NoId
             PROVE  LET place == get_size(r) - Cardinality(Branches(d, i, m + k))
                    IN  place > 0 /\ d[i] = LiveIds(r)[place]
  BY DEF Intact
<1>1. i \in 1 .. m /\ c[i] # NoId /\ d[i] = c[i]
  OBVIOUS
<1>2. Branches(d, i, m + k) = Branches(c, i, m)
  <2>1. \A j \in i + 1 .. m + k : d[j] # NoId => j \in i + 1 .. m /\ d[j] = c[j]
    BY <1>1
  <2> QED
    BY <2>1 DEF Branches
<1> QED
  BY <1>1, <1>2 DEF Intact

\* One more branch, and its checkpoint.
LEMMA IntactBranch ==
  ASSUME NEW n \in Nat \ {0}, NEW T, NEW r \in Rings(n, T), NEW s \in Rings(n, T),
         get_size(s) = get_size(r) + 1, \A i \in 1 .. get_size(r) : Place(s, i) = Place(r, i),
         NEW c, NEW d, NEW m \in Nat, \A i \in 1 .. m : d[i] = c[i],
         d[m + 1] # NoId, d[m + 1] = Place(s, get_size(s)), Intact(c, m, r)
  PROVE  Intact(d, m + 1, s)
<1> SUFFICES ASSUME NEW i \in 1 .. m + 1, d[i] # NoId
             PROVE  LET place == get_size(s) - Cardinality(Branches(d, i, m + 1))
                    IN  place > 0 /\ d[i] = LiveIds(s)[place]
  BY DEF Intact
<1>0. get_size(r) \in Nat /\ get_size(s) \in 1 .. n
  BY SizeIs
<1>1. CASE i = m + 1
  <2>1. Branches(d, i, m + 1) = {}
    BY <1>1 DEF Branches
  <2>2. Cardinality(Branches(d, i, m + 1)) = 0
    BY <2>1, FS_EmptySet
  <2> QED
    BY <1>0, <1>1, <2>2, LiveIdsIs
<1>2. CASE i \in 1 .. m
  <2>1. Branches(d, i, m + 1) = Branches(c, i, m) \cup {m + 1} /\ m + 1 \notin Branches(c, i, m)
    BY <1>2 DEF Branches
  <2>2. /\ Cardinality(Branches(d, i, m + 1)) = Cardinality(Branches(c, i, m)) + 1
        /\ Cardinality(Branches(c, i, m)) \in Nat
    BY <1>2, <2>1, BranchesIs, FS_AddElement
  <2> DEFINE place == get_size(r) - Cardinality(Branches(c, i, m))
  <2>3. c[i] # NoId /\ place \in 1 .. get_size(r) /\ c[i] = Place(r, place)
    BY <1>2, IntactPlace
  <2>4. get_size(s) - Cardinality(Branches(d, i, m + 1)) = place
    BY <1>0, <2>2
  <2> HIDE DEF place
  <2>5. d[i] = LiveIds(s)[place]
    BY <1>0, <1>2, <2>3, LiveIdsIs, SMTT(60)
  <2> QED
    BY <2>3, <2>4, <2>5
<1> QED
  BY <1>1, <1>2

\* When the oldest instruction leaves, the later branches stay.
LEMMA BranchesShift ==
  ASSUME NEW c, NEW d, NEW m \in Nat \ {0}, \A i \in 1 .. m - 1 : d[i] = c[i + 1],
         NEW i \in 1 .. m - 1
  PROVE  Cardinality(Branches(d, i, m - 1)) = Cardinality(Branches(c, i + 1, m))
<1> DEFINE A == Branches(d, i, m - 1)
           B == Branches(c, i + 1, m)
           f == [j \in A |-> j + 1]
<1>1. f \in Bijection(A, B)
  <2>1. ASSUME NEW j \in A
        PROVE  f[j] \in B /\ j \in Nat
    BY DEF Branches
  <2>2. ASSUME NEW j \in B
        PROVE  j - 1 \in A /\ f[j - 1] = j
    BY DEF Branches
  <2>3. ASSUME NEW j \in A, NEW k \in A, f[j] = f[k]
        PROVE  j = k
    BY <2>1, <2>3
  <2> HIDE DEF A, B
  <2>0. f \in [A -> B]
    BY <2>1
  <2> HIDE DEF f
  <2>4. f \in Injection(A, B)
    BY <2>0, <2>3 DEF Injection, IsInjective
  <2>5. f \in Surjection(A, B)
    BY <2>0, <2>1, <2>2 DEF Surjection
  <2> QED
    BY <2>4, <2>5 DEF Bijection
<1>2. IsFiniteSet(A)
  BY BranchesIs
<1> HIDE DEF A, B, f
<1>3. Cardinality(B) = Cardinality(A)
  BY <1>1, <1>2, FS_Bijection DEF ExistsBijection
<1> QED
  BY <1>3 DEF A, B

\* The oldest instruction leaves, and was no predicted branch.
LEMMA IntactLeaves ==
  ASSUME NEW n \in Nat \ {0}, NEW T, NEW r \in Rings(n, T),
         NEW c, NEW d, NEW m \in Nat \ {0}, \A i \in 1 .. m - 1 : d[i] = c[i + 1],
         Intact(c, m, r)
  PROVE  Intact(d, m - 1, r)
<1> SUFFICES ASSUME NEW i \in 1 .. m - 1, d[i] # NoId
             PROVE  LET place == get_size(r) - Cardinality(Branches(d, i, m - 1))
                    IN  place > 0 /\ d[i] = LiveIds(r)[place]
  BY DEF Intact
<1>1. Cardinality(Branches(d, i, m - 1)) = Cardinality(Branches(c, i + 1, m))
  BY BranchesShift
<1>2. i + 1 \in 1 .. m /\ c[i + 1] # NoId /\ d[i] = c[i + 1]
  OBVIOUS
<1> QED
  BY <1>1, <1>2 DEF Intact

\* The oldest instruction is a branch, and the oldest checkpoint leaves with it.
LEMMA IntactPop ==
  ASSUME NEW n \in Nat \ {0}, NEW T, NEW r \in Rings(n, T), NEW s \in Rings(n, T),
         get_size(s) = get_size(r) - 1, \A i \in 1 .. n - 1 : Place(s, i) = Place(r, i + 1),
         NEW c, NEW d, NEW m \in Nat \ {0}, \A i \in 1 .. m - 1 : d[i] = c[i + 1],
         Intact(c, m, r), c[1] # NoId
  PROVE  Intact(d, m - 1, s)
<1> SUFFICES ASSUME NEW i \in 1 .. m - 1, d[i] # NoId
             PROVE  LET place == get_size(s) - Cardinality(Branches(d, i, m - 1))
                    IN  place > 0 /\ d[i] = LiveIds(s)[place]
  BY DEF Intact
<1> DEFINE a == Cardinality(Branches(c, i + 1, m))
           b == Cardinality(Branches(c, 1, m))
<1>1. Cardinality(Branches(d, i, m - 1)) = a
  BY BranchesShift
<1>2. i + 1 \in 1 .. m /\ c[i + 1] # NoId /\ d[i] = c[i + 1] /\ 1 \in 1 .. m /\ i + 1 \in 2 .. m
  OBVIOUS
<1>3. get_size(r) - a \in 1 .. get_size(r) /\ c[i + 1] = Place(r, get_size(r) - a)
      /\ get_size(r) - b \in 1 .. get_size(r) /\ get_size(r) \in 1 .. n
  BY <1>2, IntactPlace
<1>4. a < b /\ a \in Nat /\ b \in Nat
  <2>1. i + 1 \notin Branches(c, i + 1, m) /\ Branches(c, i + 1, m) \cup {i + 1} \subseteq Branches(c, 1, m)
    BY <1>2 DEF Branches
  <2>2. IsFiniteSet(Branches(c, i + 1, m)) /\ IsFiniteSet(Branches(c, 1, m)) /\ a \in Nat /\ b \in Nat
    BY <1>2, BranchesIs
  <2>3. Cardinality(Branches(c, i + 1, m) \cup {i + 1}) = a + 1
    BY <2>1, <2>2, FS_AddElement
  <2>4. a + 1 <= b
    BY <2>1, <2>2, <2>3, FS_Subset
  <2> QED
    BY <2>2, <2>4
<1> HIDE DEF a, b
<1>5. get_size(s) - a \in 1 .. n - 1 /\ get_size(s) - a \in 1 .. get_size(s)
      /\ (get_size(s) - a) + 1 = get_size(r) - a
  BY <1>3, <1>4
<1>6. LiveIds(s)[get_size(s) - a] = Place(s, get_size(s) - a)
  BY <1>5, LiveIdsIs
<1>7. Place(s, get_size(s) - a) = Place(r, get_size(r) - a)
  <2>1. PICK k \in 1 .. n - 1 : k = get_size(s) - a /\ k + 1 = get_size(r) - a
    BY <1>5
  <2> QED
    BY <2>1
<1> QED
  BY <1>1, <1>2, <1>3, <1>5, <1>6, <1>7

\* JumpWaitHasBranch as a relation of a stream of flags and the wait.
Waits(j, m, w) ==
  /\ \A i \in 1 .. m - 1 : ~j[i]
  /\ w <=> m > 0 /\ j[m]

\* The two properties of the streams, with their length named.
LEMMA Forms ==
  Types /\ RingsOK /\ AnswersOK /\ Straight =>
    /\ LiveCheckpointsIntact <=> Intact(LiveCheckpoints, Stream, SyncedCp)
    /\ JumpWaitHasBranch <=> Waits(JumpsPending, Stream, jump_wait /\ feedback # "jump")
<1> SUFFICES ASSUME Types, RingsOK, AnswersOK, Straight
             PROVE  /\ LiveCheckpointsIntact <=> Intact(LiveCheckpoints, Stream, SyncedCp)
                    /\ JumpWaitHasBranch <=> Waits(JumpsPending, Stream, jump_wait /\ feedback # "jump")
  OBVIOUS
<1>1. Len(LiveCheckpoints) = Stream /\ Len(JumpsPending) = Stream /\ Stream \in Nat
  BY StreamIs
<1>2. DOMAIN LiveCheckpoints = 1 .. Stream
  <2> DEFINE a == [i \in 1 .. Len(LiveRob) |-> Known(LiveRob[i]).cp]
             b == [i \in 1 .. Len(front) |-> front[i].cp]
  <2>1. LiveCheckpoints = a \o b
    BY DEF LiveCheckpoints
  <2>2. Len(LiveRob) \in Nat /\ Len(front) \in Nat
    BY LiveRobIs, Sizes DEF Types
  <2>3. DOMAIN (a \o b) = 1 .. Len(a \o b)
    BY <2>2
  <2> HIDE DEF a, b
  <2> QED
    BY <1>1, <2>1, <2>3
<1>3. LiveCheckpointsIntact <=> Intact(LiveCheckpoints, Stream, SyncedCp)
  <2>1. \A i : BranchesAfter(i) = Branches(LiveCheckpoints, i, Stream)
    BY <1>1, Zenon DEF BranchesAfter, Branches
  <2> QED
    BY <1>2, <2>1, Zenon DEF LiveCheckpointsIntact, Intact, Straight
<1>4. JumpWaitHasBranch <=> Waits(JumpsPending, Stream, jump_wait /\ feedback # "jump")
  BY <1>1 DEF JumpWaitHasBranch, Waits, Straight
<1> QED
  BY <1>3, <1>4

-----------------------------------------------------------------------------
(* The entry that commit looks at.                                         *)

\* The oldest element is at the read pointer.
LEMMA RptrIs ==
  ASSUME NEW n \in Nat \ {0}, NEW T, NEW r \in Rings(n, T)
  PROVE  Place(r, 1) = r.rptr /\ At(r, r.rptr) = 1
<1>1. r.rptr \in 0 .. n - 1
  BY ShapeFacts
<1>2. At(r, r.rptr) = 1
  BY <1>1 DEF At
<1> QED
  BY <1>1, <1>2, PlaceAt

\* The entry commit looks at is the oldest one with the requests applied.
LEMMA HeadIs ==
  Types /\ Turns /\ RingsOK /\ Looking =>
    /\ Straight /\ feedback = "none" /\ cp_q = << >> /\ SyncedCp = checkpoint_buffer
    /\ Founded(rob, rob_q) /\ Len(rob_q) = slot /\ \A k \in DOMAIN rob_q : rob_q[k].op = "pop"
    /\ ~is_empty(SyncedRob) /\ get_size(SyncedRob) \in 1 .. ROB_SIZE
    /\ SyncedRob.rptr = current_id /\ current_id \in RobId /\ Place(SyncedRob, 1) = current_id
    /\ At(SyncedRob, current_id) = 1 /\ Ent(current_id) = rob_item /\ rob_item \in Entry
<1> SUFFICES ASSUME Types, Turns, RingsOK, Looking
             PROVE  /\ Straight /\ feedback = "none" /\ cp_q = << >> /\ SyncedCp = checkpoint_buffer
                    /\ Founded(rob, rob_q) /\ Len(rob_q) = slot
                    /\ \A k \in DOMAIN rob_q : rob_q[k].op = "pop"
                    /\ ~is_empty(SyncedRob) /\ get_size(SyncedRob) \in 1 .. ROB_SIZE
                    /\ SyncedRob.rptr = current_id /\ current_id \in RobId /\ Place(SyncedRob, 1) = current_id
                    /\ At(SyncedRob, current_id) = 1 /\ Ent(current_id) = rob_item /\ rob_item \in Entry
  OBVIOUS
<1>1. stage = "commit" /\ cur_state = "normal" /\ slot < COMMIT_WIDTH /\ slot < get_size(rob)
  BY DEF Looking
<1>2. /\ feedback = "none" /\ cp_q = << >> /\ Cardinality(Pops) = slot
      /\ ~flushing /\ \A k \in DOMAIN rob_q : rob_q[k].op = "pop"
  BY <1>1 DEF Turns
<1>3. Straight
  BY <1>1, <1>2 DEF Straight
<1>4. SyncedCp = checkpoint_buffer
  <2>1. << >> \in Seq({0}) /\ 0 \in {0}
    OBVIOUS
  <2> QED
    BY <1>2, <2>1, RingAfterAppend DEF SyncedCp
<1> DEFINE n == ROB_SIZE
<1>5. /\ rob \in Rings(n, Entry) /\ rob_q \in Seq(RingRequest(n, Entry)) /\ Founded(rob, rob_q)
      /\ n \in Nat \ {0} /\ slot \in Nat
  BY <1>3, FoundRob, Sizes DEF Types
<1>6. Pops = PopsIn(rob_q)
  BY DEF Pops, PopsIn
<1>7. Len(rob_q) = slot
  <2>1. [op |-> "pop"] \in RingRequest(n, Entry)
    BY DEF RingRequest
  <2> QED
    BY <1>2, <1>5, <1>6, <2>1, PopsAppend
<1>8. PICK s \in Rings(n, Entry) : s = SyncedRob
  BY RobIs
<1>9. Shorter(rob, s, slot, n) /\ Leaves(rob, s, slot, n)
  BY <1>2, <1>5, <1>6, <1>7, <1>8, DeadIsNone, RingShorter, RingPops DEF SyncedRob
<1>10. get_size(s) = get_size(rob) - slot /\ get_size(s) \in 1 .. n /\ slot + 1 \in 1 .. n
  BY <1>1, <1>5, <1>8, <1>9, SizeIs DEF Shorter
<1>11. Place(s, 1) = current_id
  <2>1. 1 \in 1 .. n - slot
    BY <1>5, <1>10
  <2>2. Place(s, 1) = Place(rob, 1 + slot)
    BY <1>9, <2>1 DEF Shorter
  <2>3. SizeOf(rob) = n /\ rob.rptr \in 0 .. n - 1
    BY <1>5, ShapeFacts
  <2>4. Place(rob, 1 + slot) = (rob.rptr + (1 + slot) - 1) % n
    BY <2>3 DEF Place
  <2>5. rob.rptr + (1 + slot) - 1 = rob.rptr + slot
    BY <1>5, <2>3
  <2> QED
    BY <2>2, <2>4, <2>5 DEF current_id
<1>12. s.rptr = current_id /\ At(s, current_id) = 1
  BY <1>5, <1>8, <1>11, RptrIs
<1>13. current_id \in RobId
  BY <1>5, <1>8, <1>12, Sizes, ShapeFacts
<1>14. get_item(s, current_id) = rob_item
  <2>1. At(rob, Place(rob, slot + 1)) = slot + 1
    BY <1>5, <1>10, AtPlace
  <2>2. Place(rob, slot + 1) = current_id
    <3>1. Place(s, 1) = Place(rob, 1 + slot) /\ 1 + slot = slot + 1
      BY <1>5, <1>9, <1>10 DEF Shorter
    <3> QED
      BY <1>11, <3>1
  <2>3. At(rob, current_id) > slot
    BY <1>5, <2>1, <2>2
  <2> QED
    BY <1>9, <1>13, <2>3, Sizes DEF Leaves, rob_item
<1>15. rob_item \in Entry
  BY <1>5, <1>8, <1>10, <1>12, <1>13, <1>14, Sizes, ItemAt
<1>16. ~is_empty(s)
  BY <1>5, <1>8, <1>10, SizeIs
<1> QED
  BY <1>2, <1>3, <1>4, <1>5, <1>7, <1>8, <1>10, <1>11, <1>12, <1>13, <1>14, <1>15, <1>16 DEF Ent

-----------------------------------------------------------------------------
(* The invariant, step by step.                                            *)

StreamFacts ==
  /\ Len(LiveCheckpoints) = Stream /\ Len(JumpsPending) = Stream /\ Stream \in Nat
  /\ \A i \in 1 .. get_size(SyncedRob) : Tells(i)
  /\ \A i \in 1 .. Len(front) :
       /\ LiveCheckpoints[get_size(SyncedRob) + i] = front[i].cp
       /\ JumpsPending[get_size(SyncedRob) + i] <=> front[i].kind = "jump"

FormFacts ==
  /\ LiveCheckpointsIntact <=> Intact(LiveCheckpoints, Stream, SyncedCp)
  /\ JumpWaitHasBranch <=> Waits(JumpsPending, Stream, jump_wait /\ feedback # "jump")

\* What is known of the streams of a state.
LEMMA StreamNow == Types /\ RingsOK /\ AnswersOK /\ Straight => StreamFacts /\ FormFacts
<1>1. Types /\ RingsOK /\ AnswersOK /\ Straight => StreamFacts
  BY StreamIs DEF StreamFacts
<1>2. Types /\ RingsOK /\ AnswersOK /\ Straight => FormFacts
  BY Forms DEF FormFacts
<1> QED
  BY <1>1, <1>2

\* The same of the next state.
LEMMA StreamNext == Types' /\ RingsOK' /\ AnswersOK' /\ Straight' => StreamFacts' /\ FormFacts'
BY StreamNow, PTL

\* What is left to show when commit flushes.
LEMMA Crooked ==
  ASSUME Types', Turns', RingsOK', WalkOK', ~Straight'
  PROVE  IInv'
<1>1. AnswersOK'
  BY DEF AnswersOK
<1>2. LiveCheckpointsIntact'
  BY DEF LiveCheckpointsIntact, Straight
<1>3. JumpWaitHasBranch'
  BY DEF JumpWaitHasBranch, Straight
<1> QED
  BY <1>1, <1>2, <1>3 DEF IInv

\* And when it does not.
LEMMA StraightOn ==
  ASSUME Types', Turns', RingsOK', AnswersOK', Straight',
         Intact(LiveCheckpoints', Stream', SyncedCp'),
         Waits(JumpsPending', Stream', jump_wait' /\ feedback' # "jump")
  PROVE  IInv'
<1>1. FormFacts'
  BY StreamNext
<1>2. LiveCheckpointsIntact'
  BY <1>1 DEF FormFacts
<1>3. JumpWaitHasBranch'
  BY <1>1 DEF FormFacts
<1>4. WalkOK'
  BY DEF WalkOK, Straight
<1> QED
  BY <1>2, <1>3, <1>4 DEF IInv

\* The youngest element is at the tail.
LEMMA TailIs ==
  ASSUME NEW n \in Nat \ {0}, NEW T, NEW r \in Rings(n, T), ~is_empty(r)
  PROVE  get_tail_id(r) \in 0 .. n - 1 /\ At(r, get_tail_id(r)) = get_size(r)
         /\ check_id_valid(r, get_tail_id(r))
<1>1. /\ r.rptr \in 0 .. n - 1 /\ r.wptr \in 0 .. n - 1 /\ r.wrapped \in BOOLEAN /\ SizeOf(r) = n
      /\ r.wrapped => r.wptr <= r.rptr
      /\ ~r.wrapped => r.rptr < r.wptr
  BY ShapeFacts DEF is_empty
<1>2. get_tail_id(r) = IF r.wptr = 0 THEN n - 1 ELSE r.wptr - 1
  <2>1. PICK x \in 0 .. 2 * n - 1 : x = r.wptr + n - 1
    BY <1>1
  <2>2. x % n = IF x < n THEN x ELSE x - n
    BY Remainder
  <2>3. get_tail_id(r) = x % n
    BY <1>1, <2>1 DEF get_tail_id
  <2> QED
    BY <1>1, <2>1, <2>2, <2>3
<1>3. get_tail_id(r) \in 0 .. n - 1
  BY <1>1, <1>2
<1>4. get_size(r) = SizeFormula(r, n)
  BY SizeIs
<1>5. At(r, get_tail_id(r)) = get_size(r)
  BY <1>1, <1>2, <1>4 DEF At, SizeFormula
<1> QED
  BY <1>3, <1>5, ValidIs, SizeIs

\* An exception or an interrupt keeps IInv (commit.cpp).
LEMMA WalkBackStarts ==
  ASSUME IInv, Looking, NEW state \in {"flush", "interrupt_flush"}, StartWalkBack(state)
  PROVE  IInv'
<1> USE DEF StartWalkBack, CommitEnds, machine, queues, fetcher, units
<1>0. Types /\ Turns /\ RingsOK
  BY DEF IInv
<1>1. /\ Straight /\ cp_q = << >> /\ ~is_empty(SyncedRob) /\ SyncedRob.rptr = current_id
      /\ current_id \in RobId /\ Founded(rob, rob_q)
  BY <1>0, HeadIs
<1>2. SyncedRob' = SyncedRob
  BY DEF SyncedRob
<1>3. get_tail_id(rob) \in RobId /\ check_id_valid(SyncedRob, get_tail_id(rob))
  <2>1. PICK s \in Rings(ROB_SIZE, Entry) : s = SyncedRob /\ s.wptr = rob.wptr
    BY <1>0, RobIs
  <2>2. get_tail_id(s) = get_tail_id(rob)
    BY <1>0, <2>1, Sizes, ShapeFacts DEF get_tail_id, Types
  <2> QED
    BY <1>1, <2>1, <2>2, Sizes, TailIs
<1>4. Types'
  BY <1>0, <1>1, <1>3 DEF Types
<1>5. Turns'
  BY <1>0, <1>1 DEF Turns, Looking, GroupMaps
<1>6. RingsOK'
  BY <1>0, <1>1 DEF RingsOK
<1>7. WalkOK'
  BY <1>1, <1>2, <1>3 DEF WalkOK
<1>8. ~Straight'
  BY DEF Straight
<1> QED
  BY <1>4, <1>5, <1>6, <1>7, <1>8, Crooked

\* The first of the streams is the entry commit looks at.
LEMMA HeadStream ==
  IInv /\ Looking =>
    /\ StreamFacts /\ Stream >= 1 /\ Intact(LiveCheckpoints, Stream, SyncedCp)
    /\ Waits(JumpsPending, Stream, jump_wait /\ feedback # "jump")
    /\ rob_item.finish # "no" =>
         LiveCheckpoints[1] = rob_item.cp /\ (JumpsPending[1] <=> rob_item.finish = "jump")
<1> SUFFICES ASSUME IInv, Looking
             PROVE  /\ StreamFacts /\ Stream >= 1 /\ Intact(LiveCheckpoints, Stream, SyncedCp)
                    /\ Waits(JumpsPending, Stream, jump_wait /\ feedback # "jump")
                    /\ rob_item.finish # "no" =>
                         LiveCheckpoints[1] = rob_item.cp /\ (JumpsPending[1] <=> rob_item.finish = "jump")
  OBVIOUS
<1>1. Types /\ Turns /\ RingsOK /\ AnswersOK /\ LiveCheckpointsIntact /\ JumpWaitHasBranch
  BY DEF IInv
<1>2. /\ Straight /\ get_size(SyncedRob) \in 1 .. ROB_SIZE /\ Place(SyncedRob, 1) = current_id
      /\ Ent(current_id) = rob_item
  BY <1>1, HeadIs
<1>3. StreamFacts /\ FormFacts
  BY <1>1, <1>2, StreamNow
<1>4. Tells(1)
  BY <1>2, <1>3, Sizes DEF StreamFacts
<1>5. rob_item.finish # "no" =>
        LiveCheckpoints[1] = rob_item.cp /\ (JumpsPending[1] <=> rob_item.finish = "jump")
  BY <1>2, <1>4 DEF Tells
<1>6. Stream >= 1
  BY <1>1, <1>2, Sizes DEF Stream, Types
<1> QED
  BY <1>1, <1>3, <1>5, <1>6 DEF FormFacts

\* The checkpoint of the branch commit looks at is there.
LEMMA HeadCheckpoint ==
  ASSUME IInv, Looking, rob_item.finish \in {"hit", "miss"}
  PROVE  /\ rob_item.cp \in CpId /\ check_id_valid(checkpoint_buffer, rob_item.cp)
         /\ get_item(checkpoint_buffer, rob_item.cp) \in CheckpointType
         /\ ~is_empty(checkpoint_buffer) /\ LiveCheckpoints[1] # NoId
<1>1. Types /\ Turns /\ RingsOK
  BY DEF IInv
<1>2. /\ Stream \in Nat /\ Stream >= 1 /\ Intact(LiveCheckpoints, Stream, SyncedCp)
      /\ LiveCheckpoints[1] = rob_item.cp
  BY HeadStream DEF StreamFacts
<1>3. rob_item.cp # NoId
  BY <1>1, HeadIs DEF Entry
<1>4. PICK r \in Rings(CHECKPOINT_BUFFER_SIZE, CheckpointType) : r = SyncedCp /\ r = checkpoint_buffer
  BY <1>1, HeadIs, CpIs
<1>5. /\ rob_item.cp \in 0 .. CHECKPOINT_BUFFER_SIZE - 1 /\ check_id_valid(r, rob_item.cp)
      /\ get_size(r) \in 1 .. CHECKPOINT_BUFFER_SIZE
  <2>1. 1 \in 1 .. Stream
    BY <1>2
  <2> QED
    BY <1>2, <1>3, <1>4, <2>1, Sizes, IntactPlace
<1>6. get_item(r, rob_item.cp) \in CheckpointType
  BY <1>5, Sizes, ValidIs, ItemAt
<1>7. ~is_empty(r)
  BY <1>5, Sizes, SizeIs
<1> QED
  BY <1>2, <1>3, <1>4, <1>5, <1>6, <1>7, Sizes

\* The mappings asked for by a queue.
MapsIn(q) == {k \in DOMAIN q : q[k].op = "set_map"}

\* Which of the requests are mappings.
LEMMA MapsAppend ==
  ASSUME NEW T, NEW q \in Seq(T), NEW x \in T
  PROVE  MapsIn(Append(q, x)) = IF x.op = "set_map" THEN MapsIn(q) \cup {Len(q) + 1} ELSE MapsIn(q)
<1> DEFINE p == Append(q, x)
<1>1. /\ DOMAIN p = DOMAIN q \cup {Len(q) + 1} /\ p[Len(q) + 1] = x
      /\ \A k \in DOMAIN q : p[k] = q[k]
  OBVIOUS
<1> HIDE DEF p
<1>2. MapsIn(p) = IF x.op = "set_map" THEN MapsIn(q) \cup {Len(q) + 1} ELSE MapsIn(q)
  BY <1>1 DEF MapsIn
<1> QED
  BY <1>2 DEF p

\* The mappings of the group are those of the queue.
LEMMA GroupMapsIs == GroupMaps = MapsIn(rat_q)
BY DEF GroupMaps, MapsIn

\* The same of the next state.
LEMMA GroupMapsNext == GroupMaps' = MapsIn(rat_q')
BY DEF GroupMaps, MapsIn

\* What a retirement asks for is well formed and maps nothing.
LEMMA ReleasedIs ==
  ASSUME IInv, Looking
  PROVE  Released \in Seq(RatRequest) /\ Unwritten \in Seq(RegRequest) /\ MapsIn(Released) = {}
<1>1. Types /\ Turns /\ RingsOK
  BY DEF IInv
<1>2. rob_item \in Entry
  BY <1>1, HeadIs
<1>3. rat_q \in Seq(RatRequest) /\ reg_q \in Seq(RegRequest)
  BY <1>1 DEF Types
<1>4. MapsIn(rat_q) = {}
  BY <1>1, GroupMapsIs DEF Turns, Looking
<1>5. CASE rob_item.old = NoPhy
  BY <1>3, <1>4, <1>5 DEF Released, Unwritten
<1>6. CASE rob_item.old # NoPhy
  <2>1. rob_item.old \in Phy /\ rob_item.new \in Phy
    BY <1>2, <1>6 DEF Entry, RobItem
  <2> DEFINE a == ReleaseMap(rob_item.old)
             b == CommitMap(rob_item.new)
             c == Write(rob_item.old, FALSE)
  <2>2. /\ a \in RatRequest /\ a.op # "set_map" /\ b \in RatRequest /\ b.op # "set_map"
        /\ c \in RegRequest
    BY <2>1 DEF RatRequest, RegRequest, ReleaseMap, CommitMap, Write
  <2>3. Released = rat_q \o <<a, b>> /\ Unwritten = Append(reg_q, c)
    BY <1>6 DEF Released, Unwritten
  <2> HIDE DEF a, b, c
  <2>4. Released = Append(Append(rat_q, a), b)
    BY <1>3, <2>2, <2>3
  <2>5. MapsIn(Append(rat_q, a)) = {} /\ Append(rat_q, a) \in Seq(RatRequest)
    BY <1>3, <1>4, <2>2, MapsAppend
  <2>6. MapsIn(Released) = {}
    BY <2>2, <2>4, <2>5, MapsAppend
  <2>7. Released \in Seq(RatRequest)
    BY <2>2, <2>4, <2>5
  <2>8. Unwritten \in Seq(RegRequest)
    BY <1>3, <2>2, <2>3
  <2> QED
    BY <2>6, <2>7, <2>8
<1> QED
  BY <1>5, <1>6

\* An empty reorder buffer.
LEMMA EmptyRob ==
  /\ empty_ring(ROB_SIZE) \in Rings(ROB_SIZE, Entry) /\ Tight(empty_ring(ROB_SIZE))
  /\ is_empty(empty_ring(ROB_SIZE)) /\ \A id \in RobId : get_item(empty_ring(ROB_SIZE), id) = Dead
<1>1. \A id \in RobId : get_item(empty_ring(ROB_SIZE), id) = Dead
  BY Sizes DEF empty_ring, get_item
<1>2. SizeOf(empty_ring(ROB_SIZE)) = ROB_SIZE
  BY Sizes DEF SizeOf, empty_ring
<1>3. is_empty(empty_ring(ROB_SIZE))
  BY DEF is_empty, empty_ring
<1> QED
  BY <1>1, <1>2, <1>3, Sizes, EmptyRing DEF Tight

\* A flush leaves the reorder buffer empty.
LEMMA FlushRob ==
  ASSUME Types
  PROVE  flush(rob) = empty_ring(ROB_SIZE)
BY Sizes, ShapeFacts DEF Types, flush

\* A mispredicted branch keeps IInv.
LEMMA MispredictStep ==
  ASSUME IInv, Mispredict
  PROVE  IInv'
<1>0. Types /\ Turns /\ RingsOK
  BY DEF IInv
<1>1. Looking /\ rob_item.finish = "miss"
  BY DEF Mispredict
<1>2. Straight /\ cp_q = << >> /\ \A k \in DOMAIN rob_q : rob_q[k].op = "pop"
  BY <1>0, <1>1, HeadIs
<1>3. get_item(checkpoint_buffer, rob_item.cp) \in CheckpointType
  BY <1>1, HeadCheckpoint
<1>4. restored_checkpoint \in Checkpoint
  BY <1>3 DEF restored_checkpoint, Checkpoint, CheckpointType
<1> DEFINE x == Restore(restored_checkpoint)
<1>5. x \in RatRequest /\ x.op # "set_map" /\ x \in RegRequest
  BY <1>4 DEF RatRequest, RegRequest, Restore
<1> HIDE DEF x
<1>6. rat_q' = Append(Released, x) /\ reg_q' = Append(Unwritten, x) /\ rob_q' = Append(rob_q, Pop)
  BY DEF Mispredict, x
<1>7. rat_q' \in Seq(RatRequest) /\ reg_q' \in Seq(RegRequest) /\ MapsIn(rat_q') = {}
  BY <1>1, <1>5, <1>6, ReleasedIs, MapsAppend
<1>8. rob_q' \in Seq(RingRequest(ROB_SIZE, Entry)) /\ \A k \in DOMAIN rob_q' : rob_q'[k].op = "pop"
  <2>1. Pop \in RingRequest(ROB_SIZE, Entry) /\ Pop.op = "pop" /\ rob_q \in Seq(RingRequest(ROB_SIZE, Entry))
    BY <1>0 DEF Pop, RingRequest, Types
  <2> QED
    BY <1>2, <1>6, <2>1
<1>9. /\ rob' = empty_ring(ROB_SIZE)
      /\ checkpoint_buffer' \in Rings(CHECKPOINT_BUFFER_SIZE, CheckpointType)
  BY <1>0, Sizes, FlushRob, FlushRing DEF Mispredict, Types
<1>10. /\ feedback' = "flush_jump" /\ stage' = "wb" /\ slot' = 0
       /\ UNCHANGED <<rat, data_valid, cp_q, walk, fetcher, units>>
  BY DEF Mispredict, CommitEnds
<1>11. Types'
  BY <1>0, <1>7, <1>8, <1>9, <1>10, EmptyRob DEF Types, walk, fetcher, units
<1>12. cur_state' = "normal" /\ flushing'
  BY <1>1, <1>10 DEF Looking, walk, flushing
<1>13. Turns'
  BY <1>2, <1>7, <1>10, <1>12, GroupMapsNext DEF Turns
<1>14. RingsOK'
  <2>1. Founded(checkpoint_buffer', cp_q')
    BY <1>2, <1>10 DEF Founded
  <2> QED
    BY <1>8, <1>9, <1>10, <1>12, <2>1, EmptyRob DEF RingsOK
<1>15. WalkOK' /\ ~Straight'
  BY <1>12 DEF WalkOK, Straight
<1> QED
  BY <1>11, <1>13, <1>14, <1>15, Crooked

\* An entry walked back keeps IInv.
LEMMA WalkBackStep ==
  ASSUME IInv, WalkBack
  PROVE  IInv'
<1>0. Types /\ Turns /\ RingsOK /\ WalkOK
  BY DEF IInv
<1>1. stage = "commit" /\ cur_state # "normal"
  BY DEF WalkBack
<1>2. /\ rob_q = << >> /\ rat_q = << >> /\ reg_q = << >> /\ inflight = {} /\ port = << >> /\ front = << >>
      /\ ~jump_wait /\ slot = 0
      /\ COMMIT_WIDTH \in Nat \ {0}
  BY <1>0, <1>1, PipelineAssumption DEF Turns
<1>3. cp_q = << >>
  BY <1>0, <1>1, <1>2 DEF Turns
<1>4. SyncedRob = rob
  <2>1. << >> \in Seq({0}) /\ 0 \in {0}
    OBVIOUS
  <2> QED
    BY <1>2, <2>1, RingAfterAppend DEF SyncedRob
<1> DEFINE item == get_item(rob, restore_rob_item_id)
<1>5. restore_rob_item_id \in RobId /\ check_id_valid(rob, restore_rob_item_id) /\ rob_item_id = rob.rptr
  BY <1>0, <1>1, <1>4 DEF WalkOK, Types
<1>6. item \in Entry
  BY <1>0, <1>4, <1>5, LiveIs DEF Ent
<1> HIDE DEF item
<1>7. /\ rat_q' = IF item.old = NoPhy THEN << >> ELSE <<RestoreMap(item.new, item.old)>>
      /\ reg_q' = IF item.old = NoPhy THEN << >> ELSE <<Write(item.new, FALSE)>>
  BY <1>2 DEF WalkBack, item
<1>8. rat_q' \in Seq(RatRequest) /\ reg_q' \in Seq(RegRequest) /\ MapsIn(rat_q') = {}
  <2>1. CASE item.old = NoPhy
    BY <1>7, <2>1 DEF MapsIn
  <2>2. CASE item.old # NoPhy
    <3>1. item.old \in Phy /\ item.new \in Phy
      BY <1>6, <2>2 DEF Entry, RobItem
    <3> DEFINE x == RestoreMap(item.new, item.old)
               y == Write(item.new, FALSE)
    <3>2. x \in RatRequest /\ y \in RegRequest /\ x.op # "set_map"
      BY <3>1 DEF RatRequest, RegRequest, RestoreMap, Write
    <3>3. rat_q' = <<x>> /\ reg_q' = <<y>>
      BY <1>7, <2>2
    <3> HIDE DEF x, y
    <3> QED
      BY <3>2, <3>3 DEF MapsIn
  <2> QED
    BY <2>1, <2>2
<1>9. /\ stage' = "wb" /\ slot' = 0
      /\ UNCHANGED <<rat, data_valid, checkpoint_buffer, rob_q, cp_q, fetcher, units>>
  BY DEF WalkBack, CommitEnds
<1> DEFINE more == /\ restore_rob_item_id # rob_item_id
                   /\ check_id_valid(rob, prev_id(rob, restore_rob_item_id))
<1>10. CASE more
  <2>1. /\ restore_rob_item_id' = prev_id(rob, restore_rob_item_id)
        /\ feedback' = "flush" /\ UNCHANGED <<rob, cur_state, rob_item_id>>
    BY <1>10 DEF WalkBack
  <2>2. prev_id(rob, restore_rob_item_id) \in RobId
    <3>1. PICK x \in Int : x = restore_rob_item_id + ROB_SIZE - 1
      BY <1>5, Sizes
    <3>2. x % ROB_SIZE \in 0 .. ROB_SIZE - 1
      BY Sizes
    <3>3. prev_id(rob, restore_rob_item_id) = x % ROB_SIZE
      BY <1>0, <3>1, Sizes, ShapeFacts DEF prev_id, Types
    <3> QED
      BY <3>2, <3>3, Sizes
  <2>3. Types'
    BY <1>0, <1>8, <1>9, <2>1, <2>2 DEF Types, fetcher, units
  <2>4. Turns'
    BY <1>1, <1>3, <1>8, <1>9, <2>1, GroupMapsNext DEF Turns
  <2>5. RingsOK'
    BY <1>0, <1>1, <1>9, <2>1 DEF RingsOK
  <2>6. SyncedRob' = rob
    BY <1>4, <1>9, <2>1 DEF SyncedRob
  <2>7. WalkOK'
    BY <1>5, <1>10, <2>1, <2>6 DEF WalkOK
  <2>8. ~Straight'
    BY <1>1, <2>1 DEF Straight
  <2> QED
    BY <2>3, <2>4, <2>5, <2>7, <2>8, Crooked
<1>11. CASE ~more
  <2>1. /\ rob' = flush(rob) /\ feedback' = "flush_exception" /\ cur_state' = "normal"
        /\ rob_item_id' = 0 /\ restore_rob_item_id' = 0
    BY <1>11 DEF WalkBack
  <2>2. rob' = empty_ring(ROB_SIZE)
    BY <1>0, <2>1, FlushRob
  <2>3. Types'
    BY <1>0, <1>8, <1>9, <2>1, <2>2, Sizes, EmptyRob DEF Types, fetcher, units
  <2>4. Turns'
    BY <1>1, <1>3, <1>8, <1>9, <2>1, GroupMapsNext DEF Turns
  <2>5. RingsOK'
    <3>1. rob_q' = << >> /\ cp_q' = << >>
      BY <1>2, <1>3, <1>9
    <3>2. Founded(checkpoint_buffer', cp_q')
      BY <3>1 DEF Founded
    <3> QED
      BY <2>1, <2>2, <3>1, <3>2, EmptyRob DEF RingsOK, flushing
  <2>6. WalkOK' /\ ~Straight'
    BY <2>1 DEF WalkOK, Straight, flushing
  <2> QED
    BY <2>3, <2>4, <2>5, <2>6, Crooked
<1> QED
  BY <1>10, <1>11

\* What the end of the cycle makes of the tables and the queues.
LEMMA Synced ==
  ASSUME IInv, NEW fetched, SyncAll(fetched)
  PROVE  /\ rat' \in RatType /\ data_valid' \subseteq Phy
         /\ rob' = SyncedRob /\ SyncedRob' = SyncedRob /\ rob' \in Rings(ROB_SIZE, Entry) /\ Tight(rob')
         /\ SyncedCp' = checkpoint_buffer'
         /\ rat_q' = << >> /\ reg_q' = << >> /\ rob_q' = << >> /\ cp_q' = << >>
         /\ feedback' = "none" /\ stage' = "commit" /\ slot' = 0
<1>0. Types /\ RingsOK
  BY DEF IInv
<1>1. << >> \in Seq({0}) /\ 0 \in {0}
  OBVIOUS
<1>2. \A r : RingAfter(r, << >>) = r
  BY <1>1, RingAfterAppend
<1>3. rat' \in RatType /\ data_valid' \subseteq Phy
  BY <1>0, RatTyped, RegTyped DEF Types, SyncAll, SyncedRat, SyncedData
<1>4. rob' = SyncedRob /\ rob_q' = << >> /\ cp_q' = << >>
  BY DEF SyncAll
<1>5. SyncedRob' = rob' /\ SyncedCp' = checkpoint_buffer'
  BY <1>2, <1>4 DEF SyncedRob, SyncedCp
<1>6. SyncedRob \in Rings(ROB_SIZE, Entry) /\ Tight(SyncedRob)
  BY <1>0, RobIs
<1> QED
  BY <1>3, <1>4, <1>5, <1>6 DEF SyncAll

\* A new cycle: nobody has asked for anything.
LEMMA NewCycle ==
  ASSUME rat_q' = << >>, reg_q' = << >>, rob_q' = << >>, cp_q' = << >>, feedback' = "none",
         stage' = "commit", slot' = 0,
         cur_state' # "normal" => inflight' = {} /\ port' = << >> /\ front' = << >> /\ ~jump_wait'
  PROVE  Turns' /\ RingsOK' /\ (Straight' <=> cur_state' = "normal")
<1>1. Pops' = {} /\ Cardinality(Pops)' = 0 /\ GroupMaps' = {}
  <2>1. Pops' = {} /\ GroupMaps' = {}
    BY DEF Pops, GroupMaps
  <2> QED
    BY <2>1, FS_EmptySet
<1>2. ~flushing'
  BY DEF flushing
<1>3. Turns'
  BY <1>1, <1>2 DEF Turns
<1>4. RingsOK'
  BY <1>2 DEF RingsOK, Founded
<1> QED
  BY <1>2, <1>3, <1>4 DEF Straight

\* The cycle in which every stage drops what it holds keeps IInv.
LEMMA FlushStep ==
  ASSUME IInv, FlushAndSync
  PROVE  IInv'
<1>0. Types /\ Turns /\ RingsOK /\ WalkOK
  BY DEF IInv
<1>1. /\ flushing /\ inflight' = {} /\ port' = << >> /\ front' = << >> /\ jump_wait' = FALSE
      /\ off_path' = (off_path /\ feedback = "flush") /\ SyncAll(checkpoint_buffer) /\ UNCHANGED walk
  BY DEF FlushAndSync, FlushTo
<1>2. /\ rat' \in RatType /\ data_valid' \subseteq Phy
      /\ rob' = SyncedRob /\ SyncedRob' = SyncedRob /\ rob' \in Rings(ROB_SIZE, Entry) /\ Tight(rob')
      /\ rat_q' = << >> /\ reg_q' = << >> /\ rob_q' = << >> /\ cp_q' = << >>
      /\ feedback' = "none" /\ stage' = "commit" /\ slot' = 0
  BY <1>1, Synced
<1>3. checkpoint_buffer' = SyncedCp /\ SyncedCp \in Rings(CHECKPOINT_BUFFER_SIZE, CheckpointType)
  BY <1>0, <1>1, CpIs DEF SyncAll, SyncedCp
<1>4. Turns' /\ RingsOK' /\ (Straight' <=> cur_state' = "normal")
  BY <1>1, <1>2, NewCycle
<1>5. Types'
  <2>1. /\ rob_item_id' \in RobId /\ restore_rob_item_id' \in RobId
        /\ cur_state' \in {"normal", "flush", "interrupt_flush"}
    BY <1>0, <1>1 DEF Types, walk
  <2>2. off_path' \in BOOLEAN /\ jump_wait' \in BOOLEAN
    BY <1>1
  <2>3. front' \in Seq(Queued) /\ Len(front') <= FRONT_SIZE /\ inflight' \subseteq Sent /\ port' \in Seq(Reply)
    BY <1>1, PipelineAssumption
  <2>4. /\ rat_q' \in Seq(RatRequest) /\ reg_q' \in Seq(RegRequest)
        /\ rob_q' \in Seq(RingRequest(ROB_SIZE, Entry))
        /\ cp_q' \in Seq(RingRequest(CHECKPOINT_BUFFER_SIZE, CheckpointType))
    BY <1>2
  <2>5. /\ feedback' \in {"none", "jump", "flush", "flush_jump", "flush_exception"}
        /\ stage' \in {"commit", "wb", "rename"} /\ slot' \in Nat
    BY <1>2
  <2>6. checkpoint_buffer' \in Rings(CHECKPOINT_BUFFER_SIZE, CheckpointType)
    BY <1>3
  <2> QED
    BY <1>2, <2>1, <2>2, <2>3, <2>4, <2>5, <2>6 DEF Types
<1>6. CASE cur_state # "normal"
  <2>1. WalkOK'
    BY <1>0, <1>1, <1>2, <1>6 DEF WalkOK, walk
  <2> QED
    BY <1>1, <1>4, <1>5, <1>6, <2>1, Crooked DEF walk
<1>7. CASE cur_state = "normal"
  <2>1. is_empty(rob) /\ SyncedRob = rob
    <3>1. is_empty(rob) /\ \A k \in DOMAIN rob_q : rob_q[k].op = "pop"
      BY <1>0, <1>1, <1>7 DEF RingsOK
    <3> QED
      BY <1>0, <3>1, EmptyPops DEF SyncedRob, Types
  <2>2. \A id \in RobId : Ent(id)' = Dead
    <3>1. \A id \in RobId : ~check_id_valid(rob, id)
      BY <2>1 DEF check_id_valid
    <3> QED
      BY <1>0, <1>2, <2>1, <3>1, LiveIs DEF Ent
  <2>3. AnswersOK'
    BY <1>1, <2>2 DEF AnswersOK
  <2>4. Straight'
    BY <1>1, <1>4, <1>7 DEF walk
  <2>5. Stream' = 0
    <3>1. get_size(rob) = 0
      BY <1>0, <2>1, Sizes, SizeIs DEF Types
    <3> QED
      BY <1>1, <1>2, <2>1, <3>1 DEF Stream
  <2>6. Intact(LiveCheckpoints', Stream', SyncedCp')
    BY <2>5 DEF Intact
  <2>7. Waits(JumpsPending', Stream', jump_wait' /\ feedback' # "jump")
    BY <1>1, <2>5 DEF Waits
  <2> QED
    BY <1>4, <1>5, <2>3, <2>4, <2>6, <2>7, StraightOn
<1> QED
  BY <1>6, <1>7

\* The same entry, at a place that has moved.
LEMMA SameTells ==
  ASSUME NEW i, NEW j, NEW id, Tells(i), Tells(j)', inflight' = inflight, port' = port,
         Place(SyncedRob, i) = id, Place(SyncedRob', j) = id, Ent(id)' = Ent(id)
  PROVE  LiveCheckpoints'[j] = LiveCheckpoints[i] /\ (JumpsPending'[j] <=> JumpsPending[i])
<1>1. /\ \A x \in inflight : x.id = id =>
           LiveCheckpoints[i] = x.cp /\ (JumpsPending[i] <=> x.kind = "jump")
      /\ \A k \in DOMAIN port : port[k].id = id =>
           LiveCheckpoints[i] = port[k].cp /\ (JumpsPending[i] <=> port[k].result = "jump")
      /\ Ent(id).finish # "no" =>
           LiveCheckpoints[i] = Ent(id).cp /\ (JumpsPending[i] <=> Ent(id).finish = "jump")
      /\ \/ \E x \in inflight : x.id = id
         \/ \E k \in DOMAIN port : port[k].id = id
         \/ Ent(id).finish # "no"
  BY Zenon DEF Tells
<1>2. /\ \A x \in inflight' : x.id = id =>
           LiveCheckpoints'[j] = x.cp /\ (JumpsPending'[j] <=> x.kind = "jump")
      /\ \A k \in DOMAIN port' : port'[k].id = id =>
           LiveCheckpoints'[j] = port'[k].cp /\ (JumpsPending'[j] <=> port'[k].result = "jump")
      /\ Ent(id)'.finish # "no" =>
           LiveCheckpoints'[j] = Ent(id)'.cp /\ (JumpsPending'[j] <=> Ent(id)'.finish = "jump")
  BY Zenon DEF Tells
<1> QED
  BY <1>1, <1>2

\* What a retirement makes of the reorder buffer.
LEMMA RetireEffect ==
  ASSUME IInv, Retire
  PROVE  \E h \in RobId :
           /\ h = current_id /\ Place(SyncedRob, 1) = h /\ Ent(h) = rob_item
           /\ get_size(SyncedRob) \in 1 .. ROB_SIZE
           /\ get_size(SyncedRob') = get_size(SyncedRob) - 1
           /\ \A i \in 1 .. ROB_SIZE - 1 : Place(SyncedRob', i) = Place(SyncedRob, i + 1)
           /\ \A i \in 2 .. ROB_SIZE : Place(SyncedRob, i) \in RobId /\ Place(SyncedRob, i) # h
           /\ \A j \in RobId : j # h => Ent(j)' = Ent(j)
           /\ Ent(h)' = Dead
<1>0. Types /\ Turns /\ RingsOK
  BY DEF IInv
<1>1. Looking /\ rob_q' = Append(rob_q, Pop) /\ UNCHANGED machine
  BY DEF Retire
<1>2. /\ ~is_empty(SyncedRob) /\ get_size(SyncedRob) \in 1 .. ROB_SIZE
      /\ SyncedRob.rptr = current_id /\ current_id \in RobId /\ Place(SyncedRob, 1) = current_id
      /\ Ent(current_id) = rob_item
  BY <1>0, <1>1, HeadIs
<1>3. PICK s \in Rings(ROB_SIZE, Entry) : s = SyncedRob
  BY <1>0, RobIs
<1>4. Pop.op = "pop" /\ Pop \in RingRequest(ROB_SIZE, Entry)
  BY DEF Pop, RingRequest
<1>5. SyncedRob' = pop(s)
  <2>1. RingAfter(rob, Append(rob_q, Pop)) = ApplyRing(RingAfter(rob, rob_q), Pop)
    BY <1>0, <1>4, RingAfterAppend DEF Types
  <2> QED
    BY <1>1, <1>3, <1>4, <2>1 DEF SyncedRob, ApplyRing, machine
<1>6. PICK h \in RobId : h = current_id
  BY <1>2
<1>7. /\ get_size(SyncedRob') = get_size(SyncedRob) - 1
      /\ \A i \in 1 .. ROB_SIZE - 1 : Place(SyncedRob', i) = Place(SyncedRob, i + 1)
      /\ \A j \in RobId : j # h => Ent(j)' = Ent(j)
      /\ Ent(h)' = Dead
  <2>1. ~is_empty(s) /\ s.rptr = h
    BY <1>2, <1>3, <1>6
  <2>2. PICK t : t = pop(s)
    OBVIOUS
  <2>3. /\ get_size(t) = get_size(s) - 1
        /\ \A i \in 1 .. ROB_SIZE - 1 : Place(t, i) = Place(s, i + 1)
        /\ \A j \in RobId : j # h => get_item(t, j) = get_item(s, j)
        /\ get_item(t, h) = Dead
    BY <2>1, <2>2, Sizes, PopItem, PopLeaves
  <2> QED
    BY <1>3, <1>5, <2>2, <2>3 DEF Ent
<1>8. \A i \in 2 .. ROB_SIZE : Place(SyncedRob, i) \in RobId /\ Place(SyncedRob, i) # h
  <2> SUFFICES ASSUME NEW i \in 2 .. ROB_SIZE
               PROVE  Place(s, i) \in RobId /\ Place(s, i) # h
    BY <1>3
  <2>1. i \in 1 .. ROB_SIZE /\ 1 \in 1 .. ROB_SIZE
    BY Sizes
  <2>2. Place(s, i) \in RobId /\ At(s, Place(s, i)) = i /\ At(s, Place(s, 1)) = 1
    BY <2>1, Sizes, AtPlace
  <2> QED
    BY <1>2, <1>3, <1>6, <2>2
<1> QED
  BY <1>2, <1>6, <1>7, <1>8

\* A retirement keeps IInv.
LEMMA RetireStep ==
  ASSUME IInv, Retire
  PROVE  IInv'
<1>0. Types /\ Turns /\ RingsOK /\ AnswersOK
  BY DEF IInv
<1>1. Looking /\ rob_item.finish \in {"ok", "jump", "hit"}
  BY DEF Retire
<1>2. /\ Straight /\ feedback = "none" /\ cp_q = << >> /\ SyncedCp = checkpoint_buffer
      /\ Founded(rob, rob_q) /\ Len(rob_q) = slot /\ \A k \in DOMAIN rob_q : rob_q[k].op = "pop"
      /\ ~is_empty(SyncedRob) /\ get_size(SyncedRob) \in 1 .. ROB_SIZE
      /\ SyncedRob.rptr = current_id /\ current_id \in RobId /\ Place(SyncedRob, 1) = current_id
      /\ At(SyncedRob, current_id) = 1 /\ Ent(current_id) = rob_item /\ rob_item \in Entry
  BY <1>0, <1>1, HeadIs
<1>3. stage = "commit" /\ cur_state = "normal" /\ slot < COMMIT_WIDTH
  BY <1>1 DEF Looking
<1>4. /\ rob_q' = Append(rob_q, Pop) /\ rat_q' = Released /\ reg_q' = Unwritten /\ cp_q' = GivenBack
      /\ feedback' = Reported
      /\ slot' = IF rob_item.finish = "ok" THEN slot + 1 ELSE COMMIT_WIDTH
      /\ UNCHANGED <<machine, walk, fetcher, units, stage>>
  BY DEF Retire
<1>6. Pop.op = "pop" /\ \A T : Pop \in RingRequest(ROB_SIZE, T) /\ Pop \in RingRequest(CHECKPOINT_BUFFER_SIZE, T)
  BY DEF Pop, RingRequest
<1>8. PICK h \in RobId : h = current_id
  BY <1>2
<1>9. /\ get_size(SyncedRob') = get_size(SyncedRob) - 1
      /\ \A i \in 1 .. ROB_SIZE - 1 : Place(SyncedRob', i) = Place(SyncedRob, i + 1)
      /\ \A i \in 2 .. ROB_SIZE : Place(SyncedRob, i) \in RobId /\ Place(SyncedRob, i) # h
      /\ \A j \in RobId : j # h => Ent(j)' = Ent(j)
      /\ Ent(h)' = Dead
  BY <1>8, RetireEffect
<1>10. /\ rat_q' \in Seq(RatRequest) /\ reg_q' \in Seq(RegRequest) /\ MapsIn(rat_q') = {}
  BY <1>1, <1>4, ReleasedIs
<1>11. rob_q' \in Seq(RingRequest(ROB_SIZE, Entry)) /\ \A k \in DOMAIN rob_q' : rob_q'[k].op = "pop"
  BY <1>0, <1>2, <1>4, <1>6 DEF Types
<1>12. cp_q' \in Seq(RingRequest(CHECKPOINT_BUFFER_SIZE, CheckpointType))
  BY <1>0, <1>4, <1>6 DEF Types, GivenBack
<1>13. feedback' \in {"none", "jump"} /\ ~flushing' /\ Straight'
  BY <1>2, <1>3, <1>4 DEF Reported, flushing, Straight, walk
<1>14. Types'
  <2>1. slot' \in Nat
    BY <1>0, <1>4, PipelineAssumption, SMTT(60) DEF Types
  <2> QED
    BY <1>0, <1>4, <1>10, <1>11, <1>12, <1>13, <2>1 DEF Types, machine, walk, fetcher, units
<1>15. Turns'
  <2>1. ASSUME slot' < COMMIT_WIDTH
        PROVE  cp_q' = << >> /\ feedback' = "none" /\ Cardinality(Pops)' = slot'
    <3>1. rob_item.finish = "ok" /\ slot' = slot + 1
      BY <1>1, <1>4, <2>1, PipelineAssumption
    <3>2. Cardinality(PopsIn(rob_q)) = slot
      BY <1>0, <1>2, PopsAppend, <1>6 DEF Types
    <3>3. Cardinality(PopsIn(rob_q')) = slot + 1
      BY <1>0, <1>4, <1>6, <3>2, PopsAppend DEF Types
    <3> QED
      BY <1>2, <1>4, <3>1, <3>3 DEF GivenBack, Reported, Pops, PopsIn
  <2> QED
    BY <1>3, <1>4, <1>10, <1>11, <1>13, <2>1, GroupMapsNext DEF Turns, walk
<1>16. RingsOK'
  <2>1. Founded(rob', rob_q')
    <3>1. Finds(RingAfter(rob, rob_q), Pop)
      BY <1>2, <1>6 DEF Finds, SyncedRob
    <3> QED
      BY <1>0, <1>2, <1>4, <1>6, <3>1, FoundedAppend DEF Types, machine
  <2>2. Founded(checkpoint_buffer', cp_q')
    <3>1. CASE rob_item.finish = "hit"
      <4>1. ~is_empty(checkpoint_buffer)
        BY <1>1, <3>1, HeadCheckpoint
      <4>2. Finds(RingAfter(checkpoint_buffer, cp_q), Pop)
        BY <1>2, <1>6, <4>1 DEF Finds, SyncedCp
      <4>3. cp_q' = Append(cp_q, Pop) /\ checkpoint_buffer' = checkpoint_buffer
        BY <1>4, <3>1 DEF GivenBack, machine
      <4>4. cp_q \in Seq(RingRequest(CHECKPOINT_BUFFER_SIZE, CheckpointType)) /\ Founded(checkpoint_buffer, cp_q)
        BY <1>0 DEF RingsOK, Types
      <4> QED
        BY <1>6, <4>2, <4>3, <4>4, FoundedAppend
    <3>2. CASE rob_item.finish # "hit"
      BY <1>0, <1>4, <3>2 DEF GivenBack, machine, RingsOK
    <3> QED
      BY <3>1, <3>2
  <2> QED
    BY <1>13, <2>1, <2>2 DEF RingsOK
<1>17. AnswersOK'
  <2>1. inflight' = inflight /\ port' = port
    BY <1>4 DEF units
  <2>2. /\ \A x, y \in inflight : x.id = y.id => x = y
        /\ \A i, j \in DOMAIN port : port[i].id = port[j].id => i = j
        /\ \A x \in inflight, i \in DOMAIN port : x.id # port[i].id
        /\ \A x \in inflight : Unanswered(x)
        /\ \A i \in DOMAIN port : Unanswered(port[i])
        /\ \A id \in RobId : Ent(id) # Dead /\ Ent(id).finish = "no" =>
             PacksOf(id) # {} \/ AnswersOf(id) # {}
    BY <1>0, <1>2 DEF AnswersOK
  <2>3. ASSUME NEW x, x.id \in RobId, Unanswered(x)
        PROVE  Unanswered(x)'
    <3>1. x.id # h
      BY <1>1, <1>2, <1>8, <2>3 DEF Unanswered
    <3>2. PICK id \in RobId : id = x.id
      BY <2>3
    <3>3. Ent(id)' = Ent(id)
      BY <1>9, <3>1, <3>2
    <3> QED
      BY <2>3, <3>2, <3>3 DEF Unanswered
  <2>4. (\A x \in inflight : x.id \in RobId) /\ \A i \in DOMAIN port : port[i].id \in RobId
    BY <1>0 DEF Types, Sent, Pack, Reply, Answer
  <2>5. \A x \in inflight' : Unanswered(x)'
    BY <2>1, <2>2, <2>3, <2>4
  <2>6. \A i \in DOMAIN port' : Unanswered(port[i])'
    BY <2>1, <2>2, <2>3, <2>4
  <2>7. ASSUME NEW id \in RobId, Ent(id)' # Dead, Ent(id)'.finish = "no"
        PROVE  PacksOf(id)' # {} \/ AnswersOf(id)' # {}
    <3>1. Ent(id)' = Ent(id)
      BY <1>9, <2>7
    <3> QED
      BY <2>1, <2>2, <2>7, <3>1 DEF PacksOf, AnswersOf
  <2> QED
    BY <2>1, <2>2, <2>5, <2>6, <2>7 DEF AnswersOK
<1>18. /\ StreamFacts /\ Stream >= 1 /\ Intact(LiveCheckpoints, Stream, SyncedCp)
       /\ Waits(JumpsPending, Stream, jump_wait /\ feedback # "jump")
       /\ LiveCheckpoints[1] = rob_item.cp /\ (JumpsPending[1] <=> rob_item.finish = "jump")
  BY <1>1, HeadStream
<1>19. StreamFacts' /\ Stream' = Stream - 1 /\ front' = front
  <2>1. StreamFacts'
    BY <1>13, <1>14, <1>16, <1>17, StreamNext
  <2>2. front' = front /\ Len(front) \in Nat
    BY <1>0, <1>4 DEF fetcher, Types
  <2>3. Stream' = get_size(SyncedRob') + Len(front')
    BY DEF Stream
  <2> QED
    BY <1>2, <1>9, <2>1, <2>2, <2>3 DEF Stream
<1>20. ASSUME NEW i \in 1 .. Stream - 1
       PROVE  LiveCheckpoints'[i] = LiveCheckpoints[i + 1] /\ (JumpsPending'[i] <=> JumpsPending[i + 1])
  <2> DEFINE n == get_size(SyncedRob)
  <2>1. n \in 1 .. ROB_SIZE /\ get_size(SyncedRob') = n - 1 /\ Stream = n + Len(front) /\ Len(front) \in Nat
    BY <1>0, <1>2, <1>9 DEF Stream, Types
  <2> HIDE DEF n
  <2>2. CASE i <= n - 1
    <3>1. i \in 1 .. ROB_SIZE - 1 /\ i + 1 \in 1 .. n /\ i \in 1 .. n - 1
      BY <2>1, <2>2, Sizes
    <3>2. PICK id \in RobId : id = Place(SyncedRob, i + 1) /\ id # h
      <4>1. i + 1 \in 2 .. ROB_SIZE
        BY <2>1, <3>1, Sizes
      <4> QED
        BY <1>9, <4>1
    <3>3. Place(SyncedRob', i) = id /\ Ent(id)' = Ent(id)
      BY <1>9, <3>1, <3>2
    <3>4. Tells(i + 1) /\ Tells(i)'
      BY <1>18, <1>19, <2>1, <3>1 DEF StreamFacts, n
    <3>5. inflight' = inflight /\ port' = port
      BY <1>4 DEF units
    <3> QED
      BY <3>2, <3>3, <3>4, <3>5, SameTells
  <2>3. CASE i > n - 1
    <3>1. PICK k \in 1 .. Len(front) : i = (n - 1) + k /\ i + 1 = n + k
      BY <2>1, <2>3
    <3>2. LiveCheckpoints[n + k] = front[k].cp /\ (JumpsPending[n + k] <=> front[k].kind = "jump")
      BY <1>18, <3>1 DEF StreamFacts, n
    <3>3. LiveCheckpoints'[(n - 1) + k] = front[k].cp /\ (JumpsPending'[(n - 1) + k] <=> front[k].kind = "jump")
      BY <1>19, <2>1, <3>1 DEF StreamFacts
    <3> QED
      BY <3>1, <3>2, <3>3
  <2> QED
    BY <2>1, <2>2, <2>3
<1>21. Intact(LiveCheckpoints', Stream', SyncedCp')
  <2>1. PICK r \in Rings(CHECKPOINT_BUFFER_SIZE, CheckpointType) : r = SyncedCp /\ r = checkpoint_buffer
    BY <1>0, <1>2, CpIs
  <2>2. Stream \in Nat \ {0}
    BY <1>18 DEF StreamFacts
  <2>3. CASE rob_item.finish = "hit"
    <3>1. ~is_empty(r) /\ LiveCheckpoints[1] # NoId
      BY <1>1, <2>1, <2>3, HeadCheckpoint
    <3>2. SyncedCp' = pop(r)
      <4>1. RingAfter(checkpoint_buffer, Append(cp_q, Pop)) = ApplyRing(RingAfter(checkpoint_buffer, cp_q), Pop)
        BY <1>0, <1>6, RingAfterAppend DEF Types
      <4>2. cp_q' = Append(cp_q, Pop) /\ checkpoint_buffer' = checkpoint_buffer
        BY <1>4, <2>3 DEF GivenBack, machine
      <4> QED
        BY <1>6, <2>1, <4>1, <4>2 DEF SyncedCp, ApplyRing
    <3>3. PICK t : t = pop(r)
      OBVIOUS
    <3>4. /\ t \in Rings(CHECKPOINT_BUFFER_SIZE, CheckpointType) /\ get_size(t) = get_size(r) - 1
          /\ \A i \in 1 .. CHECKPOINT_BUFFER_SIZE - 1 : Place(t, i) = Place(r, i + 1)
      BY <3>1, <3>3, Sizes, PopItem
    <3>5. PICK c, d, m : c = LiveCheckpoints /\ d = LiveCheckpoints' /\ m = Stream
      OBVIOUS
    <3>6. m \in Nat \ {0} /\ (\A i \in 1 .. m - 1 : d[i] = c[i + 1]) /\ Intact(c, m, r) /\ c[1] # NoId
      BY <1>18, <1>20, <2>1, <2>2, <3>1, <3>5
    <3>7. Intact(d, m - 1, t)
      BY <3>4, <3>6, Sizes, IntactPop
    <3> QED
      BY <1>19, <3>2, <3>3, <3>5, <3>7
  <2>4. CASE rob_item.finish # "hit"
    <3>1. SyncedCp' = r
      BY <1>4, <2>1, <2>4 DEF SyncedCp, GivenBack, machine
    <3>2. PICK c, d, m : c = LiveCheckpoints /\ d = LiveCheckpoints' /\ m = Stream
      OBVIOUS
    <3>3. m \in Nat \ {0} /\ (\A i \in 1 .. m - 1 : d[i] = c[i + 1]) /\ Intact(c, m, r)
      BY <1>18, <1>20, <2>1, <2>2, <3>2
    <3>4. Intact(d, m - 1, r)
      BY <3>3, Sizes, IntactLeaves
    <3> QED
      BY <1>19, <3>1, <3>2, <3>4
  <2> QED
    BY <2>3, <2>4
<1>22. Waits(JumpsPending', Stream', jump_wait' /\ feedback' # "jump")
  <2>1. PICK j, k, m : j = JumpsPending /\ k = JumpsPending' /\ m = Stream
    OBVIOUS
  <2>2. /\ m \in Nat /\ m >= 1 /\ \A i \in 1 .. m - 1 : k[i] <=> j[i + 1]
        /\ \A i \in 1 .. m - 1 : ~j[i]
        /\ jump_wait <=> j[m]
        /\ j[1] <=> rob_item.finish = "jump"
    BY <1>2, <1>18, <1>20, <2>1 DEF Waits, StreamFacts
  <2>3. jump_wait' = jump_wait
    BY <1>4 DEF fetcher
  <2>4. \A i \in 1 .. (m - 1) - 1 : ~k[i]
    BY <2>2
  <2>5. CASE rob_item.finish = "jump"
    <3>1. m = 1 /\ feedback' = "jump"
      BY <1>4, <2>2, <2>5 DEF Reported
    <3> QED
      BY <1>19, <2>1, <2>4, <3>1 DEF Waits
  <2>6. CASE rob_item.finish # "jump"
    <3>1. feedback' = "none"
      BY <1>2, <1>4, <2>6 DEF Reported
    <3>2. jump_wait <=> m - 1 > 0 /\ k[m - 1]
      <4>1. CASE m = 1
        BY <2>2, <2>6, <4>1
      <4>2. CASE m > 1
        <5>1. m - 1 \in 1 .. m - 1 /\ (m - 1) + 1 = m
          BY <2>2, <4>2
        <5>2. k[m - 1] <=> j[m]
          BY <2>2, <5>1
        <5> QED
          BY <2>2, <4>2, <5>2
      <4> QED
        BY <2>2, <4>1, <4>2
    <3> QED
      BY <1>19, <2>1, <2>3, <2>4, <3>1, <3>2 DEF Waits
  <2> QED
    BY <2>5, <2>6
<1> QED
  BY <1>13, <1>14, <1>15, <1>16, <1>17, <1>21, <1>22, StraightOn

-----------------------------------------------------------------------------
(* The results that commit takes in are requests to write to entries.      *)

\* Results for different entries, written one after the other.
LEMMA SetMany ==
  ASSUME NEW n \in Nat \ {0}, NEW T, Dead \notin T, NEW r \in Rings(n, T),
         NEW q \in Seq(RingRequest(n, T)), Founded(r, q),
         NEW m \in Nat, NEW u \in [1 .. m -> RingRequest(n, T)],
         \A i \in 1 .. m : u[i].op = "set_item" /\ check_id_valid(RingAfter(r, q), u[i].id),
         \A i, j \in 1 .. m : u[i].id = u[j].id => i = j
  PROVE  /\ Founded(r, q \o u) /\ q \o u \in Seq(RingRequest(n, T))
         /\ get_size(RingAfter(r, q \o u)) = get_size(RingAfter(r, q))
         /\ \A i : Place(RingAfter(r, q \o u), i) = Place(RingAfter(r, q), i)
         /\ \A i \in 1 .. m : get_item(RingAfter(r, q \o u), u[i].id) = u[i].item
         /\ \A id \in 0 .. n - 1 : (\A i \in 1 .. m : u[i].id # id) =>
              get_item(RingAfter(r, q \o u), id) = get_item(RingAfter(r, q), id)
<1> DEFINE Req == RingRequest(n, T)
           s == RingAfter(r, q)
           p(k) == q \o [i \in 1 .. k |-> u[i]]
           t(k) == RingAfter(r, p(k))
           Written(k) == /\ p(k) \in Seq(Req) /\ Founded(r, p(k)) /\ t(k) \in Rings(n, T)
                         /\ get_size(t(k)) = get_size(s)
                         /\ \A i : Place(t(k), i) = Place(s, i)
                         /\ \A i \in 1 .. k : get_item(t(k), u[i].id) = u[i].item
                         /\ \A id \in 0 .. n - 1 :
                              (\A i \in 1 .. k : u[i].id # id) => get_item(t(k), id) = get_item(s, id)
           S == {k \in 0 .. m : Written(k)}
<1>0. s \in Rings(n, T)
  BY RingSynced
<1>1. \A i \in 1 .. m : u[i].id \in 0 .. n - 1 /\ u[i].item \in T
  BY DEF RingRequest
<1> HIDE DEF Req
<1>2. 0 \in S
  <2>1. p(0) = q
    BY DEF Req
  <2> QED
    BY <1>0, <2>1 DEF Req
<1>3. ASSUME NEW k \in 0 .. m - 1, k \in S
      PROVE  k + 1 \in S
  <2> DEFINE x == u[k + 1]
  <2>1. k + 1 \in 1 .. m /\ x \in Req /\ x.op = "set_item" /\ x.id \in 0 .. n - 1 /\ x.item \in T
    BY <1>1 DEF Req
  <2>2. p(k + 1) = Append(p(k), x)
    <3>1. PICK v, w : v = [i \in 1 .. k |-> u[i]] /\ w = [i \in 1 .. k + 1 |-> u[i]]
      OBVIOUS
    <3>2. v \in Seq(Req) /\ w \in Seq(Req) /\ w = Append(v, x)
      BY <2>1, <3>1 DEF Req
    <3>3. q \o Append(v, x) = Append(q \o v, x)
      BY <2>1, <3>2, SMTT(60) DEF Req
    <3> QED
      BY <3>1, <3>2, <3>3
  <2>3. Written(k)
    BY <1>3
  <2> HIDE DEF x
  <2>4. PICK y \in Rings(n, T) : y = t(k)
    BY <2>3
  <2>5. t(k + 1) = set_item(y, x.id, x.item)
    <3>1. PICK v \in Seq(Req), z \in Req : v = p(k) /\ z = x
      BY <2>1, <2>3
    <3>2. RingAfter(r, Append(v, z)) = ApplyRing(RingAfter(r, v), z)
      BY RingAfterAppend
    <3> QED
      BY <2>1, <2>2, <2>4, <3>1, <3>2 DEF ApplyRing
  <2>6. check_id_valid(y, x.id)
    <3>1. At(s, x.id) <= get_size(s)
      BY <1>0, <2>1, ValidIs DEF x
    <3>2. Place(y, At(s, x.id)) = x.id /\ At(s, x.id) \in 1 .. n
      BY <1>0, <2>1, <2>3, <2>4, PlaceAt, SMTT(60)
    <3>3. At(y, x.id) = At(s, x.id)
      BY <3>2, AtPlace
    <3> QED
      BY <2>1, <2>3, <2>4, <3>1, <3>3, ValidIs
  <2>7. Founded(r, p(k + 1)) /\ p(k + 1) \in Seq(Req)
    <3>1. PICK v : v = p(k) /\ v \in Seq(Req) /\ Founded(r, v)
      BY <2>3
    <3>2. Finds(RingAfter(r, v), x)
      BY <2>1, <2>4, <2>6, <3>1 DEF Finds
    <3>3. Founded(r, Append(v, x))
      BY <2>1, <3>1, <3>2, FoundedAppend, Zenon
    <3>4. Append(v, x) \in Seq(Req)
      BY <2>1, <3>1
    <3> QED
      BY <2>2, <3>1, <3>3, <3>4
  <2>8. /\ t(k + 1) \in Rings(n, T) /\ get_size(t(k + 1)) = get_size(y)
        /\ \A i : Place(t(k + 1), i) = Place(y, i)
        /\ \A j \in 0 .. n - 1 : get_item(t(k + 1), j) = IF j = x.id THEN x.item ELSE get_item(y, j)
    <3>1. PICK z : z = set_item(y, x.id, x.item)
      OBVIOUS
    <3>2. /\ z \in Rings(n, T) /\ get_size(z) = get_size(y) /\ \A i : Place(z, i) = Place(y, i)
          /\ \A j \in 0 .. n - 1 : get_item(z, j) = IF j = x.id THEN x.item ELSE get_item(y, j)
      BY <2>1, <3>1, ItemSet
    <3> QED
      BY <2>5, <3>1, <3>2
  <2>9. ASSUME NEW i \in 1 .. k + 1
        PROVE  get_item(t(k + 1), u[i].id) = u[i].item
    <3>1. i \in 1 .. m /\ u[i].id \in 0 .. n - 1
      BY <1>1
    <3>2. CASE i = k + 1
      BY <2>8, <3>1, <3>2 DEF x
    <3>3. CASE i \in 1 .. k
      <4>1. u[i].id # x.id
        BY <2>1, <3>1, <3>3 DEF x
      <4> QED
        BY <2>3, <2>4, <2>8, <3>1, <3>3, <4>1
    <3> QED
      BY <3>2, <3>3
  <2>10. ASSUME NEW id \in 0 .. n - 1, \A i \in 1 .. k + 1 : u[i].id # id
         PROVE  get_item(t(k + 1), id) = get_item(s, id)
    <3>1. id # x.id /\ \A i \in 1 .. k : u[i].id # id
      BY <2>10 DEF x
    <3> QED
      BY <2>3, <2>4, <2>8, <3>1
  <2>11. get_size(t(k + 1)) = get_size(s) /\ \A i : Place(t(k + 1), i) = Place(s, i)
    BY <2>3, <2>4, <2>8
  <2> HIDE DEF p, s
  <2>12. Written(k + 1)
    BY <2>7, <2>8, <2>9, <2>10, <2>11
  <2> HIDE DEF Written
  <2> QED
    BY <2>1, <2>12
<1>4. m \in S
  <2> HIDE DEF S
  <2>1. \A k \in 0 .. m - 1 : k \in S => k + 1 \in S
    BY <1>3
  <2>2. 0 .. m \subseteq S
    BY <1>2, <2>1, UpTo
  <2> QED
    BY <2>2
<1>5. p(m) = q \o u
  <2>1. [i \in 1 .. m |-> u[i]] = u
    OBVIOUS
  <2> QED
    BY <2>1
<1> QED
  BY <1>4, <1>5 DEF Req

\* Once commit has popped, an entry is still where it was.
LEMMA EntIsThere ==
  ASSUME Types, RingsOK, Straight, \A k \in DOMAIN rob_q : rob_q[k].op = "pop",
         NEW id \in RobId, Ent(id) # Dead
  PROVE  get_item(rob, id) = Ent(id)
<1> DEFINE n == ROB_SIZE
           k == Len(rob_q)
<1>1. /\ rob \in Rings(n, Entry) /\ rob_q \in Seq(RingRequest(n, Entry)) /\ Founded(rob, rob_q)
      /\ n \in Nat \ {0} /\ k \in Nat /\ id \in 0 .. n - 1
  BY FoundRob, Sizes DEF Types
<1>2. PICK s \in Rings(n, Entry) : s = SyncedRob
  BY RobIs
<1>3. Cardinality(PopsIn(rob_q)) = k
  <2>1. [op |-> "pop"] \in RingRequest(n, Entry)
    BY DEF RingRequest
  <2> QED
    BY <1>1, <2>1, PopsAppend
<1>4. Shorter(rob, s, k, n) /\ Leaves(rob, s, k, n)
  BY <1>1, <1>2, <1>3, DeadIsNone, RingShorter, RingPops DEF SyncedRob
<1>5. At(s, id) <= get_size(s) /\ At(s, id) \in 1 .. n /\ Place(s, At(s, id)) = id
  BY <1>1, <1>2, LiveIs, PlaceAt
<1> HIDE DEF k
<1>6. At(s, id) \in 1 .. n - k /\ At(s, id) + k \in 1 .. n /\ get_size(rob) \in 0 .. n
  <2>1. get_size(rob) \in 0 .. n /\ get_size(s) = get_size(rob) - k
    BY <1>1, <1>4, SizeIs DEF Shorter
  <2> QED
    BY <1>1, <1>5, <2>1
<1>7. Place(rob, At(s, id) + k) = id
  BY <1>4, <1>5, <1>6 DEF Shorter
<1>8. At(rob, id) = At(s, id) + k
  BY <1>1, <1>6, <1>7, AtPlace
<1> QED
  BY <1>1, <1>2, <1>4, <1>5, <1>8 DEF Leaves, Ent

\* The same of the reorder buffer.
LEMMA RobSetMany ==
  ASSUME NEW r \in Rings(ROB_SIZE, Entry),
         NEW q \in Seq(RingRequest(ROB_SIZE, Entry)), Founded(r, q),
         NEW m \in Nat, NEW u \in [1 .. m -> RingRequest(ROB_SIZE, Entry)],
         \A i \in 1 .. m : u[i].op = "set_item" /\ check_id_valid(RingAfter(r, q), u[i].id),
         \A i, j \in 1 .. m : u[i].id = u[j].id => i = j
  PROVE  /\ Founded(r, q \o u) /\ q \o u \in Seq(RingRequest(ROB_SIZE, Entry))
         /\ get_size(RingAfter(r, q \o u)) = get_size(RingAfter(r, q))
         /\ \A i : Place(RingAfter(r, q \o u), i) = Place(RingAfter(r, q), i)
         /\ \A i \in 1 .. m : get_item(RingAfter(r, q \o u), u[i].id) = u[i].item
         /\ \A id \in 0 .. ROB_SIZE - 1 : (\A i \in 1 .. m : u[i].id # id) =>
              get_item(RingAfter(r, q \o u), id) = get_item(RingAfter(r, q), id)
<1>1. ROB_SIZE \in Nat \ {0} /\ Dead \notin Entry
  BY Sizes, DeadIsNone
<1> QED
  BY <1>1, SetMany, SMTT(60)

\* What AnswersOK says when commit does not flush.
LEMMA AnswersIs ==
  ASSUME AnswersOK, Straight
  PROVE  /\ \A x, y \in inflight : x.id = y.id => x = y
         /\ \A i, j \in DOMAIN port : port[i].id = port[j].id => i = j
         /\ \A x \in inflight, i \in DOMAIN port : x.id # port[i].id
         /\ \A x \in inflight : Unanswered(x)
         /\ \A i \in DOMAIN port : Unanswered(port[i])
         /\ \A id \in RobId : Ent(id) # Dead /\ Ent(id).finish = "no" =>
              PacksOf(id) # {} \/ AnswersOf(id) # {}
BY DEF AnswersOK

\* The units name identifiers of the reorder buffer.
LEMMA UnitIds ==
  ASSUME Types
  PROVE  /\ \A x \in inflight : x.id \in RobId
         /\ \A i \in DOMAIN port : port[i] \in Reply /\ port[i].id \in RobId
         /\ DOMAIN port = 1 .. Len(port) /\ Len(port) \in Nat
BY DEF Types, Sent, Pack, Reply, Answer

\* The same streams, and the same room for checkpoints.
LEMMA StreamStays ==
  ASSUME IInv, Straight, Types', Turns', RingsOK', AnswersOK', Straight',
         Stream' = Stream, get_size(SyncedCp') = get_size(SyncedCp),
         \A i : Place(SyncedCp', i) = Place(SyncedCp, i),
         \A i \in 1 .. Stream : LiveCheckpoints'[i] = LiveCheckpoints[i],
         \A i \in 1 .. Stream : JumpsPending'[i] <=> JumpsPending[i],
         (jump_wait' /\ feedback' # "jump") <=> (jump_wait /\ feedback # "jump")
  PROVE  IInv'
<1>1. Types /\ RingsOK /\ AnswersOK /\ LiveCheckpointsIntact /\ JumpWaitHasBranch
  BY DEF IInv
<1>2. StreamFacts /\ FormFacts
  BY <1>1, StreamNow
<1>3. /\ Stream \in Nat /\ Intact(LiveCheckpoints, Stream, SyncedCp)
      /\ Waits(JumpsPending, Stream, jump_wait /\ feedback # "jump")
  BY <1>1, <1>2 DEF StreamFacts, FormFacts
<1>4. PICK r, t \in Rings(CHECKPOINT_BUFFER_SIZE, CheckpointType) : r = SyncedCp /\ t = SyncedCp'
  <2>1. SyncedCp \in Rings(CHECKPOINT_BUFFER_SIZE, CheckpointType)
    BY <1>1, CpIs
  <2>2. (Types /\ RingsOK => SyncedCp \in Rings(CHECKPOINT_BUFFER_SIZE, CheckpointType))'
    BY CpIs, PTL
  <2> QED
    BY <2>1, <2>2
<1>5. Intact(LiveCheckpoints', Stream', SyncedCp')
  <2>1. PICK c, d, m : c = LiveCheckpoints /\ d = LiveCheckpoints' /\ m = Stream
    OBVIOUS
  <2>2. m \in Nat /\ Intact(c, m, r) /\ \A i \in 1 .. m : d[i] = c[i]
    BY <1>3, <1>4, <2>1
  <2>3. get_size(t) = get_size(r) /\ \A i : Place(t, i) = Place(r, i)
    BY <1>4
  <2>4. Intact(d, m, t)
    BY <2>2, <2>3, Sizes, IntactSame
  <2> QED
    BY <1>4, <2>1, <2>4
<1>6. Waits(JumpsPending', Stream', jump_wait' /\ feedback' # "jump")
  BY <1>3 DEF Waits
<1> QED
  BY <1>5, <1>6, StraightOn

\* What the results that wb sent make of the reorder buffer.
LEMMA CommitInputEffect ==
  ASSUME IInv, CommitInput
  PROVE  /\ Founded(rob', rob_q') /\ rob_q' \in Seq(RingRequest(ROB_SIZE, Entry))
         /\ get_size(SyncedRob') = get_size(SyncedRob) /\ \A i : Place(SyncedRob', i) = Place(SyncedRob, i)
         /\ \A i \in 1 .. Len(port) :
              LET e == get_item(SyncedRob', port[i].id)
              IN  /\ e.finish = port[i].result /\ e.cp = port[i].cp /\ e.finish # "no"
                  /\ e.new = Ent(port[i].id).new /\ e.old = Ent(port[i].id).old
                  /\ e.wrong = Ent(port[i].id).wrong /\ e \in Entry
         /\ \A id \in RobId : (\A i \in 1 .. Len(port) : port[i].id # id) => Ent(id)' = Ent(id)
<1>0. Types /\ Turns /\ RingsOK /\ AnswersOK
  BY DEF IInv
<1>1. /\ stage = "commit" /\ cur_state = "normal" /\ port' = << >> /\ stage' = "wb" /\ slot' = 0
      /\ rob_q' = rob_q \o [i \in 1 .. Len(port) |-> SetItem(port[i].id, Finished(port[i]))]
      /\ UNCHANGED <<machine, rat_q, reg_q, cp_q, walk, fetcher, inflight, feedback>>
  BY DEF CommitInput, CommitEnds
<1>2. ~flushing /\ Straight /\ \A k \in DOMAIN rob_q : rob_q[k].op = "pop"
  BY <1>0, <1>1 DEF Turns, Straight
<1>3. /\ \A x, y \in inflight : x.id = y.id => x = y
      /\ \A i, j \in DOMAIN port : port[i].id = port[j].id => i = j
      /\ \A x \in inflight, i \in DOMAIN port : x.id # port[i].id
      /\ \A x \in inflight : Unanswered(x)
      /\ \A i \in DOMAIN port : Unanswered(port[i])
      /\ \A id \in RobId : Ent(id) # Dead /\ Ent(id).finish = "no" =>
           PacksOf(id) # {} \/ AnswersOf(id) # {}
  BY <1>0, <1>2, AnswersIs
<1>4. /\ \A x \in inflight : x.id \in RobId
      /\ \A i \in DOMAIN port : port[i] \in Reply /\ port[i].id \in RobId
      /\ DOMAIN port = 1 .. Len(port) /\ Len(port) \in Nat
  BY <1>0, UnitIds
<1> DEFINE m == Len(port)
           u == [i \in 1 .. m |-> SetItem(port[i].id, Finished(port[i]))]
           n == ROB_SIZE
<1>5. \A i \in 1 .. m :
        LET e == Finished(port[i])
        IN  /\ e.finish = port[i].result /\ e.cp = port[i].cp /\ e.finish # "no"
            /\ e.new = Ent(port[i].id).new /\ e.old = Ent(port[i].id).old
            /\ e.wrong = Ent(port[i].id).wrong /\ e \in Entry
  <2> SUFFICES ASSUME NEW i \in 1 .. m
               PROVE  LET e == Finished(port[i])
                      IN  /\ e.finish = port[i].result /\ e.cp = port[i].cp /\ e.finish # "no"
                          /\ e.new = Ent(port[i].id).new /\ e.old = Ent(port[i].id).old
                          /\ e.wrong = Ent(port[i].id).wrong /\ e \in Entry
    OBVIOUS
  <2>1. PICK a \in Reply : a = port[i] /\ a.id \in RobId /\ Unanswered(a)
    BY <1>3, <1>4
  <2>2. Ent(a.id) # Dead
    BY <2>1 DEF Unanswered
  <2>3. get_item(rob, a.id) = Ent(a.id) /\ Ent(a.id) \in Entry
    BY <1>0, <1>2, <2>1, <2>2, EntIsThere, LiveIs
  <2>4. PICK e \in Entry : e = get_item(rob, a.id)
    BY <2>3
  <2>5. Finished(a) = [e EXCEPT !.finish = a.result, !.cp = a.cp]
    BY <2>4 DEF Finished
  <2>6. /\ a.result \in Result \cup {"no"} /\ a.result # "no" /\ a.cp \in CpId \cup {NoId}
        /\ a.cp # NoId <=> a.result \in {"hit", "miss"}
    BY DEF Reply, Answer, Result
  <2> DEFINE f == [e EXCEPT !.finish = a.result, !.cp = a.cp]
  <2>7. f \in RobItem /\ f.finish = a.result /\ f.cp = a.cp /\ f.new = e.new /\ f.old = e.old
        /\ f.wrong = e.wrong
    BY <2>6 DEF Entry, RobItem
  <2>8. e.new = NoPhy <=> e.old = NoPhy
    BY DEF Entry
  <2> HIDE DEF f
  <2>9. f \in Entry
    BY <2>6, <2>7, <2>8 DEF Entry
  <2> QED
    BY <2>1, <2>3, <2>4, <2>5, <2>6, <2>7, <2>9 DEF f
<1>6. \A i \in 1 .. m : /\ u[i] \in RingRequest(n, Entry) /\ u[i].op = "set_item" /\ u[i].id = port[i].id
                        /\ u[i].item = Finished(port[i])
  BY <1>4, <1>5, Sizes DEF SetItem, RingRequest
<1>7. \A i \in 1 .. m : check_id_valid(SyncedRob, port[i].id)
  BY <1>0, <1>3, <1>4, LiveIs DEF Unanswered
<1>8. rob \in Rings(n, Entry) /\ rob_q \in Seq(RingRequest(n, Entry)) /\ Founded(rob, rob_q)
  BY <1>0, <1>2, FoundRob DEF Types
<1>9. rob' = rob /\ rob_q' = rob_q \o u
  BY <1>1 DEF machine
<1>10. /\ Founded(rob', rob_q') /\ rob_q' \in Seq(RingRequest(n, Entry))
       /\ get_size(SyncedRob') = get_size(SyncedRob) /\ \A i : Place(SyncedRob', i) = Place(SyncedRob, i)
       /\ \A i \in 1 .. m : get_item(SyncedRob', port[i].id) = Finished(port[i])
       /\ \A id \in RobId : (\A i \in 1 .. m : port[i].id # id) => Ent(id)' = Ent(id)
  <2>1. u \in [1 .. m -> RingRequest(n, Entry)]
    BY <1>6
  <2>2. /\ \A i \in 1 .. m : u[i].op = "set_item" /\ check_id_valid(RingAfter(rob, rob_q), u[i].id)
        /\ \A i, j \in 1 .. m : u[i].id = u[j].id => i = j
    BY <1>3, <1>4, <1>6, <1>7 DEF SyncedRob
  <2> HIDE DEF u
  <2>3. PICK s, t : s = SyncedRob /\ t = RingAfter(rob, rob_q \o u)
    OBVIOUS
  <2>4. /\ Founded(rob, rob_q \o u) /\ rob_q \o u \in Seq(RingRequest(n, Entry))
        /\ get_size(t) = get_size(s) /\ \A i : Place(t, i) = Place(s, i)
        /\ \A i \in 1 .. m : get_item(t, u[i].id) = u[i].item
        /\ \A id \in 0 .. n - 1 : (\A i \in 1 .. m : u[i].id # id) => get_item(t, id) = get_item(s, id)
    <3> DEFINE N == ROB_SIZE
    <3>0. PICK k \in Nat : k = m
      BY <1>4
    <3>1. PICK r \in Rings(N, Entry), q \in Seq(RingRequest(N, Entry)),
               v \in [1 .. k -> RingRequest(N, Entry)] : r = rob /\ q = rob_q /\ v = u
      BY <1>8, <2>1, <3>0
    <3>2. /\ Dead \notin Entry /\ Founded(r, q)
          /\ \A i \in 1 .. k : v[i].op = "set_item" /\ check_id_valid(RingAfter(r, q), v[i].id)
          /\ \A i, j \in 1 .. k : v[i].id = v[j].id => i = j
      BY <1>8, <2>2, <3>0, <3>1, DeadIsNone
    <3>3. /\ Founded(r, q \o v) /\ q \o v \in Seq(RingRequest(N, Entry))
          /\ get_size(RingAfter(r, q \o v)) = get_size(RingAfter(r, q))
          /\ \A i : Place(RingAfter(r, q \o v), i) = Place(RingAfter(r, q), i)
          /\ \A i \in 1 .. k : get_item(RingAfter(r, q \o v), v[i].id) = v[i].item
          /\ \A id \in 0 .. N - 1 : (\A i \in 1 .. k : v[i].id # id) =>
               get_item(RingAfter(r, q \o v), id) = get_item(RingAfter(r, q), id)
      BY <3>2, RobSetMany
    <3>4. s = RingAfter(r, q) /\ t = RingAfter(r, q \o v)
      BY <2>3, <3>1 DEF SyncedRob
    <3> HIDE DEF m
    <3> QED
      BY <3>0, <3>1, <3>3, <3>4
  <2>5. SyncedRob' = t
    BY <1>9, <2>3 DEF SyncedRob
  <2>6. Founded(rob', rob_q') /\ rob_q' \in Seq(RingRequest(n, Entry))
    BY <1>9, <2>4
  <2>7. \A i \in 1 .. m : get_item(SyncedRob', port[i].id) = Finished(port[i])
    BY <1>6, <2>4, <2>5
  <2>8. \A id \in RobId : (\A i \in 1 .. m : port[i].id # id) => Ent(id)' = Ent(id)
    BY <1>6, <2>3, <2>4, <2>5, Sizes DEF Ent
  <2> QED
    BY <2>3, <2>4, <2>5, <2>6, <2>7, <2>8
<1> QED
  BY <1>5, <1>10

\* Taking in the results that wb sent keeps IInv.
LEMMA CommitInputStep ==
  ASSUME IInv, CommitInput
  PROVE  IInv'
<1>0. Types /\ Turns /\ RingsOK /\ AnswersOK
  BY DEF IInv
<1>1. /\ stage = "commit" /\ cur_state = "normal" /\ port' = << >> /\ stage' = "wb" /\ slot' = 0
      /\ rob_q' = rob_q \o [i \in 1 .. Len(port) |-> SetItem(port[i].id, Finished(port[i]))]
      /\ UNCHANGED <<machine, rat_q, reg_q, cp_q, walk, fetcher, inflight, feedback>>
  BY DEF CommitInput, CommitEnds
<1>2. ~flushing /\ Straight /\ \A k \in DOMAIN rob_q : rob_q[k].op = "pop"
  BY <1>0, <1>1 DEF Turns, Straight
<1>3. /\ \A x, y \in inflight : x.id = y.id => x = y
      /\ \A i, j \in DOMAIN port : port[i].id = port[j].id => i = j
      /\ \A x \in inflight, i \in DOMAIN port : x.id # port[i].id
      /\ \A x \in inflight : Unanswered(x)
      /\ \A i \in DOMAIN port : Unanswered(port[i])
      /\ \A id \in RobId : Ent(id) # Dead /\ Ent(id).finish = "no" =>
           PacksOf(id) # {} \/ AnswersOf(id) # {}
  BY <1>0, <1>2, AnswersIs
<1>4. /\ \A x \in inflight : x.id \in RobId
      /\ \A i \in DOMAIN port : port[i] \in Reply /\ port[i].id \in RobId
      /\ DOMAIN port = 1 .. Len(port) /\ Len(port) \in Nat
  BY <1>0, UnitIds
<1> DEFINE m == Len(port)
<1>5. /\ Founded(rob', rob_q') /\ rob_q' \in Seq(RingRequest(ROB_SIZE, Entry))
      /\ get_size(SyncedRob') = get_size(SyncedRob) /\ \A i : Place(SyncedRob', i) = Place(SyncedRob, i)
      /\ \A id \in RobId : (\A i \in 1 .. m : port[i].id # id) => Ent(id)' = Ent(id)
  BY CommitInputEffect
<1>6. \A i \in 1 .. m : /\ get_item(SyncedRob', port[i].id).finish = port[i].result
                        /\ get_item(SyncedRob', port[i].id).cp = port[i].cp
                        /\ get_item(SyncedRob', port[i].id).finish # "no"
  BY CommitInputEffect, Zenon
<1>11. cur_state' = "normal" /\ ~flushing' /\ Straight' /\ front' = front /\ inflight' = inflight
       /\ SyncedCp' = SyncedCp /\ feedback' = feedback /\ jump_wait' = jump_wait
  BY <1>1, <1>2 DEF walk, flushing, Straight, fetcher, SyncedCp, machine
<1>12. Types'
  <2>1. port' \in Seq(Reply) /\ slot' \in Nat /\ stage' \in {"commit", "wb", "rename"}
    BY <1>1
  <2> QED
    BY <1>0, <1>1, <1>5, <2>1 DEF Types, machine, walk, fetcher
<1>13. Turns'
  <2>1. GroupMaps' = {}
    BY <1>0, <1>1 DEF Turns, GroupMaps
  <2>2. feedback # "flush"
    BY <1>0, <1>1 DEF Turns
  <2> QED
    BY <1>1, <1>11, <2>1, <2>2 DEF Turns
<1>14. RingsOK'
  <2>1. Founded(checkpoint_buffer', cp_q')
    BY <1>0, <1>1 DEF RingsOK, machine
  <2> QED
    BY <1>5, <1>11, <2>1 DEF RingsOK
<1>15. AnswersOK'
  <2>1. ASSUME NEW x \in inflight
        PROVE  Unanswered(x)'
    <3>1. PICK id \in RobId : id = x.id
      BY <1>4
    <3>2. Ent(id)' = Ent(id)
      BY <1>3, <1>4, <1>5, <3>1
    <3>3. Unanswered(x)
      BY <1>3
    <3> QED
      BY <3>1, <3>2, <3>3 DEF Unanswered
  <2>2. ASSUME NEW id \in RobId, Ent(id)' # Dead, Ent(id)'.finish = "no"
        PROVE  PacksOf(id)' # {}
    <3>1. \A i \in 1 .. m : port[i].id # id
      <4> SUFFICES ASSUME NEW i \in 1 .. m, port[i].id = id
                   PROVE  FALSE
        OBVIOUS
      <4>1. Ent(id)' = get_item(SyncedRob', id)
        BY DEF Ent
      <4> QED
        BY <1>6, <2>2, <4>1
    <3>2. Ent(id)' = Ent(id)
      BY <1>5, <3>1
    <3>3. PacksOf(id) # {} \/ AnswersOf(id) # {}
      BY <1>3, <2>2, <3>2
    <3>4. AnswersOf(id) = {}
      BY <1>4, <3>1 DEF AnswersOf
    <3> QED
      BY <1>11, <3>3, <3>4 DEF PacksOf
  <2>3. DOMAIN port' = {}
    BY <1>1
  <2> QED
    BY <1>3, <1>11, <2>1, <2>2, <2>3 DEF AnswersOK
<1>16. StreamFacts /\ StreamFacts'
  BY <1>0, <1>2, <1>11, <1>12, <1>14, <1>15, StreamNow, StreamNext
<1>17. Stream' = Stream
  BY <1>5, <1>11 DEF Stream
<1>18. ASSUME NEW i \in 1 .. Stream
       PROVE  LiveCheckpoints'[i] = LiveCheckpoints[i] /\ (JumpsPending'[i] <=> JumpsPending[i])
  <2> DEFINE k == get_size(SyncedRob)
  <2>1. k \in 0 .. ROB_SIZE /\ get_size(SyncedRob') = k /\ Stream = k + Len(front) /\ Len(front) \in Nat
    BY <1>0, <1>2, <1>5, LiveRobIs DEF Stream, Types
  <2> HIDE DEF k
  <2>2. CASE i <= k
    <3>1. i \in 1 .. k /\ i \in 1 .. ROB_SIZE
      BY <2>1, <2>2, Sizes
    <3>2. PICK id \in RobId : id = Place(SyncedRob, i) /\ id = Place(SyncedRob', i)
      <4>1. PICK s \in Rings(ROB_SIZE, Entry) : s = SyncedRob
        BY <1>0, RobIs
      <4>2. Place(s, i) \in RobId
        BY <3>1, Sizes, AtPlace
      <4> QED
        BY <1>5, <4>1, <4>2
    <3>3. Tells(i) /\ Tells(i)'
      BY <1>16, <2>1, <3>1 DEF StreamFacts, k
    <3>4. CASE \E j \in 1 .. m : port[j].id = id
      <4>1. PICK j \in 1 .. m : port[j].id = id
        BY <3>4
      <4>2. LiveCheckpoints[i] = port[j].cp /\ (JumpsPending[i] <=> port[j].result = "jump")
        BY <1>4, <3>2, <3>3, <4>1 DEF Tells
      <4>3. get_item(SyncedRob', port[j].id) = Ent(id)'
        BY <4>1 DEF Ent
      <4>4. Ent(id)'.finish # "no" /\ Ent(id)'.finish = port[j].result /\ Ent(id)'.cp = port[j].cp
        BY <1>6, <4>3
      <4>5. LiveCheckpoints'[i] = Ent(id)'.cp /\ (JumpsPending'[i] <=> Ent(id)'.finish = "jump")
        BY <3>2, <3>3, <4>4 DEF Tells
      <4> QED
        BY <4>2, <4>4, <4>5
    <3>5. CASE \A j \in 1 .. m : port[j].id # id
      <4>1. Ent(id)' = Ent(id)
        BY <1>5, <3>5
      <4>2. CASE \E x \in inflight : x.id = id
        BY <1>11, <3>2, <3>3, <4>2 DEF Tells
      <4>3. CASE Ent(id).finish # "no"
        BY <3>2, <3>3, <4>1, <4>3 DEF Tells
      <4> QED
        BY <1>4, <3>2, <3>3, <3>5, <4>2, <4>3 DEF Tells
    <3> QED
      BY <3>4, <3>5
  <2>3. CASE i > k
    <3>1. PICK j \in 1 .. Len(front) : i = k + j
      BY <2>1, <2>3
    <3>2. LiveCheckpoints[k + j] = front[j].cp /\ (JumpsPending[k + j] <=> front[j].kind = "jump")
      BY <1>16 DEF StreamFacts, k
    <3>3. LiveCheckpoints'[k + j] = front[j].cp /\ (JumpsPending'[k + j] <=> front[j].kind = "jump")
      BY <1>11, <1>16, <2>1 DEF StreamFacts
    <3> QED
      BY <3>1, <3>2, <3>3
  <2> QED
    BY <2>1, <2>2, <2>3
<1> QED
  BY <1>2, <1>11, <1>12, <1>13, <1>14, <1>15, <1>17, <1>18, StreamStays

\* A result handed in keeps IInv.
LEMMA WriteBackStep ==
  ASSUME IInv, NEW pack \in inflight, NEW result \in ResultsOf(pack), WriteBack(pack, result)
  PROVE  IInv'
<1> DEFINE a == [id |-> pack.id, rd_phy |-> pack.rd_phy, result |-> result, cp |-> pack.cp]
           k == Len(port) + 1
<1>0. Types /\ Turns /\ RingsOK /\ AnswersOK
  BY DEF IInv
<1>1. /\ stage = "wb" /\ ~flushing /\ inflight' = inflight \ {pack} /\ port' = Append(port, a)
      /\ reg_q' = IF pack.rd_phy = NoPhy \/ result = "exception" THEN reg_q
                  ELSE Append(reg_q, Write(pack.rd_phy, TRUE))
      /\ slot' = slot + 1
      /\ UNCHANGED <<machine, rat_q, rob_q, cp_q, walk, fetcher, feedback, stage>>
  BY DEF WriteBack
<1>2. cur_state = "normal" /\ Straight /\ feedback # "flush"
  BY <1>0, <1>1 DEF Turns, flushing, Straight
<1>3. /\ \A x, y \in inflight : x.id = y.id => x = y
      /\ \A i, j \in DOMAIN port : port[i].id = port[j].id => i = j
      /\ \A x \in inflight, i \in DOMAIN port : x.id # port[i].id
      /\ \A x \in inflight : Unanswered(x)
      /\ \A i \in DOMAIN port : Unanswered(port[i])
      /\ \A id \in RobId : Ent(id) # Dead /\ Ent(id).finish = "no" =>
           PacksOf(id) # {} \/ AnswersOf(id) # {}
  BY <1>0, <1>2, AnswersIs
<1>4. /\ \A x \in inflight : x.id \in RobId
      /\ \A i \in DOMAIN port : port[i] \in Reply /\ port[i].id \in RobId
      /\ DOMAIN port = 1 .. Len(port) /\ Len(port) \in Nat
  BY <1>0, UnitIds
<1>5. pack \in Sent /\ a \in Reply /\ (result = "jump" <=> pack.kind = "jump")
  <2>1. pack \in Sent
    BY <1>0 DEF Types
  <2>2. pack.kind \in {"plain", "jump", "hit", "miss"}
    BY <2>1, KindAssumption DEF Sent, Pack
  <2>3. result \in Result /\ (result \in {"hit", "miss"} <=> pack.kind \in {"hit", "miss"})
        /\ (result = "jump" <=> pack.kind = "jump")
    BY <2>2 DEF ResultsOf, Result
  <2>4. /\ pack.id \in RobId /\ pack.rd_phy \in Phy \cup {NoPhy} /\ pack.cp \in CpId \cup {NoId}
        /\ (pack.cp # NoId <=> pack.kind \in {"hit", "miss"})
    BY <2>1 DEF Sent, Pack
  <2>5. a \in Reply
    BY <2>3, <2>4 DEF Reply, Answer
  <2> QED
    BY <2>1, <2>3, <2>5
<1>6. a.id = pack.id /\ a.cp = pack.cp /\ a.result = result /\ a.rd_phy = pack.rd_phy
  OBVIOUS
<1> HIDE DEF a
<1>7. /\ DOMAIN port' = DOMAIN port \cup {k} /\ k \notin DOMAIN port /\ port'[k] = a
      /\ \A i \in DOMAIN port : port'[i] = port[i]
      /\ port' \in Seq(Reply)
  BY <1>0, <1>1, <1>5 DEF Types
<1> HIDE DEF k
<1>8. SyncedRob' = SyncedRob /\ SyncedCp' = SyncedCp /\ (\A id : Ent(id)' = Ent(id)) /\ front' = front
      /\ jump_wait' = jump_wait
  BY <1>1 DEF SyncedRob, SyncedCp, machine, Ent, fetcher
<1>9. cur_state' = "normal" /\ ~flushing' /\ Straight'
  BY <1>1, <1>2 DEF flushing, Straight, walk
<1>10. Types'
  <2>1. reg_q' \in Seq(RegRequest)
    <3>1. CASE pack.rd_phy = NoPhy \/ result = "exception"
      BY <1>0, <1>1, <3>1 DEF Types
    <3>2. CASE ~(pack.rd_phy = NoPhy \/ result = "exception")
      <4>1. pack.rd_phy \in Phy
        BY <1>5, <3>2 DEF Sent, Pack
      <4>2. PICK w \in RegRequest : w = Write(pack.rd_phy, TRUE)
        BY <4>1 DEF Write, RegRequest
      <4>3. reg_q \in Seq(RegRequest)
        BY <1>0 DEF Types
      <4>4. reg_q' = Append(reg_q, w)
        BY <1>1, <3>2, <4>2
      <4> QED
        BY <4>3, <4>4, AppendProperties
    <3> QED
      BY <3>1, <3>2
  <2>2. slot' \in Nat /\ inflight' \subseteq Sent
    BY <1>0, <1>1 DEF Types
  <2> QED
    BY <1>0, <1>1, <1>7, <2>1, <2>2 DEF Types, machine, walk, fetcher
<1>11. Turns'
  <2>1. GroupMaps' = {}
    BY <1>0, <1>1 DEF Turns, GroupMaps
  <2> QED
    BY <1>1, <1>2, <1>9, <2>1 DEF Turns
<1>12. RingsOK'
  BY <1>0, <1>1, <1>2, <1>9 DEF RingsOK, machine
<1>13. AnswersOK'
  <2>1. \A x \in inflight' : x \in inflight /\ x # pack /\ x.id # pack.id
    BY <1>1, <1>3
  <2>2. ASSUME NEW i \in DOMAIN port', NEW j \in DOMAIN port', port'[i].id = port'[j].id
        PROVE  i = j
    BY <1>3, <1>6, <1>7, <2>2
  <2>3. ASSUME NEW x \in inflight', NEW i \in DOMAIN port'
        PROVE  x.id # port'[i].id
    BY <1>3, <1>6, <1>7, <2>1
  <2>4. ASSUME NEW x \in inflight'
        PROVE  Unanswered(x)'
    BY <1>3, <1>8, <2>1 DEF Unanswered
  <2>5. ASSUME NEW i \in DOMAIN port'
        PROVE  Unanswered(port[i])'
    <3>1. PICK y : y = port'[i]
      OBVIOUS
    <3>2. Unanswered(y)
      BY <1>3, <1>6, <1>7, <3>1 DEF Unanswered
    <3>3. Unanswered(y)'
      BY <1>8, <3>2 DEF Unanswered
    <3> QED
      BY <3>1, <3>3 DEF Unanswered
  <2>6. ASSUME NEW id \in RobId, Ent(id)' # Dead, Ent(id)'.finish = "no"
        PROVE  PacksOf(id)' # {} \/ AnswersOf(id)' # {}
    <3>1. PacksOf(id) # {} \/ AnswersOf(id) # {}
      BY <1>3, <1>8, <2>6
    <3>2. CASE \E i \in DOMAIN port : port[i].id = id
      BY <1>7, <3>2 DEF AnswersOf
    <3>3. CASE pack.id = id
      BY <1>6, <1>7, <3>3 DEF AnswersOf
    <3>4. CASE pack.id # id /\ ~\E i \in DOMAIN port : port[i].id = id
      <4>1. PICK x \in inflight : x.id = id
        BY <3>1, <3>4 DEF PacksOf, AnswersOf
      <4>2. x \in inflight'
        BY <1>1, <3>4, <4>1
      <4> QED
        BY <4>1, <4>2 DEF PacksOf
    <3> QED
      BY <3>2, <3>3, <3>4
  <2> QED
    BY <1>3, <2>1, <2>2, <2>3, <2>4, <2>5, <2>6 DEF AnswersOK
<1>14. StreamFacts /\ StreamFacts'
  BY <1>0, <1>2, <1>9, <1>10, <1>12, <1>13, StreamNow, StreamNext
<1>15. Stream' = Stream
  BY <1>8 DEF Stream
<1>16. ASSUME NEW i \in 1 .. Stream
       PROVE  LiveCheckpoints'[i] = LiveCheckpoints[i] /\ (JumpsPending'[i] <=> JumpsPending[i])
  <2> DEFINE n == get_size(SyncedRob)
  <2>1. n \in 0 .. ROB_SIZE /\ get_size(SyncedRob') = n /\ Stream = n + Len(front) /\ Len(front) \in Nat
    BY <1>0, <1>2, <1>8, LiveRobIs DEF Stream, Types
  <2> HIDE DEF n
  <2>2. CASE i <= n
    <3>1. PICK id : id = Place(SyncedRob, i) /\ id = Place(SyncedRob', i)
      BY <1>8
    <3>2. Tells(i) /\ Tells(i)'
      BY <1>14, <2>1, <2>2 DEF StreamFacts, n
    <3>3. CASE pack.id = id
      <4>1. LiveCheckpoints[i] = pack.cp /\ (JumpsPending[i] <=> pack.kind = "jump")
        BY <3>1, <3>2, <3>3 DEF Tells
      <4>2. k \in DOMAIN port' /\ port'[k].id = id
        BY <1>6, <1>7, <3>3
      <4>3. LiveCheckpoints'[i] = port'[k].cp /\ (JumpsPending'[i] <=> port'[k].result = "jump")
        BY <3>1, <3>2, <4>2 DEF Tells
      <4> QED
        BY <1>5, <1>6, <1>7, <4>1, <4>3
    <3>4. CASE \E x \in inflight : x.id = id /\ x # pack
      <4>1. PICK x \in inflight : x.id = id /\ x # pack
        BY <3>4
      <4>2. x \in inflight'
        BY <1>1, <4>1
      <4> QED
        BY <3>1, <3>2, <4>1, <4>2 DEF Tells
    <3>5. CASE \E j \in DOMAIN port : port[j].id = id
      <4>1. PICK j \in DOMAIN port : port[j].id = id
        BY <3>5
      <4>2. j \in DOMAIN port' /\ port'[j] = port[j]
        BY <1>7
      <4> QED
        BY <3>1, <3>2, <4>1, <4>2 DEF Tells
    <3>6. CASE Ent(id).finish # "no"
      BY <1>8, <3>1, <3>2, <3>6 DEF Tells
    <3> QED
      BY <3>1, <3>2, <3>3, <3>4, <3>5, <3>6 DEF Tells
  <2>3. CASE i > n
    <3>1. PICK j \in 1 .. Len(front) : i = n + j
      BY <2>1, <2>3
    <3>2. LiveCheckpoints[n + j] = front[j].cp /\ (JumpsPending[n + j] <=> front[j].kind = "jump")
      BY <1>14 DEF StreamFacts, n
    <3>3. LiveCheckpoints'[n + j] = front[j].cp /\ (JumpsPending'[n + j] <=> front[j].kind = "jump")
      BY <1>8, <1>14, <2>1 DEF StreamFacts
    <3> QED
      BY <3>1, <3>2, <3>3
  <2> QED
    BY <2>1, <2>2, <2>3
<1>17. \A i : Place(SyncedCp', i) = Place(SyncedCp, i)
  BY <1>8
<1> QED
  BY <1>1, <1>2, <1>8, <1>9, <1>10, <1>11, <1>12, <1>13, <1>15, <1>16, <1>17, StreamStays

\* What an instruction that enters the buffer makes of it: it leaves the front
\* queue for the place after the youngest entry, whatever register it gets.
Entered(id, x, pack, inst, new, old) ==
  /\ inst = Head(front) /\ front[1] = inst
  /\ x.new = new /\ x.old = old /\ x.finish = "no" /\ x.cp = NoId /\ x.wrong = inst.wrong
  /\ pack.id = id /\ pack.rd_phy = new /\ pack.kind = inst.kind /\ pack.cp = inst.cp
  /\ inflight' = inflight \cup {pack}
  /\ front' \in Seq(Queued) /\ Len(front) \in Nat \ {0} /\ Len(front') = Len(front) - 1
  /\ \A i \in 1 .. Len(front') : front'[i] = front[i + 1]
  /\ id = rob.wptr /\ ~is_full(rob) /\ rob' = push(rob, x) /\ Founded(rob', rob_q')
  /\ get_size(SyncedRob) \in 0 .. ROB_SIZE /\ get_size(SyncedRob) # ROB_SIZE
  /\ get_size(SyncedRob') = get_size(SyncedRob) + 1
  /\ \A i : Place(SyncedRob', i) = Place(SyncedRob, i)
  /\ Place(SyncedRob, get_size(SyncedRob) + 1) = id
  /\ \A i \in 1 .. get_size(SyncedRob) :
       Place(SyncedRob, i) \in RobId /\ Place(SyncedRob, i) # id
  /\ Ent(id) = Dead /\ Ent(id)' = x /\ \A j \in RobId : j # id => Ent(j)' = Ent(j)

LEMMA EnterEffect ==
  ASSUME IInv, CanRename, NEW new \in Phy \cup {NoPhy}, NEW old \in Phy \cup {NoPhy},
         new = NoPhy <=> old = NoPhy, Enter(Head(front), new, old), rob_q' = rob_q
  PROVE  \E id \in RobId, x \in Entry, pack \in Sent, inst \in Queued :
           Entered(id, x, pack, inst, new, old)
<1>0. Types /\ Turns /\ RingsOK
  BY DEF IInv
<1>1. /\ stage \in {"wb", "rename"} /\ ~flushing /\ front # << >> /\ get_free_space(rob) >= 1
      /\ front' = Tail(front) /\ rob_q' = rob_q
  BY DEF CanRename, Enter
<1>2. cur_state = "normal" /\ Straight /\ feedback # "flush"
  BY <1>0, <1>1 DEF Turns, flushing, Straight
<1>3. PICK inst \in Queued : inst = Head(front)
  <2>1. front \in Seq(Queued)
    BY <1>0 DEF Types
  <2>2. Head(front) \in Queued
    BY <1>1, <2>1, HeadTailProperties
  <2> QED
    BY <2>2
<1>4. /\ front' \in Seq(Queued) /\ Len(front) \in Nat \ {0} /\ Len(front') = Len(front) - 1
      /\ \A i \in 1 .. Len(front') : front'[i] = front[i + 1]
      /\ front[1] = inst
  <2>1. PICK f \in Seq(Queued) : f = front
    BY <1>0 DEF Types
  <2>2. f # << >> /\ front' = Tail(f) /\ inst = Head(f)
    BY <1>1, <1>3, <2>1
  <2>3. /\ Tail(f) \in Seq(Queued) /\ Len(f) \in Nat \ {0} /\ Len(Tail(f)) = Len(f) - 1
        /\ \A i \in 1 .. Len(Tail(f)) : Tail(f)[i] = f[i + 1]
    BY <2>2, HeadTailProperties, EmptySeq, LenProperties
  <2> QED
    BY <2>1, <2>2, <2>3
<1>5. PICK id \in RobId : id = rob.wptr
  BY <1>0, Sizes, ShapeFacts DEF Types
<1>6. PICK x \in Entry : /\ x = [new |-> new, old |-> old, finish |-> "no", cp |-> NoId, wrong |-> inst.wrong]
                         /\ x.finish = "no" /\ x.new = new /\ x.old = old /\ x.cp = NoId
                         /\ x.wrong = inst.wrong
  <2> DEFINE x == [new |-> new, old |-> old, finish |-> "no", cp |-> NoId, wrong |-> inst.wrong]
  <2>1. x \in RobItem
    BY DEF RobItem, Queued, FrontItem
  <2>2. x \in Entry
    BY <2>1 DEF Entry
  <2> QED
    BY <2>2
<1>7. PICK pack \in Sent : /\ pack = [id |-> id, rd_phy |-> new, kind |-> inst.kind, cp |-> inst.cp]
                           /\ pack.id = id /\ pack.rd_phy = new /\ pack.kind = inst.kind /\ pack.cp = inst.cp
  <2> DEFINE pack == [id |-> id, rd_phy |-> new, kind |-> inst.kind, cp |-> inst.cp]
  <2>1. pack \in Pack
    BY DEF Pack, Queued, FrontItem
  <2>2. pack \in Sent
    BY <2>1 DEF Sent, Queued
  <2> QED
    BY <2>2
<1>8. rob' = push(rob, x) /\ inflight' = inflight \cup {pack}
  BY <1>3, <1>5, <1>6, <1>7 DEF Enter, get_new_id
<1>9. PICK r \in Rings(ROB_SIZE, Entry), q \in Seq(RingRequest(ROB_SIZE, Entry)),
           s \in Rings(ROB_SIZE, Entry) : r = rob /\ q = rob_q /\ s = SyncedRob /\ Founded(r, q)
  BY <1>0, <1>2, FoundRob, RobIs DEF Types
<1>10. ~is_full(r) /\ rob' = push(r, x) /\ rob_q' = q
  <2>1. get_free_space(r) = ROB_SIZE - get_size(r) /\ (is_full(r) <=> get_size(r) = ROB_SIZE)
    BY Sizes, SizeIs
  <2> QED
    BY <1>1, <1>8, <1>9, <2>1, Sizes
<1>11. Founded(rob', rob_q') /\ ~is_full(s) /\ SyncedRob' = push(s, x)
  BY <1>9, <1>10, Sizes, DeadIsNone, PushLater DEF SyncedRob
<1>12. s.wptr = id
  BY <1>0, <1>5, <1>9, RobIs
<1>13. PICK t \in Rings(ROB_SIZE, Entry) : /\ t = SyncedRob' /\ get_size(t) = get_size(s) + 1
           /\ (\A i : Place(t, i) = Place(s, i)) /\ (\A j : At(t, j) = At(s, j))
           /\ At(s, id) = get_size(s) + 1
           /\ \A j \in RobId : get_item(t, j) = IF j = id THEN x ELSE get_item(s, j)
  BY <1>11, <1>12, Sizes, PushItem
<1>14. /\ \A j \in RobId : Ent(j) = get_item(s, j) /\ Ent(j)' = get_item(t, j)
       /\ Ent(id)' = x /\ Ent(id) = Dead
  <2>1. \A j : Ent(j) = get_item(s, j) /\ Ent(j)' = get_item(t, j)
    BY <1>9, <1>13 DEF Ent
  <2>2. ~check_id_valid(s, id)
    BY <1>13, Sizes, ValidIs, SizeIs
  <2> QED
    BY <1>0, <1>9, <1>13, <2>1, <2>2, LiveIs
<1>15. Place(s, get_size(s) + 1) = id
  BY <1>13, Sizes, PlaceAt
<1>16. ASSUME NEW i \in 1 .. get_size(s)
       PROVE  Place(s, i) \in RobId /\ Place(s, i) # id
  <2>1. get_size(s) \in 0 .. ROB_SIZE /\ i \in 1 .. ROB_SIZE
    BY Sizes, SizeIs
  <2>2. Place(s, i) \in RobId /\ At(s, Place(s, i)) = i
    BY <2>1, Sizes, AtPlace
  <2> QED
    BY <1>13, <2>1, <2>2
<1>17. /\ get_size(SyncedRob) \in 0 .. ROB_SIZE /\ get_size(SyncedRob) # ROB_SIZE
       /\ get_size(SyncedRob') = get_size(SyncedRob) + 1
       /\ \A i : Place(SyncedRob', i) = Place(SyncedRob, i)
       /\ Place(SyncedRob, get_size(SyncedRob) + 1) = id
       /\ \A i \in 1 .. get_size(SyncedRob) : Place(SyncedRob, i) \in RobId /\ Place(SyncedRob, i) # id
  <2>1. get_size(s) \in 0 .. ROB_SIZE /\ get_size(s) # ROB_SIZE
    BY <1>11, Sizes, SizeIs
  <2> QED
    BY <1>9, <1>13, <1>15, <1>16, <2>1
<1>18. /\ Ent(id) = Dead /\ Ent(id)' = x /\ \A j \in RobId : j # id => Ent(j)' = Ent(j)
  BY <1>13, <1>14
<1>19. /\ id = rob.wptr /\ ~is_full(rob) /\ rob' = push(rob, x) /\ Founded(rob', rob_q')
  BY <1>5, <1>9, <1>10, <1>11
<1>20. /\ x.new = new /\ x.old = old /\ x.finish = "no" /\ x.cp = NoId /\ x.wrong = inst.wrong
       /\ pack.id = id /\ pack.rd_phy = new /\ pack.kind = inst.kind /\ pack.cp = inst.cp
       /\ inflight' = inflight \cup {pack}
  BY <1>6, <1>7, <1>8
<1> QED
  BY <1>3, <1>4, <1>17, <1>18, <1>19, <1>20, Zenon DEF Entered

\* Whatever register the instruction gets, entering the buffer keeps IInv.
LEMMA EnterStep ==
  ASSUME IInv, CanRename, NEW new \in Phy \cup {NoPhy}, NEW old \in Phy \cup {NoPhy},
         new = NoPhy <=> old = NoPhy, Enter(Head(front), new, old),
         NEW cp \in CheckpointType, FillCheckpoint(Head(front), cp), rat_q' \in Seq(RatRequest),
         UNCHANGED <<rat, data_valid, checkpoint_buffer, reg_q, rob_q, walk,
                     jump_wait, off_path, port, feedback>>
  PROVE  IInv'
<1>0. Types /\ Turns /\ RingsOK /\ AnswersOK /\ LiveCheckpointsIntact
  BY DEF IInv
<1>1. /\ stage \in {"wb", "rename"} /\ ~flushing /\ front # << >> /\ get_free_space(rob) >= 1
      /\ front' = Tail(front) /\ stage' = "rename" /\ slot' = renamed + 1
      /\ UNCHANGED <<rat, data_valid, checkpoint_buffer, reg_q, rob_q, walk,
                     jump_wait, off_path, port, feedback>>
  BY DEF CanRename, Enter
<1>2. cur_state = "normal" /\ Straight /\ feedback # "flush"
  BY <1>0, <1>1 DEF Turns, flushing, Straight
<1>3. PICK id \in RobId, x \in Entry, pack \in Sent, inst \in Queued :
         Entered(id, x, pack, inst, new, old)
  BY <1>1, EnterEffect
<1>4. PICK r \in Rings(ROB_SIZE, Entry), q \in Seq(RingRequest(ROB_SIZE, Entry)) : r = rob /\ q = rob_q
  BY <1>0 DEF Types
<1>5. /\ inst = Head(front) /\ front[1] = inst
      /\ x.new = new /\ x.finish = "no" /\ x.cp = NoId
      /\ pack.id = id /\ pack.rd_phy = new /\ pack.kind = inst.kind /\ pack.cp = inst.cp
      /\ inflight' = inflight \cup {pack}
      /\ front' \in Seq(Queued) /\ Len(front) \in Nat \ {0} /\ Len(front') = Len(front) - 1
      /\ \A i \in 1 .. Len(front') : front'[i] = front[i + 1]
      /\ id = rob.wptr /\ ~is_full(rob) /\ rob' = push(rob, x) /\ Founded(rob', rob_q')
      /\ get_size(SyncedRob) \in 0 .. ROB_SIZE /\ get_size(SyncedRob') = get_size(SyncedRob) + 1
      /\ \A i : Place(SyncedRob', i) = Place(SyncedRob, i)
      /\ Place(SyncedRob, get_size(SyncedRob) + 1) = id
      /\ \A i \in 1 .. get_size(SyncedRob) : Place(SyncedRob, i) \in RobId /\ Place(SyncedRob, i) # id
      /\ Ent(id) = Dead /\ Ent(id)' = x /\ \A j \in RobId : j # id => Ent(j)' = Ent(j)
  BY <1>3 DEF Entered
<1>15. \A y \in inflight : y.id \in RobId /\ y.id # id /\ Ent(y.id)' = Ent(y.id)
  BY <1>0, <1>2, <1>5, AnswersIs, UnitIds DEF Unanswered
<1>16. \A i \in DOMAIN port : port[i].id \in RobId /\ port[i].id # id /\ Ent(port[i].id)' = Ent(port[i].id)
  <2> SUFFICES ASSUME NEW i \in DOMAIN port
               PROVE  port[i].id \in RobId /\ port[i].id # id /\ Ent(port[i].id)' = Ent(port[i].id)
    OBVIOUS
  <2>1. PICK j \in RobId : j = port[i].id
    BY <1>0, UnitIds
  <2>2. Ent(j) # Dead
    BY <1>0, <1>2, <2>1, AnswersIs DEF Unanswered
  <2>3. j # id
    BY <1>5, <2>2
  <2>4. Ent(j)' = Ent(j)
    BY <1>5, <2>3
  <2>5. port' = port
    BY <1>1
  <2> QED
    BY <2>1, <2>3, <2>4
<1>17. cur_state' = "normal" /\ ~flushing' /\ Straight'
  BY <1>1, <1>2 DEF flushing, Straight, walk
<1> DEFINE n == get_size(SyncedRob)
<1>18. n \in 0 .. ROB_SIZE /\ n = get_size(SyncedRob) /\ get_size(SyncedRob') = n + 1 /\ ROB_SIZE \in Nat
  BY <1>5, Sizes
<1> HIDE DEF n
<1>19. /\ StreamFacts /\ Stream = n + Len(front) /\ Intact(LiveCheckpoints, Stream, SyncedCp)
       /\ LiveCheckpoints[n + 1] = inst.cp /\ (JumpsPending[n + 1] <=> inst.kind = "jump")
  <2>1. StreamFacts /\ FormFacts
    BY <1>0, <1>2, StreamNow
  <2>2. Stream = n + Len(front) /\ Intact(LiveCheckpoints, Stream, SyncedCp)
    BY <1>0, <1>18, <2>1 DEF Stream, FormFacts
  <2>3. LiveCheckpoints[n + 1] = front[1].cp /\ (JumpsPending[n + 1] <=> front[1].kind = "jump")
    BY <1>5, <1>18, <2>1 DEF StreamFacts
  <2> QED
    BY <1>5, <2>1, <2>2, <2>3
<1>20. PICK c \in Rings(CHECKPOINT_BUFFER_SIZE, CheckpointType),
            w \in Seq(RingRequest(CHECKPOINT_BUFFER_SIZE, CheckpointType)) :
              c = SyncedCp /\ w = cp_q /\ c = RingAfter(checkpoint_buffer, w) /\ Founded(checkpoint_buffer, w)
  <2>1. cp_q \in Seq(RingRequest(CHECKPOINT_BUFFER_SIZE, CheckpointType))
    BY <1>0 DEF Types
  <2>2. SyncedCp \in Rings(CHECKPOINT_BUFFER_SIZE, CheckpointType) /\ Founded(checkpoint_buffer, cp_q)
    BY <1>0, CpIs DEF RingsOK
  <2> QED
    BY <2>1, <2>2 DEF SyncedCp
<1>21. /\ cp_q' \in Seq(RingRequest(CHECKPOINT_BUFFER_SIZE, CheckpointType))
       /\ Founded(checkpoint_buffer', cp_q')
       /\ get_size(SyncedCp') = get_size(SyncedCp) /\ \A i : Place(SyncedCp', i) = Place(SyncedCp, i)
  <2>1. checkpoint_buffer' = checkpoint_buffer
    BY <1>1
  <2>2. CASE inst.cp = NoId
    <3>1. cp_q' = w
      BY <1>5, <1>20, <2>2 DEF FillCheckpoint
    <3>2. SyncedCp' = c
      BY <1>20, <2>1, <3>1 DEF SyncedCp
    <3> QED
      BY <1>20, <2>1, <3>1, <3>2
  <2>3. CASE inst.cp # NoId
    <3>1. inst.cp \in CpId /\ check_id_valid(c, inst.cp)
      <4>1. PICK l, m : l = LiveCheckpoints /\ m = Stream
        OBVIOUS
      <4>2. m \in Nat /\ n + 1 \in 1 .. m /\ l[n + 1] = inst.cp /\ Intact(l, m, c)
        BY <1>5, <1>18, <1>19, <1>20, <4>1 DEF StreamFacts
      <4>3. l[n + 1] \in 0 .. CHECKPOINT_BUFFER_SIZE - 1 /\ check_id_valid(c, l[n + 1])
        BY <2>3, <4>2, Sizes, IntactPlace
      <4> QED
        BY <4>2, <4>3, Sizes
    <3>2. PICK y \in RingRequest(CHECKPOINT_BUFFER_SIZE, CheckpointType) :
            y = SetItem(inst.cp, cp) /\ y.op = "set_item" /\ y.id = inst.cp /\ y.item = cp
      <4> DEFINE z == SetItem(inst.cp, cp)
      <4>1. z = [op |-> "set_item", id |-> inst.cp, item |-> cp]
        BY DEF SetItem
      <4>2. z \in [op : {"set_item"}, id : 0 .. CHECKPOINT_BUFFER_SIZE - 1, item : CheckpointType]
        BY <3>1, <4>1, Sizes
      <4>3. z \in RingRequest(CHECKPOINT_BUFFER_SIZE, CheckpointType)
        BY <4>2 DEF RingRequest
      <4> QED
        BY <4>1, <4>3
    <3>3. cp_q' = Append(w, y)
      BY <1>5, <1>20, <2>3, <3>2 DEF FillCheckpoint
    <3>4. cp_q' \in Seq(RingRequest(CHECKPOINT_BUFFER_SIZE, CheckpointType))
      BY <3>3, AppendProperties
    <3>5. Founded(checkpoint_buffer, Append(w, y))
      <4>1. Finds(c, y)
        BY <3>1, <3>2 DEF Finds
      <4> QED
        BY <1>20, <4>1, FoundedAppend
    <3>6. RingAfter(checkpoint_buffer, Append(w, y)) = ApplyRing(c, y)
      BY <1>20, RingAfterAppend
    <3>7. SyncedCp' = set_item(c, inst.cp, cp)
      BY <2>1, <3>2, <3>3, <3>6 DEF SyncedCp, ApplyRing
    <3>8. /\ get_size(set_item(c, inst.cp, cp)) = get_size(c)
          /\ \A i : Place(set_item(c, inst.cp, cp), i) = Place(c, i)
      BY <3>1, Sizes, ItemSet
    <3> QED
      BY <1>20, <2>1, <3>3, <3>4, <3>5, <3>7, <3>8
  <2> QED
    BY <2>2, <2>3
<1>22. Types'
  <2>1. rob' \in Rings(ROB_SIZE, Entry) /\ Tight(rob')
    <3>1. PICK u \in Rings(ROB_SIZE, Entry) : /\ u = rob' /\ get_size(u) = get_size(r) + 1
             /\ (\A j : At(u, j) = At(r, j)) /\ At(r, id) = get_size(r) + 1
             /\ \A j \in RobId : get_item(u, j) = IF j = id THEN x ELSE get_item(r, j)
      BY <1>5, <1>4, Sizes, PushItem
    <3>2. Tight(u)
      <4> SUFFICES ASSUME NEW j \in RobId, get_item(u, j) # Dead
                   PROVE  check_id_valid(u, j)
        BY Sizes, ShapeFacts DEF Tight
      <4>1. CASE j = id
        <5>1. At(u, j) = get_size(u)
          BY <3>1, <4>1
        <5>2. get_size(u) \in 0 .. ROB_SIZE
          BY Sizes, SizeIs
        <5> QED
          BY <5>1, <5>2, Sizes, ValidIs
      <4>2. CASE j # id
        <5>1. get_item(r, j) # Dead
          BY <3>1, <4>2
        <5>2. check_id_valid(r, j)
          BY <1>0, <1>4, <5>1, Sizes, ShapeFacts DEF Tight, Types
        <5>3. At(r, j) <= get_size(r)
          BY <5>2, Sizes, ValidIs
        <5>4. At(r, j) \in 1 .. ROB_SIZE /\ get_size(r) \in 0 .. ROB_SIZE
          <6>1. j \in 0 .. ROB_SIZE - 1
            BY Sizes
          <6>2. At(r, j) \in 1 .. ROB_SIZE
            BY <6>1, Sizes, PlaceAt
          <6>3. get_size(r) \in 0 .. ROB_SIZE
            BY Sizes, SizeIs
          <6> QED
            BY <6>2, <6>3
        <5>5. At(u, j) <= get_size(u)
          BY <3>1, <5>3, <5>4
        <5> QED
          BY <5>5, Sizes, ValidIs
      <4> QED
        BY <4>1, <4>2
    <3> QED
      BY <3>1, <3>2
  <2>2. slot' \in Nat
    BY <1>0, <1>1 DEF Types, renamed
  <2>3. front' \in Seq(Queued) /\ Len(front') <= FRONT_SIZE
    <3>1. Len(front) <= FRONT_SIZE /\ FRONT_SIZE \in Nat
      BY <1>0, PipelineAssumption DEF Types
    <3> QED
      BY <1>5, <3>1
  <2>4. inflight' \subseteq Sent
    BY <1>0, <1>5 DEF Types
  <2>5. rob_q' \in Seq(RingRequest(ROB_SIZE, Entry))
    BY <1>1, <1>4
  <2>6. /\ rat' \in RatType /\ data_valid' \subseteq Phy
        /\ checkpoint_buffer' \in Rings(CHECKPOINT_BUFFER_SIZE, CheckpointType)
        /\ reg_q' \in Seq(RegRequest)
    BY <1>0, <1>1 DEF Types
  <2>7. /\ cur_state' \in {"normal", "flush", "interrupt_flush"}
        /\ rob_item_id' \in RobId /\ restore_rob_item_id' \in RobId
    BY <1>0, <1>1 DEF Types, walk
  <2>8. /\ jump_wait' \in BOOLEAN /\ off_path' \in BOOLEAN /\ port' \in Seq(Reply)
        /\ feedback' \in {"none", "jump", "flush", "flush_jump", "flush_exception"}
    BY <1>0, <1>1 DEF Types
  <2>9. stage' \in {"commit", "wb", "rename"}
    BY <1>1
  <2> QED
    BY <1>21, <2>1, <2>2, <2>3, <2>4, <2>5, <2>6, <2>7, <2>8, <2>9 DEF Types
<1>23. Turns'
  BY <1>1, <1>2, <1>17 DEF Turns
<1>24. RingsOK'
  BY <1>5, <1>17, <1>21 DEF RingsOK
<1>25. AnswersOK'
  <2>1. \A y, z \in inflight' : y.id = z.id => y = z
    BY <1>0, <1>2, <1>5, <1>15, AnswersIs
  <2>2. port' = port
    BY <1>1
  <2>3. \A y \in inflight', i \in DOMAIN port : y.id # port[i].id
    BY <1>0, <1>2, <1>5, <1>16, AnswersIs
  <2>4. ASSUME NEW y \in inflight'
        PROVE  Unanswered(y)'
    <3>1. CASE y = pack
      <4>1. Ent(id)' # Dead /\ Ent(id)'.finish = "no" /\ Ent(id)'.new = new
        BY <1>5, DeadIsNone
      <4> QED
        BY <1>5, <3>1, <4>1 DEF Unanswered
    <3>2. CASE y \in inflight
      <4>1. Unanswered(y) /\ Ent(y.id)' = Ent(y.id)
        BY <1>0, <1>2, <1>15, <3>2, AnswersIs
      <4> QED
        BY <4>1 DEF Unanswered
    <3> QED
      BY <1>5, <3>1, <3>2
  <2>5. ASSUME NEW i \in DOMAIN port
        PROVE  Unanswered(port[i])'
    <3>1. Unanswered(port[i]) /\ Ent(port[i].id)' = Ent(port[i].id)
      BY <1>0, <1>2, <1>16, AnswersIs
    <3> QED
      BY <2>2, <3>1 DEF Unanswered
  <2>6. ASSUME NEW j \in RobId, Ent(j)' # Dead, Ent(j)'.finish = "no"
        PROVE  PacksOf(j)' # {} \/ AnswersOf(j)' # {}
    <3>1. CASE j = id
      BY <1>5, <3>1 DEF PacksOf
    <3>2. CASE j # id
      <4>1. Ent(j)' = Ent(j)
        BY <1>5, <3>2
      <4>2. PacksOf(j) # {} \/ AnswersOf(j) # {}
        BY <1>0, <1>2, <2>6, <4>1, AnswersIs
      <4> QED
        BY <1>5, <2>2, <4>2 DEF PacksOf, AnswersOf
    <3> QED
      BY <3>1, <3>2
  <2>7. \A i, j \in DOMAIN port' : port'[i].id = port'[j].id => i = j
    BY <1>0, <1>2, <2>2, AnswersIs
  <2> QED
    BY <2>1, <2>2, <2>3, <2>4, <2>5, <2>6, <2>7 DEF AnswersOK
<1>26. StreamFacts'
  BY <1>17, <1>22, <1>24, <1>25, StreamNext
<1>27. Stream' = Stream
  BY <1>5, <1>18, <1>19 DEF Stream
<1>28. ASSUME NEW i \in 1 .. Stream
       PROVE  LiveCheckpoints'[i] = LiveCheckpoints[i] /\ (JumpsPending'[i] <=> JumpsPending[i])
  <2>1. CASE i \in 1 .. n
    <3>1. PICK j \in RobId : j = Place(SyncedRob, i) /\ j # id
      BY <1>5, <1>18, <2>1
    <3>2. j = Place(SyncedRob', i) /\ Ent(j)' = Ent(j)
      BY <1>5, <3>1
    <3>3. Tells(i) /\ Tells(i)'
      BY <1>18, <1>19, <1>26, <2>1 DEF StreamFacts
    <3>4. CASE \E y \in inflight : y.id = j
      BY <1>5, <3>1, <3>2, <3>3, <3>4 DEF Tells
    <3>5. CASE \E k \in DOMAIN port : port[k].id = j
      <4>1. port' = port
        BY <1>1
      <4> QED
        BY <3>1, <3>2, <3>3, <3>5, <4>1 DEF Tells
    <3>6. CASE Ent(j).finish # "no"
      BY <3>1, <3>2, <3>3, <3>6 DEF Tells
    <3> QED
      BY <3>1, <3>2, <3>3, <3>4, <3>5, <3>6 DEF Tells
  <2>2. CASE i = n + 1
    <3>1. Place(SyncedRob', i) = id
      BY <1>5, <1>18, <2>2
    <3>2. Tells(i)'
      BY <1>18, <1>26, <2>2 DEF StreamFacts
    <3>3. LiveCheckpoints'[i] = pack.cp /\ (JumpsPending'[i] <=> pack.kind = "jump")
      BY <1>5, <3>1, <3>2 DEF Tells
    <3> QED
      BY <1>5, <1>19, <2>2, <3>3
  <2>3. CASE i > n + 1
    <3>1. PICK j \in 1 .. Len(front') : i = (n + 1) + j /\ i = n + (j + 1) /\ j + 1 \in 1 .. Len(front)
      <4>1. i \in Nat /\ i <= n + Len(front) /\ n \in Nat
        BY <1>5, <1>18, <1>19
      <4>2. PICK l \in Nat : l = Len(front) /\ Len(front') = l - 1 /\ i <= n + l
        BY <1>5, <4>1
      <4>3. PICK j \in Int : j = i - (n + 1)
        BY <4>1
      <4>4. j \in 1 .. l - 1 /\ i = (n + 1) + j /\ i = n + (j + 1) /\ j + 1 \in 1 .. l
        BY <2>3, <4>1, <4>2, <4>3
      <4> QED
        BY <4>2, <4>4
    <3>2. LiveCheckpoints[n + (j + 1)] = front[j + 1].cp /\ (JumpsPending[n + (j + 1)] <=> front[j + 1].kind = "jump")
      BY <1>18, <1>19, <3>1 DEF StreamFacts
    <3>3. LiveCheckpoints'[(n + 1) + j] = front'[j].cp /\ (JumpsPending'[(n + 1) + j] <=> front'[j].kind = "jump")
      BY <1>18, <1>26 DEF StreamFacts
    <3> QED
      BY <1>5, <3>1, <3>2, <3>3
  <2> QED
    BY <1>18, <2>1, <2>2, <2>3
<1>29. jump_wait' = jump_wait /\ feedback' = feedback
  BY <1>1
<1> QED
  BY <1>2, <1>17, <1>21, <1>22, <1>23, <1>24, <1>25, <1>27, <1>28, <1>29, StreamStays

\* A finite set of numbers has a greatest one.
LEMMA Greatest ==
  ASSUME NEW F, F \subseteq Nat, IsFiniteSet(F), F # {}
  PROVE  \E p \in F : \A q \in F : q <= p
<1>1. Cardinality(F) \in Nat \ {0}
  BY FS_CardinalityType, FS_EmptySet
<1>2. PICK p \in F : Cardinality({q \in F : q < p}) = Cardinality(F) - 1
  <2>1. Cardinality(F) - 1 \in Nat /\ Cardinality(F) - 1 < Cardinality(F)
    BY <1>1
  <2> QED
    BY <2>1, Ranked
<1> DEFINE G == F \ {p}
           H == {q \in F : q < p}
<1>3. IsFiniteSet(G) /\ Cardinality(G) = Cardinality(F) - 1
  BY FS_RemoveElement
<1>4. H \subseteq G
  OBVIOUS
<1>5. H = G
  BY <1>2, <1>3, <1>4, FS_Subset
<1> QED
  BY <1>5

\* As long as the table shows enough free registers, there is one to take.
LEMMA NewPhy ==
  ASSUME Types, Cardinality(free_phy) > Cardinality(GroupMaps)
  PROVE  new_phy_reg_id \in Phy
<1> DEFINE F == free_phy
           m == Cardinality(GroupMaps)
<1>1. F \subseteq Nat /\ F \subseteq Phy /\ IsFiniteSet(F)
  <2>1. IsFiniteSet(Phy) /\ Phy \subseteq Nat
    BY RatAssumption, FS_Interval DEF Phy
  <2>2. F \subseteq Phy
    BY DEF free_phy
  <2> QED
    BY <2>1, <2>2, FS_Subset
<1>2. m \in Nat
  <2>1. IsFiniteSet(DOMAIN rat_q)
    BY FS_Interval DEF Types
  <2>2. GroupMaps \subseteq DOMAIN rat_q
    BY DEF GroupMaps
  <2> QED
    BY <2>1, <2>2, FS_Subset, FS_CardinalityType
<1> HIDE DEF m
<1>3. m < Cardinality(F) /\ Cardinality(F) \in Nat
  BY <1>1, <1>2, FS_CardinalityType DEF m
<1> HIDE DEF F
<1>4. \E p \in F : Cardinality({q \in F : q < p}) = m
  BY <1>1, <1>2, <1>3, Ranked
<1>5. \E p \in free_phy : Cardinality(Below(p)) = Cardinality(GroupMaps)
  BY <1>4 DEF F, m, Below
<1>6. new_phy_reg_id \in free_phy
  BY <1>5 DEF new_phy_reg_id
<1> QED
  BY <1>6 DEF free_phy

\* What a destination replaces is a register.
LEMMA OldPhys ==
  ASSUME Types, NEW rd \in Arch
  PROVE  OldPhy(rd) \subseteq Phy
<1> DEFINE mine == {k \in GroupMaps : rat_q[k].arch = rd}
<1>1. CASE mine = {}
  <2>1. OldPhy(rd) = get_phy_id(rat, rd)
    BY <1>1 DEF OldPhy
  <2> QED
    BY <2>1 DEF get_phy_id, Types, RatType
<1>2. CASE mine # {}
  <2>1. mine \subseteq Nat /\ IsFiniteSet(mine)
    <3>1. IsFiniteSet(DOMAIN rat_q) /\ DOMAIN rat_q \subseteq Nat
      BY FS_Interval, SMTT(60) DEF Types
    <3>2. mine \subseteq DOMAIN rat_q
      BY DEF GroupMaps
    <3> QED
      BY <3>1, <3>2, FS_Subset
  <2> DEFINE k == CHOOSE k \in mine : \A l \in mine : l <= k
  <2>2. k \in mine
    <3> HIDE DEF mine
    <3>1. \E j \in mine : \A l \in mine : l <= j
      BY <1>2, <2>1, Greatest
    <3> QED
      BY <3>1
  <2>3. OldPhy(rd) = {rat_q[k].phy}
    BY <1>2 DEF OldPhy
  <2> HIDE DEF k
  <2>4. rat_q[k] \in RatRequest /\ rat_q[k].op = "set_map"
    BY <2>2 DEF GroupMaps, Types
  <2>5. rat_q[k].phy \in Phy
    BY <2>4 DEF RatRequest
  <2> QED
    BY <2>3, <2>5
<1> QED
  BY <1>1, <1>2

\* What rename saves is a checkpoint.
LEMMA GlobalCp ==
  ASSUME Types, NEW q \in Seq(RatRequest)
  PROVE  global_cp(q) \in CheckpointType
<1>1. MapsAfter(rat, q) \in RatType
  BY RatTyped DEF Types
<1> QED
  BY <1>1 DEF global_cp, save, RatType, CheckpointType

\* Renaming an instruction with a destination keeps IInv.
LEMMA RenameDestStep ==
  ASSUME IInv, NEW rd \in Arch, RenameDest(rd)
  PROVE  IInv'
<1>0. Types
  BY DEF IInv
<1>1. PICK p \in Phy : p = new_phy_reg_id
  BY <1>0, NewPhy DEF RenameDest
<1>2. PICK old \in Phy : Enter(Head(front), p, old)
  BY <1>0, <1>1, OldPhys DEF RenameDest
<1>3. rat_q' \in Seq(RatRequest)
  <2>1. PICK x \in RatRequest : x = SetMap(rd, p)
    BY DEF SetMap, RatRequest
  <2>2. rat_q \in Seq(RatRequest)
    BY <1>0 DEF Types
  <2>3. rat_q' = Append(rat_q, x)
    BY <1>1, <2>1 DEF RenameDest
  <2> QED
    BY <2>2, <2>3, AppendProperties
<1>4. PICK cp \in CheckpointType : cp = global_cp(rat_q')
  <2>1. PICK q \in Seq(RatRequest) : q = rat_q'
    BY <1>3
  <2>2. global_cp(q) \in CheckpointType
    BY <1>0, GlobalCp
  <2> QED
    BY <2>1, <2>2
<1>5. /\ CanRename /\ FillCheckpoint(Head(front), cp)
      /\ UNCHANGED <<rat, data_valid, checkpoint_buffer, reg_q, rob_q, walk,
                     jump_wait, off_path, port, feedback>>
  BY <1>4 DEF RenameDest
<1>6. p # NoPhy /\ old # NoPhy
  BY RatAssumption DEF Phy, NoPhy
<1> QED
  BY <1>2, <1>3, <1>5, <1>6, EnterStep

\* Renaming an instruction without one keeps IInv.
LEMMA RenameNoDestStep ==
  ASSUME IInv, RenameNoDest
  PROVE  IInv'
<1>0. Types
  BY DEF IInv
<1>1. rat_q \in Seq(RatRequest) /\ rat_q' = rat_q
  BY <1>0 DEF Types, RenameNoDest
<1>2. PICK cp \in CheckpointType : cp = global_cp(rat_q)
  BY <1>0, <1>1, GlobalCp
<1>3. /\ CanRename /\ FillCheckpoint(Head(front), cp) /\ Enter(Head(front), NoPhy, NoPhy)
      /\ UNCHANGED <<rat, data_valid, checkpoint_buffer, reg_q, rob_q, walk,
                     jump_wait, off_path, port, feedback>>
  BY <1>2 DEF RenameNoDest
<1> QED
  BY <1>1, <1>3, EnterStep

\* What fetch appends is well formed, and only its last one is a branch.
LEMMA GroupIs ==
  ASSUME NEW group \in FetchGroup
  PROVE  /\ Len(group) \in Nat /\ group \in [1 .. Len(group) -> Kind] /\ group \in Seq(Kind)
         /\ \A i \in 1 .. Len(group) - 1 : group[i] = "plain"
         /\ group = << >> <=> Len(group) = 0
<1>1. PICK n \in 0 .. FETCH_WIDTH : group \in [1 .. n -> Kind]
  BY DEF FetchGroup
<1>2. n \in Nat /\ group \in Seq(Kind) /\ Len(group) = n
  BY <1>1, PipelineAssumption
<1> QED
  BY <1>1, <1>2, EmptySeq DEF FetchGroup

\* A group after a stream whose branches are intact.
LEMMA IntactGroup ==
  ASSUME NEW c \in Rings(CHECKPOINT_BUFFER_SIZE, CheckpointType),
         NEW t \in Rings(CHECKPOINT_BUFFER_SIZE, CheckpointType),
         NEW l, NEW d, NEW m \in Nat, NEW g \in Nat,
         \A i \in 1 .. m : d[i] = l[i], Intact(l, m, c),
         \A i \in 1 .. g - 1 : d[m + i] = NoId,
         \/ t = c /\ (g > 0 => d[m + g] = NoId)
         \/ /\ g > 0 /\ get_size(t) = get_size(c) + 1 /\ \A i : Place(t, i) = Place(c, i)
            /\ d[m + g] # NoId /\ d[m + g] = Place(t, get_size(t))
  PROVE  Intact(d, m + g, t)
<1>1. CASE t = c /\ (g > 0 => d[m + g] = NoId)
  <2>1. \A i \in m + 1 .. m + g : d[i] = NoId
    <3> SUFFICES ASSUME NEW i \in m + 1 .. m + g
                 PROVE  d[i] = NoId
      OBVIOUS
    <3>1. PICK j \in 1 .. g : i = m + j
      <4>1. i - m \in 1 .. g
        OBVIOUS
      <4> QED
        BY <4>1
    <3> QED
      BY <1>1, <3>1
  <2> QED
    BY <1>1, <2>1, Sizes, IntactPlain
<1>2. CASE /\ g > 0 /\ get_size(t) = get_size(c) + 1 /\ \A i : Place(t, i) = Place(c, i)
           /\ d[m + g] # NoId /\ d[m + g] = Place(t, get_size(t))
  <2>1. PICK k \in Nat : k = g - 1 /\ (m + k) + 1 = m + g /\ m + k \in Nat
    BY <1>2
  <2>2. \A i \in m + 1 .. m + k : d[i] = NoId
    <3> SUFFICES ASSUME NEW i \in m + 1 .. m + k
                 PROVE  d[i] = NoId
      OBVIOUS
    <3>1. i - m \in 1 .. g - 1 /\ i = m + (i - m)
      BY <2>1
    <3> QED
      BY <3>1
  <2>3. Intact(d, m + k, c)
    BY <2>2, Sizes, IntactPlain
  <2>4. Intact(d, (m + k) + 1, t)
    BY <1>2, <2>1, <2>3, Sizes, IntactBranch
  <2> QED
    BY <2>1, <2>4
<1> QED
  BY <1>1, <1>2

\* Fetch and the end of the cycle keep IInv.
LEMMA FetchStep ==
  ASSUME IInv, NEW group \in FetchGroup, FetchAndSync(group)
  PROVE  IInv'
<1>0. Types /\ Turns /\ RingsOK /\ AnswersOK /\ LiveCheckpointsIntact /\ JumpWaitHasBranch
  BY DEF IInv
<1> DEFINE branch == IF group = << >> THEN "plain" ELSE group[Len(group)]
           predicted == branch \in {"hit", "miss"}
           fetched == IF predicted THEN push(checkpoint_buffer, Blank) ELSE checkpoint_buffer
           items == [i \in 1 .. Len(group) |->
                       [kind |-> group[i], wrong |-> off_path,
                        cp |-> IF group[i] \in {"hit", "miss"} THEN get_new_id(checkpoint_buffer)
                               ELSE NoId]]
<1>1. /\ stage \in {"wb", "rename"} /\ ~flushing
      /\ jump_wait => group = << >>
      /\ Len(front) + Len(group) <= FRONT_SIZE
      /\ predicted => ~is_full(checkpoint_buffer)
      /\ front' = front \o items
      /\ jump_wait' = IF jump_wait THEN feedback # "jump" ELSE branch = "jump"
      /\ off_path' = (off_path \/ branch = "miss")
      /\ SyncAll(fetched)
      /\ UNCHANGED <<walk, units>>
  BY DEF FetchAndSync
<1>2. cur_state = "normal" /\ Straight
  BY <1>0, <1>1 DEF Turns, flushing, Straight
<1>3. PICK g \in Nat : /\ g = Len(group) /\ group \in [1 .. g -> Kind]
                       /\ \A i \in 1 .. g - 1 : group[i] = "plain"
                       /\ group = << >> <=> g = 0
  BY GroupIs
<1>4. /\ g = 0 => branch = "plain"
      /\ g > 0 => branch = group[g]
  BY <1>3
<1>5. PICK id \in CpId : id = checkpoint_buffer.wptr /\ id = get_new_id(checkpoint_buffer) /\ id # NoId
  <2>1. checkpoint_buffer.wptr \in CpId
    BY <1>0, Sizes, ShapeFacts DEF Types
  <2> QED
    BY <2>1, Sizes DEF get_new_id, NoId
<1>6. /\ items \in Seq(Queued) /\ Len(items) = g
      /\ \A i \in 1 .. g : /\ items[i].kind = group[i]
                           /\ items[i].cp = IF group[i] \in {"hit", "miss"} THEN id ELSE NoId
  <2>1. ASSUME NEW i \in 1 .. g
        PROVE  /\ items[i] \in Queued /\ items[i].kind = group[i]
               /\ items[i].cp = IF group[i] \in {"hit", "miss"} THEN id ELSE NoId
    <3> DEFINE y == [kind |-> group[i], wrong |-> off_path,
                     cp |-> IF group[i] \in {"hit", "miss"} THEN id ELSE NoId]
    <3>1. items[i] = y
      BY <1>3, <1>5
    <3>2. group[i] \in Kind /\ off_path \in BOOLEAN
      BY <1>0, <1>3 DEF Types
    <3>3. y \in FrontItem
      BY <3>2 DEF FrontItem
    <3>4. y \in Queued
      BY <1>5, <3>3 DEF Queued
    <3> QED
      BY <3>1, <3>4
  <2>2. items = [i \in 1 .. g |-> items[i]]
    BY <1>3
  <2> HIDE DEF items
  <2> QED
    BY <2>1, <2>2
<1> HIDE DEF items
<1>7. PICK f \in Seq(Queued) : f = front /\ Len(f) \in Nat
  BY <1>0 DEF Types
<1>8. /\ front' \in Seq(Queued) /\ Len(front') = Len(f) + g
      /\ \A i \in 1 .. Len(f) : front'[i] = f[i]
      /\ \A i \in 1 .. g : front'[Len(f) + i] = items[i]
  <2>1. PICK h \in Seq(Queued) : h = items /\ Len(h) = g
    BY <1>6
  <2>2. front' = f \o h
    BY <1>1, <1>7, <2>1
  <2>3. f \o h \in Seq(Queued) /\ Len(f \o h) = Len(f) + Len(h)
        /\ \A i \in 1 .. Len(f) + Len(h) : (f \o h)[i] = IF i <= Len(f) THEN f[i] ELSE h[i - Len(f)]
    BY ConcatProperties
  <2>4. \A i \in 1 .. Len(f) : (f \o h)[i] = f[i]
    BY <1>7, <2>1, <2>3
  <2>5. ASSUME NEW i \in 1 .. g
        PROVE  (f \o h)[Len(f) + i] = h[i]
    <3>1. Len(f) + i \in 1 .. Len(f) + Len(h) /\ ~(Len(f) + i <= Len(f)) /\ (Len(f) + i) - Len(f) = i
      BY <1>7, <2>1
    <3> QED
      BY <2>3, <3>1
  <2> QED
    BY <2>1, <2>2, <2>3, <2>4, <2>5
<1>9. /\ rat' \in RatType /\ data_valid' \subseteq Phy
      /\ rob' = SyncedRob /\ SyncedRob' = SyncedRob /\ rob' \in Rings(ROB_SIZE, Entry) /\ Tight(rob')
      /\ SyncedCp' = checkpoint_buffer'
      /\ rat_q' = << >> /\ reg_q' = << >> /\ rob_q' = << >> /\ cp_q' = << >>
      /\ feedback' = "none" /\ stage' = "commit" /\ slot' = 0
  BY <1>1, Synced
<1>10. /\ cur_state' = "normal" /\ rob_item_id' = rob_item_id
       /\ restore_rob_item_id' = restore_rob_item_id /\ inflight' = inflight /\ port' = port
  BY <1>1, <1>2 DEF walk, units
<1>11. Turns' /\ RingsOK' /\ Straight'
  BY <1>9, <1>10, NewCycle
<1>12. PICK c \in Rings(CHECKPOINT_BUFFER_SIZE, CheckpointType),
            b \in Rings(CHECKPOINT_BUFFER_SIZE, CheckpointType),
            w \in Seq(RingRequest(CHECKPOINT_BUFFER_SIZE, CheckpointType)) :
              c = SyncedCp /\ b = checkpoint_buffer /\ w = cp_q /\ c = RingAfter(b, w) /\ Founded(b, w)
              /\ c.wptr = id
  <2>1. cp_q \in Seq(RingRequest(CHECKPOINT_BUFFER_SIZE, CheckpointType))
        /\ checkpoint_buffer \in Rings(CHECKPOINT_BUFFER_SIZE, CheckpointType)
    BY <1>0 DEF Types
  <2>2. SyncedCp \in Rings(CHECKPOINT_BUFFER_SIZE, CheckpointType) /\ Founded(checkpoint_buffer, cp_q)
        /\ SyncedCp.wptr = id
    BY <1>0, <1>5, CpIs DEF RingsOK
  <2> QED
    BY <2>1, <2>2 DEF SyncedCp
<1>13. PICK t \in Rings(CHECKPOINT_BUFFER_SIZE, CheckpointType) :
         /\ t = checkpoint_buffer' /\ t = SyncedCp'
         /\ ~predicted => t = c
         /\ predicted => /\ get_size(t) = get_size(c) + 1 /\ \A i : Place(t, i) = Place(c, i)
                         /\ id = Place(t, get_size(t))
  <2>1. checkpoint_buffer' = RingAfter(fetched, w)
    BY <1>1, <1>12 DEF SyncAll
  <2>2. CASE ~predicted
    <3>1. checkpoint_buffer' = c
      BY <1>12, <2>1, <2>2
    <3> QED
      BY <1>9, <2>2, <3>1
  <2>3. CASE predicted
    <3>1. Blank \in CheckpointType
      BY DEF Blank, CheckpointType
    <3>2. ~is_full(b) /\ fetched = push(b, Blank)
      BY <1>1, <1>12, <2>3
    <3>3. ~is_full(c) /\ RingAfter(push(b, Blank), w) = push(c, Blank)
      BY <1>12, <3>1, <3>2, Sizes, DeadIsNone, PushLater
    <3>4. PICK t \in Rings(CHECKPOINT_BUFFER_SIZE, CheckpointType) :
            /\ t = push(c, Blank) /\ get_size(t) = get_size(c) + 1
            /\ (\A i : Place(t, i) = Place(c, i)) /\ At(c, id) = get_size(c) + 1
      BY <1>12, <3>1, <3>3, Sizes, PushItem
    <3>5. Place(c, At(c, id)) = id
      BY Sizes, PlaceAt
    <3> QED
      BY <1>9, <2>1, <2>3, <3>2, <3>3, <3>4, <3>5
  <2> QED
    BY <2>2, <2>3
<1> HIDE DEF fetched
<1>14. Types'
  <2>1. front' \in Seq(Queued) /\ Len(front') <= FRONT_SIZE
    BY <1>1, <1>3, <1>7, <1>8
  <2>2. jump_wait' \in BOOLEAN /\ off_path' \in BOOLEAN
    BY <1>0, <1>1 DEF Types
  <2>3. /\ rat_q' \in Seq(RatRequest) /\ reg_q' \in Seq(RegRequest)
        /\ rob_q' \in Seq(RingRequest(ROB_SIZE, Entry))
        /\ cp_q' \in Seq(RingRequest(CHECKPOINT_BUFFER_SIZE, CheckpointType))
    BY <1>9
  <2>4. /\ feedback' \in {"none", "jump", "flush", "flush_jump", "flush_exception"}
        /\ stage' \in {"commit", "wb", "rename"} /\ slot' \in Nat
        /\ cur_state' \in {"normal", "flush", "interrupt_flush"}
    BY <1>9, <1>10
  <2>5. /\ rob_item_id' \in RobId /\ restore_rob_item_id' \in RobId
        /\ inflight' \subseteq Sent /\ port' \in Seq(Reply)
    BY <1>0, <1>10 DEF Types
  <2>6. checkpoint_buffer' \in Rings(CHECKPOINT_BUFFER_SIZE, CheckpointType)
    BY <1>13
  <2> QED
    BY <1>9, <2>1, <2>2, <2>3, <2>4, <2>5, <2>6 DEF Types
<1>15. \A j : Ent(j)' = Ent(j)
  BY <1>9 DEF Ent
<1>16. AnswersOK'
  <2>1. /\ \A y \in inflight : Unanswered(y) /\ Unanswered(y)'
        /\ \A i \in DOMAIN port : Unanswered(port[i]) /\ Unanswered(port[i])'
    BY <1>0, <1>2, <1>10, <1>15, AnswersIs DEF Unanswered
  <2>2. \A j : PacksOf(j)' = PacksOf(j) /\ AnswersOf(j)' = AnswersOf(j)
    BY <1>10 DEF PacksOf, AnswersOf
  <2> QED
    BY <1>0, <1>2, <1>10, <1>15, <2>1, <2>2, AnswersIs DEF AnswersOK
<1>17. StreamFacts /\ FormFacts /\ StreamFacts'
  BY <1>0, <1>2, <1>11, <1>14, <1>16, StreamNow, StreamNext
<1> DEFINE n == get_size(SyncedRob)
<1>18. n \in 0 .. ROB_SIZE /\ n \in Nat /\ get_size(SyncedRob') = n
  BY <1>0, <1>2, <1>9, LiveRobIs
<1> HIDE DEF n
<1>19. PICK m \in Nat : m = Stream /\ m = n + Len(f) /\ Stream' = m + g
  <2>1. Stream = n + Len(f)
    BY <1>7 DEF Stream, n
  <2>2. Stream' = n + Len(front')
    BY <1>18 DEF Stream
  <2> QED
    BY <1>3, <1>7, <1>8, <1>18, <2>1, <2>2
<1>20. ASSUME NEW i \in 1 .. m
       PROVE  LiveCheckpoints'[i] = LiveCheckpoints[i] /\ (JumpsPending'[i] <=> JumpsPending[i])
  <2>1. CASE i \in 1 .. n
    <3>1. PICK j : j = Place(SyncedRob, i) /\ j = Place(SyncedRob', i)
      BY <1>9
    <3>2. Tells(i) /\ Tells(i)'
      BY <1>17, <1>18, <2>1 DEF StreamFacts, n
    <3> QED
      BY <1>10, <1>15, <3>1, <3>2, SameTells
  <2>2. CASE i > n
    <3>1. PICK j \in 1 .. Len(f) : i = n + j
      <4>1. i - n \in 1 .. Len(f) /\ i = n + (i - n)
        BY <1>7, <1>18, <1>19, <2>2
      <4> QED
        BY <4>1
    <3>2. LiveCheckpoints[n + j] = f[j].cp /\ (JumpsPending[n + j] <=> f[j].kind = "jump")
      BY <1>7, <1>17 DEF StreamFacts, n
    <3>3. LiveCheckpoints'[n + j] = front'[j].cp /\ (JumpsPending'[n + j] <=> front'[j].kind = "jump")
      BY <1>7, <1>8, <1>17, <1>18 DEF StreamFacts
    <3> QED
      BY <1>8, <3>1, <3>2, <3>3
  <2> QED
    BY <1>18, <1>19, <2>1, <2>2
<1>21. ASSUME NEW i \in 1 .. g
       PROVE  /\ LiveCheckpoints'[m + i] = IF group[i] \in {"hit", "miss"} THEN id ELSE NoId
              /\ JumpsPending'[m + i] <=> group[i] = "jump"
  <2>1. Len(f) + i \in 1 .. Len(front') /\ n + (Len(f) + i) = m + i
    BY <1>3, <1>7, <1>8, <1>18, <1>19
  <2>2. front'[Len(f) + i] = items[i]
    BY <1>8
  <2>3. LiveCheckpoints'[n + (Len(f) + i)] = items[i].cp
        /\ (JumpsPending'[n + (Len(f) + i)] <=> items[i].kind = "jump")
    BY <1>17, <1>18, <2>1, <2>2 DEF StreamFacts
  <2> QED
    BY <1>6, <2>1, <2>3
<1>22. Intact(LiveCheckpoints', Stream', SyncedCp')
  <2>1. PICK l, d : l = LiveCheckpoints /\ d = LiveCheckpoints'
    OBVIOUS
  <2>2. Intact(l, m, c)
    BY <1>0, <1>12, <1>17, <1>19, <2>1 DEF FormFacts
  <2>3. \A i \in 1 .. m : d[i] = l[i]
    BY <1>20, <2>1
  <2>4. \A i \in 1 .. g - 1 : d[m + i] = NoId
    BY <1>3, <1>21, <2>1
  <2>5. \/ t = c /\ (g > 0 => d[m + g] = NoId)
        \/ /\ g > 0 /\ get_size(t) = get_size(c) + 1 /\ \A i : Place(t, i) = Place(c, i)
           /\ d[m + g] # NoId /\ d[m + g] = Place(t, get_size(t))
    <3>1. CASE ~predicted
      BY <1>3, <1>4, <1>13, <1>21, <2>1, <3>1
    <3>2. CASE predicted
      <4>1. g > 0 /\ g \in 1 .. g /\ group[g] \in {"hit", "miss"}
        BY <1>3, <1>4, <3>2
      <4>2. d[m + g] = id
        BY <1>21, <2>1, <4>1
      <4> QED
        BY <1>5, <1>13, <3>2, <4>1, <4>2
    <3> QED
      BY <3>1, <3>2
  <2>6. Intact(d, m + g, t)
    BY <2>2, <2>3, <2>4, <2>5, IntactGroup
  <2> QED
    BY <1>13, <1>19, <2>1, <2>6
<1>23. Waits(JumpsPending', Stream', jump_wait' /\ feedback' # "jump")
  <2>1. PICK p, q : p = JumpsPending /\ q = JumpsPending'
    OBVIOUS
  <2>2. /\ \A i \in 1 .. m - 1 : ~p[i]
        /\ (jump_wait /\ feedback # "jump") <=> (m > 0 /\ p[m])
    BY <1>0, <1>17, <1>19, <2>1 DEF FormFacts, Waits
  <2>3. \A i \in 1 .. m : q[i] <=> p[i]
    BY <1>20, <2>1
  <2>4. CASE g = 0
    <3>1. (jump_wait' /\ feedback' # "jump") <=> (jump_wait /\ feedback # "jump")
      BY <1>1, <1>4, <1>9, <2>4
    <3>2. \A i \in 1 .. m - 1 : ~q[i]
      BY <2>2, <2>3
    <3>3. (jump_wait' /\ feedback' # "jump") <=> (m > 0 /\ q[m])
      BY <2>2, <2>3, <3>1
    <3>4. m + g = m
      BY <2>4
    <3> QED
      BY <1>19, <2>1, <3>2, <3>3, <3>4 DEF Waits
  <2>5. CASE g > 0
    <3>1. ~jump_wait
      BY <1>1, <1>3, <2>5
    <3>2. \A i \in 1 .. m : ~q[i]
      BY <2>2, <2>3, <3>1
    <3>3. ASSUME NEW i \in 1 .. (m + g) - 1
          PROVE  ~q[i]
      <4>1. CASE i <= m
        BY <3>2, <4>1
      <4>2. CASE i > m
        <5>1. i - m \in 1 .. g - 1 /\ i - m \in 1 .. g /\ i = m + (i - m)
          BY <4>2
        <5>2. group[i - m] = "plain"
          BY <1>3, <5>1
        <5> QED
          BY <1>21, <2>1, <5>1, <5>2
      <4> QED
        BY <4>1, <4>2
    <3>4. (jump_wait' /\ feedback' # "jump") <=> group[g] = "jump"
      BY <1>1, <1>4, <1>9, <2>5, <3>1
    <3>5. q[m + g] <=> group[g] = "jump"
      BY <1>21, <2>1, <2>5
    <3>6. m + g > 0
      BY <2>5
    <3> QED
      BY <1>19, <2>1, <3>3, <3>4, <3>5, <3>6 DEF Waits
  <2> QED
    BY <2>4, <2>5
<1> QED
  BY <1>11, <1>14, <1>16, <1>22, <1>23, StraightOn

-----------------------------------------------------------------------------
(* The invariant of the cycle, and what it shows.                          *)

\* Reset establishes IInv.
LEMMA InitHolds ==
  ASSUME Init
  PROVE  IInv
<1>1. << >> \in Seq({0}) /\ 0 \in {0}
  OBVIOUS
<1>2. SyncedRob = rob /\ SyncedCp = checkpoint_buffer
  BY <1>1, RingAfterAppend DEF Init, SyncedRob, SyncedCp
<1>3. rob \in Rings(ROB_SIZE, Entry) /\ Tight(rob) /\ \A id \in RobId : get_item(rob, id) = Dead
  BY EmptyRob DEF Init
<1>4. Straight
  BY DEF Init, Straight, flushing
<1>5. Types
  <2>1. Arch \subseteq Phy
    BY RatAssumption DEF Arch, Phy
  <2>2. rat \in RatType /\ data_valid \subseteq Phy
    <3>1. \A p \in Phy : (IF p \in Arch THEN p ELSE 0) \in 0 .. ARCH_REG_NUM - 1
      BY RatAssumption DEF Arch, Phy
    <3>2. [p \in Phy |-> IF p \in Arch THEN p ELSE 0] \in [Phy -> 0 .. ARCH_REG_NUM - 1]
      BY <3>1
    <3> QED
      BY <2>1, <3>2 DEF Init, reset_map, RatType
  <2>3. checkpoint_buffer \in Rings(CHECKPOINT_BUFFER_SIZE, CheckpointType)
    BY Sizes, EmptyRing DEF Init
  <2>4. rob_item_id \in RobId /\ restore_rob_item_id \in RobId
    BY Sizes DEF Init
  <2>5. front \in Seq(Queued) /\ Len(front) <= FRONT_SIZE /\ port \in Seq(Reply)
    BY PipelineAssumption DEF Init
  <2>6. /\ rat_q \in Seq(RatRequest) /\ reg_q \in Seq(RegRequest)
        /\ rob_q \in Seq(RingRequest(ROB_SIZE, Entry))
        /\ cp_q \in Seq(RingRequest(CHECKPOINT_BUFFER_SIZE, CheckpointType))
    BY DEF Init
  <2>7. /\ cur_state \in {"normal", "flush", "interrupt_flush"}
        /\ jump_wait \in BOOLEAN /\ off_path \in BOOLEAN /\ inflight \subseteq Sent
        /\ feedback \in {"none", "jump", "flush", "flush_jump", "flush_exception"}
        /\ stage \in {"commit", "wb", "rename"} /\ slot \in Nat
    BY DEF Init
  <2> QED
    BY <1>3, <2>2, <2>3, <2>4, <2>5, <2>6, <2>7 DEF Types
<1>6. Turns
  <2>1. Pops = {} /\ GroupMaps = {}
    BY DEF Init, Pops, GroupMaps
  <2>2. Cardinality(Pops) = 0
    BY <2>1, FS_EmptySet
  <2> QED
    BY <1>4, <2>1, <2>2 DEF Init, Turns, Straight
<1>7. RingsOK
  BY <1>4 DEF Init, RingsOK, Founded, Straight
<1>8. WalkOK
  BY <1>4 DEF WalkOK, Straight
<1>9. AnswersOK
  BY <1>2, <1>3 DEF AnswersOK, Init, Ent
<1>10. Stream = 0
  <2>1. get_size(rob) = 0
    BY Sizes, EmptyRing DEF Init
  <2> QED
    BY <1>2, <2>1 DEF Init, Stream
<1>11. FormFacts
  BY <1>4, <1>5, <1>7, <1>9, StreamNow
<1>12. Intact(LiveCheckpoints, Stream, SyncedCp) /\ Waits(JumpsPending, Stream, jump_wait /\ feedback # "jump")
  BY <1>10 DEF Intact, Waits, Init
<1> QED
  BY <1>5, <1>6, <1>7, <1>8, <1>9, <1>11, <1>12 DEF IInv, FormFacts

\* Every step of the cycle keeps IInv.
LEMMA StepHolds ==
  ASSUME IInv, [Next]_vars
  PROVE  IInv'
<1>1. CASE Interrupt
  BY <1>1, WalkBackStarts DEF Interrupt
<1>2. CASE Exception
  BY <1>2, WalkBackStarts DEF Exception
<1>3. CASE Retire
  BY <1>3, RetireStep
<1>4. CASE Mispredict
  BY <1>4, MispredictStep
<1>5. CASE CommitInput
  BY <1>5, CommitInputStep
<1>6. CASE WalkBack
  BY <1>6, WalkBackStep
<1>7. ASSUME NEW pack \in inflight, NEW result \in ResultsOf(pack), WriteBack(pack, result)
      PROVE  IInv'
  BY <1>7, WriteBackStep
<1>8. ASSUME NEW rd \in Arch, RenameDest(rd)
      PROVE  IInv'
  BY <1>8, RenameDestStep
<1>9. CASE RenameNoDest
  BY <1>9, RenameNoDestStep
<1>10. ASSUME NEW group \in FetchGroup, FetchAndSync(group)
       PROVE  IInv'
  BY <1>10, FetchStep
<1>11. CASE FlushAndSync
  BY <1>11, FlushStep
<1>12. CASE UNCHANGED vars
  <2>1. UNCHANGED <<rat, data_valid, rob, checkpoint_buffer, rat_q, reg_q, rob_q, cp_q, cur_state,
                    rob_item_id, restore_rob_item_id, front, jump_wait, off_path, inflight, port,
                    feedback, stage, slot>>
    BY <1>12 DEF vars, machine, queues, walk, fetcher, units
  <2>2. Types' /\ Turns' /\ RingsOK'
    BY <2>1 DEF IInv, Types, Turns, RingsOK, flushing, Pops, GroupMaps
  <2>3. SyncedRob' = SyncedRob /\ SyncedCp' = SyncedCp /\ (Straight' <=> Straight)
    BY <2>1 DEF SyncedRob, SyncedCp, Straight, flushing
  <2>4. \A id : Ent(id)' = Ent(id) /\ PacksOf(id)' = PacksOf(id) /\ AnswersOf(id)' = AnswersOf(id)
    BY <2>1, <2>3 DEF Ent, PacksOf, AnswersOf
  <2>5. WalkOK'
    BY <2>1, <2>3 DEF IInv, WalkOK
  <2>6. CASE ~Straight'
    BY <2>2, <2>5, <2>6, Crooked
  <2>7. CASE Straight'
    <3>1. Types /\ Turns /\ RingsOK /\ AnswersOK /\ Straight
      BY <2>3, <2>7 DEF IInv
    <3>2. AnswersOK'
      <4>1. /\ \A y \in inflight : Unanswered(y) /\ Unanswered(y)'
            /\ \A i \in DOMAIN port : Unanswered(port[i]) /\ Unanswered(port[i])'
        BY <2>1, <2>4, <3>1, AnswersIs DEF Unanswered
      <4> QED
        BY <2>1, <2>4, <3>1, <4>1, AnswersIs DEF AnswersOK
    <3>3. StreamFacts /\ StreamFacts'
      BY <2>2, <2>7, <3>1, <3>2, StreamNow, StreamNext
    <3>4. Stream' = Stream
      BY <2>1, <2>3 DEF Stream
    <3>5. ASSUME NEW i \in 1 .. Stream
          PROVE  LiveCheckpoints'[i] = LiveCheckpoints[i] /\ (JumpsPending'[i] <=> JumpsPending[i])
      <4> DEFINE n == get_size(SyncedRob)
      <4>1. n \in 0 .. ROB_SIZE /\ get_size(SyncedRob') = n /\ Stream = n + Len(front) /\ Len(front) \in Nat
        BY <2>3, <3>1, LiveRobIs DEF Stream, Types
      <4> HIDE DEF n
      <4>2. CASE i <= n
        <5>1. PICK j : j = Place(SyncedRob, i) /\ j = Place(SyncedRob', i)
          BY <2>3
        <5>2. Tells(i) /\ Tells(i)'
          BY <3>3, <4>1, <4>2 DEF StreamFacts, n
        <5> QED
          BY <2>1, <2>4, <5>1, <5>2, SameTells
      <4>3. CASE i > n
        <5>1. i - n \in 1 .. Len(front) /\ i = n + (i - n)
          BY <4>1, <4>3
        <5>2. PICK j \in 1 .. Len(front) : i = n + j
          BY <5>1
        <5>3. LiveCheckpoints[n + j] = front[j].cp /\ (JumpsPending[n + j] <=> front[j].kind = "jump")
          BY <3>3 DEF StreamFacts, n
        <5>4. LiveCheckpoints'[n + j] = front[j].cp /\ (JumpsPending'[n + j] <=> front[j].kind = "jump")
          BY <2>1, <3>3, <4>1 DEF StreamFacts
        <5> QED
          BY <5>2, <5>3, <5>4
      <4> QED
        BY <4>1, <4>2, <4>3
    <3>6. get_size(SyncedCp') = get_size(SyncedCp) /\ (\A i : Place(SyncedCp', i) = Place(SyncedCp, i))
          /\ jump_wait' = jump_wait /\ feedback' = feedback
      BY <2>1, <2>3
    <3> QED
      BY <2>2, <2>7, <3>1, <3>2, <3>4, <3>5, <3>6, StreamStays
  <2> QED
    BY <2>6, <2>7
<1> QED
  BY <1>1, <1>2, <1>3, <1>4, <1>5, <1>6, <1>7, <1>8, <1>9, <1>10, <1>11, <1>12 DEF Next

(***************************************************************************)
(* Every state of the cycle satisfies IInv.                                *)
(***************************************************************************)
THEOREM Safety == Spec => []IInv
<1>1. Init => IInv
  BY InitHolds
<1>2. IInv /\ [Next]_vars => IInv'
  BY StepHolds
<1> QED
  BY <1>1, <1>2, PTL DEF Spec

(***************************************************************************)
(* For rings and groups of any size, no checkpoint slot is given up while  *)
(* its branch may still need it, however many slots the exceptions and     *)
(* interrupts before it left behind (commit.cpp:777, 1123, 1236).          *)
(***************************************************************************)
THEOREM CheckpointsIntact == Spec => []LiveCheckpointsIntact
<1>1. IInv => LiveCheckpointsIntact
  BY DEF IInv
<1> QED
  BY <1>1, Safety, PTL

(***************************************************************************)
(* Fetch waits exactly while the youngest instruction is a jump, and it is *)
(* the only one (fetch.cpp:182-193, 306-310; commit.cpp:857-864).          *)
(***************************************************************************)
THEOREM JumpAwaited == Spec => []JumpWaitHasBranch
<1>1. IInv => JumpWaitHasBranch
  BY DEF IInv
<1> QED
  BY <1>1, Safety, PTL

(***************************************************************************)
(* The types of the state, the rings' pointers and contents included.      *)
(***************************************************************************)
THEOREM Typed == Spec => []TypeOK
<1>1. IInv => TypeOK
  <2> SUFFICES ASSUME IInv
               PROVE  TypeOK
    OBVIOUS
  <2>0. Types
    BY DEF IInv
  <2>1. rob \in Shapes(ROB_SIZE, Entry) /\ checkpoint_buffer \in Shapes(CHECKPOINT_BUFFER_SIZE, CheckpointType)
    BY <2>0 DEF Types, Rings
  <2>2. Entry \subseteq RobItem
    BY DEF Entry
  <2>3. /\ \A id \in RobId : get_item(rob, id) \in RobItem \cup {Dead}
        /\ rob.rptr \in RobId /\ rob.wptr \in RobId /\ rob.wrapped \in BOOLEAN
    <3>1. \A id \in RobId : id + 1 \in 1 .. ROB_SIZE
      BY Sizes
    <3> QED
      BY <2>1, <2>2, <3>1, Sizes DEF Shapes, get_item
  <2>4. /\ \A id \in CpId : get_item(checkpoint_buffer, id) \in CheckpointType \cup {Dead}
        /\ checkpoint_buffer.rptr \in CpId /\ checkpoint_buffer.wptr \in CpId
    <3>1. \A id \in CpId : id + 1 \in 1 .. CHECKPOINT_BUFFER_SIZE
      BY Sizes
    <3> QED
      BY <2>1, <3>1, Sizes DEF Shapes, get_item
  <2>5. front \in Seq(FrontItem) /\ port \in Seq(Answer) /\ inflight \subseteq Pack
    <3>1. Queued \subseteq FrontItem /\ Reply \subseteq Answer /\ Sent \subseteq Pack
      BY DEF Queued, Reply, Sent
    <3> QED
      BY <2>0, <3>1 DEF Types
  <2> QED
    BY <2>0, <2>3, <2>4, <2>5 DEF Types, TypeOK
<1> QED
  BY <1>1, Safety, PTL

(***************************************************************************)
(* Every entry that waits for a result is known to one unit or answer, and *)
(* no other is: a flush leaves nothing behind that could answer for an     *)
(* entry that took an identifier over (wb.cpp:271, commit.cpp:882-991).    *)
(***************************************************************************)
THEOREM OneAnswer == Spec => []OneAnswerPerEntry
<1>1. IInv => OneAnswerPerEntry
  <2> SUFFICES ASSUME IInv, Straight
               PROVE  OneAnswerPerEntry
    BY DEF OneAnswerPerEntry, Straight
  <2>0. Types /\ RingsOK /\ AnswersOK
    BY DEF IInv
  <2>1. ASSUME NEW id \in RobId
        PROVE  Cardinality(PacksOf(id)) + Cardinality({k \in DOMAIN port : port[k].id = id})
                 = IF Ent(id) # Dead /\ Ent(id).finish = "no" THEN 1 ELSE 0
    <3> DEFINE K == {k \in DOMAIN port : port[k].id = id}
               P == PacksOf(id)
    <3>1. CASE \E x \in inflight : x.id = id
      <4>1. PICK x \in inflight : x.id = id
        BY <3>1
      <4>2. P = {x} /\ K = {} /\ Ent(id) # Dead /\ Ent(id).finish = "no"
        BY <2>0, <4>1, AnswersIs DEF PacksOf, Unanswered
      <4> HIDE DEF K, P
      <4>3. Cardinality(P) = 1 /\ Cardinality(K) = 0
        BY <4>2, FS_Singleton, FS_EmptySet
      <4> QED
        BY <4>2, <4>3 DEF K, P
    <3>2. CASE \E k \in DOMAIN port : port[k].id = id
      <4>1. PICK k \in DOMAIN port : port[k].id = id
        BY <3>2
      <4>2. P = {} /\ K = {k} /\ Ent(id) # Dead /\ Ent(id).finish = "no"
        BY <2>0, <4>1, AnswersIs DEF PacksOf, Unanswered
      <4> HIDE DEF K, P
      <4>3. Cardinality(P) = 0 /\ Cardinality(K) = 1
        BY <4>2, FS_Singleton, FS_EmptySet
      <4> QED
        BY <4>2, <4>3 DEF K, P
    <3>3. CASE ~(\E x \in inflight : x.id = id) /\ ~(\E k \in DOMAIN port : port[k].id = id)
      <4>1. P = {} /\ K = {} /\ AnswersOf(id) = {}
        BY <3>3 DEF PacksOf, AnswersOf
      <4>2. ~(Ent(id) # Dead /\ Ent(id).finish = "no")
        BY <2>0, <4>1, AnswersIs
      <4> HIDE DEF K, P
      <4>3. Cardinality(P) = 0 /\ Cardinality(K) = 0
        BY <4>1, FS_EmptySet
      <4> QED
        BY <4>2, <4>3 DEF K, P
    <3> QED
      BY <3>1, <3>2, <3>3
  <2>2. ASSUME NEW id \in RobId
        PROVE  check_id_valid(rob, id) <=> get_item(rob, id) # Dead
    <3>1. get_item(rob, id) # Dead => check_id_valid(rob, id)
      BY <2>0, Sizes, ShapeFacts DEF Types, Tight
    <3>2. check_id_valid(rob, id) => get_item(rob, id) \in Entry
      BY <2>0, Sizes, ValidIs, ItemAt DEF Types
    <3> QED
      BY <3>1, <3>2, DeadIsNone
  <2> QED
    BY <2>1, <2>2 DEF OneAnswerPerEntry, Ent
<1> QED
  BY <1>1, Safety, PTL

-----------------------------------------------------------------------------
(* What was fetched past a wrongly predicted branch.                       *)

\* The entry's branch was predicted wrongly, whoever knows it yet.
Missed(id) ==
  \/ \E x \in inflight : x.id = id /\ x.kind = "miss"
  \/ \E k \in DOMAIN port : port[k].id = id /\ port[k].result = "miss"
  \/ Ent(id) # Dead /\ Ent(id).finish = "miss"

WrongAt(i) ==
  IF i <= get_size(SyncedRob) THEN Ent(Place(SyncedRob, i)).wrong
  ELSE front[i - get_size(SyncedRob)].wrong

MissAt(i) ==
  IF i <= get_size(SyncedRob) THEN Missed(Place(SyncedRob, i))
  ELSE front[i - get_size(SyncedRob)].kind = "miss"

\* What is on the wrong path, the next fetch included, comes after the branch
\* whose flush will remove it.
PathOK ==
  Straight =>
    /\ \A i \in 1 .. Stream : WrongAt(i) => \E j \in 1 .. i - 1 : MissAt(j)
    /\ off_path => \E j \in 1 .. Stream : MissAt(j)

\* How long the stream is.
LEMMA StreamLength ==
  ASSUME IInv, Straight
  PROVE  /\ get_size(SyncedRob) \in 0 .. ROB_SIZE /\ ROB_SIZE \in Nat /\ Len(front) \in Nat
         /\ Stream = get_size(SyncedRob) + Len(front) /\ Stream \in Nat
<1>1. Types /\ RingsOK
  BY DEF IInv
<1>2. get_size(SyncedRob) \in 0 .. ROB_SIZE /\ ROB_SIZE \in Nat /\ Len(front) \in Nat
  BY <1>1, LiveRobIs, Sizes DEF Types
<1> QED
  BY <1>2 DEF Stream

\* The same stream, entry by entry.
LEMMA PathStays ==
  ASSUME IInv, Straight, PathOK, Stream' = Stream, off_path' = off_path,
         \A i \in 1 .. Stream : (WrongAt(i)' <=> WrongAt(i)) /\ (MissAt(i)' <=> MissAt(i))
  PROVE  PathOK'
<1>1. Stream \in Nat
  BY StreamLength
<1>2. /\ \A i \in 1 .. Stream : WrongAt(i) => \E j \in 1 .. i - 1 : MissAt(j)
      /\ off_path => \E j \in 1 .. Stream : MissAt(j)
  BY DEF PathOK
<1>3. ASSUME NEW i \in 1 .. Stream, WrongAt(i)'
      PROVE  \E j \in 1 .. i - 1 : MissAt(j)'
  <2>1. PICK j \in 1 .. i - 1 : MissAt(j)
    BY <1>2, <1>3
  <2>2. j \in 1 .. Stream
    BY <1>1
  <2> QED
    BY <2>1, <2>2
<1>4. off_path' => \E j \in 1 .. Stream : MissAt(j)'
  BY <1>2
<1> QED
  BY <1>3, <1>4 DEF PathOK

\* No unit and no answer names an entry that has its result.
LEMMA AnsweredAlone ==
  ASSUME AnswersOK, Straight, NEW id, Ent(id).finish # "no" \/ Ent(id) = Dead
  PROVE  (\A x \in inflight : x.id # id) /\ \A k \in DOMAIN port : port[k].id # id
BY AnswersIs DEF Unanswered

\* A retirement takes the oldest away, which was predicted rightly.
LEMMA RetirePath ==
  ASSUME IInv, PathOK, Retire
  PROVE  PathOK'
<1>0. Types /\ Turns /\ RingsOK /\ AnswersOK
  BY DEF IInv
<1>1. Looking /\ rob_item.finish \in {"ok", "jump", "hit"} /\ front' = front /\ off_path' = off_path
      /\ inflight' = inflight /\ port' = port
  BY DEF Retire, fetcher, units
<1>2. Straight
  BY <1>0, <1>1, HeadIs
<1> DEFINE n == get_size(SyncedRob)
<1>3. PICK h \in RobId :
        /\ h = current_id /\ Place(SyncedRob, 1) = h /\ Ent(h) = rob_item
        /\ n \in 1 .. ROB_SIZE
        /\ get_size(SyncedRob') = n - 1
        /\ \A i \in 1 .. ROB_SIZE - 1 : Place(SyncedRob', i) = Place(SyncedRob, i + 1)
        /\ \A i \in 2 .. ROB_SIZE : Place(SyncedRob, i) \in RobId /\ Place(SyncedRob, i) # h
        /\ \A j \in RobId : j # h => Ent(j)' = Ent(j)
        /\ Ent(h)' = Dead
  BY RetireEffect
<1>4. /\ ROB_SIZE \in Nat /\ Len(front) \in Nat /\ Stream = n + Len(front)
      /\ Stream' = (n - 1) + Len(front) /\ Stream \in Nat
  BY <1>1, <1>2, <1>3, StreamLength DEF Stream
<1>5. ~MissAt(1)
  <2>1. Ent(h).finish # "no" /\ Ent(h).finish # "miss"
    BY <1>1, <1>3
  <2>2. ~Missed(h)
    BY <1>0, <1>2, <2>1, AnsweredAlone DEF Missed
  <2> QED
    BY <1>3, <2>2 DEF MissAt
<1>6. ASSUME NEW i \in 1 .. Stream - 1
      PROVE  (WrongAt(i)' <=> WrongAt(i + 1)) /\ (MissAt(i)' <=> MissAt(i + 1))
  <2>1. CASE i <= n - 1
    <3>1. i + 1 <= n /\ i \in 1 .. ROB_SIZE - 1 /\ i + 1 \in 2 .. ROB_SIZE
      BY <1>3, <1>4, <2>1
    <3>2. PICK id \in RobId : id = Place(SyncedRob, i + 1) /\ id = Place(SyncedRob', i) /\ id # h
      BY <1>3, <3>1
    <3>3. Ent(id)' = Ent(id)
      BY <1>3, <3>2
    <3>4. Missed(id)' <=> Missed(id)
      BY <1>1, <3>3 DEF Missed
    <3>5. WrongAt(i)' <=> WrongAt(i + 1)
      BY <1>3, <2>1, <3>1, <3>2, <3>3 DEF WrongAt
    <3>6. MissAt(i + 1) <=> Missed(id)
      BY <3>1, <3>2 DEF MissAt
    <3>7. MissAt(i)' <=> Missed(id)'
      BY <1>3, <2>1, <3>2 DEF MissAt
    <3> QED
      BY <3>4, <3>5, <3>6, <3>7
  <2>2. CASE i > n - 1
    <3>1. ~(i <= get_size(SyncedRob')) /\ ~(i + 1 <= n) /\ i - get_size(SyncedRob') = (i + 1) - n
      BY <1>3, <1>4, <2>2
    <3> QED
      BY <1>1, <3>1 DEF WrongAt, MissAt
  <2> QED
    BY <1>3, <2>1, <2>2
<1> HIDE DEF n
<1>7. /\ \A i \in 1 .. Stream : WrongAt(i) => \E j \in 1 .. i - 1 : MissAt(j)
      /\ off_path => \E j \in 1 .. Stream : MissAt(j)
  BY <1>2 DEF PathOK
<1>8. Stream' = Stream - 1 /\ Stream - 1 \in Nat
  BY <1>3, <1>4
<1>9. ASSUME NEW i \in 1 .. Stream', WrongAt(i)'
      PROVE  \E j \in 1 .. i - 1 : MissAt(j)'
  <2>1. i \in 1 .. Stream - 1 /\ i + 1 \in 1 .. Stream
    BY <1>4, <1>8
  <2>2. PICK j \in 1 .. i : MissAt(j)
    BY <1>6, <1>7, <1>9, <2>1
  <2>3. j # 1
    BY <1>5, <2>2
  <2>4. PICK k \in 1 .. i - 1 : j = k + 1
    <3>1. j - 1 \in 1 .. i - 1 /\ j = (j - 1) + 1
      BY <2>3
    <3> QED
      BY <3>1
  <2>5. k \in 1 .. Stream - 1
    BY <1>4, <2>1
  <2> QED
    BY <1>6, <2>2, <2>4, <2>5
<1>10. ASSUME off_path
       PROVE  \E j \in 1 .. Stream' : MissAt(j)'
  <2>1. PICK j \in 1 .. Stream : MissAt(j)
    BY <1>7, <1>10
  <2>2. j # 1
    BY <1>5, <2>1
  <2>3. j - 1 \in 1 .. Stream - 1 /\ j = (j - 1) + 1
    BY <1>4, <2>2
  <2>4. PICK k \in 1 .. Stream - 1 : j = k + 1
    BY <2>3
  <2> QED
    BY <1>6, <1>8, <2>1, <2>4
<1> QED
  BY <1>1, <1>9, <1>10 DEF PathOK

\* Results taken in leave the stream as it is.
LEMMA CommitInputPath ==
  ASSUME IInv, PathOK, CommitInput
  PROVE  PathOK'
<1>0. Types /\ Turns /\ RingsOK /\ AnswersOK
  BY DEF IInv
<1>1. /\ stage = "commit" /\ cur_state = "normal" /\ port' = << >> /\ inflight' = inflight
      /\ front' = front /\ off_path' = off_path
  BY DEF CommitInput, fetcher
<1>2. Straight
  BY <1>0, <1>1 DEF Turns, Straight
<1> DEFINE n == get_size(SyncedRob)
<1>3. /\ get_size(SyncedRob') = n /\ \A i : Place(SyncedRob', i) = Place(SyncedRob, i)
      /\ \A k \in 1 .. Len(port) :
           LET e == get_item(SyncedRob', port[k].id)
           IN  e.finish = port[k].result /\ e.wrong = Ent(port[k].id).wrong /\ e \in Entry
      /\ \A id \in RobId : (\A k \in 1 .. Len(port) : port[k].id # id) => Ent(id)' = Ent(id)
  BY CommitInputEffect, Zenon
<1>4. n \in 0 .. ROB_SIZE /\ ROB_SIZE \in Nat /\ Stream' = Stream
  BY <1>1, <1>2, <1>3, StreamLength DEF Stream
<1>5. ASSUME NEW id \in RobId
      PROVE  (Ent(id)'.wrong <=> Ent(id).wrong) /\ (Missed(id)' <=> Missed(id))
  <2>1. Missed(id)' <=> (\E x \in inflight : x.id = id /\ x.kind = "miss")
                        \/ (Ent(id)' # Dead /\ Ent(id)'.finish = "miss")
    <3>1. DOMAIN port' = {}
      BY <1>1
    <3>2. Missed(id)' <=> \/ \E x \in inflight' : x.id = id /\ x.kind = "miss"
                          \/ \E k \in DOMAIN port' : port'[k].id = id /\ port'[k].result = "miss"
                          \/ Ent(id)' # Dead /\ Ent(id)'.finish = "miss"
      BY DEF Missed
    <3>3. ~\E k \in DOMAIN port' : port'[k].id = id /\ port'[k].result = "miss"
      BY <3>1
    <3> QED
      BY <1>1, <3>2, <3>3
  <2>2. CASE \E k \in 1 .. Len(port) : port[k].id = id
    <3>1. PICK k \in 1 .. Len(port) : port[k].id = id
      BY <2>2
    <3>2. k \in DOMAIN port
      BY <1>0, UnitIds
    <3>3. Ent(id)' = get_item(SyncedRob', port[k].id)
      BY <3>1 DEF Ent
    <3>4. Ent(id)'.finish = port[k].result /\ Ent(id)'.wrong = Ent(id).wrong /\ Ent(id)' # Dead
      BY <1>3, <3>1, <3>3, DeadIsNone
    <3>5. /\ \A x \in inflight : x.id # id
          /\ \A l \in DOMAIN port : port[l].id = id => l = k
          /\ Ent(id).finish = "no"
      BY <1>0, <1>2, <3>1, <3>2, AnswersIs DEF Unanswered
    <3>6. Missed(id) <=> port[k].result = "miss"
      BY <3>1, <3>2, <3>5 DEF Missed
    <3> QED
      BY <2>1, <3>4, <3>5, <3>6
  <2>3. CASE \A k \in 1 .. Len(port) : port[k].id # id
    <3>1. Ent(id)' = Ent(id)
      BY <1>3, <2>3
    <3>2. \A k \in DOMAIN port : port[k].id # id
      BY <1>0, <2>3, UnitIds
    <3>3. Missed(id) <=> (\E x \in inflight : x.id = id /\ x.kind = "miss")
                         \/ (Ent(id) # Dead /\ Ent(id).finish = "miss")
      <4>1. ~\E k \in DOMAIN port : port[k].id = id /\ port[k].result = "miss"
        BY <3>2
      <4> QED
        BY <4>1 DEF Missed
    <3> QED
      BY <2>1, <3>1, <3>3
  <2> QED
    BY <2>2, <2>3
<1>6. ASSUME NEW i \in 1 .. Stream
      PROVE  (WrongAt(i)' <=> WrongAt(i)) /\ (MissAt(i)' <=> MissAt(i))
  <2>1. CASE i <= n
    <3>1. PICK id \in RobId : id = Place(SyncedRob, i) /\ id = Place(SyncedRob', i)
      <4>1. PICK s \in Rings(ROB_SIZE, Entry) : s = SyncedRob
        BY <1>0, RobIs
      <4>2. i \in 1 .. ROB_SIZE
        BY <1>4, <2>1
      <4> QED
        BY <1>3, <4>1, <4>2, Sizes, AtPlace
    <3>2. WrongAt(i)' <=> WrongAt(i)
      BY <1>3, <1>5, <2>1, <3>1 DEF WrongAt
    <3>3. MissAt(i)' <=> Missed(id)'
      BY <1>3, <2>1, <3>1 DEF MissAt
    <3>4. MissAt(i) <=> Missed(id)
      BY <2>1, <3>1 DEF MissAt
    <3> QED
      BY <1>5, <3>2, <3>3, <3>4
  <2>2. CASE ~(i <= n)
    BY <1>1, <1>3, <2>2 DEF WrongAt, MissAt
  <2> QED
    BY <2>1, <2>2
<1> QED
  BY <1>1, <1>2, <1>4, <1>6, PathStays

\* A result on its way to commit says of its branch what its pack said.
LEMMA WriteBackPath ==
  ASSUME IInv, PathOK, NEW pack \in inflight, NEW result \in ResultsOf(pack), WriteBack(pack, result)
  PROVE  PathOK'
<1> DEFINE a == [id |-> pack.id, rd_phy |-> pack.rd_phy, result |-> result, cp |-> pack.cp]
           k == Len(port) + 1
<1>0. Types /\ Turns /\ RingsOK /\ AnswersOK
  BY DEF IInv
<1>1. /\ stage = "wb" /\ ~flushing /\ inflight' = inflight \ {pack} /\ port' = Append(port, a)
      /\ front' = front /\ off_path' = off_path /\ SyncedRob' = SyncedRob
  BY DEF WriteBack, fetcher, machine, SyncedRob
<1>2. Straight
  BY <1>0, <1>1 DEF Turns, flushing, Straight
<1>3. result = "miss" <=> pack.kind = "miss"
  <2>1. pack.kind \in {"plain", "jump", "hit", "miss"}
    BY <1>0, KindAssumption DEF Types, Sent, Pack
  <2> QED
    BY <2>1 DEF ResultsOf
<1>4. a.id = pack.id /\ a.result = result
  OBVIOUS
<1> HIDE DEF a
<1>5. /\ DOMAIN port' = DOMAIN port \cup {k} /\ port'[k] = a
      /\ \A i \in DOMAIN port : port'[i] = port[i]
  BY <1>0, <1>1 DEF Types
<1> HIDE DEF k
<1>6. ASSUME NEW id
      PROVE  Missed(id)' <=> Missed(id)
  <2>1. Ent(id)' = Ent(id)
    BY <1>1 DEF Ent
  <2>2. Missed(id)' <=> \/ \E x \in inflight : x # pack /\ x.id = id /\ x.kind = "miss"
                        \/ \E i \in DOMAIN port' : port'[i].id = id /\ port'[i].result = "miss"
                        \/ Ent(id)' # Dead /\ Ent(id)'.finish = "miss"
    BY <1>1 DEF Missed
  <2>3. (\E i \in DOMAIN port' : port'[i].id = id /\ port'[i].result = "miss")
          <=> (\E i \in DOMAIN port : port[i].id = id /\ port[i].result = "miss")
              \/ (pack.id = id /\ pack.kind = "miss")
    <3>1. ASSUME NEW i \in DOMAIN port', port'[i].id = id, port'[i].result = "miss"
          PROVE  \/ \E j \in DOMAIN port : port[j].id = id /\ port[j].result = "miss"
                 \/ (pack.id = id /\ pack.kind = "miss")
      BY <1>3, <1>4, <1>5, <3>1
    <3>2. ASSUME NEW i \in DOMAIN port, port[i].id = id, port[i].result = "miss"
          PROVE  \E j \in DOMAIN port' : port'[j].id = id /\ port'[j].result = "miss"
      BY <1>5, <3>2
    <3>3. ASSUME pack.id = id, pack.kind = "miss"
          PROVE  \E j \in DOMAIN port' : port'[j].id = id /\ port'[j].result = "miss"
      BY <1>3, <1>4, <1>5, <3>3
    <3> QED
      BY <3>1, <3>2, <3>3
  <2>4. (\E x \in inflight : x.id = id /\ x.kind = "miss")
          <=> (\E x \in inflight : x # pack /\ x.id = id /\ x.kind = "miss")
              \/ (pack.id = id /\ pack.kind = "miss")
    OBVIOUS
  <2>5. Missed(id) <=> \/ \E x \in inflight : x.id = id /\ x.kind = "miss"
                       \/ \E i \in DOMAIN port : port[i].id = id /\ port[i].result = "miss"
                       \/ Ent(id) # Dead /\ Ent(id).finish = "miss"
    BY DEF Missed
  <2> QED
    BY <2>1, <2>2, <2>3, <2>4, <2>5
<1>7. ASSUME NEW i \in 1 .. Stream
      PROVE  (WrongAt(i)' <=> WrongAt(i)) /\ (MissAt(i)' <=> MissAt(i))
  <2>1. WrongAt(i)' <=> WrongAt(i)
    BY <1>1 DEF WrongAt, Ent
  <2>2. PICK id : id = Place(SyncedRob, i)
    OBVIOUS
  <2>3. MissAt(i)' <=> IF i <= get_size(SyncedRob) THEN Missed(id)'
                       ELSE front[i - get_size(SyncedRob)].kind = "miss"
    BY <1>1, <2>2 DEF MissAt
  <2>4. MissAt(i) <=> IF i <= get_size(SyncedRob) THEN Missed(id)
                      ELSE front[i - get_size(SyncedRob)].kind = "miss"
    BY <2>2 DEF MissAt
  <2> QED
    BY <1>6, <2>1, <2>3, <2>4
<1>8. Stream' = Stream
  BY <1>1 DEF Stream
<1> QED
  BY <1>1, <1>2, <1>7, <1>8, PathStays

\* An instruction that enters the buffer keeps its place in the stream.
LEMMA EnterPath ==
  ASSUME IInv, PathOK, CanRename, NEW new \in Phy \cup {NoPhy}, NEW old \in Phy \cup {NoPhy},
         new = NoPhy <=> old = NoPhy, Enter(Head(front), new, old), rob_q' = rob_q,
         port' = port, off_path' = off_path
  PROVE  PathOK'
<1>0. Types /\ Turns /\ RingsOK /\ AnswersOK
  BY DEF IInv
<1>1. Straight
  BY <1>0 DEF CanRename, Turns, flushing, Straight
<1>2. PICK id \in RobId, x \in Entry, pack \in Sent, inst \in Queued : Entered(id, x, pack, inst, new, old)
  BY EnterEffect
<1> DEFINE n == get_size(SyncedRob)
<1>3. /\ front[1] = inst /\ x.finish = "no" /\ x.wrong = inst.wrong
      /\ pack.id = id /\ pack.kind = inst.kind /\ inflight' = inflight \cup {pack}
      /\ Len(front) \in Nat \ {0} /\ Len(front') = Len(front) - 1
      /\ \A i \in 1 .. Len(front') : front'[i] = front[i + 1]
      /\ get_size(SyncedRob') = n + 1
      /\ \A i : Place(SyncedRob', i) = Place(SyncedRob, i)
      /\ Place(SyncedRob, n + 1) = id
      /\ \A i \in 1 .. n : Place(SyncedRob, i) \in RobId /\ Place(SyncedRob, i) # id
      /\ Ent(id) = Dead /\ Ent(id)' = x /\ \A j \in RobId : j # id => Ent(j)' = Ent(j)
  BY <1>2 DEF Entered
<1>4. n \in Nat /\ Stream = n + Len(front) /\ Stream' = (n + 1) + (Len(front) - 1) /\ Stream' = Stream
  BY <1>1, <1>3, StreamLength DEF Stream
<1> HIDE DEF n
<1>5. (\A y \in inflight : y.id # id) /\ \A k \in DOMAIN port : port[k].id # id
  BY <1>0, <1>1, <1>3, AnsweredAlone
<1>6. Missed(id)' <=> inst.kind = "miss"
  <2>1. Ent(id)'.finish = "no"
    BY <1>3
  <2> QED
    BY <1>3, <1>5, <2>1 DEF Missed
<1>7. ASSUME NEW j \in RobId, j # id
      PROVE  Missed(j)' <=> Missed(j)
  <2>1. Ent(j)' = Ent(j)
    BY <1>3, <1>7
  <2> QED
    BY <1>3, <1>7, <2>1 DEF Missed
<1>8. ASSUME NEW i \in 1 .. Stream
      PROVE  (WrongAt(i)' <=> WrongAt(i)) /\ (MissAt(i)' <=> MissAt(i))
  <2>1. CASE i <= n
    <3>1. PICK j \in RobId : j = Place(SyncedRob, i) /\ j = Place(SyncedRob', i) /\ j # id
      BY <1>3, <2>1
    <3>2. i <= get_size(SyncedRob')
      BY <1>3, <1>4, <2>1
    <3>3. Ent(j)' = Ent(j)
      BY <1>3, <3>1
    <3>4. (WrongAt(i)' <=> Ent(j)'.wrong) /\ (MissAt(i)' <=> Missed(j)')
      BY <3>1, <3>2 DEF WrongAt, MissAt
    <3>5. (WrongAt(i) <=> Ent(j).wrong) /\ (MissAt(i) <=> Missed(j))
      BY <2>1, <3>1 DEF WrongAt, MissAt, n
    <3> QED
      BY <1>7, <3>1, <3>3, <3>4, <3>5
  <2>2. CASE i = n + 1
    <3>1. Place(SyncedRob', i) = id /\ i <= get_size(SyncedRob') /\ ~(i <= n) /\ i - n = 1
      BY <1>3, <1>4, <2>2
    <3>2. (WrongAt(i)' <=> Ent(id)'.wrong) /\ (MissAt(i)' <=> Missed(id)')
      BY <3>1 DEF WrongAt, MissAt
    <3>3. (WrongAt(i) <=> front[1].wrong) /\ (MissAt(i) <=> front[1].kind = "miss")
      BY <3>1 DEF WrongAt, MissAt, n
    <3> QED
      BY <1>3, <1>6, <3>2, <3>3
  <2>3. CASE i > n + 1
    <3>1. /\ ~(i <= get_size(SyncedRob')) /\ ~(i <= n) /\ i - get_size(SyncedRob') \in 1 .. Len(front')
          /\ (i - get_size(SyncedRob')) + 1 = i - n
      BY <1>3, <1>4, <2>3
    <3>2. front'[i - get_size(SyncedRob')] = front[i - n]
      BY <1>3, <3>1
    <3>3. /\ WrongAt(i)' <=> front'[i - get_size(SyncedRob')].wrong
          /\ MissAt(i)' <=> front'[i - get_size(SyncedRob')].kind = "miss"
      BY <3>1 DEF WrongAt, MissAt
    <3>4. (WrongAt(i) <=> front[i - n].wrong) /\ (MissAt(i) <=> front[i - n].kind = "miss")
      BY <3>1 DEF WrongAt, MissAt, n
    <3> QED
      BY <3>2, <3>3, <3>4
  <2> QED
    BY <1>4, <2>1, <2>2, <2>3
<1> QED
  BY <1>1, <1>4, <1>8, PathStays

\* What fetch appends is on the wrong path when its youngest branch is.
LEMMA FetchPath ==
  ASSUME IInv, PathOK, NEW group \in FetchGroup, FetchAndSync(group)
  PROVE  PathOK'
<1> DEFINE branch == IF group = << >> THEN "plain" ELSE group[Len(group)]
           items == [i \in 1 .. Len(group) |->
                       [kind |-> group[i], wrong |-> off_path,
                        cp |-> IF group[i] \in {"hit", "miss"} THEN get_new_id(checkpoint_buffer)
                               ELSE NoId]]
<1>0. Types /\ Turns /\ RingsOK /\ AnswersOK
  BY DEF IInv
<1>1. /\ stage \in {"wb", "rename"} /\ ~flushing /\ front' = front \o items
      /\ off_path' = (off_path \/ branch = "miss") /\ inflight' = inflight /\ port' = port
      /\ \E fetched : SyncAll(fetched)
  BY DEF FetchAndSync, units
<1>2. Straight
  BY <1>0, <1>1 DEF Turns, flushing, Straight
<1>3. PICK g \in Nat : g = Len(group) /\ (group = << >> <=> g = 0)
  BY GroupIs
<1>4. \A i \in 1 .. g : items[i].wrong = off_path /\ items[i].kind = group[i]
  BY <1>3
<1>5. Len(items) = g /\ DOMAIN items = 1 .. g
  BY <1>3
<1>6. branch = "miss" => g \in 1 .. g /\ group[g] = "miss"
  BY <1>3
<1> HIDE DEF items, branch
<1>7. /\ Len(front') = Len(front) + g /\ Len(front) \in Nat
      /\ \A i \in 1 .. Len(front) : front'[i] = front[i]
      /\ \A i \in 1 .. g : front'[Len(front) + i] = items[i]
  <2>1. PICK f \in Seq(Queued) : f = front /\ Len(f) \in Nat
    BY <1>0 DEF Types
  <2> DEFINE S == Queued \cup {items[i] : i \in 1 .. g}
  <2>2. items \in Seq(S) /\ f \in Seq(S)
    <3>1. items = [i \in 1 .. g |-> items[i]]
      BY <1>3, <1>5 DEF items
    <3>2. f = [i \in 1 .. Len(f) |-> f[i]] /\ \A i \in 1 .. Len(f) : f[i] \in Queued
      BY <2>1
    <3>3. items \in [1 .. g -> S]
      BY <3>1
    <3>4. f \in [1 .. Len(f) -> S]
      BY <3>2
    <3> QED
      BY <1>3, <2>1, <3>3, <3>4
  <2> HIDE DEF S
  <2>3. PICK h \in Seq(S) : h = items /\ Len(h) = g
    BY <1>5, <2>2
  <2>4. PICK k \in Seq(S) : k = f /\ Len(k) = Len(f)
    BY <2>2
  <2>5. front' = k \o h
    BY <1>1, <2>1, <2>3, <2>4
  <2>6. Len(k \o h) = Len(k) + Len(h)
        /\ \A i \in 1 .. Len(k) + Len(h) : (k \o h)[i] = IF i <= Len(k) THEN k[i] ELSE h[i - Len(k)]
    BY SMTT(60)
  <2>7. ASSUME NEW i \in 1 .. Len(k)
        PROVE  (k \o h)[i] = k[i]
    BY <2>1, <2>3, <2>4, <2>6, <1>3
  <2>8. ASSUME NEW i \in 1 .. g
        PROVE  (k \o h)[Len(k) + i] = h[i]
    <3>1. Len(k) + i \in 1 .. Len(k) + Len(h) /\ ~(Len(k) + i <= Len(k)) /\ (Len(k) + i) - Len(k) = i
      BY <2>1, <2>3, <2>4, <1>3
    <3> QED
      BY <2>6, <3>1
  <2> QED
    BY <2>1, <2>3, <2>4, <2>5, <2>6, <2>7, <2>8
<1>8. SyncedRob' = SyncedRob
  BY <1>1, Synced
<1> DEFINE n == get_size(SyncedRob)
<1>9. PICK m \in Nat : m = Stream /\ m = n + Len(front) /\ Stream' = m + g /\ n \in Nat
  BY <1>2, <1>3, <1>7, <1>8, StreamLength DEF Stream
<1> HIDE DEF n
<1>10. ASSUME NEW id
       PROVE  Ent(id)' = Ent(id) /\ (Missed(id)' <=> Missed(id))
  BY <1>1, <1>8 DEF Ent, Missed
<1>11. ASSUME NEW i \in 1 .. m
       PROVE  (WrongAt(i)' <=> WrongAt(i)) /\ (MissAt(i)' <=> MissAt(i))
  <2>1. CASE i <= n
    <3>1. PICK id : id = Place(SyncedRob, i)
      OBVIOUS
    <3>2. (WrongAt(i)' <=> Ent(id)'.wrong) /\ (MissAt(i)' <=> Missed(id)')
      BY <1>8, <2>1, <3>1 DEF WrongAt, MissAt, n
    <3>3. (WrongAt(i) <=> Ent(id).wrong) /\ (MissAt(i) <=> Missed(id))
      BY <2>1, <3>1 DEF WrongAt, MissAt, n
    <3> QED
      BY <1>10, <3>2, <3>3
  <2>2. CASE ~(i <= n)
    <3>1. front'[i - n] = front[i - n]
      <4>1. i - n \in 1 .. Len(front)
        BY <1>7, <1>9, <2>2
      <4> QED
        BY <1>7, <4>1
    <3> QED
      BY <1>8, <2>2, <3>1 DEF WrongAt, MissAt, n
  <2> QED
    BY <2>1, <2>2
<1>12. ASSUME NEW i \in 1 .. g
       PROVE  (WrongAt(m + i)' <=> off_path) /\ (MissAt(m + i)' <=> group[i] = "miss")
  <2>1. ~(m + i <= n) /\ (m + i) - n = Len(front) + i
    BY <1>3, <1>7, <1>9
  <2>2. front'[(m + i) - n] = items[i]
    BY <1>7, <2>1
  <2> QED
    BY <1>4, <1>8, <2>1, <2>2 DEF WrongAt, MissAt, n
<1>13. /\ \A i \in 1 .. m : WrongAt(i) => \E j \in 1 .. i - 1 : MissAt(j)
       /\ off_path => \E j \in 1 .. m : MissAt(j)
  BY <1>2, <1>9 DEF PathOK
<1>14. ASSUME NEW i \in 1 .. m + g, WrongAt(i)'
       PROVE  \E j \in 1 .. i - 1 : MissAt(j)'
  <2>1. CASE i <= m
    <3>1. PICK j \in 1 .. i - 1 : MissAt(j)
      BY <1>11, <1>13, <1>14, <2>1
    <3>2. j \in 1 .. m
      BY <2>1
    <3> QED
      BY <1>11, <3>1, <3>2
  <2>2. CASE i > m
    <3>1. i - m \in 1 .. g /\ i = m + (i - m)
      BY <2>2
    <3>2. off_path
      BY <1>12, <1>14, <3>1
    <3>3. PICK j \in 1 .. m : MissAt(j)
      BY <1>13, <3>2
    <3>4. j \in 1 .. i - 1
      BY <2>2
    <3> QED
      BY <1>11, <3>3, <3>4
  <2> QED
    BY <2>1, <2>2
<1>15. ASSUME off_path'
       PROVE  \E j \in 1 .. m + g : MissAt(j)'
  <2>1. CASE off_path
    <3>1. PICK j \in 1 .. m : MissAt(j)
      BY <1>13, <2>1
    <3> QED
      BY <1>11, <3>1
  <2>2. CASE branch = "miss"
    <3>1. g \in 1 .. g /\ MissAt(m + g)'
      BY <1>6, <1>12, <2>2
    <3> QED
      BY <3>1
  <2> QED
    BY <1>1, <1>15, <2>1, <2>2
<1> QED
  BY <1>9, <1>14, <1>15 DEF PathOK

\* Every step keeps what is on the wrong path behind a branch.
LEMMA PathStep ==
  ASSUME IInv, PathOK, [Next]_vars
  PROVE  PathOK'
<1>0. Types /\ Turns /\ RingsOK
  BY DEF IInv
<1>1. ASSUME NEW state \in {"flush", "interrupt_flush"}, StartWalkBack(state)
      PROVE  PathOK'
  BY <1>1 DEF StartWalkBack, PathOK, Straight
<1>2. CASE Mispredict
  <2>1. flushing'
    BY <1>2 DEF Mispredict, flushing
  <2> QED
    BY <2>1 DEF PathOK, Straight
<1>3. CASE WalkBack
  <2>1. stage = "commit" /\ cur_state # "normal"
    BY <1>3 DEF WalkBack
  <2>2. cur_state' # "normal" \/ flushing'
    BY <1>3, <2>1 DEF WalkBack, flushing
  <2> QED
    BY <2>2 DEF PathOK, Straight
<1>4. ASSUME NEW rd \in Arch, RenameDest(rd)
      PROVE  PathOK'
  <2>1. PICK p \in Phy : p = new_phy_reg_id
    BY <1>0, <1>4, NewPhy DEF RenameDest
  <2>2. PICK old \in Phy : Enter(Head(front), p, old)
    BY <1>0, <1>4, <2>1, OldPhys DEF RenameDest
  <2>3. CanRename /\ rob_q' = rob_q /\ port' = port /\ off_path' = off_path
    BY <1>4 DEF RenameDest
  <2>4. p # NoPhy /\ old # NoPhy
    BY RatAssumption DEF Phy, NoPhy
  <2> QED
    BY <2>2, <2>3, <2>4, EnterPath
<1>5. CASE RenameNoDest
  <2>1. CanRename /\ Enter(Head(front), NoPhy, NoPhy) /\ rob_q' = rob_q /\ port' = port
        /\ off_path' = off_path
    BY <1>5 DEF RenameNoDest
  <2> QED
    BY <2>1, EnterPath
<1>6. CASE FlushAndSync
  <2> SUFFICES ASSUME Straight'
               PROVE  PathOK'
    BY DEF PathOK
  <2>1. /\ flushing /\ front' = << >> /\ off_path' = (off_path /\ feedback = "flush")
        /\ SyncAll(checkpoint_buffer) /\ cur_state' = cur_state
    BY <1>6 DEF FlushAndSync, FlushTo, walk
  <2>2. cur_state = "normal" /\ feedback # "flush"
    BY <1>0, <2>1 DEF Straight, Turns
  <2>3. is_empty(rob) /\ \A k \in DOMAIN rob_q : rob_q[k].op = "pop"
    BY <1>0, <2>1, <2>2 DEF RingsOK
  <2>4. SyncedRob' = rob
    BY <1>0, <2>1, <2>3, Synced, EmptyPops DEF SyncedRob, Types
  <2>5. get_size(rob) = 0
    BY <1>0, <2>3, Sizes, SizeIs DEF Types
  <2>6. Stream' = 0
    BY <2>1, <2>4, <2>5 DEF Stream
  <2>7. 1 .. Stream' = {}
    BY <2>6
  <2>8. ~off_path'
    BY <2>1, <2>2
  <2> QED
    BY <2>7, <2>8 DEF PathOK
<1>7. CASE UNCHANGED vars
  BY <1>7 DEF vars, machine, queues, walk, fetcher, units, PathOK, Straight, flushing, Stream, SyncedRob,
              WrongAt, MissAt, Missed, Ent
<1> QED
  BY <1>1, <1>2, <1>3, <1>4, <1>5, <1>6, <1>7, RetirePath, CommitInputPath, WriteBackPath, FetchPath
  DEF Next, Interrupt, Exception

\* What commit looks at is on the right path.
LEMMA HeadIsRight ==
  ASSUME IInv, PathOK, Looking
  PROVE  ~rob_item.wrong
<1>1. Types /\ Turns /\ RingsOK
  BY DEF IInv
<1>2. /\ Straight /\ get_size(SyncedRob) \in 1 .. ROB_SIZE /\ Place(SyncedRob, 1) = current_id
      /\ Ent(current_id) = rob_item
  BY <1>1, HeadIs
<1>3. 1 \in 1 .. Stream /\ 1 <= get_size(SyncedRob)
  BY <1>2, StreamLength
<1>4. WrongAt(1) => \E j \in 1 .. 1 - 1 : MissAt(j)
  BY <1>2, <1>3 DEF PathOK
<1>5. ~WrongAt(1)
  BY <1>4
<1> QED
  BY <1>2, <1>3, <1>5 DEF WrongAt

(***************************************************************************)
(* For rings and groups of any size, no instruction fetched past a wrongly *)
(* predicted branch reaches the architectural state: the flush of the      *)
(* branch finds it in the buffer or in front of it (commit.cpp:783-844,    *)
(* fetch.cpp:359-373).                                                     *)
(***************************************************************************)
THEOREM RightPath == Spec => OnlyTheRightPathRetires
<1>1. Init => PathOK
  <2> SUFFICES ASSUME Init
               PROVE  PathOK
    OBVIOUS
  <2>1. IInv
    BY InitHolds
  <2>2. Straight /\ ~off_path /\ front = << >>
    BY DEF Init, Straight, flushing
  <2>3. SyncedRob = rob
    <3>1. << >> \in Seq({0}) /\ 0 \in {0}
      OBVIOUS
    <3> QED
      BY <3>1, RingAfterAppend DEF Init, SyncedRob
  <2>4. Stream = 0
    BY <2>2, <2>3, Sizes, EmptyRing DEF Init, Stream
  <2> QED
    BY <2>2, <2>4 DEF PathOK
<1>2. IInv /\ PathOK /\ [Next]_vars => PathOK'
  BY PathStep
<1>3. IInv /\ PathOK /\ [Next]_vars => (Retire \/ Mispredict \/ Exception => ~rob_item.wrong)
  <2>1. Retire \/ Mispredict \/ Exception => Looking
    BY DEF Retire, Mispredict, Exception
  <2> QED
    BY <2>1, HeadIsRight
<1> QED
  BY <1>1, <1>2, <1>3, Safety, PTL DEF Spec, OnlyTheRightPathRetires

-----------------------------------------------------------------------------
(* What Renaming sees of the machine: the live entries, oldest first.      *)

\* How many entries have neither retired nor been walked back.
Live == IF cur_state = "normal" THEN get_size(SyncedRob) ELSE At(SyncedRob, restore_rob_item_id)

\* The checkpoint of an entry that has one.
Shown(id) == get_item(SyncedCp, Known(id).cp)

\* The refined buffer, and that its places hold entries of their own.
RefinedFacts ==
  /\ Live \in 0 .. get_size(SyncedRob) /\ get_size(SyncedRob) \in 0 .. ROB_SIZE /\ ROB_SIZE \in Nat
  /\ RefinedRob = [i \in 1 .. Live |-> RefinedItem(Place(SyncedRob, i))]
  /\ \A i \in 1 .. ROB_SIZE : Place(SyncedRob, i) \in RobId
  /\ \A i, j \in 1 .. ROB_SIZE : Place(SyncedRob, i) = Place(SyncedRob, j) => i = j
  /\ \A i \in 1 .. get_size(SyncedRob) : Ent(Place(SyncedRob, i)) \in Entry

\* The rings give the refined buffer that form, walking back or not.
LEMMA RefinedIs == Types /\ RingsOK /\ WalkOK => RefinedFacts
<1> SUFFICES ASSUME Types, RingsOK, WalkOK
             PROVE  RefinedFacts
  OBVIOUS
<1> DEFINE n == ROB_SIZE
           ids == LiveIds(rob)
           k == Cardinality(Pops)
<1>1. PICK s \in Rings(n, Entry) : s = SyncedRob
  BY RobIs
<1>2. get_size(s) \in 0 .. n /\ n \in Nat \ {0}
  BY Sizes, SizeIs
<1>3. \A i \in 1 .. n : Place(s, i) \in RobId /\ At(s, Place(s, i)) = i
  BY <1>2, Sizes, AtPlace
<1>4. \A i \in 1 .. get_size(s) : get_item(s, Place(s, i)) \in Entry
  BY DEF Rings
<1>5. /\ ids \in Seq(0 .. n - 1) /\ Len(ids) = get_size(rob) /\ get_size(rob) \in 0 .. n
      /\ \A i \in 1 .. get_size(rob) : ids[i] = Place(rob, i)
      /\ rob \in Rings(n, Entry)
  BY Sizes, LiveIdsIs, SizeIs DEF Types
<1>6. Live \in 0 .. get_size(s) /\ Len(LiveRob) = Live /\ \A i \in 1 .. Live : LiveRob[i] = Place(s, i)
  <2>1. CASE Straight
    <3>1. Live = get_size(s)
      BY <1>1, <2>1 DEF Live, Straight
    <3> QED
      BY <1>1, <2>1, <3>1, LiveRobIs
  <2>2. CASE cur_state = "normal" /\ flushing
    <3>1. is_empty(rob) /\ \A j \in DOMAIN rob_q : rob_q[j].op = "pop"
      BY <2>2 DEF RingsOK
    <3>2. SyncedRob = rob
      BY <3>1, EmptyPops DEF Types, SyncedRob
    <3>3. get_size(rob) = 0
      BY <1>5, <3>1, Sizes, SizeIs
    <3>4. Live = 0 /\ LiveRob = SubSeq(ids, k + 1, 0)
      BY <1>5, <2>2, <3>2, <3>3 DEF Live, LiveRob
    <3>5. k \in Nat
      <4>1. Pops = PopsIn(rob_q)
        BY DEF Pops, PopsIn
      <4>2. [op |-> "pop"] \in RingRequest(n, Entry)
        BY DEF RingRequest
      <4> QED
        BY <4>1, <4>2, PopsAppend DEF Types
    <3> HIDE DEF ids, k
    <3>6. Len(LiveRob) = 0
      BY <1>5, <3>4, <3>5
    <3> QED
      <4>1. get_size(s) = 0
        BY <1>1, <3>2, <3>3
      <4>2. PICK z \in Nat : z = 0 /\ Live = z /\ Len(LiveRob) = z
        BY <3>4, <3>6
      <4>3. 1 .. z = {} /\ z \in 0 .. z
        BY <4>2
      <4> QED
        BY <4>1, <4>2, <4>3, Zenon
  <2>3. CASE cur_state # "normal"
    <3>1. Founded(rob, rob_q) /\ rob_q \in Seq(RingRequest(n, Entry))
      BY <2>3 DEF RingsOK, Types
    <3>2. Shorter(rob, s, k, n)
      <4>1. Pops = PopsIn(rob_q)
        BY DEF Pops, PopsIn
      <4> QED
        BY <1>1, <1>5, <3>1, <4>1, Sizes, DeadIsNone, RingShorter DEF SyncedRob
    <3>3. PICK id \in RobId : id = restore_rob_item_id /\ At(s, id) <= get_size(s)
      <4>1. restore_rob_item_id \in RobId /\ check_id_valid(s, restore_rob_item_id)
        BY <1>1, <2>3 DEF WalkOK, Types
      <4> QED
        BY <4>1, Sizes, ValidIs
    <3>4. Live = At(s, id) /\ Live \in 1 .. n /\ Place(s, Live) = id
      BY <1>1, <2>3, <3>3, Sizes, PlaceAt DEF Live
    <3>5. k \in 0 .. get_size(rob) /\ get_size(s) = get_size(rob) - k
          /\ \A i \in 1 .. n - k : Place(s, i) = Place(rob, i + k)
      BY <3>2 DEF Shorter
    <3> HIDE DEF k
    <3>6. Live \in 1 .. n - k /\ Live + k \in 1 .. get_size(rob) /\ Live \in 1 .. get_size(s)
      BY <1>2, <1>5, <3>3, <3>4, <3>5
    <3>7. At(rob, id) = Live + k
      <4>1. id = Place(rob, Live + k) /\ Live + k \in 1 .. n
        BY <1>2, <1>5, <3>4, <3>5, <3>6
      <4> QED
        BY <1>5, <4>1, Sizes, AtPlace
    <3>8. 1 + ((id + ROB_SIZE - rob.rptr) % ROB_SIZE) = At(rob, id)
      <4>1. rob.rptr \in 0 .. n - 1 /\ id \in 0 .. n - 1 /\ SizeOf(rob) = n
        BY <1>5, Sizes, ShapeFacts
      <4>2. PICK x \in 0 .. 2 * n - 1 : x = id + n - rob.rptr
        BY <1>2, <4>1
      <4>3. x % n = IF x < n THEN x ELSE x - n
        BY <1>2, Remainder
      <4> QED
        BY <1>2, <4>1, <4>2, <4>3 DEF At
    <3>9. LiveRob = SubSeq(ids, k + 1, Live + k)
      BY <2>3, <3>3, <3>7, <3>8 DEF LiveRob, k
    <3> HIDE DEF ids
    <3>10. Len(LiveRob) = Live /\ \A i \in 1 .. Live : LiveRob[i] = ids[i + k]
      <4>1. PICK a \in Nat, b \in Nat : a = k + 1 /\ b = Live + k /\ b <= Len(ids) /\ a >= 1
        BY <1>2, <1>5, <3>5, <3>6
      <4>2. /\ Len(SubSeq(ids, a, b)) = IF a <= b THEN b - a + 1 ELSE 0
            /\ \A i \in 1 .. b - a + 1 : SubSeq(ids, a, b)[i] = ids[a + i - 1]
        BY <1>5, <4>1, SMTT(30)
      <4>3. b - a + 1 = Live /\ a <= b
        BY <1>2, <3>5, <3>6, <4>1
      <4>4. \A i \in 1 .. Live : a + i - 1 = i + k
        BY <1>2, <3>5, <3>6, <4>1
      <4> QED
        BY <3>9, <4>1, <4>2, <4>3, <4>4
    <3>11. ASSUME NEW i \in 1 .. Live
           PROVE  LiveRob[i] = Place(s, i)
      <4>1. i + k \in 1 .. get_size(rob) /\ i \in 1 .. n - k
        BY <1>2, <1>5, <3>5, <3>6
      <4> QED
        BY <1>5, <3>5, <3>10, <4>1
    <3> QED
      BY <3>6, <3>10, <3>11
  <2> QED
    BY <2>1, <2>2, <2>3 DEF Straight
<1>7. RefinedRob = [i \in 1 .. Live |-> RefinedItem(Place(s, i))]
  <2>1. RefinedRob = [i \in 1 .. Len(LiveRob) |-> RefinedItem(LiveRob[i])]
    BY DEF RefinedRob
  <2>2. 1 .. Len(LiveRob) = 1 .. Live /\ \A i \in 1 .. Live : RefinedItem(LiveRob[i]) = RefinedItem(Place(s, i))
    BY <1>6
  <2> QED
    BY <2>1, <2>2
<1> QED
  BY <1>1, <1>2, <1>3, <1>4, <1>6, <1>7 DEF RefinedFacts, Ent

\* The same of the next state.
LEMMA RefinedNext == Types' /\ RingsOK' /\ WalkOK' => RefinedFacts'
BY RefinedIs, PTL

\* What is known of a live entry, completed.
LEMMA KnownMore ==
  ASSUME Types, RingsOK, AnswersOK, Straight, NEW id \in RobId, Ent(id) \in Entry
  PROVE  /\ Known(id).new = Ent(id).new /\ Known(id).old = Ent(id).old
         /\ (\E x \in inflight : x.id = id) => Known(id).finish = "no"
         /\ Known(id).cp \in CpId \cup {NoId}
         /\ Known(id).finish \in Result \cup {"no"}
         /\ Known(id).finish = "miss" => Known(id).cp # NoId
<1>0. Ent(id) \in RobItem /\ get_item(SyncedRob, id) = Ent(id)
  BY DEF Entry, Ent
<1>1. DOMAIN Ent(id) = {"new", "old", "finish", "cp", "wrong"}
  BY <1>0 DEF RobItem
<1>2. Known(id).new = Ent(id).new /\ Known(id).old = Ent(id).old
  BY <1>0, <1>1 DEF Known, Straight
<1>3. /\ \A x \in inflight : x.id = id => Known(id).cp = x.cp /\ PacksOf(id) = {x}
      /\ \A k \in DOMAIN port : port[k].id = id =>
           Known(id).cp = port[k].cp /\ Known(id).finish = port[k].result /\ PacksOf(id) = {}
      /\ Ent(id) # Dead /\ Ent(id).finish # "no" => Known(id) = Ent(id) /\ PacksOf(id) = {}
      /\ \/ \E x \in inflight : x.id = id
         \/ \E k \in DOMAIN port : port[k].id = id
         \/ Ent(id) # Dead /\ Ent(id).finish # "no"
         \/ Ent(id) = Dead
  BY KnownIs
<1>4. Ent(id) # Dead
  BY DeadIsNone
<1>5. ASSUME NEW x \in inflight, x.id = id
      PROVE  Known(id).finish = "no" /\ Known(id).cp \in CpId \cup {NoId}
  <2>1. Ent(id).finish = "no" /\ \A i \in DOMAIN port : port[i].id # id
    BY <1>5, AnswersIs DEF Unanswered
  <2>2. AnswersOf(id) = {} /\ PacksOf(id) # {}
    BY <1>5, <2>1 DEF AnswersOf, PacksOf
  <2>3. Known(id) = [Ent(id) EXCEPT !.cp = (CHOOSE pack \in PacksOf(id) : TRUE).cp]
    BY <1>0, <2>2 DEF Known, Straight
  <2>4. Known(id).finish = "no"
    BY <1>0, <2>1, <2>3 DEF RobItem
  <2>5. x.cp \in CpId \cup {NoId}
    BY DEF Types, Sent, Pack
  <2> QED
    BY <1>3, <1>5, <2>4, <2>5
<1>6. ASSUME NEW k \in DOMAIN port, port[k].id = id
      PROVE  /\ Known(id).cp \in CpId \cup {NoId} /\ Known(id).finish \in Result \cup {"no"}
             /\ Known(id).finish = "miss" => Known(id).cp # NoId
  <2>1. port[k] \in Reply
    BY UnitIds
  <2> QED
    BY <1>3, <1>6, <2>1 DEF Reply, Answer
<1>7. ASSUME Ent(id).finish # "no"
      PROVE  /\ Known(id).cp \in CpId \cup {NoId} /\ Known(id).finish \in Result \cup {"no"}
             /\ Known(id).finish = "miss" => Known(id).cp # NoId
  BY <1>0, <1>3, <1>4, <1>7 DEF Entry, RobItem
<1> QED
  BY <1>2, <1>3, <1>4, <1>5, <1>6, <1>7

\* In the walk back nothing is known of results and checkpoints.
LEMMA KnownBack ==
  ASSUME Types, cur_state # "normal", NEW id \in RobId, Ent(id) \in Entry
  PROVE  /\ Known(id).new = Ent(id).new /\ Known(id).old = Ent(id).old
         /\ Known(id).finish = "no" /\ Known(id).cp = NoId
         /\ RefinedItem(id) = [new |-> Ent(id).new, old |-> Ent(id).old, status |-> "waiting", cp |-> {}]
<1>0. Ent(id) \in RobItem /\ get_item(SyncedRob, id) = Ent(id)
  BY DEF Entry, Ent
<1>1. Known(id) = [Ent(id) EXCEPT !.finish = "no", !.cp = NoId]
  BY <1>0 DEF Known
<1>2. /\ Known(id).new = Ent(id).new /\ Known(id).old = Ent(id).old
      /\ Known(id).finish = "no" /\ Known(id).cp = NoId
  BY <1>0, <1>1 DEF RobItem
<1> QED
  BY <1>2 DEF RefinedItem, StatusOf

\* What is known depends on the entry, the packs and the answers alone.
LEMMA KnownKept ==
  ASSUME NEW id, cur_state' = cur_state, Ent(id)' = Ent(id),
         PacksOf(id)' = PacksOf(id), AnswersOf(id)' = AnswersOf(id)
  PROVE  Known(id)' = Known(id)
BY Zenon DEF Known, Ent

\* An entry whose answer and checkpoint stay looks the same to Renaming.
LEMMA ItemKept ==
  ASSUME NEW id, Known(id)' = Known(id), Known(id).cp # NoId => Shown(id)' = Shown(id)
  PROVE  RefinedItem(id)' = RefinedItem(id)
BY Zenon DEF RefinedItem, Shown

-----------------------------------------------------------------------------
(* What the invariant of Renaming says of the machine.                     *)

\* Renaming as the machine implements it, with what is proved of it.
RP == INSTANCE RenamingProofs
      WITH rat <- SyncedRat, data_valid <- SyncedData, rob <- RefinedRob

\* What Renaming assumes of the sizes is assumed of the machine's.
LEMMA RenamingAssumptions == RP!RatAssumption /\ RP!RobAssumption
BY RatAssumption, PipelineAssumption DEF RP!RatAssumption, RP!RobAssumption

\* Both modules take the alias table from Rat.
LEMMA SameTable ==
  /\ RP!Phy = Phy /\ RP!Arch = Arch /\ RP!NoPhy = NoPhy
  /\ \A r, a : RP!get_phy_id(r, a) = get_phy_id(r, a)
  /\ \A r, a, p : RP!set_map(r, a, p) = set_map(r, a, p)
  /\ \A r, p : RP!release_map(r, p) = release_map(r, p)
  /\ \A r, p : RP!commit_map(r, p) = commit_map(r, p)
  /\ \A r, p, q : RP!restore_map(r, p, q) = restore_map(r, p, q)
  /\ \A r, cp : RP!restore(r, cp) = restore(r, cp)
<1>1. RP!Phy = Phy /\ RP!Arch = Arch /\ RP!NoPhy = NoPhy
  BY DEF RP!Phy, RP!Arch, RP!NoPhy, Phy, Arch, NoPhy
<1>2. \A r, a : RP!get_phy_id(r, a) = get_phy_id(r, a)
  BY DEF RP!get_phy_id, get_phy_id
<1>3. \A r, a, p : RP!set_map(r, a, p) = set_map(r, a, p)
  BY <1>2 DEF RP!set_map, set_map
<1>4. \A r, p : RP!release_map(r, p) = release_map(r, p) /\ RP!commit_map(r, p) = commit_map(r, p)
  BY DEF RP!release_map, release_map, RP!commit_map, commit_map
<1>5. \A r, p, q : RP!restore_map(r, p, q) = restore_map(r, p, q)
  BY DEF RP!restore_map, restore_map
<1>6. \A r, cp : RP!restore(r, cp) = restore(r, cp)
  BY DEF RP!restore, restore
<1> QED
  BY <1>1, <1>2, <1>3, <1>4, <1>5, <1>6

\* No assertion of rat.h would fail after the requests that wait.
LEMMA TableFacts ==
  ASSUME RP!IInv
  PROVE  /\ SyncedRat \in RatType /\ SyncedRat.visible \subseteq SyncedRat.valid
         /\ SyncedData \subseteq SyncedRat.valid
         /\ \A a \in Arch : IsOne(get_phy_id(SyncedRat, a))
<1>1. RP!RatAssertsHold
  BY RP!InvMeansAsserts, RenamingAssumptions
<1>2. \A a \in Arch : IsOne(get_phy_id(SyncedRat, a))
  BY <1>1, SameTable DEF RP!RatAssertsHold, RP!IsOne, IsOne
<1>3. RP!TypeOK /\ RP!MappingsOK /\ RP!DataOK
  BY DEF RP!IInv
<1>4. SyncedRat \in RatType /\ Len(RefinedRob) \in Nat
  BY <1>3, SameTable DEF RP!TypeOK, RP!RatType, RatType
<1>5. SyncedRat.visible = RP!VisibleAt(Len(RefinedRob))
  BY <1>3 DEF RP!MappingsOK
<1>6. RP!VisibleAt(Len(RefinedRob)) \subseteq SyncedRat.valid
  BY <1>4, RP!VisibleIsValid, RenamingAssumptions
<1>7. SyncedData \subseteq SyncedRat.valid
  BY <1>3 DEF RP!DataOK
<1> QED
  BY <1>2, <1>4, <1>5, <1>6, <1>7

\* Nor would one of a retirement.
LEMMA HeadAsserts ==
  ASSUME RP!IInv, cur_state = "normal", RefinedRob # << >>, Head(RefinedRob).new # NoPhy
  PROVE  /\ release_map_asserts(SyncedRat, Head(RefinedRob).old)
         /\ commit_map_asserts(release_map(SyncedRat, Head(RefinedRob).old), Head(RefinedRob).new)
<1>1. RP!RatAssertsHold
  BY RP!InvMeansAsserts, RenamingAssumptions
<1>2. RP!NoPhy = NoPhy /\ \A r, p : RP!release_map(r, p) = release_map(r, p)
  BY SameTable
<1>3. /\ RP!release_map_asserts(SyncedRat, Head(RefinedRob).old)
      /\ RP!commit_map_asserts(RP!release_map(SyncedRat, Head(RefinedRob).old), Head(RefinedRob).new)
  BY <1>1, <1>2, Zenon DEF RP!RatAssertsHold
<1> QED
  BY <1>2, <1>3, Zenon DEF RP!release_map_asserts, release_map_asserts, RP!commit_map_asserts, commit_map_asserts

\* Nor one of the walk back.
LEMMA LastAsserts ==
  ASSUME RP!IInv, cur_state # "normal", RefinedRob # << >>, NEW e, e = RefinedRob[Len(RefinedRob)],
         e.new # NoPhy
  PROVE  restore_map_asserts(SyncedRat, e.new, e.old)
<1>1. RP!RatAssertsHold
  BY RP!InvMeansAsserts, RenamingAssumptions
<1>2. RP!NoPhy = NoPhy
  BY SameTable
<1>3. RP!restore_map_asserts(SyncedRat, e.new, e.old)
  BY <1>1, <1>2, Zenon DEF RP!RatAssertsHold, RP!Last
<1> QED
  BY <1>3, Zenon DEF RP!restore_map_asserts, restore_map_asserts

\* A checkpoint shows one register per architectural register, and not the
\* one its branch hides.
LEMMA CheckpointFacts ==
  ASSUME RP!IInv, NEW j \in 1 .. Len(RefinedRob), RefinedRob[j].cp # {}
  PROVE  /\ RefinedRob[j].old \notin RefinedRob[j].cp
         /\ Cardinality(RefinedRob[j].cp) = ARCH_REG_NUM - 1
<1> DEFINE S == RefinedRob[j].cp
<1>1. RP!TypeOK /\ RP!CheckpointsOK /\ RP!MappingsOK
  BY DEF RP!IInv
<1>2. S = RP!VisibleAt(j)
  BY <1>1 DEF RP!CheckpointsOK
<1>3. Len(RefinedRob) \in Nat
  BY <1>1 DEF RP!TypeOK
<1>4. RefinedRob[j].old \notin S
  <2>1. j \in Nat /\ j \in 1 .. j
    BY <1>3
  <2> QED
    BY <1>2, <2>1, RP!OldIsNotYounger, RenamingAssumptions
<1>5. RP!OnePerArch(S)
  <2>1. j \in 0 .. Len(RefinedRob)
    BY <1>3
  <2> QED
    BY <1>1, <1>2, <2>1 DEF RP!MappingsOK
<1> HIDE DEF S
<1>6. /\ \A a \in Arch : \E p \in S : \A q \in S : SyncedRat.table[q] = a <=> q = p
      /\ \A q \in S : SyncedRat.table[q] \in Arch
  BY <1>5, SameTable DEF RP!OnePerArch
<1> DEFINE f == [q \in S |-> SyncedRat.table[q]]
<1>7. f \in Bijection(S, Arch)
  <2>1. f \in [S -> Arch]
    BY <1>6
  <2>2. \A a, b \in S : f[a] = f[b] => a = b
    BY <1>6
  <2>3. \A a \in Arch : \E p \in S : f[p] = a
    BY <1>6
  <2> HIDE DEF f
  <2>4. f \in Injection(S, Arch)
    BY <2>1, <2>2 DEF Injection, IsInjective
  <2>5. f \in Surjection(S, Arch)
    BY <2>1, <2>3 DEF Surjection
  <2> QED
    BY <2>4, <2>5 DEF Bijection
<1>8. IsFiniteSet(Arch) /\ Cardinality(Arch) = ARCH_REG_NUM - 1
  <2>1. PICK b \in Nat \ {0} : b = ARCH_REG_NUM - 1
    BY RatAssumption
  <2>2. IsFiniteSet(1 .. b) /\ Cardinality(1 .. b) = b
    <3>1. /\ IsFiniteSet(1 .. b)
          /\ Cardinality(1 .. b) = IF 1 > b THEN 0 ELSE b - 1 + 1
      <4>1. 1 \in Int /\ b \in Int
        OBVIOUS
      <4> QED
        BY <4>1, FS_Interval, Zenon
    <3> QED
      BY <3>1
  <2> QED
    BY <2>1, <2>2 DEF Arch
<1> HIDE DEF f
<1>9. Cardinality(S) = Cardinality(Arch)
  <2>1. IsFiniteSet(S)
    <3>1. S \subseteq Phy
      <4>1. RefinedRob[j] \in RP!Item
        BY <1>1 DEF RP!TypeOK
      <4> QED
        BY <4>1, SameTable DEF RP!Item, S
    <3>2. IsFiniteSet(Phy)
      BY RatAssumption, FS_Interval DEF Phy
    <3> QED
      BY <3>1, <3>2, FS_Subset
  <2> QED
    BY <1>7, <2>1, FS_Bijection DEF ExistsBijection
<1> QED
  BY <1>4, <1>8, <1>9 DEF S

-----------------------------------------------------------------------------
(* What the requests that wait have to agree on.                           *)

\* The table as the group sees it, and the registers it has been given.
GroupTable == MapsAfter(rat, rat_q)
Given      == {rat_q[k].phy : k \in GroupMaps}

\* The group sees the mapping the requests will leave, and takes registers
\* that are free by then.
MapsOK ==
  Straight =>
    /\ GroupTable.visible = SyncedRat.visible
    /\ \A p \in SyncedRat.visible : GroupTable.table[p] = SyncedRat.table[p]
    /\ SyncedRat.valid \subseteq GroupTable.valid
    /\ GroupTable.valid = rat.valid \cup Given
    /\ \A rd \in Arch : OldPhy(rd) = get_phy_id(GroupTable, rd)
    /\ \A k \in GroupMaps :
         rat_q[k].phy \in free_phy /\ Cardinality(Below(rat_q[k].phy)) < Cardinality(GroupMaps)

\* The checkpoint of a branch has been filled in, with what its branch hides.
Saved(id) ==
  Known(id).cp # NoId =>
    /\ Shown(id).visible # {}
    /\ Known(id).old # NoPhy => Known(id).old \in Shown(id).valid

\* While nothing is flushed, every live branch has its checkpoint filled in.
SavedOK == Straight => \A i \in 1 .. get_size(SyncedRob) : Saved(Place(SyncedRob, i))

\* The inductive invariant of the machine together with what Renaming sees.
Whole == IInv /\ RP!IInv /\ MapsOK /\ SavedOK /\ RequestsLegal

\* What Renaming sees of an entry stays.
Kept(id) == Known(id)' = Known(id) /\ (Known(id).cp # NoId => Shown(id)' = Shown(id))

\* A kept entry looks the same to Renaming, and its checkpoint stays filled.
LEMMA SavedKept ==
  ASSUME NEW id, Kept(id)
  PROVE  RefinedItem(id)' = RefinedItem(id) /\ (Saved(id) => Saved(id)')
<1>1. Known(id)' = Known(id) /\ (Known(id).cp # NoId => Shown(id)' = Shown(id))
  BY DEF Kept
<1>2. RefinedItem(id)' = RefinedItem(id)
  BY <1>1, ItemKept
<1>3. ASSUME Saved(id) PROVE Saved(id)'
  BY <1>1, <1>3, Zenon DEF Saved
<1> QED
  BY <1>2, <1>3

\* If every live entry is kept, so is the refined buffer and what is saved.
LEMMA SameEntries ==
  ASSUME RefinedFacts, RefinedFacts', Live' = Live, get_size(SyncedRob') = get_size(SyncedRob),
         \A i \in 1 .. get_size(SyncedRob) :
           \E id : id = Place(SyncedRob, i) /\ id = Place(SyncedRob', i) /\ Kept(id)
  PROVE  RefinedRob' = RefinedRob /\ (Straight /\ SavedOK => SavedOK')
<1>1. \A i \in 1 .. Live : i \in 1 .. get_size(SyncedRob)
  BY DEF RefinedFacts
<1>2. ASSUME NEW i \in 1 .. get_size(SyncedRob)
      PROVE  /\ RefinedItem(Place(SyncedRob, i))' = RefinedItem(Place(SyncedRob, i))
             /\ Saved(Place(SyncedRob, i)) => Saved(Place(SyncedRob, i))'
  <2>1. PICK id : id = Place(SyncedRob, i) /\ id = Place(SyncedRob', i) /\ Kept(id)
    OBVIOUS
  <2>2. RefinedItem(id)' = RefinedItem(id) /\ (Saved(id) => Saved(id)')
    BY <2>1, SavedKept
  <2> QED
    BY <2>1, <2>2
<1>3. RefinedRob = [i \in 1 .. Live |-> RefinedItem(Place(SyncedRob, i))]
  BY DEF RefinedFacts
<1>4. RefinedRob' = [i \in 1 .. Live |-> RefinedItem(Place(SyncedRob, i))']
  BY DEF RefinedFacts
<1>5. RefinedRob' = RefinedRob
  BY <1>1, <1>2, <1>3, <1>4
<1>6. ASSUME Straight, SavedOK
      PROVE  SavedOK'
  <2>1. \A i \in 1 .. get_size(SyncedRob) : Saved(Place(SyncedRob, i))
    BY <1>6 DEF SavedOK
  <2>2. \A i \in 1 .. get_size(SyncedRob)' : Saved(Place(SyncedRob, i))'
    BY <1>2, <2>1
  <2> QED
    BY <2>2 DEF SavedOK
<1> QED
  BY <1>5, <1>6

\* The checkpoints of the live entries are different ones, in their order.
LEMMA CpApart ==
  ASSUME IInv, Straight
  PROVE  /\ Stream \in Nat /\ get_size(SyncedRob) \in 0 .. Stream
         /\ \A i \in 1 .. get_size(SyncedRob) : LiveCheckpoints[i] = Known(Place(SyncedRob, i)).cp
         /\ \A i \in 1 .. Len(front) : get_size(SyncedRob) + i \in 1 .. Stream
                                        /\ LiveCheckpoints[get_size(SyncedRob) + i] = front[i].cp
         /\ \A i \in 1 .. Stream : LiveCheckpoints[i] # NoId =>
              /\ LiveCheckpoints[i] \in CpId /\ check_id_valid(SyncedCp, LiveCheckpoints[i])
              /\ At(SyncedCp, LiveCheckpoints[i]) \in 1 .. get_size(SyncedCp)
         /\ \A i, j \in 1 .. Stream : i < j /\ LiveCheckpoints[i] # NoId /\ LiveCheckpoints[j] # NoId =>
              At(SyncedCp, LiveCheckpoints[i]) < At(SyncedCp, LiveCheckpoints[j])
<1> DEFINE c == LiveCheckpoints
           m == Stream
           n == get_size(SyncedRob)
<1>0. Types /\ Turns /\ RingsOK /\ AnswersOK /\ LiveCheckpointsIntact
  BY DEF IInv
<1>1. n \in 0 .. ROB_SIZE /\ ROB_SIZE \in Nat /\ Len(front) \in Nat /\ m = n + Len(front) /\ m \in Nat
  BY StreamLength
<1>2. StreamFacts /\ FormFacts
  BY <1>0, StreamNow
<1>3. Intact(c, m, SyncedCp)
  BY <1>0, <1>2 DEF FormFacts
<1>4. \A i \in 1 .. Len(front) : c[n + i] = front[i].cp
  BY <1>2 DEF StreamFacts
<1>5. \A i \in 1 .. n : c[i] = Known(Place(SyncedRob, i)).cp
  <2> DEFINE a == [i \in 1 .. Len(LiveRob) |-> Known(LiveRob[i]).cp]
             b == [i \in 1 .. Len(front) |-> front[i].cp]
  <2>1. LiveCheckpoints = a \o b
    BY DEF LiveCheckpoints
  <2>2. Len(LiveRob) = n /\ \A i \in 1 .. n : LiveRob[i] = Place(SyncedRob, i)
    BY <1>0, LiveRobIs
  <2>3. Len(a) = n /\ Len(b) = Len(front) /\ \A i \in 1 .. n : a[i] = Known(Place(SyncedRob, i)).cp
    BY <1>1, <2>2
  <2> HIDE DEF a, b, n
  <2>4. \A i \in 1 .. n : (a \o b)[i] = a[i]
    BY <1>1, <2>3
  <2> QED
    BY <2>1, <2>3, <2>4
<1>6. PICK r \in Rings(CHECKPOINT_BUFFER_SIZE, CheckpointType) : r = SyncedCp
  BY <1>0, CpIs
<1> HIDE DEF c, m, n
<1>7. ASSUME NEW i \in 1 .. m, c[i] # NoId
      PROVE  /\ c[i] \in CpId /\ check_id_valid(r, c[i])
             /\ At(r, c[i]) = get_size(r) - Cardinality(Branches(c, i, m))
             /\ At(r, c[i]) \in 1 .. get_size(r)
  <2>1. /\ get_size(r) - Cardinality(Branches(c, i, m)) \in 1 .. get_size(r)
        /\ c[i] = Place(r, get_size(r) - Cardinality(Branches(c, i, m)))
        /\ c[i] \in 0 .. CHECKPOINT_BUFFER_SIZE - 1 /\ check_id_valid(r, c[i])
        /\ get_size(r) \in 1 .. CHECKPOINT_BUFFER_SIZE
    BY <1>1, <1>3, <1>6, <1>7, Sizes, IntactPlace
  <2>2. PICK k \in 1 .. CHECKPOINT_BUFFER_SIZE : k = get_size(r) - Cardinality(Branches(c, i, m))
    BY <2>1, Sizes
  <2>3. At(r, Place(r, k)) = k
    BY Sizes, AtPlace
  <2> QED
    BY <2>1, <2>2, <2>3, Sizes
<1>8. ASSUME NEW i \in 1 .. m, NEW j \in 1 .. m, i < j, c[i] # NoId, c[j] # NoId
      PROVE  At(r, c[i]) < At(r, c[j])
  <2> DEFINE B == Branches(c, j, m)
             D == Branches(c, i, m)
  <2>1. j \notin B /\ B \cup {j} \subseteq D
    BY <1>1, <1>8 DEF Branches
  <2>2. IsFiniteSet(B) /\ IsFiniteSet(D) /\ Cardinality(B) \in Nat /\ Cardinality(D) \in Nat
    BY <1>1, BranchesIs
  <2> HIDE DEF B, D
  <2>3. Cardinality(B \cup {j}) = Cardinality(B) + 1
    BY <2>1, <2>2, FS_AddElement
  <2>4. Cardinality(B) + 1 <= Cardinality(D)
    BY <2>1, <2>2, <2>3, FS_Subset
  <2>5. At(r, c[i]) = get_size(r) - Cardinality(D) /\ At(r, c[j]) = get_size(r) - Cardinality(B)
    BY <1>7, <1>8 DEF B, D
  <2>6. get_size(r) \in Nat
    BY <1>6, Sizes, SizeIs
  <2> QED
    BY <2>2, <2>4, <2>5, <2>6
<1>9. /\ \A i \in 1 .. n : c[i] = Known(Place(SyncedRob, i)).cp
      /\ \A i \in 1 .. Len(front) : n + i \in 1 .. m /\ c[n + i] = front[i].cp
      /\ m \in Nat /\ n \in 0 .. m
  BY <1>1, <1>4, <1>5 DEF c, m, n
<1>10. /\ \A i \in 1 .. m : c[i] # NoId =>
            c[i] \in CpId /\ check_id_valid(r, c[i]) /\ At(r, c[i]) \in 1 .. get_size(r)
       /\ \A i, j \in 1 .. m : i < j /\ c[i] # NoId /\ c[j] # NoId => At(r, c[i]) < At(r, c[j])
  BY <1>7, <1>8
<1> QED
  BY <1>6, <1>9, <1>10, Zenon DEF c, m, n

\* A request that is legal after the others may join the queue.
LEMMA LegalAppend ==
  ASSUME Types, NEW q \in Seq(RatRequest),
         \A i \in 1 .. Len(q) : Legal(RatAfter(rat, SubSeq(q, 1, i - 1)), q[i]),
         NEW x \in RatRequest, Legal(RatAfter(rat, q), x)
  PROVE  /\ Append(q, x) \in Seq(RatRequest)
         /\ RatAfter(rat, Append(q, x)) = ApplyRat(RatAfter(rat, q), x)
         /\ \A i \in 1 .. Len(Append(q, x)) :
              Legal(RatAfter(rat, SubSeq(Append(q, x), 1, i - 1)), Append(q, x)[i])
<1> DEFINE p == Append(q, x)
<1>1. /\ Len(p) = Len(q) + 1 /\ Len(q) \in Nat /\ p[Len(q) + 1] = x /\ p \in Seq(RatRequest)
      /\ \A k \in 1 .. Len(q) : p[k] = q[k] /\ SubSeq(p, 1, k - 1) = SubSeq(q, 1, k - 1)
      /\ SubSeq(p, 1, Len(q)) = q
  OBVIOUS
<1>2. RatAfter(rat, p) = ApplyRat(RatAfter(rat, q), x)
  BY RatAfterAppend
<1> HIDE DEF p
<1>3. ASSUME NEW i \in 1 .. Len(p)
      PROVE  Legal(RatAfter(rat, SubSeq(p, 1, i - 1)), p[i])
  <2>1. CASE i \in 1 .. Len(q)
    BY <1>1, <2>1
  <2>2. CASE i = Len(q) + 1
    <3>1. i - 1 = Len(q)
      BY <1>1, <2>2
    <3> QED
      BY <1>1, <2>2, <3>1
  <2> QED
    BY <1>1, <2>1, <2>2
<1> QED
  BY <1>1, <1>2, <1>3 DEF p

-----------------------------------------------------------------------------
(* Each step of the machine is one of Renaming, or none.                   *)

\* The walk back sees the entries alone.
BackFacts ==
  cur_state # "normal" => \A id \in RobId : Ent(id) \in Entry =>
    RefinedItem(id) = [new |-> Ent(id).new, old |-> Ent(id).old, status |-> "waiting", cp |-> {}]

\* The types are enough for that.
LEMMA BackNow == Types => BackFacts
BY KnownBack DEF BackFacts

\* The same after a step.
LEMMA BackNext == Types' => BackFacts'
BY BackNow, PTL

\* What Renaming sees of an entry while nothing is flushed.
SeenFacts ==
  \A id \in RobId : Ent(id) \in Entry =>
    /\ RefinedItem(id) = [new |-> Ent(id).new, old |-> Ent(id).old,
                          status |-> StatusOf(Known(id).finish),
                          cp |-> IF Known(id).cp = NoId THEN {} ELSE Shown(id).visible]
    /\ (\E x \in inflight : x.id = id) => Known(id).finish = "no"
    /\ Known(id).cp \in CpId \cup {NoId}
    /\ Known(id).finish \in Result \cup {"no"}
    /\ Known(id).finish = "miss" => Known(id).cp # NoId
    /\ Known(id).old = Ent(id).old /\ Known(id).new = Ent(id).new
    /\ Ent(id).finish # "no" => Known(id) = Ent(id)

\* The rings and the answers give this.
LEMMA SeenNow == Types /\ RingsOK /\ AnswersOK /\ Straight => SeenFacts
<1> SUFFICES ASSUME Types, RingsOK, AnswersOK, Straight, NEW id \in RobId, Ent(id) \in Entry
             PROVE  /\ RefinedItem(id) = [new |-> Ent(id).new, old |-> Ent(id).old,
                                          status |-> StatusOf(Known(id).finish),
                                          cp |-> IF Known(id).cp = NoId THEN {} ELSE Shown(id).visible]
                    /\ (\E x \in inflight : x.id = id) => Known(id).finish = "no"
                    /\ Known(id).cp \in CpId \cup {NoId}
                    /\ Known(id).finish \in Result \cup {"no"}
                    /\ Known(id).finish = "miss" => Known(id).cp # NoId
                    /\ Known(id).old = Ent(id).old /\ Known(id).new = Ent(id).new
                    /\ Ent(id).finish # "no" => Known(id) = Ent(id)
  BY DEF SeenFacts
<1>1. /\ Known(id).new = Ent(id).new /\ Known(id).old = Ent(id).old
      /\ (\E x \in inflight : x.id = id) => Known(id).finish = "no"
      /\ Known(id).cp \in CpId \cup {NoId}
      /\ Known(id).finish \in Result \cup {"no"}
      /\ Known(id).finish = "miss" => Known(id).cp # NoId
  BY KnownMore
<1>2. Ent(id).finish # "no" => Known(id) = Ent(id)
  BY KnownIs, DeadIsNone
<1>3. RefinedItem(id) = [new |-> Known(id).new, old |-> Known(id).old,
                         status |-> StatusOf(Known(id).finish),
                         cp |-> IF Known(id).cp = NoId THEN {} ELSE Shown(id).visible]
  BY DEF RefinedItem, Shown
<1> QED
  BY <1>1, <1>2, <1>3

\* The same after a step.
LEMMA SeenNext == Types' /\ RingsOK' /\ AnswersOK' /\ Straight' => SeenFacts'
BY SeenNow, PTL

\* The refined buffer is a sequence.
LEMMA RefinedSeq ==
  ASSUME RP!IInv, RefinedFacts
  PROVE  /\ RefinedRob \in Seq(RP!Item) /\ Len(RefinedRob) = Live /\ Live \in Nat
         /\ \A i \in 1 .. Live : RefinedRob[i] = RefinedItem(Place(SyncedRob, i))
<1>1. RefinedRob \in Seq(RP!Item)
  BY DEF RP!IInv, RP!TypeOK
<1>2. Live \in Nat /\ RefinedRob = [i \in 1 .. Live |-> RefinedItem(Place(SyncedRob, i))]
  BY DEF RefinedFacts
<1> QED
  BY <1>1, <1>2

\* The entry commit looks at is the oldest one Renaming has.
LEMMA HeadItem ==
  ASSUME IInv, RP!IInv, Looking
  PROVE  /\ Straight /\ SeenFacts /\ RefinedFacts
         /\ Live = get_size(SyncedRob) /\ Live \in 1 .. ROB_SIZE /\ Len(RefinedRob) = Live
         /\ RefinedRob # << >> /\ Head(RefinedRob) = RefinedRob[1]
         /\ Head(RefinedRob).new = rob_item.new /\ Head(RefinedRob).old = rob_item.old
         /\ rob_item.finish # "no" =>
              /\ Known(current_id) = rob_item
              /\ Head(RefinedRob).status = StatusOf(rob_item.finish)
              /\ Head(RefinedRob).cp = IF rob_item.cp = NoId THEN {}
                                       ELSE get_item(checkpoint_buffer, rob_item.cp).visible
<1>0. Types /\ Turns /\ RingsOK /\ WalkOK /\ AnswersOK
  BY DEF IInv
<1>1. /\ Straight /\ get_size(SyncedRob) \in 1 .. ROB_SIZE /\ current_id \in RobId
      /\ Place(SyncedRob, 1) = current_id /\ Ent(current_id) = rob_item /\ rob_item \in Entry
      /\ SyncedCp = checkpoint_buffer
  BY <1>0, HeadIs
<1>2. RefinedFacts /\ SeenFacts
  BY <1>0, <1>1, RefinedIs, SeenNow
<1>3. Live = get_size(SyncedRob)
  BY <1>1 DEF Live, Straight
<1>4. /\ RefinedRob \in Seq(RP!Item) /\ Len(RefinedRob) = Live
      /\ \A i \in 1 .. Live : RefinedRob[i] = RefinedItem(Place(SyncedRob, i))
  BY <1>2, RefinedSeq
<1>5. RefinedRob # << >> /\ Head(RefinedRob) = RefinedRob[1] /\ RefinedRob[1] = RefinedItem(current_id)
  BY <1>1, <1>3, <1>4, Sizes
<1>6. /\ RefinedItem(current_id) = [new |-> rob_item.new, old |-> rob_item.old,
                          status |-> StatusOf(Known(current_id).finish),
                          cp |-> IF Known(current_id).cp = NoId THEN {} ELSE Shown(current_id).visible]
      /\ rob_item.finish # "no" => Known(current_id) = rob_item
  BY <1>1, <1>2 DEF SeenFacts
<1>7. rob_item.finish # "no" => Shown(current_id) = get_item(checkpoint_buffer, rob_item.cp)
  BY <1>1, <1>6 DEF Shown
<1>8. Head(RefinedRob) = RefinedItem(current_id)
  BY <1>5
<1>9. Head(RefinedRob).new = rob_item.new /\ Head(RefinedRob).old = rob_item.old
  BY <1>6, <1>8
<1>10. ASSUME rob_item.finish # "no"
       PROVE  /\ Head(RefinedRob).status = StatusOf(rob_item.finish)
              /\ Head(RefinedRob).cp = IF rob_item.cp = NoId THEN {}
                                       ELSE get_item(checkpoint_buffer, rob_item.cp).visible
  <2>1. /\ Known(current_id).finish = rob_item.finish /\ Known(current_id).cp = rob_item.cp
        /\ Shown(current_id).visible = get_item(checkpoint_buffer, rob_item.cp).visible
    BY <1>6, <1>7, <1>10
  <2> QED
    BY <1>6, <1>8, <2>1
<1> QED
  BY <1>1, <1>2, <1>3, <1>4, <1>5, <1>6, <1>9, <1>10

\* An exception or an interrupt is one of Renaming.
LEMMA FlushSimulated ==
  ASSUME Whole, IInv', Looking, NEW state \in {"flush", "interrupt_flush"}, StartWalkBack(state),
         state = "flush" => rob_item.finish = "exception"
  PROVE  [RP!Next]_(RP!vars) /\ MapsOK' /\ SavedOK' /\ RequestsLegal'
<1> USE DEF StartWalkBack, CommitEnds, machine, queues, fetcher, units
<1>0. IInv /\ RP!IInv /\ RequestsLegal /\ Types /\ Turns /\ RingsOK /\ Types' /\ RingsOK' /\ WalkOK'
  BY DEF Whole, IInv
<1>1. /\ Straight /\ SeenFacts /\ RefinedFacts
      /\ Live = get_size(SyncedRob) /\ Live \in 1 .. ROB_SIZE /\ Len(RefinedRob) = Live
      /\ RefinedRob # << >>
      /\ rob_item.finish # "no" => Head(RefinedRob).status = StatusOf(rob_item.finish)
  BY <1>0, HeadItem
<1>2. SyncedRat' = SyncedRat /\ SyncedData' = SyncedData /\ SyncedRob' = SyncedRob /\ \A id : Ent(id)' = Ent(id)
  BY DEF SyncedRat, SyncedData, SyncedRob, Ent
<1>3. RefinedFacts' /\ BackFacts'
  BY <1>0, RefinedNext, BackNext
<1>4. Live' = Live
  <2>1. PICK s \in Rings(ROB_SIZE, Entry) : s = SyncedRob /\ s.wptr = rob.wptr
    BY <1>0, RobIs
  <2>2. get_tail_id(s) = get_tail_id(rob)
    BY <1>0, <2>1, Sizes, ShapeFacts DEF get_tail_id, Types
  <2>3. ~is_empty(s)
    BY <1>1, <2>1, Sizes, SizeIs
  <2>4. At(s, get_tail_id(s)) = get_size(s)
    BY <2>1, <2>3, Sizes, TailIs
  <2>5. Live' = At(s, get_tail_id(rob))
    BY <1>2, <2>1 DEF Live
  <2> QED
    BY <1>1, <2>1, <2>2, <2>4, <2>5
<1>7. cur_state = "normal" /\ cur_state' = state
  BY <1>1 DEF Straight
<1>5. ASSUME NEW i \in 1 .. Live
      PROVE  RefinedRob'[i] = [RefinedRob[i] EXCEPT !.status = "waiting", !.cp = {}]
  <2>1. i \in 1 .. ROB_SIZE /\ i \in 1 .. get_size(SyncedRob) /\ ROB_SIZE \in Nat
    BY <1>1, Sizes
  <2>2. PICK id \in RobId : id = Place(SyncedRob, i) /\ Ent(id) \in Entry
    BY <1>1, <2>1 DEF RefinedFacts
  <2>3. RefinedRob[i] = [new |-> Ent(id).new, old |-> Ent(id).old,
                         status |-> StatusOf(Known(id).finish),
                         cp |-> IF Known(id).cp = NoId THEN {} ELSE Shown(id).visible]
    BY <1>1, <2>2 DEF RefinedFacts, SeenFacts
  <2>4. RefinedRob'[i] = RefinedItem(Place(SyncedRob, i))'
    BY <1>3, <1>4 DEF RefinedFacts
  <2>5. RefinedItem(Place(SyncedRob, i))' = RefinedItem(id)'
    BY <1>2, <2>2
  <2>6. RefinedItem(id)' = [new |-> Ent(id).new, old |-> Ent(id).old, status |-> "waiting", cp |-> {}]
    BY <1>2, <1>3, <1>7, <2>2 DEF BackFacts
  <2>7. PICK x, y, w, cp, s, t :
          /\ s = RefinedRob[i] /\ s = [new |-> x, old |-> y, status |-> w, cp |-> cp]
          /\ t = RefinedRob'[i] /\ t = [new |-> x, old |-> y, status |-> "waiting", cp |-> {}]
    BY <2>3, <2>4, <2>5, <2>6, Zenon
  <2> DEFINE u == [s EXCEPT !.status = "waiting", !.cp = {}]
             F == {"new", "old", "status", "cp"}
  <2>8. u["new"] = t["new"] /\ u["old"] = t["old"] /\ u["status"] = t["status"] /\ u["cp"] = t["cp"]
    BY <2>7
  <2>9. u = [f \in F |-> u[f]] /\ t = [f \in F |-> t[f]]
    BY <2>7
  <2> HIDE DEF u
  <2>10. \A f \in F : u[f] = t[f]
    BY <2>8
  <2> HIDE DEF F
  <2>11. u = t
    BY <2>9, <2>10
  <2> QED
    BY <2>7, <2>11 DEF u
<1>6. RefinedRob' = RP!Forgotten
  <2>1. RefinedRob' = [i \in 1 .. Live |-> RefinedItem(Place(SyncedRob, i))']
    BY <1>3, <1>4 DEF RefinedFacts
  <2>2. RP!Forgotten = [i \in 1 .. Live |-> [RefinedRob[i] EXCEPT !.status = "waiting", !.cp = {}]]
    BY <1>1 DEF RP!Forgotten
  <2>3. \A i \in 1 .. Live : RefinedItem(Place(SyncedRob, i))' = [RefinedRob[i] EXCEPT !.status = "waiting", !.cp = {}]
    BY <1>5, <2>1
  <2> QED
    BY <2>1, <2>2, <2>3, Zenon
<1>8. RP!Next
  <2>1. CASE state = "flush"
    <3>1. Head(RefinedRob).status = "exception"
      BY <1>1, <2>1 DEF StatusOf
    <3>2. RP!Exception
      BY <1>1, <1>2, <1>6, <1>7, <2>1, <3>1 DEF RP!Exception
    <3> QED
      BY <3>2 DEF RP!Next
  <2>2. CASE state = "interrupt_flush"
    <3>1. RP!Interrupt
      BY <1>1, <1>2, <1>6, <1>7, <2>2 DEF RP!Interrupt
    <3> QED
      BY <3>1 DEF RP!Next
  <2> QED
    BY <2>1, <2>2
<1>9. ~Straight'
  BY <1>7 DEF Straight
<1>10. RequestsLegal'
  BY <1>0 DEF RequestsLegal
<1> QED
  BY <1>8, <1>9, <1>10 DEF MapsOK, SavedOK

\* What a retirement asks for is what Renaming does, and legal.
LEMMA ReleasedEffect ==
  ASSUME Whole, Looking
  PROVE  /\ Released \in Seq(RatRequest) /\ Unwritten \in Seq(RegRequest)
         /\ RatAfter(rat, Released) = RP!Retired(Head(RefinedRob))
         /\ RegAfter(data_valid, Unwritten) = SyncedData \ {Head(RefinedRob).old}
         /\ MapsAfter(rat, Released) = GroupTable /\ MapsIn(Released) = {}
         /\ RatAfter(rat, Released).visible = SyncedRat.visible
         /\ RatAfter(rat, Released).valid \subseteq SyncedRat.valid
         /\ \A p \in SyncedRat.visible : RatAfter(rat, Released).table[p] = SyncedRat.table[p]
         /\ \A i \in 1 .. Len(Released) : Legal(RatAfter(rat, SubSeq(Released, 1, i - 1)), Released[i])
<1>0. /\ IInv /\ RP!IInv /\ RequestsLegal /\ Types /\ Turns /\ RingsOK
  BY DEF Whole, IInv
<1>1. /\ Straight /\ RefinedRob # << >>
      /\ Head(RefinedRob).new = rob_item.new /\ Head(RefinedRob).old = rob_item.old
  BY <1>0, HeadItem
<1>2. rob_item \in Entry /\ cur_state = "normal"
  BY <1>0, <1>1, HeadIs DEF Straight
<1>3. Released \in Seq(RatRequest) /\ Unwritten \in Seq(RegRequest) /\ MapsIn(Released) = {}
  BY <1>0, ReleasedIs
<1>4. SyncedRat \in RatType /\ SyncedData \subseteq Phy
  BY <1>0, RatTyped, RegTyped DEF Types, SyncedRat, SyncedData
<1>5. rat_q \in Seq(RatRequest) /\ reg_q \in Seq(RegRequest)
  BY <1>0 DEF Types
<1>6. \A i \in 1 .. Len(rat_q) : Legal(RatAfter(rat, SubSeq(rat_q, 1, i - 1)), rat_q[i])
  BY <1>0 DEF RequestsLegal
<1>7. NoPhy \notin Phy
  BY RatAssumption DEF NoPhy, Phy
<1>8. CASE rob_item.old = NoPhy
  <2>1. rob_item.new = NoPhy
    BY <1>2, <1>8 DEF Entry
  <2>2. Released = rat_q /\ Unwritten = reg_q
    BY <1>8 DEF Released, Unwritten
  <2>3. RatAfter(rat, Released) = SyncedRat /\ RegAfter(data_valid, Unwritten) = SyncedData
        /\ MapsAfter(rat, Released) = GroupTable
    BY <2>2 DEF SyncedRat, SyncedData, GroupTable
  <2>4. RP!Retired(Head(RefinedRob)) = SyncedRat
    BY <1>1, <2>1, SameTable DEF RP!Retired
  <2>5. SyncedData \ {Head(RefinedRob).old} = SyncedData
    BY <1>1, <1>4, <1>7, <1>8
  <2>6. RatAfter(rat, Released).valid \subseteq SyncedRat.valid
    BY <2>3
  <2> QED
    BY <1>3, <1>6, <2>2, <2>3, <2>4, <2>5, <2>6, Zenon
<1>9. CASE rob_item.old # NoPhy
  <2>1. rob_item.old \in Phy /\ rob_item.new \in Phy /\ rob_item.new # NoPhy
    BY <1>2, <1>7, <1>9 DEF Entry, RobItem
  <2>2. PICK old \in Phy, new \in Phy : old = rob_item.old /\ new = rob_item.new
    BY <2>1
  <2> DEFINE a == ReleaseMap(old)
             b == CommitMap(new)
             c == Write(old, FALSE)
             r == release_map(SyncedRat, old)
  <2>3. a \in RatRequest /\ b \in RatRequest /\ c \in RegRequest
    BY DEF RatRequest, RegRequest, ReleaseMap, CommitMap, Write
  <2>4. Released = rat_q \o <<a, b>> /\ Unwritten = Append(reg_q, c)
    BY <1>9, <2>2 DEF Released, Unwritten
  <2>5. /\ \A t : ApplyRat(t, a) = release_map(t, old) /\ ApplyRat(t, b) = commit_map(t, new)
        /\ \A t : ApplyMap(t, a) = t /\ ApplyMap(t, b) = t
        /\ \A d : ApplyReg(d, c) = d \ {old}
    BY DEF ApplyRat, ApplyMap, ApplyReg, ReleaseMap, CommitMap, Write
  <2>6. release_map_asserts(SyncedRat, old) /\ commit_map_asserts(r, new)
    BY <1>0, <1>1, <1>2, <2>1, <2>2, HeadAsserts
  <2>7. \A t : (Legal(t, a) <=> release_map_asserts(t, old)) /\ (Legal(t, b) <=> commit_map_asserts(t, new))
    BY DEF Legal, ReleaseMap, CommitMap
  <2> HIDE DEF a, b, c, r
  <2>8. Released = Append(Append(rat_q, a), b)
    BY <1>5, <2>3, <2>4
  <2>9. /\ Append(rat_q, a) \in Seq(RatRequest) /\ RatAfter(rat, Append(rat_q, a)) = r
        /\ \A i \in 1 .. Len(Append(rat_q, a)) :
             Legal(RatAfter(rat, SubSeq(Append(rat_q, a), 1, i - 1)), Append(rat_q, a)[i])
    <3>1. Legal(RatAfter(rat, rat_q), a)
      BY <2>6, <2>7 DEF SyncedRat
    <3>2. ApplyRat(RatAfter(rat, rat_q), a) = r
      BY <2>5 DEF SyncedRat, r
    <3> QED
      BY <1>0, <1>5, <1>6, <2>3, <3>1, <3>2, LegalAppend
  <2>10. /\ RatAfter(rat, Released) = commit_map(r, new)
         /\ \A i \in 1 .. Len(Released) : Legal(RatAfter(rat, SubSeq(Released, 1, i - 1)), Released[i])
    <3>1. PICK q \in Seq(RatRequest) : q = Append(rat_q, a)
      BY <2>9
    <3>2. Legal(RatAfter(rat, q), b)
      BY <2>6, <2>7, <2>9, <3>1
    <3>3. \A i \in 1 .. Len(q) : Legal(RatAfter(rat, SubSeq(q, 1, i - 1)), q[i])
      BY <2>9, <3>1
    <3>4. /\ RatAfter(rat, Append(q, b)) = ApplyRat(RatAfter(rat, q), b)
          /\ \A i \in 1 .. Len(Append(q, b)) :
               Legal(RatAfter(rat, SubSeq(Append(q, b), 1, i - 1)), Append(q, b)[i])
      BY <1>0, <2>3, <3>2, <3>3, LegalAppend
    <3>5. Released = Append(q, b) /\ RatAfter(rat, q) = r
      BY <2>8, <2>9, <3>1
    <3> QED
      BY <2>5, <3>4, <3>5
  <2>11. MapsAfter(rat, Released) = GroupTable
    <3>1. MapsAfter(rat, Append(rat_q, a)) = GroupTable
      BY <1>5, <2>3, <2>5, MapsAfterAppend DEF GroupTable
    <3>2. PICK q \in Seq(RatRequest) : q = Append(rat_q, a)
      BY <2>9
    <3>3. MapsAfter(rat, Append(q, b)) = ApplyMap(MapsAfter(rat, q), b)
      BY <2>3, MapsAfterAppend
    <3> QED
      BY <2>5, <2>8, <3>1, <3>2, <3>3
  <2>12. RegAfter(data_valid, Unwritten) = SyncedData \ {Head(RefinedRob).old}
    <3>1. RegAfter(data_valid, Unwritten) = ApplyReg(RegAfter(data_valid, reg_q), c)
      BY <1>5, <2>3, <2>4, RegAfterAppend
    <3> QED
      BY <1>1, <2>2, <2>5, <3>1 DEF SyncedData
  <2>13. RP!Retired(Head(RefinedRob)) = commit_map(r, new)
    BY <1>1, <2>1, <2>2, SameTable DEF RP!Retired, r
  <2>14. /\ commit_map(r, new).visible = SyncedRat.visible
         /\ commit_map(r, new).valid \subseteq SyncedRat.valid
         /\ \A p \in SyncedRat.visible : commit_map(r, new).table[p] = SyncedRat.table[p]
    <3>1. old \notin SyncedRat.visible
      BY <2>6 DEF release_map_asserts
    <3>2. /\ SyncedRat.table \in [Phy -> 0 .. ARCH_REG_NUM - 1] /\ SyncedRat.visible \subseteq Phy
          /\ SyncedRat = [table |-> SyncedRat.table, valid |-> SyncedRat.valid,
                          visible |-> SyncedRat.visible, commit |-> SyncedRat.commit]
      BY <1>4 DEF RatType
    <3>3. /\ r.visible = SyncedRat.visible /\ r.valid = SyncedRat.valid \ {old}
          /\ r.table = [SyncedRat.table EXCEPT ![old] = 0]
          /\ DOMAIN r = {"table", "valid", "visible", "commit"}
      BY <3>2 DEF r, release_map
    <3>4. /\ commit_map(r, new).visible = r.visible /\ commit_map(r, new).valid = r.valid
          /\ commit_map(r, new).table = r.table
      BY <3>3 DEF commit_map
    <3> QED
      BY <3>1, <3>2, <3>3, <3>4
  <2> QED
    BY <1>3, <2>10, <2>11, <2>12, <2>13, <2>14, Zenon
<1> QED
  BY <1>8, <1>9

\* The queue of mappings grows by nothing: the group sees what it saw.
LEMMA GroupStays ==
  ASSUME MapsOK, Straight, rat' = rat, MapsIn(rat_q) = {}, MapsIn(rat_q') = {},
         GroupTable' = GroupTable, SyncedRat'.visible = SyncedRat.visible,
         SyncedRat'.valid \subseteq SyncedRat.valid,
         \A p \in SyncedRat.visible : SyncedRat'.table[p] = SyncedRat.table[p]
  PROVE  MapsOK'
<1>1. GroupMaps = {} /\ GroupMaps' = {}
  BY GroupMapsIs, GroupMapsNext
<1>2. Given = {} /\ Given' = {}
  BY <1>1 DEF Given
<1>3. \A rd : OldPhy(rd) = get_phy_id(rat, rd) /\ OldPhy(rd)' = get_phy_id(rat, rd)
  BY <1>1 DEF OldPhy
<1>4. /\ GroupTable.visible = SyncedRat.visible
      /\ \A p \in SyncedRat.visible : GroupTable.table[p] = SyncedRat.table[p]
      /\ SyncedRat.valid \subseteq GroupTable.valid
      /\ GroupTable.valid = rat.valid \cup Given
      /\ \A rd \in Arch : OldPhy(rd) = get_phy_id(GroupTable, rd)
  BY Zenon DEF MapsOK
<1>5. /\ GroupTable'.visible = SyncedRat'.visible
      /\ \A p \in SyncedRat'.visible : GroupTable'.table[p] = SyncedRat'.table[p]
      /\ SyncedRat'.valid \subseteq GroupTable'.valid
      /\ GroupTable'.valid = rat'.valid \cup Given'
    BY <1>2, <1>4
<1>6. \A rd \in Arch : OldPhy(rd)' = get_phy_id(GroupTable', rd)
    BY <1>3, <1>4
<1> QED
  BY <1>1, <1>5, <1>6 DEF MapsOK

\* A retirement is one of Renaming.
LEMMA RetireSimulated ==
  ASSUME Whole, IInv', Retire
  PROVE  [RP!Next]_(RP!vars) /\ MapsOK' /\ SavedOK' /\ RequestsLegal'
<1>0. /\ IInv /\ RP!IInv /\ Types /\ Turns /\ RingsOK /\ AnswersOK /\ Types' /\ RingsOK' /\ WalkOK'
      /\ MapsOK /\ SavedOK
  BY DEF Whole, IInv
<1>1. /\ Looking /\ rob_item.finish \in {"ok", "jump", "hit"}
      /\ rat_q' = Released /\ reg_q' = Unwritten /\ cp_q' = GivenBack
      /\ rat' = rat /\ data_valid' = data_valid /\ checkpoint_buffer' = checkpoint_buffer
      /\ inflight' = inflight /\ port' = port /\ cur_state' = cur_state
      /\ feedback' = Reported
  BY DEF Retire, machine, walk, units
<1>2. /\ Straight /\ SeenFacts /\ RefinedFacts
      /\ Live = get_size(SyncedRob) /\ Live \in 1 .. ROB_SIZE /\ Len(RefinedRob) = Live
      /\ RefinedRob # << >> /\ Head(RefinedRob).status = StatusOf(rob_item.finish)
      /\ Known(current_id) = rob_item
  BY <1>0, <1>1, HeadItem
<1>3. PICK h \in RobId :
           /\ h = current_id /\ Place(SyncedRob, 1) = h /\ Ent(h) = rob_item
           /\ get_size(SyncedRob) \in 1 .. ROB_SIZE
           /\ get_size(SyncedRob') = get_size(SyncedRob) - 1
           /\ \A i \in 1 .. ROB_SIZE - 1 : Place(SyncedRob', i) = Place(SyncedRob, i + 1)
           /\ \A i \in 2 .. ROB_SIZE : Place(SyncedRob, i) \in RobId /\ Place(SyncedRob, i) # h
           /\ \A j \in RobId : j # h => Ent(j)' = Ent(j)
           /\ Ent(h)' = Dead
  BY <1>0, RetireEffect
<1>4. /\ SyncedRat' = RP!Retired(Head(RefinedRob))
      /\ SyncedData' = SyncedData \ {Head(RefinedRob).old}
      /\ GroupTable' = GroupTable /\ MapsIn(rat_q') = {}
      /\ SyncedRat'.visible = SyncedRat.visible
      /\ SyncedRat'.valid \subseteq SyncedRat.valid
      /\ \A p \in SyncedRat.visible : SyncedRat'.table[p] = SyncedRat.table[p]
      /\ RequestsLegal'
  BY <1>1, ReleasedEffect DEF SyncedRat, SyncedData, GroupTable, RequestsLegal
<1>5. RefinedFacts'
  BY <1>0, RefinedNext
<1>6. cur_state = "normal" /\ cur_state' = "normal"
  BY <1>1, <1>2 DEF Straight
<1>7. Live' = Live - 1
  BY <1>2, <1>3, <1>6 DEF Live
<1>8. ASSUME NEW i \in 2 .. Live, NEW id \in RobId, id = Place(SyncedRob, i)
      PROVE  Kept(id)
  <2>1. Ent(id)' = Ent(id)
    <3>1. i \in 2 .. ROB_SIZE
      BY <1>2, <1>8, Sizes
    <3>2. id # h
      BY <1>3, <1>8, <3>1
    <3> QED
      BY <1>3, <3>2
  <2>2. PacksOf(id)' = PacksOf(id) /\ AnswersOf(id)' = AnswersOf(id)
    BY <1>1 DEF PacksOf, AnswersOf
  <2>3. Known(id)' = Known(id)
    BY <1>1, <2>1, <2>2, KnownKept
  <2>4. ASSUME Known(id).cp # NoId
        PROVE  Shown(id)' = Shown(id)
    <3>1. CASE rob_item.finish = "hit"
      <4>1. PICK r \in Rings(CHECKPOINT_BUFFER_SIZE, CheckpointType) : r = SyncedCp
        BY <1>0, CpIs
      <4>2. LiveCheckpoints[1] # NoId /\ ~is_empty(r)
        <5>1. SyncedCp = checkpoint_buffer
          BY <1>0, <1>1, HeadIs
        <5> QED
          BY <1>0, <1>1, <3>1, <4>1, <5>1, HeadCheckpoint
      <4>3. LiveCheckpoints[i] = Known(id).cp /\ 1 \in 1 .. Stream /\ i \in 1 .. Stream /\ 1 < i
        <5>1. /\ Stream \in Nat /\ get_size(SyncedRob) \in 0 .. Stream
              /\ \A k \in 1 .. get_size(SyncedRob) : LiveCheckpoints[k] = Known(Place(SyncedRob, k)).cp
          BY <1>0, <1>2, CpApart
        <5>2. i \in 1 .. get_size(SyncedRob) /\ i \in 1 .. Stream /\ 1 \in 1 .. Stream /\ 1 < i
          BY <1>2, <5>1
        <5> QED
          BY <1>8, <5>1, <5>2
      <4>4. /\ Known(id).cp \in CpId /\ At(r, LiveCheckpoints[1]) \in 1 .. get_size(r)
            /\ At(r, LiveCheckpoints[1]) < At(r, Known(id).cp)
            /\ At(r, Known(id).cp) \in 1 .. get_size(r)
        BY <1>0, <1>2, <2>4, <4>1, <4>2, <4>3, CpApart
      <4>5. Known(id).cp # r.rptr
        <5>1. At(r, r.rptr) = 1 /\ get_size(r) \in Nat
          BY <4>1, Sizes, RptrIs, SizeIs
        <5> QED
          BY <4>4, <5>1
      <4>6. SyncedCp' = pop(r)
        <5>1. Pop \in RingRequest(CHECKPOINT_BUFFER_SIZE, CheckpointType) /\ Pop.op = "pop"
          BY DEF Pop, RingRequest
        <5>2. cp_q' = Append(cp_q, Pop)
          BY <1>1, <3>1 DEF GivenBack
        <5>3. cp_q \in Seq(RingRequest(CHECKPOINT_BUFFER_SIZE, CheckpointType))
          BY <1>0 DEF Types
        <5>4. RingAfter(checkpoint_buffer, Append(cp_q, Pop)) = ApplyRing(RingAfter(checkpoint_buffer, cp_q), Pop)
          BY <5>1, <5>3, RingAfterAppend
        <5> QED
          BY <1>1, <4>1, <5>1, <5>2, <5>4 DEF SyncedCp, ApplyRing
      <4>7. get_item(pop(r), Known(id).cp) = get_item(r, Known(id).cp)
        BY <4>1, <4>2, <4>4, <4>5, Sizes, PopItem
      <4> QED
        BY <2>3, <4>1, <4>6, <4>7 DEF Shown
    <3>2. CASE rob_item.finish # "hit"
      <4>1. SyncedCp' = SyncedCp
        BY <1>1, <3>2 DEF SyncedCp, GivenBack
      <4> QED
        BY <2>3, <4>1 DEF Shown
    <3> QED
      BY <3>1, <3>2
  <2> QED
    BY <2>3, <2>4 DEF Kept
<1>9. ASSUME NEW i \in 1 .. Live - 1
      PROVE  /\ RefinedItem(Place(SyncedRob, i))' = RefinedItem(Place(SyncedRob, i + 1))
             /\ Saved(Place(SyncedRob, i + 1)) => Saved(Place(SyncedRob, i))'
  <2>1. i + 1 \in 2 .. Live /\ i \in 1 .. ROB_SIZE - 1 /\ i + 1 \in 2 .. ROB_SIZE
    BY <1>2, Sizes
  <2>2. PICK id \in RobId : id = Place(SyncedRob, i + 1) /\ id = Place(SyncedRob', i)
    BY <1>3, <2>1
  <2>3. RefinedItem(id)' = RefinedItem(id) /\ (Saved(id) => Saved(id)')
    BY <1>8, <2>1, <2>2, SavedKept
  <2> QED
    BY <2>2, <2>3
<1>10. RefinedRob' = Tail(RefinedRob)
  <2>1. RefinedRob' = [i \in 1 .. Live - 1 |-> RefinedItem(Place(SyncedRob, i))']
    BY <1>5, <1>7 DEF RefinedFacts
  <2>2. RefinedRob' = [i \in 1 .. Live - 1 |-> RefinedItem(Place(SyncedRob, i + 1))]
    BY <1>9, <2>1
  <2>3. RefinedRob = [i \in 1 .. Live |-> RefinedItem(Place(SyncedRob, i))]
    BY <1>2 DEF RefinedFacts
  <2>4. PICK s \in Seq(RP!Item) : s = RefinedRob /\ Len(s) = Live
    BY <1>0, <1>2, RefinedSeq
  <2>5. Tail(s) = [i \in 1 .. Live - 1 |-> s[i + 1]]
    <3>1. Live \in Nat \ {0} /\ s # << >>
      BY <1>2, <2>4, Sizes
    <3>2. Len(Tail(s)) = Live - 1 /\ \A i \in 1 .. Live - 1 : Tail(s)[i] = s[i + 1]
      BY <2>4, <3>1
    <3>3. PICK t \in Seq(RP!Item) : t = Tail(s)
      BY <2>4, <3>1, HeadTailProperties
    <3>4. t = [i \in 1 .. Len(t) |-> t[i]]
      OBVIOUS
    <3> QED
      BY <3>2, <3>3, <3>4
  <2>6. \A i \in 1 .. Live - 1 : s[i + 1] = RefinedItem(Place(SyncedRob, i + 1))
    BY <1>2, <2>3, <2>4
  <2> QED
    BY <2>2, <2>4, <2>5, <2>6
<1>11. RP!Next
  <2>1. Head(RefinedRob).status = "done"
    BY <1>1, <1>2 DEF StatusOf
  <2>2. RP!CommitHead
    BY <1>2, <1>4, <1>6, <1>10, <2>1 DEF RP!CommitHead
  <2> QED
    BY <2>2 DEF RP!Next
<1>12. SavedOK'
  <2>1. \A i \in 1 .. get_size(SyncedRob) : Saved(Place(SyncedRob, i))
    BY <1>0, <1>2 DEF SavedOK
  <2>2. ASSUME NEW i \in 1 .. get_size(SyncedRob)'
        PROVE  Saved(Place(SyncedRob, i))'
    <3>1. i \in 1 .. Live - 1 /\ i + 1 \in 1 .. get_size(SyncedRob)
      BY <1>2, <1>3
    <3> QED
      BY <1>9, <2>1, <3>1
  <2> QED
    BY <2>2 DEF SavedOK
<1>13. MapsOK'
  <2>1. MapsIn(rat_q) = {}
    BY <1>0, <1>1, GroupMapsIs DEF Turns, Looking
  <2> QED
    BY <1>0, <1>1, <1>2, <1>4, <2>1, GroupStays
<1> QED
  BY <1>4, <1>11, <1>12, <1>13

\* A buffer that a flush has emptied has no live entries.
FlushedFacts ==
  cur_state = "normal" /\ flushing =>
    RefinedRob = << >> /\ Live = 0 /\ SyncedRob = rob /\ get_size(SyncedRob) = 0

\* The rings give this at once.
LEMMA FlushedNow == Types /\ RingsOK /\ WalkOK => FlushedFacts
<1> SUFFICES ASSUME Types, RingsOK, WalkOK, cur_state = "normal", flushing
             PROVE  RefinedRob = << >> /\ Live = 0 /\ SyncedRob = rob /\ get_size(SyncedRob) = 0
  BY DEF FlushedFacts
<1>1. is_empty(rob) /\ \A k \in DOMAIN rob_q : rob_q[k].op = "pop"
  BY DEF RingsOK
<1>2. SyncedRob = rob
  BY <1>1, EmptyPops DEF Types, SyncedRob
<1>3. get_size(rob) = 0
  BY <1>1, Sizes, SizeIs DEF Types
<1>4. Live = 0
  BY <1>2, <1>3 DEF Live
<1>5. RefinedRob = [i \in 1 .. Live |-> RefinedItem(Place(SyncedRob, i))]
  BY RefinedIs DEF RefinedFacts
<1>6. RefinedRob = << >>
  BY <1>4, <1>5
<1> QED
  BY <1>2, <1>3, <1>4, <1>6

\* The same of the next state.
LEMMA FlushedNext == Types' /\ RingsOK' /\ WalkOK' => FlushedFacts'
BY FlushedNow, PTL

\* A mispredicted branch is one of Renaming.
LEMMA MispredictSimulated ==
  ASSUME Whole, IInv', Mispredict
  PROVE  [RP!Next]_(RP!vars) /\ MapsOK' /\ SavedOK' /\ RequestsLegal'
<1>0. IInv /\ RP!IInv /\ Types /\ Turns /\ RingsOK /\ Types' /\ RingsOK' /\ WalkOK'
  BY DEF Whole, IInv
<1>1. /\ Looking /\ rob_item.finish = "miss"
      /\ rat_q' = Append(Released, Restore(restored_checkpoint))
      /\ reg_q' = Append(Unwritten, Restore(restored_checkpoint))
      /\ rat' = rat /\ data_valid' = data_valid /\ cur_state' = cur_state /\ feedback' = "flush_jump"
  BY DEF Mispredict, walk
<1>2. /\ Straight /\ RefinedRob # << >> /\ Head(RefinedRob).status = "missed"
      /\ Head(RefinedRob).cp = IF rob_item.cp = NoId THEN {} ELSE get_item(checkpoint_buffer, rob_item.cp).visible
  BY <1>0, <1>1, HeadItem DEF StatusOf
<1>3. cur_state = "normal" /\ cur_state' = "normal" /\ flushing'
  BY <1>1, <1>2 DEF Straight, flushing
<1>4. rob_item.cp \in CpId /\ get_item(checkpoint_buffer, rob_item.cp) \in CheckpointType
  BY <1>0, <1>1, HeadCheckpoint
<1>5. rob_item.cp # NoId
  BY <1>4, Sizes DEF NoId
<1>6. PICK c \in SUBSET Phy : c = get_item(checkpoint_buffer, rob_item.cp).visible
  BY <1>4 DEF CheckpointType
<1>7. Head(RefinedRob).cp = c /\ restored_checkpoint = [valid |-> c, visible |-> c, data_valid |-> c]
  BY <1>2, <1>5, <1>6 DEF restored_checkpoint
<1> DEFINE x == Restore(restored_checkpoint)
           cp == [valid |-> c, visible |-> c]
<1>8. /\ x \in RatRequest /\ x \in RegRequest
      /\ \A t : Legal(t, x) /\ ApplyRat(t, x) = restore(t, cp)
      /\ \A d : ApplyReg(d, x) = c
  <2>1. x = [op |-> "restore", cp |-> [valid |-> c, visible |-> c, data_valid |-> c]]
    BY <1>7 DEF Restore
  <2> HIDE DEF x
  <2>2. x \in RatRequest /\ x \in RegRequest
    BY <2>1 DEF RatRequest, RegRequest, Checkpoint
  <2>3. x.op = "restore" /\ x.cp.valid = c /\ x.cp.visible = c /\ x.cp.data_valid = c
    BY <2>1
  <2> QED
    BY <2>2, <2>3 DEF Legal, ApplyRat, ApplyReg, restore
<1> HIDE DEF x, cp
<1>9. PICK q \in Seq(RatRequest), u \in Seq(RegRequest) :
           /\ q = Released /\ u = Unwritten
           /\ RatAfter(rat, q) = RP!Retired(Head(RefinedRob))
           /\ \A i \in 1 .. Len(q) : Legal(RatAfter(rat, SubSeq(q, 1, i - 1)), q[i])
  BY <1>1, ReleasedEffect
<1>10. /\ RatAfter(rat, Append(q, x)) = restore(RP!Retired(Head(RefinedRob)), cp)
       /\ \A i \in 1 .. Len(Append(q, x)) :
            Legal(RatAfter(rat, SubSeq(Append(q, x), 1, i - 1)), Append(q, x)[i])
  BY <1>0, <1>8, <1>9, LegalAppend
<1>11. RegAfter(data_valid, Append(u, x)) = c
  <2>1. RegAfter(data_valid, Append(u, x)) = ApplyReg(RegAfter(data_valid, u), x)
    BY <1>8, <1>9, RegAfterAppend
  <2> QED
    BY <1>8, <2>1
<1>12. rat_q' = Append(q, x) /\ reg_q' = Append(u, x)
  BY <1>1, <1>9 DEF x
<1>13. SyncedRat' = restore(RP!Retired(Head(RefinedRob)), cp) /\ SyncedData' = c
  BY <1>1, <1>10, <1>11, <1>12 DEF SyncedRat, SyncedData
<1>14. RequestsLegal'
  BY <1>1, <1>10, <1>12 DEF RequestsLegal
<1>15. RefinedRob' = << >>
  BY <1>0, <1>3, FlushedNext DEF FlushedFacts
<1>16. RP!Mispredict
  <2>1. SyncedRat' = RP!restore(RP!Retired(Head(RefinedRob)),
                                [valid |-> Head(RefinedRob).cp, visible |-> Head(RefinedRob).cp])
    BY <1>7, <1>13, SameTable DEF cp
  <2> QED
    BY <1>2, <1>3, <1>7, <1>13, <1>15, <2>1 DEF RP!Mispredict
<1>17. ~Straight'
  BY <1>3 DEF Straight
<1> QED
  BY <1>14, <1>16, <1>17 DEF RP!Next, MapsOK, SavedOK

\* The predecessor of an entry is at the place before.
LEMMA PrevAt ==
  ASSUME NEW n \in Nat \ {0}, NEW T, NEW r \in Rings(n, T), NEW id \in 0 .. n - 1, At(r, id) # 1
  PROVE  prev_id(r, id) \in 0 .. n - 1 /\ At(r, prev_id(r, id)) = At(r, id) - 1
<1>1. r.rptr \in 0 .. n - 1 /\ SizeOf(r) = n
  BY ShapeFacts
<1>2. prev_id(r, id) = IF id = 0 THEN n - 1 ELSE id - 1
  <2>1. PICK x \in 0 .. 2 * n - 1 : x = id + n - 1
    OBVIOUS
  <2>2. x % n = IF x < n THEN x ELSE x - n
    BY Remainder
  <2> QED
    BY <1>1, <2>1, <2>2 DEF prev_id
<1> QED
  BY <1>1, <1>2 DEF At

\* An entry walked back is one of Renaming.
LEMMA WalkBackSimulated ==
  ASSUME Whole, IInv', WalkBack
  PROVE  [RP!Next]_(RP!vars) /\ MapsOK' /\ SavedOK' /\ RequestsLegal'
<1>0. /\ IInv /\ RP!IInv /\ Types /\ Turns /\ RingsOK /\ WalkOK /\ RequestsLegal
      /\ Types' /\ RingsOK' /\ WalkOK'
  BY DEF Whole, IInv
<1>1. stage = "commit" /\ cur_state # "normal"
  BY DEF WalkBack
<1>2. rob_q = << >> /\ rat_q = << >> /\ reg_q = << >>
  BY <1>0, <1>1 DEF Turns
<1>3. << >> \in Seq({0}) /\ 0 \in {0}
  OBVIOUS
<1>4. SyncedRob = rob /\ SyncedRat = rat /\ SyncedData = data_valid
  BY <1>2, <1>3, RingAfterAppend, RatAfterAppend, RegAfterAppend DEF SyncedRob, SyncedRat, SyncedData
<1>5. RefinedFacts /\ BackFacts /\ RefinedFacts'
  BY <1>0, RefinedIs, RefinedNext, BackNow
<1>6. PICK s \in Rings(ROB_SIZE, Entry) : s = rob
  BY <1>0 DEF Types
<1>7. PICK id \in RobId : id = restore_rob_item_id /\ check_id_valid(s, id) /\ rob_item_id = s.rptr
  BY <1>0, <1>1, <1>4, <1>6 DEF WalkOK, Types
<1>8. Live = At(s, id) /\ Live \in 1 .. get_size(s) /\ Place(s, Live) = id /\ get_size(s) \in 1 .. ROB_SIZE
  <2>1. At(s, id) \in 1 .. ROB_SIZE /\ Place(s, At(s, id)) = id /\ At(s, id) <= get_size(s)
    BY <1>7, Sizes, PlaceAt, ValidIs
  <2>2. get_size(s) \in 0 .. ROB_SIZE
    BY Sizes, SizeIs
  <2> QED
    BY <1>1, <1>4, <1>6, <1>7, <2>1, <2>2, Sizes DEF Live
<1>9. PICK item \in Entry : item = get_item(rob, id) /\ item = Ent(id)
  BY <1>0, <1>4, <1>6, <1>7, LiveIs DEF Ent
<1>10. /\ RefinedRob \in Seq(RP!Item) /\ Len(RefinedRob) = Live /\ Live \in Nat
       /\ \A i \in 1 .. Live : RefinedRob[i] = RefinedItem(Place(s, i))
  BY <1>0, <1>4, <1>5, <1>6, RefinedSeq
<1>11. RP!Last = RefinedItem(id) /\ RefinedItem(id).new = item.new /\ RefinedItem(id).old = item.old
  <2>1. RP!Last = RefinedRob[Live]
    BY <1>10 DEF RP!Last
  <2>2. RefinedRob[Live] = RefinedItem(id)
    BY <1>8, <1>10
  <2>3. RefinedItem(id) = [new |-> item.new, old |-> item.old, status |-> "waiting", cp |-> {}]
    BY <1>1, <1>5, <1>9 DEF BackFacts
  <2> QED
    BY <2>1, <2>2, <2>3
<1>12. RefinedRob # << >>
  BY <1>8, <1>10
<1>13. /\ rat_q' = IF item.old = NoPhy THEN << >> ELSE Append(<< >>, RestoreMap(item.new, item.old))
       /\ reg_q' = IF item.old = NoPhy THEN << >> ELSE Append(<< >>, Write(item.new, FALSE))
       /\ rat' = rat /\ data_valid' = data_valid /\ rob_q' = << >>
  BY <1>2, <1>7, <1>9 DEF WalkBack
<1>14. /\ SyncedRat' = IF item.new = NoPhy THEN rat ELSE restore_map(rat, item.new, item.old)
       /\ SyncedData' = data_valid \ {item.new}
       /\ RequestsLegal'
  <2>1. item.new = NoPhy <=> item.old = NoPhy
    BY DEF Entry
  <2>2. CASE item.old = NoPhy
    <3>1. NoPhy \notin data_valid
      BY <1>0, RatAssumption DEF Types, NoPhy, Phy
    <3>2. SyncedRat' = rat /\ SyncedData' = data_valid
      BY <1>3, <1>13, <2>2, RatAfterAppend, RegAfterAppend DEF SyncedRat, SyncedData
    <3>3. RequestsLegal'
      BY <1>13, <2>2 DEF RequestsLegal
    <3> QED
      BY <2>1, <2>2, <3>1, <3>2, <3>3
  <2>3. CASE item.old # NoPhy
    <3>1. item.old \in Phy /\ item.new \in Phy
      BY <2>1, <2>3 DEF Entry, RobItem
    <3> DEFINE x == RestoreMap(item.new, item.old)
               y == Write(item.new, FALSE)
    <3>2. /\ x \in RatRequest /\ y \in RegRequest
          /\ \A t : ApplyRat(t, x) = restore_map(t, item.new, item.old)
          /\ \A t : Legal(t, x) <=> restore_map_asserts(t, item.new, item.old)
          /\ \A d : ApplyReg(d, y) = d \ {item.new}
      BY <3>1 DEF RatRequest, RegRequest, RestoreMap, Write, ApplyRat, ApplyReg, Legal
    <3>3. restore_map_asserts(SyncedRat, item.new, item.old)
      <4>1. RefinedItem(id) = RefinedRob[Len(RefinedRob)] /\ RefinedItem(id).new # NoPhy
        BY <1>11, <2>1, <2>3 DEF RP!Last
      <4>2. restore_map_asserts(SyncedRat, RefinedItem(id).new, RefinedItem(id).old)
        BY <1>0, <1>1, <1>12, <4>1, LastAsserts
      <4> QED
        BY <1>11, <4>2
    <3> HIDE DEF x, y
    <3>4. PICK q \in Seq(RatRequest), u \in Seq(RegRequest) : q = << >> /\ u = << >>
      <4>1. << >> \in Seq(RatRequest) /\ << >> \in Seq(RegRequest)
        OBVIOUS
      <4> QED
        BY <4>1, Zenon
    <3>5. RatAfter(rat, q) = rat /\ RegAfter(data_valid, u) = data_valid
      BY <1>3, <3>4, RatAfterAppend, RegAfterAppend
    <3>6. Legal(RatAfter(rat, q), x)
      BY <1>4, <3>2, <3>3, <3>5
    <3>7. /\ RatAfter(rat, Append(q, x)) = ApplyRat(RatAfter(rat, q), x)
          /\ \A i \in 1 .. Len(Append(q, x)) :
               Legal(RatAfter(rat, SubSeq(Append(q, x), 1, i - 1)), Append(q, x)[i])
      <4>1. \A i \in 1 .. Len(q) : Legal(RatAfter(rat, SubSeq(q, 1, i - 1)), q[i])
        BY <3>4
      <4> QED
        BY <1>0, <3>2, <3>6, <4>1, LegalAppend
    <3>8. RegAfter(data_valid, Append(u, y)) = data_valid \ {item.new}
      BY <3>2, <3>5, RegAfterAppend
    <3>9. rat_q' = Append(q, x) /\ reg_q' = Append(u, y)
      BY <1>13, <2>3, <3>4 DEF x, y
    <3>10. SyncedRat' = restore_map(rat, item.new, item.old) /\ SyncedData' = data_valid \ {item.new}
      BY <1>13, <3>2, <3>5, <3>7, <3>8, <3>9 DEF SyncedRat, SyncedData
    <3>11. RequestsLegal'
      BY <1>13, <3>7, <3>9 DEF RequestsLegal
    <3> QED
      BY <2>1, <2>3, <3>10, <3>11
  <2> QED
    BY <2>2, <2>3
<1> DEFINE more == /\ restore_rob_item_id # rob_item_id
                   /\ check_id_valid(rob, prev_id(rob, restore_rob_item_id))
<1>15. more <=> Live # 1
  <2>1. id = s.rptr <=> Live = 1
    <3>1. Place(s, 1) = s.rptr /\ At(s, s.rptr) = 1
      BY Sizes, RptrIs
    <3> QED
      BY <1>8, <3>1
  <2>2. ASSUME Live # 1
        PROVE  check_id_valid(s, prev_id(s, id))
    <3>1. prev_id(s, id) \in 0 .. ROB_SIZE - 1 /\ At(s, prev_id(s, id)) = At(s, id) - 1
      BY <1>8, <2>2, Sizes, PrevAt
    <3>2. At(s, prev_id(s, id)) <= get_size(s)
      BY <1>8, <3>1
    <3> QED
      BY <3>1, <3>2, Sizes, ValidIs
  <2> QED
    BY <1>6, <1>7, <2>1, <2>2
<1>16. CASE Live # 1
  <2>1. /\ restore_rob_item_id' = prev_id(rob, restore_rob_item_id)
        /\ feedback' = "flush" /\ rob' = rob /\ cur_state' = cur_state
    BY <1>15, <1>16 DEF WalkBack
  <2>2. SyncedRob' = rob
    BY <1>3, <1>13, <2>1, RingAfterAppend DEF SyncedRob
  <2>3. Live' = Live - 1
    <3>1. At(s, prev_id(s, id)) = At(s, id) - 1
      BY <1>8, <1>16, Sizes, PrevAt
    <3>2. Live' = At(s, prev_id(s, id))
      BY <1>1, <1>6, <1>7, <2>1, <2>2 DEF Live
    <3> QED
      BY <1>8, <3>1, <3>2
  <2>4. BackFacts' /\ cur_state' # "normal"
    BY <1>0, <1>1, <2>1, BackNext
  <2>5. ASSUME NEW i \in 1 .. Live
        PROVE  RefinedItem(Place(SyncedRob, i))' = RefinedItem(Place(s, i))
    <3>1. i \in 1 .. get_size(SyncedRob) /\ i \in 1 .. ROB_SIZE
      BY <1>4, <1>6, <1>8, Sizes
    <3>2. PICK j \in RobId : j = Place(s, i) /\ j = Place(SyncedRob, i) /\ Ent(j) \in Entry
      BY <1>4, <1>5, <1>6, <3>1 DEF RefinedFacts
    <3>3. Ent(j)' = Ent(j) /\ Place(SyncedRob, i)' = j
      BY <1>4, <2>2, <3>2 DEF Ent
    <3>4. RefinedItem(j)' = RefinedItem(j)
      BY <1>1, <1>5, <2>4, <3>2, <3>3 DEF BackFacts
    <3> QED
      BY <3>2, <3>3, <3>4
  <2>6. RefinedRob' = [i \in 1 .. Live - 1 |-> RefinedItem(Place(s, i))]
    <3>1. RefinedRob' = [i \in 1 .. Live - 1 |-> RefinedItem(Place(SyncedRob, i))']
      BY <1>5, <2>3 DEF RefinedFacts
    <3>2. \A i \in 1 .. Live - 1 : i \in 1 .. Live
      BY <1>10
    <3> QED
      BY <2>5, <3>1, <3>2
  <2>7. SubSeq(RefinedRob, 1, Live - 1) = [i \in 1 .. Live - 1 |-> RefinedItem(Place(s, i))]
    <3>1. PICK z \in Seq(RP!Item) : z = RefinedRob /\ Len(z) = Live
      BY <1>10
    <3>2. SubSeq(z, 1, Live - 1) = [i \in 1 .. Live - 1 |-> z[i]]
      BY <1>8, <1>10, <3>1
    <3>3. \A i \in 1 .. Live - 1 : z[i] = RefinedItem(Place(s, i))
      BY <1>10, <3>1
    <3> QED
      BY <3>1, <3>2, <3>3
  <2>8. RP!Undo
    <3>1. RefinedRob' = SubSeq(RefinedRob, 1, Len(RefinedRob) - 1)
      BY <1>10, <2>6, <2>7
    <3>2. cur_state' = IF Len(RefinedRob) = 1 THEN "normal" ELSE cur_state
      BY <1>10, <1>16, <2>1
    <3> QED
      BY <1>1, <1>4, <1>11, <1>12, <1>14, <3>1, <3>2, SameTable DEF RP!Undo
  <2> QED
    BY <1>14, <2>4, <2>8 DEF RP!Next, MapsOK, SavedOK, Straight
<1>17. CASE Live = 1
  <2>1. feedback' = "flush_exception" /\ cur_state' = "normal"
    BY <1>15, <1>17 DEF WalkBack
  <2>2. flushing'
    BY <2>1 DEF flushing
  <2>3. RefinedRob' = << >>
    BY <1>0, <2>1, <2>2, FlushedNext DEF FlushedFacts
  <2>4. SubSeq(RefinedRob, 1, Len(RefinedRob) - 1) = << >>
    <3>1. PICK z \in Seq(RP!Item) : z = RefinedRob /\ Len(z) = 1
      BY <1>10, <1>17
    <3> QED
      BY <3>1
  <2>5. cur_state' = IF Len(RefinedRob) = 1 THEN "normal" ELSE cur_state
    BY <1>10, <1>17, <2>1
  <2>6. RP!Undo
    BY <1>1, <1>4, <1>11, <1>12, <1>14, <2>3, <2>4, <2>5, SameTable DEF RP!Undo
  <2> QED
    BY <1>14, <2>2, <2>6 DEF RP!Next, MapsOK, SavedOK, Straight
<1> QED
  BY <1>16, <1>17

\* Whoever asks nothing of the alias table changes nothing of what the group
\* sees.
LEMMA MapsSame ==
  ASSUME rat' = rat, rat_q' = rat_q, cur_state' = cur_state, feedback' = feedback
  PROVE  /\ SyncedRat' = SyncedRat /\ (RequestsLegal => RequestsLegal') /\ (MapsOK => MapsOK')
         /\ (Straight' <=> Straight)
<1>1. SyncedRat' = SyncedRat /\ GroupTable' = GroupTable /\ GroupMaps' = GroupMaps
  BY DEF SyncedRat, GroupTable, GroupMaps
<1>2. Given' = Given /\ free_phy' = free_phy
  BY <1>1 DEF Given, free_phy
<1>3. Straight' <=> Straight
  BY DEF Straight, flushing
<1>4. \A rd : OldPhy(rd)' = OldPhy(rd)
  BY <1>1 DEF OldPhy
<1>5. \A p : Below(p)' = Below(p)
  BY <1>2 DEF Below
<1>6. RequestsLegal => RequestsLegal'
  BY DEF RequestsLegal
<1>7. ASSUME MapsOK PROVE MapsOK'
  <2>1. SUFFICES ASSUME Straight
                 PROVE  /\ GroupTable'.visible = SyncedRat'.visible
                        /\ \A p \in SyncedRat'.visible : GroupTable'.table[p] = SyncedRat'.table[p]
                        /\ SyncedRat'.valid \subseteq GroupTable'.valid
                        /\ GroupTable'.valid = rat'.valid \cup Given'
                        /\ \A rd \in Arch : OldPhy(rd)' = get_phy_id(GroupTable', rd)
                        /\ \A k \in GroupMaps' :
                             rat_q'[k].phy \in free_phy' /\ Cardinality(Below(rat_q[k].phy)') < Cardinality(GroupMaps')
    BY <1>3 DEF MapsOK
  <2>2. /\ GroupTable.visible = SyncedRat.visible
        /\ \A p \in SyncedRat.visible : GroupTable.table[p] = SyncedRat.table[p]
        /\ SyncedRat.valid \subseteq GroupTable.valid
        /\ GroupTable.valid = rat.valid \cup Given
        /\ \A rd \in Arch : OldPhy(rd) = get_phy_id(GroupTable, rd)
        /\ \A k \in GroupMaps :
             rat_q[k].phy \in free_phy /\ Cardinality(Below(rat_q[k].phy)) < Cardinality(GroupMaps)
    BY <1>7, <2>1, Zenon DEF MapsOK
  <2> QED
    BY <1>1, <1>2, <1>4, <1>5, <2>2
<1> QED
  BY <1>1, <1>3, <1>6, <1>7

\* What is known of an entry once a unit has answered for it.
LEMMA KnownAnswered ==
  ASSUME Types, RingsOK, AnswersOK, Straight, NEW k \in DOMAIN port,
         NEW e \in Entry, e = Ent(port[k].id)
  PROVE  Known(port[k].id) = [new |-> e.new, old |-> e.old, finish |-> port[k].result,
                              cp |-> port[k].cp, wrong |-> e.wrong]
<1> DEFINE id == port[k].id
           a == CHOOSE a \in AnswersOf(id) : TRUE
<1>1. /\ DOMAIN port = 1 .. Len(port) /\ Len(port) \in Nat
      /\ \A i, j \in DOMAIN port : port[i].id = port[j].id => i = j
  BY UnitIds, AnswersIs
<1>2. AnswersOf(id) = {port[k]}
  BY <1>1 DEF AnswersOf
<1>3. a = port[k]
  BY <1>2
<1> HIDE DEF a, id
<1>4. Known(id) = [e EXCEPT !.finish = a.result, !.cp = a.cp]
  BY <1>2 DEF Known, Straight, Ent, id, a
<1>5. e = [new |-> e.new, old |-> e.old, finish |-> e.finish, cp |-> e.cp, wrong |-> e.wrong]
  BY DEF Entry, RobItem
<1>6. [e EXCEPT !.finish = a.result, !.cp = a.cp]
        = [new |-> e.new, old |-> e.old, finish |-> a.result, cp |-> a.cp, wrong |-> e.wrong]
  <2> DEFINE F == {"new", "old", "finish", "cp", "wrong"}
             u == [e EXCEPT !.finish = a.result, !.cp = a.cp]
             t == [new |-> e.new, old |-> e.old, finish |-> a.result, cp |-> a.cp, wrong |-> e.wrong]
  <2>1. /\ u["new"] = t["new"] /\ u["old"] = t["old"] /\ u["finish"] = t["finish"]
        /\ u["cp"] = t["cp"] /\ u["wrong"] = t["wrong"]
    BY <1>5
  <2>2. u = [f \in F |-> u[f]] /\ t = [f \in F |-> t[f]]
    BY <1>5
  <2> HIDE DEF u, t
  <2>3. \A f \in F : u[f] = t[f]
    BY <2>1
  <2> HIDE DEF F
  <2>4. u = t
    BY <2>2, <2>3
  <2> QED
    BY <2>4 DEF u, t
<1> QED
  BY <1>3, <1>4, <1>6 DEF id

\* The same of the next state.
AnsweredFacts ==
  Straight => \A k \in DOMAIN port : Ent(port[k].id) \in Entry =>
    Known(port[k].id) = [new |-> Ent(port[k].id).new, old |-> Ent(port[k].id).old, finish |-> port[k].result,
                         cp |-> port[k].cp, wrong |-> Ent(port[k].id).wrong]

\* The rings and the answers give this.
LEMMA AnsweredNow == Types /\ RingsOK /\ AnswersOK => AnsweredFacts
BY KnownAnswered DEF AnsweredFacts

\* The same after a step.
LEMMA AnsweredNext == Types' /\ RingsOK' /\ AnswersOK' => AnsweredFacts'
BY AnsweredNow, PTL

\* Renaming does not see how far an answer has come.
LEMMA CommitInputSimulated ==
  ASSUME Whole, IInv', CommitInput
  PROVE  [RP!Next]_(RP!vars) /\ MapsOK' /\ SavedOK' /\ RequestsLegal'
<1>0. /\ IInv /\ RP!IInv /\ Types /\ Turns /\ RingsOK /\ WalkOK /\ AnswersOK /\ RequestsLegal /\ MapsOK /\ SavedOK
      /\ Types' /\ RingsOK' /\ WalkOK' /\ AnswersOK'
  BY DEF Whole, IInv
<1>1. /\ stage = "commit" /\ cur_state = "normal" /\ port' = << >>
      /\ rat' = rat /\ rat_q' = rat_q /\ cur_state' = cur_state /\ feedback' = feedback
      /\ data_valid' = data_valid /\ reg_q' = reg_q
      /\ checkpoint_buffer' = checkpoint_buffer /\ cp_q' = cp_q /\ inflight' = inflight
  BY DEF CommitInput, machine, walk
<1>2. Straight
  BY <1>0, <1>1 DEF Turns, Straight
<1>3. SyncedRat' = SyncedRat /\ RequestsLegal' /\ MapsOK' /\ Straight'
  BY <1>0, <1>1, <1>2, MapsSame
<1>4. SyncedData' = SyncedData /\ SyncedCp' = SyncedCp
  BY <1>1 DEF SyncedData, SyncedCp
<1>5. RefinedFacts /\ RefinedFacts' /\ SeenFacts' /\ AnsweredFacts
  BY <1>0, <1>3, RefinedIs, RefinedNext, SeenNext, AnsweredNow
<1>6. /\ get_size(SyncedRob') = get_size(SyncedRob) /\ \A i : Place(SyncedRob', i) = Place(SyncedRob, i)
      /\ \A i \in 1 .. Len(port) :
           LET e == get_item(SyncedRob', port[i].id)
           IN  /\ e.finish = port[i].result /\ e.cp = port[i].cp /\ e.finish # "no"
               /\ e.new = Ent(port[i].id).new /\ e.old = Ent(port[i].id).old
               /\ e.wrong = Ent(port[i].id).wrong /\ e \in Entry
      /\ \A id \in RobId : (\A i \in 1 .. Len(port) : port[i].id # id) => Ent(id)' = Ent(id)
  BY <1>0, CommitInputEffect
<1>7. DOMAIN port = 1 .. Len(port) /\ Len(port) \in Nat
  BY <1>0, UnitIds
<1>8. Live' = Live
  BY <1>1, <1>6 DEF Live
<1>9. ASSUME NEW i \in 1 .. get_size(SyncedRob)
      PROVE  \E id : id = Place(SyncedRob, i) /\ id = Place(SyncedRob', i) /\ Kept(id)
  <2>1. i \in 1 .. ROB_SIZE
    BY <1>5 DEF RefinedFacts
  <2>2. PICK id \in RobId : id = Place(SyncedRob, i) /\ Ent(id) \in Entry
    BY <1>5, <2>1 DEF RefinedFacts
  <2>3. Known(id)' = Known(id)
    <3>1. CASE \A k \in 1 .. Len(port) : port[k].id # id
      <4>1. AnswersOf(id) = {} /\ AnswersOf(id)' = {} /\ PacksOf(id)' = PacksOf(id)
        BY <1>1, <1>7, <3>1 DEF AnswersOf, PacksOf
      <4>2. Ent(id)' = Ent(id)
        BY <1>6, <3>1
      <4> QED
        BY <1>1, <4>1, <4>2, KnownKept
    <3>2. ASSUME NEW k \in 1 .. Len(port), port[k].id = id
          PROVE  Known(id)' = Known(id)
      <4>1. /\ Ent(id)'.finish = port[k].result /\ Ent(id)'.cp = port[k].cp /\ Ent(id)'.finish # "no"
            /\ Ent(id)'.new = Ent(id).new /\ Ent(id)'.old = Ent(id).old
            /\ Ent(id)'.wrong = Ent(id).wrong /\ Ent(id)' \in Entry
        BY <1>6, <3>2 DEF Ent
      <4>2. Known(id)' = Ent(id)'
        BY <1>5, <4>1 DEF SeenFacts
      <4>3. PICK e \in Entry : e = Ent(id)'
        BY <4>1
      <4>4. e = [new |-> e.new, old |-> e.old, finish |-> e.finish, cp |-> e.cp, wrong |-> e.wrong]
        BY DEF Entry, RobItem
      <4>5. Known(id) = [new |-> Ent(id).new, old |-> Ent(id).old, finish |-> port[k].result,
                         cp |-> port[k].cp, wrong |-> Ent(id).wrong]
        BY <1>2, <1>5, <1>7, <2>2, <3>2 DEF AnsweredFacts
      <4> QED
        BY <4>1, <4>2, <4>3, <4>4, <4>5
    <3> QED
      BY <3>1, <3>2
  <2>4. Shown(id)' = Shown(id)
    BY <1>4, <2>3 DEF Shown
  <2>5. Kept(id)
    BY <2>3, <2>4 DEF Kept
  <2> QED
    BY <1>6, <2>2, <2>5
<1>10. RefinedRob' = RefinedRob /\ SavedOK'
  BY <1>0, <1>2, <1>5, <1>6, <1>8, <1>9, SameEntries
<1>11. RP!vars' = RP!vars
  BY <1>1, <1>3, <1>4, <1>10 DEF RP!vars
<1> QED
  BY <1>3, <1>10, <1>11

\* A result that arrives is one of Renaming.
LEMMA WriteBackSimulated ==
  ASSUME Whole, IInv', NEW pack \in inflight, NEW result \in ResultsOf(pack), WriteBack(pack, result)
  PROVE  [RP!Next]_(RP!vars) /\ MapsOK' /\ SavedOK' /\ RequestsLegal'
<1> DEFINE a == [id |-> pack.id, rd_phy |-> pack.rd_phy, result |-> result, cp |-> pack.cp]
           k == Len(port) + 1
<1>0. /\ IInv /\ RP!IInv /\ Types /\ Turns /\ RingsOK /\ WalkOK /\ AnswersOK /\ RequestsLegal /\ MapsOK /\ SavedOK
      /\ Types' /\ RingsOK' /\ WalkOK' /\ AnswersOK'
  BY DEF Whole, IInv
<1>1. /\ stage = "wb" /\ ~flushing /\ inflight' = inflight \ {pack} /\ port' = Append(port, a)
      /\ reg_q' = IF pack.rd_phy = NoPhy \/ result = "exception" THEN reg_q
                  ELSE Append(reg_q, Write(pack.rd_phy, TRUE))
      /\ rat' = rat /\ rat_q' = rat_q /\ cur_state' = cur_state /\ feedback' = feedback
      /\ data_valid' = data_valid /\ rob' = rob /\ rob_q' = rob_q
      /\ checkpoint_buffer' = checkpoint_buffer /\ cp_q' = cp_q
  BY DEF WriteBack, machine, walk
<1>2. Straight /\ cur_state = "normal"
  BY <1>0, <1>1 DEF Turns, flushing, Straight
<1>3. SyncedRat' = SyncedRat /\ RequestsLegal' /\ MapsOK' /\ Straight'
  BY <1>0, <1>1, <1>2, MapsSame
<1>4. SyncedRob' = SyncedRob /\ SyncedCp' = SyncedCp /\ \A id : Ent(id)' = Ent(id)
  BY <1>1 DEF SyncedRob, SyncedCp, Ent
<1>5. RefinedFacts /\ RefinedFacts' /\ SeenFacts /\ SeenFacts' /\ AnsweredFacts'
  BY <1>0, <1>2, <1>3, RefinedIs, RefinedNext, SeenNow, SeenNext, AnsweredNext
<1>6. Live' = Live /\ Live = get_size(SyncedRob)
  BY <1>1, <1>2, <1>4 DEF Live
<1>7. pack \in Sent /\ result \in Result /\ (result = "miss" => pack.cp # NoId)
  <2>1. pack \in Sent
    BY <1>0 DEF Types
  <2>2. pack.kind \in {"plain", "jump", "hit", "miss"}
    BY <2>1, KindAssumption DEF Sent, Pack
  <2> QED
    BY <2>1, <2>2 DEF ResultsOf, Result, Sent
<1>8. /\ \A x, y \in inflight : x.id = y.id => x = y
      /\ \A x \in inflight, i \in DOMAIN port : x.id # port[i].id
      /\ \A x \in inflight : Unanswered(x)
  BY <1>0, <1>2, AnswersIs
<1>9. PICK h \in RobId : h = pack.id
  BY <1>7 DEF Sent, Pack
<1>10. Ent(h) # Dead /\ Ent(h).finish = "no" /\ Ent(h).new = pack.rd_phy /\ Ent(h) \in Entry
  BY <1>0, <1>8, <1>9, LiveIs DEF Unanswered
<1>11. /\ DOMAIN port = 1 .. Len(port) /\ Len(port) \in Nat /\ port \in Seq(Reply)
  BY <1>0, UnitIds DEF Types
<1>12. a.id = pack.id /\ a.cp = pack.cp /\ a.result = result
  OBVIOUS
<1> HIDE DEF a
<1>13. /\ DOMAIN port' = DOMAIN port \cup {k} /\ k \notin DOMAIN port /\ port'[k] = a
       /\ \A i \in DOMAIN port : port'[i] = port[i]
  BY <1>1, <1>11
<1> HIDE DEF k
<1>14. PICK e \in Entry : e = Ent(h)
  BY <1>10
<1>15. Known(h)' = [new |-> e.new, old |-> e.old, finish |-> result, cp |-> pack.cp, wrong |-> e.wrong]
  BY <1>3, <1>4, <1>5, <1>9, <1>10, <1>12, <1>13, <1>14 DEF AnsweredFacts
<1>16. /\ Known(h).finish = "no" /\ Known(h).new = e.new /\ Known(h).old = e.old
       /\ Known(h).cp = pack.cp
  <2>1. Known(h).finish = "no" /\ Known(h).new = e.new /\ Known(h).old = e.old
    BY <1>5, <1>9, <1>10, <1>14 DEF SeenFacts
  <2>2. Known(h).cp = pack.cp
    BY <1>0, <1>2, <1>9, KnownIs
  <2> QED
    BY <2>1, <2>2
<1>17. Shown(h)' = Shown(h) /\ Known(h)'.cp = Known(h).cp /\ Known(h)'.old = Known(h).old
  BY <1>4, <1>15, <1>16 DEF Shown
<1>18. ASSUME NEW id \in RobId, id # h
       PROVE  Kept(id)
  <2>1. PacksOf(id)' = PacksOf(id)
    BY <1>1, <1>9, <1>18 DEF PacksOf
  <2>2. AnswersOf(id)' = AnswersOf(id)
    <3>1. {i \in DOMAIN port' : port'[i].id = id} = {i \in DOMAIN port : port[i].id = id}
      BY <1>9, <1>12, <1>13, <1>18
    <3> QED
      BY <1>13, <3>1 DEF AnswersOf
  <2>3. Known(id)' = Known(id)
    BY <1>1, <1>4, <2>1, <2>2, KnownKept
  <2> QED
    BY <1>4, <2>3 DEF Kept, Shown
<1>19. PICK s \in Rings(ROB_SIZE, Entry) : s = SyncedRob
  BY <1>0, RobIs
<1>20. PICK j \in 1 .. Live : j = At(s, h) /\ Place(s, j) = h
  <2>1. At(s, h) \in 1 .. ROB_SIZE /\ Place(s, At(s, h)) = h
    BY Sizes, PlaceAt
  <2>2. At(s, h) <= get_size(s)
    BY <1>0, <1>10, <1>19, LiveIs
  <2>3. At(s, h) \in 1 .. Live
    BY <1>5, <1>6, <1>19, <2>1, <2>2, Sizes DEF RefinedFacts
  <2> QED
    BY <2>1, <2>3
<1>21. /\ RefinedRob \in Seq(RP!Item) /\ Len(RefinedRob) = Live /\ Live \in 0 .. ROB_SIZE /\ ROB_SIZE \in Nat
       /\ \A i \in 1 .. Live : RefinedRob[i] = RefinedItem(Place(s, i))
  BY <1>0, <1>5, <1>19, RefinedSeq DEF RefinedFacts
<1>22. \A i \in 1 .. Live : Place(s, i) \in RobId /\ (i # j => Place(s, i) # h)
  <2>1. \A i \in 1 .. Live : i \in 1 .. ROB_SIZE
    BY <1>21
  <2> QED
    BY <1>5, <1>19, <1>20, <2>1 DEF RefinedFacts
<1>23. /\ RefinedItem(h) = [new |-> e.new, old |-> e.old, status |-> "waiting",
                            cp |-> IF pack.cp = NoId THEN {} ELSE Shown(h).visible]
       /\ RefinedItem(h)' = [new |-> e.new, old |-> e.old, status |-> StatusOf(result),
                             cp |-> IF pack.cp = NoId THEN {} ELSE Shown(h).visible]
  <2>1. RefinedItem(h) = [new |-> Known(h).new, old |-> Known(h).old, status |-> StatusOf(Known(h).finish),
                          cp |-> IF Known(h).cp = NoId THEN {} ELSE Shown(h).visible]
    BY DEF RefinedItem, Shown
  <2>2. RefinedItem(h)' = [new |-> Known(h)'.new, old |-> Known(h)'.old, status |-> StatusOf(Known(h)'.finish),
                          cp |-> IF Known(h)'.cp = NoId THEN {} ELSE Shown(h)'.visible]
    BY DEF RefinedItem, Shown
  <2>3. StatusOf("no") = "waiting"
    BY DEF StatusOf
  <2>4. Known(h)'.new = e.new /\ Known(h)'.old = e.old /\ Known(h)'.finish = result /\ Known(h)'.cp = pack.cp
    BY <1>15
  <2>5. RefinedItem(h) = [new |-> e.new, old |-> e.old, status |-> "waiting",
                            cp |-> IF pack.cp = NoId THEN {} ELSE Shown(h).visible]
    BY <1>16, <2>1, <2>3, Zenon
  <2>6. RefinedItem(h)' = [new |-> e.new, old |-> e.old, status |-> StatusOf(result),
                             cp |-> IF pack.cp = NoId THEN {} ELSE Shown(h).visible]
    BY <1>17, <2>2, <2>4, Zenon
  <2> QED
    BY <2>5, <2>6
<1> DEFINE st == StatusOf(result)
<1>24. /\ st \in {"done", "missed", "exception"} /\ (st = "exception" <=> result = "exception")
       /\ (st = "missed" <=> result = "miss")
  BY <1>7 DEF StatusOf, Result
<1>25. /\ RefinedRob[j].status = "waiting" /\ RefinedRob[j].new = pack.rd_phy
       /\ (st = "missed" => RefinedRob[j].cp # {})
  <2>1. RefinedRob[j] = RefinedItem(h)
    BY <1>20, <1>21
  <2>2. ASSUME st = "missed"
        PROVE  Shown(h).visible # {} /\ pack.cp # NoId
    <3>1. pack.cp # NoId
      BY <1>7, <1>24, <2>2
    <3>2. Saved(Place(SyncedRob, j))
      BY <1>0, <1>2, <1>6, <1>20 DEF SavedOK
    <3>3. Saved(h)
      BY <1>19, <1>20, <3>2
    <3> QED
      BY <1>16, <3>1, <3>3 DEF Saved
  <2> QED
    BY <1>10, <1>14, <1>23, <2>1, <2>2
<1>26. RefinedRob' = [RefinedRob EXCEPT ![j].status = st]
  <2>1. RefinedRob' = [i \in 1 .. Live |-> RefinedItem(Place(SyncedRob, i))']
    BY <1>5, <1>6 DEF RefinedFacts
  <2>2. RefinedRob = [i \in 1 .. Live |-> RefinedItem(Place(SyncedRob, i))]
    BY <1>5 DEF RefinedFacts
  <2>3. ASSUME NEW i \in 1 .. Live, i # j
        PROVE  RefinedItem(Place(SyncedRob, i))' = RefinedItem(Place(SyncedRob, i))
    <3>1. PICK id \in RobId : id = Place(s, i) /\ id # h
      BY <1>22, <2>3
    <3>2. RefinedItem(id)' = RefinedItem(id)
      BY <1>18, <3>1, SavedKept
    <3> QED
      BY <1>4, <1>19, <3>1, <3>2
  <2>4. RefinedItem(Place(SyncedRob, j))' = [RefinedItem(Place(SyncedRob, j)) EXCEPT !.status = st]
    <3>1. RefinedItem(h)' = [RefinedItem(h) EXCEPT !.status = st]
      BY <1>23
    <3> QED
      BY <1>4, <1>19, <1>20, <3>1
  <2>5. [RefinedRob EXCEPT ![j].status = st] =
          [i \in 1 .. Live |-> IF i = j THEN [RefinedRob[i] EXCEPT !.status = st] ELSE RefinedRob[i]]
    BY <2>2
  <2>6. RefinedRob[j] = RefinedItem(Place(SyncedRob, j))
    BY <1>19, <1>20, <1>21
  <2>7. ASSUME NEW i \in 1 .. Live
        PROVE  RefinedItem(Place(SyncedRob, i))' =
                 IF i = j THEN [RefinedRob[i] EXCEPT !.status = st] ELSE RefinedRob[i]
    <3>1. CASE i = j
      BY <2>4, <2>6, <3>1
    <3>2. CASE i # j
      BY <1>19, <1>21, <2>3, <3>2
    <3> QED
      BY <3>1, <3>2
  <2> QED
    BY <2>1, <2>5, <2>7
<1>27. SyncedData' = IF st = "exception" THEN SyncedData ELSE SyncedData \cup ({pack.rd_phy} \ {NoPhy})
  <2>1. CASE pack.rd_phy = NoPhy \/ result = "exception"
    <3>1. SyncedData' = SyncedData
      BY <1>1, <2>1 DEF SyncedData
    <3> QED
      BY <1>24, <2>1, <3>1
  <2>2. CASE ~(pack.rd_phy = NoPhy \/ result = "exception")
    <3>1. pack.rd_phy \in Phy
      BY <1>7, <2>2 DEF Sent, Pack
    <3> DEFINE y == Write(pack.rd_phy, TRUE)
    <3>2. y \in RegRequest /\ \A d : ApplyReg(d, y) = d \cup {pack.rd_phy}
      BY <3>1 DEF RegRequest, Write, ApplyReg
    <3>3. reg_q' = Append(reg_q, y) /\ reg_q \in Seq(RegRequest)
      BY <1>0, <1>1, <2>2 DEF Types
    <3> HIDE DEF y
    <3>4. RegAfter(data_valid, Append(reg_q, y)) = ApplyReg(RegAfter(data_valid, reg_q), y)
      BY <3>2, <3>3, RegAfterAppend
    <3>5. SyncedData' = SyncedData \cup {pack.rd_phy}
      BY <1>1, <3>2, <3>3, <3>4 DEF SyncedData
    <3> QED
      BY <1>24, <2>2, <3>5
  <2> QED
    BY <2>1, <2>2
<1>28. RP!WriteBack(j, st)
  <2> HIDE DEF st
  <2>1. RP!NoPhy = NoPhy
    BY SameTable
  <2> QED
    BY <1>1, <1>2, <1>3, <1>25, <1>26, <1>27, <2>1 DEF RP!WriteBack
<1>29. RP!Next
  <2> HIDE DEF st
  <2>1. j \in 1 .. Len(RefinedRob)
    BY <1>21
  <2> QED
    BY <1>24, <1>28, <2>1 DEF RP!Next
<1>30. SavedOK'
  <2>1. ASSUME NEW i \in 1 .. get_size(SyncedRob)
        PROVE  Saved(Place(SyncedRob, i))'
    <3>1. PICK id \in RobId : id = Place(s, i) /\ Saved(id)
      BY <1>0, <1>2, <1>6, <1>19, <1>22, <2>1 DEF SavedOK
    <3>2. Place(SyncedRob, i)' = id
      BY <1>4, <1>19, <3>1
    <3>3. CASE id = h
      BY <1>17, <3>1, <3>2, <3>3 DEF Saved
    <3>4. CASE id # h
      BY <1>18, <3>1, <3>2, <3>4, SavedKept
    <3> QED
      BY <3>3, <3>4
  <2> QED
    BY <1>4, <2>1 DEF SavedOK
<1> QED
  BY <1>3, <1>29, <1>30

\* The end of a cycle shows Renaming the tables it saw already.
LEMMA SyncSimulated ==
  ASSUME IInv, NEW fetched, SyncAll(fetched)
  PROVE  SyncedRat' = SyncedRat /\ SyncedData' = SyncedData /\ SyncedRob' = SyncedRob /\ RequestsLegal' /\ MapsOK'
<1>1. /\ rat' = SyncedRat /\ data_valid' = SyncedData /\ rat_q' = << >> /\ reg_q' = << >>
  BY DEF SyncAll
<1>2. << >> \in Seq({0}) /\ 0 \in {0}
  OBVIOUS
<1>3. SyncedRat' = rat' /\ SyncedData' = data_valid' /\ GroupTable' = rat'
  BY <1>1, <1>2, RatAfterAppend, RegAfterAppend, MapsAfterAppend DEF SyncedRat, SyncedData, GroupTable
<1>4. GroupMaps' = {}
  BY <1>1 DEF GroupMaps
<1>5. Given' = {} /\ \A rd : OldPhy(rd)' = get_phy_id(rat', rd)
  BY <1>4 DEF Given, OldPhy
<1>6. MapsOK'
  BY <1>3, <1>4, <1>5 DEF MapsOK
<1>7. RequestsLegal'
  BY <1>1 DEF RequestsLegal
<1> QED
  BY <1>1, <1>3, <1>6, <1>7, Synced

\* Renaming does not see a cycle end.
LEMMA FetchSimulated ==
  ASSUME Whole, IInv', NEW group \in FetchGroup, FetchAndSync(group)
  PROVE  [RP!Next]_(RP!vars) /\ MapsOK' /\ SavedOK' /\ RequestsLegal'
<1> DEFINE branch == IF group = << >> THEN "plain" ELSE group[Len(group)]
           predicted == branch \in {"hit", "miss"}
           fetched == IF predicted THEN push(checkpoint_buffer, Blank) ELSE checkpoint_buffer
<1>0. /\ IInv /\ RP!IInv /\ Types /\ Turns /\ RingsOK /\ WalkOK /\ AnswersOK /\ SavedOK
      /\ Types' /\ RingsOK' /\ WalkOK'
  BY DEF Whole, IInv
<1>1. /\ stage \in {"wb", "rename"} /\ ~flushing
      /\ predicted => ~is_full(checkpoint_buffer)
      /\ SyncAll(fetched)
      /\ cur_state' = cur_state /\ inflight' = inflight /\ port' = port
  BY DEF FetchAndSync, walk, units
<1> HIDE DEF predicted
<1>2. Straight /\ cur_state = "normal"
  BY <1>0, <1>1 DEF Turns, flushing, Straight
<1>3. SyncedRat' = SyncedRat /\ SyncedData' = SyncedData /\ SyncedRob' = SyncedRob /\ RequestsLegal' /\ MapsOK'
  BY <1>0, <1>1, SyncSimulated
<1>4. RefinedFacts /\ RefinedFacts' /\ \A id : Ent(id)' = Ent(id)
  BY <1>0, <1>3, RefinedIs, RefinedNext DEF Ent
<1>5. Live' = Live
  BY <1>1, <1>2, <1>3 DEF Live
<1>6. \A id : Known(id)' = Known(id)
  <2>1. \A id : PacksOf(id)' = PacksOf(id) /\ AnswersOf(id)' = AnswersOf(id)
    BY <1>1 DEF PacksOf, AnswersOf
  <2> QED
    BY <1>1, <1>4, <2>1, KnownKept
<1>7. ASSUME NEW c \in CpId, At(SyncedCp, c) \in 1 .. get_size(SyncedCp)
      PROVE  get_item(SyncedCp, c)' = get_item(SyncedCp, c)
  <2>1. SyncedCp' = RingAfter(fetched, cp_q)
    <3>1. SyncedCp' = checkpoint_buffer' /\ checkpoint_buffer' = RingAfter(fetched, cp_q)
      BY <1>0, <1>1, Synced DEF SyncAll
    <3> QED
      BY <3>1
  <2>2. CASE ~predicted
    BY <2>1, <2>2 DEF SyncedCp
  <2>3. CASE predicted
    <3>1. PICK r \in Rings(CHECKPOINT_BUFFER_SIZE, CheckpointType),
               q \in Seq(RingRequest(CHECKPOINT_BUFFER_SIZE, CheckpointType)) :
                 r = checkpoint_buffer /\ q = cp_q /\ Founded(r, q) /\ ~is_full(r)
      BY <1>0, <1>1, <2>3 DEF Types, RingsOK
    <3>2. PICK b \in CheckpointType : b = Blank
      BY DEF Blank, CheckpointType
    <3>3. RingAfter(push(r, b), q) = push(RingAfter(r, q), b) /\ ~is_full(RingAfter(r, q))
      BY <3>1, Sizes, DeadIsNone, PushLater
    <3>4. PICK s \in Rings(CHECKPOINT_BUFFER_SIZE, CheckpointType) : s = SyncedCp
      BY <1>0, CpIs
    <3>5. SyncedCp' = push(s, b) /\ ~is_full(s)
      BY <2>1, <2>3, <3>1, <3>2, <3>3, <3>4 DEF SyncedCp
    <3>6. c # s.wptr
      <4>1. At(s, s.wptr) = get_size(s) + 1 /\ get_size(s) \in Nat
        BY <3>5, Sizes, PushItem, SizeIs
      <4> QED
        BY <1>7, <3>4, <4>1
    <3>7. get_item(push(s, b), c) = get_item(s, c)
      BY <3>5, <3>6, Sizes, PushItem
    <3> QED
      BY <3>4, <3>5, <3>7
  <2> QED
    BY <2>2, <2>3
<1>8. ASSUME NEW i \in 1 .. get_size(SyncedRob)
      PROVE  \E id : id = Place(SyncedRob, i) /\ id = Place(SyncedRob', i) /\ Kept(id)
  <2>1. PICK id : id = Place(SyncedRob, i)
    OBVIOUS
  <2>2. ASSUME Known(id).cp # NoId
        PROVE  Shown(id)' = Shown(id)
    <3>1. /\ LiveCheckpoints[i] = Known(id).cp /\ i \in 1 .. Stream
      <4>1. /\ Stream \in Nat /\ get_size(SyncedRob) \in 0 .. Stream
            /\ LiveCheckpoints[i] = Known(Place(SyncedRob, i)).cp
        BY <1>0, <1>2, CpApart
      <4> QED
        BY <2>1, <4>1
    <3>2. Known(id).cp \in CpId /\ At(SyncedCp, Known(id).cp) \in 1 .. get_size(SyncedCp)
      BY <1>0, <1>2, <2>2, <3>1, CpApart
    <3>3. PICK c \in CpId : c = Known(id).cp /\ At(SyncedCp, c) \in 1 .. get_size(SyncedCp)
      BY <3>2
    <3>4. Known(id)'.cp = c
      BY <1>6, <3>3
    <3>5. get_item(SyncedCp', c) = get_item(SyncedCp, c)
      BY <1>7, <3>3
    <3> QED
      BY <3>3, <3>4, <3>5 DEF Shown
  <2>3. Kept(id)
    BY <1>6, <2>2 DEF Kept
  <2> QED
    BY <1>3, <2>1, <2>3
<1>9. RefinedRob' = RefinedRob /\ SavedOK'
  BY <1>0, <1>2, <1>3, <1>4, <1>5, <1>8, SameEntries
<1>10. RP!vars' = RP!vars
  BY <1>1, <1>3, <1>9 DEF RP!vars
<1> QED
  BY <1>3, <1>9, <1>10

\* Nor does it see what a flush makes the stages drop.
LEMMA FlushAndSyncSimulated ==
  ASSUME Whole, IInv', FlushAndSync
  PROVE  [RP!Next]_(RP!vars) /\ MapsOK' /\ SavedOK' /\ RequestsLegal'
<1>0. /\ IInv /\ RP!IInv /\ Types /\ RingsOK /\ WalkOK /\ Types' /\ RingsOK' /\ WalkOK'
  BY DEF Whole, IInv
<1>1. /\ flushing /\ SyncAll(checkpoint_buffer)
      /\ cur_state' = cur_state /\ restore_rob_item_id' = restore_rob_item_id
  BY DEF FlushAndSync, FlushTo, walk
<1>2. SyncedRat' = SyncedRat /\ SyncedData' = SyncedData /\ SyncedRob' = SyncedRob /\ RequestsLegal' /\ MapsOK'
  BY <1>0, <1>1, SyncSimulated
<1>3. RefinedFacts /\ RefinedFacts' /\ \A id : Ent(id)' = Ent(id)
  BY <1>0, <1>2, RefinedIs, RefinedNext DEF Ent
<1>4. Live' = Live
  BY <1>1, <1>2 DEF Live
<1>5. CASE cur_state = "normal"
  <2>1. RefinedRob = << >> /\ Live = 0 /\ get_size(SyncedRob) = 0
    BY <1>0, <1>1, <1>5, FlushedNow DEF FlushedFacts
  <2>2. RefinedRob' = << >>
    BY <1>3, <1>4, <2>1 DEF RefinedFacts
  <2>3. SavedOK'
    BY <1>2, <2>1 DEF SavedOK
  <2>4. RP!vars' = RP!vars
    BY <1>1, <1>2, <2>1, <2>2 DEF RP!vars
  <2> QED
    BY <1>2, <2>3, <2>4
<1>6. CASE cur_state # "normal"
  <2>1. BackFacts /\ BackFacts'
    BY <1>0, BackNow, BackNext
  <2>2. ASSUME NEW i \in 1 .. Live
        PROVE  RefinedItem(Place(SyncedRob, i))' = RefinedItem(Place(SyncedRob, i))
    <3>1. i \in 1 .. get_size(SyncedRob) /\ i \in 1 .. ROB_SIZE
      BY <1>3 DEF RefinedFacts
    <3>2. PICK id \in RobId : id = Place(SyncedRob, i) /\ Ent(id) \in Entry
      BY <1>3, <3>1 DEF RefinedFacts
    <3>3. Ent(id)' = Ent(id) /\ Place(SyncedRob, i)' = id
      BY <1>2, <1>3, <3>2
    <3>4. RefinedItem(id)' = RefinedItem(id)
      BY <1>1, <1>6, <2>1, <3>2, <3>3 DEF BackFacts
    <3> QED
      BY <3>2, <3>3, <3>4
  <2>3. RefinedRob' = RefinedRob
    <3>1. RefinedRob = [i \in 1 .. Live |-> RefinedItem(Place(SyncedRob, i))]
      BY <1>3 DEF RefinedFacts
    <3>2. RefinedRob' = [i \in 1 .. Live |-> RefinedItem(Place(SyncedRob, i))']
      BY <1>3, <1>4 DEF RefinedFacts
    <3> QED
      BY <2>2, <3>1, <3>2
  <2>4. SavedOK'
    BY <1>1, <1>6 DEF SavedOK, Straight
  <2>5. RP!vars' = RP!vars
    BY <1>1, <1>2, <2>3 DEF RP!vars
  <2> QED
    BY <1>2, <2>4, <2>5
<1> QED
  BY <1>5, <1>6

\* A step that changes nothing changes nothing of this.
LEMMA NothingSimulated ==
  ASSUME Whole, IInv', UNCHANGED vars
  PROVE  [RP!Next]_(RP!vars) /\ MapsOK' /\ SavedOK' /\ RequestsLegal'
<1>0. /\ IInv /\ Types /\ RingsOK /\ WalkOK /\ Types' /\ RingsOK' /\ WalkOK' /\ MapsOK /\ SavedOK /\ RequestsLegal
  BY DEF Whole, IInv
<1>1. /\ UNCHANGED <<rat, data_valid, rob, checkpoint_buffer, rat_q, reg_q, rob_q, cp_q,
                     cur_state, restore_rob_item_id, inflight, port, feedback>>
  BY DEF vars, machine, queues, walk, units
<1>2. SyncedRat' = SyncedRat /\ RequestsLegal' /\ MapsOK' /\ (Straight' <=> Straight)
  BY <1>0, <1>1, MapsSame
<1>3. SyncedData' = SyncedData /\ SyncedRob' = SyncedRob /\ SyncedCp' = SyncedCp
  BY <1>1 DEF SyncedData, SyncedRob, SyncedCp
<1>4. \A id : Kept(id)
  <2>1. \A id : Ent(id)' = Ent(id) /\ PacksOf(id)' = PacksOf(id) /\ AnswersOf(id)' = AnswersOf(id)
    BY <1>1, <1>3 DEF Ent, PacksOf, AnswersOf
  <2>2. \A id : Known(id)' = Known(id)
    BY <1>1, <2>1, KnownKept
  <2>3. \A id : Shown(id)' = Shown(id)
    BY <1>3, <2>2 DEF Shown
  <2> QED
    BY <2>2, <2>3 DEF Kept
<1>5. RefinedFacts /\ RefinedFacts' /\ Live' = Live
  BY <1>0, <1>1, <1>3, RefinedIs, RefinedNext DEF Live
<1>6. RefinedRob' = RefinedRob /\ (Straight /\ SavedOK => SavedOK')
  <2>1. \A i \in 1 .. get_size(SyncedRob) :
          \E id : id = Place(SyncedRob, i) /\ id = Place(SyncedRob', i) /\ Kept(id)
    BY <1>3, <1>4
  <2> QED
    BY <1>3, <1>5, <2>1, SameEntries
<1>7. SavedOK'
  <2>1. CASE Straight
    BY <1>0, <1>6, <2>1
  <2>2. CASE ~Straight
    BY <1>2, <2>2 DEF SavedOK
  <2> QED
    BY <2>1, <2>2
<1>8. RP!vars' = RP!vars
  BY <1>1, <1>2, <1>3, <1>6 DEF RP!vars
<1> QED
  BY <1>2, <1>7, <1>8

\* A mapping that two tables with the same visible registers agree on.
LEMMA MapBoth ==
  ASSUME NEW g \in RatType, NEW s \in RatType, NEW rd \in Arch, NEW p \in Phy, p \notin g.valid,
         g.visible = s.visible, \A q \in s.visible : g.table[q] = s.table[q],
         s.visible \subseteq s.valid, s.valid \subseteq g.valid,
         NEW u, u = set_map(g, rd, p), NEW v, v = set_map(s, rd, p)
  PROVE  /\ get_phy_id(g, rd) = get_phy_id(s, rd) /\ get_phy_id(g, rd) \subseteq g.valid
         /\ u.visible = v.visible /\ \A q \in v.visible : u.table[q] = v.table[q]
         /\ v.valid \subseteq u.valid /\ u.valid = g.valid \cup {p} /\ p \in v.visible
         /\ get_phy_id(u, rd) = {p}
         /\ \A rd2 \in Arch : rd2 # rd => get_phy_id(u, rd2) = get_phy_id(g, rd2)
<1>1. g.table \in [Phy -> 0 .. ARCH_REG_NUM - 1] /\ s.table \in [Phy -> 0 .. ARCH_REG_NUM - 1]
      /\ g.visible \subseteq Phy
  BY DEF RatType
<1>2. get_phy_id(g, rd) = get_phy_id(s, rd) /\ get_phy_id(g, rd) \subseteq g.valid
  BY DEF get_phy_id
<1>3. /\ u.table = [g.table EXCEPT ![p] = rd] /\ u.valid = g.valid \cup {p}
      /\ u.visible = (g.visible \cup {p}) \ get_phy_id(g, rd)
      /\ v.table = [s.table EXCEPT ![p] = rd] /\ v.valid = s.valid \cup {p}
      /\ v.visible = (s.visible \cup {p}) \ get_phy_id(s, rd)
  BY DEF set_map
<1>4. p \notin get_phy_id(g, rd)
  BY DEF get_phy_id
<1>5. u.visible = v.visible /\ p \in v.visible
  BY <1>2, <1>3, <1>4
<1>6. \A q \in v.visible : u.table[q] = v.table[q]
  BY <1>1, <1>3
<1>7. get_phy_id(u, rd) = {p}
  BY <1>1, <1>3, <1>4 DEF get_phy_id
<1>8. ASSUME NEW rd2 \in Arch, rd2 # rd
      PROVE  get_phy_id(u, rd2) = get_phy_id(g, rd2)
  BY <1>1, <1>3, <1>8 DEF get_phy_id
<1> QED
  BY <1>2, <1>3, <1>5, <1>6, <1>7, <1>8

\* A pack in flight tells the checkpoint of its entry.
KnownFacts == \A id \in RobId : \A x \in inflight : x.id = id => Known(id).cp = x.cp

\* The rings and the answers give this.
LEMMA KnownNow == Types /\ RingsOK /\ AnswersOK /\ Straight => KnownFacts
BY KnownIs DEF KnownFacts

\* The same after a step.
LEMMA KnownNext == Types' /\ RingsOK' /\ AnswersOK' /\ Straight' => KnownFacts'
BY KnownNow, PTL

\* The instruction that enters the buffer is the youngest Renaming has.
LEMMA EnterSimulated ==
  ASSUME Whole, IInv', CanRename, NEW new \in Phy \cup {NoPhy}, NEW old \in Phy \cup {NoPhy},
         new = NoPhy <=> old = NoPhy, Enter(Head(front), new, old),
         NEW cp \in CheckpointType, FillCheckpoint(Head(front), cp),
         rob_q' = rob_q, port' = port, checkpoint_buffer' = checkpoint_buffer,
         cur_state' = cur_state, feedback' = feedback
  PROVE  /\ Straight /\ Straight' /\ cur_state = "normal" /\ Len(RefinedRob) < ROB_SIZE
         /\ RefinedRob' = Append(RefinedRob, RP!NewItem(new, old, IF Head(front).cp # NoId THEN cp.visible ELSE {}))
         /\ cp.visible # {} /\ (old # NoPhy => old \in cp.valid) => SavedOK'
<1>0. /\ IInv /\ RP!IInv /\ Types /\ Turns /\ RingsOK /\ WalkOK /\ AnswersOK /\ SavedOK
      /\ Types' /\ RingsOK' /\ WalkOK' /\ AnswersOK'
  BY DEF Whole, IInv
<1>1. stage \in {"wb", "rename"} /\ ~flushing
  BY DEF CanRename
<1>2. cur_state = "normal" /\ Straight /\ Straight'
  BY <1>0, <1>1 DEF Turns, flushing, Straight
<1>3. PICK h \in RobId, x \in Entry, pack \in Sent, inst \in Queued : Entered(h, x, pack, inst, new, old)
  BY <1>0, EnterEffect
<1> DEFINE m == get_size(SyncedRob)
<1>4. /\ inst = Head(front) /\ front[1] = inst /\ Len(front) \in Nat \ {0}
      /\ x.new = new /\ x.old = old /\ x.finish = "no" /\ x.cp = NoId
      /\ pack.id = h /\ pack.cp = inst.cp /\ inflight' = inflight \cup {pack}
      /\ m \in 0 .. ROB_SIZE /\ m # ROB_SIZE /\ get_size(SyncedRob') = m + 1
      /\ \A i : Place(SyncedRob', i) = Place(SyncedRob, i)
      /\ Place(SyncedRob, m + 1) = h
      /\ \A i \in 1 .. m : Place(SyncedRob, i) \in RobId /\ Place(SyncedRob, i) # h
      /\ Ent(h)' = x /\ \A j \in RobId : j # h => Ent(j)' = Ent(j)
  BY <1>3 DEF Entered
<1>5. RefinedFacts /\ RefinedFacts' /\ SeenFacts'
  BY <1>0, <1>2, RefinedIs, RefinedNext, SeenNext
<1>6. Live = m /\ Live' = m + 1
  BY <1>2, <1>4 DEF Live
<1>7. /\ RefinedRob \in Seq(RP!Item) /\ Len(RefinedRob) = m
      /\ \A i \in 1 .. m : RefinedRob[i] = RefinedItem(Place(SyncedRob, i))
  BY <1>0, <1>5, <1>6, RefinedSeq
<1>8. SyncedCp' = IF inst.cp = NoId THEN SyncedCp ELSE set_item(SyncedCp, inst.cp, cp)
  <2>1. CASE inst.cp = NoId
    <3>1. cp_q' = cp_q
      BY <1>4, <2>1 DEF FillCheckpoint
    <3> QED
      BY <2>1, <3>1 DEF SyncedCp
  <2>2. CASE inst.cp # NoId
    <3> DEFINE y == SetItem(inst.cp, cp)
    <3>1. inst.cp \in CpId
      BY <2>2 DEF Queued, FrontItem
    <3>2. y \in RingRequest(CHECKPOINT_BUFFER_SIZE, CheckpointType)
          /\ y.op = "set_item" /\ y.id = inst.cp /\ y.item = cp
      BY <3>1, Sizes DEF SetItem, RingRequest
    <3>3. cp_q' = Append(cp_q, y) /\ cp_q \in Seq(RingRequest(CHECKPOINT_BUFFER_SIZE, CheckpointType))
      BY <1>0, <1>4, <2>2 DEF FillCheckpoint, Types
    <3> HIDE DEF y
    <3>4. RingAfter(checkpoint_buffer, Append(cp_q, y)) = ApplyRing(RingAfter(checkpoint_buffer, cp_q), y)
      BY <3>2, <3>3, RingAfterAppend
    <3>5. \A r : ApplyRing(r, y) = set_item(r, inst.cp, cp)
      BY <3>2 DEF ApplyRing
    <3> QED
      BY <2>2, <3>3, <3>4, <3>5 DEF SyncedCp
  <2> QED
    BY <2>1, <2>2
<1>9. PICK r \in Rings(CHECKPOINT_BUFFER_SIZE, CheckpointType) : r = SyncedCp
  BY <1>0, CpIs
<1>10. \A c \in CpId : inst.cp \in CpId =>
         get_item(set_item(r, inst.cp, cp), c) = IF c = inst.cp THEN cp ELSE get_item(r, c)
  BY Sizes, ItemSet
<1>11. ASSUME NEW i \in 1 .. m, NEW id \in RobId, id = Place(SyncedRob, i)
       PROVE  Kept(id)
  <2>1. id # h
    BY <1>4, <1>11
  <2>2. PacksOf(id)' = PacksOf(id) /\ AnswersOf(id)' = AnswersOf(id) /\ Ent(id)' = Ent(id)
    BY <1>4, <2>1 DEF PacksOf, AnswersOf
  <2>3. Known(id)' = Known(id)
    BY <2>2, KnownKept
  <2>4. ASSUME Known(id).cp # NoId
        PROVE  Shown(id)' = Shown(id)
    <3>1. CASE inst.cp = NoId
      BY <1>8, <2>3, <3>1 DEF Shown
    <3>2. CASE inst.cp # NoId
      <4>1. /\ LiveCheckpoints[i] = Known(id).cp /\ i \in 1 .. Stream
            /\ LiveCheckpoints[m + 1] = inst.cp /\ m + 1 \in 1 .. Stream /\ i < m + 1
        <5>1. 1 \in 1 .. Len(front)
          BY <1>4
        <5>2. /\ Stream \in Nat /\ m \in 0 .. Stream
              /\ LiveCheckpoints[i] = Known(Place(SyncedRob, i)).cp
              /\ m + 1 \in 1 .. Stream /\ LiveCheckpoints[m + 1] = front[1].cp
          BY <1>0, <1>2, <5>1, CpApart
        <5> QED
          BY <1>4, <1>11, <5>2
      <4>2. /\ Known(id).cp \in CpId /\ inst.cp \in CpId
            /\ At(SyncedCp, Known(id).cp) < At(SyncedCp, inst.cp)
            /\ At(SyncedCp, Known(id).cp) \in 1 .. get_size(SyncedCp)
        BY <1>0, <1>2, <2>4, <3>2, <4>1, CpApart
      <4>3. PICK c \in CpId : c = Known(id).cp /\ c # inst.cp
        <5>1. get_size(r) \in Nat
          BY Sizes, SizeIs
        <5>2. Known(id).cp # inst.cp
          BY <1>9, <4>2, <5>1
        <5> QED
          BY <4>2, <5>2
      <4>4. get_item(SyncedCp', c) = get_item(SyncedCp, c)
        BY <1>8, <1>9, <1>10, <3>2, <4>2, <4>3
      <4> QED
        BY <2>3, <4>3, <4>4 DEF Shown
    <3> QED
      BY <3>1, <3>2
  <2> QED
    BY <2>3, <2>4 DEF Kept
<1>12. pack \in inflight'
  BY <1>4
<1>13. /\ Known(h)'.finish = "no" /\ Known(h)'.cp = inst.cp /\ Known(h)'.old = old
       /\ RefinedItem(h)' = [new |-> new, old |-> old, status |-> "waiting",
                             cp |-> IF inst.cp = NoId THEN {} ELSE Shown(h)'.visible]
  <2>1. Known(h)'.finish = "no" /\ Known(h)'.old = old
        /\ RefinedItem(h)' = [new |-> new, old |-> old, status |-> StatusOf(Known(h)'.finish),
                              cp |-> IF Known(h)'.cp = NoId THEN {} ELSE Shown(h)'.visible]
    BY <1>4, <1>5, <1>12 DEF SeenFacts
  <2>2. Known(h)'.cp = inst.cp
    <3>1. KnownFacts'
      BY <1>0, <1>2, KnownNext
    <3> QED
      BY <1>4, <1>12, <3>1 DEF KnownFacts
  <2>3. StatusOf("no") = "waiting"
    BY DEF StatusOf
  <2> QED
    BY <2>1, <2>2, <2>3, Zenon
<1>14. inst.cp # NoId => Shown(h)' = cp
  <2> SUFFICES ASSUME inst.cp # NoId
               PROVE  Shown(h)' = cp
    OBVIOUS
  <2>1. inst.cp \in CpId
    BY DEF Queued, FrontItem
  <2>2. get_item(SyncedCp', inst.cp) = cp
    BY <1>8, <1>9, <1>10, <2>1
  <2> QED
    BY <1>13, <2>2 DEF Shown
<1> DEFINE y == RP!NewItem(new, old, IF inst.cp # NoId THEN cp.visible ELSE {})
<1>15. RefinedItem(h)' = y
  BY <1>13, <1>14 DEF RP!NewItem
<1>16. RefinedRob' = Append(RefinedRob, y)
  <2> HIDE DEF y
  <2>1. RefinedRob' = [i \in 1 .. m + 1 |-> RefinedItem(Place(SyncedRob, i))']
    BY <1>5, <1>6 DEF RefinedFacts
  <2>2. PICK z \in Seq(RP!Item) : z = RefinedRob /\ Len(z) = m
    BY <1>7
  <2>3. Append(z, y) = [i \in 1 .. m + 1 |-> IF i = m + 1 THEN y ELSE z[i]]
    <3> DEFINE T == RP!Item \cup {y}
    <3>1. z \in Seq(T) /\ y \in T
      OBVIOUS
    <3> HIDE DEF T
    <3>2. PICK w \in Seq(T) : w = Append(z, y)
      BY <3>1, AppendProperties
    <3>3. Len(w) = m + 1 /\ w[m + 1] = y /\ \A i \in 1 .. m : w[i] = z[i]
      BY <2>2, <3>1, <3>2, AppendProperties
    <3>4. w = [i \in 1 .. Len(w) |-> w[i]]
      OBVIOUS
    <3>5. \A i \in 1 .. m + 1 : w[i] = IF i = m + 1 THEN y ELSE z[i]
      BY <1>4, <3>3
    <3> QED
      BY <3>2, <3>3, <3>4, <3>5
  <2>4. ASSUME NEW i \in 1 .. m + 1
        PROVE  RefinedItem(Place(SyncedRob, i))' = IF i = m + 1 THEN y ELSE z[i]
    <3>1. CASE i = m + 1
      BY <1>4, <1>15, <3>1
    <3>2. CASE i # m + 1
      <4>1. i \in 1 .. m
        BY <1>4, <3>2
      <4>2. PICK id \in RobId : id = Place(SyncedRob, i) /\ id = Place(SyncedRob', i)
        BY <1>4, <4>1
      <4>3. RefinedItem(id)' = RefinedItem(id)
        BY <1>11, <4>1, <4>2, SavedKept
      <4> QED
        BY <1>7, <2>2, <3>2, <4>1, <4>2, <4>3
    <3> QED
      BY <3>1, <3>2
  <2> QED
    BY <2>1, <2>2, <2>3, <2>4
<1>17. ASSUME cp.visible # {}, old # NoPhy => old \in cp.valid
       PROVE  SavedOK'
  <2>1. ASSUME NEW i \in 1 .. m + 1
        PROVE  Saved(Place(SyncedRob, i))'
    <3>1. CASE i = m + 1
      <4>1. Place(SyncedRob, i)' = h
        BY <1>4, <3>1
      <4> QED
        BY <1>13, <1>14, <1>17, <4>1 DEF Saved
    <3>2. CASE i # m + 1
      <4>1. i \in 1 .. m
        BY <1>4, <3>2
      <4>2. PICK id \in RobId : id = Place(SyncedRob, i) /\ id = Place(SyncedRob', i)
        BY <1>4, <4>1
      <4>3. Saved(id)
        BY <1>0, <1>2, <4>1, <4>2 DEF SavedOK
      <4>4. Saved(id)'
        BY <1>11, <4>1, <4>2, <4>3, SavedKept
      <4> QED
        BY <4>2, <4>4
    <3> QED
      BY <3>1, <3>2
  <2> QED
    BY <1>4, <2>1 DEF SavedOK
<1>18. Len(RefinedRob) < ROB_SIZE
  BY <1>4, <1>7, Sizes
<1> QED
  BY <1>2, <1>4, <1>16, <1>17, <1>18

\* How many mappings the group has asked for is a number.
LEMMA GroupCount == Types => IsFiniteSet(GroupMaps) /\ Cardinality(GroupMaps) \in Nat
<1> SUFFICES ASSUME Types
             PROVE  IsFiniteSet(GroupMaps) /\ Cardinality(GroupMaps) \in Nat
  OBVIOUS
<1>1. IsFiniteSet(DOMAIN rat_q)
  BY FS_Interval DEF Types
<1>2. GroupMaps \subseteq DOMAIN rat_q
  BY DEF GroupMaps
<1> QED
  BY <1>1, <1>2, FS_Subset, FS_CardinalityType

\* The group's register is none that the requests will leave allocated.
LEMMA NewPhyFree ==
  ASSUME Types, MapsOK, Straight, Cardinality(free_phy) > Cardinality(GroupMaps)
  PROVE  /\ new_phy_reg_id \in Phy /\ new_phy_reg_id \in free_phy
         /\ Cardinality(Below(new_phy_reg_id)) = Cardinality(GroupMaps)
         /\ new_phy_reg_id \notin GroupTable.valid
<1> DEFINE F == free_phy
           m == Cardinality(GroupMaps)
<1>1. F \subseteq Nat /\ F \subseteq Phy /\ IsFiniteSet(F)
  <2>1. IsFiniteSet(Phy) /\ Phy \subseteq Nat
    BY RatAssumption, FS_Interval DEF Phy
  <2>2. F \subseteq Phy
    BY DEF free_phy
  <2> QED
    BY <2>1, <2>2, FS_Subset
<1>2. m \in Nat
  BY GroupCount
<1> HIDE DEF m
<1>3. m < Cardinality(F) /\ Cardinality(F) \in Nat
  BY <1>1, <1>2, FS_CardinalityType DEF m
<1> HIDE DEF F
<1>4. \E p \in F : Cardinality({q \in F : q < p}) = m
  BY <1>1, <1>2, <1>3, Ranked
<1>5. \E p \in free_phy : Cardinality(Below(p)) = Cardinality(GroupMaps)
  BY <1>4 DEF F, m, Below
<1>6. PICK p \in free_phy : p = new_phy_reg_id /\ Cardinality(Below(p)) = m
  BY <1>5 DEF new_phy_reg_id, m
<1>7. p \in Phy /\ p \notin rat.valid
  BY DEF free_phy
<1>8. p \notin Given
  <2>1. ASSUME NEW k \in GroupMaps, rat_q[k].phy = p
        PROVE  FALSE
    <3>1. Cardinality(Below(rat_q[k].phy)) < m
      BY <2>1 DEF MapsOK, m
    <3> QED
      BY <1>2, <1>6, <2>1, <3>1
  <2> QED
    BY <2>1 DEF Given
<1>9. GroupTable.valid = rat.valid \cup Given
  BY DEF MapsOK
<1> QED
  BY <1>6, <1>7, <1>8, <1>9 DEF m

\* An instruction with a destination is one of Renaming.
LEMMA RenameDestSimulated ==
  ASSUME Whole, IInv', NEW rd \in Arch, RenameDest(rd)
  PROVE  [RP!Next]_(RP!vars) /\ MapsOK' /\ SavedOK' /\ RequestsLegal'
<1> DEFINE m == Cardinality(GroupMaps)
           n == Len(rat_q)
<1>0. /\ IInv /\ RP!IInv /\ RequestsLegal /\ Types /\ Turns /\ MapsOK
  BY DEF Whole, IInv
<1>1. /\ CanRename /\ Cardinality(free_phy) > m
      /\ rat_q' = Append(rat_q, SetMap(rd, new_phy_reg_id))
      /\ FillCheckpoint(Head(front), global_cp(rat_q'))
      /\ rat' = rat /\ data_valid' = data_valid /\ checkpoint_buffer' = checkpoint_buffer
      /\ reg_q' = reg_q /\ rob_q' = rob_q /\ cur_state' = cur_state /\ port' = port /\ feedback' = feedback
  BY DEF RenameDest, walk
<1>2. Straight /\ Straight'
  <2>1. stage \in {"wb", "rename"} /\ ~flushing
    BY <1>1 DEF CanRename
  <2> QED
    BY <1>0, <1>1, <2>1 DEF Turns, flushing, Straight
<1>3. PICK p \in Phy : /\ p = new_phy_reg_id /\ p \in free_phy /\ p \notin GroupTable.valid
                       /\ Cardinality(Below(p)) = m
  BY <1>0, <1>1, <1>2, NewPhyFree
<1>4. PICK old \in Phy : old \in OldPhy(rd) /\ Enter(Head(front), p, old)
  BY <1>0, <1>3, OldPhys DEF RenameDest
<1> DEFINE x == SetMap(rd, p)
<1>5. /\ x \in RatRequest /\ x.op = "set_map" /\ x.arch = rd /\ x.phy = p
      /\ \A t : ApplyRat(t, x) = set_map(t, rd, p) /\ ApplyMap(t, x) = set_map(t, rd, p)
      /\ \A t : Legal(t, x) <=> set_map_asserts(t, rd, p)
  BY DEF RatRequest, SetMap, ApplyRat, ApplyMap, Legal
<1> HIDE DEF x
<1>6. rat_q \in Seq(RatRequest) /\ rat_q' = Append(rat_q, x) /\ rat_q' \in Seq(RatRequest)
  <2>1. rat_q \in Seq(RatRequest) /\ rat_q' = Append(rat_q, x)
    BY <1>0, <1>1, <1>3 DEF Types, x
  <2> QED
    BY <1>5, <2>1, AppendProperties
<1>7. PICK g \in RatType, s \in RatType : g = GroupTable /\ s = SyncedRat
  <2>1. GroupTable \in RatType
    BY <1>0, <1>6, RatTyped DEF GroupTable, Types
  <2> QED
    BY <1>0, <2>1, TableFacts
<1>8. /\ g.visible = s.visible /\ \A q \in s.visible : g.table[q] = s.table[q]
      /\ s.valid \subseteq g.valid /\ g.valid = rat.valid \cup Given
      /\ \A a \in Arch : OldPhy(a) = get_phy_id(g, a)
      /\ \A k \in GroupMaps : rat_q[k].phy \in free_phy /\ Cardinality(Below(rat_q[k].phy)) < m
  BY <1>0, <1>2, <1>7 DEF MapsOK
<1>9. s.visible \subseteq s.valid /\ \A a \in Arch : IsOne(get_phy_id(s, a))
  BY <1>0, <1>7, TableFacts
<1>10. PICK u, v : u = set_map(g, rd, p) /\ v = set_map(s, rd, p)
  OBVIOUS
<1>11. /\ get_phy_id(g, rd) = get_phy_id(s, rd) /\ get_phy_id(g, rd) \subseteq g.valid
       /\ u.visible = v.visible /\ \A q \in v.visible : u.table[q] = v.table[q]
       /\ v.valid \subseteq u.valid /\ u.valid = g.valid \cup {p} /\ p \in v.visible
       /\ get_phy_id(u, rd) = {p}
       /\ \A rd2 \in Arch : rd2 # rd => get_phy_id(u, rd2) = get_phy_id(g, rd2)
  BY <1>3, <1>7, <1>8, <1>9, <1>10, MapBoth
<1>12. GroupTable' = u
  <2>1. MapsAfter(rat, Append(rat_q, x)) = ApplyMap(MapsAfter(rat, rat_q), x)
    BY <1>5, <1>6, MapsAfterAppend
  <2> QED
    BY <1>1, <1>5, <1>6, <1>7, <1>10, <2>1 DEF GroupTable
<1>13. SyncedRat' = v /\ RequestsLegal'
  <2>1. Legal(RatAfter(rat, rat_q), x)
    <3>1. set_map_asserts(s, rd, p)
      BY <1>3, <1>7, <1>8, <1>9 DEF set_map_asserts
    <3> QED
      BY <1>5, <1>7, <3>1 DEF SyncedRat
  <2>2. \A i \in 1 .. Len(rat_q) : Legal(RatAfter(rat, SubSeq(rat_q, 1, i - 1)), rat_q[i])
    BY <1>0 DEF RequestsLegal
  <2>3. /\ RatAfter(rat, Append(rat_q, x)) = ApplyRat(RatAfter(rat, rat_q), x)
        /\ \A i \in 1 .. Len(Append(rat_q, x)) :
             Legal(RatAfter(rat, SubSeq(Append(rat_q, x), 1, i - 1)), Append(rat_q, x)[i])
    BY <1>0, <1>5, <1>6, <2>1, <2>2, LegalAppend
  <2>4. SyncedRat' = v
    BY <1>1, <1>5, <1>6, <1>7, <1>10, <2>3 DEF SyncedRat
  <2>5. RequestsLegal'
    BY <1>1, <1>6, <2>3 DEF RequestsLegal
  <2> QED
    BY <2>4, <2>5
<1>14. PICK cp \in CheckpointType : /\ FillCheckpoint(Head(front), cp)
                                    /\ cp.visible = v.visible /\ cp.valid = u.valid
  <2>1. PICK q \in Seq(RatRequest) : q = rat_q'
    BY <1>6
  <2>2. global_cp(q) \in CheckpointType
    BY <1>0, GlobalCp
  <2>3. global_cp(q) = save(u)
    BY <1>1, <1>12, <2>1 DEF global_cp, GroupTable
  <2>4. save(u).visible = u.visible /\ save(u).valid = u.valid
    BY DEF save
  <2> QED
    BY <1>1, <1>11, <2>1, <2>2, <2>3, <2>4
<1>15. p # NoPhy /\ old # NoPhy
  BY RatAssumption DEF Phy, NoPhy
<1>16. /\ Straight /\ Straight' /\ cur_state = "normal" /\ Len(RefinedRob) < ROB_SIZE
       /\ RefinedRob' = Append(RefinedRob, RP!NewItem(p, old, IF Head(front).cp # NoId THEN cp.visible ELSE {}))
       /\ cp.visible # {} /\ (old # NoPhy => old \in cp.valid) => SavedOK'
  BY <1>1, <1>4, <1>14, <1>15, EnterSimulated
<1>17. old \in get_phy_id(s, rd) /\ old \in u.valid
  BY <1>4, <1>8, <1>11
<1>18. SavedOK'
  BY <1>11, <1>14, <1>16, <1>17
<1>19. RP!Next
  <2>1. PICK predicted \in BOOLEAN : predicted = (Head(front).cp # NoId)
    OBVIOUS
  <2>2. RefinedRob' = Append(RefinedRob, RP!NewItem(p, old, IF predicted THEN SyncedRat'.visible ELSE {}))
    BY <1>13, <1>14, <1>16, <2>1
  <2>3. p \notin SyncedRat.valid /\ RP!Phy = Phy /\ RP!Arch = Arch
    BY <1>3, <1>7, <1>8, SameTable
  <2>4. SyncedRat' = RP!set_map(SyncedRat, rd, p) /\ old \in RP!get_phy_id(SyncedRat, rd)
    BY <1>7, <1>10, <1>13, <1>17, SameTable
  <2>5. SyncedData' = SyncedData
    BY <1>1 DEF SyncedData
  <2>6. RP!RenameDest(rd, p, predicted)
    BY <1>1, <1>16, <2>2, <2>3, <2>4, <2>5 DEF RP!RenameDest
  <2> QED
    BY <2>3, <2>6 DEF RP!Next
<1>20. MapsOK'
  <2>1. /\ n \in Nat /\ DOMAIN rat_q = 1 .. n /\ DOMAIN rat_q' = 1 .. n + 1
        /\ rat_q'[n + 1] = x /\ \A k \in 1 .. n : rat_q'[k] = rat_q[k]
    <3>1. PICK q \in Seq(RatRequest) : q = rat_q
      BY <1>6
    <3>2. /\ Len(q) \in Nat /\ DOMAIN q = 1 .. Len(q)
      OBVIOUS
    <3>3. /\ DOMAIN Append(q, x) = 1 .. Len(q) + 1
          /\ Append(q, x)[Len(q) + 1] = x /\ \A k \in 1 .. Len(q) : Append(q, x)[k] = q[k]
      BY <1>5, AppendProperties, <3>2
    <3> QED
      BY <1>6, <3>1, <3>2, <3>3
  <2> HIDE DEF n
  <2>2. GroupMaps' = GroupMaps \cup {n + 1} /\ GroupMaps \subseteq 1 .. n
    BY <1>5, <2>1 DEF GroupMaps
  <2>3. IsFiniteSet(GroupMaps) /\ n + 1 \notin GroupMaps
    <3>1. IsFiniteSet(1 .. n)
      BY <2>1, FS_Interval
    <3>2. IsFiniteSet(GroupMaps)
      BY <2>2, <3>1, FS_Subset
    <3>3. n + 1 \notin 1 .. n
      BY <2>1
    <3> QED
      BY <2>2, <3>2, <3>3
  <2>4. Cardinality(GroupMaps') = m + 1 /\ m \in Nat
    BY <2>2, <2>3, FS_AddElement, FS_CardinalityType
  <2>5. free_phy' = free_phy /\ \A q : Below(q)' = Below(q)
    BY <1>1 DEF free_phy, Below
  <2>6. ASSUME NEW k \in GroupMaps'
        PROVE  rat_q'[k].phy \in free_phy' /\ Cardinality(Below(rat_q[k].phy)') < Cardinality(GroupMaps')
    <3>1. PICK q : q = rat_q'[k].phy
      OBVIOUS
    <3>2. q \in free_phy /\ Cardinality(Below(q)) < m + 1
      <4>1. CASE k = n + 1
        BY <1>3, <1>5, <2>1, <2>4, <3>1, <4>1
      <4>2. CASE k # n + 1
        <5>1. k \in GroupMaps /\ q = rat_q[k].phy
          BY <2>1, <2>2, <3>1, <4>2
        <5>2. q \in free_phy /\ Cardinality(Below(q)) < m
          BY <1>8, <5>1
        <5>3. Cardinality(Below(q)) \in Nat
          <6>1. IsFiniteSet(Phy)
            BY RatAssumption, FS_Interval DEF Phy
          <6>2. Below(q) \subseteq Phy
            BY DEF Below, free_phy
          <6> QED
            BY <6>1, <6>2, FS_Subset, FS_CardinalityType
        <5> QED
          BY <2>4, <5>2, <5>3
      <4> QED
        BY <4>1, <4>2
    <3>3. Below(rat_q[k].phy)' = Below(q)
      BY <2>5, <3>1
    <3> QED
      BY <2>4, <2>5, <3>1, <3>2, <3>3
  <2>7. Given' = Given \cup {p}
    <3>1. Given' = {rat_q'[k].phy : k \in GroupMaps \cup {n + 1}}
      BY <2>2 DEF Given
    <3>2. \A k \in GroupMaps : rat_q'[k].phy = rat_q[k].phy
      BY <2>1, <2>2
    <3>3. rat_q'[n + 1].phy = p
      BY <1>5, <2>1
    <3> QED
      BY <3>1, <3>2, <3>3 DEF Given
  <2>8. ASSUME NEW a \in Arch
        PROVE  OldPhy(a)' = get_phy_id(u, a)
    <3> DEFINE mine == {k \in GroupMaps : rat_q[k].arch = a}
               now == {k \in GroupMaps' : rat_q'[k].arch = a}
    <3>1. OldPhy(a) = IF mine = {} THEN get_phy_id(rat, a)
                      ELSE {rat_q[CHOOSE k \in mine : \A l \in mine : l <= k].phy}
      BY DEF OldPhy
    <3>2. OldPhy(a)' = IF now = {} THEN get_phy_id(rat, a)
                      ELSE {rat_q'[CHOOSE k \in now : \A l \in now : l <= k].phy}
      BY <1>1 DEF OldPhy
    <3>3. CASE a = rd
      <4>1. n + 1 \in now /\ \A l \in now : l <= n + 1
        BY <1>5, <2>1, <2>2, <3>3
      <4>2. now \subseteq Nat
        <5>1. now \subseteq GroupMaps'
          OBVIOUS
        <5>2. 1 .. n \subseteq Nat /\ n + 1 \in Nat
          BY <2>1
        <5> HIDE DEF now
        <5> QED
          BY <2>2, <5>1, <5>2
      <4> HIDE DEF now
      <4>3. (CHOOSE k \in now : \A l \in now : l <= k) = n + 1
        <5>1. \A k \in now : (\A l \in now : l <= k) => k = n + 1
          BY <2>1, <4>1, <4>2
        <5> QED
          BY <4>1, <5>1
      <4>4. OldPhy(a)' = {rat_q'[n + 1].phy}
        BY <3>2, <4>1, <4>3
      <4> QED
        BY <1>5, <1>11, <2>1, <3>3, <4>4
    <3>4. CASE a # rd
      <4>1. now = mine
        BY <1>5, <2>1, <2>2, <3>4
      <4>2. OldPhy(a)' = OldPhy(a)
        <5>1. CASE mine = {}
          BY <3>1, <3>2, <4>1, <5>1
        <5>2. CASE mine # {}
          <6> DEFINE k == CHOOSE k \in mine : \A l \in mine : l <= k
          <6>1. k \in mine
            <7>1. mine \subseteq Nat /\ IsFiniteSet(mine)
              <8>1. mine \subseteq GroupMaps
                OBVIOUS
              <8>2. 1 .. n \subseteq Nat
                BY <2>1
              <8> HIDE DEF mine
              <8> QED
                BY <2>2, <2>3, <8>1, <8>2, FS_Subset
            <7> HIDE DEF mine
            <7>2. \E j \in mine : \A l \in mine : l <= j
              BY <5>2, <7>1, Greatest
            <7> QED
              BY <7>2
          <6>2. OldPhy(a) = {rat_q[k].phy} /\ OldPhy(a)' = {rat_q'[k].phy}
            BY <3>1, <3>2, <4>1, <5>2
          <6> HIDE DEF k
          <6>3. rat_q'[k] = rat_q[k]
            BY <2>1, <2>2, <6>1
          <6> QED
            BY <6>2, <6>3
        <5> QED
          BY <5>1, <5>2
      <4> QED
        BY <1>8, <1>11, <3>4, <4>2
    <3> QED
      BY <3>3, <3>4
  <2>9. /\ GroupTable'.visible = SyncedRat'.visible
        /\ \A q \in SyncedRat'.visible : GroupTable'.table[q] = SyncedRat'.table[q]
        /\ SyncedRat'.valid \subseteq GroupTable'.valid
        /\ GroupTable'.valid = rat'.valid \cup Given'
        /\ \A a \in Arch : OldPhy(a)' = get_phy_id(GroupTable', a)
    BY <1>1, <1>8, <1>11, <1>12, <1>13, <2>7, <2>8
  <2> QED
    BY <2>6, <2>9 DEF MapsOK
<1> QED
  BY <1>13, <1>18, <1>19, <1>20

\* An instruction without one is one of Renaming.
LEMMA RenameNoDestSimulated ==
  ASSUME Whole, IInv', RenameNoDest
  PROVE  [RP!Next]_(RP!vars) /\ MapsOK' /\ SavedOK' /\ RequestsLegal'
<1>0. /\ IInv /\ RP!IInv /\ RequestsLegal /\ Types /\ Turns /\ MapsOK
  BY DEF Whole, IInv
<1>1. /\ CanRename /\ Enter(Head(front), NoPhy, NoPhy)
      /\ FillCheckpoint(Head(front), global_cp(rat_q)) /\ rat_q' = rat_q
      /\ rat' = rat /\ data_valid' = data_valid /\ checkpoint_buffer' = checkpoint_buffer
      /\ reg_q' = reg_q /\ rob_q' = rob_q /\ cur_state' = cur_state /\ port' = port /\ feedback' = feedback
  BY DEF RenameNoDest, walk
<1>2. Straight
  <2>1. stage \in {"wb", "rename"} /\ ~flushing
    BY <1>1 DEF CanRename
  <2> QED
    BY <1>0, <1>1, <2>1 DEF Turns, flushing, Straight
<1>3. SyncedRat' = SyncedRat /\ RequestsLegal' /\ MapsOK'
  BY <1>0, <1>1, MapsSame
<1>4. PICK cp \in CheckpointType : FillCheckpoint(Head(front), cp) /\ cp.visible = SyncedRat.visible
  <2>1. PICK q \in Seq(RatRequest) : q = rat_q
    BY <1>0 DEF Types
  <2>2. global_cp(q) \in CheckpointType
    BY <1>0, GlobalCp
  <2>3. global_cp(q).visible = GroupTable.visible
    BY <2>1 DEF global_cp, save, GroupTable
  <2>4. GroupTable.visible = SyncedRat.visible
    BY <1>0, <1>2 DEF MapsOK
  <2> QED
    BY <1>1, <2>1, <2>2, <2>3, <2>4
<1>5. cp.visible # {}
  <2>1. 1 \in Arch
    BY RatAssumption DEF Arch
  <2>2. IsOne(get_phy_id(SyncedRat, 1))
    BY <1>0, <2>1, TableFacts
  <2> QED
    BY <1>4, <2>2 DEF IsOne, get_phy_id
<1>6. /\ cur_state = "normal" /\ Len(RefinedRob) < ROB_SIZE
      /\ RefinedRob' = Append(RefinedRob, RP!NewItem(NoPhy, NoPhy, IF Head(front).cp # NoId THEN cp.visible ELSE {}))
      /\ cp.visible # {} => SavedOK'
  BY <1>1, <1>4, EnterSimulated
<1>7. RP!Next
  <2>1. PICK predicted \in BOOLEAN : predicted = (Head(front).cp # NoId)
    OBVIOUS
  <2>2. RefinedRob' = Append(RefinedRob, RP!NewItem(NoPhy, NoPhy, IF predicted THEN SyncedRat.visible ELSE {}))
    BY <1>4, <1>6, <2>1
  <2>3. SyncedData' = SyncedData /\ RP!NoPhy = NoPhy
    BY <1>1, SameTable DEF SyncedData
  <2>4. RP!RenameNoDest(predicted)
    BY <1>1, <1>3, <1>6, <2>2, <2>3 DEF RP!RenameNoDest
  <2> QED
    BY <2>4 DEF RP!Next
<1> QED
  BY <1>3, <1>5, <1>6, <1>7

-----------------------------------------------------------------------------
(* The machine implements Renaming.                                        *)

\* At reset nothing waits and nothing is in flight.
LEMMA WholeInit ==
  ASSUME Init
  PROVE  Whole /\ RP!Init
<1>1. IInv /\ Types /\ RingsOK /\ WalkOK
  BY InitHolds DEF IInv
<1>2. << >> \in Seq({0}) /\ 0 \in {0}
  OBVIOUS
<1>3. /\ SyncedRat = reset_map /\ SyncedData = Arch /\ SyncedRob = rob /\ GroupTable = rat
      /\ rat = reset_map
  BY <1>2, RatAfterAppend, RegAfterAppend, RingAfterAppend, MapsAfterAppend
     DEF Init, SyncedRat, SyncedData, SyncedRob, GroupTable
<1>4. get_size(SyncedRob) = 0
  BY <1>3, Sizes, EmptyRing DEF Init
<1>5. Live = 0 /\ RefinedFacts
  BY <1>1, <1>4, RefinedIs DEF Init, Live
<1>6. RefinedRob = << >>
  <2>1. RefinedRob = [i \in 1 .. 0 |-> RefinedItem(Place(SyncedRob, i))]
    BY <1>5 DEF RefinedFacts
  <2> QED
    BY <2>1
<1>7. RP!Init
  <2>1. RP!reset_map = reset_map /\ RP!Arch = Arch
    BY SameTable DEF RP!reset_map, reset_map
  <2> QED
    BY <1>3, <1>6, <2>1 DEF RP!Init, Init
<1>8. RP!IInv
  BY <1>7, RP!InitInv, RenamingAssumptions
<1>9. GroupMaps = {}
  BY DEF Init, GroupMaps
<1>10. Given = {} /\ \A rd : OldPhy(rd) = get_phy_id(rat, rd)
  BY <1>9 DEF Given, OldPhy
<1>11. MapsOK
  BY <1>3, <1>9, <1>10 DEF MapsOK
<1>12. SavedOK
  BY <1>4 DEF SavedOK
<1>13. RequestsLegal
  BY DEF Init, RequestsLegal
<1> QED
  BY <1>1, <1>7, <1>8, <1>11, <1>12, <1>13 DEF Whole

\* Each step of the machine is one Renaming allows, or one it does not see.
LEMMA WholeStep ==
  ASSUME Whole, [Next]_vars
  PROVE  Whole' /\ [RP!Next]_(RP!vars)
<1>1. IInv'
  BY StepHolds DEF Whole
<1>2. [RP!Next]_(RP!vars) /\ MapsOK' /\ SavedOK' /\ RequestsLegal'
  <2>1. CASE Interrupt
    <3>1. Looking /\ StartWalkBack("interrupt_flush")
      BY <2>1 DEF Interrupt
    <3> QED
      BY <1>1, <3>1, FlushSimulated
  <2>2. CASE Exception
    <3>1. Looking /\ StartWalkBack("flush") /\ rob_item.finish = "exception"
      BY <2>2 DEF Exception
    <3> QED
      BY <1>1, <3>1, FlushSimulated
  <2>3. CASE Retire
    BY <1>1, <2>3, RetireSimulated
  <2>4. CASE Mispredict
    BY <1>1, <2>4, MispredictSimulated
  <2>5. CASE CommitInput
    BY <1>1, <2>5, CommitInputSimulated
  <2>6. CASE WalkBack
    BY <1>1, <2>6, WalkBackSimulated
  <2>7. ASSUME NEW pack \in inflight, NEW result \in ResultsOf(pack), WriteBack(pack, result)
        PROVE  [RP!Next]_(RP!vars) /\ MapsOK' /\ SavedOK' /\ RequestsLegal'
    BY <1>1, <2>7, WriteBackSimulated
  <2>8. ASSUME NEW rd \in Arch, RenameDest(rd)
        PROVE  [RP!Next]_(RP!vars) /\ MapsOK' /\ SavedOK' /\ RequestsLegal'
    BY <1>1, <2>8, RenameDestSimulated
  <2>9. CASE RenameNoDest
    BY <1>1, <2>9, RenameNoDestSimulated
  <2>10. ASSUME NEW group \in FetchGroup, FetchAndSync(group)
         PROVE  [RP!Next]_(RP!vars) /\ MapsOK' /\ SavedOK' /\ RequestsLegal'
    BY <1>1, <2>10, FetchSimulated
  <2>11. CASE FlushAndSync
    BY <1>1, <2>11, FlushAndSyncSimulated
  <2>12. CASE UNCHANGED vars
    BY <1>1, <2>12, NothingSimulated
  <2> QED
    BY <2>1, <2>2, <2>3, <2>4, <2>5, <2>6, <2>7, <2>8, <2>9, <2>10, <2>11, <2>12 DEF Next
<1>3. RP!IInv'
  <2>1. RP!IInv /\ [RP!Next]_(RP!vars)
    BY <1>2 DEF Whole
  <2> QED
    BY <2>1, RP!StepInv, RenamingAssumptions
<1> QED
  BY <1>1, <1>2, <1>3 DEF Whole

\* The machine and what Renaming sees of it, in every state.
LEMMA WholeHolds == Spec => [](Whole)
<1>1. Init => Whole
  BY WholeInit
<1>2. Whole /\ [Next]_vars => Whole'
  BY WholeStep
<1> QED
  BY <1>1, <1>2, PTL DEF Spec

(***************************************************************************)
(* The requests the stages of a cycle leave for the alias table can be     *)
(* applied one after the other: none of the assertions of the functions    *)
(* rat.h:518-550 then calls fails, whatever the sizes of the machine.      *)
(***************************************************************************)
THEOREM RequestsAreLegal == Spec => []RequestsLegal
<1>1. Whole => RequestsLegal
  BY DEF Whole
<1> QED
  BY <1>1, WholeHolds, PTL

(***************************************************************************)
(* The checkpoint of a mispredicted branch that reaches commit was filled  *)
(* in by rename, holds the register its branch hides, allocated, and shows *)
(* exactly one register per architectural register: the assertions of      *)
(* commit.cpp:803 and 825 and rat.h:460-466 hold.                          *)
(***************************************************************************)
THEOREM RestoresAssert == Spec => []RestoreAsserts
<1>1. Whole => RestoreAsserts
  <2> SUFFICES ASSUME Whole, Looking, rob_item.finish = "miss"
               PROVE  RestoreAsserts
    BY DEF RestoreAsserts
  <2> DEFINE c == get_item(checkpoint_buffer, rob_item.cp)
             h == Head(RefinedRob)
  <2>1. IInv /\ RP!IInv /\ SavedOK /\ Types /\ Turns /\ RingsOK
    BY DEF Whole, IInv
  <2>2. /\ Straight /\ Live = get_size(SyncedRob) /\ Live \in 1 .. ROB_SIZE /\ Len(RefinedRob) = Live
        /\ h = RefinedRob[1] /\ h.old = rob_item.old /\ Known(current_id) = rob_item
        /\ h.cp = IF rob_item.cp = NoId THEN {} ELSE c.visible
    BY <2>1, HeadItem
  <2>3. Place(SyncedRob, 1) = current_id /\ SyncedCp = checkpoint_buffer /\ rob_item \in Entry
    BY <2>1, HeadIs
  <2>4. rob_item.cp # NoId /\ c \in CheckpointType
    BY <2>1, <2>3, HeadCheckpoint DEF Entry
  <2>5. Shown(current_id) = c
    BY <2>2, <2>3 DEF Shown
  <2>6. Saved(current_id)
    <3>1. 1 \in 1 .. get_size(SyncedRob)
      BY <2>2, Sizes
    <3> QED
      BY <2>1, <2>2, <2>3, <3>1 DEF SavedOK
  <2>7. c.visible # {} /\ (rob_item.old # NoPhy => rob_item.old \in c.valid)
    BY <2>2, <2>4, <2>5, <2>6 DEF Saved
  <2>8. h.cp = c.visible
    BY <2>2, <2>4
  <2>9. rob_item.old \notin c.visible /\ Cardinality(c.visible) = ARCH_REG_NUM - 1
    <3>1. 1 \in 1 .. Len(RefinedRob)
      BY <2>2, Sizes
    <3>2. RefinedRob[1].cp # {} /\ RefinedRob[1].old = rob_item.old /\ RefinedRob[1].cp = c.visible
      BY <2>2, <2>7, <2>8
    <3> QED
      BY <2>1, <3>1, <3>2, CheckpointFacts
  <2>10. c # Dead
    BY <2>4, DeadIsNone
  <2> HIDE DEF c
  <2>11. rob_item.old # NoPhy => cp_release_map_asserts(c, rob_item.old)
    BY <2>7, <2>9 DEF cp_release_map_asserts
  <2> QED
    BY <2>9, <2>10, <2>11 DEF RestoreAsserts, c
<1> QED
  BY <1>1, WholeHolds, PTL

\* RenamingProofs speaks of the same machine as Renaming.
LEMMA SameRenaming == R!vars = RP!vars /\ (RP!Init => R!Init) /\ (RP!Next => R!Next)
<1>1. R!vars = RP!vars
  BY DEF R!vars, RP!vars
<1>2. RP!Init => R!Init
  BY DEF R!Init, RP!Init, R!reset_map, RP!reset_map, R!Arch, RP!Arch, R!Phy, RP!Phy
<1>3. /\ R!Phy = RP!Phy /\ R!Arch = RP!Arch /\ R!NoPhy = RP!NoPhy
  BY DEF R!Phy, RP!Phy, R!Arch, RP!Arch, R!NoPhy, RP!NoPhy
<1>4. \A r, a : R!get_phy_id(r, a) = RP!get_phy_id(r, a)
  BY DEF R!get_phy_id, RP!get_phy_id
<1>5. \A r, a, p : R!set_map(r, a, p) = RP!set_map(r, a, p)
  BY <1>4 DEF R!set_map, RP!set_map
<1>6. /\ \A r, p : R!release_map(r, p) = RP!release_map(r, p) /\ R!commit_map(r, p) = RP!commit_map(r, p)
      /\ \A r, p, q : R!restore_map(r, p, q) = RP!restore_map(r, p, q)
      /\ \A r, cp : R!restore(r, cp) = RP!restore(r, cp)
  BY DEF R!release_map, RP!release_map, R!commit_map, RP!commit_map, R!restore_map, RP!restore_map,
         R!restore, RP!restore
<1>7. \A new, old, cp : R!NewItem(new, old, cp) = RP!NewItem(new, old, cp)
  BY DEF R!NewItem, RP!NewItem
<1>8. \A item : R!Retired(item) = RP!Retired(item)
  BY <1>3, <1>6, Zenon DEF R!Retired, RP!Retired
<1>9. R!Forgotten = RP!Forgotten /\ R!Last = RP!Last
  BY DEF R!Forgotten, RP!Forgotten, R!Last, RP!Last
<1>10. ASSUME NEW a, NEW p, NEW predicted, RP!RenameDest(a, p, predicted)
       PROVE  R!RenameDest(a, p, predicted)
  BY <1>3, <1>4, <1>5, <1>7, <1>10 DEF R!RenameDest, RP!RenameDest
<1>11. ASSUME NEW predicted, RP!RenameNoDest(predicted)
       PROVE  R!RenameNoDest(predicted)
  BY <1>3, <1>7, <1>11 DEF R!RenameNoDest, RP!RenameNoDest
<1>12. ASSUME NEW j, NEW status, RP!WriteBack(j, status)
       PROVE  R!WriteBack(j, status)
  BY <1>3, <1>12 DEF R!WriteBack, RP!WriteBack
<1>13. RP!CommitHead => R!CommitHead
  BY <1>8 DEF R!CommitHead, RP!CommitHead
<1>14. RP!Mispredict => R!Mispredict
  BY <1>6, <1>8 DEF R!Mispredict, RP!Mispredict
<1>15. (RP!Exception => R!Exception) /\ (RP!Interrupt => R!Interrupt)
  BY <1>9 DEF R!Exception, RP!Exception, R!Interrupt, RP!Interrupt
<1>16. RP!Undo => R!Undo
  BY <1>3, <1>6, <1>9 DEF R!Undo, RP!Undo
<1>17. RP!Next => R!Next
  BY <1>3, <1>10, <1>11, <1>12, <1>13, <1>14, <1>15, <1>16 DEF R!Next, RP!Next
<1> QED
  BY <1>1, <1>2, <1>17

(***************************************************************************)
(* For every number of registers, every size of the rings and every width  *)
(* of a group, the cycle-level machine does to the alias table, the data-  *)
(* valid bits and the reorder buffer only what Renaming allows             *)
(* (main.cpp:1061-1123; commit.cpp, rename.cpp, wb.cpp).                   *)
(***************************************************************************)
THEOREM PipelineImplementsRenaming == Spec => ImplementsRenaming
<1>1. Init => R!Init
  BY WholeInit, SameRenaming
<1>2. Whole /\ [Next]_vars => [R!Next]_(R!vars)
  <2> SUFFICES ASSUME Whole, [Next]_vars
               PROVE  [R!Next]_(R!vars)
    OBVIOUS
  <2>1. [RP!Next]_(RP!vars)
    BY WholeStep
  <2>2. CASE RP!Next
    BY <2>2, SameRenaming
  <2>3. CASE UNCHANGED RP!vars
    BY <2>3 DEF R!vars, RP!vars
  <2> QED
    BY <2>1, <2>2, <2>3
<1> QED
  BY <1>1, <1>2, WholeHolds, PTL DEF Spec, ImplementsRenaming, R!Spec

\* The promises of Renaming, in a state of the machine.
Promises ==
  /\ R!RatAssertsHold /\ R!NoRegisterLeak /\ R!PreciseWhenEmpty
  /\ R!RestoredStateIsReal /\ R!FreeHasNoData

\* The invariant has them all.
LEMMA WholeMeansPromises ==
  ASSUME Whole
  PROVE  Promises
<1>1. RP!RatAssertsHold /\ RP!NoRegisterLeak /\ RP!PreciseWhenEmpty /\ RP!RestoredStateIsReal /\ RP!FreeHasNoData
  BY RP!InvMeansAsserts, RP!InvMeansNoLeak, RP!InvMeansPrecise, RP!InvMeansRestored, RenamingAssumptions
     DEF Whole, RP!IInv, RP!DataOK, RP!FreeHasNoData
<1>2. R!Phy = RP!Phy /\ R!Arch = RP!Arch /\ R!NoPhy = RP!NoPhy
  BY DEF R!Phy, RP!Phy, R!Arch, RP!Arch, R!NoPhy, RP!NoPhy
<1>3. /\ \A r, a : R!get_phy_id(r, a) = RP!get_phy_id(r, a)
      /\ \A r, a : R!get_commit_phy_id(r, a) = RP!get_commit_phy_id(r, a)
  BY DEF R!get_phy_id, RP!get_phy_id, R!get_commit_phy_id, RP!get_commit_phy_id
<1>4. \A r, p : R!release_map(r, p) = RP!release_map(r, p) /\ R!commit_map(r, p) = RP!commit_map(r, p)
  BY DEF R!release_map, RP!release_map, R!commit_map, RP!commit_map
<1>5. R!Committed = RP!Committed
  BY DEF R!Committed, RP!Committed
<1>6. \A item : R!Retired(item) = RP!Retired(item)
  BY <1>2, <1>4, Zenon DEF R!Retired, RP!Retired
<1>7. \A S : R!IsOne(S) <=> RP!IsOne(S)
  BY DEF R!IsOne, RP!IsOne
<1>8. R!RatAssertsHold
  <2>1. \A a \in R!Arch : R!IsOne(R!get_phy_id(SyncedRat, a)) /\ R!IsOne(R!get_commit_phy_id(SyncedRat, a))
    BY <1>1, <1>2, <1>3, <1>7 DEF RP!RatAssertsHold
  <2>2. /\ \A r, p : R!release_map_asserts(r, p) <=> RP!release_map_asserts(r, p)
        /\ \A r, p : R!commit_map_asserts(r, p) <=> RP!commit_map_asserts(r, p)
        /\ \A r, p, q : R!restore_map_asserts(r, p, q) <=> RP!restore_map_asserts(r, p, q)
        /\ R!Last = RP!Last
    BY DEF R!release_map_asserts, RP!release_map_asserts, R!commit_map_asserts, RP!commit_map_asserts,
           R!restore_map_asserts, RP!restore_map_asserts, R!Last, RP!Last
  <2>3. cur_state = "normal" /\ RefinedRob # << >> /\ Head(RefinedRob).new # R!NoPhy =>
          /\ R!release_map_asserts(SyncedRat, Head(RefinedRob).old)
          /\ R!commit_map_asserts(R!release_map(SyncedRat, Head(RefinedRob).old), Head(RefinedRob).new)
    BY <1>1, <1>2, <1>4, <2>2, Zenon DEF RP!RatAssertsHold
  <2>4. cur_state # "normal" /\ RefinedRob # << >> /\ R!Last.new # R!NoPhy =>
          R!restore_map_asserts(SyncedRat, R!Last.new, R!Last.old)
    BY <1>1, <1>2, <2>2, Zenon DEF RP!RatAssertsHold
  <2> QED
    BY <2>1, <2>3, <2>4 DEF R!RatAssertsHold
<1>9. R!NoRegisterLeak
  BY <1>1, <1>2, <1>3, <1>5 DEF R!NoRegisterLeak, RP!NoRegisterLeak, R!RegistersOK, RP!RegistersOK
<1>10. R!PreciseWhenEmpty /\ R!FreeHasNoData
  BY <1>1, <1>5 DEF R!PreciseWhenEmpty, RP!PreciseWhenEmpty, R!FreeHasNoData, RP!FreeHasNoData
<1>11. R!RestoredStateIsReal
  BY <1>1, <1>6 DEF R!RestoredStateIsReal, RP!RestoredStateIsReal
<1> QED
  BY <1>8, <1>9, <1>10, <1>11 DEF Promises

(***************************************************************************)
(* What Renaming promises holds of the machine with the requests of the    *)
(* cycle applied, for all sizes: no assertion of rat.h fails, no physical  *)
(* register is lost, a flush leaves the committed mapping, a checkpoint    *)
(* that is restored is the mapping of its branch with all its data written *)
(* (commit.cpp:819 has this as an assertion commented out), and the        *)
(* committed mapping changes only as the oldest instruction retires.       *)
(***************************************************************************)
THEOREM PipelineKeepsPromises == Spec => []Promises /\ R!CommittedChangesInOrder
<1>1. Whole => Promises
  BY WholeMeansPromises
<1>2. Whole /\ [Next]_vars =>
        [\A a \in R!Arch :
           R!get_commit_phy_id(SyncedRat, a)' # R!get_commit_phy_id(SyncedRat, a) =>
             /\ RefinedRob # << >> /\ Head(RefinedRob).status \in {"done", "missed"}
             /\ R!get_commit_phy_id(SyncedRat, a) = {Head(RefinedRob).old}
             /\ R!get_commit_phy_id(SyncedRat, a)' = {Head(RefinedRob).new}]_(R!vars)
  <2> SUFFICES ASSUME Whole, [Next]_vars, NEW a \in R!Arch,
                      R!get_commit_phy_id(SyncedRat, a)' # R!get_commit_phy_id(SyncedRat, a)
               PROVE  /\ RefinedRob # << >> /\ Head(RefinedRob).status \in {"done", "missed"}
                      /\ R!get_commit_phy_id(SyncedRat, a) = {Head(RefinedRob).old}
                      /\ R!get_commit_phy_id(SyncedRat, a)' = {Head(RefinedRob).new}
    OBVIOUS
  <2>1. RP!IInv /\ [RP!Next]_(RP!vars)
    BY WholeStep DEF Whole
  <2>2. RP!InOrder
    BY <2>1, RP!StepInOrder, RenamingAssumptions
  <2>3. /\ R!Arch = RP!Arch
        /\ R!get_commit_phy_id(SyncedRat, a) = RP!get_commit_phy_id(SyncedRat, a)
        /\ R!get_commit_phy_id(SyncedRat, a)' = RP!get_commit_phy_id(SyncedRat, a)'
    BY DEF R!Arch, RP!Arch, R!get_commit_phy_id, RP!get_commit_phy_id
  <2> QED
    BY <2>2, <2>3 DEF RP!InOrder
<1> QED
  BY <1>1, <1>2, WholeHolds, PTL DEF Spec, R!CommittedChangesInOrder

=============================================================================
