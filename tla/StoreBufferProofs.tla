-------------------------- MODULE StoreBufferProofs --------------------------
(***************************************************************************)
(* Proofs about StoreBuffer, for every program, size and width: the        *)
(* inductive invariant, what follows from it, and that the load-store unit *)
(* and the buffer implement SequentialMemory.  Identifiers are compared by *)
(* their age, the place they have in the reorder buffer; the ring lemmas   *)
(* are in RingProofs.                                                      *)
(***************************************************************************)
EXTENDS StoreBuffer, RingProofs, SequenceTheorems

Length == {1, 2, 4}
Bytes  == UNION {[0 .. n - 1 -> Byte] : n \in Length}
Value  == {NoValue} \cup Bytes
Pack   == [id : RobId, op : Op]
Reply  == [id : RobId, result : {"ok", "exception"}, value : Value]
Entry  == [op : Op, finish : {"no", "ok", "exception", "miss"}, value : Value]

Item ==
  {x \in [rob_id : RobId, addr : Addr, size : Length, data : Bytes, committed : BOOLEAN] :
     x.data \in [0 .. x.size - 1 -> Byte] /\ Span(x) \subseteq Addr}

\* What is on its way to the unit, what it has answered, what it has stored.
Waiting  == hold_rev_pack \o issue_q
Answered == ToSet(lsu_wb_port) \cup ToSet(wb_commit_port)
Buffered == Items \o push_q
Straight == ~walking /\ ~flush_feedback

Age(id)    == At(rob, id)
InRob(id)  == Age(id) <= get_size(rob)
Ent(id)    == get_item(rob, id)
Access(id) == Ent(id).op.kind # "other"
IsWaiting(id) == \E k \in DOMAIN Waiting : Waiting[k].id = id

\* The store still has to retire.
Pending(item) == ~Named(item).committed

\* What an entry or an answer holds that has this result.
Fits(op, result, value) ==
  /\ result \in {"no", "exception", "miss"} => value = NoValue
  /\ op.kind # "load" => value = NoValue
  /\ op.kind = "load" /\ result = "ok" => value # NoValue
  /\ op.kind # "other" => result # "miss"

Types ==
  /\ memory \in [Addr -> Byte]
  /\ store_buffer \in Rings(STORE_BUFFER_SIZE, Item) /\ rob \in Rings(ROB_SIZE, Entry)
  /\ push_q \in Seq(Item) /\ Len(push_q) <= 1 /\ \A i \in DOMAIN push_q : ~push_q[i].committed
  /\ hold_rev_pack \in Seq(Pack) /\ Len(hold_rev_pack) <= 1 /\ issue_q \in Seq(Pack)
  /\ lsu_wb_port \in Seq(Reply) /\ Len(lsu_wb_port) <= 1
  /\ wb_commit_port \in Seq(Reply) /\ Len(wb_commit_port) <= 1
  /\ walking \in BOOLEAN /\ flush_feedback \in BOOLEAN /\ committed_rob_id \subseteq RobId
  /\ stage \in {"commit", "lsu", "rename"} /\ slot \in 0 .. COMMIT_WIDTH

\* In which turns what can be on its way.
Turns ==
  /\ stage # "rename" => push_q = << >>
  /\ push_q # << >> => ~is_full(store_buffer) /\ Head(push_q).rob_id \notin committed_rob_id
  /\ stage = "commit" => ~flush_feedback
  /\ stage = "lsu" /\ Straight => wb_commit_port = << >>
  /\ walking /\ stage # "commit" => flush_feedback
  /\ ~Straight =>
       /\ get_size(rob) = 0 /\ slot = 0 /\ push_q = << >>
       /\ stage # "lsu" => Waiting = << >> /\ lsu_wb_port = << >> /\ wb_commit_port = << >>

EntriesFit ==
  \A id \in RobId : InRob(id) => Fits(Ent(id).op, Ent(id).finish, Ent(id).value)

Retiring ==
  /\ slot <= get_size(rob)
  /\ \A id \in RobId : Age(id) <= slot => Ent(id).finish = "ok"
  /\ committed_rob_id = {id \in RobId : Age(id) <= slot}

PacksRight ==
  \A k \in DOMAIN Waiting :
    LET id == Waiting[k].id
    IN  InRob(id) /\ Access(id) /\ Ent(id).op = Waiting[k].op /\ Ent(id).finish = "no"

PacksOrdered ==
  \A k, l \in DOMAIN Waiting : k < l => Age(Waiting[k].id) < Age(Waiting[l].id)

AnswersRight ==
  /\ \A a \in Answered :
       /\ InRob(a.id) /\ Access(a.id) /\ Ent(a.id).finish = "no" /\ ~IsWaiting(a.id)
       /\ Fits(Ent(a.id).op, a.result, a.value)
  /\ \A a \in ToSet(lsu_wb_port), b \in ToSet(wb_commit_port) : a.id # b.id

\* Loads and stores are executed in their order.
InOrder ==
  \A id \in RobId : InRob(id) /\ Access(id) /\ ~IsWaiting(id) =>
    /\ Ent(id).finish = "no" => \E a \in Answered : a.id = id
    /\ \A k \in DOMAIN Waiting : Age(id) < Age(Waiting[k].id)

Matches(item, op) == item.addr = op.addr /\ item.size = op.size /\ item.data = op.data

CommittedFirst ==
  \A i, j \in DOMAIN Buffered : i < j /\ Pending(Buffered[i]) => Pending(Buffered[j])

PendingRight ==
  \A i \in DOMAIN Buffered : Pending(Buffered[i]) =>
    LET id == Buffered[i].rob_id
    IN  InRob(id) /\ Age(id) > slot /\ Executed(id) /\ Matches(Buffered[i], Ent(id).op)

PendingOrdered ==
  \A i, j \in DOMAIN Buffered : i < j /\ Pending(Buffered[i]) /\ Pending(Buffered[j]) =>
    Age(Buffered[i].rob_id) < Age(Buffered[j].rob_id)

ExecutedPending ==
  \A id \in RobId : InRob(id) /\ Age(id) > slot /\ Executed(id) =>
    \E i \in DOMAIN Buffered : Pending(Buffered[i]) /\ Buffered[i].rob_id = id

InFlight == EntriesFit /\ Retiring /\ PacksRight /\ PacksOrdered /\ AnswersRight /\ InOrder
PendingStores == PendingRight /\ PendingOrdered /\ ExecutedPending

IInv ==
  /\ Types
  /\ Turns
  /\ CommittedFirst
  /\ Straight => InFlight
  /\ Straight => PendingStores

-----------------------------------------------------------------------------
(* What the types say.                                                     *)

LEMMA Sizes ==
  /\ ROB_SIZE \in Nat \ {0} /\ STORE_BUFFER_SIZE \in Nat \ {0} /\ COMMIT_WIDTH \in Nat \ {0}
  /\ RobId = 0 .. ROB_SIZE - 1 /\ Addr \subseteq Nat /\ Image \in [Addr -> Byte]
BY StoreBufferAssumption DEF RobId

\* Ages are the places of the entries.
LEMMA Ages ==
  ASSUME Types
  PROVE  /\ \A id \in RobId : Age(id) \in 1 .. ROB_SIZE /\ Place(rob, Age(id)) = id
         /\ \A id \in RobId : Age(id) \in Nat
         /\ slot \in Nat /\ get_size(rob) \in Nat
         /\ \A i \in 1 .. ROB_SIZE : Place(rob, i) \in RobId /\ Age(Place(rob, i)) = i
         /\ get_size(rob) \in 0 .. ROB_SIZE
<1>1. ROB_SIZE \in Nat \ {0} /\ rob \in Rings(ROB_SIZE, Entry) /\ RobId = 0 .. ROB_SIZE - 1
  BY Sizes DEF Types
<1>2. \A id \in RobId : Age(id) \in 1 .. ROB_SIZE /\ Place(rob, Age(id)) = id
  BY <1>1, PlaceAt DEF Age
<1>3. \A i \in 1 .. ROB_SIZE : Place(rob, i) \in RobId /\ Age(Place(rob, i)) = i
  BY <1>1, AtPlace DEF Age
<1>4. get_size(rob) \in 0 .. ROB_SIZE
  BY <1>1, SizeIs
<1>5. slot \in Nat
  BY DEF Types
<1> QED
  BY <1>1, <1>2, <1>3, <1>4, <1>5

LEMMA SameAge ==
  ASSUME Types, NEW x \in RobId, NEW y \in RobId, Age(x) = Age(y)
  PROVE  x = y
BY Ages

LEMMA Entries ==
  ASSUME Types, NEW id \in RobId, InRob(id)
  PROVE  Ent(id) \in Entry
BY ItemAt, Sizes DEF Types, InRob, Age, Ent

\* The entry commit looks at.
LEMMA Current ==
  ASSUME Types, slot < get_size(rob)
  PROVE  /\ current_id \in RobId /\ Age(current_id) = slot + 1 /\ InRob(current_id)
         /\ rob_item = Ent(current_id)
<1>1. slot + 1 \in 1 .. ROB_SIZE
  BY Ages, Sizes DEF Types
<1>2. current_id = Place(rob, slot + 1)
  <2>1. SizeOf(rob) = ROB_SIZE /\ rob.rptr \in 0 .. ROB_SIZE - 1
    BY ShapeFacts, Sizes DEF Types
  <2> DEFINE x == rob.rptr + slot
             y == rob.rptr + (slot + 1) - 1
  <2>2. x = y
    BY <2>1 DEF Types
  <2>3. current_id = x % ROB_SIZE /\ Place(rob, slot + 1) = y % ROB_SIZE
    BY <2>1 DEF current_id, Place
  <2> HIDE DEF x, y
  <2> QED
    BY <2>2, <2>3
<1>3. current_id \in RobId /\ Age(current_id) = slot + 1
  BY <1>1, <1>2, Ages
<1> QED
  BY <1>3, Ages DEF InRob, rob_item, Ent, Types

LEMMA WaitingSeq ==
  ASSUME Types
  PROVE  /\ Waiting \in Seq(Pack) /\ DOMAIN Waiting = 1 .. Len(Waiting) /\ Len(Waiting) \in Nat
         /\ \A k \in DOMAIN Waiting : Waiting[k].id \in RobId /\ Waiting[k].op \in Op
<1>1. hold_rev_pack \in Seq(Pack) /\ issue_q \in Seq(Pack)
  BY DEF Types
<1>2. Waiting \in Seq(Pack)
  BY <1>1 DEF Waiting
<1>3. DOMAIN Waiting = 1 .. Len(Waiting) /\ Len(Waiting) \in Nat
  BY <1>2
<1>4. \A k \in DOMAIN Waiting : Waiting[k] \in Pack
  BY <1>2
<1> QED
  BY <1>2, <1>3, <1>4 DEF Pack

LEMMA ElementsOf ==
  ASSUME NEW T, NEW s \in Seq(T)
  PROVE  ToSet(s) \subseteq T
BY DEF ToSet

LEMMA PortIs ==
  ASSUME NEW T, NEW s \in Seq(T), Len(s) <= 1
  PROVE  s = << >> \/ \E x \in T : s = <<x>>
<1>1. CASE Len(s) = 0
  BY <1>1
<1>2. CASE Len(s) = 1
  <2>1. s[1] \in T /\ s = <<s[1]>>
    BY <1>2
  <2> QED
    BY <2>1
<1>3. Len(s) \in Nat
  OBVIOUS
<1>4. Len(s) = 0 \/ Len(s) = 1
  BY <1>3
<1> QED
  BY <1>1, <1>2, <1>4, Zenon

LEMMA AnsweredSet ==
  ASSUME Types
  PROVE  Answered \subseteq Reply /\ \A a \in Answered : a.id \in RobId
<1>1. Answered \subseteq Reply
  BY ElementsOf DEF Types, Answered
<1> QED
  BY <1>1 DEF Reply

LEMMA BufferedSeq ==
  ASSUME Types
  PROVE  /\ Items \in Seq(Item) /\ Len(Items) = get_size(store_buffer)
         /\ Len(Items) \in 0 .. STORE_BUFFER_SIZE /\ DOMAIN Items = 1 .. Len(Items)
         /\ \A i \in 1 .. Len(Items) : Items[i] = get_item(store_buffer, Place(store_buffer, i))
         /\ Buffered \in Seq(Item) /\ Len(Buffered) = Len(Items) + Len(push_q)
         /\ DOMAIN Buffered = 1 .. Len(Items) + Len(push_q)
<1> DEFINE n == get_size(store_buffer)
           ids == LiveIds(store_buffer)
<1>1. n \in 0 .. STORE_BUFFER_SIZE
  BY SizeIs, Sizes DEF Types
<1>2. DOMAIN ids = 1 .. n /\ \A i \in 1 .. n : ids[i] = Place(store_buffer, i)
  BY LiveIdsIs, Sizes DEF Types
<1>3. \A i \in 1 .. n : get_item(store_buffer, Place(store_buffer, i)) \in Item
  BY DEF Types, Rings
<1>4. Items = [i \in 1 .. n |-> get_item(store_buffer, ids[i])]
  BY <1>2 DEF Items
<1> HIDE DEF n, ids
<1>5. Items \in Seq(Item) /\ Len(Items) = n
  BY <1>1, <1>2, <1>3, <1>4
<1>6. DOMAIN Items = 1 .. n /\ \A i \in 1 .. n : Items[i] = get_item(store_buffer, Place(store_buffer, i))
  BY <1>2, <1>4
<1>7. push_q \in Seq(Item)
  BY DEF Types
<1>8. Buffered \in Seq(Item) /\ Len(Buffered) = Len(Items) + Len(push_q)
  BY <1>5, <1>7 DEF Buffered
<1> QED
  BY <1>1, <1>5, <1>6, <1>8 DEF n

LEMMA BufferedItem ==
  ASSUME Types, NEW i \in DOMAIN Buffered
  PROVE  /\ Buffered[i] \in Item /\ Buffered[i].rob_id \in RobId /\ i \in Nat
         /\ Buffered[i].committed \in BOOLEAN
BY BufferedSeq DEF Item

\* The answer for an entry, by what the ports and the buffer hold.
AnswerIn(p, q, r, id) ==
  IF p # << >> /\ Head(p).id = id THEN Head(p)
  ELSE IF q # << >> /\ Head(q).id = id THEN Head(q)
  ELSE [id |-> id, result |-> get_item(r, id).finish, value |-> get_item(r, id).value]

LEMMA AnswerInIs ==
  ASSUME NEW p \in Seq(Reply), Len(p) <= 1, NEW q \in Seq(Reply), Len(q) <= 1,
         NEW r, NEW id
  PROVE  /\ (\A a \in ToSet(p), b \in ToSet(q) : a.id # b.id) =>
              \A a \in ToSet(p) \cup ToSet(q) : a.id = id => AnswerIn(p, q, r, id) = a
         /\ (\A a \in ToSet(p) \cup ToSet(q) : a.id # id) =>
              AnswerIn(p, q, r, id) =
                [id |-> id, result |-> get_item(r, id).finish, value |-> get_item(r, id).value]
<1>1. /\ p = << >> \/ \E x \in Reply : p = <<x>>
      /\ q = << >> \/ \E x \in Reply : q = <<x>>
  BY PortIs
<1>2. (p = << >> => ToSet(p) = {}) /\ (q = << >> => ToSet(q) = {})
  BY DEF ToSet
<1>3. (p # << >> => ToSet(p) = {Head(p)}) /\ (q # << >> => ToSet(q) = {Head(q)})
  BY <1>1 DEF ToSet
<1>4. ASSUME \A a \in ToSet(p), b \in ToSet(q) : a.id # b.id,
             NEW a \in ToSet(p) \cup ToSet(q), a.id = id
      PROVE  AnswerIn(p, q, r, id) = a
  <2>1. CASE a \in ToSet(p)
    BY <1>2, <1>3, <1>4, <2>1 DEF AnswerIn
  <2>2. CASE a \in ToSet(q)
    <3>1. p # << >> => Head(p).id # id
      BY <1>3, <1>4, <2>2
    <3> QED
      BY <1>2, <1>3, <1>4, <2>2, <3>1 DEF AnswerIn
  <2> QED
    BY <1>4, <2>1, <2>2
<1>5. ASSUME \A a \in ToSet(p) \cup ToSet(q) : a.id # id
      PROVE  AnswerIn(p, q, r, id) =
               [id |-> id, result |-> get_item(r, id).finish, value |-> get_item(r, id).value]
  BY <1>3, <1>5 DEF AnswerIn
<1> QED
  BY <1>4, <1>5

LEMMA AnswerIs ==
  ASSUME Types, NEW id
  PROVE  /\ AnswersRight => \A a \in Answered : a.id = id => AnswerTo(id) = a
         /\ (\A a \in Answered : a.id # id) =>
              AnswerTo(id) = [id |-> id, result |-> Ent(id).finish, value |-> Ent(id).value]
<1>1. AnswerTo(id) = AnswerIn(lsu_wb_port, wb_commit_port, rob, id)
  BY DEF AnswerTo, AnswerIn
<1>2. /\ lsu_wb_port \in Seq(Reply) /\ Len(lsu_wb_port) <= 1
      /\ wb_commit_port \in Seq(Reply) /\ Len(wb_commit_port) <= 1
  BY DEF Types
<1> QED
  BY <1>1, <1>2, AnswerInIs DEF AnswersRight, Answered, Ent

LEMMA AnswerNext ==
  ASSUME Types', NEW id
  PROVE  /\ AnswersRight' => \A a \in Answered' : a.id = id => AnswerTo(id)' = a
         /\ (\A a \in Answered' : a.id # id) =>
              AnswerTo(id)' = [id |-> id, result |-> Ent(id)'.finish, value |-> Ent(id)'.value]
<1>1. AnswerTo(id)' = AnswerIn(lsu_wb_port', wb_commit_port', rob', id)
  BY DEF AnswerTo, AnswerIn
<1>2. /\ lsu_wb_port' \in Seq(Reply) /\ Len(lsu_wb_port') <= 1
      /\ wb_commit_port' \in Seq(Reply) /\ Len(wb_commit_port') <= 1
  BY DEF Types
<1> DEFINE p == lsu_wb_port'
           q == wb_commit_port'
           r == rob'
<1>3. Answered' = ToSet(p) \cup ToSet(q) /\ Ent(id)' = get_item(r, id)
  BY DEF Answered, Ent
<1>4. AnswersRight' => \A a \in ToSet(p), b \in ToSet(q) : a.id # b.id
  BY DEF AnswersRight
<1>5. AnswerTo(id)' = AnswerIn(p, q, r, id) /\ p \in Seq(Reply) /\ Len(p) <= 1
      /\ q \in Seq(Reply) /\ Len(q) <= 1
  BY <1>1, <1>2
<1> HIDE DEF p, q, r
<1>6. /\ (\A a \in ToSet(p), b \in ToSet(q) : a.id # b.id) =>
              \A a \in ToSet(p) \cup ToSet(q) : a.id = id => AnswerIn(p, q, r, id) = a
      /\ (\A a \in ToSet(p) \cup ToSet(q) : a.id # id) =>
              AnswerIn(p, q, r, id) =
                [id |-> id, result |-> get_item(r, id).finish, value |-> get_item(r, id).value]
  BY <1>5, AnswerInIs
<1> QED
  BY <1>3, <1>4, <1>5, <1>6

-----------------------------------------------------------------------------
(* What stays true when little changes.                                    *)

LEMMA SameBuffer ==
  ASSUME UNCHANGED <<store_buffer, push_q>>
  PROVE  Items' = Items /\ Buffered' = Buffered
BY DEF Items, Buffered

LEMMA SameWaiting ==
  ASSUME UNCHANGED <<hold_rev_pack, issue_q>>
  PROVE  Waiting' = Waiting /\ \A id : IsWaiting(id)' <=> IsWaiting(id)
BY DEF Waiting, IsWaiting

LEMMA SameRob ==
  ASSUME UNCHANGED rob
  PROVE  /\ get_size(rob)' = get_size(rob)
         /\ \A id : Age(id)' = Age(id) /\ (InRob(id)' <=> InRob(id)) /\ Ent(id)' = Ent(id)
         /\ \A id : Access(id)' <=> Access(id)
BY DEF Age, InRob, Ent, Access

LEMMA SameAnswers ==
  ASSUME UNCHANGED <<lsu_wb_port, wb_commit_port>>
  PROVE  Answered' = Answered
BY DEF Answered

LEMMA SameAnswerTo ==
  ASSUME UNCHANGED <<rob, lsu_wb_port, wb_commit_port>>
  PROVE  \A id : AnswerTo(id)' = AnswerTo(id) /\ (Executed(id)' <=> Executed(id))
BY DEF AnswerTo, Executed

LEMMA AgesNext ==
  ASSUME Types'
  PROVE  \A id \in RobId : Age(id)' \in 1 .. ROB_SIZE
<1>1. ROB_SIZE \in Nat \ {0} /\ rob' \in Rings(ROB_SIZE, Entry) /\ RobId = 0 .. ROB_SIZE - 1
  BY Sizes DEF Types
<1> DEFINE r == rob'
<1> HIDE DEF r
<1>2. \A id \in RobId : At(r, id) \in 1 .. ROB_SIZE
  BY <1>1, PlaceAt DEF r
<1> QED
  BY <1>2 DEF Age, r

\* The order in the reorder buffer, the operations and the results are the
\* same for the entries that were there, and a new one has no result.
Follows ==
  \A id \in RobId : InRob(id)' /\ Age(id)' > slot' =>
    IF InRob(id) /\ Age(id) > slot
    THEN Ent(id)'.op = Ent(id).op /\ (Executed(id)' <=> Executed(id))
    ELSE ~Executed(id)'

Stays ==
  \A id \in RobId : InRob(id) /\ Age(id) > slot =>
    InRob(id)' /\ Age(id)' - slot' = Age(id) - slot

LEMMA PendingStay ==
  ASSUME Types, Types', PendingStores, Buffered' = Buffered,
         \A x \in Item : Pending(x)' <=> Pending(x),
         Follows, Stays
  PROVE  PendingStores'
<1>1. /\ \A i \in DOMAIN Buffered : Buffered[i] \in Item /\ Buffered[i].rob_id \in RobId /\ i \in Nat
      /\ \A i \in DOMAIN Buffered : Pending(Buffered[i])' <=> Pending(Buffered[i])
  BY BufferedItem
<1>2. \A id \in RobId : Age(id) \in Nat /\ Age(id)' \in Nat
  <2>1. \A id \in RobId : Age(id) \in 1 .. ROB_SIZE
    BY Ages
  <2>2. \A id \in RobId : Age(id)' \in 1 .. ROB_SIZE
    BY AgesNext
  <2> QED
    BY <2>1, <2>2, Sizes
<1>3. slot \in Nat /\ slot' \in Nat
  BY DEF Types
<1>4. ASSUME NEW i \in DOMAIN Buffered, Pending(Buffered[i])
      PROVE  LET id == Buffered[i].rob_id
             IN  /\ InRob(id) /\ Age(id) > slot /\ Executed(id) /\ Matches(Buffered[i], Ent(id).op)
                 /\ InRob(id)' /\ Age(id)' > slot' /\ Age(id)' - slot' = Age(id) - slot
                 /\ Executed(id)' /\ Matches(Buffered[i], Ent(id)'.op)
  <2> DEFINE id == Buffered[i].rob_id
  <2>1. id \in RobId /\ InRob(id) /\ Age(id) > slot /\ Executed(id) /\ Matches(Buffered[i], Ent(id).op)
    BY <1>1, <1>4 DEF PendingStores, PendingRight
  <2>2. InRob(id)' /\ Age(id)' - slot' = Age(id) - slot
    BY <2>1 DEF Stays
  <2>3. Age(id)' > slot'
    BY <1>2, <1>3, <2>1, <2>2
  <2> QED
    BY <2>1, <2>2, <2>3 DEF Follows
<1>5. PendingRight'
  BY <1>1, <1>4 DEF PendingRight
<1>6. PendingOrdered'
  <2> SUFFICES ASSUME NEW i \in DOMAIN Buffered, NEW j \in DOMAIN Buffered, i < j,
                      Pending(Buffered[i]), Pending(Buffered[j])
               PROVE  Age(Buffered[i].rob_id)' < Age(Buffered[j].rob_id)'
    BY <1>1 DEF PendingOrdered
  <2>1. Age(Buffered[i].rob_id) < Age(Buffered[j].rob_id)
    BY DEF PendingStores, PendingOrdered
  <2> QED
    BY <1>1, <1>2, <1>3, <1>4, <2>1
<1>7. ExecutedPending'
  <2> SUFFICES ASSUME NEW id \in RobId, InRob(id)', Age(id)' > slot', Executed(id)'
               PROVE  \E i \in DOMAIN Buffered : Pending(Buffered[i]) /\ Buffered[i].rob_id = id
    BY <1>1 DEF ExecutedPending
  <2>1. InRob(id) /\ Age(id) > slot /\ Executed(id)
    BY DEF Follows
  <2> QED
    BY <2>1 DEF PendingStores, ExecutedPending
<1> QED
  BY <1>5, <1>6, <1>7 DEF PendingStores

-----------------------------------------------------------------------------
(* Initial states, and commit.                                             *)

LEMMA InitOK == Init => IInv
<1> SUFFICES ASSUME Init
             PROVE  IInv
  OBVIOUS
<1>1. /\ rob \in Rings(ROB_SIZE, Entry) /\ get_size(rob) = 0
      /\ store_buffer \in Rings(STORE_BUFFER_SIZE, Item) /\ get_size(store_buffer) = 0
  BY EmptyRing, Sizes DEF Init
<1>2. Types
  <2>1. << >> \in Seq(Item) /\ << >> \in Seq(Pack) /\ << >> \in Seq(Reply) /\ Len(<< >>) = 0
    OBVIOUS
  <2>2. 0 \in 0 .. COMMIT_WIDTH
    BY Sizes
  <2>3. memory \in [Addr -> Byte]
    BY Sizes DEF Init
  <2>4. push_q \in Seq(Item) /\ Len(push_q) <= 1 /\ \A i \in DOMAIN push_q : ~push_q[i].committed
    <3>1. push_q = << >> /\ DOMAIN push_q = {}
      BY DEF Init
    <3> QED
      BY <3>1
  <2> QED
    BY <1>1, <2>1, <2>2, <2>3, <2>4 DEF Init, Types
<1>3. Waiting = << >> /\ Answered = {} /\ DOMAIN Buffered = {}
  <2>1. Waiting = << >> /\ ToSet(<< >>) = {}
    BY DEF Init, Waiting, ToSet
  <2>2. DOMAIN Buffered = 1 .. get_size(store_buffer) + Len(push_q)
    BY <1>2, BufferedSeq
  <2>3. Len(push_q) = 0
    BY DEF Init
  <2> QED
    BY <1>1, <2>1, <2>2, <2>3 DEF Init, Answered
<1>4. \A id \in RobId : ~InRob(id) /\ ~(Age(id) <= slot)
  <2>1. \A id \in RobId : Age(id) \in 1 .. ROB_SIZE
    BY <1>2, Ages
  <2> QED
    BY <1>1, <2>1, Sizes DEF InRob, Init
<1>5. Turns
  BY <1>1, <1>3 DEF Turns, Init, Straight
<1>6. InFlight
  BY <1>1, <1>3, <1>4 DEF InFlight, Init, EntriesFit, Retiring, PacksRight, PacksOrdered,
                          AnswersRight, InOrder, ToSet
<1>7. CommittedFirst /\ PendingStores
  BY <1>3, <1>4 DEF CommittedFirst, PendingStores, PendingRight, PendingOrdered, ExecutedPending
<1> QED
  BY <1>2, <1>5, <1>6, <1>7 DEF IInv

\* What is known while commit looks at an entry.
LEMMA LookingFacts ==
  ASSUME IInv, Looking
  PROVE  /\ Types /\ Turns /\ CommittedFirst /\ InFlight /\ PendingStores
         /\ stage = "commit" /\ ~walking /\ ~flush_feedback /\ push_q = << >>
         /\ slot < get_size(rob) /\ slot < COMMIT_WIDTH /\ slot \in Nat
         /\ current_id \in RobId /\ Age(current_id) = slot + 1 /\ InRob(current_id)
         /\ rob_item = Ent(current_id) /\ rob_item \in Entry
         /\ rob_item.finish # "no" => AnswerTo(current_id).result = rob_item.finish
<1>1. /\ Types /\ Turns /\ CommittedFirst /\ InFlight /\ PendingStores
      /\ stage = "commit" /\ ~walking /\ ~flush_feedback /\ push_q = << >>
  BY DEF IInv, Looking, Turns, Straight
<1>2. slot < get_size(rob) /\ slot < COMMIT_WIDTH /\ slot \in Nat
  BY <1>1 DEF Looking, Types
<1>3. /\ current_id \in RobId /\ Age(current_id) = slot + 1 /\ InRob(current_id)
      /\ rob_item = Ent(current_id)
  BY <1>1, <1>2, Current
<1>4. rob_item \in Entry
  BY <1>1, <1>3, Entries
<1>5. rob_item.finish # "no" => AnswerTo(current_id).result = rob_item.finish
  <2> SUFFICES ASSUME rob_item.finish # "no"
               PROVE  AnswerTo(current_id).result = rob_item.finish
    OBVIOUS
  <2>1. \A a \in Answered : a.id # current_id
    BY <1>1, <1>3 DEF InFlight, AnswersRight
  <2>2. AnswerTo(current_id) = [id |-> current_id, result |-> Ent(current_id).finish,
                                value |-> Ent(current_id).value]
    BY <1>1, <1>3, <2>1, AnswerIs
  <2> QED
    BY <1>3, <2>2
<1> QED
  BY <1>1, <1>2, <1>3, <1>4, <1>5

\* The entry that commit names is none whose store is pending, or it is the
\* oldest of them.
LEMMA CommittedStaysFirst ==
  ASSUME IInv, Looking, Buffered' = Buffered, committed_rob_id' = committed_rob_id \cup {current_id},
         rob_item.finish # "no"
  PROVE  CommittedFirst'
<1>1. /\ Types /\ CommittedFirst /\ PendingStores /\ slot \in Nat
      /\ current_id \in RobId /\ Age(current_id) = slot + 1
  BY LookingFacts
<1>2. \A x \in Item : Pending(x)' <=> Pending(x) /\ x.rob_id # current_id
  BY DEF Pending, Named, Item
<1>3. SUFFICES ASSUME NEW i \in DOMAIN Buffered, NEW j \in DOMAIN Buffered, i < j,
                      Pending(Buffered[i])', Buffered' = Buffered
               PROVE  Pending(Buffered[j])'
  BY DEF CommittedFirst
<1>4. Buffered[i] \in Item /\ Buffered[j] \in Item /\ Buffered[i].rob_id \in RobId
  BY <1>1, BufferedItem
<1>5. Pending(Buffered[i]) /\ Pending(Buffered[j])
  BY <1>1, <1>2, <1>3, <1>4 DEF CommittedFirst
<1>6. Age(Buffered[i].rob_id) > slot /\ Age(Buffered[i].rob_id) < Age(Buffered[j].rob_id)
  BY <1>1, <1>3, <1>5 DEF PendingStores, PendingRight, PendingOrdered
<1>7. Age(Buffered[i].rob_id) \in Nat /\ Age(Buffered[j].rob_id) \in Nat
  <2>1. Buffered[j].rob_id \in RobId
    BY <1>1, BufferedItem
  <2> QED
    BY <1>1, <1>4, <2>1, Ages, Sizes
<1>8. Buffered[j].rob_id # current_id
  BY <1>1, <1>6, <1>7
<1> QED
  BY <1>2, <1>4, <1>5, <1>8

LEMMA FlushedAtCommit ==
  ASSUME IInv, Looking, rob' = flush(rob), slot' = 0, stage' = "lsu", flush_feedback' = TRUE,
         walking' \in BOOLEAN,
         committed_rob_id' = committed_rob_id \/
           /\ committed_rob_id' = committed_rob_id \cup {current_id}
           /\ rob_item.finish # "no",
         UNCHANGED <<stores, push_q, units, wb_commit_port>>
  PROVE  IInv'
<1>1. Types /\ Turns /\ CommittedFirst /\ push_q = << >> /\ current_id \in RobId
  BY LookingFacts
<1>2. rob' \in Rings(ROB_SIZE, Entry) /\ get_size(rob)' = 0
  BY <1>1, FlushRing, Sizes DEF Types
<1>3. Types'
  <2>1. committed_rob_id' \subseteq RobId
    BY <1>1 DEF Types
  <2>2. 0 \in 0 .. COMMIT_WIDTH
    BY Sizes
  <2> QED
    BY <1>1, <1>2, <2>1, <2>2 DEF Types, stores, units
<1>4. Turns'
  BY <1>1, <1>2 DEF Turns, Straight
<1>5. Buffered' = Buffered
  BY SameBuffer DEF stores
<1>6. CommittedFirst'
  <2>1. CASE committed_rob_id' = committed_rob_id
    <3>1. \A x : Pending(x)' <=> Pending(x)
      BY <2>1 DEF Pending, Named
    <3> QED
      BY <1>1, <1>5, <3>1 DEF CommittedFirst
  <2>2. CASE committed_rob_id' = committed_rob_id \cup {current_id} /\ rob_item.finish # "no"
    BY <1>5, <2>2, CommittedStaysFirst
  <2> QED
    BY <2>1, <2>2
<1>7. ~Straight'
  BY DEF Straight
<1> QED
  BY <1>3, <1>4, <1>6, <1>7 DEF IInv

LEMMA InterruptOK == IInv /\ Interrupt => IInv'
<1> SUFFICES ASSUME IInv, Interrupt
             PROVE  IInv'
  OBVIOUS
<1> QED
  BY FlushedAtCommit DEF Interrupt, StartWalkBack

LEMMA ExceptionOK == IInv /\ Exception => IInv'
<1> SUFFICES ASSUME IInv, Exception
             PROVE  IInv'
  OBVIOUS
<1> QED
  BY FlushedAtCommit DEF Exception, StartWalkBack

LEMMA MispredictOK == IInv /\ Mispredict => IInv'
<1> SUFFICES ASSUME IInv, Mispredict
             PROVE  IInv'
  OBVIOUS
<1>1. walking \in BOOLEAN /\ walking' = walking
  BY LookingFacts DEF Mispredict, Types
<1> QED
  BY <1>1, FlushedAtCommit DEF Mispredict

LEMMA RetireOK == IInv /\ Retire => IInv'
<1> SUFFICES ASSUME IInv, Retire
             PROVE  IInv'
  OBVIOUS
<1>1. /\ Looking /\ rob_item.finish = "ok"
      /\ committed_rob_id' = committed_rob_id \cup {current_id} /\ slot' = slot + 1
      /\ UNCHANGED <<stores, push_q, rob, units, wb_commit_port, walking, flush_feedback, stage>>
  BY DEF Retire
<1>2. /\ Types /\ Turns /\ InFlight /\ PendingStores /\ stage = "commit" /\ Straight
      /\ slot < get_size(rob) /\ slot < COMMIT_WIDTH /\ slot \in Nat
      /\ current_id \in RobId /\ Age(current_id) = slot + 1 /\ InRob(current_id)
      /\ rob_item = Ent(current_id)
  BY <1>1, LookingFacts DEF Straight
<1>3. Types'
  BY <1>1, <1>2, Sizes DEF Types, stores, units
<1>4. Turns'
  <2>1. Waiting' = Waiting /\ get_size(rob)' = get_size(rob) /\ Straight' = Straight
    BY <1>1, SameWaiting, SameRob DEF units, Straight
  <2> QED
    BY <1>1, <1>2, <2>1 DEF Turns, stores, units
<1>5. Buffered' = Buffered
  BY <1>1, SameBuffer DEF stores
<1>6. CommittedFirst'
  BY <1>1, <1>5, CommittedStaysFirst
<1>7. /\ get_size(rob)' = get_size(rob) /\ Waiting' = Waiting /\ Answered' = Answered
      /\ \A id : Age(id)' = Age(id) /\ (InRob(id)' <=> InRob(id)) /\ Ent(id)' = Ent(id)
      /\ \A id : (Access(id)' <=> Access(id)) /\ (IsWaiting(id)' <=> IsWaiting(id))
      /\ \A id : Executed(id)' <=> Executed(id)
  BY <1>1, SameRob, SameWaiting, SameAnswers, SameAnswerTo DEF units
<1>8. /\ EntriesFit' /\ PacksRight' /\ PacksOrdered' /\ InOrder'
  BY <1>2, <1>7 DEF InFlight, EntriesFit, PacksRight, PacksOrdered, InOrder
<1>9. AnswersRight'
  <2>1. AnswersRight /\ UNCHANGED <<lsu_wb_port, wb_commit_port>>
    BY <1>1, <1>2 DEF InFlight, units
  <2> QED
    BY <1>7, <2>1 DEF AnswersRight
<1>10. \A id \in RobId : Age(id) \in Nat /\ (Age(id) <= slot + 1 <=> Age(id) <= slot \/ id = current_id)
  <2> SUFFICES ASSUME NEW id \in RobId
               PROVE  Age(id) \in Nat /\ (Age(id) <= slot + 1 <=> Age(id) <= slot \/ id = current_id)
    OBVIOUS
  <2>1. Age(id) \in Nat /\ (Age(id) = Age(current_id) => id = current_id)
    BY <1>2, Ages, SameAge, Sizes
  <2> QED
    BY <1>2, <2>1
<1>11. Retiring'
  <2>1. slot' <= get_size(rob)'
    BY <1>1, <1>2, <1>7, Ages
  <2>2. \A id \in RobId : Age(id)' <= slot' => Ent(id)'.finish = "ok"
    BY <1>1, <1>2, <1>7, <1>10 DEF InFlight, Retiring
  <2>3. committed_rob_id' = {id \in RobId : Age(id)' <= slot'}
    BY <1>1, <1>2, <1>7, <1>10 DEF InFlight, Retiring
  <2> QED
    BY <2>1, <2>2, <2>3 DEF Retiring
<1>12. PendingStores'
  <2>1. \A x \in Item : Pending(x)' <=> Pending(x) /\ x.rob_id # current_id
    BY <1>1 DEF Pending, Named, Item
  <2>2. ASSUME NEW i \in DOMAIN Buffered
        PROVE  /\ Pending(Buffered[i])' <=> Pending(Buffered[i]) /\ Buffered[i].rob_id # current_id
               /\ Buffered[i].rob_id \in RobId
    <3>1. Buffered[i] \in Item /\ Buffered[i].rob_id \in RobId
      BY <1>2, BufferedItem
    <3> QED
      BY <1>5, <2>1, <3>1
  <2>3. PendingRight'
    BY <1>1, <1>2, <1>5, <1>7, <1>10, <2>2 DEF PendingStores, PendingRight
  <2>4. PendingOrdered'
    BY <1>2, <1>5, <1>7, <2>2 DEF PendingStores, PendingOrdered
  <2>5. ExecutedPending'
    <3> SUFFICES ASSUME NEW id \in RobId, InRob(id), Age(id) > slot + 1, Executed(id)
                 PROVE  \E i \in DOMAIN Buffered : Pending(Buffered[i])' /\ Buffered[i].rob_id = id
      BY <1>1, <1>5, <1>7 DEF ExecutedPending
    <3>1. id # current_id /\ Age(id) > slot
      BY <1>2, <1>10
    <3>2. PICK i \in DOMAIN Buffered : Pending(Buffered[i]) /\ Buffered[i].rob_id = id
      BY <1>2, <3>1 DEF PendingStores, ExecutedPending
    <3> QED
      BY <2>2, <3>1, <3>2
  <2> QED
    BY <2>3, <2>4, <2>5 DEF PendingStores
<1> QED
  BY <1>3, <1>4, <1>6, <1>8, <1>9, <1>11, <1>12 DEF IInv, InFlight

LEMMA WalkBackOK == IInv /\ (\E last \in BOOLEAN : WalkBack(last)) => IInv'
<1> SUFFICES ASSUME IInv, NEW last \in BOOLEAN, WalkBack(last)
             PROVE  IInv'
  OBVIOUS
<1>1. Types /\ Turns /\ CommittedFirst
  BY DEF IInv
<1>2. /\ stage = "commit" /\ walking /\ walking' = ~last /\ flush_feedback' = TRUE /\ stage' = "lsu"
      /\ UNCHANGED <<stores, push_q, rob, units, wb_commit_port, committed_rob_id, slot>>
  BY DEF WalkBack
<1>3. Types'
  BY <1>1, <1>2 DEF Types, stores, units
<1>4. Turns'
  BY <1>1, <1>2, SameRob DEF Turns, Straight
<1>5. CommittedFirst'
  <2>1. Buffered' = Buffered /\ \A x : Pending(x)' <=> Pending(x)
    BY <1>2, SameBuffer DEF Pending, Named, stores
  <2> QED
    BY <1>1, <2>1 DEF CommittedFirst
<1>6. ~Straight'
  BY <1>2 DEF Straight
<1> QED
  BY <1>3, <1>4, <1>5, <1>6 DEF IInv

\* What the answers taken in do to the entries.
LEMMA TakenInRob ==
  ASSUME Types, AnswersRight, EntriesFit,
         rob' = IF wb_commit_port = << >> THEN rob ELSE TakenIn(Head(wb_commit_port))
  PROVE  /\ rob' \in Rings(ROB_SIZE, Entry) /\ get_size(rob)' = get_size(rob)
         /\ \A id : Age(id)' = Age(id) /\ (InRob(id)' <=> InRob(id))
         /\ \A id \in RobId : InRob(id) => Ent(id)'.op = Ent(id).op
         /\ \A id \in RobId : (\A a \in ToSet(wb_commit_port) : a.id # id) => Ent(id)' = Ent(id)
         /\ \A a \in ToSet(wb_commit_port) :
              Ent(a.id)'.finish = a.result /\ Ent(a.id)'.value = a.value
<1>1. CASE wb_commit_port = << >>
  <2>1. rob' = rob /\ ToSet(wb_commit_port) = {}
    BY <1>1 DEF ToSet
  <2> QED
    BY <2>1, SameRob DEF Types
<1>2. CASE wb_commit_port # << >>
  <2>1. PICK a \in Reply : wb_commit_port = <<a>>
    BY <1>2, PortIs DEF Types
  <2>2. ToSet(wb_commit_port) = {a} /\ Head(wb_commit_port) = a
    BY <2>1 DEF ToSet
  <2>3. a.id \in RobId /\ InRob(a.id) /\ a.result \in {"ok", "exception"} /\ a.value \in Value
    BY <2>2 DEF AnswersRight, Answered, Reply
  <2> DEFINE e == [Ent(a.id) EXCEPT !.finish = a.result, !.value = a.value]
  <2>4. /\ e \in Entry /\ e.op = Ent(a.id).op /\ e.finish = a.result /\ e.value = a.value
    <3>1. Ent(a.id) \in Entry
      BY <2>3, Entries
    <3> QED
      BY <2>3, <3>1 DEF Entry
  <2>5. rob' = set_item(rob, a.id, e)
    BY <1>2, <2>2 DEF TakenIn, Ent
  <2> HIDE DEF e
  <2>6. /\ rob' \in Rings(ROB_SIZE, Entry) /\ get_size(rob') = get_size(rob)
        /\ \A j : At(rob', j) = At(rob, j)
        /\ \A j \in RobId : get_item(rob', j) = IF j = a.id THEN e ELSE get_item(rob, j)
    <3>1. /\ ROB_SIZE \in Nat \ {0} /\ rob \in Rings(ROB_SIZE, Entry) /\ a.id \in 0 .. ROB_SIZE - 1
          /\ RobId = 0 .. ROB_SIZE - 1
      BY <2>3, Sizes DEF Types
    <3> QED
      BY <2>4, <2>5, <3>1, ItemSet
  <2> QED
    BY <2>2, <2>3, <2>4, <2>6 DEF Age, InRob, Ent
<1> QED
  BY <1>1, <1>2

LEMMA TakenInAnswers ==
  ASSUME Types, Types', AnswersRight, EntriesFit,
         rob' = IF wb_commit_port = << >> THEN rob ELSE TakenIn(Head(wb_commit_port)),
         wb_commit_port' = << >>, lsu_wb_port' = lsu_wb_port,
         NEW id \in RobId
  PROVE  AnswerTo(id)'.result = AnswerTo(id).result /\ AnswerTo(id)'.value = AnswerTo(id).value
<1>1. /\ \A j \in RobId : (\A a \in ToSet(wb_commit_port) : a.id # j) => Ent(j)' = Ent(j)
      /\ \A a \in ToSet(wb_commit_port) :
           Ent(a.id)'.finish = a.result /\ Ent(a.id)'.value = a.value
  BY TakenInRob
<1>2. Answered' = ToSet(lsu_wb_port)
  <2>1. ToSet(<< >>) = {}
    BY DEF ToSet
  <2> QED
    BY <2>1 DEF Answered
<1>3. AnswerTo(id)' = AnswerIn(lsu_wb_port, << >>, rob', id)
  BY DEF AnswerTo, AnswerIn
<1>4. /\ lsu_wb_port \in Seq(Reply) /\ Len(lsu_wb_port) <= 1
      /\ << >> \in Seq(Reply) /\ Len(<< >>) <= 1 /\ ToSet(<< >>) = {}
  BY DEF Types, ToSet
<1>5. CASE \E a \in ToSet(lsu_wb_port) : a.id = id
  <2>1. PICK a \in ToSet(lsu_wb_port) : a.id = id
    BY <1>5
  <2>2. AnswerTo(id) = a
    BY <2>1, AnswerIs DEF Answered
  <2>3. AnswerTo(id)' = a
    <3> DEFINE q == << >>
               r == rob'
    <3>1. /\ q \in Seq(Reply) /\ Len(q) <= 1 /\ \A b \in ToSet(q) : FALSE
          /\ AnswerTo(id)' = AnswerIn(lsu_wb_port, q, r, id)
      BY <1>3, <1>4
    <3> HIDE DEF q, r
    <3>2. (\A x \in ToSet(lsu_wb_port), b \in ToSet(q) : x.id # b.id) =>
             \A x \in ToSet(lsu_wb_port) \cup ToSet(q) : x.id = id =>
               AnswerIn(lsu_wb_port, q, r, id) = x
      BY <1>4, <3>1, AnswerInIs
    <3> QED
      BY <2>1, <3>1, <3>2
  <2> QED
    BY <2>2, <2>3
<1>6. CASE \A a \in ToSet(lsu_wb_port) : a.id # id
  <2>1. AnswerTo(id)'.result = Ent(id)'.finish /\ AnswerTo(id)'.value = Ent(id)'.value
    BY <1>2, <1>6, AnswerNext
  <2>2. CASE \E a \in ToSet(wb_commit_port) : a.id = id
    <3>1. PICK a \in ToSet(wb_commit_port) : a.id = id
      BY <2>2
    <3>2. AnswerTo(id) = a
      BY <3>1, AnswerIs DEF Answered
    <3> QED
      BY <1>1, <2>1, <3>1, <3>2
  <2>3. CASE \A a \in ToSet(wb_commit_port) : a.id # id
    <3>1. AnswerTo(id) = [id |-> id, result |-> Ent(id).finish, value |-> Ent(id).value]
      BY <1>6, <2>3, AnswerIs DEF Answered
    <3> QED
      BY <1>1, <2>1, <2>3, <3>1
  <2> QED
    BY <2>2, <2>3
<1> QED
  BY <1>5, <1>6

LEMMA CommitInputOK == IInv /\ CommitInput => IInv'
<1> SUFFICES ASSUME IInv, CommitInput
             PROVE  IInv'
  OBVIOUS
<1>1. /\ stage = "commit" /\ ~walking /\ wb_commit_port' = << >> /\ stage' = "lsu"
      /\ rob' = IF wb_commit_port = << >> THEN rob ELSE TakenIn(Head(wb_commit_port))
      /\ UNCHANGED <<stores, push_q, units, commit, slot>>
  BY DEF CommitInput
<1>2. /\ Types /\ Turns /\ CommittedFirst /\ InFlight /\ PendingStores /\ Straight
      /\ ~flush_feedback /\ push_q = << >>
  BY <1>1 DEF IInv, Turns, Straight
<1>3. /\ rob' \in Rings(ROB_SIZE, Entry) /\ get_size(rob)' = get_size(rob)
      /\ \A id : Age(id)' = Age(id) /\ (InRob(id)' <=> InRob(id))
      /\ \A id \in RobId : InRob(id) => Ent(id)'.op = Ent(id).op
      /\ \A id \in RobId : (\A a \in ToSet(wb_commit_port) : a.id # id) => Ent(id)' = Ent(id)
      /\ \A a \in ToSet(wb_commit_port) :
           Ent(a.id)'.finish = a.result /\ Ent(a.id)'.value = a.value
  BY <1>1, <1>2, TakenInRob DEF InFlight
<1>4. Types'
  <2>1. << >> \in Seq(Reply) /\ Len(<< >>) = 0
    OBVIOUS
  <2> QED
    BY <1>1, <1>2, <1>3, <2>1 DEF Types, stores, units, commit
<1>5. Waiting' = Waiting /\ \A id : IsWaiting(id)' <=> IsWaiting(id)
  BY <1>1, SameWaiting DEF units
<1>6. Turns'
  BY <1>1, <1>2 DEF Turns, Straight, units, commit, stores
<1>7. Buffered' = Buffered /\ \A x : Pending(x)' <=> Pending(x)
  BY <1>1, SameBuffer DEF Pending, Named, stores, commit
<1>8. CommittedFirst'
  BY <1>2, <1>7 DEF CommittedFirst
<1>9. /\ Answered' = ToSet(lsu_wb_port)
      /\ \A a \in ToSet(wb_commit_port), b \in ToSet(lsu_wb_port) : a.id # b.id
      /\ \A a \in ToSet(wb_commit_port) :
           /\ a \in Answered /\ a \in Reply /\ a.id \in RobId
           /\ InRob(a.id) /\ Access(a.id) /\ Ent(a.id).finish = "no" /\ ~IsWaiting(a.id)
           /\ Fits(Ent(a.id).op, a.result, a.value)
  <2>1. ToSet(<< >>) = {}
    BY DEF ToSet
  <2>2. Answered' = ToSet(lsu_wb_port)
    BY <1>1, <2>1 DEF Answered, units
  <2> QED
    BY <1>2, <2>2, AnsweredSet DEF InFlight, AnswersRight, Answered
<1>10. \A id \in RobId : InRob(id) => (Access(id)' <=> Access(id))
  BY <1>3 DEF Access
<1>11. EntriesFit'
  <2> SUFFICES ASSUME NEW id \in RobId, InRob(id)
               PROVE  Fits(Ent(id)'.op, Ent(id)'.finish, Ent(id)'.value)
    BY <1>3 DEF EntriesFit
  <2>1. CASE \A a \in ToSet(wb_commit_port) : a.id # id
    BY <1>2, <1>3, <2>1 DEF InFlight, EntriesFit
  <2>2. CASE \E a \in ToSet(wb_commit_port) : a.id = id
    BY <1>3, <1>9, <2>2
  <2> QED
    BY <2>1, <2>2
<1>12. Retiring'
  <2>1. ASSUME NEW id \in RobId, Age(id) <= slot
        PROVE  Ent(id)'.finish = "ok"
    <3>1. Ent(id).finish = "ok"
      BY <1>2, <2>1 DEF InFlight, Retiring
    <3>2. \A a \in ToSet(wb_commit_port) : a.id # id
      BY <1>9, <3>1
    <3> QED
      BY <1>3, <3>1, <3>2
  <2> QED
    BY <1>1, <1>2, <1>3, <2>1 DEF InFlight, Retiring, commit
<1>13. PacksRight' /\ PacksOrdered'
  <2>1. ASSUME NEW k \in DOMAIN Waiting
        PROVE  Ent(Waiting[k].id)' = Ent(Waiting[k].id)
    <3>1. Waiting[k].id \in RobId /\ IsWaiting(Waiting[k].id)
      BY <1>2, <2>1, WaitingSeq DEF IsWaiting
    <3>2. \A a \in ToSet(wb_commit_port) : a.id # Waiting[k].id
      BY <1>9, <3>1
    <3> QED
      BY <1>3, <1>5, <3>1, <3>2
  <2>2. PacksRight'
    BY <1>2, <1>3, <1>5, <2>1 DEF InFlight, PacksRight, Access
  <2>3. PacksOrdered'
    BY <1>2, <1>3, <1>5 DEF InFlight, PacksOrdered
  <2> QED
    BY <2>2, <2>3
<1>14. AnswersRight'
  <2>1. ASSUME NEW a \in ToSet(lsu_wb_port)
        PROVE  /\ InRob(a.id)' /\ Access(a.id)' /\ Ent(a.id)'.finish = "no" /\ ~IsWaiting(a.id)'
               /\ Fits(Ent(a.id)'.op, a.result, a.value)
    <3>1. /\ a \in Answered /\ a.id \in RobId /\ \A b \in ToSet(wb_commit_port) : b.id # a.id
      BY <1>2, <1>9, AnsweredSet DEF Answered
    <3>2. Ent(a.id)' = Ent(a.id)
      BY <1>3, <3>1
    <3> QED
      BY <1>2, <1>3, <1>5, <3>1, <3>2 DEF InFlight, AnswersRight, Access
  <2>2. ToSet(wb_commit_port)' = {}
    BY <1>1 DEF ToSet
  <2> QED
    BY <1>9, <2>1, <2>2 DEF AnswersRight
<1>15. InOrder'
  <2> SUFFICES ASSUME NEW id \in RobId, InRob(id), Access(id), ~IsWaiting(id)
               PROVE  /\ Ent(id)'.finish = "no" => \E a \in Answered' : a.id = id
                      /\ \A k \in DOMAIN Waiting : Age(id) < Age(Waiting[k].id)
    BY <1>3, <1>5, <1>10 DEF InOrder
  <2>1. \A k \in DOMAIN Waiting : Age(id) < Age(Waiting[k].id)
    BY <1>2 DEF InFlight, InOrder
  <2>2. ASSUME Ent(id)'.finish = "no"
        PROVE  \E a \in Answered' : a.id = id
    <3>1. \A a \in ToSet(wb_commit_port) : a.id # id
      <4> SUFFICES ASSUME NEW a \in ToSet(wb_commit_port), a.id = id
                   PROVE  FALSE
        OBVIOUS
      <4>1. a.result = "no" /\ a \in Reply
        BY <1>3, <1>9, <2>2
      <4> QED
        BY <4>1 DEF Reply
    <3>2. Ent(id).finish = "no"
      BY <1>3, <2>2, <3>1
    <3>3. PICK a \in Answered : a.id = id
      BY <1>2, <3>2 DEF InFlight, InOrder
    <3> QED
      BY <1>9, <3>1, <3>3 DEF Answered
  <2> QED
    BY <2>1, <2>2
<1>16. \A id \in RobId : InRob(id) => (Executed(id)' <=> Executed(id))
  <2> SUFFICES ASSUME NEW id \in RobId, InRob(id)
               PROVE  AnswerTo(id)'.result = AnswerTo(id).result
    BY <1>3 DEF Executed, Ent
  <2> QED
    BY <1>1, <1>2, <1>4, TakenInAnswers DEF InFlight, units
<1>17. PendingStores'
  <2>1. Follows /\ Stays
    BY <1>1, <1>3, <1>16 DEF Follows, Stays
  <2> QED
    BY <1>2, <1>4, <1>7, <2>1, PendingStay
<1> QED
  BY <1>4, <1>6, <1>8, <1>11, <1>12, <1>13, <1>14, <1>15, <1>17 DEF IInv, InFlight

-----------------------------------------------------------------------------
(* The load-store unit.                                                    *)

\* What the unit is offered is what waits, oldest first.
LEMMA OfferedIs ==
  ASSUME Types
  PROVE  /\ Offered # << >> <=> Waiting # << >>
         /\ Offered # << >> => Head(Offered) = Waiting[1] /\ 1 \in DOMAIN Waiting
<1>1. hold_rev_pack = << >> \/ \E x \in Pack : hold_rev_pack = <<x>>
  BY PortIs DEF Types
<1>2. issue_q \in Seq(Pack)
  BY DEF Types
<1>3. CASE hold_rev_pack = << >>
  <2>1. Waiting = issue_q /\ Offered = issue_q
    BY <1>2, <1>3 DEF Waiting, Offered
  <2> QED
    BY <1>2, <2>1
<1>4. CASE \E x \in Pack : hold_rev_pack = <<x>>
  <2>1. PICK x \in Pack : hold_rev_pack = <<x>>
    BY <1>4
  <2>2. Offered = <<x>>
    BY <2>1 DEF Offered
  <2>3. Waiting = <<x>> \o issue_q
    BY <2>1 DEF Waiting
  <2>4. Len(Waiting) = 1 + Len(issue_q) /\ Waiting[1] = x /\ Waiting \in Seq(Pack)
    BY <1>2, <2>3
  <2>5. 1 \in DOMAIN Waiting /\ Waiting # << >>
    BY <1>2, <2>4
  <2> QED
    BY <2>2, <2>4, <2>5
<1> QED
  BY <1>1, <1>3, <1>4

\* What was offered has been answered, or is held.
LEMMA WaitingMoves ==
  ASSUME Types, NEW answer, NEW held, NEW pushed, LsuTurn(answer, held, pushed),
         Offered # << >>
  PROVE  /\ held = << >> /\ answer # << >> => Waiting' = Tail(Waiting)
         /\ held = <<Head(Offered)>> => Waiting' = Waiting
<1>1. hold_rev_pack = << >> \/ \E x \in Pack : hold_rev_pack = <<x>>
  BY PortIs DEF Types
<1>2. issue_q \in Seq(Pack)
  BY DEF Types
<1>3. /\ hold_rev_pack' = held
      /\ issue_q' = IF hold_rev_pack = << >> /\ <<answer, held>> # <<<< >>, << >>>>
                    THEN Tail(issue_q) ELSE issue_q
  BY DEF LsuTurn
<1>4. CASE hold_rev_pack = << >>
  <2>1. Waiting = issue_q /\ Offered = issue_q /\ issue_q # << >>
    BY <1>2, <1>4 DEF Waiting, Offered
  <2>2. ASSUME held = << >>, answer # << >>
        PROVE  Waiting' = Tail(Waiting)
    <3>1. issue_q' = Tail(issue_q)
      BY <1>3, <1>4, <2>2
    <3>2. Tail(issue_q) \in Seq(Pack)
      BY <1>2, <2>1
    <3> QED
      BY <1>3, <2>1, <2>2, <3>1, <3>2 DEF Waiting
  <2>3. ASSUME held = <<Head(Offered)>>
        PROVE  Waiting' = Waiting
    <3>1. issue_q' = Tail(issue_q)
      BY <1>3, <1>4, <2>3
    <3>2. issue_q = <<Head(issue_q)>> \o Tail(issue_q)
      BY <1>2, <2>1
    <3> QED
      BY <1>3, <2>1, <2>3, <3>1, <3>2 DEF Waiting
  <2> QED
    BY <2>2, <2>3
<1>5. CASE \E x \in Pack : hold_rev_pack = <<x>>
  <2>1. PICK x \in Pack : hold_rev_pack = <<x>>
    BY <1>5
  <2>2. Offered = <<x>> /\ issue_q' = issue_q
    BY <1>3, <2>1 DEF Offered
  <2>3. Waiting = <<x>> \o issue_q
    BY <2>1 DEF Waiting
  <2>4. ASSUME held = << >>
        PROVE  Waiting' = Tail(Waiting)
    <3>1. Waiting' = issue_q
      BY <1>2, <1>3, <2>2, <2>4 DEF Waiting
    <3>2. Tail(Waiting) = issue_q
      BY <1>2, <2>3
    <3> QED
      BY <3>1, <3>2
  <2>5. ASSUME held = <<Head(Offered)>>
        PROVE  Waiting' = Waiting
    <3>1. held = <<x>>
      BY <2>2, <2>5
    <3> QED
      BY <1>3, <2>2, <2>3, <3>1 DEF Waiting
  <2> QED
    BY <2>4, <2>5
<1> QED
  BY <1>1, <1>4, <1>5

\* The head of what waits is the oldest load or store without an answer.
LEMMA HeadFacts ==
  ASSUME IInv, stage = "lsu", ~flush_feedback, Waiting # << >>
  PROVE  LET id == Waiting[1].id
         IN  /\ id \in RobId /\ InRob(id) /\ Access(id) /\ Ent(id).op = Waiting[1].op
             /\ Ent(id).finish = "no" /\ Age(id) > slot /\ Waiting[1].op \in Op
             /\ Ent(id).value = NoValue
             /\ \A k \in DOMAIN Waiting : k # 1 => Age(id) < Age(Waiting[k].id)
             /\ \A a \in Answered : a.id # id
             /\ AnswerTo(id).result = "no" /\ AnswerTo(id).value = NoValue
<1>1. /\ Types /\ Turns /\ InFlight /\ PendingStores /\ Straight
      /\ wb_commit_port = << >> /\ push_q = << >>
  BY DEF IInv, Turns, Straight
<1>2. 1 \in DOMAIN Waiting /\ \A k \in DOMAIN Waiting : k \in Nat /\ (k # 1 => 1 < k)
  BY <1>1, WaitingSeq
<1> DEFINE id == Waiting[1].id
<1>3. id \in RobId /\ Waiting[1].op \in Op
  BY <1>1, <1>2, WaitingSeq
<1>4. InRob(id) /\ Access(id) /\ Ent(id).op = Waiting[1].op /\ Ent(id).finish = "no"
  BY <1>1, <1>2 DEF InFlight, PacksRight
<1>5. Ent(id).value = NoValue
  BY <1>1, <1>3, <1>4 DEF InFlight, EntriesFit, Fits
<1>6. \A k \in DOMAIN Waiting : k # 1 => Age(id) < Age(Waiting[k].id)
  BY <1>1, <1>2 DEF InFlight, PacksOrdered
<1>7. Age(id) > slot
  <2>1. Age(id) \in Nat /\ slot \in Nat
    BY <1>1, <1>3, Ages
  <2>2. ~(Age(id) <= slot)
    BY <1>1, <1>3, <1>4 DEF InFlight, Retiring
  <2> QED
    BY <2>1, <2>2
<1>8. IsWaiting(id)
  BY <1>2 DEF IsWaiting
<1>9. \A a \in Answered : a.id # id
  BY <1>1, <1>8 DEF InFlight, AnswersRight
<1>10. AnswerTo(id).result = "no" /\ AnswerTo(id).value = NoValue
  <2>1. AnswerTo(id) = [id |-> id, result |-> Ent(id).finish, value |-> Ent(id).value]
    BY <1>1, <1>9, AnswerIs
  <2> QED
    BY <1>4, <1>5, <2>1
<1> QED
  BY <1>3, <1>4, <1>5, <1>6, <1>7, <1>9, <1>10

\* A turn of the unit in which nothing is answered.
LEMMA QuietTurn ==
  ASSUME IInv, NEW held, LsuTurn(<< >>, held, push_q), Waiting' = Waiting,
         held \in Seq(Pack), Len(held) <= 1, issue_q' \in Seq(Pack)
  PROVE  /\ IInv'
         /\ \A id \in RobId : AnswerTo(id)' = AnswerTo(id)
<1>1. /\ stage = "lsu" /\ ~flush_feedback /\ wb_commit_port' = lsu_wb_port /\ lsu_wb_port' = << >>
      /\ hold_rev_pack' = held /\ push_q' = push_q /\ stage' = "rename"
      /\ UNCHANGED <<stores, rob, commit, slot>>
  BY DEF LsuTurn
<1>2. /\ Types /\ Turns /\ CommittedFirst /\ InFlight /\ PendingStores /\ Straight
      /\ wb_commit_port = << >> /\ push_q = << >>
  BY <1>1 DEF IInv, Turns, Straight
<1>3. Types'
  <2>1. << >> \in Seq(Reply) /\ Len(<< >>) = 0
    OBVIOUS
  <2> QED
    BY <1>1, <1>2, <2>1 DEF Types, stores, commit
<1>4. Turns'
  BY <1>1, <1>2 DEF Turns, Straight, commit, stores
<1>5. /\ Buffered' = Buffered /\ \A x : Pending(x)' <=> Pending(x)
  BY <1>1, SameBuffer DEF Pending, Named, stores, commit
<1>6. CommittedFirst'
  BY <1>2, <1>5 DEF CommittedFirst
<1>7. Answered' = Answered
  BY <1>1, <1>2 DEF Answered, ToSet
<1>8. \A id : AnswerTo(id)' = AnswerTo(id) /\ (Executed(id)' <=> Executed(id))
  BY <1>1, <1>2 DEF AnswerTo, Executed
<1>9. /\ get_size(rob)' = get_size(rob)
      /\ \A id : Age(id)' = Age(id) /\ (InRob(id)' <=> InRob(id)) /\ Ent(id)' = Ent(id)
      /\ \A id : (Access(id)' <=> Access(id)) /\ (IsWaiting(id)' <=> IsWaiting(id))
  BY <1>1, SameRob DEF IsWaiting
<1>10. EntriesFit' /\ Retiring' /\ PacksRight' /\ PacksOrdered' /\ InOrder'
  BY <1>1, <1>2, <1>7, <1>9 DEF InFlight, EntriesFit, Retiring, PacksRight, PacksOrdered, InOrder,
                               commit
<1>11. AnswersRight'
  <2>1. ToSet(lsu_wb_port)' = {}
    BY <1>1 DEF ToSet
  <2> QED
    BY <1>2, <1>7, <1>9, <2>1 DEF InFlight, AnswersRight
<1>12. PendingStores'
  <2>1. Follows /\ Stays
    BY <1>1, <1>8, <1>9 DEF Follows, Stays
  <2> QED
    BY <1>2, <1>3, <1>5, <2>1, PendingStay
<1> QED
  BY <1>3, <1>4, <1>6, <1>8, <1>10, <1>11, <1>12 DEF IInv, InFlight

\* A turn in which the oldest that waits gets its answer.
AnswersHead(a, pushed) ==
  /\ LsuTurn(<<a>>, << >>, pushed)
  /\ Waiting # << >> /\ Waiting' = Tail(Waiting)
  /\ a \in Reply /\ a.id = Waiting[1].id /\ Fits(Waiting[1].op, a.result, a.value)
  /\ issue_q' \in Seq(Pack)

LEMMA TurnFacts ==
  ASSUME IInv, NEW a, NEW pushed, AnswersHead(a, pushed)
  PROVE  /\ stage = "lsu" /\ ~flush_feedback /\ wb_commit_port' = lsu_wb_port
         /\ lsu_wb_port' = <<a>> /\ hold_rev_pack' = << >> /\ push_q' = pushed /\ stage' = "rename"
         /\ UNCHANGED <<stores, rob, commit, slot>>
         /\ Types /\ Turns /\ CommittedFirst /\ InFlight /\ PendingStores /\ Straight
         /\ wb_commit_port = << >> /\ push_q = << >>
         /\ Answered' = Answered \cup {a}
         /\ Len(Waiting) \in Nat /\ DOMAIN Waiting = 1 .. Len(Waiting)
         /\ DOMAIN Waiting' = 1 .. Len(Waiting) - 1
         /\ \A k \in DOMAIN Waiting' : Waiting'[k] = Waiting[k + 1] /\ k + 1 \in DOMAIN Waiting
         /\ \A id : Age(id)' = Age(id) /\ (InRob(id)' <=> InRob(id)) /\ Ent(id)' = Ent(id)
         /\ \A id : Access(id)' <=> Access(id)
         /\ get_size(rob)' = get_size(rob)
<1>1. /\ stage = "lsu" /\ ~flush_feedback /\ wb_commit_port' = lsu_wb_port
      /\ lsu_wb_port' = <<a>> /\ hold_rev_pack' = << >> /\ push_q' = pushed /\ stage' = "rename"
      /\ UNCHANGED <<stores, rob, commit, slot>>
  BY DEF AnswersHead, LsuTurn
<1>2. /\ Types /\ Turns /\ CommittedFirst /\ InFlight /\ PendingStores /\ Straight
      /\ wb_commit_port = << >> /\ push_q = << >>
  BY <1>1 DEF IInv, Turns, Straight
<1>3. Answered' = Answered \cup {a}
  BY <1>1, <1>2 DEF Answered, ToSet
<1>4. /\ Waiting \in Seq(Pack) /\ Len(Waiting) \in Nat /\ DOMAIN Waiting = 1 .. Len(Waiting)
      /\ Waiting # << >> /\ Waiting' = Tail(Waiting)
  BY <1>2, WaitingSeq DEF AnswersHead
<1>5. /\ DOMAIN Waiting' = 1 .. Len(Waiting) - 1
      /\ \A k \in DOMAIN Waiting' : Waiting'[k] = Waiting[k + 1] /\ k + 1 \in DOMAIN Waiting
  BY <1>4
<1> QED
  BY <1>1, <1>2, <1>3, <1>4, <1>5, SameRob

LEMMA TurnInFlight ==
  ASSUME IInv, NEW a, NEW pushed, AnswersHead(a, pushed)
  PROVE  InFlight'
<1>1. /\ stage = "lsu" /\ ~flush_feedback /\ wb_commit_port' = lsu_wb_port
      /\ lsu_wb_port' = <<a>> /\ UNCHANGED <<stores, rob, commit, slot>>
      /\ Types /\ InFlight /\ wb_commit_port = << >>
      /\ Answered' = Answered \cup {a}
      /\ Len(Waiting) \in Nat /\ DOMAIN Waiting = 1 .. Len(Waiting)
      /\ DOMAIN Waiting' = 1 .. Len(Waiting) - 1
      /\ \A k \in DOMAIN Waiting' : Waiting'[k] = Waiting[k + 1] /\ k + 1 \in DOMAIN Waiting
      /\ \A id : Age(id)' = Age(id) /\ (InRob(id)' <=> InRob(id)) /\ Ent(id)' = Ent(id)
      /\ \A id : Access(id)' <=> Access(id)
      /\ get_size(rob)' = get_size(rob)
  BY TurnFacts
<1>0. PICK h : h = Waiting[1].id
  OBVIOUS
<1>2. /\ a \in Reply /\ a.id = h /\ Fits(Waiting[1].op, a.result, a.value) /\ Waiting # << >>
  BY <1>0 DEF AnswersHead
<1>3. /\ h \in RobId /\ InRob(h) /\ Access(h) /\ Ent(h).op = Waiting[1].op
      /\ Ent(h).finish = "no"
      /\ \A k \in DOMAIN Waiting : k # 1 => Age(h) < Age(Waiting[k].id)
      /\ \A b \in Answered : b.id # h
  BY <1>0, <1>1, <1>2, HeadFacts
<1>4. \A id : IsWaiting(id)' => IsWaiting(id)
  BY <1>1 DEF IsWaiting
<1>5. \A k \in DOMAIN Waiting' : k + 1 # 1 /\ Age(h) < Age(Waiting'[k].id) /\ Waiting'[k].id \in RobId
  <2> SUFFICES ASSUME NEW k \in DOMAIN Waiting'
               PROVE  k + 1 # 1 /\ Age(h) < Age(Waiting'[k].id) /\ Waiting'[k].id \in RobId
    OBVIOUS
  <2>1. k + 1 # 1 /\ k + 1 \in DOMAIN Waiting
    BY <1>1
  <2>2. Waiting[k + 1].id \in RobId
    BY <1>1, <2>1, WaitingSeq
  <2> QED
    BY <1>1, <1>3, <2>1, <2>2
<1>6. ~IsWaiting(h)'
  <2> SUFFICES ASSUME NEW k \in DOMAIN Waiting', Waiting'[k].id = h
               PROVE  FALSE
    BY DEF IsWaiting
  <2>1. Age(h) < Age(h) /\ Age(h) \in Nat
    BY <1>1, <1>3, <1>5, Ages
  <2> QED
    BY <2>1
<1>7. \A id : IsWaiting(id) /\ id # h => IsWaiting(id)'
  <2> SUFFICES ASSUME NEW k \in DOMAIN Waiting, Waiting[k].id # h
               PROVE  \E l \in DOMAIN Waiting' : Waiting'[l].id = Waiting[k].id
    BY DEF IsWaiting
  <2>1. k # 1 /\ k - 1 \in DOMAIN Waiting' /\ (k - 1) + 1 = k
    BY <1>0, <1>1
  <2> QED
    BY <1>1, <2>1
<1>8. EntriesFit' /\ Retiring'
  BY <1>1 DEF InFlight, EntriesFit, Retiring, commit
<1>9. PacksRight'
  BY <1>1 DEF InFlight, PacksRight
<1>10. PacksOrdered'
  <2> SUFFICES ASSUME NEW k \in DOMAIN Waiting', NEW l \in DOMAIN Waiting', k < l
               PROVE  Age(Waiting'[k].id) < Age(Waiting'[l].id)
    BY <1>1 DEF PacksOrdered
  <2>1. k + 1 < l + 1 /\ k + 1 \in DOMAIN Waiting /\ l + 1 \in DOMAIN Waiting
    BY <1>1
  <2>2. Age(Waiting[k + 1].id) < Age(Waiting[l + 1].id)
    BY <1>1, <2>1 DEF InFlight, PacksOrdered
  <2> QED
    BY <1>1, <2>2
<1>11. AnswersRight'
  <2>1. ASSUME NEW b \in Answered'
        PROVE  /\ InRob(b.id) /\ Access(b.id) /\ Ent(b.id).finish = "no" /\ ~IsWaiting(b.id)'
               /\ Fits(Ent(b.id).op, b.result, b.value)
    <3>1. CASE b = a
      BY <1>2, <1>3, <1>6, <3>1
    <3>2. CASE b \in Answered
      BY <1>1, <1>4, <3>2 DEF InFlight, AnswersRight
    <3> QED
      BY <1>1, <2>1, <3>1, <3>2
  <2>2. ASSUME NEW x \in ToSet(lsu_wb_port)', NEW y \in ToSet(wb_commit_port)'
        PROVE  x.id # y.id
    <3>1. x = a /\ y \in Answered
      BY <1>1 DEF ToSet, Answered
    <3> QED
      BY <1>2, <1>3, <3>1
  <2> QED
    BY <1>1, <2>1, <2>2 DEF AnswersRight
<1>12. InOrder'
  <2> SUFFICES ASSUME NEW id \in RobId, InRob(id), Access(id), ~IsWaiting(id)'
               PROVE  /\ Ent(id).finish = "no" => \E b \in Answered' : b.id = id
                      /\ \A k \in DOMAIN Waiting' : Age(id) < Age(Waiting'[k].id)
    BY <1>1 DEF InOrder
  <2>1. CASE id = h
    BY <1>1, <1>2, <1>5, <2>1
  <2>2. CASE id # h
    <3>1. ~IsWaiting(id)
      BY <1>7, <2>2
    <3>2. /\ Ent(id).finish = "no" => \E b \in Answered : b.id = id
          /\ \A k \in DOMAIN Waiting : Age(id) < Age(Waiting[k].id)
      BY <1>1, <3>1 DEF InFlight, InOrder
    <3> QED
      BY <1>1, <3>2
  <2> QED
    BY <2>1, <2>2
<1> QED
  BY <1>8, <1>9, <1>10, <1>11, <1>12 DEF InFlight

\* Who waits has no answer.
LEMMA WaitingUnanswered ==
  ASSUME Types, InFlight, NEW id \in RobId, IsWaiting(id)
  PROVE  AnswerTo(id).result = "no"
<1>1. PICK k \in DOMAIN Waiting : Waiting[k].id = id
  BY DEF IsWaiting
<1>2. Ent(id).finish = "no"
  BY <1>1 DEF InFlight, PacksRight
<1>3. \A a \in Answered : a.id # id
  BY DEF InFlight, AnswersRight
<1> QED
  BY <1>2, <1>3, AnswerIs

LEMMA TurnAnswers ==
  ASSUME IInv, NEW a, NEW pushed, AnswersHead(a, pushed), NEW h, h = Waiting[1].id
  PROVE  /\ \A id : AnswerTo(id)' = IF id = h THEN a ELSE AnswerTo(id)
         /\ \A id : Executed(id)' <=> IF id = h THEN Ent(h).op.kind = "store" /\ a.result = "ok"
                                      ELSE Executed(id)
         /\ ~Executed(h)
<1>1. /\ stage = "lsu" /\ ~flush_feedback /\ wb_commit_port' = lsu_wb_port
      /\ lsu_wb_port' = <<a>> /\ wb_commit_port = << >> /\ UNCHANGED <<stores, rob, commit, slot>>
  BY TurnFacts
<1>2. a.id = h /\ Waiting # << >>
  BY DEF AnswersHead
<1>3. \A b \in Answered : b.id # h
  BY <1>1, <1>2, HeadFacts
<1>4. lsu_wb_port # << >> => Head(lsu_wb_port) \in Answered
  <2>1. lsu_wb_port = << >> \/ \E x \in Reply : lsu_wb_port = <<x>>
    BY PortIs DEF IInv, Types
  <2> QED
    BY <2>1 DEF Answered, ToSet
<1>5. \A id : AnswerTo(id)' = IF id = h THEN a ELSE AnswerTo(id)
  <2> SUFFICES ASSUME NEW id
               PROVE  AnswerTo(id)' = IF id = h THEN a ELSE AnswerTo(id)
    OBVIOUS
  <2>1. CASE id = h
    BY <1>1, <1>2, <2>1 DEF AnswerTo
  <2>2. CASE id # h
    BY <1>1, <1>2, <2>2 DEF AnswerTo
  <2> QED
    BY <2>1, <2>2
<1>6. \A id : get_item(rob, id)' = get_item(rob, id)
  BY <1>1
<1>7. \A id : Executed(id)' <=> get_item(rob, id).op.kind = "store" /\ AnswerTo(id)'.result = "ok"
  BY <1>6 DEF Executed
<1>8. AnswerTo(h).result = "no"
  BY <1>1, <1>2, HeadFacts
<1>9. \A id : Executed(id)' <=> IF id = h THEN Ent(h).op.kind = "store" /\ a.result = "ok"
                                ELSE Executed(id)
  <2> SUFFICES ASSUME NEW id
               PROVE  Executed(id)' <=> IF id = h THEN Ent(h).op.kind = "store" /\ a.result = "ok"
                                        ELSE Executed(id)
    OBVIOUS
  <2>1. CASE id = h
    BY <1>5, <1>7, <2>1 DEF Ent
  <2>2. CASE id # h
    BY <1>5, <1>7, <2>2 DEF Executed
  <2> QED
    BY <2>1, <2>2
<1> QED
  BY <1>5, <1>8, <1>9 DEF Executed

LEMMA TurnTypes ==
  ASSUME IInv, NEW a, NEW pushed, AnswersHead(a, pushed),
         pushed = << >> \/ \E x \in Item : pushed = <<x>> /\ ~x.committed
  PROVE  Types'
<1>1. /\ wb_commit_port' = lsu_wb_port /\ lsu_wb_port' = <<a>> /\ hold_rev_pack' = << >>
      /\ push_q' = pushed /\ stage' = "rename" /\ UNCHANGED <<stores, rob, commit, slot>> /\ Types
  BY TurnFacts
<1>2. <<a>> \in Seq(Reply) /\ Len(<<a>>) = 1 /\ issue_q' \in Seq(Pack)
  BY DEF AnswersHead
<1>3. << >> \in Seq(Pack) /\ Len(<< >>) = 0
  OBVIOUS
<1>4. pushed \in Seq(Item) /\ Len(pushed) <= 1 /\ \A i \in DOMAIN pushed : ~pushed[i].committed
  <2>1. CASE pushed = << >>
    BY <2>1
  <2>2. CASE \E x \in Item : pushed = <<x>> /\ ~x.committed
    BY <2>2
  <2> QED
    BY <2>1, <2>2
<1> HIDE DEF Reply, Pack
<1> QED
  BY <1>1, <1>2, <1>3, <1>4 DEF Types, stores, commit

\* The oldest that waits is answered, and there is no store to push.
LEMMA AnswerTurn ==
  ASSUME IInv, NEW a, AnswersHead(a, push_q),
         ~(Waiting[1].op.kind = "store" /\ a.result = "ok")
  PROVE  IInv'
<1>0. PICK h : h = Waiting[1].id
  OBVIOUS
<1>1. /\ stage' = "rename" /\ UNCHANGED <<stores, rob, commit, slot, push_q>>
      /\ Types /\ Turns /\ CommittedFirst /\ InFlight /\ PendingStores /\ Straight
      /\ push_q = << >> /\ stage = "lsu" /\ ~flush_feedback
      /\ \A id : Age(id)' = Age(id) /\ (InRob(id)' <=> InRob(id)) /\ Ent(id)' = Ent(id)
  BY TurnFacts
<1>2. Types'
  BY <1>1, TurnTypes
<1>3. Turns'
  BY <1>1 DEF Turns, Straight, commit, stores
<1>4. /\ Buffered' = Buffered /\ \A x : Pending(x)' <=> Pending(x)
  BY <1>1, SameBuffer DEF Pending, Named, stores, commit
<1>5. CommittedFirst'
  BY <1>1, <1>4 DEF CommittedFirst
<1>6. PendingStores'
  <2>1. Ent(h).op = Waiting[1].op
    BY <1>0, <1>1, HeadFacts DEF AnswersHead
  <2>2. \A id : Executed(id)' <=> Executed(id)
    BY <1>0, <2>1, TurnAnswers
  <2>3. Follows /\ Stays
    BY <1>1, <2>2 DEF Follows, Stays
  <2> QED
    BY <1>1, <1>2, <1>4, <2>3, PendingStay
<1> QED
  BY <1>2, <1>3, <1>5, <1>6, TurnInFlight DEF IInv

\* The oldest that waits is a store and there is room for it.
LEMMA PushTurn ==
  ASSUME IInv, NEW a, NEW item \in Item, AnswersHead(a, <<item>>),
         Waiting[1].op.kind = "store", a.result = "ok", ~is_full(store_buffer),
         item.rob_id = Waiting[1].id, ~item.committed, Matches(item, Waiting[1].op)
  PROVE  IInv'
<1>0. PICK h : h = Waiting[1].id
  OBVIOUS
<1>1. /\ stage' = "rename" /\ UNCHANGED <<stores, rob, commit, slot>> /\ push_q' = <<item>>
      /\ Types /\ Turns /\ CommittedFirst /\ InFlight /\ PendingStores /\ Straight
      /\ push_q = << >> /\ stage = "lsu" /\ ~flush_feedback
      /\ \A id : Age(id)' = Age(id) /\ (InRob(id)' <=> InRob(id)) /\ Ent(id)' = Ent(id)
  BY TurnFacts
<1>2. Types'
  BY TurnTypes
<1>4. /\ h \in RobId /\ InRob(h) /\ Access(h) /\ Ent(h).op = Waiting[1].op /\ Age(h) > slot
      /\ Waiting # << >> /\ 1 \in DOMAIN Waiting
  BY <1>0, <1>1, HeadFacts, WaitingSeq DEF AnswersHead
<1>5. /\ \A id : Executed(id)' <=> (id = h \/ Executed(id))
      /\ ~Executed(h)
  BY <1>0, <1>4, TurnAnswers
<1>6. \A x : Pending(x)' <=> Pending(x)
  BY <1>1 DEF Pending, Named, commit
<1>7. /\ Pending(item) /\ item.rob_id = h /\ item.rob_id \in RobId
      /\ h \notin committed_rob_id
  <2>1. h \notin committed_rob_id
    <3>1. committed_rob_id = {id \in RobId : Age(id) <= slot}
      BY <1>1 DEF InFlight, Retiring
    <3>2. Age(h) \in Nat /\ slot \in Nat
      BY <1>1, <1>4, Ages
    <3> QED
      BY <1>4, <3>1, <3>2
  <2> QED
    BY <1>0, <1>4, <2>1 DEF Pending, Named, Item
<1>3. Turns'
  <2>1. Head(push_q)'.rob_id \notin committed_rob_id'
    BY <1>1, <1>7 DEF commit
  <2> QED
    BY <1>1, <2>1 DEF Turns, Straight, commit, stores
<1>8. PICK n \in Nat : n = Len(Buffered)
  BY <1>1, BufferedSeq
<1>9. /\ DOMAIN Buffered = 1 .. n /\ DOMAIN Buffered' = 1 .. n + 1
      /\ \A i \in 1 .. n : Buffered'[i] = Buffered[i] /\ Buffered[i] \in Item
                           /\ Buffered[i].rob_id \in RobId
      /\ Buffered'[n + 1] = item
  <2>1. Items' = Items /\ Items \in Seq(Item) /\ Buffered \in Seq(Item)
    BY <1>1, BufferedSeq DEF Items, stores
  <2>2. Buffered = Items /\ Buffered' = Items \o <<item>>
    BY <1>1, <2>1 DEF Buffered
  <2>3. DOMAIN Buffered = 1 .. n /\ \A i \in 1 .. n : Buffered[i] \in Item
    BY <1>8, <2>1
  <2>4. \A i \in 1 .. n : Buffered[i].rob_id \in RobId
    BY <2>3 DEF Item
  <2> HIDE DEF Item
  <2>5. /\ DOMAIN (Items \o <<item>>) = 1 .. n + 1 /\ (Items \o <<item>>)[n + 1] = item
        /\ \A i \in 1 .. n : (Items \o <<item>>)[i] = Items[i]
    <3>1. <<item>> \in Seq(Item) /\ Len(<<item>>) = 1 /\ <<item>>[1] = item
      OBVIOUS
    <3>2. Items \in Seq(Item) /\ Len(Items) = n
      BY <1>8, <2>1, <2>2
    <3>3. PICK t : t = <<item>>
      OBVIOUS
    <3>4. /\ t \in Seq(Item) /\ Len(Items \o t) = n + 1 /\ Items \o t \in Seq(Item)
          /\ \A i \in 1 .. n + 1 : (Items \o t)[i] = IF i <= n THEN Items[i] ELSE t[i - n]
      BY <3>1, <3>2, <3>3, ConcatProperties
    <3>5. DOMAIN (Items \o t) = 1 .. n + 1
      BY <3>4
    <3>6. (Items \o t)[n + 1] = t[1]
      BY <1>8, <3>4
    <3>7. \A i \in 1 .. n : (Items \o t)[i] = Items[i]
      BY <1>8, <3>4
    <3> QED
      BY <3>1, <3>3, <3>5, <3>6, <3>7
  <2> QED
    BY <2>2, <2>3, <2>4, <2>5
<1>10. CommittedFirst'
  <2> SUFFICES ASSUME NEW i \in 1 .. n + 1, NEW j \in 1 .. n + 1, i < j, Pending(Buffered'[i])
               PROVE  Pending(Buffered'[j])
    BY <1>6, <1>9 DEF CommittedFirst
  <2>1. CASE j = n + 1
    BY <1>7, <1>9, <2>1
  <2>2. CASE j # n + 1
    <3>1. i \in 1 .. n /\ j \in 1 .. n
      BY <2>2
    <3> QED
      BY <1>1, <1>9, <3>1 DEF CommittedFirst
  <2> QED
    BY <2>1, <2>2
<1>11. ASSUME NEW i \in 1 .. n, Pending(Buffered[i])
       PROVE  LET id == Buffered[i].rob_id
              IN  /\ InRob(id) /\ Age(id) > slot /\ Executed(id) /\ Matches(Buffered[i], Ent(id).op)
                  /\ id \in RobId /\ Age(id) < Age(h)
  <2> DEFINE id == Buffered[i].rob_id
  <2>1. /\ InRob(id) /\ Age(id) > slot /\ Executed(id) /\ Matches(Buffered[i], Ent(id).op)
        /\ id \in RobId
    BY <1>1, <1>9, <1>11 DEF PendingStores, PendingRight
  <2>2. ~IsWaiting(id) /\ Access(id)
    BY <1>1, <2>1, WaitingUnanswered DEF Executed, Access, Ent
  <2>3. Age(id) < Age(h)
    BY <1>0, <1>1, <1>4, <2>1, <2>2 DEF InFlight, InOrder
  <2> QED
    BY <2>1, <2>3
<1>12. PendingRight'
  <2> SUFFICES ASSUME NEW i \in 1 .. n + 1, Pending(Buffered'[i]),
                      NEW id, id = Buffered'[i].rob_id
               PROVE  /\ InRob(id) /\ Age(id) > slot /\ Matches(Buffered'[i], Ent(id).op)
                      /\ id = h \/ Executed(id)
    <3>1. \A id : (InRob(id)' <=> InRob(id)) /\ Age(id)' = Age(id) /\ slot' = slot
                  /\ Ent(id)' = Ent(id)
      BY <1>1
    <3> QED
      BY <1>5, <1>6, <1>9, <3>1 DEF PendingRight, Executed
  <2>1. CASE i = n + 1
    BY <1>4, <1>5, <1>7, <1>9, <2>1
  <2>2. CASE i # n + 1
    <3>1. i \in 1 .. n
      BY <2>2
    <3> QED
      BY <1>5, <1>9, <1>11, <3>1
  <2> QED
    BY <2>1, <2>2
<1>13. PendingOrdered'
  <2> SUFFICES ASSUME NEW i \in 1 .. n + 1, NEW j \in 1 .. n + 1, i < j, Pending(Buffered'[i]),
                      Pending(Buffered'[j])
               PROVE  Age(Buffered'[i].rob_id) < Age(Buffered'[j].rob_id)
    BY <1>1, <1>6, <1>9 DEF PendingOrdered
  <2>1. i \in 1 .. n
    OBVIOUS
  <2>2. CASE j = n + 1
    BY <1>7, <1>9, <1>11, <2>1, <2>2
  <2>3. CASE j # n + 1
    <3>1. j \in 1 .. n
      BY <2>3
    <3> QED
      BY <1>1, <1>9, <2>1, <3>1 DEF PendingStores, PendingOrdered
  <2> QED
    BY <2>2, <2>3
<1>14. ExecutedPending'
  <2> SUFFICES ASSUME NEW id \in RobId, InRob(id), Age(id) > slot, Executed(id)'
               PROVE  \E i \in 1 .. n + 1 : Pending(Buffered'[i]) /\ Buffered'[i].rob_id = id
    BY <1>1, <1>6, <1>9 DEF ExecutedPending
  <2>1. CASE id = h
    <3>1. n + 1 \in 1 .. n + 1
      OBVIOUS
    <3> QED
      BY <1>7, <1>9, <2>1, <3>1
  <2>2. CASE id # h
    <3>1. PICK i \in DOMAIN Buffered : Pending(Buffered[i]) /\ Buffered[i].rob_id = id
      BY <1>1, <1>5, <2>2 DEF PendingStores, ExecutedPending
    <3>2. i \in 1 .. n + 1
      BY <1>9
    <3> QED
      BY <1>9, <3>1, <3>2
  <2> QED
    BY <2>1, <2>2
<1> QED
  BY <1>2, <1>3, <1>10, <1>12, <1>13, <1>14, TurnInFlight DEF IInv, PendingStores

-----------------------------------------------------------------------------
(* What a load reads through the buffer.                                   *)

\* The largest of the numbers of a set.
LEMMA LargestAt ==
  ASSUME NEW W, \A y \in W : y \in Nat, NEW m \in W, \A y \in W : y <= m
  PROVE  Max(W) = m
<1>1. \A y \in W : m >= y
  OBVIOUS
<1>2. Max(W) \in W /\ \A y \in W : Max(W) >= y
  BY <1>1 DEF Max
<1>3. Max(W) >= m /\ Max(W) <= m /\ Max(W) \in Nat /\ m \in Nat
  BY <1>2
<1> QED
  BY <1>3

LEMMA LargestExists ==
  ASSUME NEW n \in Nat, NEW W, \A y \in W : y \in 1 .. n, W # {}
  PROVE  \E x \in W : \A y \in W : y <= x
<1> DEFINE T == {n - k : k \in W}
<1>1. T \in SUBSET Nat /\ T # {}
  <2>1. \A k \in W : k \in Nat /\ n - k \in Nat
    OBVIOUS
  <2> QED
    BY <2>1
<1> HIDE DEF T
<1>2. PICK m \in T : \A k \in T : m <= k
  BY <1>1, LeastElement
<1>3. PICK x \in W : m = n - x
  BY DEF T
<1>4. \A y \in W : n - x <= n - y /\ x \in Nat /\ y \in Nat
  BY <1>2, <1>3 DEF T
<1> QED
  BY <1>4

\* A byte, as the youngest of some items to cover it leaves it.
Covering(items, Chosen, a) == {k \in Chosen : a \in Span(items[k])}
Youngest(items, Chosen, a, old) ==
  IF Covering(items, Chosen, a) = {} THEN old
  ELSE items[Max(Covering(items, Chosen, a))].data[a - items[Max(Covering(items, Chosen, a))].addr]

LEMMA YoungestNone ==
  ASSUME NEW items, NEW Chosen, NEW a, NEW old, \A k \in Chosen : a \notin Span(items[k])
  PROVE  Youngest(items, Chosen, a, old) = old
BY DEF Youngest, Covering

\* The youngest of them.
IsLast(items, Chosen, a, m) ==
  /\ \A k \in Chosen : k \in Nat
  /\ m \in Chosen /\ a \in Span(items[m])
  /\ \A k \in Chosen : a \in Span(items[k]) => k <= m

LEMMA YoungestAt ==
  ASSUME NEW items, NEW Chosen, NEW a, NEW old, NEW m, IsLast(items, Chosen, a, m)
  PROVE  Youngest(items, Chosen, a, old) = items[m].data[a - items[m].addr]
<1> DEFINE W == Covering(items, Chosen, a)
<1>1. (\A k \in W : k \in Nat) /\ m \in W /\ \A y \in W : y <= m
  BY DEF Covering, IsLast
<1> HIDE DEF W
<1>2. W # {} /\ Max(W) = m
  BY <1>1, LargestAt
<1> QED
  BY <1>2, Zenon DEF Youngest, W

LEMMA YoungestExists ==
  ASSUME NEW items, NEW n \in Nat, NEW Chosen, \A k \in Chosen : k \in 1 .. n, NEW a
  PROVE  \/ \A k \in Chosen : a \notin Span(items[k])
         \/ \E m \in Chosen : IsLast(items, Chosen, a, m)
<1> DEFINE W == Covering(items, Chosen, a)
<1>1. (\A k \in W : k \in 1 .. n) /\ W = {k \in Chosen : a \in Span(items[k])}
  BY DEF Covering
<1> HIDE DEF W
<1>2. W # {} => \E m \in W : \A y \in W : y <= m
  BY <1>1, LargestExists
<1> QED
  BY <1>1, <1>2 DEF IsLast

\* One more item.
WithNext(items, n, m, a, old) ==
  IF a \in Span(items[m]) THEN items[m].data[a - items[m].addr] ELSE Youngest(items, 1 .. n, a, old)

LEMMA YoungestNext ==
  ASSUME NEW items, NEW n \in Nat, NEW m, m = n + 1, NEW a, NEW old
  PROVE  Youngest(items, 1 .. m, a, old) = WithNext(items, n, m, a, old)
<1>1. CASE a \in Span(items[m])
  <2>1. IsLast(items, 1 .. m, a, m)
    BY <1>1 DEF IsLast
  <2> QED
    BY <1>1, <2>1, YoungestAt DEF WithNext
<1>2. CASE a \notin Span(items[m])
  <2>1. Covering(items, 1 .. m, a) = Covering(items, 1 .. n, a)
    BY <1>2 DEF Covering
  <2> QED
    BY <1>2, <2>1 DEF Youngest, WithNext
<1> QED
  BY <1>1, <1>2

\* Which bytes of a load an item covers.
LEMMA LeastIs ==
  ASSUME NEW a \in Int, NEW b \in Int
  PROVE  (Least(a, b) = a /\ a < b) \/ (Least(a, b) = b /\ b <= a)
BY DEF Least

LEMMA OverlapAbove ==
  ASSUME NEW x \in Nat, NEW n \in 1 .. 4, NEW addr \in Nat, NEW size \in 1 .. 4,
         x >= addr, x < addr + size, NEW b \in 0 .. size - 1
  PROVE  /\ b \in x - addr .. x - addr + Least(n, addr + size - x) - 1 <=> addr + b \in x .. x + n - 1
         /\ b - (x - addr) = addr + b - x
<1>1. PICK y \in Int : y = addr + size - x
  OBVIOUS
<1>2. PICK k : k = Least(n, y)
  OBVIOUS
<1>3. (k = n /\ n < y) \/ (k = y /\ y <= n)
  BY <1>1, <1>2, LeastIs
<1>4. b \in x - addr .. x - addr + k - 1 <=> addr + b \in x .. x + n - 1
  <2>1. CASE k = n /\ n < y
    BY <1>1, <2>1
  <2>2. CASE k = y /\ y <= n
    BY <1>1, <2>2
  <2> QED
    BY <1>3, <2>1, <2>2
<1>5. b - (x - addr) = addr + b - x
  OBVIOUS
<1> QED
  BY <1>1, <1>2, <1>4, <1>5

LEMMA OverlapBelow ==
  ASSUME NEW x \in Nat, NEW n \in 1 .. 4, NEW addr \in Nat, NEW size \in 1 .. 4,
         x < addr, x + n > addr, NEW b \in 0 .. size - 1
  PROVE  /\ b < Least(size, x + n - addr) <=> addr + b \in x .. x + n - 1
         /\ b + (addr - x) = addr + b - x
<1>1. PICK y \in Int : y = x + n - addr
  OBVIOUS
<1>2. PICK k : k = Least(size, y)
  OBVIOUS
<1>3. (k = size /\ size < y) \/ (k = y /\ y <= size)
  BY <1>1, <1>2, LeastIs
<1>4. b < k <=> addr + b \in x .. x + n - 1
  <2>1. CASE k = size /\ size < y
    BY <1>1, <2>1
  <2>2. CASE k = y /\ y <= size
    BY <1>1, <2>2
  <2> QED
    BY <1>3, <2>1, <2>2
<1>5. b + (addr - x) = addr + b - x
  OBVIOUS
<1> QED
  BY <1>1, <1>2, <1>4, <1>5

LEMMA OverlapNone ==
  ASSUME NEW x \in Nat, NEW n \in 1 .. 4, NEW addr \in Nat, NEW size \in 1 .. 4,
         ~(x >= addr /\ x < addr + size), ~(x < addr /\ x + n > addr), NEW b \in 0 .. size - 1
  PROVE  addr + b \notin x .. x + n - 1
OBVIOUS
\* The value has these bytes.
Sized(value, size) == value = [b \in 0 .. size - 1 |-> value[b]]

LEMMA OverlayIs ==
  ASSUME NEW item \in Item, NEW size \in Length, NEW addr \in Nat, NEW value,
         Sized(value, size)
  PROVE  Overlay(value, item, addr, size) =
           [b \in 0 .. size - 1 |-> IF addr + b \in Span(item) THEN item.data[addr + b - item.addr]
                                    ELSE value[b]]
<1>1. PICK x, n, data : x = item.addr /\ n = item.size /\ data = item.data
  OBVIOUS
<1>2. x \in Nat /\ n \in 1 .. 4 /\ size \in 1 .. 4
  <2>1. item.addr \in Addr /\ item.size \in Length
    BY DEF Item
  <2>2. x \in Nat
    BY <1>1, <2>1, Sizes
  <2>3. n \in 1 .. 4 /\ size \in 1 .. 4
    BY <1>1, <2>1 DEF Length
  <2> QED
    BY <2>2, <2>3
<1>3. Span(item) = x .. x + n - 1
  BY <1>1 DEF Span
<1>4. Overlay(value, item, addr, size) =
        IF x >= addr /\ x < addr + size
        THEN [b \in 0 .. size - 1 |->
                IF b \in x - addr .. x - addr + Least(n, addr + size - x) - 1
                THEN data[b - (x - addr)] ELSE value[b]]
        ELSE IF x < addr /\ x + n > addr
        THEN [b \in 0 .. size - 1 |->
                IF b < Least(size, x + n - addr) THEN data[b + (addr - x)] ELSE value[b]]
        ELSE value
  BY <1>1 DEF Overlay
<1>5. CASE x >= addr /\ x < addr + size
  <2>1. \A b \in 0 .. size - 1 :
          /\ b \in x - addr .. x - addr + Least(n, addr + size - x) - 1 <=> addr + b \in x .. x + n - 1
          /\ b - (x - addr) = addr + b - x
    BY <1>2, <1>5, OverlapAbove
  <2> QED
    BY <1>1, <1>3, <1>4, <1>5, <2>1, ZenonT(60)
<1>6. CASE x < addr /\ x + n > addr
  <2>1. \A b \in 0 .. size - 1 :
          /\ b < Least(size, x + n - addr) <=> addr + b \in x .. x + n - 1
          /\ b + (addr - x) = addr + b - x
    BY <1>2, <1>6, OverlapBelow
  <2>2. ~(x >= addr /\ x < addr + size)
    BY <1>2, <1>6
  <2> QED
    BY <1>1, <1>3, <1>4, <1>6, <2>1, <2>2, ZenonT(60)
<1>7. CASE ~(x >= addr /\ x < addr + size) /\ ~(x < addr /\ x + n > addr)
  <2>1. \A b \in 0 .. size - 1 : addr + b \notin x .. x + n - 1
    BY <1>2, <1>7, OverlapNone
  <2> QED
    BY <1>1, <1>3, <1>4, <1>7, <2>1 DEF Sized
<1> QED
  BY <1>5, <1>6, <1>7

LEMMA OverlaidIs ==
  ASSUME Len(Items) \in Nat, NEW addr, NEW size, NEW bus
  PROVE  Overlaid(addr, size, bus) =
           [i \in 0 .. Len(Items) |->
              IF i = 0 THEN bus
              ELSE Overlay(Overlaid(addr, size, bus)[i - 1], Items[i], addr, size)]
<1> DEFINE Further(s, i) == Overlay(s, Items[i], addr, size)
           Step(g, i) == IF i = 0 THEN bus ELSE Further(g[i - 1], i)
           N == {n \in Nat : \E g : g = [i \in 0 .. n |-> Step(g, i)]}
<1> HIDE DEF Further
<1>1. 0 \in N
  <2> DEFINE g == [i \in 0 .. 0 |-> bus]
  <2>1. g = [i \in 0 .. 0 |-> Step(g, i)]
    OBVIOUS
  <2> QED
    BY <2>1
<1>2. ASSUME NEW n \in Nat, n \in N
      PROVE  n + 1 \in N
  <2>1. PICK g : g = [i \in 0 .. n |-> Step(g, i)]
    BY <1>2
  <2> DEFINE h == [i \in 0 .. n + 1 |-> IF i = n + 1 THEN Further(g[n], n + 1) ELSE g[i]]
  <2>2. \A i \in 0 .. n + 1 : h[i] = Step(h, i)
    <3> SUFFICES ASSUME NEW i \in 0 .. n + 1
                 PROVE  h[i] = Step(h, i)
      OBVIOUS
    <3>1. CASE i = n + 1
      BY <3>1
    <3>2. CASE i \in 0 .. n
      <4>1. g[i] = Step(g, i)
        BY <2>1, <3>2, Zenon
      <4> QED
        BY <4>1, <3>2
    <3> QED
      BY <3>1, <3>2
  <2>3. h = [i \in 0 .. n + 1 |-> Step(h, i)]
    <3> HIDE DEF Step
    <3> QED
      BY <2>2
  <2> HIDE DEF h
  <2> QED
    BY <2>3
<1>3. Len(Items) \in N
  <2> HIDE DEF N
  <2> QED
    BY <1>1, <1>2, NatInd
<1>4. PICK g : g = [i \in 0 .. Len(Items) |-> Step(g, i)]
  BY <1>3
<1>5. Overlaid(addr, size, bus) = CHOOSE v : v = [i \in 0 .. Len(Items) |-> Step(v, i)]
  BY Zenon DEF Overlaid, Further
<1> QED
  BY <1>4, <1>5, Zenon DEF Further

\* A load gets the bytes of the youngest items to cover them.
LEMMA FeedbackIs ==
  ASSUME Types, NEW addr \in Nat, NEW size \in Length
  PROVE  get_feedback_value(addr, size, bus_read(addr, size)) =
           [b \in 0 .. size - 1 |-> Youngest(Items, 1 .. Len(Items), addr + b, memory[addr + b])]
<1> DEFINE bus == bus_read(addr, size)
           value == Overlaid(addr, size, bus)
           After(n) == [b \in 0 .. size - 1 |-> Youngest(Items, 1 .. n, addr + b, memory[addr + b])]
           N == {n \in 0 .. Len(Items) : value[n] = After(n)}
<1>1. Len(Items) \in Nat /\ \A i \in 1 .. Len(Items) : Items[i] \in Item
  BY BufferedSeq
<1>2. /\ value[0] = bus
      /\ \A n \in 1 .. Len(Items) : value[n] = Overlay(value[n - 1], Items[n], addr, size)
  <2>1. value = [i \in 0 .. Len(Items) |->
                   IF i = 0 THEN bus ELSE Overlay(value[i - 1], Items[i], addr, size)]
    <3> HIDE DEF bus
    <3> QED
      BY <1>1, OverlaidIs
  <2> HIDE DEF value, bus
  <2> QED
    BY <1>1, <2>1
<1> HIDE DEF value
<1>3. 0 \in N
  <2>1. \A b \in 0 .. size - 1 : Youngest(Items, 1 .. 0, addr + b, memory[addr + b]) = memory[addr + b]
    BY DEF Youngest, Covering
  <2>2. After(0) = bus
    BY <2>1 DEF bus_read
  <2>3. value[0] = After(0) /\ 0 \in 0 .. Len(Items)
    BY <1>1, <1>2, <2>2
  <2> HIDE DEF After
  <2> QED
    BY <2>3
<1>4. \A n \in 0 .. Len(Items) - 1 : n \in N => n + 1 \in N
  <2> SUFFICES ASSUME NEW n \in 0 .. Len(Items) - 1, value[n] = After(n)
               PROVE  value[n + 1] = After(n + 1)
    BY <1>1
  <2>1. n + 1 \in 1 .. Len(Items) /\ (n + 1) - 1 = n /\ n \in Nat
    BY <1>1
  <2>2. value[n + 1] = Overlay(After(n), Items[n + 1], addr, size)
    BY <1>2, <2>1
  <2> DEFINE f == After(n)
             item == Items[n + 1]
  <2>3. Sized(f, size)
    BY DEF Sized
  <2>4. item \in Item
    BY <1>1, <2>1
  <2>5. \A b \in 0 .. size - 1 : f[b] = Youngest(Items, 1 .. n, addr + b, memory[addr + b])
    OBVIOUS
  <2>6. value[n + 1] = Overlay(f, item, addr, size)
    BY <2>2
  <2> HIDE DEF f
  <2>7. value[n + 1] =
          [b \in 0 .. size - 1 |-> IF addr + b \in Span(item) THEN item.data[addr + b - item.addr]
                                   ELSE f[b]]
    <3> HIDE DEF item
    <3>1. Overlay(f, item, addr, size) =
            [b \in 0 .. size - 1 |-> IF addr + b \in Span(item) THEN item.data[addr + b - item.addr]
                                     ELSE f[b]]
      BY <2>3, <2>4, OverlayIs, SMTT(60)
    <3> QED
      BY <2>6, <3>1, Zenon
  <2>8. \A b \in 0 .. size - 1 :
          Youngest(Items, 1 .. n + 1, addr + b, memory[addr + b]) =
            IF addr + b \in Span(item) THEN item.data[addr + b - item.addr] ELSE f[b]
    <3> SUFFICES ASSUME NEW b \in 0 .. size - 1
                 PROVE  Youngest(Items, 1 .. n + 1, addr + b, memory[addr + b]) =
                          IF addr + b \in Span(item) THEN item.data[addr + b - item.addr] ELSE f[b]
      OBVIOUS
    <3>1. PICK a, m, old : a \in Nat /\ m \in Nat /\ a = addr + b /\ m = n + 1 /\ old = memory[a]
      BY <2>1
    <3>2. Youngest(Items, 1 .. m, a, old) = WithNext(Items, n, m, a, old)
      BY <2>1, <3>1, YoungestNext
    <3>3. f[b] = Youngest(Items, 1 .. n, a, old)
      BY <2>5, <3>1
    <3>4. Items[m] = item
      BY <3>1
    <3> HIDE DEF item
    <3>5. Youngest(Items, 1 .. m, a, old) = IF a \in Span(item) THEN item.data[a - item.addr] ELSE f[b]
      BY <3>2, <3>3, <3>4 DEF WithNext
    <3>6. 1 .. n + 1 = 1 .. m /\ addr + b = a /\ memory[addr + b] = old
      BY <3>1
    <3>7. Youngest(Items, 1 .. n + 1, addr + b, memory[addr + b]) = Youngest(Items, 1 .. m, a, old)
      BY ONLY <3>6, Zenon
    <3>8. CASE a \in Span(item)
      <4>1. addr + b \in Span(item)
        BY <3>6, <3>8, Zenon
      <4>3. addr + b - item.addr = a - item.addr
        <5>1. item.addr \in Nat
          <6>1. item.addr \in Addr
            BY <2>4 DEF Item
          <6> QED
            BY <6>1, Sizes
        <5>2. addr \in Int /\ b \in Int
          BY DEF Length
        <5> QED
          BY <3>6, <5>1, <5>2
      <4>2. Youngest(Items, 1 .. m, a, old) = item.data[a - item.addr]
        BY <3>5, <3>8
      <4> QED
        BY <3>7, <4>1, <4>2, <4>3
    <3>9. CASE a \notin Span(item)
      <4>1. addr + b \notin Span(item)
        BY <3>6, <3>9, Zenon
      <4>2. Youngest(Items, 1 .. m, a, old) = f[b]
        BY <3>5, <3>9
      <4> QED
        BY <3>7, <4>1, <4>2
    <3> QED
      BY <3>8, <3>9
  <2> HIDE DEF item
  <2> QED
    BY <2>7, <2>8
<1>5. Len(Items) \in N
  <2>1. 0 .. Len(Items) \subseteq N
    <3> HIDE DEF N
    <3> QED
      BY <1>1, <1>3, <1>4, UpTo
  <2> QED
    BY <1>1, <2>1
<1> QED
  BY <1>5 DEF get_feedback_value, value

\* Bytes of memory and of items are bytes.
LEMMA ItemByte ==
  ASSUME NEW x \in Item, NEW a \in Addr, a \in Span(x)
  PROVE  x.data[a - x.addr] \in Byte
<1>1. x.data \in [0 .. x.size - 1 -> Byte] /\ x.addr \in Nat /\ x.size \in Nat /\ a \in Nat
  <2>1. x.data \in [0 .. x.size - 1 -> Byte] /\ x.addr \in Addr /\ x.size \in Length
    BY DEF Item
  <2>2. x.size \in Nat
    BY <2>1 DEF Length
  <2>3. Addr \subseteq Nat
    BY Sizes
  <2> QED
    BY <2>1, <2>2, <2>3
<1>2. a - x.addr \in 0 .. x.size - 1
  BY <1>1 DEF Span
<1> QED
  BY <1>1, <1>2

LEMMA YoungestByte ==
  ASSUME Types, NEW a \in Addr, NEW Chosen, \A k \in Chosen : k \in 1 .. Len(Items)
  PROVE  Youngest(Items, Chosen, a, memory[a]) \in Byte
<1>1. Len(Items) \in Nat /\ \A i \in 1 .. Len(Items) : Items[i] \in Item
  BY BufferedSeq
<1>2. memory[a] \in Byte
  BY DEF Types
<1>3. \A x \in Item : a \in Span(x) => x.data[a - x.addr] \in Byte
  BY ItemByte
<1>4. CASE \A k \in Chosen : a \notin Span(Items[k])
  BY <1>2, <1>4, YoungestNone
<1>5. ASSUME NEW m \in Chosen, IsLast(Items, Chosen, a, m)
      PROVE  Youngest(Items, Chosen, a, memory[a]) \in Byte
  <2>1. Youngest(Items, Chosen, a, memory[a]) = Items[m].data[a - Items[m].addr]
    BY <1>5, YoungestAt
  <2>2. Items[m] \in Item /\ a \in Span(Items[m])
    BY <1>1, <1>5 DEF IsLast
  <2> QED
    BY <1>3, <2>1, <2>2
<1> QED
  BY <1>1, <1>4, <1>5, YoungestExists

LEMMA FeedbackValue ==
  ASSUME Types, NEW addr \in Addr, NEW size \in Length, addr .. addr + size - 1 \subseteq Addr
  PROVE  get_feedback_value(addr, size, bus_read(addr, size)) \in [0 .. size - 1 -> Byte]
<1>1. addr \in Nat /\ size \in Nat
  BY Sizes DEF Length
<1>2. \A b \in 0 .. size - 1 : addr + b \in Addr
  BY <1>1
<1>3. \A b \in 0 .. size - 1 : Youngest(Items, 1 .. Len(Items), addr + b, memory[addr + b]) \in Byte
  BY <1>2, YoungestByte
<1> QED
  BY <1>1, <1>3, FeedbackIs

-----------------------------------------------------------------------------
(* The operations of the unit, and the other units.                        *)

LEMMA Ops ==
  ASSUME NEW op \in Op
  PROVE  /\ op.kind \in {"load", "store", "other"}
         /\ op.kind # "other" => /\ op.size \in Length /\ op.addr \in Addr /\ op.addr \in Nat
                                 /\ op.addr .. op.addr + op.size - 1 \subseteq Addr
         /\ op.kind = "store" => op.data \in [0 .. op.size - 1 -> Byte]
<1>1. /\ op.kind \in {"load", "store", "other"}
      /\ op.kind # "other" => /\ op.size \in {1, 2, 4} /\ op.addr \in Addr
                              /\ op.addr .. op.addr + op.size - 1 \subseteq Addr
      /\ op.kind = "store" => op.data \in [0 .. op.size - 1 -> Byte]
  BY OpAssumption
<1>2. op.kind # "other" => op.addr \in Nat
  BY <1>1, Sizes
<1> QED
  BY <1>1, <1>2 DEF Length

LEMMA OfferedPack ==
  ASSUME IInv, Offered # << >>
  PROVE  Waiting # << >> /\ Head(Offered) = Waiting[1] /\ Head(Offered) \in Pack
<1>1. Waiting # << >> /\ Head(Offered) = Waiting[1] /\ 1 \in DOMAIN Waiting
  BY OfferedIs DEF IInv
<1>2. Waiting[1] \in Pack
  BY <1>1, WaitingSeq DEF IInv
<1> QED
  BY <1>1, <1>2

LEMMA IssueNext ==
  ASSUME Types, NEW answer, NEW held, NEW pushed, LsuTurn(answer, held, pushed),
         Offered # << >>
  PROVE  issue_q' \in Seq(Pack)
<1>1. issue_q \in Seq(Pack)
  BY DEF Types
<1>2. hold_rev_pack = << >> => issue_q # << >>
  BY DEF Offered
<1>3. issue_q' = IF hold_rev_pack = << >> /\ <<answer, held>> # <<<< >>, << >>>>
                 THEN Tail(issue_q) ELSE issue_q
  BY DEF LsuTurn
<1>4. CASE hold_rev_pack = << >> /\ <<answer, held>> # <<<< >>, << >>>>
  <2>1. issue_q # << >> /\ issue_q' = Tail(issue_q)
    BY <1>2, <1>3, <1>4
  <2>2. Tail(issue_q) \in Seq(Pack)
    BY <1>1, <2>1
  <2> QED
    BY <2>1, <2>2
<1>5. CASE ~(hold_rev_pack = << >> /\ <<answer, held>> # <<<< >>, << >>>>)
  <2>1. issue_q' = issue_q
    BY <1>3, <1>5
  <2> QED
    BY <1>1, <2>1
<1> QED
  BY <1>4, <1>5

LEMMA HeadAnswered ==
  ASSUME IInv, NEW a, NEW pushed, LsuTurn(<<a>>, << >>, pushed), Offered # << >>,
         a \in Reply, a.id = Head(Offered).id, Fits(Head(Offered).op, a.result, a.value)
  PROVE  AnswersHead(a, pushed)
<1>1. Types
  BY DEF IInv
<1>2. Waiting # << >> /\ Head(Offered) = Waiting[1]
  BY OfferedPack
<1>3. Waiting' = Tail(Waiting)
  <2>1. <<a>> # << >>
    OBVIOUS
  <2> QED
    BY <1>1, <2>1, WaitingMoves
<1>4. issue_q' \in Seq(Pack)
  BY <1>1, IssueNext
<1> QED
  BY <1>2, <1>3, <1>4 DEF AnswersHead

LEMMA NothingIssuedOK == IInv /\ NothingIssued => IInv'
<1> SUFFICES ASSUME IInv, NothingIssued
             PROVE  IInv'
  OBVIOUS
<1>1. hold_rev_pack = << >> /\ LsuTurn(<< >>, << >>, push_q)
  BY DEF NothingIssued
<1>2. hold_rev_pack' = << >> /\ issue_q' = issue_q
  BY <1>1 DEF LsuTurn
<1>3. issue_q' \in Seq(Pack) /\ << >> \in Seq(Pack) /\ Len(<< >>) <= 1
  BY <1>2 DEF IInv, Types
<1>4. Waiting' = Waiting
  BY <1>1, <1>2, SameWaiting
<1> QED
  BY <1>1, <1>3, <1>4, QuietTurn

\* The answer of an access that raised an exception.
LEMMA ExceptionAnswer ==
  ASSUME IInv, RaiseException
  PROVE  LET a == Answer(Waiting[1], "exception", NoValue)
         IN  AnswersHead(a, push_q) /\ a.id = Waiting[1].id /\ a.result = "exception"
             /\ a.value = NoValue
<1>1. /\ hold_rev_pack = << >> /\ issue_q # << >>
      /\ LsuTurn(<<Answer(Head(issue_q), "exception", NoValue)>>, << >>, push_q)
  BY DEF RaiseException
<1>2. Offered = issue_q
  BY <1>1 DEF Offered
<1>3. Waiting # << >> /\ Head(Offered) = Waiting[1] /\ Head(Offered) \in Pack
  BY <1>1, <1>2, OfferedPack
<1>4. PICK a : a = Answer(Head(Offered), "exception", NoValue)
  OBVIOUS
<1>5. a.id = Head(Offered).id /\ a.result = "exception" /\ a.value = NoValue /\ a \in Reply
  BY <1>3, <1>4 DEF Answer, Reply, Pack, Value
<1>6. Fits(Head(Offered).op, a.result, a.value)
  BY <1>5 DEF Fits
<1>7. LsuTurn(<<a>>, << >>, push_q)
  BY <1>1, <1>2, <1>4
<1>8. AnswersHead(a, push_q)
  BY <1>1, <1>2, <1>5, <1>6, <1>7, HeadAnswered
<1> QED
  BY <1>3, <1>4, <1>5, <1>8

LEMMA RaiseExceptionOK == IInv /\ RaiseException => IInv'
<1> SUFFICES ASSUME IInv, RaiseException
             PROVE  IInv'
  OBVIOUS
<1>1. PICK a : AnswersHead(a, push_q) /\ a.result = "exception"
  BY ExceptionAnswer
<1> QED
  BY <1>1, AnswerTurn

\* What the head loads.
Loaded == get_feedback_value(Waiting[1].op.addr, Waiting[1].op.size,
                             bus_read(Waiting[1].op.addr, Waiting[1].op.size))

LEMMA LoadAnswer ==
  ASSUME IInv, Load
  PROVE  LET a == Answer(Waiting[1], "ok", Loaded)
         IN  /\ AnswersHead(a, push_q) /\ a.id = Waiting[1].id /\ a.result = "ok"
             /\ a.value = Loaded /\ Waiting[1].op.kind = "load" /\ Loaded # NoValue
<1>1. Offered # << >> /\ Head(Offered).op.kind = "load"
  BY DEF Load
<1>2. Waiting # << >> /\ Head(Offered) = Waiting[1] /\ Head(Offered) \in Pack
  BY <1>1, OfferedPack
<1>3. LsuTurn(<<Answer(Head(Offered), "ok", Loaded)>>, << >>, push_q)
  BY <1>2 DEF Load, Loaded
<1>4. PICK op \in Op : op = Head(Offered).op
  BY <1>2 DEF Pack
<1>5. op.size \in Length /\ op.addr \in Addr /\ op.addr .. op.addr + op.size - 1 \subseteq Addr
  BY <1>1, <1>4, Ops
<1>6. Loaded \in [0 .. op.size - 1 -> Byte]
  BY <1>2, <1>4, <1>5, FeedbackValue DEF Loaded, IInv
<1>7. Loaded \in Bytes
  BY <1>5, <1>6 DEF Bytes
<1>8. Loaded # NoValue
  <2>1. 0 \in 0 .. op.size - 1
    BY <1>5 DEF Length
  <2>2. DOMAIN Loaded # {} /\ DOMAIN NoValue = {}
    BY <1>6, <2>1 DEF NoValue
  <2> QED
    BY <2>2
<1>9. PICK a : a = Answer(Head(Offered), "ok", Loaded)
  OBVIOUS
<1>10. a.id = Head(Offered).id /\ a.result = "ok" /\ a.value = Loaded /\ a \in Reply
  BY <1>2, <1>7, <1>9 DEF Answer, Reply, Pack, Value
<1>11. Fits(Head(Offered).op, a.result, a.value)
  BY <1>1, <1>8, <1>10 DEF Fits
<1>12. AnswersHead(a, push_q)
  BY <1>1, <1>3, <1>9, <1>10, <1>11, HeadAnswered
<1> QED
  BY <1>1, <1>2, <1>8, <1>9, <1>10, <1>12

LEMMA LoadOK == IInv /\ Load => IInv'
<1> SUFFICES ASSUME IInv, Load
             PROVE  IInv'
  OBVIOUS
<1>1. PICK a : AnswersHead(a, push_q) /\ Waiting[1].op.kind = "load"
  BY LoadAnswer
<1> QED
  BY <1>1, AnswerTurn

\* A store is held, or answered and pushed.
PushesStore(a, item) ==
  /\ AnswersHead(a, <<item>>) /\ a.id = Waiting[1].id /\ a.result = "ok"
  /\ a.value = NoValue /\ Waiting[1].op.kind = "store" /\ ~is_full(store_buffer)
  /\ item.rob_id = Waiting[1].id /\ ~item.committed /\ Matches(item, Waiting[1].op)

LEMMA StoreTurn ==
  ASSUME IInv, Store
  PROVE  \/ LsuTurn(<< >>, <<Waiting[1]>>, push_q) /\ Waiting' = Waiting /\ issue_q' \in Seq(Pack)
            /\ Waiting[1] \in Pack
         \/ \E a, item : item \in Item /\ PushesStore(a, item)
<1>1. Offered # << >> /\ Head(Offered).op.kind = "store"
  BY DEF Store
<1>2. Waiting # << >> /\ Head(Offered) = Waiting[1] /\ Head(Offered) \in Pack
  BY <1>1, OfferedPack
<1>3. PICK pack : pack = Head(Offered)
  OBVIOUS
<1>4. PICK op \in Op : op = pack.op
  BY <1>2, <1>3 DEF Pack
<1>5. /\ op.size \in Length /\ op.addr \in Addr /\ op.addr .. op.addr + op.size - 1 \subseteq Addr
      /\ op.data \in [0 .. op.size - 1 -> Byte] /\ op.kind = "store" /\ pack.id \in RobId
  BY <1>1, <1>2, <1>3, <1>4, Ops DEF Pack
<1>6. PICK item : item = [rob_id |-> pack.id, addr |-> op.addr, size |-> op.size,
                          data |-> op.data, committed |-> FALSE]
  OBVIOUS
<1>7. item \in Item /\ item.rob_id = pack.id /\ ~item.committed /\ Matches(item, op)
  <2>1. op.data \in Bytes
    BY <1>5 DEF Bytes
  <2>2. item \in [rob_id : RobId, addr : Addr, size : Length, data : Bytes, committed : BOOLEAN]
    BY <1>5, <1>6, <2>1
  <2>3. Span(item) = op.addr .. op.addr + op.size - 1
    BY <1>6 DEF Span
  <2>4. item.data \in [0 .. item.size - 1 -> Byte]
    BY <1>5, <1>6
  <2>5. item \in Item
    BY <1>5, <2>2, <2>3, <2>4 DEF Item
  <2> QED
    BY <1>6, <2>5 DEF Matches
<1>8. IF is_full(store_buffer)
      THEN LsuTurn(<< >>, <<pack>>, push_q)
      ELSE LsuTurn(<<Answer(pack, "ok", NoValue)>>, << >>, Append(push_q, item))
  BY <1>3, <1>4, <1>6 DEF Store
<1>9. CASE is_full(store_buffer)
  <2>1. LsuTurn(<< >>, <<Head(Offered)>>, push_q)
    BY <1>3, <1>8, <1>9
  <2>2. Waiting' = Waiting /\ issue_q' \in Seq(Pack)
    BY <1>1, <2>1, WaitingMoves, IssueNext DEF IInv
  <2> QED
    BY <1>2, <2>1, <2>2
<1>10. CASE ~is_full(store_buffer)
  <2>1. PICK a : a = Answer(pack, "ok", NoValue)
    OBVIOUS
  <2>2. a.id = pack.id /\ a.result = "ok" /\ a.value = NoValue /\ a \in Reply
    BY <1>5, <2>1 DEF Answer, Reply, Value
  <2>3. Fits(op, a.result, a.value)
    BY <1>5, <2>2 DEF Fits
  <2>4. push_q = << >>
    BY <1>8, <1>10 DEF LsuTurn, IInv, Turns
  <2>5. Append(push_q, item) = <<item>>
    BY <2>4
  <2>6. LsuTurn(<<a>>, << >>, <<item>>)
    BY <1>8, <1>10, <2>1, <2>5
  <2>7. AnswersHead(a, <<item>>)
    BY <1>1, <1>3, <1>4, <2>2, <2>3, <2>6, HeadAnswered
  <2>8. pack = Waiting[1] /\ op = Waiting[1].op
    BY <1>2, <1>3, <1>4
  <2>9. PushesStore(a, item)
    BY <1>5, <1>7, <1>10, <2>2, <2>7, <2>8 DEF PushesStore
  <2> QED
    BY <1>7, <2>9
<1> QED
  BY <1>9, <1>10

LEMMA StoreOK == IInv /\ Store => IInv'
<1> SUFFICES ASSUME IInv, Store
             PROVE  IInv'
  OBVIOUS
<1>1. CASE LsuTurn(<< >>, <<Waiting[1]>>, push_q) /\ Waiting' = Waiting /\ issue_q' \in Seq(Pack)
           /\ Waiting[1] \in Pack
  <2>1. <<Waiting[1]>> \in Seq(Pack) /\ Len(<<Waiting[1]>>) <= 1
    BY <1>1
  <2> QED
    BY <1>1, <2>1, QuietTurn
<1>2. CASE \E a, item : item \in Item /\ PushesStore(a, item)
  <2>1. PICK a, item : item \in Item /\ PushesStore(a, item)
    BY <1>2
  <2> QED
    BY <2>1, PushTurn DEF PushesStore
<1> QED
  BY <1>1, <1>2, StoreTurn

LEMMA FlushUnitsOK == IInv /\ FlushUnits => IInv'
<1> SUFFICES ASSUME IInv, FlushUnits
             PROVE  IInv'
  OBVIOUS
<1>1. /\ stage = "lsu" /\ flush_feedback /\ issue_q' = << >> /\ hold_rev_pack' = << >>
      /\ lsu_wb_port' = << >> /\ wb_commit_port' = << >> /\ stage' = "rename"
      /\ UNCHANGED <<stores, push_q, rob, commit, slot>>
  BY DEF FlushUnits, UnitsFlushedTo
<1>2. Types /\ Turns /\ CommittedFirst
  BY DEF IInv
<1>3. Types'
  <2>1. << >> \in Seq(Reply) /\ << >> \in Seq(Pack) /\ Len(<< >>) = 0
    OBVIOUS
  <2> QED
    BY <1>1, <1>2, <2>1 DEF Types, stores, commit
<1>4. Turns'
  <2>1. Waiting' = << >>
    BY <1>1 DEF Waiting
  <2> QED
    BY <1>1, <1>2, <2>1 DEF Turns, Straight, stores, commit
<1>5. CommittedFirst'
  <2>1. Buffered' = Buffered /\ \A x : Pending(x)' <=> Pending(x)
    BY <1>1, SameBuffer DEF Pending, Named, stores, commit
  <2> QED
    BY <1>2, <2>1 DEF CommittedFirst
<1>6. ~Straight'
  BY <1>1 DEF Straight, commit
<1> QED
  BY <1>3, <1>4, <1>5, <1>6 DEF IInv

LEMMA OtherAnswerOK ==
  IInv /\ (\E id \in RobId, result \in {"ok", "exception", "miss"} : OtherAnswer(id, result)) => IInv'
<1> SUFFICES ASSUME IInv, NEW id \in RobId, NEW result \in {"ok", "exception", "miss"},
                    OtherAnswer(id, result)
             PROVE  IInv'
  OBVIOUS
<1>1. /\ stage = "lsu" /\ ~flush_feedback /\ check_id_valid(rob, id)
      /\ get_item(rob, id).op.kind = "other" /\ get_item(rob, id).finish = "no"
      /\ rob' = set_item(rob, id, [get_item(rob, id) EXCEPT !.finish = result])
      /\ UNCHANGED <<stores, push_q, units, wb_commit_port, commit, stage, slot>>
  BY DEF OtherAnswer
<1>2. Types /\ Turns /\ CommittedFirst /\ InFlight /\ PendingStores /\ Straight
  BY <1>1 DEF IInv, Turns, Straight
<1>3. ROB_SIZE \in Nat \ {0} /\ rob \in Rings(ROB_SIZE, Entry) /\ id \in 0 .. ROB_SIZE - 1
  BY <1>2, Sizes DEF Types
<1>4. InRob(id)
  BY <1>1, <1>3, ValidIs DEF InRob, Age
<1>5. Ent(id) \in Entry /\ ~Access(id) /\ Ent(id).finish = "no" /\ Ent(id).value = NoValue
  <2>1. Ent(id) \in Entry /\ Ent(id).finish = "no" /\ Ent(id).op.kind = "other"
    BY <1>1, <1>2, <1>4, Entries DEF Ent
  <2> QED
    BY <1>2, <1>4, <2>1 DEF InFlight, EntriesFit, Fits, Access
<1>6. PICK e : e = [Ent(id) EXCEPT !.finish = result]
  OBVIOUS
<1>7. e \in Entry /\ e.op = Ent(id).op /\ e.finish = result /\ e.value = NoValue
  BY <1>5, <1>6 DEF Entry
<1>8. /\ rob' \in Rings(ROB_SIZE, Entry) /\ get_size(rob)' = get_size(rob)
      /\ \A j : Age(j)' = Age(j) /\ (InRob(j)' <=> InRob(j))
      /\ \A j \in RobId : Ent(j)' = IF j = id THEN e ELSE Ent(j)
  <2>1. rob' = set_item(rob, id, e) /\ RobId = 0 .. ROB_SIZE - 1
    BY <1>1, <1>6, Sizes DEF Ent
  <2>2. /\ rob' \in Rings(ROB_SIZE, Entry) /\ get_size(rob') = get_size(rob)
        /\ \A j : At(rob', j) = At(rob, j)
        /\ \A j \in RobId : get_item(rob', j) = IF j = id THEN e ELSE get_item(rob, j)
    BY <1>3, <1>7, <2>1, ItemSet
  <2> QED
    BY <2>2 DEF Age, InRob, Ent
<1>9. Types'
  BY <1>1, <1>2, <1>8 DEF Types, stores, units, commit
<1>10. Waiting' = Waiting /\ \A j : IsWaiting(j)' <=> IsWaiting(j)
  BY <1>1, SameWaiting DEF units
<1>11. Turns'
  BY <1>1, <1>2 DEF Turns, Straight, stores, units, commit
<1>12. Buffered' = Buffered /\ \A x : Pending(x)' <=> Pending(x)
  BY <1>1, SameBuffer DEF Pending, Named, stores, commit
<1>13. CommittedFirst'
  BY <1>2, <1>12 DEF CommittedFirst
<1>14. Answered' = Answered /\ lsu_wb_port' = lsu_wb_port /\ wb_commit_port' = wb_commit_port
  BY <1>1, SameAnswers DEF units
<1>15. \A j \in RobId : /\ Access(j)' <=> Access(j)
                        /\ Access(j) => Ent(j)' = Ent(j)
                        /\ Ent(j)'.op = Ent(j).op
  BY <1>5, <1>7, <1>8 DEF Access
<1>16. EntriesFit'
  BY <1>2, <1>5, <1>7, <1>8 DEF InFlight, EntriesFit, Fits, Access
<1>17. Retiring'
  <2>1. \A j \in RobId : Age(j) <= slot => j # id /\ Ent(j).finish = "ok"
    BY <1>2, <1>5 DEF InFlight, Retiring
  <2> QED
    BY <1>1, <1>2, <1>8, <2>1 DEF InFlight, Retiring, commit
<1>18. PacksRight' /\ PacksOrdered'
  <2>1. \A k \in DOMAIN Waiting : Waiting[k].id \in RobId
    BY <1>2, WaitingSeq
  <2>2. PacksRight'
    <3> SUFFICES ASSUME NEW k \in DOMAIN Waiting, NEW j, j = Waiting[k].id
                 PROVE  InRob(j)' /\ Access(j)' /\ Ent(j)'.op = Waiting[k].op /\ Ent(j)'.finish = "no"
      BY <1>10 DEF PacksRight
    <3>1. j \in RobId /\ InRob(j) /\ Access(j) /\ Ent(j).op = Waiting[k].op /\ Ent(j).finish = "no"
      BY <1>2, <2>1 DEF InFlight, PacksRight
    <3> QED
      BY <1>8, <1>15, <3>1
  <2>3. PacksOrdered'
    BY <1>2, <1>8, <1>10 DEF InFlight, PacksOrdered
  <2> QED
    BY <2>2, <2>3
<1>19. AnswersRight'
  <2>1. ASSUME NEW a \in Answered, NEW j, j = a.id
        PROVE  /\ InRob(j)' /\ Access(j)' /\ Ent(j)'.finish = "no" /\ ~IsWaiting(j)'
               /\ Fits(Ent(j)'.op, a.result, a.value)
    <3>1. /\ InRob(j) /\ Access(j) /\ Ent(j).finish = "no" /\ ~IsWaiting(j) /\ j \in RobId
          /\ Fits(Ent(j).op, a.result, a.value)
      BY <1>2, <2>1, AnsweredSet DEF InFlight, AnswersRight
    <3> QED
      BY <1>8, <1>10, <1>15, <3>1
  <2> QED
    BY <1>2, <1>14, <2>1 DEF InFlight, AnswersRight
<1>20. InOrder'
  <2> SUFFICES ASSUME NEW j \in RobId, InRob(j), Access(j), ~IsWaiting(j)
               PROVE  /\ Ent(j)'.finish = "no" => \E a \in Answered : a.id = j
                      /\ \A k \in DOMAIN Waiting : Age(j) < Age(Waiting[k].id)
    BY <1>8, <1>10, <1>14, <1>15 DEF InOrder
  <2> QED
    BY <1>2, <1>15 DEF InFlight, InOrder
<1>21. \A j \in RobId : Executed(j)' <=> Executed(j)
  <2> SUFFICES ASSUME NEW j \in RobId
               PROVE  Executed(j)' <=> Executed(j)
    OBVIOUS
  <2>1. CASE j = id
    BY <1>5, <1>15, <2>1 DEF Executed, Access, Ent
  <2>2. CASE j # id
    <3>1. get_item(rob, j)' = get_item(rob, j)
      BY <1>8, <2>2 DEF Ent
    <3>2. AnswerTo(j)' = AnswerTo(j)
      BY <1>14, <3>1 DEF AnswerTo
    <3> QED
      BY <3>1, <3>2 DEF Executed
  <2> QED
    BY <2>1, <2>2
<1>22. PendingStores'
  <2>1. Follows /\ Stays
    BY <1>1, <1>8, <1>15, <1>21 DEF Follows, Stays
  <2> QED
    BY <1>2, <1>9, <1>12, <2>1, PendingStay
<1> QED
  BY <1>9, <1>11, <1>13, <1>16, <1>17, <1>18, <1>19, <1>20, <1>22 DEF IInv, InFlight

-----------------------------------------------------------------------------
(* Rename.                                                                 *)

LEMMA RenameFacts ==
  ASSUME IInv, NEW op \in Op, Rename(op), NEW n, n = get_new_id(rob)
  PROVE  /\ stage = "rename" /\ ~flush_feedback /\ n \in RobId /\ Age(n) = get_size(rob) + 1
         /\ issue_q' = IF op.kind = "other" THEN issue_q ELSE Append(issue_q, [id |-> n, op |-> op])
         /\ UNCHANGED <<stores, push_q, hold_rev_pack, lsu_wb_port, wb_commit_port,
                        commit, stage, slot>>
         /\ Types /\ Turns /\ CommittedFirst /\ InFlight /\ PendingStores /\ Straight
         /\ rob' \in Rings(ROB_SIZE, Entry) /\ get_size(rob)' = get_size(rob) + 1
         /\ \A j \in RobId : Age(j)' = Age(j) /\ (InRob(j)' <=> InRob(j) \/ j = n)
         /\ \A j \in RobId : j # n => Ent(j)' = Ent(j)
         /\ ~InRob(n)
         /\ Ent(n)' = [op |-> op, finish |-> "no", value |-> NoValue]
         /\ rob.rptr' = rob.rptr
         /\ \A i : Place(rob, i)' = Place(rob, i)
<1> DEFINE e == [op |-> op, finish |-> "no", value |-> NoValue]
<1>1. /\ stage = "rename" /\ ~flush_feedback /\ get_free_space(rob) >= 1 /\ rob' = push(rob, e)
      /\ issue_q' = IF op.kind = "other" THEN issue_q ELSE Append(issue_q, [id |-> n, op |-> op])
      /\ UNCHANGED <<stores, push_q, hold_rev_pack, lsu_wb_port, wb_commit_port,
                     commit, stage, slot>>
  BY DEF Rename
<1>2. Types /\ Turns /\ CommittedFirst /\ InFlight /\ PendingStores /\ Straight
  BY <1>1 DEF IInv, Turns, Straight
<1>3. ROB_SIZE \in Nat \ {0} /\ rob \in Rings(ROB_SIZE, Entry) /\ RobId = 0 .. ROB_SIZE - 1
  BY <1>2, Sizes DEF Types
<1>4. ~is_full(rob) /\ n \in RobId /\ n = rob.wptr
  <2>1. get_free_space(rob) = ROB_SIZE - get_size(rob) /\ (is_full(rob) <=> get_size(rob) = ROB_SIZE)
    BY <1>3, SizeIs
  <2>2. rob.wptr \in RobId
    BY <1>3, ShapeFacts
  <2> QED
    BY <1>1, <1>3, <2>1, <2>2 DEF get_new_id
<1>5. e \in Entry /\ e = [op |-> op, finish |-> "no", value |-> NoValue]
  BY DEF Entry, Value
<1> HIDE DEF e
<1>6. /\ rob' \in Rings(ROB_SIZE, Entry) /\ get_size(rob') = get_size(rob) + 1 /\ rob'.rptr = rob.rptr
      /\ \A i : Place(rob', i) = Place(rob, i)
      /\ \A j : At(rob', j) = At(rob, j)
      /\ At(rob, rob.wptr) = get_size(rob) + 1
      /\ \A j \in 0 .. ROB_SIZE - 1 : get_item(rob', j) = IF j = rob.wptr THEN e ELSE get_item(rob, j)
  BY <1>1, <1>3, <1>4, <1>5, PushItem
<1>7. Age(n) = get_size(rob) + 1
  BY <1>4, <1>6 DEF Age
<1>8. \A j \in RobId : j # n => Ent(j)' = Ent(j)
  BY <1>3, <1>4, <1>6 DEF Ent
<1>9. Ent(n)' = e
  <2>1. get_item(rob', n) = e
    BY <1>3, <1>4, <1>6
  <2> QED
    BY <2>1 DEF Ent
<1>10. \A j \in RobId : Age(j)' = Age(j) /\ (InRob(j)' <=> InRob(j) \/ j = n)
  <2> SUFFICES ASSUME NEW j \in RobId
               PROVE  Age(j)' = Age(j) /\ (InRob(j)' <=> InRob(j) \/ j = n)
    OBVIOUS
  <2>1. Age(j)' = Age(j)
    BY <1>6 DEF Age
  <2>2. Age(j) \in Nat /\ get_size(rob) \in Nat
    BY <1>2, Ages
  <2>3. Age(j) = get_size(rob) + 1 <=> j = n
    BY <1>2, <1>4, <1>7, SameAge
  <2> QED
    BY <1>6, <2>1, <2>2, <2>3 DEF InRob
<1>11. ~InRob(n)
  <2>1. get_size(rob) \in Nat
    BY <1>2, Ages
  <2> QED
    BY <1>7, <2>1 DEF InRob
<1> QED
  BY <1>1, <1>2, <1>4, <1>5, <1>6, <1>7, <1>8, <1>9, <1>10, <1>11

LEMMA RenamePacks ==
  ASSUME IInv, NEW op \in Op, Rename(op), NEW n, n = get_new_id(rob), Types'
  PROVE  /\ PacksRight' /\ PacksOrdered' /\ InOrder' /\ Answered' = Answered
         /\ \A j \in RobId : j # n => (IsWaiting(j)' <=> IsWaiting(j))
<1>1. /\ n \in RobId /\ Age(n) = get_size(rob) + 1
      /\ issue_q' = IF op.kind = "other" THEN issue_q ELSE Append(issue_q, [id |-> n, op |-> op])
      /\ UNCHANGED <<hold_rev_pack, lsu_wb_port, wb_commit_port>>
      /\ Types /\ InFlight
      /\ \A j \in RobId : Age(j)' = Age(j) /\ (InRob(j)' <=> InRob(j) \/ j = n)
      /\ \A j \in RobId : j # n => Ent(j)' = Ent(j)
      /\ ~InRob(n)
      /\ Ent(n)' = [op |-> op, finish |-> "no", value |-> NoValue]
  BY RenameFacts
<1>2. Answered' = Answered
  BY <1>1, SameAnswers
<1>3. \A j \in RobId : j # n => (Access(j)' <=> Access(j))
  BY <1>1 DEF Access
<1>4. /\ Waiting \in Seq(Pack) /\ DOMAIN Waiting = 1 .. Len(Waiting) /\ Len(Waiting) \in Nat
      /\ \A k \in DOMAIN Waiting : Waiting[k].id \in RobId /\ Waiting[k].op \in Op
  BY <1>1, WaitingSeq
<1>5. \A k \in DOMAIN Waiting : LET id == Waiting[k].id
        IN  id \in RobId /\ id # n /\ InRob(id) /\ Access(id) /\ Ent(id).op = Waiting[k].op
            /\ Ent(id).finish = "no"
  BY <1>1, <1>4 DEF InFlight, PacksRight
<1>6. \A id \in RobId : InRob(id) => Age(id) < Age(n) /\ Age(id) \in Nat /\ id # n
  <2>1. \A id \in RobId : Age(id) \in Nat
    BY <1>1, Ages
  <2>2. get_size(rob) \in Nat
    BY <1>1, Ages
  <2> QED
    BY <1>1, <2>1, <2>2 DEF InRob
<1>7. CASE op.kind = "other"
  <2>1. Waiting' = Waiting /\ \A j : IsWaiting(j)' <=> IsWaiting(j)
    BY <1>1, <1>7, SameWaiting
  <2>2. PacksRight'
    <3> SUFFICES ASSUME NEW k \in DOMAIN Waiting, NEW j, j = Waiting[k].id
                 PROVE  InRob(j)' /\ Access(j)' /\ Ent(j)'.op = Waiting[k].op /\ Ent(j)'.finish = "no"
      BY <2>1 DEF PacksRight
    <3> QED
      BY <1>1, <1>3, <1>5
  <2>3. PacksOrdered'
    <3> SUFFICES ASSUME NEW k \in DOMAIN Waiting, NEW l \in DOMAIN Waiting, k < l,
                        NEW i, i = Waiting[k].id, NEW j, j = Waiting[l].id
                 PROVE  Age(i)' < Age(j)'
      BY <2>1 DEF PacksOrdered
    <3> QED
      BY <1>1, <1>4 DEF InFlight, PacksOrdered
  <2>4. InOrder'
    <3> SUFFICES ASSUME NEW id \in RobId, InRob(id)', Access(id)', ~IsWaiting(id)
                 PROVE  /\ Ent(id)'.finish = "no" => \E a \in Answered : a.id = id
                        /\ \A k \in DOMAIN Waiting : \A j : j = Waiting[k].id => Age(id)' < Age(j)'
      BY <1>2, <2>1 DEF InOrder
    <3>1. id # n
      BY <1>1, <1>7 DEF Access
    <3> QED
      BY <1>1, <1>3, <1>4, <3>1 DEF InFlight, InOrder
  <2> QED
    BY <1>2, <2>1, <2>2, <2>3, <2>4
<1>8. CASE op.kind # "other"
  <2>1. PICK pack : pack = [id |-> n, op |-> op]
    OBVIOUS
  <2>2. PICK m \in Nat : m = Len(Waiting)
    BY <1>4
  <2>3. /\ DOMAIN Waiting = 1 .. m /\ DOMAIN Waiting' = 1 .. m + 1
        /\ \A k \in 1 .. m : Waiting'[k] = Waiting[k]
        /\ Waiting'[m + 1] = pack /\ pack.id = n /\ pack.op = op
    <3>1. pack \in Pack /\ pack.id = n /\ pack.op = op
      BY <1>1, <2>1 DEF Pack
    <3>2. hold_rev_pack \in Seq(Pack) /\ issue_q \in Seq(Pack) /\ issue_q' = Append(issue_q, pack)
          /\ hold_rev_pack' = hold_rev_pack
      BY <1>1, <1>8, <2>1 DEF Types
    <3>3. Waiting' = Append(Waiting, pack)
      BY <3>1, <3>2 DEF Waiting
    <3> QED
      BY <1>4, <2>2, <3>1, <3>3
  <2>4. ASSUME NEW j \in RobId
        PROVE  IsWaiting(j)' <=> IsWaiting(j) \/ j = n
    <3>1. IsWaiting(j)' <=> \E k \in 1 .. m + 1 : Waiting'[k].id = j
      BY <2>3 DEF IsWaiting
    <3>2. IsWaiting(j) <=> \E k \in 1 .. m : Waiting[k].id = j
      BY <2>3 DEF IsWaiting
    <3>3. \A k : k \in 1 .. m + 1 <=> k \in 1 .. m \/ k = m + 1
      OBVIOUS
    <3> QED
      BY <2>3, <3>1, <3>2, <3>3
  <2>5. \A k \in 1 .. m + 1 : k \in 1 .. m \/ k = m + 1
    OBVIOUS
  <2>6. PacksRight'
    <3> SUFFICES ASSUME NEW k \in 1 .. m + 1, NEW j, j = Waiting'[k].id
                 PROVE  InRob(j)' /\ Access(j)' /\ Ent(j)'.op = Waiting'[k].op /\ Ent(j)'.finish = "no"
      BY <2>3 DEF PacksRight
    <3>1. CASE k \in 1 .. m
      BY <1>1, <1>3, <1>5, <2>3, <3>1
    <3>2. CASE k = m + 1
      BY <1>1, <1>8, <2>3, <3>2 DEF Access
    <3> QED
      BY <2>5, <3>1, <3>2
  <2>7. PacksOrdered'
    <3> SUFFICES ASSUME NEW k \in 1 .. m + 1, NEW l \in 1 .. m + 1, k < l,
                        NEW i, i = Waiting'[k].id, NEW j, j = Waiting'[l].id
                 PROVE  Age(i)' < Age(j)'
      BY <2>3 DEF PacksOrdered
    <3>1. k \in 1 .. m /\ i = Waiting[k].id
      BY <2>3
    <3>2. CASE l \in 1 .. m
      BY <1>1, <1>4, <2>3, <3>1, <3>2 DEF InFlight, PacksOrdered
    <3>3. CASE l = m + 1
      BY <1>1, <1>5, <1>6, <2>3, <3>1, <3>3
    <3> QED
      BY <2>5, <3>2, <3>3
  <2>8. InOrder'
    <3> SUFFICES ASSUME NEW id \in RobId, InRob(id)', Access(id)', ~IsWaiting(id)'
                 PROVE  /\ Ent(id)'.finish = "no" => \E a \in Answered : a.id = id
                        /\ \A k \in 1 .. m + 1 : \A j : j = Waiting'[k].id => Age(id)' < Age(j)'
      BY <1>2, <2>3 DEF InOrder
    <3>1. id # n /\ InRob(id) /\ Access(id) /\ ~IsWaiting(id) /\ Ent(id)' = Ent(id)
      BY <1>1, <1>3, <2>4
    <3>2. Ent(id).finish = "no" => \E a \in Answered : a.id = id
      BY <1>1, <3>1 DEF InFlight, InOrder
    <3>3. ASSUME NEW k \in 1 .. m + 1, NEW j, j = Waiting'[k].id
          PROVE  Age(id)' < Age(j)'
      <4>1. CASE k \in 1 .. m
        <5>1. Age(id) < Age(j) /\ j \in RobId
          BY <1>1, <1>4, <2>3, <3>1, <3>3, <4>1 DEF InFlight, InOrder
        <5> QED
          BY <1>1, <5>1
      <4>2. CASE k = m + 1
        BY <1>1, <1>6, <2>3, <3>1, <3>3, <4>2
      <4> QED
        BY <2>5, <4>1, <4>2
    <3> QED
      BY <3>1, <3>2, <3>3
  <2> QED
    BY <1>2, <2>4, <2>6, <2>7, <2>8
<1> QED
  BY <1>7, <1>8

LEMMA RenameAnswers ==
  ASSUME IInv, NEW op \in Op, Rename(op), NEW n, n = get_new_id(rob)
  PROVE  /\ \A j \in RobId : j # n => AnswerTo(j)' = AnswerTo(j) /\ (Executed(j)' <=> Executed(j))
         /\ AnswerTo(n)' = [id |-> n, result |-> "no", value |-> NoValue]
         /\ ~Executed(n)'
<1>1. /\ n \in RobId /\ UNCHANGED <<lsu_wb_port, wb_commit_port>>
      /\ Types /\ InFlight /\ ~InRob(n)
      /\ \A j \in RobId : j # n => Ent(j)' = Ent(j)
      /\ Ent(n)' = [op |-> op, finish |-> "no", value |-> NoValue]
  BY RenameFacts
<1>2. ASSUME NEW j \in RobId, j # n
      PROVE  AnswerTo(j)' = AnswerTo(j) /\ (Executed(j)' <=> Executed(j))
  <2>1. get_item(rob, j)' = get_item(rob, j)
    BY <1>1, <1>2 DEF Ent
  <2>2. AnswerTo(j)' = AnswerTo(j)
    BY <1>1, <2>1 DEF AnswerTo
  <2> QED
    BY <2>1, <2>2 DEF Executed
<1>3. \A a \in Answered : a.id # n
  BY <1>1 DEF InFlight, AnswersRight
<1>4. /\ lsu_wb_port = << >> \/ \E x \in Reply : lsu_wb_port = <<x>>
      /\ wb_commit_port = << >> \/ \E x \in Reply : wb_commit_port = <<x>>
  BY <1>1, PortIs DEF Types
<1>5. /\ lsu_wb_port # << >> => Head(lsu_wb_port).id # n
      /\ wb_commit_port # << >> => Head(wb_commit_port).id # n
  <2>1. /\ lsu_wb_port # << >> => Head(lsu_wb_port) \in Answered
        /\ wb_commit_port # << >> => Head(wb_commit_port) \in Answered
    BY <1>4 DEF Answered, ToSet
  <2> QED
    BY <1>3, <2>1
<1>6. get_item(rob, n)' = [op |-> op, finish |-> "no", value |-> NoValue]
  BY <1>1 DEF Ent
<1>7. AnswerTo(n)' = [id |-> n, result |-> "no", value |-> NoValue]
  BY <1>1, <1>5, <1>6 DEF AnswerTo
<1> QED
  BY <1>2, <1>7 DEF Executed

LEMMA RenameOK == IInv /\ (\E op \in Op : Rename(op)) => IInv'
<1> SUFFICES ASSUME IInv, NEW op \in Op, Rename(op)
             PROVE  IInv'
  OBVIOUS
<1>0. PICK n : n = get_new_id(rob)
  OBVIOUS
<1>1. /\ stage = "rename" /\ ~flush_feedback /\ n \in RobId /\ Age(n) = get_size(rob) + 1
      /\ issue_q' = IF op.kind = "other" THEN issue_q ELSE Append(issue_q, [id |-> n, op |-> op])
      /\ UNCHANGED <<stores, push_q, hold_rev_pack, lsu_wb_port, wb_commit_port, commit, stage, slot>>
      /\ Types /\ Turns /\ CommittedFirst /\ InFlight /\ PendingStores /\ Straight
      /\ rob' \in Rings(ROB_SIZE, Entry) /\ get_size(rob)' = get_size(rob) + 1
      /\ \A j \in RobId : Age(j)' = Age(j) /\ (InRob(j)' <=> InRob(j) \/ j = n)
      /\ \A j \in RobId : j # n => Ent(j)' = Ent(j)
      /\ ~InRob(n)
      /\ Ent(n)' = [op |-> op, finish |-> "no", value |-> NoValue]
  BY <1>0, RenameFacts
<1>2. Types'
  <2>1. issue_q' \in Seq(Pack)
    <3>1. issue_q \in Seq(Pack) /\ [id |-> n, op |-> op] \in Pack
      BY <1>1 DEF Types, Pack
    <3> QED
      BY <1>1, <3>1
  <2> QED
    BY <1>1, <2>1 DEF Types, stores, commit
<1>3. Turns'
  BY <1>1 DEF Turns, Straight, stores, commit
<1>4. /\ Buffered' = Buffered /\ \A x : Pending(x)' <=> Pending(x)
  BY <1>1, SameBuffer DEF Pending, Named, stores, commit
<1>5. CommittedFirst'
  BY <1>1, <1>4 DEF CommittedFirst
<1>6. PacksRight' /\ PacksOrdered' /\ InOrder' /\ Answered' = Answered
      /\ \A j \in RobId : j # n => (IsWaiting(j)' <=> IsWaiting(j))
  BY <1>0, <1>2, RenamePacks
<1>7. EntriesFit'
  <2> SUFFICES ASSUME NEW id \in RobId, InRob(id)'
               PROVE  Fits(Ent(id)'.op, Ent(id)'.finish, Ent(id)'.value)
    BY DEF EntriesFit
  <2>1. CASE id = n
    BY <1>1, <2>1 DEF Fits
  <2>2. CASE id # n
    BY <1>1, <2>2 DEF InFlight, EntriesFit
  <2> QED
    BY <2>1, <2>2
<1>8. Retiring'
  <2>1. get_size(rob) \in Nat /\ slot \in Nat /\ slot <= get_size(rob)
    BY <1>1, Ages DEF InFlight, Retiring
  <2>2. ~(Age(n) <= slot)
    BY <1>1, <2>1
  <2>3. slot <= get_size(rob)'
    BY <1>1, <2>1
  <2> QED
    BY <1>1, <2>2, <2>3 DEF InFlight, Retiring, commit
<1>9. AnswersRight'
  <2>1. ASSUME NEW a \in Answered, NEW j, j = a.id
        PROVE  /\ InRob(j)' /\ Access(j)' /\ Ent(j)'.finish = "no" /\ ~IsWaiting(j)'
               /\ Fits(Ent(j)'.op, a.result, a.value)
    <3>1. /\ InRob(j) /\ Access(j) /\ Ent(j).finish = "no" /\ ~IsWaiting(j) /\ j \in RobId
          /\ Fits(Ent(j).op, a.result, a.value) /\ j # n
      BY <1>1, <2>1, AnsweredSet DEF InFlight, AnswersRight
    <3> QED
      BY <1>1, <1>6, <3>1 DEF Access
  <2> QED
    BY <1>1, <1>6, <2>1 DEF InFlight, AnswersRight
<1>10. PendingStores'
  <2>1. /\ \A j \in RobId : j # n => (Executed(j)' <=> Executed(j))
        /\ ~Executed(n)'
    BY <1>0, RenameAnswers
  <2>2. Follows
    BY <1>1, <2>1 DEF Follows
  <2>3. Stays
    BY <1>1 DEF Stays
  <2> QED
    BY <1>1, <1>2, <1>4, <2>2, <2>3, PendingStay
<1> QED
  BY <1>2, <1>3, <1>5, <1>6, <1>7, <1>8, <1>9, <1>10 DEF IInv, InFlight

-----------------------------------------------------------------------------
(* The end of the cycle: the reorder buffer.                               *)

LEMMA PoppedIs ==
  ASSUME slot \in Nat
  PROVE  popped = [i \in 0 .. slot |-> IF i = 0 THEN rob ELSE pop(popped[i - 1])]
<1> DEFINE Step(g, i) == IF i = 0 THEN rob ELSE pop(g[i - 1])
           N == {n \in Nat : \E g : g = [i \in 0 .. n |-> Step(g, i)]}
<1>1. 0 \in N
  <2> DEFINE g == [i \in 0 .. 0 |-> rob]
  <2>1. g = [i \in 0 .. 0 |-> Step(g, i)]
    OBVIOUS
  <2> QED
    BY <2>1
<1>2. ASSUME NEW n \in Nat, n \in N
      PROVE  n + 1 \in N
  <2>1. PICK g : g = [i \in 0 .. n |-> Step(g, i)]
    BY <1>2
  <2> DEFINE h == [i \in 0 .. n + 1 |-> IF i = n + 1 THEN pop(g[n]) ELSE g[i]]
  <2>2. \A i \in 0 .. n + 1 : h[i] = Step(h, i)
    <3> SUFFICES ASSUME NEW i \in 0 .. n + 1
                 PROVE  h[i] = Step(h, i)
      OBVIOUS
    <3>1. CASE i = n + 1
      BY <3>1
    <3>2. CASE i \in 0 .. n
      <4>1. g[i] = Step(g, i)
        BY <2>1, <3>2, Zenon
      <4> QED
        BY <4>1, <3>2
    <3> QED
      BY <3>1, <3>2
  <2>3. h = [i \in 0 .. n + 1 |-> Step(h, i)]
    <3> HIDE DEF Step
    <3> QED
      BY <2>2
  <2> HIDE DEF h
  <2> QED
    BY <2>3
<1>3. slot \in N
  <2> HIDE DEF N
  <2> QED
    BY <1>1, <1>2, NatInd
<1> QED
  BY <1>3, Zenon DEF popped

\* What is left when k entries are popped.
Without(r, k) ==
  /\ r \in Rings(ROB_SIZE, Entry) /\ get_size(r) = get_size(rob) - k
  /\ \A i \in 1 .. ROB_SIZE - k : Place(r, i) = Place(rob, i + k)
  /\ \A id \in RobId : Age(id) > k => get_item(r, id) = Ent(id)

LEMMA PopOne ==
  ASSUME Types, NEW k \in Nat, k < get_size(rob), NEW r, Without(r, k)
  PROVE  Without(pop(r), k + 1)
<1>1. /\ ROB_SIZE \in Nat \ {0} /\ RobId = 0 .. ROB_SIZE - 1 /\ get_size(rob) \in Nat
      /\ get_size(rob) \in 0 .. ROB_SIZE /\ r \in Rings(ROB_SIZE, Entry)
      /\ get_size(r) = get_size(rob) - k
  BY Sizes, Ages DEF Without
<1>2. ~is_empty(r)
  BY <1>1, SizeIs
<1>3. PICK s : s = pop(r)
  OBVIOUS
<1>4. /\ s \in Rings(ROB_SIZE, Entry) /\ get_size(s) = get_size(r) - 1
      /\ \A i \in 1 .. ROB_SIZE - 1 : Place(s, i) = Place(r, i + 1)
      /\ At(r, r.rptr) = 1
      /\ \A j \in 0 .. ROB_SIZE - 1 : j # r.rptr => get_item(s, j) = get_item(r, j)
  BY <1>1, <1>2, <1>3, PopItem
<1>5. \A i \in 1 .. ROB_SIZE - (k + 1) : Place(s, i) = Place(rob, i + (k + 1))
  <2> SUFFICES ASSUME NEW i \in 1 .. ROB_SIZE - (k + 1)
               PROVE  Place(s, i) = Place(rob, i + (k + 1))
    OBVIOUS
  <2>1. i \in 1 .. ROB_SIZE - 1 /\ i + 1 \in 1 .. ROB_SIZE - k /\ (i + 1) + k = i + (k + 1)
    BY <1>1
  <2>2. Place(s, i) = Place(r, i + 1)
    BY <1>4, <2>1
  <2>3. Place(r, i + 1) = Place(rob, (i + 1) + k)
    BY <2>1 DEF Without
  <2> QED
    BY <2>1, <2>2, <2>3
<1>6. \A id \in RobId : Age(id) > k + 1 => get_item(s, id) = Ent(id)
  <2> SUFFICES ASSUME NEW id \in RobId, Age(id) > k + 1
               PROVE  get_item(s, id) = Ent(id)
    OBVIOUS
  <2>1. Age(id) \in 1 .. ROB_SIZE /\ Place(rob, Age(id)) = id
    BY Ages
  <2>2. PICK i \in Nat : i = Age(id) - k /\ i # 1 /\ i \in 1 .. ROB_SIZE - k /\ i + k = Age(id)
    BY <1>1, <2>1
  <2>3. Place(r, i) = id
    <3>1. Place(r, i) = Place(rob, i + k)
      BY <2>2 DEF Without
    <3> QED
      BY <2>1, <2>2, <3>1
  <2>4. At(r, id) = i
    <3>1. i \in 1 .. ROB_SIZE
      BY <1>1, <2>2
    <3> QED
      BY <1>1, <2>3, <3>1, AtPlace
  <2>5. id # r.rptr
    BY <1>4, <2>2, <2>4
  <2>6. get_item(s, id) = get_item(r, id)
    BY <1>1, <1>4, <2>5
  <2>7. Age(id) > k
    BY <2>1
  <2> QED
    BY <2>6, <2>7 DEF Without
<1>7. get_size(s) = get_size(rob) - (k + 1)
  BY <1>1, <1>4
<1> QED
  BY <1>3, <1>4, <1>5, <1>6, <1>7 DEF Without

LEMMA PoppedWithout ==
  ASSUME Types, slot <= get_size(rob)
  PROVE  Without(popped[slot], slot)
<1>1. slot \in Nat /\ get_size(rob) \in Nat /\ ROB_SIZE \in Nat /\ RobId = 0 .. ROB_SIZE - 1
  BY Ages, Sizes
<1>2. /\ popped[0] = rob
      /\ \A i \in 1 .. slot : popped[i] = pop(popped[i - 1])
  <2>1. popped = [i \in 0 .. slot |-> IF i = 0 THEN rob ELSE pop(popped[i - 1])]
    BY <1>1, PoppedIs
  <2> QED
    BY <1>1, <2>1
<1> DEFINE N == {k \in 0 .. slot : Without(popped[k], k)}
<1>3. 0 \in N
  <2>1. Without(rob, 0)
    <3>1. \A i \in 1 .. ROB_SIZE - 0 : Place(rob, i) = Place(rob, i + 0)
      <4>1. \A i \in 1 .. ROB_SIZE - 0 : i + 0 = i
        BY <1>1
      <4> QED
        BY <4>1
    <3>2. rob \in Rings(ROB_SIZE, Entry) /\ get_size(rob) = get_size(rob) - 0
      BY <1>1 DEF Types
    <3> QED
      BY <3>1, <3>2 DEF Without, Ent
  <2> QED
    BY <1>1, <1>2, <2>1
<1>4. \A k \in 0 .. slot - 1 : k \in N => k + 1 \in N
  <2> SUFFICES ASSUME NEW k \in 0 .. slot - 1, Without(popped[k], k)
               PROVE  Without(popped[k + 1], k + 1)
    BY <1>1
  <2>1. k \in Nat /\ k < get_size(rob) /\ k + 1 \in 1 .. slot /\ (k + 1) - 1 = k
    BY <1>1
  <2>2. popped[k + 1] = pop(popped[k])
    BY <1>2, <2>1
  <2> QED
    BY <2>1, <2>2, PopOne
<1>5. 0 .. slot \subseteq N
  <2> HIDE DEF N
  <2> QED
    BY <1>1, <1>3, <1>4, UpTo
<1> QED
  BY <1>1, <1>5

\* The entries that retire leave, the others move up.
LEMMA EndRob ==
  ASSUME Types, slot <= get_size(rob), rob' = popped[slot]
  PROVE  /\ rob' \in Rings(ROB_SIZE, Entry) /\ get_size(rob)' = get_size(rob) - slot
         /\ \A id \in RobId : InRob(id)' => InRob(id) /\ Age(id) > slot
         /\ \A id \in RobId : InRob(id) /\ Age(id) > slot =>
              InRob(id)' /\ Age(id)' = Age(id) - slot /\ Ent(id)' = Ent(id)
         /\ \A i \in 1 .. ROB_SIZE - slot : Place(rob, i)' = Place(rob, i + slot)
<1>1. /\ slot \in Nat /\ get_size(rob) \in 0 .. ROB_SIZE /\ ROB_SIZE \in Nat \ {0}
      /\ RobId = 0 .. ROB_SIZE - 1
  BY Ages, Sizes
<1>2. PICK r : r = rob'
  OBVIOUS
<1>3. /\ r \in Rings(ROB_SIZE, Entry) /\ get_size(r) = get_size(rob) - slot
      /\ \A i \in 1 .. ROB_SIZE - slot : Place(r, i) = Place(rob, i + slot)
      /\ \A id \in RobId : Age(id) > slot => get_item(r, id) = Ent(id)
  BY <1>2, PoppedWithout DEF Without
<1>4. ASSUME NEW id \in RobId, At(r, id) <= get_size(r)
      PROVE  Age(id) <= get_size(rob) /\ Age(id) > slot
  <2>1. At(r, id) \in 1 .. ROB_SIZE /\ Place(r, At(r, id)) = id
    BY <1>1, <1>3, PlaceAt
  <2>2. PICK i \in Nat : i = At(r, id) /\ i \in 1 .. ROB_SIZE - slot /\ i + slot <= get_size(rob)
                         /\ i + slot > slot /\ i + slot \in 1 .. ROB_SIZE
    BY <1>1, <1>3, <1>4, <2>1
  <2>3. Place(rob, i + slot) = id
    BY <1>3, <2>1, <2>2
  <2>4. Age(id) = i + slot
    BY <2>2, <2>3, Ages
  <2> QED
    BY <2>2, <2>4
<1>5. ASSUME NEW id \in RobId, InRob(id), Age(id) > slot
      PROVE  At(r, id) <= get_size(r) /\ At(r, id) = Age(id) - slot /\ get_item(r, id) = Ent(id)
  <2>1. Age(id) \in 1 .. ROB_SIZE /\ Place(rob, Age(id)) = id /\ Age(id) <= get_size(rob)
    BY <1>5, Ages DEF InRob
  <2>2. PICK i \in Nat : i = Age(id) - slot /\ i \in 1 .. ROB_SIZE - slot /\ i <= get_size(r)
                         /\ i + slot = Age(id) /\ i \in 1 .. ROB_SIZE
    BY <1>1, <1>3, <1>5, <2>1
  <2>3. Place(r, i) = id
    BY <1>3, <2>1, <2>2
  <2>4. At(r, id) = i
    BY <1>1, <1>3, <2>2, <2>3, AtPlace
  <2> QED
    BY <1>3, <1>5, <2>2, <2>4
<1>6. \A id : Age(id)' = At(r, id) /\ Ent(id)' = get_item(r, id) /\ (InRob(id)' <=> At(r, id) <= get_size(r))
  BY <1>2 DEF Age, Ent, InRob
<1>7. \A i : Place(rob, i)' = Place(r, i)
  BY <1>2
<1>8. \A id \in RobId : InRob(id)' => InRob(id) /\ Age(id) > slot
  BY <1>4, <1>6 DEF InRob
<1>9. \A id \in RobId : InRob(id) /\ Age(id) > slot =>
              InRob(id)' /\ Age(id)' = Age(id) - slot /\ Ent(id)' = Ent(id)
  BY <1>5, <1>6
<1> QED
  BY <1>2, <1>3, <1>7, <1>8, <1>9

LEMMA EndAnswers ==
  ASSUME Types, Retiring, EndOfCycle, NEW id \in RobId, InRob(id), Age(id) > slot
  PROVE  AnswerTo(id)' = AnswerTo(id) /\ (Executed(id)' <=> Executed(id))
<1>1. /\ rob' = popped[slot] /\ UNCHANGED <<lsu_wb_port, wb_commit_port>>
  BY DEF EndOfCycle, units
<1>2. get_item(rob, id)' = get_item(rob, id)
  BY <1>1, EndRob DEF Retiring, Ent
<1>3. AnswerTo(id)' = AnswerTo(id)
  BY <1>1, <1>2 DEF AnswerTo
<1> QED
  BY <1>2, <1>3 DEF Executed

LEMMA EndInFlight ==
  ASSUME Types, InFlight, EndOfCycle
  PROVE  InFlight'
<1>1. /\ rob' = popped[slot] /\ committed_rob_id' = {} /\ slot' = 0
      /\ UNCHANGED <<hold_rev_pack, issue_q, lsu_wb_port, wb_commit_port>>
  BY DEF EndOfCycle, units
<1>2. slot <= get_size(rob) /\ slot \in Nat /\ get_size(rob) \in Nat
  BY Ages DEF InFlight, Retiring
<1>3. /\ rob' \in Rings(ROB_SIZE, Entry) /\ get_size(rob)' = get_size(rob) - slot
      /\ \A id \in RobId : InRob(id)' => InRob(id) /\ Age(id) > slot
      /\ \A id \in RobId : InRob(id) /\ Age(id) > slot =>
           InRob(id)' /\ Age(id)' = Age(id) - slot /\ Ent(id)' = Ent(id)
  BY <1>1, <1>2, EndRob
<1>4. /\ Waiting' = Waiting /\ Answered' = Answered /\ lsu_wb_port' = lsu_wb_port
      /\ wb_commit_port' = wb_commit_port
      /\ \A id : IsWaiting(id)' <=> IsWaiting(id)
  BY <1>1, SameWaiting, SameAnswers
<1>5. \A id \in RobId : Age(id) \in Nat /\ (Ent(id).finish = "no" => Age(id) > slot)
  <2> SUFFICES ASSUME NEW id \in RobId
               PROVE  Age(id) \in Nat /\ (Ent(id).finish = "no" => Age(id) > slot)
    OBVIOUS
  <2>1. Age(id) \in Nat
    BY Ages
  <2>2. Age(id) <= slot => Ent(id).finish = "ok"
    BY DEF InFlight, Retiring
  <2> QED
    BY <1>2, <2>1, <2>2
<1>6. \A id \in RobId : InRob(id) /\ Age(id) > slot => (Access(id)' <=> Access(id))
  BY <1>3 DEF Access
<1>7. EntriesFit'
  <2> SUFFICES ASSUME NEW id \in RobId, InRob(id)'
               PROVE  Fits(Ent(id)'.op, Ent(id)'.finish, Ent(id)'.value)
    BY DEF EntriesFit
  <2> QED
    BY <1>3 DEF InFlight, EntriesFit
<1>8. Retiring'
  <2>1. \A id \in RobId : At(rob', id) \in 1 .. ROB_SIZE
    <3>1. ROB_SIZE \in Nat \ {0} /\ RobId = 0 .. ROB_SIZE - 1
      BY Sizes
    <3> QED
      BY <1>3, <3>1, PlaceAt
  <2>2. \A id \in RobId : ~(Age(id)' <= slot')
    BY <1>1, <2>1, Sizes DEF Age
  <2>3. slot' <= get_size(rob)'
    BY <1>1, <1>2, <1>3
  <2> QED
    BY <1>1, <2>2, <2>3 DEF Retiring
<1>9. \A k \in DOMAIN Waiting : LET id == Waiting[k].id
        IN  id \in RobId /\ InRob(id) /\ Access(id) /\ Ent(id).op = Waiting[k].op
            /\ Ent(id).finish = "no"
  BY WaitingSeq DEF InFlight, PacksRight
<1>10. PacksRight'
  <2> SUFFICES ASSUME NEW k \in DOMAIN Waiting, NEW j, j = Waiting[k].id
               PROVE  InRob(j)' /\ Access(j)' /\ Ent(j)'.op = Waiting[k].op /\ Ent(j)'.finish = "no"
    BY <1>4 DEF PacksRight
  <2> QED
    BY <1>3, <1>5, <1>6, <1>9
<1>11. PacksOrdered'
  <2> SUFFICES ASSUME NEW k \in DOMAIN Waiting, NEW l \in DOMAIN Waiting, k < l,
                      NEW i, i = Waiting[k].id, NEW j, j = Waiting[l].id
               PROVE  Age(i)' < Age(j)'
    BY <1>4 DEF PacksOrdered
  <2>1. Age(i) < Age(j)
    BY DEF InFlight, PacksOrdered
  <2>2. i \in RobId /\ j \in RobId /\ Age(i)' = Age(i) - slot /\ Age(j)' = Age(j) - slot
    BY <1>3, <1>5, <1>9
  <2> QED
    BY <1>2, <1>5, <2>1, <2>2
<1>12. AnswersRight'
  <2>1. ASSUME NEW a \in Answered, NEW j, j = a.id
        PROVE  /\ InRob(j)' /\ Access(j)' /\ Ent(j)'.finish = "no" /\ ~IsWaiting(j)'
               /\ Fits(Ent(j)'.op, a.result, a.value)
    <3>1. /\ InRob(j) /\ Access(j) /\ Ent(j).finish = "no" /\ ~IsWaiting(j) /\ j \in RobId
          /\ Fits(Ent(j).op, a.result, a.value)
      BY <2>1, AnsweredSet DEF InFlight, AnswersRight
    <3> QED
      BY <1>3, <1>4, <1>5, <1>6, <3>1
  <2> QED
    BY <1>4, <2>1 DEF InFlight, AnswersRight
<1>13. InOrder'
  <2> SUFFICES ASSUME NEW id \in RobId, InRob(id)', Access(id)', ~IsWaiting(id)
               PROVE  /\ Ent(id)'.finish = "no" => \E a \in Answered : a.id = id
                      /\ \A k \in DOMAIN Waiting : \A j : j = Waiting[k].id => Age(id)' < Age(j)'
    BY <1>4 DEF InOrder
  <2>1. InRob(id) /\ Age(id) > slot /\ Access(id) /\ Age(id)' = Age(id) - slot /\ Ent(id)' = Ent(id)
    BY <1>3, <1>6
  <2>2. Ent(id)'.finish = "no" => \E a \in Answered : a.id = id
    BY <2>1 DEF InFlight, InOrder
  <2>3. ASSUME NEW k \in DOMAIN Waiting, NEW j, j = Waiting[k].id
        PROVE  Age(id)' < Age(j)'
    <3>1. Age(id) < Age(j)
      BY <2>1, <2>3 DEF InFlight, InOrder
    <3>2. j \in RobId /\ Age(j)' = Age(j) - slot
      BY <1>3, <1>5, <1>9, <2>3
    <3> QED
      BY <1>2, <1>5, <2>1, <3>1, <3>2
  <2> QED
    BY <2>2, <2>3
<1> QED
  BY <1>7, <1>8, <1>10, <1>11, <1>12, <1>13 DEF InFlight

\* Nothing is in flight after a flush.
LEMMA FlushedInFlight ==
  ASSUME Types, Types', get_size(rob)' = 0, slot' = 0, committed_rob_id' = {},
         Waiting' = << >>, Answered' = {}
  PROVE  InFlight' /\ \A id \in RobId : ~InRob(id)'
<1>1. \A id \in RobId : ~InRob(id)' /\ ~(Age(id)' <= slot')
  <2>1. \A id \in RobId : Age(id)' \in 1 .. ROB_SIZE
    BY AgesNext
  <2> QED
    BY <2>1, Sizes DEF InRob
<1>2. EntriesFit' /\ Retiring' /\ PacksRight' /\ PacksOrdered' /\ InOrder'
  BY <1>1 DEF EntriesFit, Retiring, PacksRight, PacksOrdered, InOrder
<1>3. AnswersRight'
  <2>1. ToSet(lsu_wb_port)' = {}
    BY DEF Answered
  <2> QED
    BY <2>1 DEF AnswersRight
<1> QED
  BY <1>1, <1>2, <1>3 DEF InFlight

-----------------------------------------------------------------------------
(* The end of the cycle: the store buffer.                                 *)

\* The items of a buffer.
ItemsOf(r) == [i \in 1 .. get_size(r) |-> get_item(r, Place(r, i))]
Buffers == Rings(STORE_BUFFER_SIZE, Item)

LEMMA ItemsAre ==
  /\ store_buffer \in Buffers => Items = ItemsOf(store_buffer)
  /\ store_buffer' \in Buffers => Items' = ItemsOf(store_buffer')
<1>1. ASSUME NEW r \in Buffers
      PROVE  LET ids == LiveIds(r)
             IN  [i \in DOMAIN ids |-> get_item(r, ids[i])] = ItemsOf(r)
  <2>1. DOMAIN LiveIds(r) = 1 .. get_size(r) /\ \A i \in 1 .. get_size(r) : LiveIds(r)[i] = Place(r, i)
    BY LiveIdsIs, Sizes DEF Buffers
  <2> QED
    BY <2>1 DEF ItemsOf
<1> QED
  BY <1>1 DEF Items

LEMMA ItemsOfIs ==
  ASSUME NEW r \in Buffers
  PROVE  /\ ItemsOf(r) \in Seq(Item) /\ Len(ItemsOf(r)) = get_size(r)
         /\ DOMAIN ItemsOf(r) = 1 .. get_size(r) /\ get_size(r) \in 0 .. STORE_BUFFER_SIZE
         /\ get_size(r) \in Nat
         /\ \A i \in 1 .. get_size(r) : ItemsOf(r)[i] = get_item(r, Place(r, i)) /\ ItemsOf(r)[i] \in Item
<1>1. get_size(r) \in 0 .. STORE_BUFFER_SIZE /\ STORE_BUFFER_SIZE \in Nat
  BY SizeIs, Sizes DEF Buffers
<1>2. \A i \in 1 .. get_size(r) : get_item(r, Place(r, i)) \in Item
  BY DEF Buffers, Rings
<1>3. PICK n \in Nat : n = get_size(r)
  BY <1>1
<1>4. ItemsOf(r) = [i \in 1 .. n |-> get_item(r, Place(r, i))]
  BY <1>3 DEF ItemsOf
<1>5. ItemsOf(r) \in Seq(Item) /\ Len(ItemsOf(r)) = n /\ DOMAIN ItemsOf(r) = 1 .. n
      /\ \A i \in 1 .. n : ItemsOf(r)[i] = get_item(r, Place(r, i))
  BY <1>2, <1>3, <1>4
<1> QED
  BY <1>1, <1>2, <1>3, <1>5

LEMMA NamedIs ==
  ASSUME committed_rob_id \subseteq RobId, NEW x \in Item
  PROVE  /\ Named(x) \in Item /\ Named(x).rob_id = x.rob_id /\ Named(x).addr = x.addr
         /\ Named(x).size = x.size /\ Named(x).data = x.data
         /\ Named(x).committed <=> (x.committed \/ x.rob_id \in committed_rob_id)
         /\ Span(Named(x)) = Span(x)
         /\ ~x.committed /\ x.rob_id \notin committed_rob_id => Named(x) = x
<1> DEFINE y == Named(x)
<1>1. x \in [rob_id : RobId, addr : Addr, size : Length, data : Bytes, committed : BOOLEAN]
      /\ x.data \in [0 .. x.size - 1 -> Byte] /\ Span(x) \subseteq Addr
  BY DEF Item
<1>2. PICK c \in BOOLEAN : c = (x.committed \/ x.rob_id \in committed_rob_id)
  BY Zenon
<1>3. y = [x EXCEPT !.committed = c]
  BY <1>2 DEF Named
<1>4. /\ y \in [rob_id : RobId, addr : Addr, size : Length, data : Bytes, committed : BOOLEAN]
      /\ y.rob_id = x.rob_id /\ y.addr = x.addr /\ y.size = x.size /\ y.data = x.data
      /\ y.committed = c
  BY <1>1, <1>3
<1>5. Span(y) = Span(x)
  BY <1>4 DEF Span
<1>6. y \in Item
  BY <1>1, <1>4, <1>5 DEF Item
<1>7. ~x.committed /\ x.rob_id \notin committed_rob_id => y = x
  <2> SUFFICES ASSUME ~x.committed, x.rob_id \notin committed_rob_id
               PROVE  y = x
    OBVIOUS
  <2>1. c = FALSE
    BY <1>2
  <2>2. x.committed = FALSE
    BY <1>1
  <2> QED
    BY <1>1, <1>3, <2>1, <2>2
<1> QED
  BY <1>2, <1>4, <1>5, <1>6, <1>7

\* The marking.
LEMMA MarkedIs ==
  ASSUME committed_rob_id \subseteq RobId, NEW r \in Buffers
  PROVE  /\ Marked(r) \in Buffers /\ get_size(Marked(r)) = get_size(r) /\ (is_full(Marked(r)) <=> is_full(r))
         /\ \A i \in 1 .. get_size(r) : ItemsOf(Marked(r))[i] = Named(ItemsOf(r)[i])
<1> DEFINE n == STORE_BUFFER_SIZE
           s == Marked(r)
           f == [i \in DOMAIN r.slots |->
                   IF check_id_valid(r, i - 1) THEN Named(r.slots[i]) ELSE r.slots[i]]
<1>1. /\ n \in Nat \ {0} /\ r \in Rings(n, Item)
      /\ r.rptr \in 0 .. n - 1 /\ r.wptr \in 0 .. n - 1 /\ r.wrapped \in BOOLEAN
      /\ r.slots \in [1 .. n -> Item \cup {Dead}] /\ SizeOf(r) = n
      /\ r = [slots |-> r.slots, rptr |-> r.rptr, wptr |-> r.wptr, wrapped |-> r.wrapped]
      /\ r.wrapped => r.wptr <= r.rptr
      /\ ~r.wrapped => r.rptr <= r.wptr
  <2>1. n \in Nat \ {0} /\ r \in Rings(n, Item)
    BY Sizes DEF Buffers
  <2> QED
    BY <2>1, ShapeFacts
<1>2. s = [slots |-> f, rptr |-> r.rptr, wptr |-> r.wptr, wrapped |-> r.wrapped]
  <2>1. s = [r EXCEPT !.slots = f]
    BY DEF Marked
  <2> HIDE DEF s, f
  <2> QED
    BY <1>1, <2>1
<1>3. /\ \A i \in 1 .. n : check_id_valid(r, i - 1) <=> At(r, i - 1) <= get_size(r)
      /\ \A i \in 1 .. n : check_id_valid(r, i - 1) => r.slots[i] \in Item
  <2>1. \A i \in 1 .. n : i - 1 \in 0 .. n - 1 /\ (i - 1) + 1 = i
    BY <1>1
  <2>2. \A id \in 0 .. n - 1 : check_id_valid(r, id) <=> At(r, id) <= get_size(r)
    BY <1>1, ValidIs
  <2>3. \A id \in 0 .. n - 1 : At(r, id) <= get_size(r) => get_item(r, id) \in Item
    BY <1>1, ItemAt
  <2> QED
    BY <2>1, <2>2, <2>3 DEF get_item
<1>4. f \in [1 .. n -> Item \cup {Dead}]
  <2>1. DOMAIN r.slots = 1 .. n
    BY <1>1
  <2>2. \A i \in 1 .. n : f[i] \in Item \cup {Dead}
    <3> SUFFICES ASSUME NEW i \in 1 .. n
                 PROVE  f[i] \in Item \cup {Dead}
      OBVIOUS
    <3>1. CASE check_id_valid(r, i - 1)
      BY <1>3, <2>1, <3>1, NamedIs
    <3>2. CASE ~check_id_valid(r, i - 1)
      BY <1>1, <2>1, <3>2
    <3> QED
      BY <3>1, <3>2
  <2> QED
    BY <2>1, <2>2
<1>5. /\ s \in Shapes(n, Item) /\ s.rptr = r.rptr /\ s.wptr = r.wptr /\ s.wrapped = r.wrapped
      /\ s.slots = f /\ SizeOf(s) = n
  <2> HIDE DEF s, f
  <2> QED
    BY <1>1, <1>2, <1>4 DEF Shapes, SizeOf
<1>6. \A id \in 0 .. n - 1 : At(r, id) <= get_size(r) => get_item(s, id) = Named(get_item(r, id))
  <2> SUFFICES ASSUME NEW id \in 0 .. n - 1, At(r, id) <= get_size(r)
               PROVE  get_item(s, id) = Named(get_item(r, id))
    OBVIOUS
  <2>1. id + 1 \in 1 .. n /\ (id + 1) - 1 = id
    BY <1>1
  <2>2. check_id_valid(r, id)
    BY <1>1, ValidIs
  <2>3. f[id + 1] = Named(r.slots[id + 1])
    BY <1>1, <2>1, <2>2
  <2> HIDE DEF s, f
  <2> QED
    BY <1>5, <2>3 DEF get_item
<1> HIDE DEF s, f
<1>7. /\ \A i : Place(s, i) = Place(r, i)
      /\ \A id : At(s, id) = At(r, id)
  BY <1>1, <1>5, SamePointers
<1>8. get_size(s) = get_size(r) /\ (is_full(s) <=> is_full(r)) /\ SizeFormula(s, n) = get_size(r)
  <2>1. get_size(r) = SizeFormula(r, n)
    BY <1>1, SizeIs
  <2>2. SizeFormula(s, n) = SizeFormula(r, n)
    BY <1>5 DEF SizeFormula
  <2>3. get_size(s) = get_size(r) /\ (is_full(s) <=> is_full(r))
    BY <1>1, <1>5 DEF get_size, is_full
  <2> QED
    BY <2>1, <2>2, <2>3
<1>9. s \in Rings(n, Item)
  <2>1. \A id \in 0 .. n - 1 : At(s, id) <= SizeFormula(s, n) => get_item(s, id) \in Item
    <3> SUFFICES ASSUME NEW id \in 0 .. n - 1, At(s, id) <= SizeFormula(s, n)
                 PROVE  get_item(s, id) \in Item
      OBVIOUS
    <3>1. At(r, id) <= get_size(r)
      BY <1>7, <1>8
    <3>2. get_item(r, id) \in Item
      BY <1>1, <3>1, ItemAt
    <3> QED
      BY <1>6, <3>1, <3>2, NamedIs
  <2> QED
    BY <1>1, <1>5, <2>1, RingIntro
<1>10. \A i \in 1 .. get_size(r) : ItemsOf(s)[i] = Named(ItemsOf(r)[i])
  <2> SUFFICES ASSUME NEW i \in 1 .. get_size(r)
               PROVE  ItemsOf(s)[i] = Named(ItemsOf(r)[i])
    OBVIOUS
  <2>1. i \in 1 .. n
    BY <1>1, SizeIs
  <2>2. Place(r, i) \in 0 .. n - 1 /\ At(r, Place(r, i)) = i
    BY <1>1, <2>1, AtPlace
  <2>3. i <= get_size(r)
    BY <1>1, SizeIs
  <2>4. get_item(s, Place(r, i)) = Named(get_item(r, Place(r, i)))
    BY <1>6, <2>2, <2>3
  <2> QED
    BY <1>7, <1>8, <2>4 DEF ItemsOf
<1> QED
  BY <1>8, <1>9, <1>10 DEF s, Buffers

LEMMA PoppedItems ==
  ASSUME NEW r \in Buffers, ~is_empty(r)
  PROVE  /\ pop(r) \in Buffers /\ get_size(pop(r)) = get_size(r) - 1 /\ get_size(r) \in Nat \ {0}
         /\ ~is_full(pop(r))
         /\ \A i \in 1 .. get_size(r) - 1 : ItemsOf(pop(r))[i] = ItemsOf(r)[i + 1]
         /\ get_item(r, r.rptr) = ItemsOf(r)[1]
<1>1. /\ STORE_BUFFER_SIZE \in Nat \ {0} /\ r \in Rings(STORE_BUFFER_SIZE, Item)
      /\ get_size(r) \in 0 .. STORE_BUFFER_SIZE /\ get_size(r) # 0
  BY Sizes, SizeIs DEF Buffers
<1>2. PICK n \in Nat : n = STORE_BUFFER_SIZE /\ n # 0 /\ r \in Rings(n, Item)
  BY <1>1
<1>3. PICK s : s = pop(r)
  OBVIOUS
<1>4. /\ s \in Rings(n, Item) /\ get_size(s) = get_size(r) - 1
      /\ \A i \in 1 .. n - 1 : Place(s, i) = Place(r, i + 1)
      /\ \A j \in 0 .. n - 1 : j # r.rptr => get_item(s, j) = get_item(r, j)
      /\ At(r, r.rptr) = 1
  BY <1>2, <1>3, PopItem
<1>5. ~is_full(s)
  BY <1>1, <1>2, <1>4, SizeIs
<1>6. r.rptr \in 0 .. n - 1
  BY <1>2, ShapeFacts
<1>7. Place(r, 1) = r.rptr
  BY <1>2, <1>4, <1>6, PlaceAt
<1>8. ASSUME NEW i \in 1 .. get_size(r) - 1
      PROVE  ItemsOf(s)[i] = ItemsOf(r)[i + 1]
  <2>1. i \in 1 .. n - 1 /\ i + 1 \in 1 .. n /\ i + 1 # 1 /\ i + 1 \in 1 .. get_size(r)
        /\ i \in 1 .. get_size(s)
    BY <1>1, <1>2, <1>4
  <2>2. PICK k \in 1 .. n : k = i + 1 /\ k # 1 /\ k \in 1 .. get_size(r)
    BY <2>1
  <2>3. Place(r, k) \in 0 .. n - 1 /\ At(r, Place(r, k)) = k
    BY <1>2, AtPlace
  <2>4. Place(r, k) # r.rptr
    BY <1>4, <2>2, <2>3
  <2>5. Place(s, i) = Place(r, k)
    BY <1>4, <2>1, <2>2
  <2> QED
    BY <1>4, <2>1, <2>2, <2>3, <2>4, <2>5 DEF ItemsOf
<1>9. get_item(r, r.rptr) = ItemsOf(r)[1]
  BY <1>1, <1>7 DEF ItemsOf
<1> QED
  BY <1>1, <1>2, <1>3, <1>4, <1>5, <1>8, <1>9 DEF Buffers

LEMMA PushedItems ==
  ASSUME NEW r \in Buffers, ~is_full(r), NEW x \in Item
  PROVE  /\ push(r, x) \in Buffers /\ get_size(push(r, x)) = get_size(r) + 1
         /\ \A i \in 1 .. get_size(r) : ItemsOf(push(r, x))[i] = ItemsOf(r)[i]
         /\ ItemsOf(push(r, x))[get_size(r) + 1] = x
<1>1. /\ STORE_BUFFER_SIZE \in Nat \ {0} /\ r \in Rings(STORE_BUFFER_SIZE, Item)
      /\ get_size(r) \in 0 .. STORE_BUFFER_SIZE /\ get_size(r) # STORE_BUFFER_SIZE
  BY Sizes, SizeIs DEF Buffers
<1>2. PICK n \in Nat : n = STORE_BUFFER_SIZE /\ n # 0 /\ r \in Rings(n, Item)
  BY <1>1
<1>3. PICK s : s = push(r, x)
  OBVIOUS
<1>4. /\ s \in Rings(n, Item) /\ get_size(s) = get_size(r) + 1
      /\ \A i : Place(s, i) = Place(r, i)
      /\ At(r, r.wptr) = get_size(r) + 1
      /\ \A j \in 0 .. n - 1 : get_item(s, j) = IF j = r.wptr THEN x ELSE get_item(r, j)
  BY <1>2, <1>3, PushItem
<1>5. r.wptr \in 0 .. n - 1
  BY <1>2, ShapeFacts
<1>6. PICK m \in Nat : m = get_size(r) + 1 /\ m \in 1 .. n /\ m = get_size(s)
  BY <1>1, <1>2, <1>4
<1>7. Place(r, m) = r.wptr
  BY <1>2, <1>4, <1>5, <1>6, PlaceAt
<1>8. ASSUME NEW i \in 1 .. get_size(r)
      PROVE  ItemsOf(s)[i] = ItemsOf(r)[i]
  <2>1. i \in 1 .. n /\ i # m /\ i \in 1 .. m
    BY <1>1, <1>2, <1>6
  <2>2. Place(r, i) \in 0 .. n - 1 /\ At(r, Place(r, i)) = i
    BY <1>2, <2>1, AtPlace
  <2>3. Place(r, i) # r.wptr
    BY <1>4, <1>6, <2>1, <2>2
  <2> QED
    BY <1>4, <1>6, <2>1, <2>2, <2>3 DEF ItemsOf
<1>9. ItemsOf(s)[m] = x
  BY <1>4, <1>5, <1>6, <1>7 DEF ItemsOf
<1> QED
  BY <1>2, <1>3, <1>4, <1>6, <1>8, <1>9 DEF Buffers

LEMMA TruncatedItems ==
  ASSUME NEW r \in Buffers, NEW k \in 0 .. get_size(r)
  PROVE  /\ truncate(r, k) \in Buffers /\ get_size(truncate(r, k)) = k
         /\ \A i \in 1 .. k : ItemsOf(truncate(r, k))[i] = ItemsOf(r)[i]
<1>1. /\ STORE_BUFFER_SIZE \in Nat \ {0} /\ r \in Rings(STORE_BUFFER_SIZE, Item)
      /\ get_size(r) \in 0 .. STORE_BUFFER_SIZE
  BY Sizes, SizeIs DEF Buffers
<1>2. PICK s : s = truncate(r, k)
  OBVIOUS
<1>3. /\ s \in Rings(STORE_BUFFER_SIZE, Item) /\ get_size(s) = k
      /\ \A i : Place(s, i) = Place(r, i)
      /\ \A i \in 1 .. k : get_item(s, Place(r, i)) = get_item(r, Place(r, i))
  BY <1>1, <1>2, Truncate
<1>4. \A i \in 1 .. k : i \in 1 .. get_size(r)
  BY <1>1
<1> QED
  BY <1>2, <1>3, <1>4 DEF ItemsOf, Buffers

-----------------------------------------------------------------------------
(* The cycle ends.                                                         *)

Drains == IF Draining THEN 1 ELSE 0

LEMMA DrainedBuffer ==
  ASSUME Types, NEW r, r = IF Draining THEN pop(store_buffer) ELSE store_buffer
  PROVE  /\ r \in Buffers /\ Drains \in {0, 1} /\ Drains \in 0 .. Len(Items)
         /\ get_size(r) = Len(Items) - Drains
         /\ is_full(r) => is_full(store_buffer)
         /\ \A i \in 1 .. Len(Items) - Drains : ItemsOf(r)[i] = Items[i + Drains]
         /\ Draining => Items[1].committed /\ get_item(store_buffer, store_buffer.rptr) = Items[1]
<1>1. /\ store_buffer \in Buffers /\ Items = ItemsOf(store_buffer)
      /\ Len(Items) = get_size(store_buffer) /\ Len(Items) \in Nat
  BY ItemsAre, ItemsOfIs DEF Types, Buffers
<1>2. CASE Draining
  <2>1. Drains = 1 /\ r = pop(store_buffer) /\ ~is_empty(store_buffer)
    BY <1>2 DEF Drains, Draining
  <2>2. /\ r \in Buffers /\ get_size(r) = Len(Items) - 1 /\ Len(Items) \in Nat \ {0}
        /\ ~is_full(r)
        /\ \A i \in 1 .. Len(Items) - 1 : ItemsOf(r)[i] = Items[i + 1]
        /\ get_item(store_buffer, store_buffer.rptr) = Items[1]
    BY <1>1, <2>1, PoppedItems
  <2>3. Items[1].committed
    BY <1>2, <2>2 DEF Draining
  <2> QED
    BY <2>1, <2>2, <2>3
<1>3. CASE ~Draining
  <2>1. Drains = 0 /\ r = store_buffer
    BY <1>3 DEF Drains
  <2>2. \A i \in 1 .. Len(Items) - 0 : i + 0 = i
    BY <1>1
  <2> QED
    BY <1>1, <1>3, <2>1, <2>2
<1> QED
  BY <1>2, <1>3

\* What the buffer holds after the turn, in terms of what it held with what
\* was pushed.
LEMMA RunItems ==
  ASSUME IInv, Run
  PROVE  /\ store_buffer' \in Buffers /\ Items' = Buffered' /\ push_q' = << >>
         /\ Drains \in {0, 1} /\ Drains \in 0 .. Len(Items) /\ Len(Items) \in Nat /\ Len(Buffered) \in Nat
         /\ Len(Items) <= Len(Buffered) /\ DOMAIN Buffered = 1 .. Len(Buffered)
         /\ DOMAIN Buffered' = 1 .. Len(Buffered) - Drains
         /\ \A i \in 1 .. Len(Items) : Buffered[i] = Items[i]
         /\ \A i \in 1 .. Len(Buffered) - Drains : Buffered'[i] = Named(Buffered[i + Drains])
         /\ Draining => Items[1].committed /\ get_item(store_buffer, store_buffer.rptr) = Items[1]
<1>1. /\ store_buffer' = Pushed(Marked(IF Draining THEN pop(store_buffer) ELSE store_buffer))
      /\ push_q' = << >> /\ Types /\ Turns
  BY DEF Run, EndOfCycle, IInv
<1>2. PICK r : r = IF Draining THEN pop(store_buffer) ELSE store_buffer
  OBVIOUS
<1>3. /\ r \in Buffers /\ Drains \in {0, 1} /\ Drains \in 0 .. Len(Items)
      /\ get_size(r) = Len(Items) - Drains
      /\ is_full(r) => is_full(store_buffer)
      /\ \A i \in 1 .. Len(Items) - Drains : ItemsOf(r)[i] = Items[i + Drains]
      /\ Draining => Items[1].committed /\ get_item(store_buffer, store_buffer.rptr) = Items[1]
  BY <1>1, <1>2, DrainedBuffer
<1>4. PICK s : s = Marked(r)
  OBVIOUS
<1>5. /\ s \in Buffers /\ get_size(s) = Len(Items) - Drains /\ (is_full(s) => is_full(store_buffer))
      /\ \A i \in 1 .. Len(Items) - Drains : ItemsOf(s)[i] = Named(Items[i + Drains])
  <2>1. committed_rob_id \subseteq RobId
    BY <1>1 DEF Types
  <2>2. /\ s \in Buffers /\ get_size(s) = get_size(r) /\ (is_full(s) <=> is_full(r))
        /\ \A i \in 1 .. get_size(r) : ItemsOf(s)[i] = Named(ItemsOf(r)[i])
    BY <1>3, <1>4, <2>1, MarkedIs
  <2> QED
    BY <1>3, <2>2
<1>6. /\ Items \in Seq(Item) /\ push_q \in Seq(Item) /\ Len(push_q) <= 1 /\ Len(Items) \in Nat
      /\ Len(Buffered) = Len(Items) + Len(push_q) /\ DOMAIN Buffered = 1 .. Len(Items) + Len(push_q)
      /\ Buffered = Items \o push_q /\ DOMAIN Items = 1 .. Len(Items)
  BY <1>1, BufferedSeq DEF Types, Buffered
<1>7. \A i \in 1 .. Len(Items) : Buffered[i] = Items[i]
  BY <1>6
<1>8. ASSUME NEW t, t = store_buffer'
      PROVE  /\ t \in Buffers /\ get_size(t) = Len(Buffered) - Drains
             /\ \A i \in 1 .. Len(Buffered) - Drains : ItemsOf(t)[i] = Named(Buffered[i + Drains])
  <2>1. CASE push_q = << >>
    <3>1. t = s /\ Len(push_q) = 0
      BY <1>1, <1>2, <1>4, <1>8, <2>1 DEF Pushed
    <3>2. Len(Buffered) = Len(Items) /\ Buffered = Items
      BY <1>6, <2>1, <3>1
    <3> QED
      BY <1>5, <3>1, <3>2
  <2>2. CASE push_q # << >>
    <3>1. PICK x \in Item : push_q = <<x>>
      BY <1>6, <2>2, PortIs
    <3>2. Head(push_q) = x /\ Len(push_q) = 1 /\ push_q[1] = x /\ 1 \in DOMAIN push_q
      BY <3>1
    <3>3. ~is_full(store_buffer) /\ x.rob_id \notin committed_rob_id /\ ~x.committed
      BY <1>1, <2>2, <3>2 DEF Turns, Types
    <3>4. t = push(s, x)
      BY <1>1, <1>2, <1>4, <1>8, <2>2, <3>2 DEF Pushed
    <3>5. /\ t \in Buffers /\ get_size(t) = get_size(s) + 1
          /\ \A i \in 1 .. get_size(s) : ItemsOf(t)[i] = ItemsOf(s)[i]
          /\ ItemsOf(t)[get_size(s) + 1] = x
      BY <1>5, <3>3, <3>4, PushedItems
    <3>6. Named(x) = x
      BY <1>1, <3>3, NamedIs, SMTT(60) DEF Types
    <3>7. PICK n \in Nat : n = Len(Items) /\ Len(Buffered) = n + 1 /\ get_size(s) = n - Drains
      BY <1>5, <1>6, <3>2
    <3>8. Buffered[n + 1] = x
      BY <1>6, <3>1, <3>7
    <3>9. ASSUME NEW i \in 1 .. n + 1 - Drains
          PROVE  ItemsOf(t)[i] = Named(Buffered[i + Drains])
      <4>1. CASE i = n - Drains + 1
        <5>1. i + Drains = n + 1
          BY <1>3, <4>1
        <5> QED
          BY <3>5, <3>6, <3>7, <3>8, <4>1, <5>1
      <4>2. CASE i \in 1 .. n - Drains
        <5>1. i + Drains \in 1 .. n
          BY <1>3, <4>2
        <5>2. ItemsOf(t)[i] = ItemsOf(s)[i] /\ Buffered[i + Drains] = Items[i + Drains]
          BY <1>7, <3>5, <3>7, <4>2, <5>1
        <5> QED
          BY <1>5, <3>7, <4>2, <5>2
      <4> QED
        BY <1>3, <3>7, <3>9, <4>1, <4>2
    <3> QED
      BY <1>3, <3>5, <3>7, <3>9
  <2> QED
    BY <2>1, <2>2
<1>9. PICK t : t = store_buffer'
  OBVIOUS
<1>10. /\ t \in Buffers /\ get_size(t) = Len(Buffered) - Drains
       /\ \A i \in 1 .. Len(Buffered) - Drains : ItemsOf(t)[i] = Named(Buffered[i + Drains])
  BY <1>8, <1>9
<1>11. Items' = ItemsOf(t) /\ DOMAIN ItemsOf(t) = 1 .. get_size(t) /\ ItemsOf(t) \in Seq(Item)
  BY <1>9, <1>10, ItemsAre, ItemsOfIs
<1>12. Buffered' = Items'
  <2>1. Buffered' = ItemsOf(t) \o << >>
    BY <1>1, <1>11 DEF Buffered
  <2> QED
    BY <1>11, <2>1
<1>13. Len(Items) <= Len(Buffered) /\ Len(Buffered) \in Nat
  <2>1. Len(push_q) \in Nat
    BY <1>6
  <2> QED
    BY <1>6, <2>1
<1> QED
  BY <1>1, <1>3, <1>6, <1>7, <1>9, <1>10, <1>11, <1>12, <1>13

LEMMA UnnamedPending ==
  ASSUME committed_rob_id' = {}, NEW x \in Item
  PROVE  Pending(x)' <=> ~x.committed
<1>1. Named(x)' = [x EXCEPT !.committed = x.committed \/ x.rob_id \in {}]
  BY DEF Named
<1>2. x \in [rob_id : RobId, addr : Addr, size : Length, data : Bytes, committed : BOOLEAN]
  BY DEF Item
<1>3. PICK y : y = Named(x)'
  OBVIOUS
<1>4. y.committed <=> x.committed
  BY <1>1, <1>2, <1>3
<1>5. Pending(x)' <=> ~y.committed
  BY <1>3 DEF Pending
<1> QED
  BY <1>4, <1>5

\* An item of the buffer after the turn is one from before.
LEMMA RunItem ==
  ASSUME IInv, Run, NEW i \in DOMAIN Buffered', NEW x, x = Buffered'[i]
  PROVE  \E j \in DOMAIN Buffered :
           /\ j = i + Drains /\ i \in Nat /\ x \in Item
           /\ Pending(x)' <=> Pending(Buffered[j])
           /\ x.rob_id = Buffered[j].rob_id
           /\ \A op : Matches(Buffered[j], op) => Matches(x, op)
<1>1. /\ Drains \in {0, 1} /\ Len(Buffered) \in Nat /\ DOMAIN Buffered = 1 .. Len(Buffered)
      /\ i \in 1 .. Len(Buffered) - Drains /\ x = Named(Buffered[i + Drains])
  BY RunItems
<1>2. PICK j \in DOMAIN Buffered : j = i + Drains
  BY <1>1
<1>3. committed_rob_id \subseteq RobId /\ Types /\ committed_rob_id' = {}
  BY DEF IInv, Types, Run, EndOfCycle
<1>4. PICK y \in Item : y = Buffered[j]
  BY <1>3, BufferedItem
<1>5. /\ x = Named(y) /\ x \in Item /\ x.rob_id = y.rob_id /\ x.addr = y.addr /\ x.size = y.size
      /\ x.data = y.data
  BY <1>1, <1>2, <1>3, <1>4, NamedIs
<1>6. Pending(x)' <=> ~x.committed
  BY <1>3, <1>5, UnnamedPending
<1>7. Pending(x)' <=> Pending(Buffered[j])
  BY <1>4, <1>5, <1>6 DEF Pending
<1>8. \A op : Matches(Buffered[j], op) => Matches(x, op)
  BY <1>4, <1>5 DEF Matches
<1> QED
  BY <1>1, <1>2, <1>4, <1>5, <1>7, <1>8

LEMMA RunFacts ==
  ASSUME IInv, Run
  PROVE  /\ Types /\ Turns /\ CommittedFirst /\ InFlight /\ PendingStores /\ Straight
         /\ stage = "rename" /\ ~flush_feedback /\ EndOfCycle
         /\ slot <= get_size(rob) /\ rob' = popped[slot] /\ committed_rob_id' = {} /\ slot' = 0
         /\ push_q' = << >> /\ flush_feedback' = FALSE /\ stage' = "commit"
         /\ UNCHANGED <<hold_rev_pack, issue_q, lsu_wb_port, wb_commit_port, walking>>
<1>1. /\ stage = "rename" /\ ~flush_feedback /\ EndOfCycle
      /\ rob' = popped[slot] /\ committed_rob_id' = {} /\ slot' = 0
      /\ push_q' = << >> /\ flush_feedback' = FALSE /\ stage' = "commit"
      /\ UNCHANGED <<hold_rev_pack, issue_q, lsu_wb_port, wb_commit_port, walking>>
  BY DEF Run, EndOfCycle, units
<1>2. Types /\ Turns /\ CommittedFirst
  BY DEF IInv
<1>3. Straight
  BY <1>1, <1>2 DEF Turns, Straight
<1>4. InFlight /\ PendingStores
  BY <1>3 DEF IInv
<1>5. slot <= get_size(rob)
  BY <1>4 DEF InFlight, Retiring
<1> QED
  BY <1>1, <1>2, <1>3, <1>4, <1>5

\* What has drained is not pending.
LEMMA DrainsRetired ==
  ASSUME IInv, Run, NEW j \in DOMAIN Buffered, Pending(Buffered[j])
  PROVE  \E i \in DOMAIN Buffered' : j = i + Drains
<1>1. /\ Drains \in {0, 1} /\ Drains \in 0 .. Len(Items) /\ Len(Buffered) \in Nat
      /\ DOMAIN Buffered = 1 .. Len(Buffered) /\ Len(Items) \in Nat
      /\ DOMAIN Buffered' = 1 .. Len(Buffered) - Drains
      /\ \A i \in 1 .. Len(Items) : Buffered[i] = Items[i]
      /\ Draining => Items[1].committed
  BY RunItems
<1>2. Drains = 1 => j # 1
  <2> SUFFICES ASSUME Drains = 1, j = 1
               PROVE  FALSE
    OBVIOUS
  <2>1. Draining
    BY DEF Drains
  <2>2. Buffered[1] = Items[1] /\ Buffered[1].committed
    BY <1>1, <2>1
  <2>3. Buffered[1] \in Item /\ committed_rob_id \subseteq RobId
    BY BufferedItem DEF IInv, Types
  <2>4. Named(Buffered[1]).committed
    BY <2>2, <2>3, NamedIs
  <2> QED
    BY <2>4 DEF Pending
<1>3. j - Drains \in 1 .. Len(Buffered) - Drains /\ j = (j - Drains) + Drains
  BY <1>1, <1>2
<1> QED
  BY <1>1, <1>3

LEMMA RunTypes ==
  ASSUME IInv, Run
  PROVE  Types' /\ Turns'
<1>1. /\ Types /\ Turns /\ CommittedFirst /\ InFlight /\ PendingStores /\ Straight
      /\ slot <= get_size(rob) /\ rob' = popped[slot] /\ committed_rob_id' = {} /\ slot' = 0
      /\ push_q' = << >> /\ flush_feedback' = FALSE /\ stage' = "commit"
      /\ UNCHANGED <<hold_rev_pack, issue_q, lsu_wb_port, wb_commit_port, walking>>
  BY RunFacts
<1>2. /\ store_buffer' \in Buffers /\ Drains \in 0 .. Len(Items) /\ Len(Items) \in Nat
      /\ Draining => Items[1].committed /\ get_item(store_buffer, store_buffer.rptr) = Items[1]
  BY RunItems
<1>3. memory' \in [Addr -> Byte]
  <2>1. CASE Draining
    <3>1. Drains = 1
      BY <2>1 DEF Drains
    <3>2. PICK x \in Item : x = Items[1]
      <4>1. 1 \in DOMAIN Items /\ Items \in Seq(Item)
        BY <1>1, <1>2, <3>1, BufferedSeq
      <4> QED
        BY <4>1
    <3>3. memory' = [a \in Addr |-> IF a \in Span(x) THEN x.data[a - x.addr] ELSE memory[a]]
      BY <1>2, <2>1, <3>2 DEF Run
    <3>4. memory \in [Addr -> Byte]
      BY <1>1 DEF Types
    <3>5. \A a \in Addr : (IF a \in Span(x) THEN x.data[a - x.addr] ELSE memory[a]) \in Byte
      BY <3>4, ItemByte
    <3> QED
      BY <3>3, <3>5
  <2>2. CASE ~Draining
    BY <1>1, <2>2 DEF Run, Types
  <2> QED
    BY <2>1, <2>2
<1>4. rob' \in Rings(ROB_SIZE, Entry)
  BY <1>1, EndRob
<1>5. push_q' \in Seq(Item) /\ Len(push_q') <= 1 /\ \A i \in DOMAIN push_q' : ~push_q'[i].committed
  BY <1>1
<1>6. slot' \in 0 .. COMMIT_WIDTH /\ committed_rob_id' \subseteq RobId
  BY <1>1, Sizes
<1>7. Types'
  <2>1. hold_rev_pack' \in Seq(Pack) /\ Len(hold_rev_pack') <= 1 /\ issue_q' \in Seq(Pack)
        /\ lsu_wb_port' \in Seq(Reply) /\ Len(lsu_wb_port') <= 1
        /\ wb_commit_port' \in Seq(Reply) /\ Len(wb_commit_port') <= 1 /\ walking' \in BOOLEAN
    BY <1>1 DEF Types
  <2> QED
    BY <1>1, <1>2, <1>3, <1>4, <1>5, <1>6, <2>1 DEF Types, Buffers
<1>8. Turns'
  BY <1>1 DEF Turns, Straight
<1> QED
  BY <1>7, <1>8

LEMMA RunOK == IInv /\ Run => IInv'
<1> SUFFICES ASSUME IInv, Run
             PROVE  IInv'
  OBVIOUS
<1>1. /\ Types /\ Turns /\ CommittedFirst /\ InFlight /\ PendingStores /\ Straight /\ EndOfCycle
      /\ slot <= get_size(rob) /\ rob' = popped[slot] /\ slot' = 0 /\ slot \in Nat
  BY RunFacts, Ages
<1>2. Types' /\ Turns'
  BY RunTypes
<1>3. InFlight'
  BY <1>1, EndInFlight
<1>4. Drains \in {0, 1} /\ \A i \in DOMAIN Buffered : i \in Nat /\ Buffered[i].rob_id \in RobId
  BY <1>1, RunItems, BufferedItem
<1>5. /\ \A id \in RobId : InRob(id)' => InRob(id) /\ Age(id) > slot
      /\ \A id \in RobId : InRob(id) /\ Age(id) > slot =>
           InRob(id)' /\ Age(id)' = Age(id) - slot /\ Ent(id)' = Ent(id)
  BY <1>1, EndRob
<1>6. \A id \in RobId : InRob(id) /\ Age(id) > slot => (Executed(id)' <=> Executed(id))
  BY <1>1, EndAnswers DEF InFlight
<1>7. \A id \in RobId : Age(id) \in Nat
  BY <1>1, Ages
<1>8. CommittedFirst'
  <2> SUFFICES ASSUME NEW k \in DOMAIN Buffered', NEW l \in DOMAIN Buffered', k < l,
                      NEW x, x = Buffered'[k], NEW y, y = Buffered'[l], Pending(x)'
               PROVE  Pending(y)'
    BY DEF CommittedFirst
  <2>1. PICK i \in DOMAIN Buffered : i = k + Drains /\ (Pending(x)' <=> Pending(Buffered[i])) /\ k \in Nat
    BY RunItem
  <2>2. PICK j \in DOMAIN Buffered : j = l + Drains /\ (Pending(y)' <=> Pending(Buffered[j])) /\ l \in Nat
    BY RunItem
  <2>3. i < j
    BY <1>4, <2>1, <2>2
  <2>4. Pending(Buffered[j])
    BY <1>1, <2>1, <2>3 DEF CommittedFirst
  <2> QED
    BY <2>2, <2>4
<1>9. PendingRight'
  <2> SUFFICES ASSUME NEW k \in DOMAIN Buffered', NEW x, x = Buffered'[k], Pending(x)',
                      NEW id, id = x.rob_id
               PROVE  InRob(id)' /\ Age(id)' > slot' /\ Executed(id)' /\ Matches(x, Ent(id)'.op)
    BY DEF PendingRight
  <2>1. PICK i \in DOMAIN Buffered :
          /\ Pending(Buffered[i]) /\ id = Buffered[i].rob_id
          /\ \A op : Matches(Buffered[i], op) => Matches(x, op)
    BY RunItem
  <2>2. /\ id \in RobId /\ InRob(id) /\ Age(id) > slot /\ Executed(id)
        /\ Matches(x, Ent(id).op)
    BY <1>1, <1>4, <2>1 DEF PendingStores, PendingRight
  <2>3. InRob(id)' /\ Age(id)' = Age(id) - slot /\ Ent(id)' = Ent(id) /\ Executed(id)'
    BY <1>5, <1>6, <2>2
  <2>4. Age(id)' > slot'
    BY <1>1, <1>7, <2>2, <2>3
  <2> QED
    BY <2>2, <2>3, <2>4
<1>10. PendingOrdered'
  <2> SUFFICES ASSUME NEW k \in DOMAIN Buffered', NEW l \in DOMAIN Buffered', k < l,
                      NEW x, x = Buffered'[k], NEW y, y = Buffered'[l], Pending(x)', Pending(y)',
                      NEW id, id = x.rob_id, NEW jd, jd = y.rob_id
               PROVE  Age(id)' < Age(jd)'
    BY DEF PendingOrdered
  <2>1. PICK i \in DOMAIN Buffered : i = k + Drains /\ Pending(Buffered[i]) /\ id = Buffered[i].rob_id
                                     /\ k \in Nat
    BY RunItem
  <2>2. PICK j \in DOMAIN Buffered : j = l + Drains /\ Pending(Buffered[j]) /\ jd = Buffered[j].rob_id
                                     /\ l \in Nat
    BY RunItem
  <2>3. i < j
    BY <1>4, <2>1, <2>2
  <2>4. Age(id) < Age(jd) /\ id \in RobId /\ jd \in RobId
    BY <1>1, <1>4, <2>1, <2>2, <2>3 DEF PendingStores, PendingOrdered
  <2>5. InRob(id) /\ Age(id) > slot /\ InRob(jd) /\ Age(jd) > slot
    BY <1>1, <2>1, <2>2 DEF PendingStores, PendingRight
  <2>6. Age(id)' = Age(id) - slot /\ Age(jd)' = Age(jd) - slot
    BY <1>5, <2>4, <2>5
  <2> QED
    BY <1>1, <1>7, <2>4, <2>6
<1>11. ExecutedPending'
  <2> SUFFICES ASSUME NEW id \in RobId, InRob(id)', Executed(id)'
               PROVE  \E k \in DOMAIN Buffered' : \E x : x = Buffered'[k] /\ Pending(x)' /\ x.rob_id = id
    BY DEF ExecutedPending
  <2>1. InRob(id) /\ Age(id) > slot
    BY <1>5
  <2>2. Executed(id)
    BY <1>6, <2>1
  <2>3. PICK j \in DOMAIN Buffered : Pending(Buffered[j]) /\ Buffered[j].rob_id = id
    BY <1>1, <2>1, <2>2 DEF PendingStores, ExecutedPending
  <2>4. PICK k \in DOMAIN Buffered' : j = k + Drains
    BY <2>3, DrainsRetired
  <2>5. PICK x : x = Buffered'[k]
    OBVIOUS
  <2>6. PICK i \in DOMAIN Buffered : i = k + Drains /\ (Pending(x)' <=> Pending(Buffered[i]))
                                     /\ x.rob_id = Buffered[i].rob_id
    BY <2>5, RunItem
  <2> QED
    BY <2>3, <2>4, <2>5, <2>6
<1> QED
  BY <1>2, <1>3, <1>8, <1>9, <1>10, <1>11 DEF IInv, PendingStores

LEMMA KeptIs ==
  ASSUME Types
  PROVE  /\ Kept \in 0 .. Len(Items) /\ \A i \in 1 .. Kept : ~Pending(Items[i])
         /\ Kept < Len(Items) => Pending(Items[Kept + 1])
<1> DEFINE lost == {i \in 1 .. Len(Items) : ~Named(Items[i]).committed}
           Lowest(i) == i \in lost /\ \A j \in lost : i <= j
<1>1. Len(Items) \in Nat
  BY BufferedSeq
<1>2. CASE lost = {}
  BY <1>1, <1>2 DEF Kept, Pending
<1>3. CASE lost # {}
  <2>1. lost \in SUBSET Nat /\ \A i \in lost : i \in 1 .. Len(Items)
    BY <1>1
  <2>2. \E i \in lost : \A j \in lost : i <= j
    <3> HIDE DEF lost
    <3> QED
      BY <1>3, <2>1, LeastElement
  <2>3. PICK m : m = (CHOOSE i \in lost : \A j \in lost : i <= j)
    OBVIOUS
  <2>4. m \in lost /\ \A j \in lost : m <= j
    <3> HIDE DEF lost
    <3> QED
      BY <2>2, <2>3
  <2>5. Kept = m - 1
    BY <1>3, <2>3 DEF Kept
  <2>6. m \in Nat /\ m \in 1 .. Len(Items) /\ (m - 1) + 1 = m /\ m - 1 \in 0 .. Len(Items)
    BY <1>1, <2>1, <2>4
  <2>7. ASSUME NEW i \in 1 .. m - 1
        PROVE  ~Pending(Items[i])
    <3>1. i \in 1 .. Len(Items) /\ ~(m <= i)
      BY <1>1, <2>6
    <3>2. i \notin lost
      BY <2>4, <3>1
    <3> QED
      BY <3>1, <3>2 DEF Pending
  <2> QED
    BY <2>4, <2>5, <2>6, <2>7 DEF Pending
<1> QED
  BY <1>2, <1>3

LEMMA RunFlushItems ==
  ASSUME IInv, RunFlush
  PROVE  /\ store_buffer' \in Buffers /\ Items' = Buffered' /\ push_q' = << >>
         /\ Kept \in 0 .. Len(Items) /\ Len(Items) \in Nat
         /\ Len(Items') = Kept /\ DOMAIN Items' = 1 .. Kept
         /\ \A i \in 1 .. Kept : Items'[i] = Named(Items[i]) /\ Items[i] \in Item
                                 /\ Named(Items[i]).committed
<1>1. /\ store_buffer' = Marked(truncate(store_buffer, Kept)) /\ push_q' = << >> /\ Types
      /\ committed_rob_id \subseteq RobId
  BY DEF RunFlush, EndOfCycle, IInv, Types
<1>2. /\ store_buffer \in Buffers /\ Items = ItemsOf(store_buffer)
      /\ Len(Items) = get_size(store_buffer) /\ Len(Items) \in Nat
      /\ \A i \in 1 .. Len(Items) : Items[i] \in Item
  BY <1>1, ItemsAre, ItemsOfIs DEF Types, Buffers
<1>3. PICK k : k = Kept /\ k \in 0 .. Len(Items) /\ \A i \in 1 .. k : ~Pending(Items[i])
  BY <1>1, KeptIs
<1>4. PICK r : r = truncate(store_buffer, k)
  OBVIOUS
<1>5. r \in Buffers /\ get_size(r) = k /\ \A i \in 1 .. k : ItemsOf(r)[i] = Items[i]
  BY <1>2, <1>3, <1>4, TruncatedItems
<1>6. PICK s : s = Marked(r)
  OBVIOUS
<1>7. s \in Buffers /\ get_size(s) = k /\ \A i \in 1 .. k : ItemsOf(s)[i] = Named(Items[i])
  BY <1>1, <1>5, <1>6, MarkedIs
<1>8. s = store_buffer'
  BY <1>1, <1>3, <1>4, <1>6
<1>9. Items' = ItemsOf(s) /\ DOMAIN ItemsOf(s) = 1 .. k /\ ItemsOf(s) \in Seq(Item) /\ Len(ItemsOf(s)) = k
  BY <1>7, <1>8, ItemsAre, ItemsOfIs
<1>10. Buffered' = Items'
  <2>1. Buffered' = ItemsOf(s) \o << >>
    BY <1>1, <1>9 DEF Buffered
  <2> QED
    BY <1>9, <2>1
<1>11. \A i \in 1 .. k : i \in 1 .. Len(Items)
  BY <1>2, <1>3
<1> QED
  BY <1>1, <1>2, <1>3, <1>7, <1>8, <1>9, <1>10, <1>11 DEF Pending

LEMMA RunFlushFacts ==
  ASSUME IInv, RunFlush
  PROVE  /\ Types /\ Turns /\ CommittedFirst /\ ~Straight
         /\ slot = 0 /\ get_size(rob) = 0
         /\ Waiting' = << >> /\ lsu_wb_port' = << >> /\ wb_commit_port' = << >> /\ Answered' = {}
         /\ rob' \in Rings(ROB_SIZE, Entry) /\ get_size(rob)' = 0
         /\ committed_rob_id' = {} /\ slot' = 0 /\ flush_feedback' = FALSE /\ stage' = "commit"
         /\ UNCHANGED <<memory, hold_rev_pack, issue_q, lsu_wb_port, wb_commit_port, walking>>
<1>1. /\ stage = "rename" /\ flush_feedback /\ rob' = popped[slot]
      /\ committed_rob_id' = {} /\ slot' = 0 /\ flush_feedback' = FALSE /\ stage' = "commit"
      /\ UNCHANGED <<memory, hold_rev_pack, issue_q, lsu_wb_port, wb_commit_port, walking>>
  BY DEF RunFlush, EndOfCycle, units
<1>2. Types /\ Turns /\ CommittedFirst
  BY DEF IInv
<1>3. ~Straight
  BY <1>1 DEF Straight
<1>4. /\ get_size(rob) = 0 /\ slot = 0 /\ Waiting = << >> /\ lsu_wb_port = << >>
      /\ wb_commit_port = << >>
  BY <1>1, <1>2, <1>3 DEF Turns
<1>5. rob' \in Rings(ROB_SIZE, Entry) /\ get_size(rob)' = 0
  <2>1. slot <= get_size(rob)
    BY <1>4
  <2>2. rob' \in Rings(ROB_SIZE, Entry) /\ get_size(rob)' = get_size(rob) - slot
    BY <1>1, <1>2, <2>1, EndRob
  <2> QED
    BY <1>4, <2>2
<1>6. Waiting' = Waiting
  BY <1>1, SameWaiting
<1>7. Answered' = {}
  BY <1>1, <1>4 DEF Answered, ToSet
<1> QED
  BY <1>1, <1>2, <1>3, <1>4, <1>5, <1>6, <1>7

LEMMA RunFlushOK == IInv /\ RunFlush => IInv'
<1> SUFFICES ASSUME IInv, RunFlush
             PROVE  IInv'
  OBVIOUS
<1>1. /\ Types /\ Turns /\ CommittedFirst
      /\ Waiting' = << >> /\ lsu_wb_port' = << >> /\ wb_commit_port' = << >> /\ Answered' = {}
      /\ rob' \in Rings(ROB_SIZE, Entry) /\ get_size(rob)' = 0
      /\ committed_rob_id' = {} /\ slot' = 0 /\ flush_feedback' = FALSE /\ stage' = "commit"
      /\ UNCHANGED <<memory, hold_rev_pack, issue_q, lsu_wb_port, wb_commit_port, walking>>
  BY RunFlushFacts
<1>2. /\ store_buffer' \in Buffers /\ Items' = Buffered' /\ push_q' = << >>
      /\ DOMAIN Items' = 1 .. Kept
      /\ \A i \in 1 .. Kept : Items'[i] = Named(Items[i]) /\ Items[i] \in Item
                              /\ Named(Items[i]).committed
  BY RunFlushItems
<1>3. Types'
  <2>1. push_q' \in Seq(Item) /\ Len(push_q') <= 1 /\ \A i \in DOMAIN push_q' : ~push_q'[i].committed
    BY <1>2
  <2>2. slot' \in 0 .. COMMIT_WIDTH /\ committed_rob_id' \subseteq RobId
    BY <1>1, Sizes
  <2>3. hold_rev_pack' \in Seq(Pack) /\ Len(hold_rev_pack') <= 1 /\ issue_q' \in Seq(Pack)
        /\ lsu_wb_port' \in Seq(Reply) /\ Len(lsu_wb_port') <= 1
        /\ wb_commit_port' \in Seq(Reply) /\ Len(wb_commit_port') <= 1 /\ walking' \in BOOLEAN
        /\ memory' \in [Addr -> Byte]
    BY <1>1 DEF Types
  <2> QED
    BY <1>1, <1>2, <2>1, <2>2, <2>3 DEF Types, Buffers
<1>4. Turns'
  BY <1>1, <1>2 DEF Turns, Straight
<1>5. \A i \in DOMAIN Buffered' : \A x : x = Buffered'[i] => ~Pending(x)'
  <2> SUFFICES ASSUME NEW i \in 1 .. Kept, NEW x, x = Items'[i]
               PROVE  ~Pending(x)'
    BY <1>2
  <2>1. committed_rob_id \subseteq RobId
    BY <1>1 DEF Types
  <2>2. x \in Item /\ x.committed
    BY <1>2, <2>1, NamedIs
  <2> QED
    BY <1>1, <2>2, UnnamedPending
<1>6. CommittedFirst' /\ PendingRight' /\ PendingOrdered'
  BY <1>5 DEF CommittedFirst, PendingRight, PendingOrdered
<1>7. InFlight' /\ \A id \in RobId : ~InRob(id)'
  BY <1>1, <1>3, FlushedInFlight
<1>8. ExecutedPending'
  BY <1>7 DEF ExecutedPending
<1> QED
  BY <1>3, <1>4, <1>6, <1>7, <1>8 DEF IInv, PendingStores

-----------------------------------------------------------------------------
(* Every step.                                                             *)

LEMMA StutterOK == IInv /\ UNCHANGED vars => IInv'
<1> SUFFICES ASSUME IInv, UNCHANGED vars
             PROVE  IInv'
  OBVIOUS
<1>1. /\ UNCHANGED <<store_buffer, push_q>> /\ UNCHANGED <<hold_rev_pack, issue_q>> /\ UNCHANGED rob
      /\ UNCHANGED <<lsu_wb_port, wb_commit_port>>
      /\ UNCHANGED <<memory, walking, flush_feedback, committed_rob_id, stage, slot>>
  BY DEF vars, stores, units, commit
<1>2. /\ Items' = Items /\ Buffered' = Buffered /\ Waiting' = Waiting /\ Answered' = Answered
      /\ \A id : IsWaiting(id)' <=> IsWaiting(id)
      /\ \A id : Age(id)' = Age(id) /\ (InRob(id)' <=> InRob(id)) /\ Ent(id)' = Ent(id)
      /\ \A id : Access(id)' <=> Access(id)
      /\ \A id : Executed(id)' <=> Executed(id)
  BY <1>1, SameBuffer, SameWaiting, SameRob, SameAnswers, SameAnswerTo
<1>3. \A x : Pending(x)' <=> Pending(x)
  BY <1>1 DEF Pending, Named
<1>4. (Straight' <=> Straight) /\ get_size(rob)' = get_size(rob)
  BY <1>1 DEF Straight
<1>5. Types' /\ Turns' /\ CommittedFirst'
  BY <1>1, <1>2, <1>3, <1>4 DEF IInv, Types, Turns, CommittedFirst
<1>6. Straight => InFlight'
  BY <1>1, <1>2, <1>4 DEF IInv, InFlight, EntriesFit, Retiring, PacksRight, PacksOrdered, AnswersRight, InOrder
<1>7. Straight => PendingStores'
  BY <1>1, <1>2, <1>3 DEF IInv, PendingStores, PendingRight, PendingOrdered, ExecutedPending
<1> QED
  BY <1>4, <1>5, <1>6, <1>7 DEF IInv

LEMMA StepOK == IInv /\ [Next]_vars => IInv'
BY InterruptOK, ExceptionOK, RetireOK, MispredictOK, CommitInputOK, WalkBackOK, NothingIssuedOK,
   RaiseExceptionOK, LoadOK, StoreOK, FlushUnitsOK, OtherAnswerOK, RenameOK, RunOK, RunFlushOK,
   StutterOK DEF Next

(***************************************************************************)
(* The inductive invariant.  Loads and stores wait, are answered and are   *)
(* stored in the order of the reorder buffer; the buffer is a committed    *)
(* part and then one item for each executed store that still has to        *)
(* retire, oldest first; after a flush nothing is on its way               *)
(* (lsu.cpp:235-466, store_buffer.h:337-490, commit.cpp:882-991).          *)
(***************************************************************************)
THEOREM InvariantHolds == Spec => []IInv
<1>1. Init => IInv
  BY InitOK
<1>2. IInv /\ [Next]_vars => IInv'
  BY StepOK
<1> QED
  BY <1>1, <1>2, PTL DEF Spec

-----------------------------------------------------------------------------
(* The theorems.                                                           *)

\* The entries that have not retired are those in place slot + 1 and later.
LEMMA LiveIs ==
  ASSUME Types, slot <= get_size(rob)
  PROVE  /\ DOMAIN Live = 1 .. get_size(rob) - slot /\ get_size(rob) - slot \in Nat
         /\ Live \in Seq(RobId) /\ Len(Live) = get_size(rob) - slot
         /\ \A k \in DOMAIN Live : /\ Live[k] \in RobId /\ InRob(Live[k])
                                   /\ Age(Live[k]) = slot + k /\ Age(Live[k]) > slot
         /\ \A id \in RobId : InRob(id) /\ Age(id) > slot =>
              Age(id) - slot \in DOMAIN Live /\ Live[Age(id) - slot] = id
<1>1. /\ slot \in Nat /\ get_size(rob) \in 0 .. ROB_SIZE /\ ROB_SIZE \in Nat \ {0}
      /\ SizeOf(rob) = ROB_SIZE /\ rob.rptr \in 0 .. ROB_SIZE - 1
  BY Ages, Sizes, ShapeFacts DEF Types
<1>2. PICK n \in Nat : n = get_size(rob) - slot /\ n <= ROB_SIZE - slot
  BY <1>1
<1>3. Live = [i \in 1 .. n |-> (rob.rptr + slot + i - 1) % ROB_SIZE]
  BY <1>2 DEF Live
<1>4. ASSUME NEW k \in 1 .. n
      PROVE  Live[k] = Place(rob, slot + k)
  <2> DEFINE x == rob.rptr + slot + k - 1
             y == rob.rptr + (slot + k) - 1
  <2>1. x = y
    BY <1>1
  <2>2. Live[k] = x % ROB_SIZE
    BY <1>3
  <2>3. Place(rob, slot + k) = y % ROB_SIZE
    BY <1>1 DEF Place
  <2> HIDE DEF x, y
  <2> QED
    BY <2>1, <2>2, <2>3
<1>5. DOMAIN Live = 1 .. n
  BY <1>3
<1>6. ASSUME NEW k \in 1 .. n
      PROVE  Live[k] \in RobId /\ InRob(Live[k]) /\ Age(Live[k]) = slot + k /\ Age(Live[k]) > slot
  <2>1. slot + k \in 1 .. ROB_SIZE /\ slot + k <= get_size(rob) /\ slot + k > slot
    BY <1>1, <1>2
  <2>2. Place(rob, slot + k) \in RobId /\ Age(Place(rob, slot + k)) = slot + k
    BY <2>1, Ages
  <2> QED
    BY <1>4, <2>1, <2>2 DEF InRob
<1>7. ASSUME NEW id \in RobId, InRob(id), Age(id) > slot
      PROVE  Age(id) - slot \in 1 .. n /\ Live[Age(id) - slot] = id
  <2>1. Age(id) \in 1 .. ROB_SIZE /\ Place(rob, Age(id)) = id /\ Age(id) <= get_size(rob)
    BY <1>7, Ages DEF InRob
  <2>2. PICK k \in 1 .. n : k = Age(id) - slot /\ slot + k = Age(id)
    BY <1>1, <1>2, <1>7, <2>1
  <2> QED
    BY <1>4, <2>1, <2>2
<1>8. Live \in Seq(RobId) /\ Len(Live) = n
  <2> DEFINE f == [i \in 1 .. n |-> Live[i]]
  <2>1. Live = f
    BY <1>3
  <2>2. \A i \in 1 .. n : Live[i] \in RobId
    BY <1>6
  <2>3. f \in Seq(RobId) /\ Len(f) = n
    BY <2>2
  <2> QED
    BY <2>1, <2>3
<1> QED
  BY <1>2, <1>5, <1>6, <1>7, <1>8

LEMMA LiveSet ==
  ASSUME Types, slot <= get_size(rob)
  PROVE  ToSet(Live) = {id \in RobId : InRob(id) /\ Age(id) > slot}
<1>1. ToSet(Live) = {Live[k] : k \in DOMAIN Live}
  BY DEF ToSet
<1>2. ASSUME NEW id \in ToSet(Live)
      PROVE  id \in RobId /\ InRob(id) /\ Age(id) > slot
  <2>1. PICK k \in DOMAIN Live : id = Live[k]
    BY <1>1
  <2> QED
    BY <2>1, LiveIs
<1>3. ASSUME NEW id \in RobId, InRob(id), Age(id) > slot
      PROVE  id \in ToSet(Live)
  <2>1. PICK k \in DOMAIN Live : id = Live[k]
    BY <1>3, LiveIs
  <2> QED
    BY <1>1, <2>1
<1> QED
  BY <1>2, <1>3

LEMMA PendingAreLive ==
  ASSUME IInv
  PROVE  UncommittedAreLive
<1> SUFFICES ASSUME ~walking, ~flush_feedback
             PROVE  LET uncommitted == {i \in DOMAIN Buffered : ~Named(Buffered[i]).committed}
                    IN  /\ {Buffered[i].rob_id : i \in uncommitted} = {id \in ToSet(Live) : Executed(id)}
                        /\ \A i, j \in uncommitted :
                             i < j => \E k, l \in DOMAIN Live : /\ Live[k] = Buffered[i].rob_id
                                                               /\ Live[l] = Buffered[j].rob_id /\ k < l
  BY DEF UncommittedAreLive, Buffered
<1> DEFINE uncommitted == {i \in DOMAIN Buffered : ~Named(Buffered[i]).committed}
<1>1. Straight /\ Types /\ InFlight /\ PendingStores
  BY DEF IInv, Straight
<1>2. slot <= get_size(rob) /\ slot \in Nat
  BY <1>1, Ages DEF InFlight, Retiring
<1>3. \A i \in DOMAIN Buffered : i \in uncommitted <=> Pending(Buffered[i])
  BY DEF Pending
<1>4. uncommitted \subseteq DOMAIN Buffered /\ \A i \in DOMAIN Buffered : Buffered[i].rob_id \in RobId
  BY <1>1, BufferedItem
<1> HIDE DEF uncommitted
<1>5. \A i \in uncommitted : LET id == Buffered[i].rob_id
                             IN  id \in RobId /\ InRob(id) /\ Age(id) > slot /\ Executed(id)
  BY <1>1, <1>3, <1>4 DEF PendingStores, PendingRight
<1>6. {Buffered[i].rob_id : i \in uncommitted} = {id \in ToSet(Live) : Executed(id)}
  <2>1. ASSUME NEW i \in uncommitted
        PROVE  Buffered[i].rob_id \in {id \in ToSet(Live) : Executed(id)}
    BY <1>1, <1>2, <1>5, LiveSet
  <2>2. ASSUME NEW id \in ToSet(Live), Executed(id)
        PROVE  \E i \in uncommitted : Buffered[i].rob_id = id
    <3>1. id \in RobId /\ InRob(id) /\ Age(id) > slot
      BY <1>1, <1>2, LiveSet
    <3> QED
      BY <1>1, <1>3, <2>2, <3>1 DEF PendingStores, ExecutedPending
  <2> QED
    BY <2>1, <2>2
<1>7. ASSUME NEW i \in uncommitted, NEW j \in uncommitted, i < j
      PROVE  \E k, l \in DOMAIN Live : Live[k] = Buffered[i].rob_id /\ Live[l] = Buffered[j].rob_id /\ k < l
  <2>1. PICK a : a = Buffered[i].rob_id
    OBVIOUS
  <2>2. PICK b : b = Buffered[j].rob_id
    OBVIOUS
  <2>3. /\ a \in RobId /\ InRob(a) /\ Age(a) > slot
        /\ b \in RobId /\ InRob(b) /\ Age(b) > slot
    BY <1>5, <2>1, <2>2
  <2>4. Age(a) < Age(b)
    BY <1>1, <1>3, <1>4, <1>7, <2>1, <2>2 DEF PendingStores, PendingOrdered
  <2>5. /\ Age(a) - slot \in DOMAIN Live /\ Live[Age(a) - slot] = a
        /\ Age(b) - slot \in DOMAIN Live /\ Live[Age(b) - slot] = b
    BY <1>1, <1>2, <2>3, LiveIs
  <2>6. Age(a) \in Nat /\ Age(b) \in Nat
    BY <1>1, <2>3, Ages
  <2>7. Age(a) - slot < Age(b) - slot
    BY <1>2, <2>4, <2>6
  <2> QED
    BY <2>1, <2>2, <2>5, <2>7
<1> QED
  BY <1>6, <1>7 DEF uncommitted

(***************************************************************************)
(* The stores of the buffer that have not retired are, in order, those the *)
(* unit has executed of the instructions in the reorder buffer: no flush   *)
(* leaves one behind to be committed under a reused identifier, and none   *)
(* is cut off that its instruction counts on (store_buffer.h:337-490).     *)
(***************************************************************************)
THEOREM StoresAreLive == Spec => []UncommittedAreLive
<1>1. IInv => UncommittedAreLive
  BY PendingAreLive
<1> QED
  BY <1>1, InvariantHolds, PTL

\* The instructions on their way to the unit have different places.
LEMMA QueueFits ==
  ASSUME IInv, Straight
  PROVE  Len(issue_q) <= ROB_SIZE
<1>1. Types /\ InFlight
  BY DEF IInv
<1>2. Len(Waiting) \in Nat /\ DOMAIN Waiting = 1 .. Len(Waiting)
      /\ \A k \in DOMAIN Waiting : Waiting[k].id \in RobId
  BY <1>1, WaitingSeq
<1>3. \A id \in RobId : Age(id) \in 1 .. ROB_SIZE
  BY <1>1, Ages, SMTT(60)
<1>4. PICK n \in Nat : n = Len(Waiting)
  BY <1>2
<1> DEFINE P == {k \in Nat : k = 0 \/ Age(Waiting[k].id) >= k}
<1>5. \A k \in 0 .. n - 1 : k \in P => k + 1 \in P
  <2> SUFFICES ASSUME NEW k \in 0 .. n - 1, k \in P
               PROVE  k + 1 \in P
    OBVIOUS
  <2>1. PICK m \in 1 .. n : m = k + 1
    BY <1>4
  <2>2. Age(Waiting[m].id) \in 1 .. ROB_SIZE
    BY <1>2, <1>3, <1>4, <2>1
  <2>3. CASE k = 0
    BY <2>1, <2>2, <2>3, Sizes
  <2>4. CASE k # 0
    <3>1. k \in DOMAIN Waiting /\ m \in DOMAIN Waiting /\ k < m
      BY <1>2, <1>4, <2>1, <2>4
    <3>2. Age(Waiting[k].id) < Age(Waiting[m].id) /\ Age(Waiting[k].id) >= k
          /\ Age(Waiting[k].id) \in 1 .. ROB_SIZE
      BY <1>1, <1>2, <1>3, <2>4, <3>1 DEF InFlight, PacksOrdered
    <3>3. Age(Waiting[m].id) >= m
      BY <2>1, <2>2, <3>2, Sizes
    <3> QED
      BY <2>1, <3>3
  <2> QED
    BY <2>3, <2>4
<1>6. 0 \in P
  OBVIOUS
<1>7. n \in P
  <2> HIDE DEF P
  <2>1. 0 .. n \subseteq P
    BY <1>5, <1>6, UpTo
  <2> QED
    BY <2>1
<1>8. n <= ROB_SIZE
  <2>1. CASE n = 0
    BY <2>1, Sizes
  <2>2. CASE n # 0
    <3>1. Age(Waiting[n].id) \in 1 .. ROB_SIZE /\ Age(Waiting[n].id) >= n
      BY <1>2, <1>3, <1>4, <1>7, <2>2
    <3> QED
      BY <3>1, Sizes
  <2> QED
    BY <2>1, <2>2
<1>9. /\ hold_rev_pack \in Seq(Pack) /\ issue_q \in Seq(Pack)
      /\ Len(hold_rev_pack) \in Nat /\ Len(issue_q) \in Nat
  BY <1>1 DEF Types
<1>10. n = Len(hold_rev_pack) + Len(issue_q)
  BY <1>4, <1>9 DEF Waiting
<1> QED
  BY <1>8, <1>9, <1>10, Sizes

\* A flush leaves the queue of issue as it is until the units are reset.
LEMMA QueueStep ==
  ASSUME IInv, IInv', Len(issue_q) <= ROB_SIZE, [Next]_vars
  PROVE  Straight' \/ (Len(issue_q) <= ROB_SIZE)'
<1>1. CASE Straight'
  BY <1>1
<1>2. CASE issue_q' = issue_q
  BY <1>2
<1>3. CASE issue_q' = << >>
  BY <1>3, Sizes
<1>4. ASSUME ~Straight', issue_q' # issue_q
      PROVE  issue_q' = << >>
  <2>1. stage' # "lsu"
    BY <1>4 DEF Next, vars, units, Interrupt, Exception, Retire, Mispredict, StartWalkBack,
       CommitInput, WalkBack, NothingIssued, RaiseException, Load, Store, LsuTurn, FlushUnits,
       UnitsFlushedTo, OtherAnswer, Rename, Run, RunFlush, EndOfCycle
  <2>2. Waiting' = << >>
    BY <1>4, <2>1 DEF IInv, Turns
  <2>3. issue_q' \in Seq(Pack) /\ hold_rev_pack' \in Seq(Pack)
    BY DEF IInv, Types
  <2>4. PICK p \in Seq(Pack) : p = hold_rev_pack'
    BY <2>3
  <2>5. PICK q \in Seq(Pack) : q = issue_q'
    BY <2>3
  <2>6. p \o q = << >>
    BY <2>2, <2>4, <2>5 DEF Waiting
  <2>7. Len(p \o q) = Len(p) + Len(q) /\ Len(p) \in Nat /\ Len(q) \in Nat /\ Len(p \o q) = 0
    BY <2>6
  <2>8. Len(q) = 0
    BY <2>7
  <2> QED
    BY <2>5, <2>8
<1> QED
  BY <1>1, <1>2, <1>3, <1>4

LEMMA TypesFit ==
  ASSUME IInv, Len(issue_q) <= ROB_SIZE
  PROVE  TypeOK
<1>1. /\ Types /\ RobId = 0 .. ROB_SIZE - 1
      /\ ROB_SIZE \in Nat \ {0} /\ STORE_BUFFER_SIZE \in Nat \ {0}
  BY Sizes DEF IInv
<1>2. /\ store_buffer.wptr \in 0 .. STORE_BUFFER_SIZE - 1
      /\ store_buffer.slots \in [1 .. STORE_BUFFER_SIZE -> Item \cup {Dead}]
      /\ rob.wptr \in RobId /\ rob.slots \in [1 .. ROB_SIZE -> Entry \cup {Dead}]
  BY <1>1, ShapeFacts DEF Types
<1>3. ASSUME NEW id \in 0 .. STORE_BUFFER_SIZE - 1, get_item(store_buffer, id) # Dead
      PROVE  get_item(store_buffer, id).rob_id \in RobId
             /\ get_item(store_buffer, id).committed \in BOOLEAN
  <2>1. id + 1 \in 1 .. STORE_BUFFER_SIZE
    BY <1>1
  <2>2. get_item(store_buffer, id) \in Item
    BY <1>2, <1>3, <2>1 DEF get_item
  <2> QED
    BY <2>2 DEF Item
<1>4. ASSUME NEW id \in RobId, get_item(rob, id) # Dead
      PROVE  get_item(rob, id).op \in Op
             /\ get_item(rob, id).finish \in {"no", "ok", "exception", "miss"}
  <2>1. id + 1 \in 1 .. ROB_SIZE
    BY <1>1
  <2>2. get_item(rob, id) \in Entry
    BY <1>2, <1>4, <2>1 DEF get_item
  <2> QED
    BY <2>2 DEF Entry
<1> QED
  BY <1>1, <1>2, <1>3, <1>4 DEF Types, TypeOK

(***************************************************************************)
(* The types, and that what lies between rename and the load-store unit is *)
(* bounded by the reorder buffer, whatever flushes come (lsu.cpp:235-247). *)
(***************************************************************************)
THEOREM TypeCorrect == Spec => []TypeOK
<1> DEFINE Bound == Len(issue_q) <= ROB_SIZE
<1>1. Init => Bound
  BY Sizes DEF Init
<1>2. IInv /\ IInv' /\ Bound /\ [Next]_vars => Straight' \/ Bound'
  BY QueueStep
<1>3. IInv /\ Bound => TypeOK
  BY TypesFit
<1>4. IInv /\ Straight => Bound
  BY QueueFits
<1> HIDE DEF Bound
<1> QED
  BY <1>1, <1>2, <1>3, <1>4, InvariantHolds, PTL DEF Spec

-----------------------------------------------------------------------------
(* The refinement of SequentialMemory: what the state maps to.             *)

\* The stores of the buffer that are retired or retiring.
Retired == {i \in DOMAIN Items : ~Pending(Items[i])}

\* An entry, as SequentialMemory sees it.
Seen(id) == [op |-> Ent(id).op, value |-> AnswerTo(id).value,
             failed |-> AnswerTo(id).result = "exception"]

\* Memory once what has retired has drained.
Overwritten == [a \in Addr |-> Youngest(Items, Retired, a, memory[a])]

LEMMA DrainedIs == Drained = Overwritten
<1> DEFINE W(a) == {i \in Retired : a \in Span(Items[i])}
<1>1. Retired = {i \in DOMAIN Items : Named(Items[i]).committed}
  BY DEF Retired, Pending
<1>2. Drained = [a \in Addr |-> IF W(a) = {} THEN memory[a]
                                ELSE Items[Max(W(a))].data[a - Items[Max(W(a))].addr]]
  BY <1>1, Zenon DEF Drained
<1>3. \A a : W(a) = Covering(Items, Retired, a)
  BY DEF Covering
<1>4. \A a : (IF W(a) = {} THEN memory[a]
              ELSE Items[Max(W(a))].data[a - Items[Max(W(a))].addr])
             = Youngest(Items, Retired, a, memory[a])
  BY <1>3, Zenon DEF Youngest
<1> QED
  BY <1>2, <1>4 DEF Overwritten

LEMMA DrainedNext ==
  \A items, retired, old :
    items = Items' /\ retired = Retired' /\ old = memory' =>
      Drained' = [a \in Addr |-> Youngest(items, retired, a, old[a])]
<1>1. Drained = Overwritten
  BY DrainedIs
<1>2. (Drained = Overwritten)'
  BY <1>1, PTL
<1> QED
  BY <1>2 DEF Overwritten

LEMMA UnretiredIs == Unretired = [k \in DOMAIN Live |-> Seen(Live[k])]
BY DEF Unretired, Seen, Ent

LEMMA UnretiredNext == \A f : f = Live' => Unretired' = [k \in DOMAIN f |-> Seen(f[k])']
<1>1. TAKE f
<1>2. HAVE f = Live'
<1> QED
  BY <1>2 DEF Unretired, Seen, Ent, AnswerTo

\* Retirement is a prefix of the buffer.
LEMMA RetiredIs ==
  ASSUME NEW n \in Nat, DOMAIN Items = 1 .. n, NEW c \in 0 .. n,
         \A i \in 1 .. n : Pending(Items[i]) <=> i > c
  PROVE  Retired = 1 .. c
BY DEF Retired

LEMMA RetiredNext ==
  ASSUME NEW n \in Nat, DOMAIN Items' = 1 .. n, NEW c \in 0 .. n,
         \A i \in 1 .. n : \A x : x = Items'[i] => (Pending(x)' <=> i > c)
  PROVE  Retired' = 1 .. c
<1>1. PICK f : f = Items'
  OBVIOUS
<1>2. Retired' = {i \in DOMAIN f : ~Pending(f[i])'}
  BY <1>1 DEF Retired, Pending, Named
<1>3. \A i \in 1 .. n : Pending(f[i])' <=> i > c
  BY <1>1
<1> QED
  BY <1>1, <1>2, <1>3

LEMMA KeptSplits ==
  ASSUME IInv
  PROVE  /\ Kept \in 0 .. Len(Items) /\ Len(Items) \in Nat /\ DOMAIN Items = 1 .. Len(Items)
         /\ \A i \in DOMAIN Items : Buffered[i] = Items[i] /\ i \in DOMAIN Buffered
         /\ \A i \in DOMAIN Buffered : i \in Nat /\ (Pending(Buffered[i]) <=> i > Kept)
         /\ Retired = 1 .. Kept
<1>1. Types /\ Turns /\ CommittedFirst
  BY DEF IInv
<1>2. /\ Kept \in 0 .. Len(Items) /\ \A i \in 1 .. Kept : ~Pending(Items[i])
      /\ Kept < Len(Items) => Pending(Items[Kept + 1])
  BY <1>1, KeptIs
<1>3. /\ Items \in Seq(Item) /\ push_q \in Seq(Item) /\ Len(push_q) <= 1
      /\ Len(Items) \in Nat /\ DOMAIN Items = 1 .. Len(Items)
      /\ Buffered = Items \o push_q
      /\ DOMAIN Buffered = 1 .. Len(Items) + Len(push_q) /\ Len(push_q) \in Nat
  BY <1>1, BufferedSeq, SMTT(60) DEF Types, Buffered
<1>4. PICK n \in Nat : n = Len(Items)
  BY <1>3
<1>5. \A i \in 1 .. n : Buffered[i] = Items[i] /\ i \in DOMAIN Buffered
  BY <1>3, <1>4
<1>6. ASSUME NEW i \in DOMAIN Buffered, i > n
      PROVE  Pending(Buffered[i])
  <2>1. push_q # << >> /\ Len(push_q) = 1 /\ i = n + 1
    <3>1. PICK m \in Nat : m = Len(push_q) /\ m <= 1 /\ DOMAIN Buffered = 1 .. n + m
      BY <1>3, <1>4
    <3>2. m = 1 /\ i = n + 1
      BY <1>6, <3>1
    <3>3. Len(push_q) = 1
      BY <3>1, <3>2
    <3>4. push_q # << >>
      BY <3>3
    <3> QED
      BY <3>2, <3>3, <3>4
  <2>2. PICK x \in Item : push_q = <<x>>
    BY <1>3, <2>1, PortIs
  <2>3. Head(push_q) = x /\ push_q[1] = x /\ 1 \in DOMAIN push_q
    BY <2>2
  <2>4. x.rob_id \notin committed_rob_id /\ ~x.committed /\ committed_rob_id \subseteq RobId
    BY <1>1, <2>1, <2>3 DEF Turns, Types
  <2>5. Buffered[i] = x
    BY <1>3, <1>4, <2>1, <2>2
  <2>6. Named(x) = x
    BY <2>4, NamedIs
  <2> QED
    BY <2>4, <2>5, <2>6 DEF Pending
<1>7. ASSUME NEW i \in DOMAIN Buffered
      PROVE  i \in Nat /\ (Pending(Buffered[i]) <=> i > Kept)
  <2>1. i \in Nat /\ i >= 1
    BY <1>3
  <2>2. CASE i <= Kept
    <3>1. i \in 1 .. n /\ i \in 1 .. Kept
      BY <1>2, <1>4, <2>1, <2>2
    <3> QED
      BY <1>2, <1>5, <2>1, <2>2, <3>1
  <2>3. CASE i > n
    <3>1. i > Kept
      BY <1>2, <1>4, <2>1, <2>3
    <3> QED
      BY <1>6, <2>1, <2>3, <3>1
  <2>4. CASE i > Kept /\ i <= n
    <3>1. PICK k \in 1 .. n : k = Kept + 1 /\ Kept < Len(Items) /\ (i = k \/ k < i)
      BY <1>2, <1>4, <2>1, <2>4
    <3>2. Pending(Items[k])
      BY <1>2, <3>1
    <3>3. k \in DOMAIN Buffered /\ Pending(Buffered[k])
      BY <1>5, <3>2, SMTT(60)
    <3> QED
      BY <1>1, <2>1, <2>4, <3>1, <3>3 DEF CommittedFirst
  <2> QED
    BY <1>2, <1>4, <2>1, <2>2, <2>3, <2>4
<1>8. Retired = 1 .. Kept
  <2>1. \A i \in 1 .. n : Pending(Items[i]) <=> i > Kept
    BY <1>5, <1>7
  <2> QED
    BY <1>2, <1>3, <1>4, <2>1, RetiredIs
<1> QED
  BY <1>2, <1>3, <1>4, <1>5, <1>7, <1>8

LEMMA SlotFits ==
  ASSUME IInv
  PROVE  /\ slot <= get_size(rob) /\ slot \in Nat /\ Types /\ get_size(rob) \in Nat
         /\ ~Straight => Live = << >> /\ get_size(rob) = 0 /\ slot = 0
<1>1. Types /\ slot \in Nat /\ get_size(rob) \in Nat
  BY Ages DEF IInv
<1>2. CASE Straight
  BY <1>1, <1>2 DEF IInv, InFlight, Retiring
<1>3. CASE ~Straight
  <2>1. slot = 0 /\ get_size(rob) = 0
    BY <1>3 DEF IInv, Turns
  <2>2. slot <= get_size(rob)
    BY <2>1
  <2>3. Live = << >>
    <3>1. Live \in Seq(RobId) /\ Len(Live) = get_size(rob) - slot
      BY <1>1, <2>2, LiveIs
    <3>2. Len(Live) = 0
      BY <2>1, <3>1
    <3> QED
      BY <3>1, <3>2
  <2> QED
    BY <1>1, <2>1, <2>2, <2>3
<1> QED
  BY <1>1, <1>2, <1>3

\* The pointers of the reorder buffer are as they were.
LEMMA SameLive ==
  ASSUME get_size(rob)' = get_size(rob), rob.rptr' = rob.rptr, slot' = slot
  PROVE  Live' = Live
BY DEF Live

\* Neither memory nor what has retired changes.
LEMMA SameDrained ==
  ASSUME UNCHANGED stores,
         \A i \in DOMAIN Items : \A x : x = Items[i] => (Pending(x)' <=> Pending(x))
  PROVE  Drained' = Drained
<1>1. PICK f : f = Items /\ f = Items'
  BY DEF Items, stores
<1>2. /\ Retired' = {i \in DOMAIN f : ~Pending(f[i])'}
      /\ Retired = {i \in DOMAIN f : ~Pending(f[i])}
  BY <1>1 DEF Retired, Pending, Named
<1>3. \A i \in DOMAIN f : Pending(f[i])' <=> Pending(f[i])
  BY <1>1
<1>4. Retired' = Retired
  BY <1>2, <1>3
<1>5. memory' = memory
  BY DEF stores
<1>6. Drained' = [a \in Addr |-> Youngest(f, Retired, a, memory[a])]
  BY <1>1, <1>4, <1>5, DrainedNext
<1>7. Drained = [a \in Addr |-> Youngest(f, Retired, a, memory[a])]
  BY <1>1, DrainedIs DEF Overwritten
<1> QED
  BY <1>6, <1>7

LEMMA SameCommitted ==
  ASSUME UNCHANGED stores, committed_rob_id' = committed_rob_id
  PROVE  Drained' = Drained
<1>1. \A x : Pending(x)' <=> Pending(x)
  BY DEF Pending, Named
<1> QED
  BY <1>1, SameDrained

LEMMA PendingIs ==
  ASSUME NEW x \in Item
  PROVE  /\ Pending(x) <=> ~(x.committed \/ x.rob_id \in committed_rob_id)
         /\ Pending(x)' <=> ~(x.committed \/ x.rob_id \in committed_rob_id')
<1>1. /\ x \in [rob_id : RobId, addr : Addr, size : Length, data : Bytes, committed : BOOLEAN]
      /\ x.committed \in BOOLEAN
  BY DEF Item
<1>2. ASSUME NEW b \in BOOLEAN
      PROVE  [x EXCEPT !.committed = b].committed = b
  BY <1>1
<1>3. PICK c \in BOOLEAN : c = (x.committed \/ x.rob_id \in committed_rob_id)
  BY Zenon
<1>4. PICK d \in BOOLEAN : d = (x.committed \/ x.rob_id \in committed_rob_id')
  BY Zenon
<1>5. Named(x) = [x EXCEPT !.committed = c] /\ Named(x)' = [x EXCEPT !.committed = d]
  BY <1>3, <1>4 DEF Named
<1>6. Named(x).committed = c /\ Named(x)'.committed = d
  BY <1>2, <1>5
<1> QED
  BY <1>3, <1>4, <1>6 DEF Pending

\* Nothing that SequentialMemory sees of the instructions changes.
LEMMA SameUnretired ==
  ASSUME Live' = Live, \A k \in DOMAIN Live : \A id : id = Live[k] => Seen(id)' = Seen(id)
  PROVE  Unretired' = Unretired
<1>1. PICK f : f = Live'
  OBVIOUS
<1>2. Unretired' = [k \in DOMAIN f |-> Seen(f[k])']
  BY <1>1, UnretiredNext
<1>3. \A k \in DOMAIN f : Seen(f[k])' = Seen(f[k])
  BY <1>1
<1>4. Unretired = [k \in DOMAIN f |-> Seen(f[k])]
  BY <1>1, UnretiredIs
<1> QED
  BY <1>2, <1>3, <1>4

\* One of them changes.
LEMMA OneUnretired ==
  ASSUME Types, slot <= get_size(rob), Live' = Live,
         NEW h \in RobId, InRob(h), Age(h) > slot, NEW j, j = Age(h) - slot,
         \A k \in DOMAIN Live : \A id : id = Live[k] /\ id # h => Seen(id)' = Seen(id)
  PROVE  /\ j \in DOMAIN Unretired /\ Unretired[j] = Seen(h) /\ Live[j] = h
         /\ Unretired' = [Unretired EXCEPT ![j] = Seen(h)']
<1>1. PICK f : f = Live /\ f = Live'
  OBVIOUS
<1>2. /\ Unretired' = [k \in DOMAIN f |-> Seen(f[k])']
      /\ Unretired = [k \in DOMAIN f |-> Seen(f[k])]
  BY <1>1, UnretiredIs, UnretiredNext
<1>3. j \in DOMAIN f /\ f[j] = h
  BY <1>1, LiveIs
<1>4. ASSUME NEW k \in DOMAIN f, k # j
      PROVE  f[k] # h
  <2>1. Age(f[k]) = slot + k /\ k \in 1 .. get_size(rob) - slot /\ slot \in Nat /\ get_size(rob) \in Nat
    BY <1>1, LiveIs, Ages
  <2>2. Age(h) \in Nat
    BY Ages
  <2>3. slot + k # Age(h)
    BY <1>4, <2>1, <2>2
  <2> QED
    BY <2>1, <2>3
<1>5. \A k \in DOMAIN f : Seen(f[k])' = IF k = j THEN Seen(h)' ELSE Seen(f[k])
  <2> SUFFICES ASSUME NEW k \in DOMAIN f
               PROVE  Seen(f[k])' = IF k = j THEN Seen(h)' ELSE Seen(f[k])
    OBVIOUS
  <2>1. CASE k = j
    BY <1>3, <2>1
  <2>2. CASE k # j
    <3>1. PICK id : id = f[k]
      OBVIOUS
    <3>2. id # h
      BY <1>4, <2>2, <3>1
    <3> QED
      BY <1>1, <2>2, <3>1, <3>2
  <2> QED
    BY <2>1, <2>2
<1> QED
  BY <1>1, <1>2, <1>3, <1>5

-----------------------------------------------------------------------------
(* The refinement: commit.                                                 *)

LEMMA Stutters ==
  ASSUME Drained' = Drained, Unretired' = Unretired
  PROVE  [S!Next]_(S!vars)
BY DEF S!vars

LEMMA EmptyMap ==
  ASSUME NEW f, DOMAIN f = {}, f = [k \in DOMAIN f |-> f[k]]
  PROVE  f = << >>
<1>1. f = [k \in 1 .. 0 |-> f[k]]
  <2>1. DOMAIN f = 1 .. 0
    OBVIOUS
  <2> QED
    BY <2>1
<1>2. f \in Seq({}) /\ Len(f) = 0
  BY <1>1
<1> QED
  BY <1>2

LEMMA NothingUnretired ==
  /\ (Live = << >> => Unretired = << >>)
  /\ (get_size(rob)' = 0 /\ slot' = 0 => Unretired' = << >>)
<1>1. ASSUME Live = << >>
      PROVE  Unretired = << >>
  <2>1. DOMAIN Live = {}
    BY <1>1
  <2>2. PICK f : f = Unretired
    OBVIOUS
  <2>3. DOMAIN f = {} /\ f = [k \in DOMAIN f |-> f[k]]
    BY <2>1, <2>2, UnretiredIs
  <2> QED
    BY <2>2, <2>3, EmptyMap
<1>2. ASSUME get_size(rob)' = 0, slot' = 0
      PROVE  Unretired' = << >>
  <2>1. PICK g : g = Live'
    OBVIOUS
  <2>2. DOMAIN g = 1 .. get_size(rob)' - slot'
    BY <2>1 DEF Live
  <2>3. DOMAIN g = {}
    BY <1>2, <2>2
  <2>4. PICK f : f = Unretired'
    OBVIOUS
  <2>5. DOMAIN f = {} /\ f = [k \in DOMAIN f |-> f[k]]
    BY <2>1, <2>3, <2>4, UnretiredNext
  <2> QED
    BY <2>4, <2>5, EmptyMap
<1> QED
  BY <1>1, <1>2

LEMMA FlushMaps ==
  ASSUME IInv, Looking, rob' = flush(rob), slot' = 0, UNCHANGED stores,
         \/ committed_rob_id' = committed_rob_id
         \/ /\ committed_rob_id' = committed_rob_id \cup {current_id}
            /\ rob_item.finish \in {"exception", "miss"}
  PROVE  S!Flush
<1>1. /\ Types /\ InFlight /\ PendingStores
      /\ rob_item.finish # "no" => AnswerTo(current_id).result = rob_item.finish
  BY LookingFacts
<1>2. get_size(rob)' = 0
  <2>1. rob \in Rings(ROB_SIZE, Entry) /\ ROB_SIZE \in Nat \ {0}
    BY <1>1, Sizes DEF Types
  <2>2. get_size(flush(rob)) = 0
    BY <2>1, FlushRing
  <2> QED
    BY <2>2
<1>3. Unretired' = << >>
  BY <1>2, NothingUnretired
<1>4. ASSUME NEW i \in DOMAIN Items, NEW x, x = Items[i]
      PROVE  Pending(x)' <=> Pending(x)
  <2>1. x \in Item /\ Buffered[i] = x /\ i \in DOMAIN Buffered
    BY <1>1, <1>4, KeptSplits, BufferedItem
  <2>2. ASSUME Pending(x), x.rob_id = current_id
        PROVE  rob_item.finish = "ok" \/ rob_item.finish = "no"
    <3>1. Executed(current_id)
      BY <1>1, <2>1, <2>2 DEF PendingStores, PendingRight
    <3> QED
      BY <1>1, <3>1 DEF Executed
  <2> QED
    BY <2>1, <2>2, PendingIs
<1>5. Drained' = Drained
  BY <1>4, SameDrained
<1> QED
  BY <1>3, <1>5 DEF S!Flush

LEMMA InterruptMaps == IInv /\ Interrupt => [S!Next]_(S!vars)
BY FlushMaps DEF Interrupt, StartWalkBack, S!Next

LEMMA ExceptionMaps == IInv /\ Exception => [S!Next]_(S!vars)
BY FlushMaps DEF Exception, StartWalkBack, S!Next

LEMMA MispredictMaps == IInv /\ Mispredict => [S!Next]_(S!vars)
BY FlushMaps DEF Mispredict, S!Next

LEMMA WalkBackMaps == IInv /\ (\E last \in BOOLEAN : WalkBack(last)) => [S!Next]_(S!vars)
<1> SUFFICES ASSUME IInv, NEW last \in BOOLEAN, WalkBack(last)
             PROVE  [S!Next]_(S!vars)
  OBVIOUS
<1>1. UNCHANGED <<stores, rob, lsu_wb_port, wb_commit_port, committed_rob_id, slot>>
  BY DEF WalkBack, units
<1>2. Live' = Live /\ \A id : Seen(id)' = Seen(id)
  BY <1>1 DEF Live, Seen, AnswerTo, Ent
<1>3. Drained' = Drained /\ Unretired' = Unretired
  BY <1>1, <1>2, SameCommitted, SameUnretired
<1> QED
  BY <1>3, Stutters

LEMMA CommitInputMaps == IInv /\ CommitInput => [S!Next]_(S!vars)
<1> SUFFICES ASSUME IInv, CommitInput
             PROVE  [S!Next]_(S!vars)
  OBVIOUS
<1>1. /\ rob' = IF wb_commit_port = << >> THEN rob ELSE TakenIn(Head(wb_commit_port))
      /\ wb_commit_port' = << >> /\ stage = "commit" /\ ~walking
      /\ UNCHANGED <<stores, lsu_wb_port, committed_rob_id, slot>>
  BY DEF CommitInput, units, commit
<1>2. Types /\ Turns
  BY DEF IInv
<1>3. Straight
  BY <1>1, <1>2 DEF Turns, Straight
<1>4. AnswersRight /\ EntriesFit
  BY <1>3 DEF IInv, InFlight
<1>5. IInv'
  BY CommitInputOK
<1>6. Types'
  BY <1>5 DEF IInv
<1>7. /\ get_size(rob)' = get_size(rob)
      /\ \A id \in RobId : InRob(id) => Ent(id)'.op = Ent(id).op
  BY <1>1, <1>2, <1>4, TakenInRob
<1>8. rob.rptr' = rob.rptr
  <2>1. rob = [slots |-> rob.slots, rptr |-> rob.rptr, wptr |-> rob.wptr, wrapped |-> rob.wrapped]
    BY <1>2, Sizes, ShapeFacts DEF Types
  <2>2. \A id, e : set_item(rob, id, e).rptr = rob.rptr
    BY <2>1 DEF set_item
  <2> QED
    BY <1>1, <2>2 DEF TakenIn
<1>9. Live' = Live
  BY <1>1, <1>7, <1>8, SameLive
<1>10. ASSUME NEW k \in DOMAIN Live, NEW id, id = Live[k]
       PROVE  Seen(id)' = Seen(id)
  <2>1. id \in RobId /\ InRob(id)
    BY <1>10, LiveIs, SlotFits
  <2>2. AnswerTo(id)'.result = AnswerTo(id).result /\ AnswerTo(id)'.value = AnswerTo(id).value
    BY <1>1, <1>2, <1>4, <1>6, <2>1, TakenInAnswers
  <2>3. Ent(id)'.op = Ent(id).op
    BY <1>7, <2>1
  <2> QED
    BY <2>2, <2>3, Zenon DEF Seen
<1>11. Drained' = Drained /\ Unretired' = Unretired
  BY <1>1, <1>9, <1>10, SameCommitted, SameUnretired
<1> QED
  BY <1>11, Stutters

\* What SequentialMemory says of memory after some of the instructions.
Storing(k, a) == ~Unretired[k].failed /\ S!Writes(Unretired[k].op, a)

LEMMA AfterIs ==
  ASSUME NEW n \in Nat, NEW a \in Addr
  PROVE  /\ S!MemoryAfter(n) = [b \in Addr |-> S!MemoryAfter(n)[b]]
         /\ (\A k \in 1 .. n : ~Storing(k, a)) => S!MemoryAfter(n)[a] = Drained[a]
         /\ \A m \in 1 .. n : Storing(m, a) /\ (\A k \in 1 .. n : Storing(k, a) => k <= m) =>
              S!MemoryAfter(n)[a] = Unretired[m].op.data[a - Unretired[m].op.addr]
<1> DEFINE W == {k \in 1 .. n : Storing(k, a)}
           Byte0 == IF W = {} THEN Drained[a]
                    ELSE S!StoredByte(Unretired[CHOOSE i \in W : \A j \in W : j <= i].op, a)
<1>1. S!MemoryAfter(n)[a] = Byte0
  BY Zenon DEF S!MemoryAfter, Storing
<1>2. S!MemoryAfter(n) = [b \in Addr |-> S!MemoryAfter(n)[b]]
  BY DEF S!MemoryAfter
<1>3. W = {} => S!MemoryAfter(n)[a] = Drained[a]
  BY <1>1
<1>4. ASSUME NEW m \in 1 .. n, Storing(m, a), \A k \in 1 .. n : Storing(k, a) => k <= m
      PROVE  S!MemoryAfter(n)[a] = Unretired[m].op.data[a - Unretired[m].op.addr]
  <2>1. m \in W /\ \A j \in W : j <= m
    BY <1>4
  <2>2. \A j \in W : j \in Nat
    OBVIOUS
  <2>3. PICK c : c = CHOOSE i \in W : \A j \in W : j <= i
    OBVIOUS
  <2> HIDE DEF W
  <2>4. c \in W /\ \A j \in W : j <= c
    BY <2>1, <2>3
  <2>5. c <= m /\ m <= c /\ c \in Nat /\ m \in Nat
    BY <2>1, <2>2, <2>4
  <2>6. c = m
    BY <2>5
  <2>7. S!MemoryAfter(n)[a] = S!StoredByte(Unretired[c].op, a)
    BY <1>1, <2>1, <2>3
  <2> QED
    BY <2>6, <2>7 DEF S!StoredByte
<1> QED
  BY <1>2, <1>3, <1>4

LEMMA UnretiredSeq ==
  ASSUME IInv
  PROVE  /\ DOMAIN Unretired = 1 .. Len(Unretired) /\ Len(Unretired) \in Nat
         /\ Len(Unretired) = get_size(rob) - slot /\ DOMAIN Live = DOMAIN Unretired
         /\ Unretired \in Seq({Seen(id) : id \in RobId})
         /\ \A k \in DOMAIN Unretired : Unretired[k] = Seen(Live[k])
<1>1. /\ Live \in Seq(RobId) /\ Len(Live) \in Nat /\ DOMAIN Live = 1 .. Len(Live)
      /\ Len(Live) = get_size(rob) - slot
  BY SlotFits, LiveIs
<1>2. PICK n \in Nat : n = Len(Live)
  BY <1>1
<1>3. PICK f : f = Unretired
  OBVIOUS
<1>4. f = [k \in 1 .. n |-> Seen(Live[k])]
  BY <1>1, <1>2, <1>3, UnretiredIs
<1>5. \A k \in 1 .. n : Seen(Live[k]) \in {Seen(id) : id \in RobId}
  BY <1>1, <1>2
<1>6. f \in Seq({Seen(id) : id \in RobId}) /\ Len(f) = n /\ DOMAIN f = 1 .. n
  BY <1>4, <1>5
<1> QED
  BY <1>1, <1>2, <1>3, <1>4, <1>6

LEMMA RetireMemory ==
  ASSUME IInv, Retire, NEW h, h = current_id
  PROVE  \/ Ent(h).op.kind # "store" /\ Drained' = Drained
         \/ /\ Ent(h).op.kind = "store"
            /\ \A a \in Addr :
                 Drained'[a] = IF a \in Ent(h).op.addr .. Ent(h).op.addr + Ent(h).op.size - 1
                               THEN Ent(h).op.data[a - Ent(h).op.addr] ELSE Drained[a]
            /\ Drained' = [a \in Addr |-> Drained'[a]]
<1>1. /\ Types /\ InFlight /\ PendingStores /\ push_q = << >>
      /\ h \in RobId /\ Age(h) = slot + 1 /\ InRob(h) /\ slot \in Nat
      /\ AnswerTo(h).result = "ok"
  BY LookingFacts DEF Retire
<1>2. UNCHANGED stores /\ committed_rob_id' = committed_rob_id \cup {h}
  BY DEF Retire
<1>3. /\ Kept \in 0 .. Len(Items) /\ Len(Items) \in Nat /\ DOMAIN Items = 1 .. Len(Items)
      /\ \A i \in DOMAIN Items : Buffered[i] = Items[i] /\ i \in DOMAIN Buffered
      /\ \A i \in DOMAIN Buffered : i \in Nat /\ (Pending(Buffered[i]) <=> i > Kept)
      /\ Retired = 1 .. Kept
  BY KeptSplits
<1>4. DOMAIN Buffered = DOMAIN Items
  BY <1>1, <1>3, BufferedSeq
<1>5. \A i \in DOMAIN Items : Items[i] \in Item /\ Items[i].rob_id \in RobId
                              /\ (Pending(Items[i]) <=> i > Kept)
  BY <1>1, <1>3, BufferedItem
<1>6. ASSUME NEW x \in Item
      PROVE  Pending(x)' <=> Pending(x) /\ x.rob_id # h
  BY <1>2, PendingIs
<1>7. CASE Ent(h).op.kind # "store"
  <2>1. ~Executed(h)
    BY <1>7 DEF Executed, Ent
  <2>2. ASSUME NEW i \in DOMAIN Items, NEW x, x = Items[i]
        PROVE  Pending(x)' <=> Pending(x)
    <3>1. Pending(x) => x.rob_id # h
      BY <1>1, <1>3, <2>1, <2>2 DEF PendingStores, PendingRight
    <3> QED
      BY <1>5, <1>6, <2>2, <3>1
  <2>3. Drained' = Drained
    BY <1>2, <2>2, SameDrained
  <2> QED
    BY <1>7, <2>3
<1>8. CASE Ent(h).op.kind = "store"
  <2>1. Executed(h) /\ Age(h) > slot
    BY <1>1, <1>8 DEF Executed, Ent
  <2>2. PICK i \in DOMAIN Items : Pending(Items[i]) /\ Items[i].rob_id = h
    BY <1>1, <1>3, <1>4, <2>1 DEF PendingStores, ExecutedPending
  <2>3. Matches(Items[i], Ent(h).op)
    BY <1>1, <1>3, <2>2 DEF PendingStores, PendingRight
  <2>4. \A k \in DOMAIN Items : Pending(Items[k]) =>
          Age(Items[k].rob_id) \in Nat /\ Age(Items[k].rob_id) > slot
    BY <1>1, <1>3, <1>5, Ages DEF PendingStores, PendingRight
  <2>5. \A k, l \in DOMAIN Items : k < l /\ Pending(Items[k]) /\ Pending(Items[l]) =>
          Age(Items[k].rob_id) < Age(Items[l].rob_id)
    BY <1>1, <1>3 DEF PendingStores, PendingOrdered
  <2>6. i = Kept + 1
    <3> SUFFICES ASSUME i # Kept + 1
                 PROVE  FALSE
      OBVIOUS
    <3>1. PICK k \in DOMAIN Items : k > Kept /\ k < i
      <4>1. Kept + 1 \in 1 .. Len(Items) /\ Kept + 1 > Kept /\ Kept + 1 < i
        BY <1>3, <1>5, <2>2
      <4> QED
        BY <1>3, <4>1
    <3>2. Pending(Items[k])
      BY <1>5, <3>1
    <3>3. Age(Items[k].rob_id) < slot + 1 /\ Age(Items[k].rob_id) > slot /\ Age(Items[k].rob_id) \in Nat
      BY <1>1, <2>2, <2>4, <2>5, <3>1, <3>2
    <3> QED
      BY <1>1, <3>3
  <2>7. PICK f : f = Items /\ f = Items'
    BY <1>2 DEF stores, Items
  <2>8. ASSUME NEW k \in 1 .. Len(Items), NEW x, x = f[k]
        PROVE  Pending(x)' <=> k > i
    <3>1. x \in Item /\ k \in DOMAIN Items /\ (Pending(x) <=> k > Kept)
      BY <1>3, <1>5, <2>7, <2>8
    <3>2. Pending(x)' <=> Pending(x) /\ x.rob_id # h
      BY <1>6, <3>1
    <3>3. k > i => x.rob_id # h
      <4>1. ASSUME k > i, x.rob_id = h
            PROVE  FALSE
        <5>1. Pending(Items[k])
          BY <1>3, <1>5, <2>6, <3>1, <4>1
        <5>2. Age(Items[i].rob_id) < Age(Items[k].rob_id)
          BY <1>3, <2>2, <2>5, <3>1, <4>1, <5>1
        <5>3. Age(h) < Age(h)
          BY <2>2, <2>7, <2>8, <4>1, <5>2
        <5> QED
          BY <1>1, <5>3
      <4> QED
        BY <4>1
    <3>4. k = i => x.rob_id = h
      BY <2>2, <2>7, <2>8
    <3>5. (k > i <=> k > Kept /\ k # i) /\ (k = i => k > Kept)
      BY <1>3, <2>6, <3>1, SMTT(60)
    <3> QED
      BY <3>1, <3>2, <3>3, <3>4, <3>5
  <2>9. Retired' = 1 .. i
    <3>1. i \in 0 .. Len(Items)
      BY <1>3
    <3>2. DOMAIN Items' = 1 .. Len(Items)
      BY <1>3, <2>7
    <3>3. \A k \in 1 .. Len(Items) : \A x : x = Items'[k] => (Pending(x)' <=> k > i)
      BY <2>7, <2>8
    <3> QED
      BY <1>3, <3>1, <3>2, <3>3, RetiredNext
  <2>10. Drained' = [a \in Addr |-> Youngest(f, 1 .. i, a, memory[a])]
    <3>1. memory' = memory
      BY <1>2 DEF stores
    <3> QED
      BY <2>7, <2>9, <3>1, DrainedNext
  <2>11. Drained = [a \in Addr |-> Youngest(f, 1 .. Kept, a, memory[a])]
    BY <1>3, <2>7, DrainedIs DEF Overwritten
  <2>12. ASSUME NEW a \in Addr
         PROVE  Drained'[a] = IF a \in Ent(h).op.addr .. Ent(h).op.addr + Ent(h).op.size - 1
                              THEN Ent(h).op.data[a - Ent(h).op.addr] ELSE Drained[a]
    <3>1. PICK n \in Nat : n = Kept /\ i = n + 1
      BY <1>3, <2>6
    <3>2. Youngest(f, 1 .. i, a, memory[a]) =
            IF a \in Span(f[i]) THEN f[i].data[a - f[i].addr] ELSE Youngest(f, 1 .. Kept, a, memory[a])
      <4>1. PICK m : m = i /\ m = n + 1
        BY <3>1
      <4>2. PICK old : old = memory[a]
        OBVIOUS
      <4>3. Youngest(f, 1 .. m, a, old) = WithNext(f, n, m, a, old)
        BY <3>1, <4>1, YoungestNext
      <4> QED
        BY <3>1, <4>1, <4>2, <4>3 DEF WithNext
    <3>3. /\ Span(f[i]) = Ent(h).op.addr .. Ent(h).op.addr + Ent(h).op.size - 1
          /\ f[i].data = Ent(h).op.data /\ f[i].addr = Ent(h).op.addr
      BY <2>3, <2>7 DEF Matches, Span
    <3> QED
      BY <2>10, <2>11, <3>2, <3>3
  <2> QED
    BY <1>8, <2>10, <2>12
<1> QED
  BY <1>7, <1>8

LEMMA RetireMaps == IInv /\ Retire => [S!Next]_(S!vars)
<1> SUFFICES ASSUME IInv, Retire
             PROVE  S!Retire
  BY DEF S!Next
<1>1. PICK h : h = current_id
  OBVIOUS
<1>2. /\ Types /\ InFlight /\ PendingStores
      /\ h \in RobId /\ Age(h) = slot + 1 /\ InRob(h) /\ slot \in Nat
      /\ AnswerTo(h).result = "ok" /\ Ent(h).finish = "ok" /\ slot < get_size(rob)
  BY <1>1, LookingFacts DEF Retire
<1>3. UNCHANGED <<rob, lsu_wb_port, wb_commit_port>> /\ slot' = slot + 1
  BY DEF Retire, units
<1>4. /\ DOMAIN Live = 1 .. get_size(rob) - slot /\ Live[1] = h /\ 1 \in DOMAIN Live
      /\ get_size(rob) - slot \in Nat /\ get_size(rob) \in Nat
  <2>1. Age(h) - slot = 1 /\ Age(h) > slot
    BY <1>2
  <2> QED
    BY <1>2, <2>1, LiveIs, SlotFits
<1>5. PICK u : u = Unretired
  OBVIOUS
<1>6. /\ DOMAIN u = 1 .. Len(u) /\ Len(u) \in Nat /\ Len(u) = get_size(rob) - slot
      /\ u \in Seq({Seen(id) : id \in RobId}) /\ DOMAIN Live = DOMAIN u
      /\ \A k \in DOMAIN u : u[k] = Seen(Live[k])
  BY <1>5, UnretiredSeq
<1>7. u # << >> /\ Head(u) = Seen(h) /\ u[1] = Seen(h)
  <2>1. Len(u) # 0
    BY <1>4, <1>6
  <2>2. u # << >>
    BY <2>1
  <2>3. Head(u) = u[1]
    BY <1>6, <2>2
  <2> QED
    BY <1>4, <1>6, <2>2, <2>3
<1>8. /\ Seen(h).op = Ent(h).op /\ Seen(h).value = AnswerTo(h).value
      /\ Seen(h).failed = (AnswerTo(h).result = "exception")
  BY Zenon DEF Seen
<1>9. ~Seen(h).failed
  BY <1>2, <1>8
<1>10. Ent(h).op.kind = "load" => Seen(h).value # << >>
  <2>1. \A a \in Answered : a.id # h
    BY <1>2 DEF InFlight, AnswersRight
  <2>2. AnswerTo(h).value = Ent(h).value
    BY <1>2, <2>1, AnswerIs
  <2>3. Fits(Ent(h).op, Ent(h).finish, Ent(h).value)
    BY <1>2 DEF InFlight, EntriesFit
  <2> QED
    BY <1>2, <1>8, <2>2, <2>3 DEF Fits, NoValue
<1>11. Unretired' = Tail(u)
  <2>1. PICK f : f = Live'
    OBVIOUS
  <2>2. PICK n \in Nat : n = Len(u) /\ n # 0
    BY <1>4, <1>6
  <2>3. /\ DOMAIN f = 1 .. n - 1
        /\ \A k \in 1 .. n - 1 : f[k] = Live[k + 1]
    <3>1. SizeOf(rob) = ROB_SIZE /\ rob.rptr \in 0 .. ROB_SIZE - 1 /\ rob.rptr \in Nat
      BY <1>2, Sizes, ShapeFacts DEF Types
    <3>2. f = [k \in 1 .. n - 1 |-> (rob.rptr + (slot + 1) + k - 1) % ROB_SIZE]
      <4>1. get_size(rob)' = get_size(rob) /\ rob' = rob
        BY <1>3
      <4>2. f = [k \in 1 .. get_size(rob) - (slot + 1) |-> (rob.rptr + (slot + 1) + k - 1) % ROB_SIZE]
        BY <1>3, <2>1, <4>1 DEF Live
      <4>3. get_size(rob) - (slot + 1) = n - 1
        BY <1>2, <1>4, <1>6, <2>2
      <4> QED
        BY <4>2, <4>3
    <3>3. ASSUME NEW k \in 1 .. n - 1
          PROVE  f[k] = Live[k + 1]
      <4> DEFINE x == rob.rptr + (slot + 1) + k - 1
                 y == rob.rptr + slot + (k + 1) - 1
      <4>1. x = y
        BY <1>2, <3>1
      <4>3. get_size(rob) - slot = n /\ k + 1 \in 1 .. n
        BY <1>6, <2>2
      <4>2. f[k] = x % ROB_SIZE /\ Live[k + 1] = y % ROB_SIZE
        BY <3>2, <4>3 DEF Live
      <4> HIDE DEF x, y
      <4> QED
        BY <4>1, <4>2
    <3> QED
      BY <3>2, <3>3
  <2>4. Unretired' = [k \in 1 .. n - 1 |-> Seen(f[k])']
    BY <2>1, <2>3, UnretiredNext
  <2>5. \A id : Seen(id)' = Seen(id)
    BY <1>3 DEF Seen, AnswerTo, Ent
  <2>6. \A k \in 1 .. n - 1 : Seen(f[k])' = u[k + 1]
    <3> SUFFICES ASSUME NEW k \in 1 .. n - 1
                 PROVE  Seen(f[k])' = u[k + 1]
      OBVIOUS
    <3>1. k + 1 \in DOMAIN u
      BY <1>6, <2>2
    <3>2. PICK id : id = f[k] /\ id = Live[k + 1]
      BY <2>3
    <3> QED
      BY <1>6, <2>5, <3>1, <3>2
  <2>7. Unretired' = [k \in 1 .. n - 1 |-> u[k + 1]]
    BY <2>4, <2>6
  <2>8. Tail(u) = [k \in 1 .. n - 1 |-> u[k + 1]]
    <3>1. PICK T : u \in Seq(T)
      BY <1>6
    <3>2. /\ Tail(u) \in Seq(T) /\ Len(Tail(u)) = n - 1
          /\ \A k \in 1 .. Len(Tail(u)) : Tail(u)[k] = u[k + 1]
      BY <1>7, <2>2, <3>1, HeadTailProperties
    <3>3. PICK t : t = Tail(u)
      OBVIOUS
    <3>4. PICK m \in Nat : m = n - 1 /\ m = Len(t)
      BY <2>2, <3>2, <3>3
    <3>5. t \in Seq(T) /\ Len(t) = m
      BY <3>2, <3>3, <3>4
    <3>6. t = [k \in 1 .. m |-> t[k]]
      BY <3>5
    <3>7. \A k \in 1 .. m : t[k] = u[k + 1]
      BY <3>2, <3>3, <3>4
    <3>8. t = [k \in 1 .. m |-> u[k + 1]]
      BY <3>6, <3>7
    <3> QED
      BY <3>3, <3>4, <3>8
  <2> QED
    BY <2>7, <2>8
<1>12. Drained' = S!MemoryAfter(1)
  <2>1. ASSUME NEW a \in Addr
        PROVE  /\ S!MemoryAfter(1) = [b \in Addr |-> S!MemoryAfter(1)[b]]
               /\ ~Storing(1, a) => S!MemoryAfter(1)[a] = Drained[a]
               /\ Storing(1, a) => S!MemoryAfter(1)[a] = Ent(h).op.data[a - Ent(h).op.addr]
    <3>1. \A k \in 1 .. 1 : k = 1
      OBVIOUS
    <3>2. 1 \in 1 .. 1 /\ 1 \in Nat /\ 1 <= 1
      OBVIOUS
    <3>3. Unretired[1].op = Ent(h).op
      BY <1>5, <1>7, <1>8
    <3> QED
      BY <3>1, <3>2, <3>3, AfterIs
  <2>2. \A a : Storing(1, a) <=> Ent(h).op.kind = "store"
                                 /\ a \in Ent(h).op.addr .. Ent(h).op.addr + Ent(h).op.size - 1
    BY <1>5, <1>7, <1>8, <1>9 DEF Storing, S!Writes
  <2>3. S!MemoryAfter(1) = [a \in Addr |-> S!MemoryAfter(1)[a]] /\ Drained = [a \in Addr |-> Drained[a]]
    <3>1. S!MemoryAfter(1) = [a \in Addr |-> S!MemoryAfter(1)[a]]
      BY DEF S!MemoryAfter
    <3>2. Drained = [a \in Addr |-> Drained[a]]
      BY DrainedIs DEF Overwritten
    <3> QED
      BY <3>1, <3>2
  <2>4. CASE Ent(h).op.kind # "store" /\ Drained' = Drained
    <3>1. \A a \in Addr : S!MemoryAfter(1)[a] = Drained[a]
      BY <2>1, <2>2, <2>4
    <3> QED
      BY <2>3, <2>4, <3>1
  <2>5. CASE /\ Ent(h).op.kind = "store"
             /\ \A a \in Addr :
                 Drained'[a] = IF a \in Ent(h).op.addr .. Ent(h).op.addr + Ent(h).op.size - 1
                               THEN Ent(h).op.data[a - Ent(h).op.addr] ELSE Drained[a]
             /\ Drained' = [a \in Addr |-> Drained'[a]]
    <3>1. \A a \in Addr : S!MemoryAfter(1)[a] = Drained'[a]
      BY <2>1, <2>2, <2>5
    <3> QED
      BY <2>3, <2>5, <3>1
  <2> QED
    BY <1>1, <2>4, <2>5, RetireMemory
<1> QED
  BY <1>5, <1>7, <1>8, <1>9, <1>10, <1>11, <1>12 DEF S!Retire, S!NoValue

-----------------------------------------------------------------------------
(* The refinement: the units.                                              *)

LEMMA QuietMaps ==
  ASSUME IInv, NEW held, LsuTurn(<< >>, held, push_q), Waiting' = Waiting,
         held \in Seq(Pack), Len(held) <= 1, issue_q' \in Seq(Pack)
  PROVE  [S!Next]_(S!vars)
<1>1. UNCHANGED <<stores, rob, committed_rob_id, slot>>
  BY DEF LsuTurn, commit
<1>2. IInv' /\ \A id \in RobId : AnswerTo(id)' = AnswerTo(id)
  BY QuietTurn
<1>3. Live' = Live /\ \A id : Ent(id)' = Ent(id)
  BY <1>1 DEF Live, Ent
<1>4. \A k \in DOMAIN Live : \A id : id = Live[k] => Seen(id)' = Seen(id)
  <2>1. \A k \in DOMAIN Live : Live[k] \in RobId
    BY SlotFits, LiveIs
  <2> QED
    BY <1>2, <1>3, <2>1 DEF Seen
<1>5. Drained' = Drained /\ Unretired' = Unretired
  BY <1>1, <1>3, <1>4, SameCommitted, SameUnretired
<1> QED
  BY <1>5, Stutters

LEMMA NothingIssuedMaps == IInv /\ NothingIssued => [S!Next]_(S!vars)
<1> SUFFICES ASSUME IInv, NothingIssued
             PROVE  [S!Next]_(S!vars)
  OBVIOUS
<1>1. LsuTurn(<< >>, << >>, push_q) /\ hold_rev_pack = << >>
  BY DEF NothingIssued
<1>2. hold_rev_pack' = << >> /\ issue_q' = issue_q
  BY <1>1 DEF LsuTurn
<1>3. Waiting' = Waiting
  BY <1>1, <1>2, SameWaiting
<1>4. issue_q' \in Seq(Pack)
  BY <1>2 DEF IInv, Types
<1>5. << >> \in Seq(Pack) /\ Len(<< >>) <= 1
  OBVIOUS
<1> QED
  BY <1>1, <1>3, <1>4, <1>5, QuietMaps

\* An entry of the machine in order, and what becomes of it.
Put(u, j, x) == [u EXCEPT ![j] = x]
Doom(r) == [r EXCEPT !.failed = TRUE]
Giving(r, w) == [r EXCEPT !.value = w]
Failed(u, j) == [u EXCEPT ![j].failed = TRUE]
Valued(u, j, v) == [u EXCEPT ![j].value = v]
Fresh(o, v) == [op |-> o, value |-> v, failed |-> FALSE]
Doomed(o, v) == [op |-> o, value |-> v, failed |-> TRUE]

LEMMA FailedRecord ==
  ASSUME NEW o, NEW v, NEW f, NEW t
  PROVE  [[op |-> o, value |-> v, failed |-> f] EXCEPT !.failed = t]
           = [op |-> o, value |-> v, failed |-> t]
  BY SMT

LEMMA ValuedRecord ==
  ASSUME NEW o, NEW v, NEW w, NEW f
  PROVE  [[op |-> o, value |-> v, failed |-> f] EXCEPT !.value = w]
           = [op |-> o, value |-> w, failed |-> f]
  BY SMT

LEMMA ValueGiven ==
  ASSUME NEW o, NEW v, NEW w
  PROVE  Giving(Fresh(o, v), w) = Fresh(o, w)
<1>1. [[op |-> o, value |-> v, failed |-> FALSE] EXCEPT !.value = w]
        = [op |-> o, value |-> w, failed |-> FALSE]
  <2>1. PICK f : f = FALSE
    OBVIOUS
  <2>2. [[op |-> o, value |-> v, failed |-> f] EXCEPT !.value = w]
           = [op |-> o, value |-> w, failed |-> f]
    BY SMT
  <2> QED
    BY <2>1, <2>2, Zenon
<1> QED
  BY <1>1, Zenon DEF Giving, Fresh

LEMMA FailureMarked ==
  ASSUME NEW o, NEW v
  PROVE  Doom(Fresh(o, v)) = Doomed(o, v)
<1>1. [[op |-> o, value |-> v, failed |-> FALSE] EXCEPT !.failed = TRUE]
        = [op |-> o, value |-> v, failed |-> TRUE]
  BY FailedRecord, Zenon
<1> QED
  BY <1>1, Zenon DEF Doom, Fresh, Doomed

LEMMA ValuedIs ==
  ASSUME NEW u, NEW j \in DOMAIN u, NEW op, NEW v, NEW w,
         u[j] = [op |-> op, value |-> v, failed |-> FALSE]
  PROVE  Valued(u, j, w) = [u EXCEPT ![j] = [op |-> op, value |-> w, failed |-> FALSE]]
<1>1. u[j] = Fresh(op, v)
  BY Zenon DEF Fresh
<1>2. Valued(u, j, w) = Put(u, j, Giving(u[j], w))
  BY SMT DEF Valued, Put, Giving
<1>3. Valued(u, j, w) = Put(u, j, Fresh(op, w))
  BY <1>1, <1>2, ValueGiven, Zenon
<1> QED
  BY <1>3, Zenon DEF Fresh, Put

LEMMA FailedIs ==
  ASSUME NEW u, NEW j \in DOMAIN u, NEW op, NEW v,
         u[j] = [op |-> op, value |-> v, failed |-> FALSE]
  PROVE  Failed(u, j) = [u EXCEPT ![j] = [op |-> op, value |-> v, failed |-> TRUE]]
<1>1. u[j] = Fresh(op, v)
  BY Zenon DEF Fresh
<1>2. Failed(u, j) = Put(u, j, Doom(u[j]))
  BY SMT DEF Failed, Put, Doom
<1>3. Failed(u, j) = Put(u, j, Doomed(op, v))
  BY <1>1, <1>2, FailureMarked, Zenon
<1> QED
  BY <1>3, Zenon DEF Doomed, Put

LEMMA AnswerMaps ==
  ASSUME IInv, NEW a, NEW pushed, AnswersHead(a, pushed),
         NEW h, h = Waiting[1].id, NEW j, j = Age(h) - slot
  PROVE  /\ Drained' = Drained /\ j \in DOMAIN Unretired /\ Live[j] = h
         /\ Unretired[j] = [op |-> Waiting[1].op, value |-> NoValue, failed |-> FALSE]
         /\ a.result = "ok" =>
              Unretired' = [Unretired EXCEPT
                              ![j] = [op |-> Waiting[1].op, value |-> a.value, failed |-> FALSE]]
         /\ a.result = "exception" =>
              Unretired' = [Unretired EXCEPT
                              ![j] = [op |-> Waiting[1].op, value |-> a.value, failed |-> TRUE]]
<1>1. /\ UNCHANGED <<stores, rob, committed_rob_id, slot>> /\ stage = "lsu" /\ ~flush_feedback
      /\ Waiting # << >> /\ Types
      /\ \A id : Ent(id)' = Ent(id)
  BY TurnFacts DEF AnswersHead, commit
<1>2. /\ h \in RobId /\ InRob(h) /\ Age(h) > slot /\ Ent(h).op = Waiting[1].op
      /\ AnswerTo(h).result = "no" /\ AnswerTo(h).value = NoValue
  BY <1>1, HeadFacts
<1>3. \A id : AnswerTo(id)' = IF id = h THEN a ELSE AnswerTo(id)
  BY TurnAnswers
<1>4. \A id : id # h => Seen(id)' = Seen(id)
  BY <1>1, <1>3 DEF Seen
<1>5. Seen(h) = [op |-> Waiting[1].op, value |-> NoValue, failed |-> FALSE]
  BY <1>2 DEF Seen
<1>6. /\ a.result = "ok" =>
           Seen(h)' = [op |-> Waiting[1].op, value |-> a.value, failed |-> FALSE]
      /\ a.result = "exception" =>
           Seen(h)' = [op |-> Waiting[1].op, value |-> a.value, failed |-> TRUE]
  <2>1. AnswerTo(h)' = a /\ Ent(h)' = Ent(h)
    BY <1>1, <1>3
  <2> QED
    BY <1>2, <2>1 DEF Seen
<1>7. Live' = Live
  BY <1>1 DEF Live
<1>8. Drained' = Drained
  BY <1>1, SameCommitted
<1>9. slot <= get_size(rob)
  BY SlotFits
<1>10. /\ j \in DOMAIN Unretired /\ Unretired[j] = Seen(h) /\ Live[j] = h
       /\ Unretired' = [Unretired EXCEPT ![j] = Seen(h)']
  BY <1>1, <1>2, <1>4, <1>7, <1>9, OneUnretired
<1> QED
  BY <1>5, <1>6, <1>8, <1>10

LEMMA StoreMaps == IInv /\ Store => [S!Next]_(S!vars)
<1> SUFFICES ASSUME IInv, Store
             PROVE  [S!Next]_(S!vars)
  OBVIOUS
<1>1. CASE /\ LsuTurn(<< >>, <<Waiting[1]>>, push_q) /\ Waiting' = Waiting
           /\ issue_q' \in Seq(Pack) /\ Waiting[1] \in Pack
  <2>1. <<Waiting[1]>> \in Seq(Pack) /\ Len(<<Waiting[1]>>) <= 1
    BY <1>1
  <2> QED
    BY <1>1, <2>1, QuietMaps
<1>2. CASE \E a, item : item \in Item /\ PushesStore(a, item)
  <2>1. PICK a, item : item \in Item /\ PushesStore(a, item)
    BY <1>2
  <2>2. AnswersHead(a, <<item>>) /\ a.result = "ok" /\ a.value = NoValue
    BY <2>1 DEF PushesStore
  <2>3. PICK h : h = Waiting[1].id
    OBVIOUS
  <2>4. PICK j : j = Age(h) - slot
    OBVIOUS
  <2>6. /\ Drained' = Drained /\ j \in DOMAIN Unretired
        /\ Unretired[j] = [op |-> Waiting[1].op, value |-> NoValue, failed |-> FALSE]
        /\ Unretired' = [Unretired EXCEPT ![j] = [op |-> Waiting[1].op, value |-> a.value, failed |-> FALSE]]
    BY <2>2, <2>3, <2>4, AnswerMaps
  <2>7. PICK u : u = Unretired /\ u = [k \in DOMAIN u |-> u[k]]
    BY UnretiredIs
  <2>8. Unretired' = [u EXCEPT ![j] = u[j]] /\ j \in DOMAIN u
    BY <2>2, <2>6, <2>7
  <2>9. [u EXCEPT ![j] = u[j]] = u
    BY <2>7, <2>8
  <2> QED
    BY <2>6, <2>7, <2>8, <2>9, Stutters
<1> QED
  BY <1>1, <1>2, StoreTurn

LEMMA FlushUnitsMaps == IInv /\ FlushUnits => [S!Next]_(S!vars)
<1> SUFFICES ASSUME IInv, FlushUnits
             PROVE  [S!Next]_(S!vars)
  OBVIOUS
<1>1. UNCHANGED <<stores, rob, committed_rob_id, slot>> /\ flush_feedback
  BY DEF FlushUnits, UnitsFlushedTo, commit
<1>2. ~Straight
  BY <1>1 DEF Straight
<1>3. Live = << >> /\ get_size(rob)' = 0 /\ slot' = 0
  BY <1>1, <1>2, SlotFits
<1>4. Drained' = Drained /\ Unretired' = Unretired
  BY <1>1, <1>3, SameCommitted, NothingUnretired
<1> QED
  BY <1>4, Stutters

LEMMA RaiseExceptionMaps == IInv /\ RaiseException => [S!Next]_(S!vars)
<1> SUFFICES ASSUME IInv, RaiseException
             PROVE  [S!Next]_(S!vars)
  OBVIOUS
<1>1. PICK a : a = Answer(Waiting[1], "exception", NoValue)
  OBVIOUS
<1>2. AnswersHead(a, push_q) /\ a.result = "exception" /\ a.value = NoValue
  BY <1>1, ExceptionAnswer
<1>3. PICK h : h = Waiting[1].id
  OBVIOUS
<1>4. PICK j : j = Age(h) - slot
  OBVIOUS
<1>5. /\ Drained' = Drained /\ j \in DOMAIN Unretired
      /\ Unretired[j] = [op |-> Waiting[1].op, value |-> NoValue, failed |-> FALSE]
      /\ Unretired' = [Unretired EXCEPT ![j] = [op |-> Waiting[1].op, value |-> a.value, failed |-> TRUE]]
  BY <1>2, <1>3, <1>4, AnswerMaps
<1>6. PICK u : u = Unretired /\ u = [k \in DOMAIN u |-> u[k]]
  BY UnretiredIs
<1>7. Unretired' = Failed(u, j) /\ u[j].value = NoValue
  <2>1. PICK op : op = Waiting[1].op
    OBVIOUS
  <2>2. u[j] = [op |-> op, value |-> NoValue, failed |-> FALSE] /\ j \in DOMAIN u
    BY <1>5, <1>6, <2>1
  <2>3. Unretired' = [u EXCEPT ![j] = [op |-> op, value |-> NoValue, failed |-> TRUE]]
    BY <1>2, <1>5, <1>6, <2>1
  <2>4. [u EXCEPT ![j] = [op |-> op, value |-> NoValue, failed |-> TRUE]] = Failed(u, j)
    BY <2>2, FailedIs
  <2>5. u[j].value = NoValue
    BY <2>2
  <2> QED
    BY <2>3, <2>4, <2>5, Zenon
<1>8. j \in 1 .. Len(Unretired)
  BY <1>5, UnretiredSeq
<1>9. S!Fail(j)
  BY <1>5, <1>6, <1>7 DEF Failed, S!Fail, S!NoValue, NoValue
<1> QED
  BY <1>8, <1>9 DEF S!Next

LEMMA OtherAnswerMaps ==
  IInv /\ (\E id \in RobId, result \in {"ok", "exception", "miss"} : OtherAnswer(id, result))
    => [S!Next]_(S!vars)
<1> SUFFICES ASSUME IInv, NEW h \in RobId, NEW result \in {"ok", "exception", "miss"},
                    OtherAnswer(h, result)
             PROVE  [S!Next]_(S!vars)
  OBVIOUS
<1>1. /\ stage = "lsu" /\ ~flush_feedback /\ check_id_valid(rob, h)
      /\ Ent(h).op.kind = "other" /\ Ent(h).finish = "no"
      /\ rob' = set_item(rob, h, [Ent(h) EXCEPT !.finish = result])
      /\ UNCHANGED <<stores, lsu_wb_port, wb_commit_port, committed_rob_id, slot>>
  BY DEF OtherAnswer, units, commit, Ent
<1>2. Types /\ Turns
  BY DEF IInv
<1>3. Straight
  BY <1>1, <1>2 DEF Turns, Straight
<1>4. InFlight
  BY <1>3 DEF IInv
<1>5. rob \in Rings(ROB_SIZE, Entry) /\ ROB_SIZE \in Nat \ {0} /\ h \in 0 .. ROB_SIZE - 1
  BY <1>2, Sizes DEF Types
<1>6. InRob(h)
  BY <1>1, <1>5, ValidIs DEF InRob, Age
<1>7. Ent(h) \in Entry
  BY <1>2, <1>6, Entries
<1>8. PICK e \in Entry : e = [Ent(h) EXCEPT !.finish = result] /\ e.op = Ent(h).op
                         /\ e.finish = result /\ e.value = Ent(h).value
  <2>1. PICK e : e = [Ent(h) EXCEPT !.finish = result]
    OBVIOUS
  <2>2. e \in Entry /\ e.op = Ent(h).op /\ e.finish = result /\ e.value = Ent(h).value
    BY <1>7, <2>1 DEF Entry
  <2> QED
    BY <2>1, <2>2
<1>9. /\ get_size(rob)' = get_size(rob) /\ rob.rptr' = rob.rptr
      /\ \A id \in RobId : Ent(id)' = IF id = h THEN e ELSE Ent(id)
  <2>1. PICK r : r = rob'
    OBVIOUS
  <2>2. r = set_item(rob, h, e)
    BY <1>1, <1>8, <2>1
  <2>3. /\ get_size(r) = get_size(rob) /\ r.rptr = rob.rptr
        /\ \A id \in 0 .. ROB_SIZE - 1 : get_item(r, id) = IF id = h THEN e ELSE get_item(rob, id)
    BY <1>5, <2>2, ItemSet
  <2> QED
    BY <2>1, <2>3 DEF Ent, RobId
<1>10. \A a \in Answered : a.id # h
  BY <1>1, <1>4 DEF InFlight, AnswersRight, Access
<1>11. AnswerTo(h) = [id |-> h, result |-> "no", value |-> NoValue]
  <2>1. Ent(h).value = NoValue
    BY <1>1, <1>4, <1>6 DEF InFlight, EntriesFit, Fits
  <2>2. AnswerTo(h) = [id |-> h, result |-> Ent(h).finish, value |-> Ent(h).value]
    BY <1>2, <1>10, AnswerIs
  <2> QED
    BY <1>1, <2>1, <2>2
<1>12. AnswerTo(h)' = [id |-> h, result |-> result, value |-> NoValue]
  <2>1. Ent(h).value = NoValue
    BY <1>1, <1>4, <1>6 DEF InFlight, EntriesFit, Fits
  <2>2. IInv'
    BY OtherAnswerOK
  <2>3. Types' /\ Answered' = Answered
    BY <1>1, <2>2 DEF IInv, Answered
  <2>4. AnswerTo(h)' = [id |-> h, result |-> Ent(h)'.finish, value |-> Ent(h)'.value]
    BY <1>10, <2>3, AnswerNext
  <2> QED
    BY <1>8, <1>9, <2>1, <2>4
<1>13. \A id \in RobId : id # h => Seen(id)' = Seen(id)
  <2> SUFFICES ASSUME NEW id \in RobId, id # h
               PROVE  Seen(id)' = Seen(id)
    OBVIOUS
  <2>1. get_item(rob, id)' = get_item(rob, id)
    BY <1>9 DEF Ent
  <2> QED
    BY <1>1, <2>1 DEF Seen, AnswerTo, Ent
<1>14. Live' = Live
  BY <1>1, <1>9, SameLive
<1>15. slot <= get_size(rob)
  BY SlotFits
<1>16. Age(h) > slot
  <2>1. Age(h) <= slot => Ent(h).finish = "ok"
    BY <1>4 DEF InFlight, Retiring
  <2>2. Age(h) \in Nat /\ slot \in Nat
    BY <1>2, Ages
  <2> QED
    BY <1>1, <2>1, <2>2
<1>17. PICK j : j = Age(h) - slot
  OBVIOUS
<1>18. \A k \in DOMAIN Live : \A id : id = Live[k] /\ id # h => Seen(id)' = Seen(id)
  BY <1>2, <1>13, <1>15, LiveIs
<1>19. /\ j \in DOMAIN Unretired /\ Unretired[j] = Seen(h)
       /\ Unretired' = [Unretired EXCEPT ![j] = Seen(h)']
  BY <1>2, <1>6, <1>14, <1>15, <1>16, <1>17, <1>18, OneUnretired
<1>20. Drained' = Drained
  BY <1>1, SameCommitted
<1>21. Seen(h) = [op |-> Ent(h).op, value |-> NoValue, failed |-> FALSE]
  <2>1. AnswerTo(h).result = "no" /\ AnswerTo(h).value = NoValue
    BY <1>11
  <2> QED
    BY <2>1 DEF Seen
<1>22. PICK u : u = Unretired /\ u = [k \in DOMAIN u |-> u[k]]
  BY UnretiredIs
<1>23. CASE result = "exception"
  <2>1. Seen(h)' = [op |-> Ent(h).op, value |-> NoValue, failed |-> TRUE]
    <3>1. PICK a : a = AnswerTo(h)' /\ a.result = result /\ a.value = NoValue
      BY <1>12
    <3>2. Ent(h)'.op = Ent(h).op
      BY <1>8, <1>9
    <3> QED
      BY <1>23, <3>1, <3>2 DEF Seen
  <2>2. Unretired' = Failed(u, j) /\ u[j].value = NoValue
    <3>1. PICK op : op = Ent(h).op
      OBVIOUS
    <3>2. u[j] = [op |-> op, value |-> NoValue, failed |-> FALSE] /\ j \in DOMAIN u
      BY <1>19, <1>21, <1>22, <3>1
    <3>3. Unretired' = [u EXCEPT ![j] = [op |-> op, value |-> NoValue, failed |-> TRUE]]
      BY <1>19, <1>22, <2>1, <3>1
    <3>4. [u EXCEPT ![j] = [op |-> op, value |-> NoValue, failed |-> TRUE]] = Failed(u, j)
      BY <3>2, FailedIs
    <3>5. u[j].value = NoValue
      BY <3>2
    <3> QED
      BY <3>3, <3>4, <3>5, Zenon
  <2>3. j \in 1 .. Len(Unretired)
    BY <1>19, UnretiredSeq
  <2>4. S!Fail(j)
    BY <1>20, <1>22, <2>2 DEF Failed, S!Fail, S!NoValue, NoValue
  <2> QED
    BY <2>3, <2>4 DEF S!Next
<1>24. CASE result # "exception"
  <2>1. Seen(h)' = [op |-> Ent(h).op, value |-> NoValue, failed |-> FALSE]
    <3>1. PICK a : a = AnswerTo(h)' /\ a.result = result /\ a.value = NoValue
      BY <1>12
    <3>2. Ent(h)'.op = Ent(h).op
      BY <1>8, <1>9
    <3> QED
      BY <1>24, <3>1, <3>2 DEF Seen
  <2>2. Unretired' = [u EXCEPT ![j] = u[j]] /\ j \in DOMAIN u
    BY <1>19, <1>21, <1>22, <2>1
  <2>3. [u EXCEPT ![j] = u[j]] = u
    BY <1>22, <2>2
  <2> QED
    BY <1>20, <1>22, <2>2, <2>3, Stutters
<1> QED
  BY <1>23, <1>24

Ids(size, ptr, retired) == [k \in 1 .. size - retired |-> (ptr + retired + k - 1) % ROB_SIZE]

LEMMA RenameMaps == IInv /\ (\E op \in Op : Rename(op)) => [S!Next]_(S!vars)
<1> SUFFICES ASSUME IInv, NEW op \in Op, Rename(op)
             PROVE  [S!Next]_(S!vars)
  OBVIOUS
<1>1. PICK n : n = get_new_id(rob)
  OBVIOUS
<1>2. /\ n \in RobId /\ Age(n) = get_size(rob) + 1 /\ Types
      /\ UNCHANGED <<stores, committed_rob_id, slot>>
      /\ get_size(rob)' = get_size(rob) + 1 /\ rob.rptr' = rob.rptr
      /\ \A j \in RobId : j # n => Ent(j)' = Ent(j)
      /\ ~InRob(n)
      /\ Ent(n)' = [op |-> op, finish |-> "no", value |-> NoValue]
      /\ Rename(op)
  BY <1>1, RenameFacts DEF commit
<1>3. /\ \A j \in RobId : j # n => AnswerTo(j)' = AnswerTo(j)
      /\ AnswerTo(n)' = [id |-> n, result |-> "no", value |-> NoValue]
  BY <1>1, RenameAnswers
<1>4. Drained' = Drained
  BY <1>2, SameCommitted
<1>5. PICK u : u = Unretired
  OBVIOUS
<1>6. /\ DOMAIN u = 1 .. Len(u) /\ Len(u) \in Nat /\ Len(u) = get_size(rob) - slot
      /\ u \in Seq({Seen(id) : id \in RobId}) /\ DOMAIN Live = DOMAIN u
      /\ \A k \in DOMAIN u : u[k] = Seen(Live[k])
  BY <1>5, UnretiredSeq
<1>7. PICK m \in Nat : m = Len(u)
  BY <1>6
<1>8. PICK f : f = Live'
  OBVIOUS
<1>9. /\ slot \in Nat /\ get_size(rob) \in Nat /\ ROB_SIZE \in Nat \ {0}
      /\ SizeOf(rob) = ROB_SIZE /\ rob.rptr \in 0 .. ROB_SIZE - 1
  BY <1>2, Ages, Sizes, ShapeFacts DEF Types
<1>10. f = [k \in 1 .. m + 1 |-> (rob.rptr + slot + k - 1) % ROB_SIZE]
  <2>1. f = [k \in 1 .. (get_size(rob) + 1) - slot |-> (rob.rptr + slot + k - 1) % ROB_SIZE]
    <3>1. get_size(rob)' = get_size(rob) + 1 /\ rob.rptr' = rob.rptr /\ slot' = slot
      BY <1>2
    <3>2. PICK z, p, q : z = get_size(rob)' /\ p = rob.rptr' /\ q = slot'
      OBVIOUS
    <3>3. f = Ids(z, p, q)
      BY <1>8, <3>2 DEF Live, Ids
    <3>4. z = get_size(rob) + 1 /\ p = rob.rptr /\ q = slot
      BY <3>1, <3>2
    <3>5. f = Ids(get_size(rob) + 1, rob.rptr, slot)
      BY <3>3, <3>4, Zenon
    <3> QED
      BY <3>5 DEF Ids
  <2>2. (get_size(rob) + 1) - slot = m + 1
    BY <1>6, <1>7, <1>9
  <2> QED
    BY <2>1, <2>2
<1>11. Live = [k \in 1 .. m |-> (rob.rptr + slot + k - 1) % ROB_SIZE]
  BY <1>6, <1>7 DEF Live
<1>12. \A k \in 1 .. m : f[k] = Live[k] /\ f[k] \in RobId /\ f[k] # n
  <2> SUFFICES ASSUME NEW k \in 1 .. m
               PROVE  f[k] = Live[k] /\ f[k] \in RobId /\ f[k] # n
    OBVIOUS
  <2>1. f[k] = Live[k] /\ k \in DOMAIN Live
    BY <1>10, <1>11
  <2>2. Live[k] \in RobId /\ InRob(Live[k])
    BY <1>2, <2>1, LiveIs, SlotFits
  <2> QED
    BY <1>2, <2>1, <2>2
<1>13. f[m + 1] = n
  <2> DEFINE x == rob.rptr + slot + (m + 1) - 1
             y == rob.rptr + Age(n) - 1
  <2>1. x = y
    BY <1>2, <1>6, <1>7, <1>9
  <2>2. f[m + 1] = x % ROB_SIZE
    BY <1>10
  <2>3. Place(rob, Age(n)) = y % ROB_SIZE
    BY <1>9 DEF Place
  <2>4. Place(rob, Age(n)) = n
    BY <1>2, Ages
  <2> HIDE DEF x, y
  <2> QED
    BY <2>1, <2>2, <2>3, <2>4
<1>14. Unretired' = [k \in 1 .. m + 1 |-> Seen(f[k])']
  <2>1. DOMAIN f = 1 .. m + 1
    BY <1>10
  <2> QED
    BY <1>8, <2>1, UnretiredNext
<1>15. PICK e : e = [op |-> op, value |-> NoValue, failed |-> FALSE]
  OBVIOUS
<1>16. \A k \in 1 .. m + 1 : Seen(f[k])' = IF k = m + 1 THEN e ELSE u[k]
  <2> SUFFICES ASSUME NEW k \in 1 .. m + 1
               PROVE  Seen(f[k])' = IF k = m + 1 THEN e ELSE u[k]
    OBVIOUS
  <2>1. CASE k = m + 1
    <3>1. Seen(n)' = e
      <4>1. PICK a : a = AnswerTo(n)' /\ a.result = "no" /\ a.value = NoValue
        BY <1>3
      <4>2. Ent(n)'.op = op
        BY <1>2
      <4> QED
        BY <1>15, <4>1, <4>2 DEF Seen
    <3>2. f[k] = n
      BY <1>13, <2>1
    <3> QED
      BY <2>1, <3>1, <3>2
  <2>2. CASE k # m + 1
    <3>1. k \in 1 .. m
      BY <2>2
    <3>2. PICK id : id = f[k]
      OBVIOUS
    <3>3. id \in RobId /\ id # n /\ u[k] = Seen(id)
      BY <1>6, <1>7, <1>12, <3>1, <3>2
    <3>4. Seen(id)' = Seen(id)
      BY <1>2, <1>3, <3>3 DEF Seen
    <3> QED
      BY <2>2, <3>2, <3>3, <3>4
  <2> QED
    BY <2>1, <2>2
<1>17. Unretired' = [k \in 1 .. m + 1 |-> IF k = m + 1 THEN e ELSE u[k]]
  BY <1>14, <1>16
<1>18. Append(u, e) = [k \in 1 .. m + 1 |-> IF k = m + 1 THEN e ELSE u[k]]
  <2>1. PICK T : u \in Seq(T) /\ e \in T
    <3>1. u \in Seq({Seen(id) : id \in RobId} \cup {e})
      <4>1. \A k \in 1 .. m : u[k] \in {Seen(id) : id \in RobId} \cup {e}
        BY <1>6, <1>7
      <4>2. u = [k \in 1 .. m |-> u[k]]
        BY <1>6, <1>7
      <4> QED
        BY <4>1, <4>2
    <3> QED
      BY <3>1
  <2>2. PICK t : t = Append(u, e)
    OBVIOUS
  <2>3. /\ t \in Seq(T) /\ Len(t) = m + 1 /\ t[m + 1] = e
        /\ \A k \in 1 .. m : t[k] = u[k]
    BY <1>7, <2>1, <2>2, AppendProperties
  <2>4. t = [k \in 1 .. m + 1 |-> t[k]]
    BY <2>3
  <2>5. \A k \in 1 .. m + 1 : t[k] = IF k = m + 1 THEN e ELSE u[k]
    BY <2>3
  <2> QED
    BY <2>2, <2>4, <2>5
<1>19. S!Enter
  <2>1. Unretired' = Append(Unretired, [op |-> op, value |-> NoValue, failed |-> FALSE])
    BY <1>5, <1>15, <1>17, <1>18
  <2> QED
    BY <1>4, <2>1 DEF S!Enter, S!NoValue, NoValue
<1> QED
  BY <1>19 DEF S!Next

-----------------------------------------------------------------------------
(* A load.                                                                 *)

\* The unit has taken the loads and stores before the one that waits.
LEMMA Reading ==
  ASSUME IInv, stage = "lsu", ~flush_feedback, Waiting # << >>, NEW h, h = Waiting[1].id
  PROVE  /\ Types /\ InFlight /\ PendingStores /\ push_q = << >>
         /\ DOMAIN Buffered = DOMAIN Items /\ \A i \in DOMAIN Items : Buffered[i] = Items[i]
         /\ \A i \in DOMAIN Items : i \in Nat /\ Items[i] \in Item /\ (Pending(Items[i]) <=> i > Kept)
         /\ h \in RobId /\ Age(h) \in Nat /\ Age(h) > slot /\ slot \in Nat /\ InRob(h)
         /\ 1 \in DOMAIN Waiting
         /\ \A k \in DOMAIN Waiting : Age(Waiting[k].id) \in Nat /\ Age(h) <= Age(Waiting[k].id)
<1>1. Types /\ Turns
  BY DEF IInv
<1>2. Straight
  BY <1>1 DEF Turns, Straight
<1>3. InFlight /\ PendingStores /\ push_q = << >>
  BY <1>1, <1>2 DEF IInv, Turns
<1>4. /\ Len(Items) \in Nat /\ DOMAIN Items = 1 .. Len(Items)
      /\ \A i \in DOMAIN Items : Buffered[i] = Items[i] /\ i \in DOMAIN Buffered
      /\ \A i \in DOMAIN Buffered : i \in Nat /\ (Pending(Buffered[i]) <=> i > Kept)
  BY KeptSplits
<1>5. DOMAIN Buffered = DOMAIN Items
  BY <1>1, <1>3, <1>4, BufferedSeq
<1>6. \A i \in DOMAIN Items : Items[i] \in Item
  BY <1>1, <1>4, BufferedItem
<1>7. /\ h \in RobId /\ InRob(h) /\ Age(h) > slot
      /\ \A k \in DOMAIN Waiting : k # 1 => Age(h) < Age(Waiting[k].id)
  BY HeadFacts
<1>8. Age(h) \in Nat /\ slot \in Nat /\ \A k \in DOMAIN Waiting : Age(Waiting[k].id) \in Nat
  BY <1>1, <1>7, Ages, WaitingSeq
<1>9. 1 \in DOMAIN Waiting
  <2>1. Waiting \in Seq(Pack)
    BY <1>1, WaitingSeq
  <2> QED
    BY <2>1
<1>10. \A k \in DOMAIN Waiting : Age(h) <= Age(Waiting[k].id)
  <2> SUFFICES ASSUME NEW k \in DOMAIN Waiting
               PROVE  Age(h) <= Age(Waiting[k].id)
    OBVIOUS
  <2>1. CASE k = 1
    BY <1>8, <2>1
  <2>2. CASE k # 1
    BY <1>7, <1>8, <2>2
  <2> QED
    BY <2>1, <2>2
<1> QED
  BY <1>1, <1>3, <1>4, <1>5, <1>6, <1>7, <1>8, <1>9, <1>10

\* A store before the one that waits has been executed, or has failed.
LEMMA OlderExecuted ==
  ASSUME IInv, stage = "lsu", ~flush_feedback, Waiting # << >>, NEW h, h = Waiting[1].id,
         NEW id \in RobId, InRob(id), Age(id) < Age(h), Ent(id).op.kind = "store",
         AnswerTo(id).result # "exception"
  PROVE  Executed(id)
<1>1. Types /\ InFlight
  BY Reading
<1>2. Age(id) \in Nat /\ Age(h) \in Nat /\ \A k \in DOMAIN Waiting : Age(Waiting[k].id) \in Nat
                                              /\ Age(h) <= Age(Waiting[k].id)
  BY <1>1, Reading, Ages
<1>3. ~IsWaiting(id)
  <2>1. \A k \in DOMAIN Waiting : Waiting[k].id # id
    BY <1>2
  <2> QED
    BY <2>1 DEF IsWaiting
<1>4. Access(id)
  BY DEF Access
<1>5. Ent(id).finish = "no" => \E a \in Answered : a.id = id
  BY <1>1, <1>3, <1>4 DEF InFlight, InOrder
<1>6. Answered \subseteq Reply /\ Ent(id) \in Entry /\ AnswersRight
  BY <1>1, AnsweredSet, Entries DEF InFlight
<1>7. CASE \E a \in Answered : a.id = id
  <2>1. PICK a \in Answered : a.id = id
    BY <1>7
  <2>2. AnswerTo(id) = a /\ a.result \in {"ok", "exception"}
    BY <1>1, <1>6, <2>1, AnswerIs DEF Reply
  <2> QED
    BY <2>2 DEF Executed, Ent
<1>8. CASE \A a \in Answered : a.id # id
  <2>1. AnswerTo(id).result = Ent(id).finish
    <3>1. AnswerTo(id) = [id |-> id, result |-> Ent(id).finish, value |-> Ent(id).value]
      BY <1>1, <1>8, AnswerIs
    <3> QED
      BY <3>1
  <2>2. Ent(id).finish \in {"no", "ok", "exception", "miss"} /\ Ent(id).finish # "no"
    BY <1>5, <1>6, <1>8 DEF Entry
  <2>3. Ent(id).finish # "miss"
    BY <1>1 DEF InFlight, EntriesFit, Fits
  <2>4. AnswerTo(id).result = "ok"
    BY <2>1, <2>2, <2>3
  <2> QED
    BY <2>4 DEF Executed, Ent
<1> QED
  BY <1>7, <1>8

\* The item holds the store of this instruction, which covers the byte.
StoredBy(k, i, a) ==
  /\ i \in DOMAIN Items /\ i > Kept
  /\ Live[k] = Items[i].rob_id /\ a \in Span(Items[i])
  /\ Matches(Items[i], Unretired[k].op)

LEMMA MatchingSpan ==
  ASSUME NEW item, NEW op, Matches(item, op), NEW a
  PROVE  /\ op.kind = "store" => (S!Writes(op, a) <=> a \in Span(item))
         /\ item.data[a - item.addr] = op.data[a - op.addr]
BY DEF Matches, S!Writes, Span

\* What SequentialMemory knows of an instruction that is older than the head.
LEMMA LiveSeen ==
  ASSUME IInv, NEW k \in DOMAIN Unretired, NEW id, id = Live[k]
  PROVE  /\ Unretired[k].op = Ent(id).op
         /\ (Unretired[k].failed <=> AnswerTo(id).result = "exception")
         /\ id \in RobId /\ InRob(id) /\ Age(id) = slot + k /\ Age(id) > slot
<1>1. Unretired[k] = Seen(id) /\ k \in DOMAIN Live
  BY UnretiredSeq
<1>2. Types /\ slot <= get_size(rob)
  BY SlotFits
<1>3. id \in RobId /\ InRob(id) /\ Age(id) = slot + k /\ Age(id) > slot
  BY <1>1, <1>2, LiveIs
<1>4. PICK b \in BOOLEAN : b = (AnswerTo(id).result = "exception")
  BY Zenon
<1>5. Unretired[k] = [op |-> Ent(id).op, value |-> AnswerTo(id).value, failed |-> b]
  BY <1>1, <1>4, Zenon DEF Seen
<1>6. Unretired[k].op = Ent(id).op /\ Unretired[k].failed = b
  BY <1>5
<1> QED
  BY <1>3, <1>4, <1>6

LEMMA StoringStored ==
  ASSUME IInv, stage = "lsu", ~flush_feedback, Waiting # << >>, NEW h, h = Waiting[1].id,
         NEW j, j = Age(h) - slot, NEW k \in 1 .. j - 1, NEW a, Storing(k, a)
  PROVE  \E i : StoredBy(k, i, a)
<1>1. /\ Types /\ InFlight /\ PendingStores
      /\ DOMAIN Buffered = DOMAIN Items /\ \A i \in DOMAIN Items : Buffered[i] = Items[i]
      /\ \A i \in DOMAIN Items : i \in Nat /\ Items[i] \in Item /\ (Pending(Items[i]) <=> i > Kept)
      /\ h \in RobId /\ InRob(h) /\ Age(h) \in Nat /\ Age(h) > slot /\ slot \in Nat
  BY Reading
<1>2. k \in DOMAIN Unretired
  <2>1. j \in DOMAIN Live
    BY <1>1, SlotFits, LiveIs
  <2>2. DOMAIN Live = 1 .. Len(Unretired) /\ DOMAIN Unretired = 1 .. Len(Unretired) /\ Len(Unretired) \in Nat
    BY UnretiredSeq
  <2> QED
    BY <2>1, <2>2
<1>3. PICK id : id = Live[k]
  OBVIOUS
<1>4. /\ Unretired[k].op = Ent(id).op
      /\ (Unretired[k].failed <=> AnswerTo(id).result = "exception")
      /\ id \in RobId /\ InRob(id) /\ Age(id) = slot + k /\ Age(id) > slot
  BY <1>2, <1>3, LiveSeen
<1>5. Ent(id).op.kind = "store" /\ AnswerTo(id).result # "exception" /\ S!Writes(Unretired[k].op, a)
  BY <1>4 DEF Storing, S!Writes
<1>6. Age(id) < Age(h)
  BY <1>1, <1>4
<1>7. Executed(id)
  BY <1>4, <1>5, <1>6, OlderExecuted
<1>8. PICK i \in DOMAIN Items : Pending(Items[i]) /\ Items[i].rob_id = id
  BY <1>1, <1>4, <1>7 DEF PendingStores, ExecutedPending
<1>9. Matches(Items[i], Unretired[k].op)
  BY <1>1, <1>4, <1>8 DEF PendingStores, PendingRight
<1>10. a \in Span(Items[i])
  BY <1>4, <1>5, <1>9, MatchingSpan
<1> QED
  BY <1>1, <1>3, <1>8, <1>9, <1>10 DEF StoredBy

LEMMA PendingStored ==
  ASSUME IInv, stage = "lsu", ~flush_feedback, Waiting # << >>, NEW h, h = Waiting[1].id,
         NEW j, j = Age(h) - slot, NEW i \in DOMAIN Items, i > Kept, NEW a, a \in Span(Items[i])
  PROVE  \E k \in 1 .. j - 1 : StoredBy(k, i, a) /\ Storing(k, a)
<1>1. /\ Types /\ InFlight /\ PendingStores
      /\ DOMAIN Buffered = DOMAIN Items /\ \A m \in DOMAIN Items : Buffered[m] = Items[m]
      /\ \A m \in DOMAIN Items : m \in Nat /\ Items[m] \in Item /\ (Pending(Items[m]) <=> m > Kept)
      /\ h \in RobId /\ InRob(h) /\ Age(h) \in Nat /\ Age(h) > slot /\ slot \in Nat
      /\ 1 \in DOMAIN Waiting
  BY Reading
<1>2. PICK id \in RobId : id = Items[i].rob_id
  BY <1>1, BufferedItem
<1>3. InRob(id) /\ Age(id) > slot /\ Executed(id) /\ Matches(Items[i], Ent(id).op)
  BY <1>1, <1>2 DEF PendingStores, PendingRight
<1>4. Ent(id).op.kind = "store" /\ AnswerTo(id).result = "ok"
  BY <1>3 DEF Executed, Ent
<1>5. ~IsWaiting(id)
  BY <1>1, <1>4, WaitingUnanswered
<1>6. Age(id) < Age(h)
  BY <1>1, <1>3, <1>4, <1>5 DEF InFlight, InOrder, Access
<1>7. Age(id) \in Nat
  BY <1>1, Ages
<1>8. PICK k \in 1 .. j - 1 : k = Age(id) - slot
  BY <1>1, <1>3, <1>6, <1>7
<1>9. k \in DOMAIN Live /\ Live[k] = id
  BY <1>1, <1>3, <1>8, SlotFits, LiveIs
<1>10. k \in DOMAIN Unretired
  BY <1>9, UnretiredSeq
<1>11. /\ Unretired[k].op = Ent(id).op
       /\ (Unretired[k].failed <=> AnswerTo(id).result = "exception")
  BY <1>9, <1>10, LiveSeen
<1>12. StoredBy(k, i, a)
  BY <1>2, <1>3, <1>9, <1>11 DEF StoredBy
<1>13. S!Writes(Unretired[k].op, a)
  BY <1>3, <1>4, <1>11, MatchingSpan
<1>14. ~Unretired[k].failed
  BY <1>4, <1>11
<1>15. Storing(k, a)
  BY <1>13, <1>14 DEF Storing
<1> QED
  BY <1>12, <1>15

\* The youngest covering item is the youngest older store, and without one the
\* byte is that of memory and what has retired.
LEMMA LoadedByte ==
  ASSUME IInv, stage = "lsu", ~flush_feedback, Waiting # << >>, NEW h, h = Waiting[1].id,
         NEW j, j = Age(h) - slot, NEW a \in Addr
  PROVE  Youngest(Items, 1 .. Len(Items), a, memory[a]) = S!MemoryAfter(j - 1)[a]
<1>1. PICK n \in Nat : n = Len(Items) /\ DOMAIN Items = 1 .. n
  BY KeptSplits
<1>2. PICK c \in 0 .. n : c = Kept /\ Retired = 1 .. c
  BY <1>1, KeptSplits
<1>3. PICK p \in Nat : p = j - 1
  BY Reading
<1>4. PICK items : items = Items
  OBVIOUS
<1>5. ASSUME NEW k \in 1 .. p, Storing(k, a)
      PROVE  \E i : StoredBy(k, i, a)
  BY <1>3, <1>5, StoringStored
<1>6. ASSUME NEW i \in 1 .. n, i > c, a \in Span(items[i])
      PROVE  \E k \in 1 .. p : StoredBy(k, i, a) /\ Storing(k, a)
  BY <1>1, <1>2, <1>3, <1>4, <1>6, PendingStored
<1>7. \A k, i : StoredBy(k, i, a) => i \in 1 .. n /\ i > c /\ a \in Span(items[i])
  BY <1>1, <1>2, <1>4 DEF StoredBy
<1>8. Drained[a] = Youngest(items, 1 .. c, a, memory[a])
  BY <1>2, <1>4, DrainedIs DEF Overwritten
<1>9. /\ (\A k \in 1 .. p : ~Storing(k, a)) => S!MemoryAfter(p)[a] = Drained[a]
      /\ \A m \in 1 .. p : Storing(m, a) /\ (\A k \in 1 .. p : Storing(k, a) => k <= m) =>
           S!MemoryAfter(p)[a] = Unretired[m].op.data[a - Unretired[m].op.addr]
  BY AfterIs
<1>10. \/ \A i \in 1 .. n : a \notin Span(items[i])
       \/ \E m \in 1 .. n : IsLast(items, 1 .. n, a, m)
  BY YoungestExists
<1>11. CASE \A i \in 1 .. n : a \notin Span(items[i])
  <2>1. Youngest(items, 1 .. n, a, memory[a]) = memory[a]
    BY <1>11, YoungestNone
  <2>2. \A i \in 1 .. c : a \notin Span(items[i])
    BY <1>11
  <2>3. Youngest(items, 1 .. c, a, memory[a]) = memory[a]
    BY <2>2, YoungestNone
  <2>4. \A k \in 1 .. p : ~Storing(k, a)
    BY <1>5, <1>7, <1>11
  <2> QED
    BY <1>1, <1>3, <1>4, <1>8, <1>9, <2>1, <2>3, <2>4
<1>12. ASSUME NEW m \in 1 .. n, IsLast(items, 1 .. n, a, m), m <= c
       PROVE  Youngest(items, 1 .. n, a, memory[a]) = S!MemoryAfter(p)[a]
  <2>1. /\ a \in Span(items[m])
        /\ \A k \in 1 .. n : a \in Span(items[k]) => k <= m
    BY <1>12 DEF IsLast
  <2>2. \A k \in 1 .. c : k \in 1 .. n /\ k \in Nat
    OBVIOUS
  <2>3. m \in 1 .. c
    BY <1>12
  <2>4. IsLast(items, 1 .. c, a, m)
    BY <2>1, <2>2, <2>3 DEF IsLast
  <2>5. Youngest(items, 1 .. c, a, memory[a]) = items[m].data[a - items[m].addr]
    BY <2>4, YoungestAt
  <2>6. Youngest(items, 1 .. n, a, memory[a]) = items[m].data[a - items[m].addr]
    BY <1>12, YoungestAt
  <2>7. \A i : ~(i \in 1 .. n /\ i > c /\ a \in Span(items[i]))
    BY <1>12, <2>1
  <2>8. \A k \in 1 .. p : ~Storing(k, a)
    BY <1>5, <1>7, <2>7
  <2> QED
    BY <1>8, <1>9, <2>5, <2>6, <2>8
<1>13. ASSUME NEW m \in 1 .. n, IsLast(items, 1 .. n, a, m), m > c
       PROVE  Youngest(items, 1 .. n, a, memory[a]) = S!MemoryAfter(p)[a]
  <2>1. /\ a \in Span(items[m])
        /\ \A k \in 1 .. n : a \in Span(items[k]) => k <= m
    BY <1>13 DEF IsLast
  <2>2. PICK k \in 1 .. p : StoredBy(k, m, a) /\ Storing(k, a)
    BY <1>6, <1>13, <2>1
  <2>3. ASSUME NEW l \in 1 .. p, Storing(l, a)
        PROVE  l <= k
    <3>1. PICK i : StoredBy(l, i, a)
      BY <1>5, <2>3
    <3>2. i \in 1 .. n /\ i > c /\ i <= m
      BY <1>7, <2>1, <3>1
    <3>3. /\ Live[l] = items[i].rob_id /\ Live[k] = items[m].rob_id
          /\ i \in DOMAIN Items /\ m \in DOMAIN Items
      BY <1>4, <2>2, <3>1 DEF StoredBy
    <3>4. /\ PendingStores /\ Types
          /\ Buffered[i] = items[i] /\ Buffered[m] = items[m]
          /\ Pending(items[i]) /\ Pending(items[m])
          /\ DOMAIN Buffered = DOMAIN Items
          /\ h \in RobId /\ InRob(h) /\ Age(h) \in Nat /\ Age(h) > slot /\ slot \in Nat
      BY <1>2, <1>4, <1>13, <3>2, <3>3, Reading
    <3>5. l \in DOMAIN Unretired /\ k \in DOMAIN Unretired
      <4>1. j \in DOMAIN Live
        BY <3>4, SlotFits, LiveIs
      <4>2. DOMAIN Live = 1 .. Len(Unretired) /\ DOMAIN Unretired = 1 .. Len(Unretired)
            /\ Len(Unretired) \in Nat
        BY UnretiredSeq
      <4> QED
        BY <1>3, <4>1, <4>2
    <3>6. Age(items[i].rob_id) = slot + l /\ Age(items[m].rob_id) = slot + k
      BY <3>3, <3>5, LiveSeen
    <3>7. CASE i = m
      BY <3>4, <3>6, <3>7
    <3>8. CASE i < m
      <4>1. Age(items[i].rob_id) < Age(items[m].rob_id)
        BY <3>3, <3>4, <3>8 DEF PendingStores, PendingOrdered
      <4> QED
        BY <3>4, <3>6, <4>1
    <3> QED
      BY <3>2, <3>7, <3>8
  <2>4. S!MemoryAfter(p)[a] = Unretired[k].op.data[a - Unretired[k].op.addr]
    BY <1>9, <2>2, <2>3
  <2>5. Matches(items[m], Unretired[k].op)
    BY <1>4, <2>2 DEF StoredBy
  <2>6. items[m].data[a - items[m].addr] = Unretired[k].op.data[a - Unretired[k].op.addr]
    BY <2>5 DEF Matches
  <2>7. Youngest(items, 1 .. n, a, memory[a]) = items[m].data[a - items[m].addr]
    BY <1>13, YoungestAt
  <2> QED
    BY <2>4, <2>6, <2>7
<1>14. CASE \E m \in 1 .. n : IsLast(items, 1 .. n, a, m)
  <2>1. PICK m \in 1 .. n : IsLast(items, 1 .. n, a, m)
    BY <1>14
  <2>2. m <= c \/ m > c
    BY <2>1
  <2>3. Youngest(items, 1 .. n, a, memory[a]) = S!MemoryAfter(p)[a]
    BY <1>12, <1>13, <2>1, <2>2
  <2> QED
    BY <1>1, <1>3, <1>4, <2>3
<1> QED
  BY <1>10, <1>11, <1>14, SMTT(60)

LEMMA LoadMaps == IInv /\ Load => [S!Next]_(S!vars)
<1> SUFFICES ASSUME IInv, Load
             PROVE  [S!Next]_(S!vars)
  OBVIOUS
<1>1. PICK a : a = Answer(Waiting[1], "ok", Loaded)
  OBVIOUS
<1>2. AnswersHead(a, push_q) /\ a.result = "ok" /\ a.value = Loaded /\ Waiting[1].op.kind = "load"
  BY <1>1, LoadAnswer
<1>3. stage = "lsu" /\ ~flush_feedback /\ Waiting # << >> /\ Types
  BY <1>2 DEF AnswersHead, LsuTurn, IInv
<1>4. PICK h : h = Waiting[1].id
  OBVIOUS
<1>5. PICK j : j = Age(h) - slot
  OBVIOUS
<1>6. PICK op : op = Waiting[1].op
  OBVIOUS
<1>7. /\ Drained' = Drained /\ j \in DOMAIN Unretired
      /\ Unretired[j] = [op |-> op, value |-> NoValue, failed |-> FALSE]
      /\ Unretired' = [Unretired EXCEPT ![j] = [op |-> op, value |-> Loaded, failed |-> FALSE]]
  <2>1. /\ Drained' = Drained /\ j \in DOMAIN Unretired
        /\ Unretired[j] = [op |-> Waiting[1].op, value |-> NoValue, failed |-> FALSE]
        /\ Unretired' = [Unretired EXCEPT ![j] = [op |-> Waiting[1].op, value |-> a.value, failed |-> FALSE]]
    <3>1. AnswersHead(a, push_q) /\ a.result = "ok"
      BY <1>2
    <3> QED
      BY <1>4, <1>5, <3>1, AnswerMaps
  <2> QED
    BY <1>2, <1>6, <2>1
<1>8. op \in Op /\ op.kind = "load"
  BY <1>2, <1>3, <1>4, <1>6, HeadFacts
<1>9. op.size \in Length /\ op.addr \in Addr /\ op.addr \in Nat /\ op.addr .. op.addr + op.size - 1 \subseteq Addr
  BY <1>8, Ops
<1>10. Loaded = S!Read(S!MemoryAfter(j - 1), op)
  <2>1. Loaded = [b \in 0 .. op.size - 1 |->
                    Youngest(Items, 1 .. Len(Items), op.addr + b, memory[op.addr + b])]
    BY <1>3, <1>6, <1>9, FeedbackIs DEF Loaded
  <2>2. ASSUME NEW b \in 0 .. op.size - 1
        PROVE  Youngest(Items, 1 .. Len(Items), op.addr + b, memory[op.addr + b])
                 = S!MemoryAfter(j - 1)[op.addr + b]
    <3>1. PICK x \in Addr : x = op.addr + b
      BY <1>9 DEF Length
    <3>2. Youngest(Items, 1 .. Len(Items), x, memory[x]) = S!MemoryAfter(j - 1)[x]
      BY <1>3, <1>4, <1>5, LoadedByte
    <3> QED
      BY <3>1, <3>2
  <2>3. S!Read(S!MemoryAfter(j - 1), op) = [b \in 0 .. op.size - 1 |-> S!MemoryAfter(j - 1)[op.addr + b]]
    BY DEF S!Read
  <2> QED
    BY <2>1, <2>2, <2>3, Zenon
<1>11. PICK u : u = Unretired
  OBVIOUS
<1>12. Unretired' = Valued(u, j, Loaded) /\ u[j].value = NoValue /\ u[j].op = op
  <2>1. u[j] = [op |-> op, value |-> NoValue, failed |-> FALSE] /\ j \in DOMAIN u
    BY <1>7, <1>11
  <2>2. Valued(u, j, Loaded) = [u EXCEPT ![j] = [op |-> op, value |-> Loaded, failed |-> FALSE]]
    BY <2>1, ValuedIs
  <2>3. u[j].value = NoValue /\ u[j].op = op
    BY <2>1
  <2> QED
    BY <1>7, <1>11, <2>2, <2>3, Zenon
<1>13. j \in 1 .. Len(Unretired)
  BY <1>7, UnretiredSeq
<1>14. S!Load(j)
  BY <1>7, <1>8, <1>10, <1>11, <1>12, Zenon DEF Valued, S!Load, S!NoValue, NoValue
<1> QED
  BY <1>13, <1>14 DEF S!Next

-----------------------------------------------------------------------------
(* The end of the cycle.                                                   *)

\* The same store.
Alike(x, y) == x.addr = y.addr /\ x.size = y.size /\ x.data = y.data

\* The byte once the first d items have drained.
DrainedByte(s, d, a, old) ==
  IF d = 1 /\ a \in Span(s[1]) THEN s[1].data[a - s[1].addr] ELSE old

LEMMA AlikeSpan ==
  ASSUME NEW x, NEW y, Alike(x, y), NEW a
  PROVE  (a \in Span(x) <=> a \in Span(y)) /\ x.data[a - x.addr] = y.data[a - y.addr]
BY DEF Alike, Span

\* Draining the oldest store changes nothing.
LEMMA YoungestMoved ==
  ASSUME NEW n \in Nat, NEW d \in {0, 1}, NEW z, z = n + d, NEW s, NEW t, NEW a, NEW old,
         \A i \in 1 .. n : \A j : j = i + d => Alike(t[i], s[j])
  PROVE  Youngest(t, 1 .. n, a, DrainedByte(s, d, a, old)) = Youngest(s, 1 .. z, a, old)
<1>1. z \in Nat /\ \A k \in 1 .. z : k \in Nat
  OBVIOUS
<1>2. ASSUME NEW i \in 1 .. n, NEW j, j = i + d
      PROVE  (a \in Span(t[i]) <=> a \in Span(s[j])) /\ t[i].data[a - t[i].addr] = s[j].data[a - s[j].addr]
  BY <1>2, AlikeSpan
<1>3. \/ \A i \in 1 .. n : a \notin Span(t[i])
      \/ \E m \in 1 .. n : IsLast(t, 1 .. n, a, m)
  BY YoungestExists
<1>4. ASSUME NEW m \in 1 .. n, IsLast(t, 1 .. n, a, m)
      PROVE  Youngest(t, 1 .. n, a, DrainedByte(s, d, a, old)) = Youngest(s, 1 .. z, a, old)
  <2>1. a \in Span(t[m]) /\ \A k \in 1 .. n : a \in Span(t[k]) => k <= m
    BY <1>4 DEF IsLast
  <2>2. PICK l \in 1 .. z : l = m + d
    BY <1>1
  <2>3. ASSUME NEW k \in 1 .. z, a \in Span(s[k])
        PROVE  k <= l
    <3>1. CASE k <= d
      BY <2>2, <3>1
    <3>2. CASE k > d
      <4>1. PICK i \in 1 .. n : k = i + d
        <5>1. k - d \in 1 .. n /\ k = (k - d) + d
          BY <3>2
        <5> QED
          BY <5>1
      <4>2. i <= m
        BY <1>2, <2>1, <2>3, <4>1
      <4> QED
        BY <2>2, <4>1, <4>2
    <3> QED
      BY <3>1, <3>2
  <2>4. a \in Span(s[l])
    BY <1>2, <2>1, <2>2
  <2>5. IsLast(s, 1 .. z, a, l)
    BY <1>1, <2>3, <2>4 DEF IsLast
  <2>6. Youngest(s, 1 .. z, a, old) = s[l].data[a - s[l].addr]
    BY <2>5, YoungestAt
  <2>7. Youngest(t, 1 .. n, a, DrainedByte(s, d, a, old)) = t[m].data[a - t[m].addr]
    BY <1>4, YoungestAt
  <2> QED
    BY <1>2, <2>2, <2>6, <2>7
<1>5. CASE \A i \in 1 .. n : a \notin Span(t[i])
  <2>1. Youngest(t, 1 .. n, a, DrainedByte(s, d, a, old)) = DrainedByte(s, d, a, old)
    BY <1>5, YoungestNone
  <2>2. ASSUME NEW k \in 1 .. z, k > d
        PROVE  a \notin Span(s[k])
    <3>1. PICK i \in 1 .. n : k = i + d
      <4>1. k - d \in 1 .. n /\ k = (k - d) + d
        BY <2>2
      <4> QED
        BY <4>1
    <3> QED
      BY <1>2, <1>5, <3>1
  <2>3. CASE d = 1 /\ a \in Span(s[1])
    <3>1. 1 \in 1 .. z
      BY <2>3
    <3>2. \A k \in 1 .. z : a \in Span(s[k]) => k <= 1
      BY <2>2, <2>3
    <3>3. IsLast(s, 1 .. z, a, 1)
      BY <1>1, <2>3, <3>1, <3>2 DEF IsLast
    <3>4. Youngest(s, 1 .. z, a, old) = s[1].data[a - s[1].addr]
      BY <3>3, YoungestAt
    <3> QED
      BY <2>1, <2>3, <3>4 DEF DrainedByte
  <2>4. CASE ~(d = 1 /\ a \in Span(s[1]))
    <3>1. \A k \in 1 .. z : a \notin Span(s[k])
      BY <2>2, <2>4
    <3>2. Youngest(s, 1 .. z, a, old) = old
      BY <3>1, YoungestNone
    <3> QED
      BY <2>1, <2>4, <3>2 DEF DrainedByte
  <2> QED
    BY <2>3, <2>4
<1> QED
  BY <1>3, <1>4, <1>5

\* Memory after the retired stores is the same when the oldest d of them have
\* drained and the others are still there.
LEMMA DrainedMoved ==
  ASSUME IInv, NEW d \in {0, 1}, d <= Kept, NEW t, t = Items', NEW n \in Nat, DOMAIN t = 1 .. n,
         NEW c \in 0 .. n, c = Kept - d,
         \A i \in 1 .. n : \A x : x = t[i] => (Pending(x)' <=> i > c),
         \A i \in 1 .. c : \A j : j = i + d => Alike(t[i], Items[j]),
         memory' = [a \in Addr |-> DrainedByte(Items, d, a, memory[a])]
  PROVE  Drained' = Drained
<1>1. Retired' = 1 .. c
  BY RetiredNext
<1>2. PICK z : z = Kept /\ Retired = 1 .. z /\ z \in Nat
  BY KeptSplits
<1>3. PICK m : m = memory'
  OBVIOUS
<1>4. PICK s : s = Items
  OBVIOUS
<1>5. Drained' = [a \in Addr |-> Youngest(t, 1 .. c, a, m[a])]
  BY <1>1, <1>3, DrainedNext
<1>6. Drained = [a \in Addr |-> Youngest(s, 1 .. z, a, memory[a])]
  BY <1>2, <1>4, DrainedIs DEF Overwritten
<1>7. \A a \in Addr : m[a] = DrainedByte(s, d, a, memory[a])
  BY <1>3, <1>4
<1>8. c \in Nat /\ z = c + d
  BY <1>2
<1>9. \A i \in 1 .. c : \A j : j = i + d => Alike(t[i], s[j])
  BY <1>4
<1>10. \A a \in Addr : Youngest(t, 1 .. c, a, m[a]) = Youngest(s, 1 .. z, a, memory[a])
  <2> SUFFICES ASSUME NEW a \in Addr
               PROVE  Youngest(t, 1 .. c, a, m[a]) = Youngest(s, 1 .. z, a, memory[a])
    OBVIOUS
  <2>1. PICK old : old = memory[a]
    OBVIOUS
  <2>2. Youngest(t, 1 .. c, a, DrainedByte(s, d, a, old)) = Youngest(s, 1 .. z, a, old)
    BY <1>8, <1>9, YoungestMoved
  <2> QED
    BY <1>7, <2>1, <2>2
<1> QED
  BY <1>5, <1>6, <1>10

LEMMA RunDrained ==
  ASSUME IInv, Run
  PROVE  Drained' = Drained
<1>1. /\ Items' = Buffered' /\ Drains \in {0, 1} /\ Len(Items) \in Nat /\ Len(Buffered) \in Nat
      /\ Len(Items) <= Len(Buffered) /\ DOMAIN Buffered = 1 .. Len(Buffered)
      /\ DOMAIN Buffered' = 1 .. Len(Buffered) - Drains /\ Drains \in 0 .. Len(Items)
      /\ \A i \in 1 .. Len(Items) : Buffered[i] = Items[i]
      /\ \A i \in 1 .. Len(Buffered) - Drains : Buffered'[i] = Named(Buffered[i + Drains])
      /\ Draining => Items[1].committed /\ get_item(store_buffer, store_buffer.rptr) = Items[1]
  BY RunItems
<1>2. /\ Kept \in 0 .. Len(Items) /\ DOMAIN Items = 1 .. Len(Items)
      /\ \A i \in DOMAIN Buffered : i \in Nat /\ (Pending(Buffered[i]) <=> i > Kept)
  BY KeptSplits
<1>3. PICK d \in {0, 1} : d = Drains
  BY <1>1
<1>4. PICK n \in Nat : n = Len(Buffered) - d
  BY <1>1, <1>3
<1>5. d <= Kept
  <2>1. CASE d = 0
    BY <1>2, <2>1
  <2>2. CASE d = 1
    <3>1. 1 \in DOMAIN Buffered
      BY <1>1, <1>3, <2>2
    <3>2. Pending(Buffered[1]) => \E i \in DOMAIN Buffered' : 1 = i + Drains
      BY <3>1, DrainsRetired
    <3>3. ~Pending(Buffered[1])
      BY <1>1, <1>3, <2>2, <3>2
    <3>4. ~(1 > Kept)
      BY <1>2, <3>1, <3>3
    <3> QED
      BY <1>2, <2>2, <3>4
  <2> QED
    BY <2>1, <2>2
<1>6. PICK c \in 0 .. n : c = Kept - d
  <2>1. Kept - d \in 0 .. n
    BY <1>1, <1>2, <1>4, <1>5
  <2> QED
    BY <2>1
<1>7. PICK t : t = Items' /\ t = Buffered'
  BY <1>1
<1>8. DOMAIN t = 1 .. n
  BY <1>1, <1>3, <1>4, <1>7
<1>9. ASSUME NEW i \in 1 .. n, NEW x, x = t[i]
      PROVE  Pending(x)' <=> i > c
  <2>1. PICK j \in DOMAIN Buffered : /\ j = i + Drains
                                     /\ Pending(x)' <=> Pending(Buffered[j])
    BY <1>7, <1>8, <1>9, RunItem
  <2>2. Pending(Buffered[j]) <=> j > Kept
    BY <1>2
  <2>3. j > Kept <=> i > c
    BY <1>2, <1>3, <1>6, <2>1
  <2> QED
    BY <2>1, <2>2, <2>3
<1>10. ASSUME NEW i \in 1 .. c, NEW j, j = i + d
       PROVE  Alike(t[i], Items[j])
  <2>1. j \in 1 .. Len(Items) /\ i \in 1 .. Len(Buffered) - Drains /\ j = i + Drains
    BY <1>1, <1>2, <1>3, <1>4, <1>6, <1>10
  <2>2. t[i] = Named(Buffered[j]) /\ Buffered[j] = Items[j] /\ j \in DOMAIN Buffered
    BY <1>1, <1>7, <2>1
  <2>3. Items[j] \in Item /\ committed_rob_id \subseteq RobId
    BY <2>2, BufferedItem DEF IInv, Types
  <2>4. Alike(Named(Items[j]), Items[j])
    BY <2>3, NamedIs DEF Alike
  <2> QED
    BY <2>2, <2>4
<1>11. memory' = [a \in Addr |-> DrainedByte(Items, d, a, memory[a])]
  <2>1. memory \in [Addr -> Byte]
    BY DEF IInv, Types
  <2>2. PICK x : x = Items[1]
    OBVIOUS
  <2>3. CASE Draining
    <3>1. d = 1
      BY <1>3, <2>3 DEF Drains
    <3>2. memory' = [a \in Addr |-> IF a \in Span(x) THEN x.data[a - x.addr] ELSE memory[a]]
      BY <1>1, <2>2, <2>3 DEF Run
    <3>3. \A a \in Addr : DrainedByte(Items, d, a, memory[a])
                            = IF a \in Span(x) THEN x.data[a - x.addr] ELSE memory[a]
      BY <2>2, <3>1 DEF DrainedByte
    <3> QED
      BY <3>2, <3>3
  <2>4. CASE ~Draining
    <3>1. d = 0
      BY <1>3, <2>4 DEF Drains
    <3>2. memory' = memory
      BY <2>4 DEF Run
    <3>3. \A a \in Addr : DrainedByte(Items, d, a, memory[a]) = memory[a]
      BY <3>1 DEF DrainedByte
    <3> QED
      BY <2>1, <3>2, <3>3
  <2> QED
    BY <2>3, <2>4
<1> QED
  BY <1>5, <1>6, <1>7, <1>8, <1>9, <1>10, <1>11, DrainedMoved

LEMMA RunLive ==
  ASSUME IInv, Run
  PROVE  Live' = Live
<1>1. Types /\ Retiring /\ slot <= get_size(rob) /\ rob' = popped[slot] /\ slot' = 0 /\ slot \in Nat
  BY RunFacts, Ages DEF InFlight
<1>2. /\ rob' \in Rings(ROB_SIZE, Entry) /\ get_size(rob)' = get_size(rob) - slot
      /\ \A i \in 1 .. ROB_SIZE - slot : Place(rob, i)' = Place(rob, i + slot)
  BY <1>1, EndRob
<1>3. /\ get_size(rob) \in 0 .. ROB_SIZE /\ ROB_SIZE \in Nat \ {0}
      /\ SizeOf(rob) = ROB_SIZE /\ rob.rptr \in 0 .. ROB_SIZE - 1
  BY <1>1, Ages, Sizes, ShapeFacts DEF Types
<1>4. PICK r : r = rob'
  OBVIOUS
<1>5. r \in Rings(ROB_SIZE, Entry) /\ SizeOf(r) = ROB_SIZE /\ r.rptr \in 0 .. ROB_SIZE - 1
  BY <1>2, <1>3, <1>4, ShapeFacts
<1>6. PICK n \in Nat : n = get_size(rob) - slot /\ n <= ROB_SIZE - slot
  BY <1>1, <1>3
<1>7. PICK f : f = Live'
  OBVIOUS
<1>8. f = Ids(n, r.rptr, 0)
  <2>1. f = Ids(get_size(rob)', r.rptr, slot')
    BY <1>4, <1>7 DEF Live, Ids
  <2> QED
    BY <1>1, <1>2, <1>6, <2>1
<1>9. Live = Ids(get_size(rob), rob.rptr, slot)
  BY DEF Live, Ids
<1>10. DOMAIN f = 1 .. n /\ DOMAIN Live = 1 .. n
  BY <1>6, <1>8, <1>9 DEF Ids
<1>11. ASSUME NEW k \in 1 .. n
       PROVE  f[k] = Live[k]
  <2> DEFINE x == r.rptr + 0 + k - 1
             y == r.rptr + k - 1
             v == rob.rptr + slot + k - 1
             w == rob.rptr + (k + slot) - 1
  <2>1. x = y /\ v = w
    BY <1>1, <1>3, <1>5
  <2>2. f[k] = x % ROB_SIZE
    BY <1>8, <1>10 DEF Ids
  <2>3. Live[k] = v % ROB_SIZE
    BY <1>9, <1>10 DEF Ids
  <2>4. Place(r, k) = y % ROB_SIZE /\ Place(rob, k + slot) = w % ROB_SIZE
    BY <1>3, <1>5 DEF Place
  <2>5. Place(r, k) = Place(rob, k + slot)
    <3>1. k \in 1 .. ROB_SIZE - slot
      BY <1>1, <1>3, <1>6
    <3>2. Place(rob, k)' = Place(rob, k + slot)
      BY <1>2, <3>1
    <3>3. Place(rob, k)' = Place(r, k)
      BY <1>4 DEF Place, SizeOf
    <3> QED
      BY <3>2, <3>3
  <2> HIDE DEF x, y, v, w
  <2> QED
    BY <2>1, <2>2, <2>3, <2>4, <2>5
<1>12. f = [k \in 1 .. n |-> f[k]] /\ Live = [k \in 1 .. n |-> Live[k]]
  <2>1. f = [k \in DOMAIN f |-> f[k]]
    BY <1>8 DEF Ids
  <2>2. Live = [k \in DOMAIN Live |-> Live[k]]
    BY <1>9 DEF Ids
  <2> QED
    BY <1>10, <2>1, <2>2
<1> QED
  BY <1>7, <1>11, <1>12

LEMMA RunMaps == IInv /\ Run => [S!Next]_(S!vars)
<1> SUFFICES ASSUME IInv, Run
             PROVE  [S!Next]_(S!vars)
  OBVIOUS
<1>1. Types /\ Retiring /\ EndOfCycle /\ slot <= get_size(rob) /\ rob' = popped[slot]
  BY RunFacts DEF InFlight
<1>2. Live' = Live /\ Drained' = Drained
  BY RunLive, RunDrained
<1>3. ASSUME NEW k \in DOMAIN Live, NEW id, id = Live[k]
      PROVE  Seen(id)' = Seen(id)
  <2>1. id \in RobId /\ InRob(id) /\ Age(id) > slot
    BY <1>1, <1>3, LiveIs
  <2>2. AnswerTo(id)' = AnswerTo(id)
    BY <1>1, <2>1, EndAnswers
  <2>3. Ent(id)' = Ent(id)
    BY <1>1, <2>1, EndRob
  <2> QED
    BY <2>2, <2>3 DEF Seen
<1>4. Unretired' = Unretired
  BY <1>2, <1>3, SameUnretired
<1> QED
  BY <1>2, <1>4, Stutters

LEMMA RunFlushMaps == IInv /\ RunFlush => [S!Next]_(S!vars)
<1> SUFFICES ASSUME IInv, RunFlush
             PROVE  [S!Next]_(S!vars)
  OBVIOUS
<1>1. /\ ~Straight /\ get_size(rob)' = 0 /\ slot' = 0 /\ committed_rob_id' = {}
      /\ memory' = memory /\ Types
  BY RunFlushFacts
<1>2. Unretired' = Unretired
  BY <1>1, SlotFits, NothingUnretired
<1>3. /\ DOMAIN Items' = 1 .. Kept
      /\ \A i \in 1 .. Kept : Items'[i] = Named(Items[i]) /\ Items[i] \in Item
                              /\ Named(Items[i]).committed
  BY RunFlushItems
<1>4. PICK n \in Nat : n = Kept
  BY KeptSplits
<1>5. PICK t : t = Items'
  OBVIOUS
<1>6. ASSUME NEW i \in 1 .. n, NEW x, x = t[i]
      PROVE  Pending(x)' <=> i > n
  <2>1. x = Named(Items[i]) /\ Items[i] \in Item /\ x.committed
    BY <1>3, <1>4, <1>5, <1>6
  <2>2. x \in Item
    BY <1>1, <2>1, NamedIs DEF Types
  <2>3. ~Pending(x)'
    BY <1>1, <2>1, <2>2, UnnamedPending
  <2> QED
    BY <2>3
<1>7. ASSUME NEW i \in 1 .. n, NEW j, j = i + 0
      PROVE  Alike(t[i], Items[j])
  <2>1. j = i
    BY <1>7
  <2>2. t[i] = Named(Items[i]) /\ Items[i] \in Item
    BY <1>3, <1>4, <1>5
  <2>3. Alike(Named(Items[i]), Items[i])
    BY <1>1, <2>2, NamedIs DEF Alike, Types
  <2> QED
    BY <2>1, <2>2, <2>3
<1>8. memory' = [a \in Addr |-> DrainedByte(Items, 0, a, memory[a])]
  <2>1. memory \in [Addr -> Byte]
    BY <1>1 DEF Types
  <2>2. \A a \in Addr : DrainedByte(Items, 0, a, memory[a]) = memory[a]
    BY DEF DrainedByte
  <2> QED
    BY <1>1, <2>1, <2>2
<1>9. Drained' = Drained
  <2>1. 0 \in {0, 1} /\ 0 <= Kept /\ n \in 0 .. n /\ n = Kept - 0 /\ DOMAIN t = 1 .. n
    BY <1>3, <1>4, <1>5
  <2> QED
    BY <1>5, <1>6, <1>7, <1>8, <2>1, DrainedMoved
<1> QED
  BY <1>2, <1>9, Stutters

LEMMA StutterMaps == IInv /\ UNCHANGED vars => [S!Next]_(S!vars)
<1> SUFFICES ASSUME UNCHANGED vars
             PROVE  [S!Next]_(S!vars)
  OBVIOUS
<1>1. UNCHANGED <<stores, rob, lsu_wb_port, wb_commit_port, committed_rob_id, slot>>
  BY DEF vars, units, commit
<1>2. Drained' = Drained
  BY <1>1, SameCommitted
<1>3. Unretired' = Unretired
  BY <1>1 DEF Unretired, Live, AnswerTo
<1> QED
  BY <1>2, <1>3, Stutters

-----------------------------------------------------------------------------

LEMMA InitMaps == Init => S!Init
<1> SUFFICES ASSUME Init
             PROVE  S!Init
  OBVIOUS
<1>1. IInv
  BY InitOK
<1>2. Types /\ Retired = 1 .. Kept /\ Kept \in 0 .. Len(Items) /\ Len(Items) \in Nat
  BY <1>1, KeptSplits DEF IInv
<1>3. Drained \in [Addr -> Byte]
  <2>1. \A k \in Retired : k \in 1 .. Len(Items)
    BY <1>2
  <2>2. \A a \in Addr : Youngest(Items, Retired, a, memory[a]) \in Byte
    BY <1>2, <2>1, YoungestByte
  <2> QED
    BY <2>2, DrainedIs DEF Overwritten
<1>4. Unretired = << >>
  <2>1. get_size(rob) = 0
    BY EmptyRing, Sizes DEF Init
  <2>2. Len(Live) = 0 /\ Live \in Seq(RobId)
    BY <1>1, <2>1, SlotFits, LiveIs DEF Init
  <2>3. Live = << >>
    BY <2>2
  <2> QED
    BY <2>3, NothingUnretired
<1> QED
  BY <1>3, <1>4 DEF S!Init

LEMMA StepMaps == IInv /\ [Next]_vars => [S!Next]_(S!vars)
BY InterruptMaps, ExceptionMaps, RetireMaps, MispredictMaps, CommitInputMaps, WalkBackMaps,
   NothingIssuedMaps, RaiseExceptionMaps, LoadMaps, StoreMaps, FlushUnitsMaps, OtherAnswerMaps,
   RenameMaps, RunMaps, RunFlushMaps, StutterMaps DEF Next

(***************************************************************************)
(* The load-store unit and the store buffer implement SequentialMemory:    *)
(* whatever is executed ahead of retirement, held, drained late or cut off *)
(* by a flush, every load gets what a machine in order would read, and     *)
(* memory with the retired stores is what that machine has written         *)
(* (lsu.cpp:339-466, store_buffer.h:285-490).                              *)
(***************************************************************************)
THEOREM Refines == Spec => ImplementsSequentialMemory
<1>1. Init => S!Init
  BY InitMaps
<1>2. IInv /\ [Next]_vars => [S!Next]_(S!vars)
  BY StepMaps
<1> QED
  BY <1>1, <1>2, InvariantHolds, PTL DEF Spec, ImplementsSequentialMemory, S!Spec
=============================================================================
