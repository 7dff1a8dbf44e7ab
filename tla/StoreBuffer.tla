----------------------------- MODULE StoreBuffer -----------------------------
(***************************************************************************)
(* component/store_buffer.h with the two stages that fill and empty it:    *)
(* the load-store unit (pipeline/execute/lsu.cpp) pushes a store before it *)
(* may be retired and lets loads read through the buffer, and commit       *)
(* (pipeline/commit.cpp) names the entries it retires, which the buffer    *)
(* matches by reorder buffer identifier.  A flush cuts off the stores that *)
(* have not retired.                                                       *)
(*                                                                         *)
(* A cycle has three turns (variable stage): commit; write back and the    *)
(* load-store unit; rename and the end of the cycle, where the buffer      *)
(* drains one store and the queued requests are applied.  Issue keeps      *)
(* loads and stores in program order (issue.cpp, has_lsu_op), so that what *)
(* lies between rename and the unit is one queue, issue_q.  The other      *)
(* instructions only retire, raise exceptions or turn out mispredicted.    *)
(***************************************************************************)
EXTENDS Ring, Naturals, SequencesExt, FiniteSetsExt

CONSTANTS
  ROB_SIZE, STORE_BUFFER_SIZE, COMMIT_WIDTH,
  Addr, Byte, Op,  \* as in SequentialMemory
  Image            \* what memory is loaded with

ASSUME StoreBufferAssumption ==
  /\ {ROB_SIZE, STORE_BUFFER_SIZE, COMMIT_WIDTH} \subseteq Nat \ {0}
  /\ Addr \subseteq Nat /\ Image \in [Addr -> Byte]

\* Loads and stores are aligned: the others raise an exception.
ASSUME OpAssumption ==
  \A op \in Op :
    /\ op.kind \in {"load", "store", "other"}
    /\ op.kind # "other" => /\ op.size \in {1, 2, 4}
                            /\ op.addr \in Addr /\ op.addr % op.size = 0
                            /\ op.addr .. op.addr + op.size - 1 \subseteq Addr
    /\ op.kind = "store" => op.data \in [0 .. op.size - 1 -> Byte]

VARIABLES
  memory,           \* slave/memory.h
  store_buffer, push_q,   \* the ring, and its sync_request_q
  rob,
  issue_q,          \* loads and stores between rename and the unit
  hold_rev_pack,    \* the store that waits for room (busy), if any
  lsu_wb_port, wb_commit_port,
  walking,          \* cur_state of commit is flush or interrupt_flush
  flush_feedback, committed_rob_id,   \* commit_feedback_pack of this cycle
  stage, slot

units  == <<issue_q, hold_rev_pack, lsu_wb_port>>
commit == <<walking, flush_feedback, committed_rob_id>>
stores == <<memory, store_buffer>>
vars   == <<stores, push_q, rob, units, wb_commit_port, commit, stage, slot>>

RobId   == 0 .. ROB_SIZE - 1
NoValue == << >>

\* The bytes an item covers.
Span(item) == item.addr .. item.addr + item.size - 1

Items == LET ids == LiveIds(store_buffer)
         IN  [i \in DOMAIN ids |-> get_item(store_buffer, ids[i])]

Init ==
  /\ memory = Image
  /\ store_buffer = empty_ring(STORE_BUFFER_SIZE) /\ push_q = << >>
  /\ rob = empty_ring(ROB_SIZE)
  /\ issue_q = << >> /\ hold_rev_pack = << >>
  /\ lsu_wb_port = << >> /\ wb_commit_port = << >>
  /\ walking = FALSE /\ flush_feedback = FALSE /\ committed_rob_id = {}
  /\ stage = "commit" /\ slot = 0

-----------------------------------------------------------------------------
(* Commit.                                                                 *)

current_id == (rob.rptr + slot) % ROB_SIZE
rob_item   == get_item(rob, current_id)
Looking    == /\ stage = "commit" /\ ~walking
              /\ slot < COMMIT_WIDTH /\ slot < get_size(rob)

\* The walk back undoes the entries one by one; nobody looks at them then,
\* and they are all gone at once here.
StartWalkBack ==
  /\ walking' = TRUE /\ flush_feedback' = TRUE
  /\ rob' = flush(rob) /\ slot' = 0
  /\ stage' = "lsu"
  /\ UNCHANGED <<stores, push_q, units, wb_commit_port>>

Interrupt ==
  /\ Looking /\ slot = 0
  /\ StartWalkBack
  /\ UNCHANGED committed_rob_id

\* The entry that raised the exception is named although it does not retire.
Exception ==
  /\ Looking /\ rob_item.finish = "exception"
  /\ StartWalkBack
  /\ committed_rob_id' = committed_rob_id \cup {current_id}

Retire ==
  /\ Looking /\ rob_item.finish = "ok"
  /\ committed_rob_id' = committed_rob_id \cup {current_id}
  /\ slot' = slot + 1
  /\ UNCHANGED <<stores, push_q, rob, units, wb_commit_port, walking,
                 flush_feedback, stage>>

\* The buffer is flushed at once; the pops that are queued find it empty.
Mispredict ==
  /\ Looking /\ rob_item.finish = "miss"
  /\ committed_rob_id' = committed_rob_id \cup {current_id}
  /\ flush_feedback' = TRUE
  /\ rob' = flush(rob) /\ slot' = 0
  /\ stage' = "lsu"
  /\ UNCHANGED <<stores, push_q, units, wb_commit_port, walking>>

\* The reorder buffer with an answer taken in.
TakenIn(a) ==
  set_item(rob, a.id, [get_item(rob, a.id) EXCEPT !.finish = a.result, !.value = a.value])

\* The group ends at an entry without a result or after a branch.
CommitInput ==
  /\ stage = "commit" /\ ~walking
  /\ Looking => \/ rob_item.finish = "no"
                \/ slot > 0 /\ get_item(rob, prev_id(rob, current_id)).op.kind = "other"
  /\ rob' = IF wb_commit_port = << >> THEN rob ELSE TakenIn(Head(wb_commit_port))
  /\ wb_commit_port' = << >>
  /\ stage' = "lsu"
  /\ UNCHANGED <<stores, push_q, units, commit, slot>>

\* One cycle of the walk back.
WalkBack(last) ==
  /\ stage = "commit" /\ walking
  /\ walking' = ~last
  /\ flush_feedback' = TRUE
  /\ stage' = "lsu"
  /\ UNCHANGED <<stores, push_q, rob, units, wb_commit_port, committed_rob_id, slot>>

-----------------------------------------------------------------------------
(* Write back and the load-store unit.                                     *)

\* store_buffer.h get_feedback_value: the items overwrite the value read
\* from the bus, oldest first, where they overlap the bytes of the load.
Least(a, b) == IF a < b THEN a ELSE b

\* Mutant: a store that begins below the load is not shifted into place.
MutantUnshifted(value, item, addr, size) ==
  IF item.addr >= addr /\ item.addr < addr + size
  THEN LET offset == item.addr - addr
           length == Least(item.size, addr + size - item.addr)
       IN  [i \in 0 .. size - 1 |->
              IF i \in offset .. offset + length - 1 THEN item.data[i - offset] ELSE value[i]]
  ELSE IF item.addr < addr /\ item.addr + item.size > addr
  THEN LET length == Least(size, item.addr + item.size - addr)
       IN  [i \in 0 .. size - 1 |-> IF i < length THEN item.data[i] ELSE value[i]]
  ELSE value

Overlay(value, item, addr, size) ==
  IF item.addr >= addr /\ item.addr < addr + size
  THEN LET offset == item.addr - addr
           length == Least(item.size, addr + size - item.addr)
       IN  [i \in 0 .. size - 1 |->
              IF i \in offset .. offset + length - 1 THEN item.data[i - offset] ELSE value[i]]
  ELSE IF item.addr < addr /\ item.addr + item.size > addr
  THEN LET offset == addr - item.addr
           length == Least(size, item.addr + item.size - addr)
       IN  [i \in 0 .. size - 1 |-> IF i < length THEN item.data[i + offset] ELSE value[i]]
  ELSE value

Overlaid(addr, size, bus_value) ==
  LET items == Items
      value[i \in 0 .. Len(items)] ==
        IF i = 0 THEN bus_value ELSE Overlay(value[i - 1], items[i], addr, size)
  IN  value

get_feedback_value(addr, size, bus_value) == Overlaid(addr, size, bus_value)[Len(Items)]

bus_read(addr, size) == [i \in 0 .. size - 1 |-> memory[addr + i]]

\* The unit works on the store it holds, else on what issue may hand it.
Offered == IF hold_rev_pack # << >> THEN hold_rev_pack ELSE issue_q

\* One run of the unit, which answers, or holds what it was offered.
LsuTurn(answer, held, pushed) ==
  /\ stage = "lsu" /\ ~flush_feedback
  /\ wb_commit_port' = lsu_wb_port
  /\ lsu_wb_port' = answer
  /\ hold_rev_pack' = held
  /\ issue_q' = IF hold_rev_pack = << >> /\ <<answer, held>> # <<<< >>, << >>>>
                THEN Tail(issue_q) ELSE issue_q
  /\ push_q' = pushed
  /\ stage' = "rename"
  /\ UNCHANGED <<stores, rob, commit, slot>>

Answer(pack, result, value) == [id |-> pack.id, result |-> result, value |-> value]

NothingIssued == hold_rev_pack = << >> /\ LsuTurn(<< >>, << >>, push_q)

\* A misaligned access, found when its address was computed.
RaiseException ==
  /\ hold_rev_pack = << >> /\ issue_q # << >>
  /\ LsuTurn(<<Answer(Head(issue_q), "exception", NoValue)>>, << >>, push_q)

Load ==
  /\ Offered # << >> /\ Head(Offered).op.kind = "load"
  /\ LET op == Head(Offered).op
     IN  LsuTurn(<<Answer(Head(Offered), "ok",
                          get_feedback_value(op.addr, op.size, bus_read(op.addr, op.size)))>>,
                 << >>, push_q)

Store ==
  /\ Offered # << >> /\ Head(Offered).op.kind = "store"
  /\ LET pack == Head(Offered)
         item == [rob_id |-> pack.id, addr |-> pack.op.addr, size |-> pack.op.size,
                  data |-> pack.op.data, committed |-> FALSE]
     IN  IF is_full(store_buffer)
         THEN LsuTurn(<< >>, <<pack>>, push_q)
         ELSE LsuTurn(<<Answer(pack, "ok", NoValue)>>, << >>, Append(push_q, item))

UnitsFlushedTo(held) ==
  /\ stage = "lsu" /\ flush_feedback
  /\ issue_q' = << >> /\ hold_rev_pack' = held
  /\ lsu_wb_port' = << >> /\ wb_commit_port' = << >>
  /\ stage' = "rename"
  /\ UNCHANGED <<stores, push_q, rob, commit, slot>>

\* Mutant: the unit stays busy through the flush.
MutantHoldSurvives == UnitsFlushedTo(hold_rev_pack)

FlushUnits == UnitsFlushedTo(<< >>)

\* Another unit's result reaches commit.
OtherAnswer(id, result) ==
  /\ stage = "lsu" /\ ~flush_feedback
  /\ check_id_valid(rob, id)
  /\ get_item(rob, id).op.kind = "other" /\ get_item(rob, id).finish = "no"
  /\ rob' = set_item(rob, id, [get_item(rob, id) EXCEPT !.finish = result])
  /\ UNCHANGED <<stores, push_q, units, wb_commit_port, commit, stage, slot>>

-----------------------------------------------------------------------------
(* Rename, and the end of the cycle.                                       *)

Rename(op) ==
  /\ stage = "rename" /\ ~flush_feedback
  /\ get_free_space(rob) >= 1
  /\ rob' = push(rob, [op |-> op, finish |-> "no", value |-> NoValue])
  /\ issue_q' = IF op.kind = "other" THEN issue_q
                ELSE Append(issue_q, [id |-> get_new_id(rob), op |-> op])
  /\ UNCHANGED <<stores, push_q, hold_rev_pack, lsu_wb_port, wb_commit_port,
                 commit, stage, slot>>

\* The queued pops of the reorder buffer.
popped[i \in 0 .. slot] == IF i = 0 THEN rob ELSE pop(popped[i - 1])

EndOfCycle ==
  /\ rob' = popped[slot]
  /\ push_q' = << >>
  /\ flush_feedback' = FALSE /\ committed_rob_id' = {}
  /\ stage' = "commit" /\ slot' = 0
  /\ UNCHANGED <<units, wb_commit_port, walking>>

Named(item) == [item EXCEPT !.committed = @ \/ item.rob_id \in committed_rob_id]

\* Mutant: only the oldest store is looked at.
MutantMarkOldest(r) ==
  IF is_empty(r) THEN r ELSE set_item(r, r.rptr, Named(get_item(r, r.rptr)))

\* handle feedback: the stores whose entries commit has named.
Marked(r) ==
  [r EXCEPT !.slots = [i \in DOMAIN @ |-> IF check_id_valid(r, i - 1) THEN Named(@[i]) ELSE @[i]]]

\* Mutant: a store is kept back until the buffer is full.
MutantLazyDrain ==
  is_full(store_buffer) /\ get_item(store_buffer, store_buffer.rptr).committed

Draining ==
  ~is_empty(store_buffer) /\ get_item(store_buffer, store_buffer.rptr).committed

\* The unit has pushed one store at most.
Pushed(r) == IF push_q = << >> THEN r ELSE push(r, Head(push_q))

\* The bus writes the store that was popped before the cycle is over.
Run ==
  /\ stage = "rename" /\ ~flush_feedback
  /\ LET front == get_item(store_buffer, store_buffer.rptr)
     IN  memory' = IF Draining
                   THEN [a \in Addr |-> IF a \in Span(front) THEN front.data[a - front.addr]
                                       ELSE memory[a]]
                   ELSE memory
  /\ store_buffer' = Pushed(Marked(IF Draining THEN pop(store_buffer) ELSE store_buffer))
  /\ EndOfCycle

\* The stores up to the first that is neither retired nor retiring.
Kept ==
  LET lost == {i \in 1 .. Len(Items) : ~Named(Items[i]).committed}
  IN  IF lost = {} THEN Len(Items) ELSE (CHOOSE i \in lost : \A j \in lost : i <= j) - 1

RunFlush ==
  /\ stage = "rename" /\ flush_feedback
  /\ store_buffer' = Marked(truncate(store_buffer, Kept))
  /\ UNCHANGED memory
  /\ EndOfCycle

-----------------------------------------------------------------------------

Next ==
  \/ Interrupt
  \/ Exception
  \/ Retire
  \/ Mispredict
  \/ CommitInput
  \/ \E last \in BOOLEAN : WalkBack(last)
  \/ NothingIssued
  \/ RaiseException
  \/ Load
  \/ Store
  \/ FlushUnits
  \/ \E id \in RobId, result \in {"ok", "exception", "miss"} : OtherAnswer(id, result)
  \/ \E op \in Op : Rename(op)
  \/ Run
  \/ RunFlush

Spec == Init /\ [][Next]_vars

\* Cycles go on, a walk back is as long as the buffer, issue hands over what
\* it has, and every other unit answers.
Fairness ==
  /\ WF_vars(Next)
  /\ SF_vars(WalkBack(TRUE))
  /\ SF_vars(RaiseException \/ Load \/ Store)
  /\ \A id \in RobId :
       SF_vars(\E result \in {"ok", "exception", "miss"} : OtherAnswer(id, result))

FairSpec == Spec /\ Fairness

-----------------------------------------------------------------------------
(***************************************************************************)
(* Refinement of SequentialMemory.                                         *)
(***************************************************************************)

\* The entries that have not retired.
Live == [i \in 1 .. get_size(rob) - slot |-> (rob.rptr + slot + i - 1) % ROB_SIZE]

\* The unit's answer for an entry, wherever it is on its way.
AnswerTo(id) ==
  IF lsu_wb_port # << >> /\ Head(lsu_wb_port).id = id THEN Head(lsu_wb_port)
  ELSE IF wb_commit_port # << >> /\ Head(wb_commit_port).id = id THEN Head(wb_commit_port)
  ELSE [id |-> id, result |-> get_item(rob, id).finish, value |-> get_item(rob, id).value]

\* Memory once the retired stores of the buffer have drained: a byte is that
\* of the youngest of them to it.
Drained ==
  LET items == Items
      retired == {i \in DOMAIN items : Named(items[i]).committed}
  IN  [a \in Addr |->
         LET writers == {i \in retired : a \in Span(items[i])}
         IN  IF writers = {} THEN memory[a]
             ELSE LET last == items[Max(writers)] IN last.data[a - last.addr]]

Unretired ==
  LET ids == Live
  IN  [i \in DOMAIN ids |->
         LET answer == AnswerTo(ids[i])
         IN  [op |-> get_item(rob, ids[i]).op, value |-> answer.value,
              failed |-> answer.result = "exception"]]

S == INSTANCE SequentialMemory WITH mem <- Drained, rob <- Unretired

(***************************************************************************)
(* Loads and memory are those of a machine that runs one instruction at a  *)
(* time: a load gets the bytes of the youngest older stores, whether they  *)
(* have retired, drained or neither, and memory with the retired stores of *)
(* the buffer is what the retired instructions wrote, in their order;      *)
(* flushes change neither (lsu.cpp:339-466, store_buffer.h:285-490).       *)
(***************************************************************************)
ImplementsSequentialMemory == S!Spec

(***************************************************************************)
(* Safety.                                                                 *)
(***************************************************************************)

TypeOK ==
  /\ memory \in [Addr -> Byte]
  /\ \A id \in 0 .. STORE_BUFFER_SIZE - 1 :
       LET item == get_item(store_buffer, id)
       IN  item # Dead => item.rob_id \in RobId /\ item.committed \in BOOLEAN
  /\ Len(push_q) <= 1
  /\ \A id \in RobId :
       LET item == get_item(rob, id)
       IN  item # Dead => /\ item.op \in Op
                          /\ item.finish \in {"no", "ok", "exception", "miss"}
  /\ store_buffer.wptr \in 0 .. STORE_BUFFER_SIZE - 1 /\ rob.wptr \in RobId
  /\ Len(issue_q) <= ROB_SIZE
  /\ Len(hold_rev_pack) <= 1 /\ Len(lsu_wb_port) <= 1 /\ Len(wb_commit_port) <= 1
  /\ {walking, flush_feedback} \subseteq BOOLEAN /\ committed_rob_id \subseteq RobId
  /\ stage \in {"commit", "lsu", "rename"} /\ slot \in 0 .. COMMIT_WIDTH

(***************************************************************************)
(* The stores of the buffer that have not retired are, in order, those the *)
(* unit has executed of the live instructions: identifiers are reused, but *)
(* none is left behind by a flush to be committed in another's name, and   *)
(* none is cut off that its instruction counts on (store_buffer.h:337-387).*)
(***************************************************************************)
Executed(id) == get_item(rob, id).op.kind = "store" /\ AnswerTo(id).result = "ok"

UncommittedAreLive ==
  ~walking /\ ~flush_feedback =>
    LET buffered    == Items \o push_q
        uncommitted == {i \in DOMAIN buffered : ~Named(buffered[i]).committed}
    IN  /\ {buffered[i].rob_id : i \in uncommitted} = {id \in ToSet(Live) : Executed(id)}
        /\ \A i, j \in uncommitted :
             i < j => \E k, l \in DOMAIN Live : /\ Live[k] = buffered[i].rob_id
                                               /\ Live[l] = buffered[j].rob_id /\ k < l

(***************************************************************************)
(* Liveness.                                                               *)
(***************************************************************************)

(***************************************************************************)
(* A store that found the buffer full is not stuck behind the stores that  *)
(* fill it, although none of them can drain before it retires              *)
(* (lsu.cpp:235-247, 402-407).                                             *)
(***************************************************************************)
HeldStoreProceeds == hold_rev_pack # << >> ~> hold_rev_pack = << >>

(***************************************************************************)
(* A retired store leaves its slot of the buffer for memory, whatever      *)
(* flushes come: fence and fence.i wait for the buffer to be empty         *)
(* (store_buffer.h:388-463, issue.cpp:1007, fetch.cpp:249).                *)
(***************************************************************************)
RetiredStoreDrains ==
  \A id \in 0 .. STORE_BUFFER_SIZE - 1 :
    LET waits == check_id_valid(store_buffer, id) /\ get_item(store_buffer, id).committed
    IN  waits ~> ~waits

=============================================================================
