----------------------------- MODULE ReturnStack ----------------------------
(***************************************************************************)
(* component/ras.h over component/stack.h: the return address stack of the *)
(* branch predictor.  Calls push, returns pop, a switch of coroutines pops *)
(* and pushes (branch_predictor.h get_prediction).  Equal addresses on top *)
(* of each other share an item with a count; a full stack shifts its items *)
(* down over the oldest one.                                               *)
(***************************************************************************)
EXTENDS Naturals, Sequences

CONSTANTS
  Addr,        \* return addresses
  NoAddr,      \* last_addr after a reset
  RAS_SIZE,
  MaxCnt       \* the largest count an item holds (0xFFFFFFFF in ras.h)

VARIABLES
  items,       \* buffer[0 .. top_ptr - 1], records [addr, cnt]
  last_addr,
  popped       \* the value the latest pop_addr returned, NoAddr after a reset

vars == <<items, last_addr, popped>>

-----------------------------------------------------------------------------

\* Mutant: the shift overwrites the newest item.
MutantShiftsTop(s, item) == [s EXCEPT ![Len(s)] = item]

\* throw_push: all items move down one place, the oldest is overwritten.
throw_push(s, item) == Append(Tail(s), item)

Shares(s, a) == s # << >> /\ s[Len(s)].addr = a /\ s[Len(s)].cnt < MaxCnt

Pushed(s, a) ==
  IF Shares(s, a) THEN [s EXCEPT ![Len(s)].cnt = @ + 1]
  ELSE IF Len(s) = RAS_SIZE THEN throw_push(s, [addr |-> a, cnt |-> 1])
  ELSE Append(s, [addr |-> a, cnt |-> 1])

Popped(s) ==
  IF s = << >> THEN s
  ELSE IF s[Len(s)].cnt = 1 THEN SubSeq(s, 1, Len(s) - 1)
  ELSE [s EXCEPT ![Len(s)].cnt = @ - 1]

\* What pop_addr returns, and the last_addr it leaves.
PopAddr ==
  IF items = << >> THEN popped' = last_addr /\ UNCHANGED last_addr
  ELSE /\ popped' = items[Len(items)].addr
       /\ last_addr' = IF items[Len(items)].cnt = 1 THEN popped' ELSE last_addr

push_addr(a) == items' = Pushed(items, a) /\ UNCHANGED <<last_addr, popped>>

pop_addr == items' = Popped(items) /\ PopAddr

\* A switch of coroutines: the answer is popped, then the call pushed.
pop_push(a) == items' = Pushed(Popped(items), a) /\ PopAddr

\* reset (ras.h) and stack.h's
reset == items' = << >> /\ last_addr' = NoAddr /\ popped' = NoAddr

-----------------------------------------------------------------------------

Init == items = << >> /\ last_addr = NoAddr /\ popped = NoAddr

-----------------------------------------------------------------------------

\* The addresses the items stand for, the newest last.
Addresses ==
  LET Copies(i) == [k \in 1 .. items[i].cnt |-> items[i].addr]
      upto[n \in 0 .. Len(items)] ==
        IF n = 0 THEN <<>> ELSE upto[n - 1] \o Copies(n)
  IN upto[Len(items)]

Stack == INSTANCE LossyStack
         WITH Size <- RAS_SIZE, Share <- MaxCnt, calls <- Addresses, answer <- popped

=============================================================================
