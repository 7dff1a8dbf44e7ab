-------------------------------- MODULE Ring --------------------------------
(***************************************************************************)
(* component/rob.h and component/checkpoint_buffer.h: a fifo.h ring whose  *)
(* slot numbers are handed out as identifiers, as operators on its value.  *)
(* A ring is a record of the slots, the two pointers and whether their     *)
(* stage bits differ (wrapped); Fifo shows that such a ring is a queue.    *)
(* A slot outside the queue holds Dead: the code leaves the old element    *)
(* there, and the modules that use a ring check that nobody reads it.      *)
(***************************************************************************)
EXTENDS Integers, Sequences

Dead == [dead |-> TRUE]   \* no element has this field

SizeOf(r) == Len(r.slots)

\* Identifiers are 0 .. size - 1, as in the code; slots[id + 1] is buffer[id].
get_item(r, id) == r.slots[id + 1]
set_item(r, id, item) == [r EXCEPT !.slots[id + 1] = item]

empty_ring(size) ==
  [slots |-> [i \in 1 .. size |-> Dead], rptr |-> 0, wptr |-> 0, wrapped |-> FALSE]

is_empty(r) == r.rptr = r.wptr /\ ~r.wrapped
is_full(r)  == r.rptr = r.wptr /\ r.wrapped

get_size(r) ==
  IF is_full(r) THEN SizeOf(r) ELSE (r.wptr + SizeOf(r) - r.rptr) % SizeOf(r)

get_free_space(r) == SizeOf(r) - get_size(r)

\* The identifier a push is about to hand out, and the push.
get_new_id(r) == r.wptr

\* A push to a full ring and a pop of an empty ring do nothing.
push(r, item) ==
  LET last == r.wptr + 1 = SizeOf(r)
  IN  IF is_full(r) THEN r
      ELSE [set_item(r, r.wptr, item) EXCEPT
              !.wptr = IF last THEN 0 ELSE r.wptr + 1,
              !.wrapped = IF last THEN ~@ ELSE @]

pop(r) ==
  LET last == r.rptr + 1 = SizeOf(r)
  IN  IF is_empty(r) THEN r
      ELSE [set_item(r, r.rptr, Dead) EXCEPT
              !.rptr = IF last THEN 0 ELSE r.rptr + 1,
              !.wrapped = IF last THEN ~@ ELSE @]

flush(r) == empty_ring(SizeOf(r))

\* The first n elements; the write pointer is moved back behind them.
truncate(r, n) ==
  [slots   |-> [i \in 1 .. SizeOf(r) |->
                  IF (i - 1 + SizeOf(r) - r.rptr) % SizeOf(r) < n THEN r.slots[i] ELSE Dead],
   rptr    |-> r.rptr,
   wptr    |-> (r.rptr + n) % SizeOf(r),
   wrapped |-> r.rptr + n >= SizeOf(r)]

check_id_valid(r, id) ==
  /\ ~is_empty(r)
  /\ IF r.wrapped THEN (id >= r.rptr /\ id < SizeOf(r)) \/ id < r.wptr
     ELSE id >= r.rptr /\ id < r.wptr

\* Meant for a ring that is not empty.
get_tail_id(r) == (r.wptr + SizeOf(r) - 1) % SizeOf(r)

\* Mutant: the predecessor is never stored.
MutantPrevStuck(r, id) == id

\* The predecessor of an identifier; the code asks check_id_valid of it.
prev_id(r, id) == (id + SizeOf(r) - 1) % SizeOf(r)

\* The identifiers in the queue, oldest first.
LiveIds(r) == [i \in 1 .. get_size(r) |-> (r.rptr + i - 1) % SizeOf(r)]

=============================================================================
