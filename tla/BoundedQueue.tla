---------------------------- MODULE BoundedQueue ----------------------------
(***************************************************************************)
(* What component/fifo.h promises its clients: a FIFO queue of at most     *)
(* Size elements.  The producer does not look at the queue but at `room`,  *)
(* the number of elements it may still push.  In a registered queue (the   *)
(* two decoupling FIFOs of the front end) a slot freed by the consumer     *)
(* becomes room only when the next cycle begins, and a flush leaves no     *)
(* room until then.  In a plain queue a freed slot is room at once.        *)
(***************************************************************************)
EXTENDS Naturals, Sequences

CONSTANTS
  Elem,   \* the elements that may be queued
  Size    \* the capacity

VARIABLES
  registered,  \* is room updated only when a cycle begins?
  queue,       \* the elements, oldest first
  room         \* how many more the producer may push

vars == <<registered, queue, room>>

TypeOK ==
  /\ registered \in BOOLEAN
  /\ queue \in Seq(Elem)
  /\ room \in 0 .. Size

Init ==
  /\ registered \in BOOLEAN
  /\ queue = << >>
  /\ room = Size

Push(e) ==
  /\ room > 0
  /\ queue' = Append(queue, e)
  /\ room' = room - 1
  /\ UNCHANGED registered

Pop ==
  /\ queue # << >>
  /\ queue' = Tail(queue)
  /\ room' = IF registered THEN room ELSE room + 1
  /\ UNCHANGED registered

Flush ==
  /\ queue' = << >>
  /\ room' = IF registered THEN 0 ELSE Size
  /\ UNCHANGED registered

BeginCycle ==
  /\ room' = Size - Len(queue)
  /\ UNCHANGED <<registered, queue>>

Next ==
  \/ \E e \in Elem : Push(e)
  \/ Pop
  \/ Flush
  \/ BeginCycle

Spec == Init /\ [][Next]_vars

(***************************************************************************)
(* The producer is never told of room the queue does not have: whatever it *)
(* pushes within its room fits (fifo::is_full and fifo::get_size of a      *)
(* queue whose consumer pops before its producer pushes in the same cycle).*)
(***************************************************************************)
RoomIsReal == Len(queue) + room <= Size

=============================================================================
