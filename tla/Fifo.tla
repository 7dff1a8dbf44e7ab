-------------------------------- MODULE Fifo --------------------------------
(***************************************************************************)
(* component/fifo.h: the ring buffer under every queue of the model (the   *)
(* front-end FIFOs, the reorder buffer, the checkpoint buffer, the issue   *)
(* queues).  Two pointers, each with a stage bit that flips when it wraps, *)
(* tell an empty ring from a full one.  With pop_status_save set, is_full  *)
(* and get_size compare the write pointer with a copy of the read pointer  *)
(* taken when the cycle began (top_source/main.cpp calls reset_pop_status  *)
(* on fetch_decode_fifo and decode_rename_fifo first thing in a cycle), so *)
(* that a slot the consumer frees is not reused within the same cycle.     *)
(***************************************************************************)
EXTENDS Naturals, Sequences

CONSTANTS
  Elem,   \* the template parameter T
  Size    \* the constructor's parameter

ASSUME FifoAssumption == Size \in Nat \ {0}

VARIABLES
  buffer,
  wptr, wstage,
  rptr, rstage,
  pop_status_save,
  rptr_saved, rstage_saved,
  flushed     \* flush() ran since the cycle began: the producer that called
              \* it (decode::run, fetch::run) pushes nothing in that cycle

vars == <<buffer, wptr, wstage, rptr, rstage, pop_status_save,
          rptr_saved, rstage_saved, flushed>>

Index == 0 .. Size - 1

TypeOK ==
  /\ buffer \in [Index -> Elem]
  /\ wptr \in Index /\ wstage \in BOOLEAN
  /\ rptr \in Index /\ rstage \in BOOLEAN
  /\ pop_status_save \in BOOLEAN
  /\ rptr_saved \in Index /\ rstage_saved \in BOOLEAN
  /\ flushed \in BOOLEAN

is_empty == rptr = wptr /\ rstage = wstage

\* Mutant: fullness taken from the live read pointer in both modes.
MutantFullUnsaved == rptr = wptr /\ rstage # wstage

is_full ==
  IF pop_status_save
  THEN rptr_saved = wptr /\ rstage_saved # wstage
  ELSE rptr = wptr /\ rstage # wstage

get_size ==
  IF is_full THEN Size
  ELSE IF pop_status_save THEN (wptr + Size - rptr_saved) % Size
  ELSE (wptr + Size - rptr) % Size

\* Mutant: the stage bit never flips.
MutantStageStuck(ptr, stage) == stage

\* A pointer that moves past the last slot wraps and flips its stage.
NextPtr(ptr) == IF ptr + 1 >= Size THEN 0 ELSE ptr + 1
NextStage(ptr, stage) == IF ptr + 1 >= Size THEN ~stage ELSE stage

-----------------------------------------------------------------------------

Init ==
  /\ buffer \in [Index -> Elem]
  /\ wptr = 0 /\ wstage = FALSE
  /\ rptr = 0 /\ rstage = FALSE
  /\ pop_status_save \in BOOLEAN
  /\ rptr_saved = 0 /\ rstage_saved = FALSE
  /\ flushed = FALSE

Push(e) ==
  /\ ~(pop_status_save /\ flushed)
  /\ ~is_full
  /\ buffer' = [buffer EXCEPT ![wptr] = e]
  /\ wptr' = NextPtr(wptr)
  /\ wstage' = NextStage(wptr, wstage)
  /\ UNCHANGED <<rptr, rstage, pop_status_save, rptr_saved, rstage_saved, flushed>>

Pop ==
  /\ ~is_empty
  /\ rptr' = NextPtr(rptr)
  /\ rstage' = NextStage(rptr, rstage)
  /\ UNCHANGED <<buffer, wptr, wstage, pop_status_save, rptr_saved, rstage_saved, flushed>>

\* Mutant: the stage bits survive a flush.
MutantFlushKeepsStages ==
  /\ wptr' = 0 /\ rptr' = 0
  /\ flushed' = TRUE
  /\ UNCHANGED <<buffer, wstage, rstage, pop_status_save, rptr_saved, rstage_saved>>

\* The saved read pointer keeps its value: only reset_pop_status moves it.
Flush ==
  /\ wptr' = 0 /\ wstage' = FALSE
  /\ rptr' = 0 /\ rstage' = FALSE
  /\ flushed' = TRUE
  /\ UNCHANGED <<buffer, pop_status_save, rptr_saved, rstage_saved>>

ResetPopStatus ==
  /\ rptr_saved' = rptr
  /\ rstage_saved' = rstage
  /\ flushed' = FALSE
  /\ UNCHANGED <<buffer, wptr, wstage, rptr, rstage, pop_status_save>>

Next ==
  \/ \E e \in Elem : Push(e)
  \/ Pop
  \/ Flush
  \/ ResetPopStatus

Spec == Init /\ [][Next]_vars

-----------------------------------------------------------------------------
(***************************************************************************)
(* Refinement of BoundedQueue: the queue is the ring read from rptr.       *)
(***************************************************************************)

\* The number of elements between a read pointer and the write pointer.
Between(ptr, stage) ==
  IF stage = wstage THEN wptr - ptr ELSE wptr + Size - ptr

Count == Between(rptr, rstage)

Slot(i) == IF rptr + i - 1 < Size THEN rptr + i - 1 ELSE rptr + i - 1 - Size

Contents == [i \in 1 .. Count |-> buffer[Slot(i)]]

Room == IF pop_status_save /\ flushed THEN 0 ELSE Size - get_size

Queue == INSTANCE BoundedQueue
         WITH registered <- pop_status_save, queue <- Contents, room <- Room

(***************************************************************************)
(* The ring is a bounded FIFO queue: no element is lost, duplicated or     *)
(* overwritten, pop returns the oldest one, and the room a producer sees   *)
(* (fifo.h is_full, get_size) is room the ring has.                        *)
(***************************************************************************)
ImplementsQueue == Queue!Spec

(***************************************************************************)
(* A push the code accepts never lands on an element that is still queued  *)
(* (fifo.h:76-92 writes buffer[wptr] whenever is_full says no).            *)
(***************************************************************************)
RoomIsReal == Queue!RoomIsReal

(***************************************************************************)
(* What the two pointers and their stages mean (fifo.h:149-164): the saved *)
(* read pointer never overtakes the live one and is never a whole ring     *)
(* behind the write pointer, so is_full never misses a full ring, and      *)
(* get_size is the distance from it to the write pointer.                  *)
(***************************************************************************)
PointersOK ==
  /\ rstage = wstage => rptr <= wptr
  /\ rstage # wstage => wptr <= rptr
  /\ pop_status_save /\ ~flushed =>
       /\ rstage_saved = wstage => rptr_saved <= wptr
       /\ rstage_saved # wstage => wptr <= rptr_saved
       /\ Count <= Between(rptr_saved, rstage_saved)

=============================================================================
