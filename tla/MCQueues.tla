------------------------------ MODULE MCQueues ------------------------------
(* Fifo with a ring of three slots, and the queue that is derived from it, *)
(* IssueBuffer, with one of four.                                          *)
EXTENDS Fifo

CONSTANTS QueueSize, MAX_REQUESTS

VARIABLES ring, sync_request_q

queue == <<ring, sync_request_q>>

issue_queue == INSTANCE IssueBuffer WITH Size <- QueueSize

ASSUME QueueAssumption ==
  /\ QueueSize \in Nat \ {0} /\ MAX_REQUESTS \in Nat
  /\ issue_queue!Dead \notin Elem

\* The two are different objects: while one is used, the other is as it was at
\* the start (the Fifo in one of its initial states).
FifoUnused ==
  /\ wptr = 0 /\ rptr = 0 /\ rptr_saved = 0
  /\ ~pop_status_save /\ ~wstage /\ ~rstage /\ ~flushed
  /\ \A i \in Index : buffer[i] = CHOOSE e \in Elem : TRUE

QueuesInit == Init /\ issue_queue!Init

QueuesNext ==
  \/ issue_queue!Init /\ Next /\ UNCHANGED queue
  \/ FifoUnused /\ issue_queue!Next /\ UNCHANGED vars

QueuesSpec == QueuesInit /\ [][QueuesNext]_<<vars, queue>>

\* The property of IssueBuffer.
ImplementsList == issue_queue!ImplementsList
=============================================================================
