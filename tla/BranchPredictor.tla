--------------------------- MODULE BranchPredictor --------------------------
(***************************************************************************)
(* The whole of component/branch_predictor.h: the histories of Predictor,  *)
(* and the return stack main_ras, which get_prediction uses for calls and  *)
(* returns when fetch meets them.  Nothing of what fetch did to the stack  *)
(* is undone when the instructions are flushed.                            *)
(***************************************************************************)
EXTENDS Predictor

CONSTANTS Addr, NoAddr, RAS_SIZE, MaxCnt     \* those of ReturnStack

ASSUME StackAssumption ==
  /\ RAS_SIZE \in Nat \ {0} /\ MaxCnt \in Nat \ {0}
  /\ NoAddr \notin Addr

VARIABLES items, last_addr, popped

stack == <<items, last_addr, popped>>

main_ras == INSTANCE ReturnStack

\* Conditional branches do not use the stack.
FetchBranch ==
  /\ \E pc \in Pc, guess, jump, hit, predicted \in BOOLEAN :
       Fetch(pc, TRUE, guess, jump, hit, predicted)
  /\ UNCHANGED stack

\* A jal or jalr: by which of its registers are link registers, it calls,
\* returns, does both, or neither.  The stack is used before the checkpoint
\* buffer is asked for room.
FetchJump ==
  /\ \E pc \in Pc, hit, predicted \in BOOLEAN :
       Fetch(pc, FALSE, TRUE, TRUE, hit, predicted)
  /\ \/ \E a \in Addr : main_ras!push_addr(a) \/ main_ras!pop_push(a)
     \/ main_ras!pop_addr
     \/ UNCHANGED stack

\* The branch unit and commit, which have no business with the stack.
ResolveOrCommit ==
  /\ \/ \E i \in 1 .. Len(inflight) : Resolve(i)
     \/ CommitHit \/ CommitMissCond \/ CommitMissJump \/ CommitUnpredicted \/ Trap
  /\ UNCHANGED stack

ResetAll == Reset /\ main_ras!reset

PredictorInit == Init /\ main_ras!Init

PredictorNext ==
  \/ FetchBranch
  \/ FetchJump
  \/ ResolveOrCommit
  \/ ResetAll

PredictorSpec == PredictorInit /\ [][PredictorNext]_<<vars, stack>>

-----------------------------------------------------------------------------
(***************************************************************************)
(* The stack, with counts for equal addresses and items that a full one    *)
(* shifts out, is a stack of return addresses that forgets only its oldest *)
(* calls, and only when no place is left; with nothing left it repeats its *)
(* last answer (ras.h:101-161).                                            *)
(***************************************************************************)
ImplementsStack == main_ras!Stack!Spec

=============================================================================
