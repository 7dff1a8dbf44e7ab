---------------------------- MODULE MCPredictor -----------------------------
(* BranchPredictor with interchangeable entries of the local histories.    *)
EXTENDS BranchPredictor, TLC

Entries == Permutations(Pc)

\* The histories and the stack share no state, so that their product is not
\* explored: one of them is as it was at the start.
OneInUse ==
  \/ items = << >> /\ last_addr = NoAddr /\ popped = NoAddr
  \/ /\ {gshare_global_history, gshare_global_history_retired} = {Zero(W)}
     /\ \A p \in Pc : {local_bht[p], local_bht_retired[p]} = {Zero(L)}
     /\ Conds(inflight) = {} /\ Len(inflight) <= 1
=============================================================================
