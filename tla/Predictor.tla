------------------------------ MODULE Predictor -----------------------------
(***************************************************************************)
(* component/branch_predictor.h with its users fetch, the branch unit and  *)
(* commit: the histories of branch outcomes.  Each is kept twice, as fetch *)
(* guesses it and as retired branches made it.  A guess is recorded with   *)
(* the histories before it, which go along in the branch's checkpoint; the *)
(* branch unit mends the guessed histories from the checkpoint, and commit *)
(* from the retired ones.                                                  *)
(*                                                                         *)
(* A table of counters is read at the guessed history and trained at the   *)
(* retired one, so the two have to agree at each branch.  What a counter   *)
(* or a target cache answers is left open: any guess may be made.          *)
(***************************************************************************)
EXTENDS Naturals, Sequences

CONSTANTS
  Pc,          \* entries of local_bht (LOCAL_BHT_SIZE)
  W,           \* GSHARE_GLOBAL_HISTORY_WIDTH
  L,           \* LOCAL_BHT_WIDTH
  MaxFlight    \* branches between fetch and retirement

ASSUME PredictorAssumption ==
  /\ W \in Nat \ {0}
  /\ L \in Nat \ {0}
  /\ MaxFlight \in Nat \ {0}

VARIABLES
  gshare_global_history,
  gshare_global_history_retired,
  local_bht,
  local_bht_retired,
  inflight,    \* branches and jumps from fetch to retirement, the oldest first
  jump_wait,   \* fetch waits for an unpredicted one to retire
  upset,       \* ghost: something was dropped or retired that left the guessed
               \* global history wrong, and no misprediction has mended it since
  upset_local  \* ghost: the same for entries of local_bht

global_vars == <<gshare_global_history, gshare_global_history_retired>>
local_vars == <<local_bht, local_bht_retired>>
vars == <<global_vars, local_vars, inflight, jump_wait, upset, upset_local>>

History(n) == [1 .. n -> BOOLEAN]

(***************************************************************************)
(* A conditional branch (cond) or another jump.  guess is the direction    *)
(* predicted by fetch, jump the one the branch unit finds; hit says that   *)
(* commit finds the prediction right, which for jumps depends on targets.  *)
(* predicted: the checkpoint buffer had room.  global and local are the    *)
(* histories saved in the checkpoint.                                      *)
(***************************************************************************)
Flight == [pc : Pc, cond : BOOLEAN, guess : BOOLEAN, jump : BOOLEAN, hit : BOOLEAN,
           predicted : BOOLEAN, global : History(W), local : History(L),
           finish : BOOLEAN]

TypeOK ==
  /\ gshare_global_history \in History(W)
  /\ gshare_global_history_retired \in History(W)
  /\ local_bht \in [Pc -> History(L)]
  /\ local_bht_retired \in [Pc -> History(L)]
  /\ inflight \in Seq(Flight)
  /\ jump_wait \in BOOLEAN
  /\ upset \in BOOLEAN
  /\ upset_local \in SUBSET Pc

\* ((h << 1) & MASK) | jump, the newest outcome at the width of h
Shifted(h, n, jump) == [i \in 1 .. n |-> IF i = n THEN jump ELSE h[i + 1]]

Zero(n) == [i \in 1 .. n |-> FALSE]

Conds(s) == {s[i].pc : i \in {k \in 1 .. Len(s) : s[k].cond}}

-----------------------------------------------------------------------------

\* update_prediction_guess
GlobalGuess(e) ==
  IF e.cond THEN Shifted(gshare_global_history, W, e.guess)
  ELSE gshare_global_history

LocalGuess(e) ==
  IF e.cond THEN [local_bht EXCEPT ![e.pc] = Shifted(@, L, e.guess)] ELSE local_bht

\* fetch::run for one branch or jump: the prediction, the checkpoint with the
\* histories before it, and the guessed outcome shifted in, room or no room.
Fetch(pc, cond, guess, jump, hit, predicted) ==
  LET e == [pc |-> pc, cond |-> cond, guess |-> guess, jump |-> jump, hit |-> hit,
            predicted |-> predicted, global |-> gshare_global_history,
            local |-> local_bht[pc], finish |-> FALSE]
  IN
  /\ ~jump_wait /\ Len(inflight) < MaxFlight
  /\ IF cond THEN hit = (guess = jump) ELSE guess /\ jump
  /\ inflight' = Append(inflight, e)
  /\ jump_wait' = ~predicted
  /\ gshare_global_history' = GlobalGuess(e)
  /\ local_bht' = LocalGuess(e)
  /\ UNCHANGED <<gshare_global_history_retired, local_bht_retired, upset, upset_local>>

-----------------------------------------------------------------------------

\* gshare_global_history_update_bru_fix
FixedGlobal(e) == Shifted(e.global, W, e.jump)

\* local_update_prediction_bru_fix
FixedLocal(e) == Shifted(e.local, L, e.jump)

\* Mutant: right guesses are "mended" too.
MutantNeedsFix(e) == e.predicted /\ e.cond

\* The branch unit mends what it finds wrong, if the branch has a checkpoint.
NeedsFix(e) == e.predicted /\ e.cond /\ e.guess # e.jump

\* bru::run, in any order of the branches
Resolve(i) ==
  LET e == inflight[i] IN
  /\ ~e.finish
  /\ inflight' = [inflight EXCEPT ![i].finish = TRUE]
  /\ IF NeedsFix(e)
     THEN /\ gshare_global_history' = FixedGlobal(e)
          /\ local_bht' = [local_bht EXCEPT ![e.pc] = FixedLocal(e)]
     ELSE UNCHANGED <<gshare_global_history, local_bht>>
  /\ UNCHANGED <<gshare_global_history_retired, local_bht_retired, jump_wait,
                 upset, upset_local>>

-----------------------------------------------------------------------------

\* commit::run at a branch that is predicted and found right: update_prediction
\* with hit, the retired histories alone.
CommitHit ==
  /\ inflight # <<>> /\ inflight[1].finish /\ inflight[1].predicted /\ inflight[1].hit
  /\ LET e == inflight[1] IN
     /\ inflight' = Tail(inflight)
     /\ IF e.cond
        THEN /\ gshare_global_history_retired' = Shifted(gshare_global_history_retired, W, e.jump)
             /\ local_bht_retired' = [local_bht_retired EXCEPT ![e.pc] = Shifted(@, L, e.jump)]
        ELSE UNCHANGED <<gshare_global_history_retired, local_bht_retired>>
  /\ UNCHANGED <<gshare_global_history, local_bht, jump_wait, upset, upset_local>>

\* Mutant: the retired history as it was before the branch.
MutantMended(retired) == gshare_global_history_retired

\* After a misprediction the guessed history is the retired one, as shifted.
Mended(retired) == retired

\* A conditional branch is found mispredicted: update_prediction without a hit
\* mends the global history and its own entry, and everything is flushed.  The
\* other entries keep the guesses of what is flushed.
CommitMissCond ==
  /\ inflight # <<>> /\ inflight[1].finish /\ inflight[1].predicted
  /\ ~inflight[1].hit /\ inflight[1].cond
  /\ LET e == inflight[1]
         global == Shifted(gshare_global_history_retired, W, e.jump)
         local == Shifted(local_bht_retired[e.pc], L, e.jump)
     IN
     /\ gshare_global_history_retired' = global
     /\ gshare_global_history' = Mended(global)
     /\ local_bht_retired' = [local_bht_retired EXCEPT ![e.pc] = local]
     /\ local_bht' = [local_bht EXCEPT ![e.pc] = local]
     /\ upset_local' = (upset_local \cup Conds(Tail(inflight))) \ {e.pc}
  /\ inflight' = <<>>
  /\ jump_wait' = FALSE
  /\ upset' = FALSE

\* A jump is found to go elsewhere than predicted (only its target cache is
\* trained), or an exception or interrupt flushes everything: no history is
\* mended.
Dropped(s) ==
  /\ inflight' = <<>>
  /\ jump_wait' = FALSE
  /\ upset' = (upset \/ Conds(s) # {})
  /\ upset_local' = upset_local \cup Conds(s)
  /\ UNCHANGED <<global_vars, local_vars>>

CommitMissJump ==
  /\ inflight # <<>> /\ inflight[1].finish /\ inflight[1].predicted
  /\ ~inflight[1].hit /\ ~inflight[1].cond
  /\ Dropped(Tail(inflight))

Trap == Dropped(inflight)

\* A branch that was not predicted retires: fetch goes on, and nothing is
\* trained, though its guess was shifted in.
CommitUnpredicted ==
  /\ inflight # <<>> /\ inflight[1].finish /\ ~inflight[1].predicted
  /\ inflight' = Tail(inflight)
  /\ jump_wait' = FALSE
  /\ upset' = (upset \/ inflight[1].cond)
  /\ upset_local' = upset_local \cup (IF inflight[1].cond THEN {inflight[1].pc} ELSE {})
  /\ UNCHANGED <<global_vars, local_vars>>

\* reset: local_bht_retired keeps what it has.
Reset ==
  /\ gshare_global_history' = Zero(W)
  /\ gshare_global_history_retired' = Zero(W)
  /\ local_bht' = [p \in Pc |-> Zero(L)]
  /\ UNCHANGED local_bht_retired
  /\ inflight' = <<>>
  /\ jump_wait' = FALSE
  /\ upset' = FALSE
  /\ upset_local' = {p \in Pc : local_bht_retired[p] # Zero(L)}

-----------------------------------------------------------------------------

\* The one predictor is a static object, so all of it is zero at the start.
Init ==
  /\ gshare_global_history = Zero(W)
  /\ gshare_global_history_retired = Zero(W)
  /\ local_bht = [p \in Pc |-> Zero(L)]
  /\ local_bht_retired = [p \in Pc |-> Zero(L)]
  /\ inflight = <<>>
  /\ jump_wait = FALSE
  /\ upset = FALSE
  /\ upset_local = {}

Next ==
  \/ \E pc \in Pc, cond, guess, jump, hit, predicted \in BOOLEAN :
       Fetch(pc, cond, guess, jump, hit, predicted)
  \/ \E i \in 1 .. Len(inflight) : Resolve(i)
  \/ CommitHit
  \/ CommitMissCond
  \/ CommitMissJump
  \/ CommitUnpredicted
  \/ Trap
  \/ Reset

Spec == Init /\ [][Next]_vars

-----------------------------------------------------------------------------

Branches == {k \in 1 .. Len(inflight) : inflight[k].cond}
BranchesAt(p) == {k \in Branches : inflight[k].pc = p}

\* The branch unit will mend or has mended the guess of e.
Wrong(e) == e.predicted /\ e.cond /\ ~e.hit

\* i is the latest of the branches ks before place j, or 0 if there is none,
\* and no guess of them before j is wrong.
Behind(j, i, ks) ==
  /\ i \in ks \cup {0} /\ i < j
  /\ \A k \in ks : k < j => k <= i /\ ~Wrong(inflight[k])

\* What is seen at place j, the place behind all in flight being that of fetch.
GlobalAt(j) ==
  IF j <= Len(inflight) THEN inflight[j].global ELSE gshare_global_history
LocalAt(j, p) ==
  IF j <= Len(inflight) THEN inflight[j].local ELSE local_bht[p]

\* What branch i leaves behind as guessed, 0 standing for all that retired.
GlobalBy(i) ==
  IF i = 0 THEN gshare_global_history_retired
  ELSE Shifted(inflight[i].global, W, inflight[i].guess)
LocalBy(i, p) ==
  IF i = 0 THEN local_bht_retired[p] ELSE Shifted(inflight[i].local, L, inflight[i].guess)

(***************************************************************************)
(* As long as nothing upset the guessed history since the last mispredicted*)
(* branch, each branch is predicted with the history that the one before it*)
(* leaves, and the oldest with what retired: the counter of gshare that is *)
(* trained (branch_predictor.h:58) is the one that made the guess (:47),   *)
(* however fetch, the branch unit and commit interleave.                   *)
(***************************************************************************)
GlobalInStep ==
  ~upset =>
    \A i \in 0 .. Len(inflight), j \in 1 .. Len(inflight) + 1 :
      Behind(j, i, Branches) => GlobalAt(j) = GlobalBy(i)

(***************************************************************************)
(* The same for each entry of the local histories                          *)
(* (branch_predictor.h:87-122, 130-151): a branch flushed, an unpredicted  *)
(* one or a reset may leave its entry wrong until a branch with that entry *)
(* is mispredicted, and nothing else does.                                 *)
(***************************************************************************)
LocalInStep ==
  \A p \in Pc \ upset_local :
    \A i \in 0 .. Len(inflight), j \in 1 .. Len(inflight) + 1 :
      /\ Behind(j, i, BranchesAt(p))
      /\ j <= Len(inflight) => inflight[j].pc = p
      => LocalAt(j, p) = LocalBy(i, p)

=============================================================================
