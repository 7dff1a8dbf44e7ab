--------------------------- MODULE PredictorProofs --------------------------
(***************************************************************************)
(* The histories of Predictor stay in step, for all widths, entries and    *)
(* numbers of branches in flight; and the return stack forgets only the    *)
(* oldest calls, and only when its places are full, for all sizes.         *)
(***************************************************************************)
EXTENDS BranchPredictor, SequenceTheorems, FiniteSetTheorems, TLAPS

\* For a conditional branch the directions say whether it is a hit.
HitsOK == \A k \in 1 .. Len(inflight) :
  inflight[k].cond => inflight[k].hit = (inflight[k].guess = inflight[k].jump)

\* The type invariant in two halves, one for each of the provers.
FlagsOK == jump_wait \in BOOLEAN /\ upset \in BOOLEAN

DataOK ==
  /\ gshare_global_history \in History(W)
  /\ gshare_global_history_retired \in History(W)
  /\ local_bht \in [Pc -> History(L)]
  /\ local_bht_retired \in [Pc -> History(L)]
  /\ inflight \in Seq(Flight)
  /\ upset_local \subseteq Pc

Inv == DataOK /\ HitsOK

-----------------------------------------------------------------------------

\* Shifting keeps the width.
LEMMA ShiftedType ==
  ASSUME NEW n \in Nat, NEW h \in History(n), NEW b \in BOOLEAN
  PROVE  Shifted(h, n, b) \in History(n)
  BY DEF Shifted, History

LEMMA ZeroType ==
  ASSUME NEW n \in Nat
  PROVE  Zero(n) \in History(n)
  BY DEF Zero, History

LEMMA CondsType ==
  ASSUME NEW s \in Seq(Flight)
  PROVE  Conds(s) \subseteq Pc
<1>1. \A k \in 1 .. Len(s) : s[k].pc \in Pc
  <2>1. \A k \in 1 .. Len(s) : s[k] \in Flight
    OBVIOUS
  <2>2. \A f \in Flight : f.pc \in Pc
    BY DEF Flight
  <2> QED
    BY <2>1, <2>2
<1> QED
  BY <1>1 DEF Conds

\* Taking the oldest off moves all others one place to the front.
LEMMA TailOf ==
  ASSUME inflight \in Seq(Flight), inflight # <<>>
  PROVE  /\ Tail(inflight) \in Seq(Flight)
         /\ Len(inflight) \in Nat \ {0}
         /\ Len(Tail(inflight)) = Len(inflight) - 1
         /\ \A k \in 1 .. Len(inflight) - 1 : Tail(inflight)[k] = inflight[k + 1]
  OBVIOUS

-----------------------------------------------------------------------------

LEMMA FlagsStep == FlagsOK /\ [Next]_vars => FlagsOK'
<1> SUFFICES ASSUME FlagsOK, [Next]_vars PROVE FlagsOK'
  OBVIOUS
<1> USE DEF FlagsOK
<1>1. ASSUME NEW s, Dropped(s) PROVE FlagsOK'
  BY <1>1, Zenon DEF Dropped
<1>2. ASSUME NEW pc \in Pc, NEW cond \in BOOLEAN, NEW guess \in BOOLEAN, NEW jump \in BOOLEAN,
             NEW hit \in BOOLEAN, NEW predicted \in BOOLEAN,
             Fetch(pc, cond, guess, jump, hit, predicted)
      PROVE  FlagsOK'
  BY <1>2, Zenon DEF Fetch
<1>3. ASSUME NEW i \in 1 .. Len(inflight), Resolve(i) PROVE FlagsOK'
  BY <1>3, Zenon DEF Resolve
<1>4. CASE CommitHit
  BY <1>4, Zenon DEF CommitHit
<1>5. CASE CommitMissCond
  BY <1>5, Zenon DEF CommitMissCond
<1>6. CASE CommitMissJump
  BY <1>1, <1>6, Zenon DEF CommitMissJump
<1>7. CASE CommitUnpredicted
  BY <1>7, Zenon DEF CommitUnpredicted
<1>8. CASE Trap
  BY <1>1, <1>8, Zenon DEF Trap
<1>9. CASE Reset
  BY <1>9, Zenon DEF Reset
<1>10. CASE UNCHANGED vars
  BY <1>10, Zenon DEF vars
<1> QED
  BY <1>2, <1>3, <1>4, <1>5, <1>6, <1>7, <1>8, <1>9, <1>10, Zenon DEF Next

LEMMA InvInit == Init => Inv /\ FlagsOK
<1>1. Init => FlagsOK
  BY Zenon DEF Init, FlagsOK
<1>2. ASSUME Init PROVE DataOK
  BY <1>2, ZeroType, PredictorAssumption DEF Init, DataOK
<1>3. ASSUME Init PROVE HitsOK
  BY <1>3 DEF Init, HitsOK
<1> QED
  BY <1>1, <1>2, <1>3 DEF Inv

LEMMA InvStep == Inv /\ [Next]_vars => Inv'
<1> USE PredictorAssumption
<1> SUFFICES ASSUME Inv, [Next]_vars PROVE Inv'
  OBVIOUS
<1> USE DEF Inv, DataOK, HitsOK
<1>1. ASSUME NEW pc \in Pc, NEW cond \in BOOLEAN, NEW guess \in BOOLEAN, NEW jump \in BOOLEAN,
             NEW hit \in BOOLEAN, NEW predicted \in BOOLEAN,
             Fetch(pc, cond, guess, jump, hit, predicted)
      PROVE  Inv'
  <2> DEFINE e == [pc |-> pc, cond |-> cond, guess |-> guess, jump |-> jump, hit |-> hit,
                   predicted |-> predicted, global |-> gshare_global_history,
                   local |-> local_bht[pc], finish |-> FALSE]
  <2>1. e \in Flight
    BY DEF Flight
  <2>2. inflight' = Append(inflight, e) /\ (cond => hit = (guess = jump))
    BY <1>1 DEF Fetch
  <2>3. gshare_global_history' = GlobalGuess(e) /\ local_bht' = LocalGuess(e)
    BY <1>1 DEF Fetch
  <2>4. gshare_global_history' \in History(W)
    BY <2>1, <2>3, ShiftedType DEF GlobalGuess, Flight
  <2>5. local_bht' \in [Pc -> History(L)]
    <3>1. Shifted(local_bht[pc], L, guess) \in History(L)
      BY ShiftedType
    <3> QED
      BY <2>3, <3>1 DEF LocalGuess
  <2>6. inflight' \in Seq(Flight) /\ HitsOK'
    BY <2>1, <2>2
  <2> QED
    BY <1>1, <2>4, <2>5, <2>6 DEF Fetch
<1>2. ASSUME NEW i \in 1 .. Len(inflight), Resolve(i)
      PROVE  Inv'
  <2>1. inflight[i] \in Flight
    OBVIOUS
  <2>2. inflight' = [inflight EXCEPT ![i].finish = TRUE]
    BY <1>2 DEF Resolve
  <2>3. inflight' \in Seq(Flight) /\ HitsOK'
    <3> DEFINE f == [inflight[i] EXCEPT !.finish = TRUE]
    <3>1. /\ f \in Flight
          /\ f.cond = inflight[i].cond /\ f.hit = inflight[i].hit
          /\ f.guess = inflight[i].guess /\ f.jump = inflight[i].jump
      BY <2>1 DEF Flight
    <3>2. inflight' = [inflight EXCEPT ![i] = f]
      BY <2>2
    <3> HIDE DEF f
    <3>3. /\ inflight' \in Seq(Flight) /\ Len(inflight') = Len(inflight)
          /\ \A k \in 1 .. Len(inflight) :
               inflight'[k] = IF k = i THEN f ELSE inflight[k]
      BY <3>1, <3>2
    <3> QED
      BY <3>1, <3>3
  <2>4. FixedGlobal(inflight[i]) \in History(W) /\ FixedLocal(inflight[i]) \in History(L)
    BY <2>1, ShiftedType DEF FixedGlobal, FixedLocal, Flight
  <2>5. gshare_global_history' \in History(W) /\ local_bht' \in [Pc -> History(L)]
    BY <1>2, <2>1, <2>4 DEF Resolve
  <2> QED
    BY <1>2, <2>3, <2>5 DEF Resolve
<1>3. CASE CommitHit
  <2>1. inflight # <<>> /\ inflight[1] \in Flight
    BY <1>3 DEF CommitHit
  <2>2. inflight' \in Seq(Flight) /\ HitsOK'
    BY <1>3, <2>1, TailOf DEF CommitHit
  <2>3. /\ Shifted(gshare_global_history_retired, W, inflight[1].jump) \in History(W)
        /\ Shifted(local_bht_retired[inflight[1].pc], L, inflight[1].jump) \in History(L)
    BY <2>1, ShiftedType DEF Flight
  <2> QED
    BY <1>3, <2>2, <2>3 DEF CommitHit
<1>4. CASE CommitMissCond
  <2>1. inflight # <<>> /\ inflight[1] \in Flight
    BY <1>4 DEF CommitMissCond
  <2>2. /\ Shifted(gshare_global_history_retired, W, inflight[1].jump) \in History(W)
        /\ Shifted(local_bht_retired[inflight[1].pc], L, inflight[1].jump) \in History(L)
    BY <2>1, ShiftedType DEF Flight
  <2>3. Conds(Tail(inflight)) \subseteq Pc
    BY <2>1, TailOf, CondsType
  <2>4. inflight' = <<>> /\ inflight' \in Seq(Flight) /\ HitsOK'
    BY <1>4 DEF CommitMissCond
  <2>5. upset_local' \subseteq Pc
    BY <1>4, <2>3 DEF CommitMissCond
  <2> QED
    BY <1>4, <2>2, <2>4, <2>5 DEF CommitMissCond, Mended
<1>5. CASE CommitMissJump
  <2>1. inflight # <<>>
    BY <1>5 DEF CommitMissJump
  <2>2. Conds(Tail(inflight)) \subseteq Pc
    BY <2>1, TailOf, CondsType
  <2> QED
    BY <1>5, <2>2 DEF CommitMissJump, Dropped, global_vars, local_vars
<1>6. CASE CommitUnpredicted
  <2>1. inflight # <<>> /\ inflight[1] \in Flight
    BY <1>6 DEF CommitUnpredicted
  <2>2. inflight' \in Seq(Flight) /\ HitsOK'
    BY <1>6, <2>1, TailOf DEF CommitUnpredicted
  <2> QED
    BY <1>6, <2>1, <2>2 DEF CommitUnpredicted, global_vars, local_vars, Flight
<1>7. CASE Trap
  <2>1. Conds(inflight) \subseteq Pc
    BY CondsType
  <2> QED
    BY <1>7, <2>1 DEF Trap, Dropped, global_vars, local_vars
<1>8. CASE Reset
  BY <1>8, ZeroType DEF Reset
<1>9. CASE UNCHANGED vars
  BY <1>9 DEF vars, global_vars, local_vars
<1> QED
  BY <1>1, <1>2, <1>3, <1>4, <1>5, <1>6, <1>7, <1>8, <1>9 DEF Next

\* The type invariant: every history keeps its width, and what is dropped,
\* retired or reset leaves nothing behind that is no branch.
THEOREM TypeCorrect == Spec => []TypeOK
<1>1. Inv /\ FlagsOK => TypeOK
  BY DEF Inv, DataOK, FlagsOK, TypeOK
<1> QED
  BY <1>1, InvInit, InvStep, FlagsStep, PTL DEF Spec

-----------------------------------------------------------------------------
(* Behind for any list, and what the steps do to it.                       *)

BehindIn(s, j, i, ks) ==
  /\ i \in ks \cup {0} /\ i < j
  /\ \A k \in ks : k < j => k <= i /\ ~Wrong(s[k])

LEMMA AppendOf ==
  ASSUME NEW s \in Seq(Flight), NEW e \in Flight, NEW t, t = Append(s, e)
  PROVE  /\ Len(s) \in Nat /\ Len(t) = Len(s) + 1
         /\ \A k \in 1 .. Len(s) : t[k] = s[k]
         /\ t[Len(s) + 1] = e
  OBVIOUS

\* A branch that enters is behind the one before it, and others are behind it.
LEMMA AppendBehind ==
  ASSUME NEW s \in Seq(Flight), NEW e \in Flight, NEW t, t = Append(s, e),
         NEW ks \in SUBSET (1 .. Len(s)),
         NEW ls, ls = ks \/ ls = ks \cup {Len(s) + 1},
         NEW j \in 1 .. Len(t) + 1, NEW i \in 0 .. Len(t), BehindIn(t, j, i, ls)
  PROVE  /\ j <= Len(s) + 1 => i \in 0 .. Len(s) /\ BehindIn(s, j, i, ks)
         /\ j = Len(s) + 2 /\ ls = ks =>
              i \in 0 .. Len(s) /\ BehindIn(s, Len(s) + 1, i, ks)
         /\ j = Len(s) + 2 /\ ls # ks => i = Len(s) + 1
         /\ j <= Len(s) + 2
<1>1. /\ Len(s) \in Nat /\ Len(t) = Len(s) + 1
      /\ \A k \in ks : k \in 1 .. Len(s) /\ t[k] = s[k]
  <2>1. /\ Len(s) \in Nat /\ Len(t) = Len(s) + 1
        /\ \A k \in 1 .. Len(s) : t[k] = s[k]
    BY AppendOf
  <2> QED
    BY <2>1
<1>2. /\ i \in ls \cup {0} /\ i < j
      /\ \A k \in ks : k < j => k <= i /\ ~Wrong(s[k])
  BY <1>1 DEF BehindIn
<1>3. CASE j <= Len(s) + 1
  <2>1. i \in 0 .. Len(s) /\ i \in ks \cup {0}
    BY <1>1, <1>2, <1>3
  <2> QED
    BY <1>1, <1>2, <1>3, <2>1 DEF BehindIn
<1>4. CASE j = Len(s) + 2 /\ ls = ks
  <2>1. i \in 0 .. Len(s) /\ i < Len(s) + 1
    BY <1>1, <1>2, <1>4
  <2>2. \A k \in ks : k < Len(s) + 1 => k <= i /\ ~Wrong(s[k])
    BY <1>1, <1>2, <1>4
  <2> QED
    BY <1>1, <1>2, <1>4, <2>1, <2>2 DEF BehindIn
<1>5. CASE j = Len(s) + 2 /\ ls # ks
  <2>1. Len(s) + 1 \in ls
    BY <1>5
  <2>2. Len(s) + 1 <= i
    BY <1>1, <1>5, <2>1 DEF BehindIn
  <2> QED
    BY <1>1, <1>5, <2>2
<1> QED
  BY <1>1, <1>3, <1>4, <1>5

\* When the oldest leaves, those behind it are behind what retired.
LEMMA TailBehind ==
  ASSUME NEW s \in Seq(Flight), s # <<>>, NEW ks \in SUBSET (1 .. Len(s)),
         NEW ls, ls = {k \in 1 .. Len(s) - 1 : k + 1 \in ks},
         1 \in ks => ~Wrong(s[1]),
         NEW j \in 1 .. Len(s), NEW i \in 0 .. Len(s) - 1, BehindIn(Tail(s), j, i, ls)
  PROVE  BehindIn(s, j + 1, IF i = 0 /\ 1 \notin ks THEN 0 ELSE i + 1, ks)
<1>1. Len(s) \in Nat /\ \A k \in 1 .. Len(s) - 1 : Tail(s)[k] = s[k + 1]
  OBVIOUS
<1> DEFINE m == IF i = 0 /\ 1 \notin ks THEN 0 ELSE i + 1
<1>2. \A k \in ks : k # 1 => k - 1 \in ls /\ Tail(s)[k - 1] = s[k]
  BY <1>1
<1>3. m \in ks \cup {0} /\ m < j + 1
  BY <1>1 DEF BehindIn
<1>4. ASSUME NEW k \in ks, k < j + 1
      PROVE  k <= m /\ ~Wrong(s[k])
  <2>1. CASE k = 1
    BY <2>1
  <2>2. CASE k # 1
    <3>1. k - 1 \in ls /\ k - 1 < j /\ Tail(s)[k - 1] = s[k] /\ k \in 1 .. Len(s)
      BY <1>1, <1>2, <1>4, <2>2
    <3>2. k - 1 <= i /\ ~Wrong(s[k])
      BY <3>1 DEF BehindIn
    <3> QED
      BY <1>1, <3>1, <3>2
  <2> QED
    BY <2>1, <2>2
<1> QED
  BY <1>3, <1>4 DEF BehindIn

LEMMA BehindIsIn ==
  /\ \A j, i, ks : Behind(j, i, ks) <=> BehindIn(inflight, j, i, ks)
  /\ \A j, i : Behind(j, i, Branches)' <=> BehindIn(inflight', j, i, Branches')
  /\ \A j, i, p : Behind(j, i, BranchesAt(p))' <=> BehindIn(inflight', j, i, BranchesAt(p)')
  BY DEF Behind, BehindIn

-----------------------------------------------------------------------------
(* The global history.                                                     *)

LEMMA GlobalFetch ==
  ASSUME Inv, GlobalInStep,
         NEW pc \in Pc, NEW cond \in BOOLEAN, NEW guess \in BOOLEAN, NEW jump \in BOOLEAN,
         NEW hit \in BOOLEAN, NEW predicted \in BOOLEAN,
         Fetch(pc, cond, guess, jump, hit, predicted)
  PROVE  GlobalInStep'
<1> DEFINE e == [pc |-> pc, cond |-> cond, guess |-> guess, jump |-> jump, hit |-> hit,
                 predicted |-> predicted, global |-> gshare_global_history,
                 local |-> local_bht[pc], finish |-> FALSE]
           n == Len(inflight)
<1>1. inflight \in Seq(Flight) /\ e \in Flight
  BY DEF Inv, DataOK, Flight
<1>2. inflight' = Append(inflight, e)
  BY DEF Fetch
<1>3. /\ n \in Nat /\ Len(inflight') = n + 1
      /\ \A k \in 1 .. n : inflight'[k] = inflight[k]
      /\ inflight'[n + 1] = e
  BY <1>1, <1>2, AppendOf
<1>4. /\ gshare_global_history' = GlobalGuess(e)
      /\ gshare_global_history_retired' = gshare_global_history_retired
      /\ upset' = upset
  BY DEF Fetch
<1>5. e.cond = cond /\ e.guess = guess /\ e.global = gshare_global_history
  OBVIOUS
<1> HIDE DEF e
<1>6. /\ Branches \subseteq 1 .. n
      /\ Branches' = IF cond THEN Branches \cup {n + 1} ELSE Branches
  BY <1>3, <1>5 DEF Branches
<1> SUFFICES ASSUME ~upset, NEW i \in 0 .. Len(inflight'), NEW j \in 1 .. Len(inflight') + 1,
                    Behind(j, i, Branches)'
             PROVE  GlobalAt(j)' = GlobalBy(i)'
  BY <1>4 DEF GlobalInStep
<1>7. BehindIn(inflight', j, i, Branches')
  BY BehindIsIn
<1>8. /\ j <= n + 1 => i \in 0 .. n /\ Behind(j, i, Branches)
      /\ j = n + 2 /\ ~cond => i \in 0 .. n /\ Behind(n + 1, i, Branches)
      /\ j = n + 2 /\ cond => i = n + 1
      /\ j <= n + 2
  <2>1. /\ Branches' = Branches \/ Branches' = Branches \cup {n + 1}
        /\ cond <=> Branches' # Branches
    BY <1>3, <1>6
  <2>2. /\ j <= n + 1 => i \in 0 .. n /\ BehindIn(inflight, j, i, Branches)
        /\ j = n + 2 /\ Branches' = Branches =>
             i \in 0 .. n /\ BehindIn(inflight, n + 1, i, Branches)
        /\ j = n + 2 /\ Branches' # Branches => i = n + 1
        /\ j <= n + 2
    <3>1. /\ Branches \in SUBSET (1 .. Len(inflight))
          /\ j \in 1 .. Len(inflight') + 1 /\ i \in 0 .. Len(inflight')
      BY <1>6
    <3> QED
      BY <1>1, <1>2, <1>7, <2>1, <3>1, AppendBehind
  <2> QED
    BY <2>1, <2>2, BehindIsIn
<1>9. \A m \in 0 .. n : GlobalBy(m)' = GlobalBy(m)
  BY <1>3, <1>4 DEF GlobalBy
<1>10. CASE j <= n
  BY <1>3, <1>8, <1>9, <1>10 DEF GlobalAt, GlobalInStep
<1>11. CASE j = n + 1
  BY <1>3, <1>5, <1>8, <1>9, <1>11 DEF GlobalAt, GlobalInStep
<1>12. CASE j = n + 2 /\ cond
  <2>1. GlobalAt(j)' = Shifted(gshare_global_history, W, guess)
    BY <1>3, <1>4, <1>5, <1>12 DEF GlobalAt, GlobalGuess
  <2>2. GlobalBy(i)' = Shifted(e.global, W, e.guess)
    BY <1>3, <1>8, <1>12 DEF GlobalBy
  <2> QED
    BY <2>1, <2>2, <1>5
<1>13. CASE j = n + 2 /\ ~cond
  BY <1>3, <1>4, <1>5, <1>8, <1>9, <1>13 DEF GlobalAt, GlobalInStep, GlobalGuess
<1> QED
  BY <1>3, <1>8, <1>10, <1>11, <1>12, <1>13

\* The branch unit: it mends only guesses that are wrong, and no place behind
\* a wrong one is spoken of.
LEMMA ResolveKeeps ==
  ASSUME Inv, NEW r \in 1 .. Len(inflight), Resolve(r)
  PROVE  /\ Len(inflight') = Len(inflight) /\ Len(inflight) \in Nat
         /\ \A k \in 1 .. Len(inflight) :
              /\ inflight'[k].pc = inflight[k].pc /\ inflight'[k].cond = inflight[k].cond
              /\ inflight'[k].guess = inflight[k].guess
              /\ inflight'[k].global = inflight[k].global
              /\ inflight'[k].local = inflight[k].local
              /\ Wrong(inflight'[k]) = Wrong(inflight[k])
         /\ NeedsFix(inflight[r]) => Wrong(inflight[r])
<1>1. inflight \in Seq(Flight) /\ inflight[r] \in Flight
  BY DEF Inv, DataOK
<1> DEFINE f == [inflight[r] EXCEPT !.finish = TRUE]
<1>2. inflight' = [inflight EXCEPT ![r] = f]
  BY DEF Resolve
<1>3. /\ f.pc = inflight[r].pc /\ f.cond = inflight[r].cond
      /\ f.guess = inflight[r].guess /\ f.global = inflight[r].global
      /\ f.local = inflight[r].local /\ f.predicted = inflight[r].predicted
      /\ f.hit = inflight[r].hit
  BY <1>1 DEF Flight
<1> HIDE DEF f
<1>4. /\ Len(inflight') = Len(inflight) /\ Len(inflight) \in Nat
      /\ \A k \in 1 .. Len(inflight) : inflight'[k] = IF k = r THEN f ELSE inflight[k]
  BY <1>1, <1>2
<1>5. NeedsFix(inflight[r]) => Wrong(inflight[r])
  BY DEF Inv, HitsOK, NeedsFix, Wrong
<1> QED
  BY <1>3, <1>4, <1>5 DEF Wrong

LEMMA GlobalResolve ==
  ASSUME Inv, GlobalInStep, NEW r \in 1 .. Len(inflight), Resolve(r)
  PROVE  GlobalInStep'
<1>1. upset' = upset /\ gshare_global_history_retired' = gshare_global_history_retired
  BY DEF Resolve
<1>2. Branches' = Branches /\ Branches \subseteq 1 .. Len(inflight)
  BY ResolveKeeps DEF Branches
<1> SUFFICES ASSUME ~upset, NEW i \in 0 .. Len(inflight), NEW j \in 1 .. Len(inflight) + 1,
                    Behind(j, i, Branches)'
             PROVE  GlobalAt(j)' = GlobalBy(i)'
  BY <1>1, ResolveKeeps DEF GlobalInStep
<1>3. Behind(j, i, Branches)
  BY <1>2, ResolveKeeps DEF Behind
<1>4. GlobalBy(i)' = GlobalBy(i)
  BY <1>1, ResolveKeeps DEF GlobalBy
<1>5. CASE j <= Len(inflight)
  BY <1>3, <1>4, <1>5, ResolveKeeps DEF GlobalAt, GlobalInStep
<1>6. CASE j = Len(inflight) + 1
  <2>1. ~NeedsFix(inflight[r])
    <3>1. NeedsFix(inflight[r]) => r \in Branches /\ r < j /\ Wrong(inflight[r])
      BY <1>6, ResolveKeeps DEF Branches, NeedsFix
    <3> QED
      BY <1>3, <3>1 DEF Behind
  <2>2. gshare_global_history' = gshare_global_history
    BY <2>1 DEF Resolve
  <2> QED
    BY <1>3, <1>4, <1>6, <2>2, ResolveKeeps DEF GlobalAt, GlobalInStep
<1>7. j <= Len(inflight) \/ j = Len(inflight) + 1
  OBVIOUS
<1> QED
  BY <1>5, <1>6, <1>7, Zenon

\* Places and branches after the oldest one retired without a flush.
LEMMA OldestLeaves ==
  ASSUME Inv, inflight # <<>>, inflight' = Tail(inflight)
  PROVE  /\ inflight \in Seq(Flight)
         /\ Len(inflight) \in Nat \ {0} /\ Len(inflight') = Len(inflight) - 1
         /\ \A k \in 1 .. Len(inflight) - 1 : inflight'[k] = inflight[k + 1]
         /\ Branches' = {k \in 1 .. Len(inflight) - 1 : k + 1 \in Branches}
         /\ \A p : BranchesAt(p)' = {k \in 1 .. Len(inflight) - 1 : k + 1 \in BranchesAt(p)}
<1>1. inflight \in Seq(Flight)
  BY DEF Inv, DataOK
<1>2. /\ Len(inflight) \in Nat \ {0} /\ Len(inflight') = Len(inflight) - 1
      /\ \A k \in 1 .. Len(inflight) - 1 : inflight'[k] = inflight[k + 1]
  BY <1>1, TailOf
<1> QED
  BY <1>1, <1>2 DEF Branches, BranchesAt

\* The oldest leaves, and the retired history becomes what it left behind.
LEMMA GlobalRetire ==
  ASSUME Inv, GlobalInStep, inflight # <<>>, inflight' = Tail(inflight),
         upset => upset', ~Wrong(inflight[1]),
         gshare_global_history' = gshare_global_history,
         gshare_global_history_retired' =
           IF inflight[1].cond
           THEN Shifted(gshare_global_history_retired, W, inflight[1].guess)
           ELSE gshare_global_history_retired
  PROVE  GlobalInStep'
<1> DEFINE n == Len(inflight)
<1>1. Branches \in SUBSET (1 .. n) /\ (1 \in Branches <=> inflight[1].cond)
  BY OldestLeaves DEF Branches
<1> SUFFICES ASSUME ~upset, NEW i \in 0 .. n - 1, NEW j \in 1 .. n,
                    Behind(j, i, Branches)'
             PROVE  GlobalAt(j)' = GlobalBy(i)'
  BY OldestLeaves DEF GlobalInStep
<1> DEFINE m == IF i = 0 /\ 1 \notin Branches THEN 0 ELSE i + 1
<1>2. Behind(j + 1, m, Branches)
  <2>1. BehindIn(Tail(inflight), j, i, Branches')
    BY BehindIsIn
  <2>2. BehindIn(inflight, j + 1, m, Branches)
    BY <1>1, <2>1, OldestLeaves, TailBehind
  <2> QED
    BY <2>2, BehindIsIn
<1>3. j + 1 \in 1 .. n + 1 /\ m \in 0 .. n
  BY OldestLeaves
<1>4. GlobalAt(j + 1) = GlobalBy(m)
  BY <1>2, <1>3 DEF GlobalInStep
<1>5. GlobalAt(j)' = GlobalAt(j + 1)
  BY OldestLeaves DEF GlobalAt
<1>6. GlobalBy(i)' = GlobalBy(m)
  <2>1. CASE i # 0
    BY <2>1, OldestLeaves DEF GlobalBy
  <2>2. CASE i = 0 /\ 1 \notin Branches
    BY <1>1, <2>2 DEF GlobalBy
  <2>3. CASE i = 0 /\ 1 \in Branches
    <3>1. Behind(1, 0, Branches)
      BY <1>1 DEF Behind
    <3>2. inflight[1].global = gshare_global_history_retired
      BY <3>1, OldestLeaves DEF GlobalInStep, GlobalAt, GlobalBy
    <3> QED
      BY <1>1, <2>3, <3>2 DEF GlobalBy
  <2> QED
    BY <2>1, <2>2, <2>3
<1> QED
  BY <1>4, <1>5, <1>6

\* All is dropped, and the two histories are the same.
LEMMA GlobalDrop ==
  ASSUME inflight' = <<>>, upset' \/ gshare_global_history' = gshare_global_history_retired'
  PROVE  GlobalInStep'
  BY DEF GlobalInStep, GlobalAt, GlobalBy

\* Nothing in flight shifted the guessed history: it is the retired one.
LEMMA GlobalUntouched ==
  ASSUME inflight \in Seq(Flight), GlobalInStep, ~upset, Branches = {}
  PROVE  gshare_global_history = gshare_global_history_retired
<1>1. Len(inflight) \in Nat /\ Behind(Len(inflight) + 1, 0, Branches)
  BY DEF Behind
<1>2. GlobalAt(Len(inflight) + 1) = GlobalBy(0)
  BY <1>1 DEF GlobalInStep
<1> QED
  BY <1>1, <1>2 DEF GlobalAt, GlobalBy

LEMMA GlobalStep == Inv /\ GlobalInStep /\ [Next]_vars => GlobalInStep'
<1> SUFFICES ASSUME Inv, GlobalInStep, [Next]_vars PROVE GlobalInStep'
  OBVIOUS
<1>1. ASSUME NEW pc \in Pc, NEW cond \in BOOLEAN, NEW guess \in BOOLEAN, NEW jump \in BOOLEAN,
             NEW hit \in BOOLEAN, NEW predicted \in BOOLEAN,
             Fetch(pc, cond, guess, jump, hit, predicted)
      PROVE  GlobalInStep'
  BY <1>1, GlobalFetch
<1>2. ASSUME NEW i \in 1 .. Len(inflight), Resolve(i)
      PROVE  GlobalInStep'
  BY <1>2, GlobalResolve
<1>3. CASE CommitHit
  <2>1. ~Wrong(inflight[1])
    BY <1>3 DEF CommitHit, Wrong
  <2>2. inflight[1].cond => inflight[1].guess = inflight[1].jump
    <3>1. inflight # <<>> /\ inflight[1].hit
      BY <1>3 DEF CommitHit
    <3>2. 1 \in 1 .. Len(inflight)
      BY <3>1 DEF Inv, DataOK
    <3>3. inflight[1] \in Flight
      BY <3>2 DEF Inv, DataOK
    <3> QED
      BY <3>1, <3>2, <3>3 DEF Inv, HitsOK, Flight
  <2> QED
    BY <1>3, <2>1, <2>2, GlobalRetire DEF CommitHit
<1>4. CASE CommitMissCond
  BY <1>4, GlobalDrop DEF CommitMissCond, Mended
<1>5. CASE CommitMissJump
  <2>1. /\ inflight # <<>> /\ inflight' = <<>> /\ ~inflight[1].cond
        /\ upset' = (upset \/ Conds(Tail(inflight)) # {})
        /\ UNCHANGED global_vars
    BY <1>5 DEF CommitMissJump, Dropped
  <2>2. inflight \in Seq(Flight)
    BY DEF Inv, DataOK
  <2>3. Conds(Tail(inflight)) = {} => Branches = {}
    <3>1. /\ Len(Tail(inflight)) = Len(inflight) - 1 /\ Len(inflight) \in Nat
          /\ \A k \in 1 .. Len(inflight) - 1 : Tail(inflight)[k] = inflight[k + 1]
      BY <2>1, <2>2, TailOf
    <3>2. ASSUME Conds(Tail(inflight)) = {}, NEW k \in Branches
          PROVE  FALSE
      <4>1. k \in 1 .. Len(inflight) /\ inflight[k].cond /\ k # 1
        BY <2>1 DEF Branches
      <4>2. k - 1 \in 1 .. Len(Tail(inflight)) /\ Tail(inflight)[k - 1].cond
        BY <3>1, <4>1
      <4>3. Tail(inflight)[k - 1].pc \in Conds(Tail(inflight))
        BY <4>2 DEF Conds
      <4> QED
        BY <3>2, <4>3
    <3> QED
      BY <3>2
  <2> QED
    BY <2>1, <2>2, <2>3, GlobalUntouched, GlobalDrop DEF global_vars
<1>6. CASE CommitUnpredicted
  <2>1. /\ inflight # <<>> /\ inflight' = Tail(inflight) /\ ~Wrong(inflight[1])
        /\ upset' = (upset \/ inflight[1].cond)
        /\ UNCHANGED global_vars
    BY <1>6 DEF CommitUnpredicted, Wrong
  <2>2. CASE inflight[1].cond
    BY <2>1, <2>2 DEF GlobalInStep
  <2>3. CASE ~inflight[1].cond
    BY <2>1, <2>3, GlobalRetire DEF global_vars
  <2> QED
    BY <2>2, <2>3
<1>7. CASE Trap
  <2>1. /\ inflight' = <<>> /\ UNCHANGED global_vars
        /\ upset' = (upset \/ Conds(inflight) # {})
    BY <1>7 DEF Trap, Dropped
  <2>2. Conds(inflight) = {} => Branches = {}
    BY DEF Conds, Branches
  <2> QED
    BY <2>1, <2>2, GlobalUntouched, GlobalDrop DEF global_vars, Inv, DataOK
<1>8. CASE Reset
  BY <1>8, GlobalDrop DEF Reset
<1>9. CASE UNCHANGED vars
  BY <1>9 DEF vars, global_vars, GlobalInStep, GlobalAt, GlobalBy, Behind, Branches, Wrong
<1> QED
  BY <1>1, <1>2, <1>3, <1>4, <1>5, <1>6, <1>7, <1>8, <1>9 DEF Next

\* The guess of each branch is made with the history it is trained with, for
\* every width of the history and any number of branches in flight.
THEOREM GlobalHistoryInStep == Spec => []GlobalInStep
<1>1. Init => GlobalInStep
  BY DEF Init, GlobalInStep, GlobalAt, GlobalBy
<1> QED
  BY <1>1, InvInit, InvStep, GlobalStep, PTL DEF Spec

-----------------------------------------------------------------------------
(* The local histories, one entry at a time.                               *)

LocalInStepAt(p) ==
  \A i \in 0 .. Len(inflight), j \in 1 .. Len(inflight) + 1 :
    /\ Behind(j, i, BranchesAt(p))
    /\ j <= Len(inflight) => inflight[j].pc = p
    => LocalAt(j, p) = LocalBy(i, p)

LEMMA LocalEntries ==
  /\ LocalInStep <=> \A p \in Pc \ upset_local : LocalInStepAt(p)
  /\ LocalInStep' <=> \A p \in Pc \ upset_local' : LocalInStepAt(p)'
  BY DEF LocalInStep, LocalInStepAt

LEMMA LocalFetch ==
  ASSUME Inv, NEW p \in Pc, LocalInStepAt(p),
         NEW pc \in Pc, NEW cond \in BOOLEAN, NEW guess \in BOOLEAN, NEW jump \in BOOLEAN,
         NEW hit \in BOOLEAN, NEW predicted \in BOOLEAN,
         Fetch(pc, cond, guess, jump, hit, predicted)
  PROVE  LocalInStepAt(p)'
<1> DEFINE e == [pc |-> pc, cond |-> cond, guess |-> guess, jump |-> jump, hit |-> hit,
                 predicted |-> predicted, global |-> gshare_global_history,
                 local |-> local_bht[pc], finish |-> FALSE]
           n == Len(inflight)
           mine == cond /\ pc = p
<1>1. inflight \in Seq(Flight) /\ e \in Flight
  BY DEF Inv, DataOK, Flight
<1>2. inflight' = Append(inflight, e)
  BY DEF Fetch
<1>3. /\ n \in Nat /\ Len(inflight') = n + 1
      /\ \A k \in 1 .. n : inflight'[k] = inflight[k]
      /\ inflight'[n + 1] = e
  BY <1>1, <1>2, AppendOf
<1>4. local_bht' = LocalGuess(e) /\ local_bht_retired' = local_bht_retired
  BY DEF Fetch
<1>5. e.cond = cond /\ e.guess = guess /\ e.local = local_bht[pc] /\ e.pc = pc
  OBVIOUS
<1> HIDE DEF e
<1>6. local_bht'[p] = IF mine THEN Shifted(local_bht[p], L, guess) ELSE local_bht[p]
  BY <1>4, <1>5 DEF LocalGuess, Inv, DataOK
<1>7. /\ BranchesAt(p) \subseteq 1 .. n
      /\ BranchesAt(p)' = IF mine THEN BranchesAt(p) \cup {n + 1} ELSE BranchesAt(p)
  BY <1>3, <1>5 DEF BranchesAt, Branches
<1> SUFFICES ASSUME NEW i \in 0 .. Len(inflight'), NEW j \in 1 .. Len(inflight') + 1,
                    Behind(j, i, BranchesAt(p))',
                    j <= Len(inflight') => inflight'[j].pc = p
             PROVE  LocalAt(j, p)' = LocalBy(i, p)'
  BY DEF LocalInStepAt
<1>8. /\ j <= n + 1 => i \in 0 .. n /\ Behind(j, i, BranchesAt(p))
      /\ j = n + 2 /\ ~mine => i \in 0 .. n /\ Behind(n + 1, i, BranchesAt(p))
      /\ j = n + 2 /\ mine => i = n + 1
      /\ j <= n + 2
  <2>1. /\ BranchesAt(p)' = BranchesAt(p) \/ BranchesAt(p)' = BranchesAt(p) \cup {n + 1}
        /\ mine <=> BranchesAt(p)' # BranchesAt(p)
    BY <1>3, <1>7
  <2>2. /\ BranchesAt(p) \in SUBSET (1 .. Len(inflight))
        /\ j \in 1 .. Len(inflight') + 1 /\ i \in 0 .. Len(inflight')
        /\ BehindIn(inflight', j, i, BranchesAt(p)')
    BY <1>7, BehindIsIn
  <2>3. /\ j <= n + 1 => i \in 0 .. n /\ BehindIn(inflight, j, i, BranchesAt(p))
        /\ j = n + 2 /\ BranchesAt(p)' = BranchesAt(p) =>
             i \in 0 .. n /\ BehindIn(inflight, n + 1, i, BranchesAt(p))
        /\ j = n + 2 /\ BranchesAt(p)' # BranchesAt(p) => i = n + 1
        /\ j <= n + 2
    BY <1>1, <1>2, <2>1, <2>2, AppendBehind
  <2> QED
    BY <2>1, <2>3, BehindIsIn
<1>9. \A m \in 0 .. n : LocalBy(m, p)' = LocalBy(m, p)
  BY <1>3, <1>4 DEF LocalBy
<1>10. CASE j <= n
  BY <1>3, <1>8, <1>9, <1>10 DEF LocalAt, LocalInStepAt
<1>11. CASE j = n + 1
  <2>1. LocalAt(j, p)' = local_bht[p] /\ LocalAt(n + 1, p) = local_bht[p]
    BY <1>3, <1>5, <1>11 DEF LocalAt
  <2> QED
    BY <1>3, <1>8, <1>9, <1>11, <2>1 DEF LocalInStepAt
<1>12. CASE j = n + 2 /\ mine
  <2>1. LocalAt(j, p)' = Shifted(local_bht[p], L, guess)
    BY <1>3, <1>6, <1>12 DEF LocalAt
  <2>2. LocalBy(i, p)' = Shifted(e.local, L, e.guess)
    BY <1>3, <1>8, <1>12 DEF LocalBy
  <2> QED
    BY <2>1, <2>2, <1>5, <1>12
<1>13. CASE j = n + 2 /\ ~mine
  <2>1. LocalAt(j, p)' = local_bht[p] /\ LocalAt(n + 1, p) = local_bht[p]
    BY <1>3, <1>6, <1>13 DEF LocalAt
  <2> QED
    BY <1>3, <1>8, <1>9, <1>13, <2>1 DEF LocalInStepAt
<1> QED
  BY <1>3, <1>8, <1>10, <1>11, <1>12, <1>13

LEMMA LocalResolve ==
  ASSUME Inv, NEW p \in Pc, LocalInStepAt(p), NEW r \in 1 .. Len(inflight), Resolve(r)
  PROVE  LocalInStepAt(p)'
<1>1. local_bht_retired' = local_bht_retired
  BY DEF Resolve
<1>2. BranchesAt(p)' = BranchesAt(p) /\ BranchesAt(p) \subseteq 1 .. Len(inflight)
  BY ResolveKeeps DEF Branches, BranchesAt
<1> SUFFICES ASSUME NEW i \in 0 .. Len(inflight), NEW j \in 1 .. Len(inflight) + 1,
                    Behind(j, i, BranchesAt(p))',
                    j <= Len(inflight) => inflight'[j].pc = p
             PROVE  LocalAt(j, p)' = LocalBy(i, p)'
  BY ResolveKeeps DEF LocalInStepAt
<1>3. /\ Behind(j, i, BranchesAt(p))
      /\ j <= Len(inflight) => inflight[j].pc = p
  BY <1>2, ResolveKeeps DEF Behind
<1>4. LocalBy(i, p)' = LocalBy(i, p)
  BY <1>1, ResolveKeeps DEF LocalBy
<1>5. CASE j <= Len(inflight)
  BY <1>3, <1>4, <1>5, ResolveKeeps DEF LocalAt, LocalInStepAt
<1>6. CASE j = Len(inflight) + 1
  <2>1. ~(NeedsFix(inflight[r]) /\ inflight[r].pc = p)
    <3>1. NeedsFix(inflight[r]) /\ inflight[r].pc = p =>
            r \in BranchesAt(p) /\ r < j /\ Wrong(inflight[r])
      BY <1>6, ResolveKeeps DEF Branches, BranchesAt, NeedsFix
    <3> QED
      BY <1>3, <3>1 DEF Behind
  <2>2. local_bht'[p] = local_bht[p]
    BY <2>1 DEF Resolve, Inv, DataOK
  <2> QED
    BY <1>3, <1>4, <1>6, <2>2, ResolveKeeps DEF LocalAt, LocalInStepAt
<1> QED
  BY <1>5, <1>6, ResolveKeeps

LEMMA LocalRetire ==
  ASSUME Inv, NEW p \in Pc, LocalInStepAt(p), inflight # <<>>, inflight' = Tail(inflight),
         inflight[1].pc = p => ~Wrong(inflight[1]),
         local_bht' = local_bht,
         local_bht_retired'[p] =
           IF inflight[1].cond /\ inflight[1].pc = p
           THEN Shifted(local_bht_retired[p], L, inflight[1].guess)
           ELSE local_bht_retired[p]
  PROVE  LocalInStepAt(p)'
<1> DEFINE n == Len(inflight)
<1>1. /\ BranchesAt(p) \in SUBSET (1 .. n)
      /\ 1 \in BranchesAt(p) <=> inflight[1].cond /\ inflight[1].pc = p
  BY OldestLeaves DEF BranchesAt, Branches
<1> SUFFICES ASSUME NEW i \in 0 .. n - 1, NEW j \in 1 .. n, Behind(j, i, BranchesAt(p))',
                    j <= n - 1 => inflight'[j].pc = p
             PROVE  LocalAt(j, p)' = LocalBy(i, p)'
  BY OldestLeaves DEF LocalInStepAt
<1> DEFINE m == IF i = 0 /\ 1 \notin BranchesAt(p) THEN 0 ELSE i + 1
<1>2. Behind(j + 1, m, BranchesAt(p))
  <2>1. BehindIn(Tail(inflight), j, i, BranchesAt(p)')
    BY BehindIsIn
  <2>2. 1 \in BranchesAt(p) => ~Wrong(inflight[1])
    BY <1>1
  <2>3. BehindIn(inflight, j + 1, m, BranchesAt(p))
    BY <1>1, <2>1, <2>2, OldestLeaves, TailBehind
  <2> QED
    BY <2>3, BehindIsIn
<1>3. /\ j + 1 \in 1 .. n + 1 /\ m \in 0 .. n
      /\ j + 1 <= n => inflight[j + 1].pc = p
  BY OldestLeaves
<1>4. LocalAt(j + 1, p) = LocalBy(m, p)
  BY <1>2, <1>3 DEF LocalInStepAt
<1>5. LocalAt(j, p)' = LocalAt(j + 1, p)
  BY OldestLeaves DEF LocalAt
<1>6. LocalBy(i, p)' = LocalBy(m, p)
  <2>1. CASE i # 0
    BY <2>1, OldestLeaves DEF LocalBy
  <2>2. CASE i = 0 /\ 1 \notin BranchesAt(p)
    BY <1>1, <2>2 DEF LocalBy
  <2>3. CASE i = 0 /\ 1 \in BranchesAt(p)
    <3>1. Behind(1, 0, BranchesAt(p)) /\ inflight[1].pc = p
      BY <1>1, <2>3 DEF Behind
    <3>2. inflight[1].local = local_bht_retired[p]
      BY <3>1, OldestLeaves DEF LocalInStepAt, LocalAt, LocalBy
    <3> QED
      BY <1>1, <2>3, <3>2 DEF LocalBy
  <2> QED
    BY <2>1, <2>2, <2>3
<1> QED
  BY <1>4, <1>5, <1>6

LEMMA LocalDrop ==
  ASSUME inflight' = <<>>, NEW p \in Pc, local_bht'[p] = local_bht_retired'[p]
  PROVE  LocalInStepAt(p)'
  BY DEF LocalInStepAt, LocalAt, LocalBy

\* No branch in flight has entry p: what fetch sees there is what retired.
LEMMA LocalUntouched ==
  ASSUME inflight \in Seq(Flight), NEW p \in Pc, LocalInStepAt(p), BranchesAt(p) = {}
  PROVE  local_bht[p] = local_bht_retired[p]
<1>1. Len(inflight) \in Nat /\ Behind(Len(inflight) + 1, 0, BranchesAt(p))
  BY DEF Behind
<1>2. LocalAt(Len(inflight) + 1, p) = LocalBy(0, p)
  BY <1>1 DEF LocalInStepAt
<1> QED
  BY <1>1, <1>2 DEF LocalAt, LocalBy

\* A branch in flight is the oldest, or one of those behind it.
LEMMA NotInTail ==
  ASSUME inflight \in Seq(Flight), inflight # <<>>, NEW p \in Pc,
         p \notin Conds(Tail(inflight)), ~(inflight[1].cond /\ inflight[1].pc = p)
  PROVE  BranchesAt(p) = {}
<1>1. /\ Len(Tail(inflight)) = Len(inflight) - 1 /\ Len(inflight) \in Nat
      /\ \A k \in 1 .. Len(inflight) - 1 : Tail(inflight)[k] = inflight[k + 1]
  BY TailOf
<1>2. ASSUME NEW k \in BranchesAt(p) PROVE FALSE
  <2>1. k \in 1 .. Len(inflight) /\ inflight[k].cond /\ inflight[k].pc = p /\ k # 1
    BY DEF Branches, BranchesAt
  <2>2. /\ k - 1 \in 1 .. Len(Tail(inflight))
        /\ Tail(inflight)[k - 1].cond /\ Tail(inflight)[k - 1].pc = p
    BY <1>1, <2>1
  <2> QED
    BY <2>2 DEF Conds
<1> QED
  BY <1>2

LEMMA LocalStep == Inv /\ LocalInStep /\ [Next]_vars => LocalInStep'
<1> SUFFICES ASSUME Inv, LocalInStep, [Next]_vars, NEW p \in Pc, p \notin upset_local'
             PROVE  LocalInStepAt(p)'
  BY LocalEntries
<1>0. inflight \in Seq(Flight) /\ (p \notin upset_local => LocalInStepAt(p))
  BY LocalEntries DEF Inv, DataOK
<1>1. ASSUME NEW pc \in Pc, NEW cond \in BOOLEAN, NEW guess \in BOOLEAN, NEW jump \in BOOLEAN,
             NEW hit \in BOOLEAN, NEW predicted \in BOOLEAN,
             Fetch(pc, cond, guess, jump, hit, predicted)
      PROVE  LocalInStepAt(p)'
  <2>1. p \notin upset_local
    BY <1>1 DEF Fetch
  <2> QED
    BY <1>0, <1>1, <2>1, LocalFetch
<1>2. ASSUME NEW i \in 1 .. Len(inflight), Resolve(i)
      PROVE  LocalInStepAt(p)'
  <2>1. p \notin upset_local
    BY <1>2 DEF Resolve
  <2> QED
    BY <1>0, <1>2, <2>1, LocalResolve
<1>3. CASE CommitHit
  <2>1. /\ inflight # <<>> /\ inflight' = Tail(inflight) /\ inflight[1].hit
        /\ local_bht' = local_bht /\ p \notin upset_local
    BY <1>3 DEF CommitHit
  <2>2. 1 \in 1 .. Len(inflight) /\ inflight[1] \in Flight
    BY <1>0, <2>1
  <2>3. inflight[1].cond => inflight[1].guess = inflight[1].jump
    BY <2>1, <2>2 DEF Inv, HitsOK, Flight
  <2>4. local_bht_retired'[p] =
          IF inflight[1].cond /\ inflight[1].pc = p
          THEN Shifted(local_bht_retired[p], L, inflight[1].guess)
          ELSE local_bht_retired[p]
    <3>1. local_bht_retired' =
            IF inflight[1].cond
            THEN [local_bht_retired EXCEPT ![inflight[1].pc] =
                    Shifted(local_bht_retired[inflight[1].pc], L, inflight[1].jump)]
            ELSE local_bht_retired
      BY <1>3 DEF CommitHit
    <3> QED
      BY <2>3, <3>1 DEF Inv, DataOK
  <2>5. ~Wrong(inflight[1])
    BY <2>1 DEF Wrong
  <2> QED
    BY <1>0, <2>1, <2>4, <2>5, LocalRetire
<1>4. CASE CommitMissCond
  <2>1. /\ inflight # <<>> /\ inflight' = <<>> /\ inflight[1].cond
        /\ upset_local' = (upset_local \cup Conds(Tail(inflight))) \ {inflight[1].pc}
    BY <1>4 DEF CommitMissCond
  <2>2. CASE inflight[1].pc = p
    BY <1>4, <2>1, <2>2, LocalDrop DEF CommitMissCond, Inv, DataOK
  <2>3. CASE inflight[1].pc # p
    <3>1. local_bht[p] = local_bht_retired[p]
      BY <1>0, <2>1, <2>3, NotInTail, LocalUntouched
    <3>2. local_bht'[p] = local_bht[p] /\ local_bht_retired'[p] = local_bht_retired[p]
      BY <1>4, <2>3 DEF CommitMissCond, Inv, DataOK
    <3> QED
      BY <2>1, <3>1, <3>2, LocalDrop
  <2> QED
    BY <2>2, <2>3
<1>5. CASE CommitMissJump
  <2>1. /\ inflight # <<>> /\ inflight' = <<>> /\ ~inflight[1].cond
        /\ upset_local' = upset_local \cup Conds(Tail(inflight))
        /\ UNCHANGED local_vars
    BY <1>5 DEF CommitMissJump, Dropped
  <2>2. local_bht[p] = local_bht_retired[p]
    BY <1>0, <2>1, NotInTail, LocalUntouched
  <2> QED
    BY <2>1, <2>2, LocalDrop DEF local_vars
<1>6. CASE CommitUnpredicted
  <2>1. /\ inflight # <<>> /\ inflight' = Tail(inflight) /\ ~Wrong(inflight[1])
        /\ p \notin upset_local /\ ~(inflight[1].cond /\ inflight[1].pc = p)
        /\ UNCHANGED local_vars
    BY <1>6 DEF CommitUnpredicted, Wrong
  <2> QED
    BY <1>0, <2>1, LocalRetire DEF local_vars
<1>7. CASE Trap
  <2>1. /\ inflight' = <<>> /\ UNCHANGED local_vars
        /\ p \notin upset_local /\ p \notin Conds(inflight)
    BY <1>7 DEF Trap, Dropped
  <2>2. BranchesAt(p) = {}
    BY <2>1 DEF Conds, Branches, BranchesAt
  <2> QED
    BY <1>0, <2>1, <2>2, LocalUntouched, LocalDrop DEF local_vars
<1>8. CASE Reset
  BY <1>8, LocalDrop DEF Reset
<1>9. CASE UNCHANGED vars
  <2>1. p \notin upset_local
    BY <1>9 DEF vars
  <2> QED
    BY <1>0, <1>9, <2>1 DEF vars, local_vars, LocalInStepAt, LocalAt, LocalBy, Behind,
                            BranchesAt, Branches, Wrong
<1> QED
  BY <1>1, <1>2, <1>3, <1>4, <1>5, <1>6, <1>7, <1>8, <1>9 DEF Next

\* The same for every entry of the local histories, of any width.
THEOREM LocalHistoriesInStep == Spec => []LocalInStep
<1>1. Init => LocalInStep
  BY DEF Init, LocalInStep, LocalAt, LocalBy
<1> QED
  BY <1>1, InvInit, InvStep, LocalStep, PTL DEF Spec

-----------------------------------------------------------------------------
(* The return stack: the addresses its items stand for.                    *)

\* Induction over numbers comes from there.
Count == INSTANCE RingProofs

StackItem == [addr : Addr, cnt : 1 .. MaxCnt]

\* The addresses an item stands for, and those of a sequence of them.
Copies(x) == [k \in 1 .. x.cnt |-> x.addr]

Spread(s) ==
  LET upto[n \in 0 .. Len(s)] == IF n = 0 THEN << >> ELSE upto[n - 1] \o Copies(s[n])
  IN  upto[Len(s)]

\* Two items on top of each other share an address only if the older is full.
Parted(s) ==
  /\ s \in Seq(StackItem)
  /\ \A i \in 1 .. Len(s) - 1 : s[i].addr = s[i + 1].addr => s[i].cnt = MaxCnt

\* The refinement mapping reads the items through Spread.
LEMMA StackSees == main_ras!Addresses = Spread(items)
BY DEF main_ras!Addresses, Spread, Copies

\* Spread as a recursive function that stands on its own.
LEMMA SpreadIs ==
  ASSUME NEW s, Len(s) \in Nat
  PROVE  \E f : /\ f = [n \in 0 .. Len(s) |-> IF n = 0 THEN << >> ELSE f[n - 1] \o Copies(s[n])]
                /\ Spread(s) = f[Len(s)]
<1> DEFINE Further(t, n) == t \o Copies(s[n])
           Step(g, n) == IF n = 0 THEN << >> ELSE Further(g[n - 1], n)
           S == {m \in Nat : \E g : g = [n \in 0 .. m |-> Step(g, n)]}
           f == CHOOSE g : g = [n \in 0 .. Len(s) |-> Step(g, n)]
<1> HIDE DEF Further
<1>1. 0 \in S
  <2> DEFINE g == [n \in 0 .. 0 |-> << >>]
  <2>1. g = [n \in 0 .. 0 |-> Step(g, n)]
    OBVIOUS
  <2> QED
    BY <2>1
<1>2. ASSUME NEW m \in Nat, m \in S
      PROVE  m + 1 \in S
  <2>1. PICK g : g = [n \in 0 .. m |-> Step(g, n)]
    BY <1>2
  <2> DEFINE h == [n \in 0 .. m + 1 |-> IF n = m + 1 THEN Further(g[m], m + 1) ELSE g[n]]
  <2>2. \A n \in 0 .. m + 1 : h[n] = Step(h, n)
    <3> SUFFICES ASSUME NEW n \in 0 .. m + 1
                 PROVE  h[n] = Step(h, n)
      OBVIOUS
    <3>1. CASE n = m + 1
      BY <3>1
    <3>2. CASE n \in 0 .. m
      <4>1. g[n] = Step(g, n)
        BY <2>1, <3>2, Zenon
      <4> QED
        BY <4>1, <3>2
    <3> QED
      BY <3>1, <3>2
  <2>3. h = [n \in 0 .. m + 1 |-> Step(h, n)]
    <3> HIDE DEF Step
    <3> QED
      BY <2>2
  <2> HIDE DEF h
  <2> QED
    BY <2>3
<1>3. Len(s) \in S
  <2> HIDE DEF S
  <2> QED
    BY <1>1, <1>2, Count!NatInd
<1>4. f = [n \in 0 .. Len(s) |-> Step(f, n)]
  BY <1>3, Zenon
<1>5. Spread(s) = f[Len(s)]
  BY Zenon DEF Spread, Further
<1> QED
  BY <1>4, <1>5, Zenon DEF Further

\* How long the run of equal addresses that ends at a place is.
RunOf(t) == CHOOSE run : run = [n \in 1 .. Len(t) |->
                                  IF n > 1 /\ t[n - 1] = t[n] THEN run[n - 1] + 1 ELSE 1]

\* That function exists, and counts from 1.
LEMMA RunIs ==
  ASSUME NEW T, NEW t \in Seq(T)
  PROVE  /\ RunOf(t) \in [1 .. Len(t) -> Nat \ {0}]
         /\ \A n \in 1 .. Len(t) :
              RunOf(t)[n] = IF n > 1 /\ t[n - 1] = t[n] THEN RunOf(t)[n - 1] + 1 ELSE 1
<1> DEFINE Step(g, n) == IF n > 1 /\ t[n - 1] = t[n] THEN g[n - 1] + 1 ELSE 1
           S == {m \in Nat : \E g \in [1 .. m -> Nat \ {0}] : g = [n \in 1 .. m |-> Step(g, n)]}
<1>1. 0 \in S
  <2> DEFINE g == [n \in 1 .. 0 |-> 1]
  <2>1. g = [n \in 1 .. 0 |-> Step(g, n)] /\ g \in [1 .. 0 -> Nat \ {0}]
    OBVIOUS
  <2> QED
    BY <2>1
<1>2. ASSUME NEW m \in Nat, m \in S
      PROVE  m + 1 \in S
  <2>1. PICK g \in [1 .. m -> Nat \ {0}] : g = [n \in 1 .. m |-> Step(g, n)]
    BY <1>2
  <2> DEFINE h == [n \in 1 .. m + 1 |-> IF n = m + 1 THEN Step(g, n) ELSE g[n]]
  <2>2. \A n \in 1 .. m + 1 : h[n] = Step(h, n) /\ h[n] \in Nat \ {0}
    <3> SUFFICES ASSUME NEW n \in 1 .. m + 1
                 PROVE  h[n] = Step(h, n) /\ h[n] \in Nat \ {0}
      OBVIOUS
    <3>1. CASE n = m + 1
      BY <3>1
    <3>2. CASE n \in 1 .. m
      <4>1. g[n] = Step(g, n)
        BY <2>1, <3>2, Zenon
      <4> QED
        BY <4>1, <3>2
    <3> QED
      BY <3>1, <3>2
  <2>3. h = [n \in 1 .. m + 1 |-> Step(h, n)] /\ h \in [1 .. m + 1 -> Nat \ {0}]
    <3> HIDE DEF Step
    <3> QED
      BY <2>2
  <2> HIDE DEF h
  <2> QED
    BY <2>3
<1>3. Len(t) \in S
  <2> HIDE DEF S
  <2> QED
    BY <1>1, <1>2, Count!NatInd
<1>4. PICK g \in [1 .. Len(t) -> Nat \ {0}] : g = [n \in 1 .. Len(t) |-> Step(g, n)]
  BY <1>3
<1>5. RunOf(t) = [n \in 1 .. Len(t) |-> Step(RunOf(t), n)]
  BY <1>4, Zenon DEF RunOf
<1>6. \A n \in 1 .. Len(t) : RunOf(t)[n] = Step(RunOf(t), n)
  BY <1>5, Zenon
<1> DEFINE r == RunOf(t)
           U == {m \in Nat : m = 0 \/ m > Len(t) \/ r[m] \in Nat \ {0}}
<1>7. Len(t) \in Nat
  OBVIOUS
<1> HIDE DEF r
<1>8. ASSUME NEW m \in Nat, m \in U
      PROVE  m + 1 \in U
  BY <1>6, <1>7, <1>8 DEF r
<1>9. Nat \subseteq U
  <2>1. 0 \in U
    OBVIOUS
  <2> HIDE DEF U
  <2> QED
    BY <1>8, <2>1, Count!NatInd
<1>10. r = [n \in 1 .. Len(t) |-> Step(r, n)]
  BY <1>5 DEF r
<1>11. r \in [1 .. Len(t) -> Nat \ {0}]
  <2>1. \A n \in 1 .. Len(t) : r[n] \in Nat \ {0}
    BY <1>7, <1>9
  <2>2. r = [n \in 1 .. Len(t) |-> r[n]]
    BY <1>10, Zenon
  <2> QED
    BY <2>1, <2>2
<1> QED
  BY <1>6, <1>11 DEF r

\* The starts of the places that a sequence of calls takes.
Starts(t) == {n \in 1 .. Len(t) : (RunOf(t)[n] - 1) % MaxCnt = 0}

\* The places of the abstract stack are counted by those starts.
LEMMA PlacesAre == \A t : main_ras!Stack!Places(t) = Cardinality(Starts(t))
<1> SUFFICES ASSUME NEW t
             PROVE  main_ras!Stack!Places(t) = Cardinality(Starts(t))
  OBVIOUS
<1> QED
  BY Zenon DEF main_ras!Stack!Places, Starts, RunOf, main_ras!Stack!Cardinality, Cardinality

\* Quotient and remainder.
LEMMA Division ==
  ASSUME NEW M \in Nat \ {0}, NEW x \in Nat
  PROVE  \E q \in Int, j \in 0 .. M - 1 : x = q * M + j /\ x % M = j
OBVIOUS

\* Counting on by one.
LEMMA NextRemainder ==
  ASSUME NEW M \in Nat \ {0}, NEW x \in Nat
  PROVE  /\ x % M \in 0 .. M - 1
         /\ (x + 1) % M = IF x % M = M - 1 THEN 0 ELSE (x % M) + 1
<1>1. PICK q \in Int, j \in 0 .. M - 1 : x = q * M + j /\ x % M = j
  BY Division
<1>2. PICK p \in Int, i \in 0 .. M - 1 : x + 1 = p * M + i /\ (x + 1) % M = i
  <2>1. x + 1 \in Nat
    OBVIOUS
  <2> QED
    BY <2>1, Division
<1>3. p * M + i = q * M + j + 1
  BY <1>1, <1>2
<1>4. p = q \/ p = q + 1
  <2>1. ~(p >= q + 2)
    <3> SUFFICES ASSUME p >= q + 2
                 PROVE  FALSE
      OBVIOUS
    <3>1. p * M >= (q + 2) * M
      OBVIOUS
    <3>2. (q + 2) * M = q * M + 2 * M
      OBVIOUS
    <3> QED
      BY <1>3, <3>1, <3>2
  <2>2. ~(p < q)
    <3> SUFFICES ASSUME p + 1 <= q
                 PROVE  FALSE
      OBVIOUS
    <3>1. (p + 1) * M <= q * M
      OBVIOUS
    <3>2. (p + 1) * M = p * M + M
      OBVIOUS
    <3> QED
      BY <1>3, <3>1, <3>2
  <2> QED
    BY <2>1, <2>2
<1>5. CASE p = q
  BY <1>1, <1>2, <1>3, <1>5
<1>6. CASE p = q + 1
  <2>1. p * M = q * M + M
    BY <1>6
  <2> QED
    BY <1>1, <1>2, <1>3, <2>1
<1> QED
  BY <1>4, <1>5, <1>6

\* A call more lengthens the last run or begins one.
LEMMA RunAppend ==
  ASSUME NEW T, NEW t \in Seq(T), NEW a \in T
  PROVE  /\ \A n \in 1 .. Len(t) : RunOf(Append(t, a))[n] = RunOf(t)[n]
         /\ RunOf(Append(t, a))[Len(t) + 1] =
              IF Len(t) > 0 /\ t[Len(t)] = a THEN RunOf(t)[Len(t)] + 1 ELSE 1
<1> DEFINE u == Append(t, a)
           r == RunOf(t)
           v == RunOf(u)
           m == Len(t)
           S == {n \in Nat : n = 0 \/ n > m \/ v[n] = r[n]}
<1>1. u \in Seq(T) /\ Len(u) = m + 1 /\ m \in Nat /\ u[m + 1] = a /\ \A n \in 1 .. m : u[n] = t[n]
  OBVIOUS
<1> HIDE DEF u
<1>2. \A n \in 1 .. m : r[n] = IF n > 1 /\ t[n - 1] = t[n] THEN r[n - 1] + 1 ELSE 1
  BY RunIs
<1>3. \A n \in 1 .. m + 1 : v[n] = IF n > 1 /\ u[n - 1] = u[n] THEN v[n - 1] + 1 ELSE 1
  BY <1>1, RunIs
<1> HIDE DEF r, v, m
<1>4. ASSUME NEW n \in Nat, n \in S
      PROVE  n + 1 \in S
  <2>1. CASE n + 1 > m
    BY <2>1
  <2>2. CASE n + 1 <= m /\ n > 0
    <3>1. v[n] = r[n] /\ n \in 1 .. m /\ n + 1 \in 1 .. m /\ n + 1 \in 1 .. m + 1 /\ (n + 1) - 1 = n /\ n + 1 > 1
      BY <1>1, <1>4, <2>2
    <3>2. u[n] = t[n] /\ u[n + 1] = t[n + 1]
      BY <1>1, <3>1
    <3>3. v[n + 1] = IF u[n] = u[n + 1] THEN v[n] + 1 ELSE 1
      BY <1>3, <3>1
    <3>4. r[n + 1] = IF t[n] = t[n + 1] THEN r[n] + 1 ELSE 1
      BY <1>2, <3>1
    <3> QED
      BY <3>1, <3>2, <3>3, <3>4
  <2>3. CASE n + 1 <= m /\ n = 0
    <3>1. 1 \in 1 .. m /\ 1 \in 1 .. m + 1
      BY <1>1, <2>3
    <3>2. v[1] = 1 /\ r[1] = 1
      BY <1>2, <1>3, <3>1
    <3> QED
      BY <2>3, <3>2
  <2> QED
    BY <1>1, <2>1, <2>2, <2>3
<1>5. Nat \subseteq S
  <2>1. 0 \in S
    OBVIOUS
  <2> HIDE DEF S
  <2> QED
    BY <1>4, <2>1, Count!NatInd
<1>6. \A n \in 1 .. m : v[n] = r[n]
  BY <1>1, <1>5
<1>7. v[m + 1] = IF m > 0 /\ t[m] = a THEN r[m] + 1 ELSE 1
  <2>1. m + 1 \in 1 .. m + 1 /\ (m + 1) - 1 = m
    BY <1>1
  <2>2. v[m + 1] = IF m + 1 > 1 /\ u[m] = u[m + 1] THEN v[m] + 1 ELSE 1
    BY <1>3, <2>1
  <2>3. CASE m > 0
    <3>1. m \in 1 .. m
      BY <1>1, <2>3
    <3>2. u[m] = t[m] /\ v[m] = r[m] /\ m + 1 > 1
      BY <1>1, <1>6, <2>3, <3>1
    <3> QED
      BY <1>1, <2>2, <2>3, <3>2
  <2>4. CASE ~(m > 0)
    BY <1>1, <2>2, <2>4
  <2> QED
    BY <2>3, <2>4
<1> QED
  BY <1>6, <1>7 DEF u, r, v, m

\* The calls t take n places, and the newest holds k calls from a.
Filled(t, n, a, k) ==
  /\ t \in Seq(Addr) /\ Len(t) > 0 /\ t[Len(t)] = a
  /\ Cardinality(Starts(t)) = n
  /\ k \in 1 .. MaxCnt /\ (RunOf(t)[Len(t)] - 1) % MaxCnt = k - 1

\* A call begins a place if it comes in at a multiple of MaxCnt in its run.
LEMMA StartsAppend ==
  ASSUME NEW t \in Seq(Addr), NEW a \in Addr
  PROVE  LET r == RunOf(Append(t, a))[Len(t) + 1]
         IN  /\ IsFiniteSet(Starts(t)) /\ Cardinality(Starts(t)) \in Nat
             /\ Cardinality(Starts(Append(t, a))) =
                  Cardinality(Starts(t)) + IF (r - 1) % MaxCnt = 0 THEN 1 ELSE 0
<1> DEFINE u == Append(t, a)
           r == RunOf(u)[Len(t) + 1]
           m == Len(t)
<1>1. Len(u) = m + 1 /\ m \in Nat
  OBVIOUS
<1>2. \A n \in 1 .. m : RunOf(u)[n] = RunOf(t)[n]
  BY RunAppend
<1>3. Starts(t) \subseteq 1 .. m
  BY DEF Starts
<1>4. IsFiniteSet(Starts(t)) /\ Cardinality(Starts(t)) \in Nat
  <2>1. IsFiniteSet(1 .. m)
    BY <1>1, FS_Interval
  <2> QED
    BY <1>3, <2>1, FS_Subset, FS_CardinalityType
<1> HIDE DEF u, m
<1>5. Starts(u) = Starts(t) \cup IF (r - 1) % MaxCnt = 0 THEN {m + 1} ELSE {}
  <2>1. \A n : n \in 1 .. m + 1 <=> n \in 1 .. m \/ n = m + 1
    BY <1>1
  <2>2. \A n \in 1 .. m + 1 : n \in Starts(u) <=> (RunOf(u)[n] - 1) % MaxCnt = 0
    BY <1>1 DEF Starts
  <2>3. \A n \in 1 .. m : n \in Starts(t) <=> (RunOf(t)[n] - 1) % MaxCnt = 0
    BY DEF Starts, m
  <2>4. m + 1 \in Starts(u) <=> (r - 1) % MaxCnt = 0
    BY <2>1, <2>2 DEF m
  <2>5. \A n \in 1 .. m : n \in Starts(u) <=> n \in Starts(t)
    BY <1>2, <2>1, <2>2, <2>3
  <2>6. Starts(u) \subseteq 1 .. m + 1
    BY <1>1 DEF Starts
  <2> HIDE DEF r
  <2> QED
    BY <1>3, <2>1, <2>4, <2>5, <2>6
<1>6. m + 1 \notin Starts(t)
  <2>1. m + 1 \notin 1 .. m
    BY <1>1
  <2> QED
    BY <1>3, <2>1
<1>7. Cardinality(Starts(t) \cup {m + 1}) = Cardinality(Starts(t)) + 1
  BY <1>4, <1>6, FS_AddElement
<1> HIDE DEF r
<1>8. Cardinality(Starts(u)) = Cardinality(Starts(t)) + IF (r - 1) % MaxCnt = 0 THEN 1 ELSE 0
  <2>1. CASE (r - 1) % MaxCnt = 0
    BY <1>5, <1>7, <2>1
  <2>2. CASE (r - 1) % MaxCnt # 0
    <3>1. Starts(u) = Starts(t)
      BY <1>5, <2>2
    <3> QED
      BY <1>4, <2>2, <3>1
  <2> QED
    BY <2>1, <2>2
<1> QED
  BY <1>4, <1>8 DEF u, m, r

\* One more call to a place that has room.
LEMMA CallShares ==
  ASSUME NEW t, NEW n, NEW a \in Addr, NEW k, Filled(t, n, a, k), k < MaxCnt
  PROVE  Filled(Append(t, a), n, a, k + 1)
<1> DEFINE u == Append(t, a)
           m == Len(t)
<1>1. /\ t \in Seq(Addr) /\ m \in Nat /\ m > 0 /\ t[m] = a /\ Cardinality(Starts(t)) = n
      /\ k \in 1 .. MaxCnt /\ (RunOf(t)[m] - 1) % MaxCnt = k - 1
  BY DEF Filled
<1>2. u \in Seq(Addr) /\ Len(u) = m + 1 /\ u[m + 1] = a
  BY <1>1
<1>3. PICK r \in Nat \ {0} : r = RunOf(t)[m]
  BY <1>1, RunIs
<1>4. RunOf(u)[m + 1] = r + 1
  BY <1>1, <1>3, RunAppend
<1>5. MaxCnt \in Nat \ {0}
  BY StackAssumption
<1>6. (r + 1 - 1) % MaxCnt = k
  <2>1. PICK x \in Nat : x = r - 1 /\ r + 1 - 1 = x + 1
    BY <1>3
  <2>2. (x + 1) % MaxCnt = IF x % MaxCnt = MaxCnt - 1 THEN 0 ELSE (x % MaxCnt) + 1
    BY <1>5, NextRemainder
  <2>3. x % MaxCnt = k - 1
    BY <1>1, <1>3, <2>1
  <2> HIDE DEF m
  <2> QED
    BY <1>1, <1>5, <2>1, <2>2, <2>3
<1> HIDE DEF u, m
<1>7. Cardinality(Starts(u)) = n
  <2>1. (r + 1 - 1) % MaxCnt # 0
    BY <1>1, <1>6
  <2>2. Cardinality(Starts(u)) = Cardinality(Starts(t)) + 0 /\ Cardinality(Starts(t)) \in Nat
    BY <1>1, <1>4, <2>1, StartsAppend DEF u, m
  <2> QED
    BY <1>1, <2>2
<1>8. k + 1 \in 1 .. MaxCnt /\ k + 1 - 1 = k /\ m + 1 > 0
  BY <1>1, <1>5
<1> QED
  BY <1>2, <1>4, <1>6, <1>7, <1>8 DEF Filled, u

\* A call that begins a place.
LEMMA CallBegins ==
  ASSUME NEW t \in Seq(Addr), NEW n \in Nat, NEW a \in Addr,
         \/ t = << >> /\ n = 0
         \/ \E b \in Addr, k \in 1 .. MaxCnt : Filled(t, n, b, k) /\ (b = a => k = MaxCnt)
  PROVE  Filled(Append(t, a), n + 1, a, 1)
<1> DEFINE u == Append(t, a)
           m == Len(t)
           r == RunOf(u)[m + 1]
<1>1. u \in Seq(Addr) /\ Len(u) = m + 1 /\ u[m + 1] = a /\ m \in Nat
  OBVIOUS
<1>2. MaxCnt \in Nat \ {0} /\ 1 \in 1 .. MaxCnt /\ 0 % MaxCnt = 0
  <2>1. MaxCnt \in Nat \ {0}
    BY StackAssumption
  <2> QED
    BY <2>1
<1>3. r = IF m > 0 /\ t[m] = a THEN RunOf(t)[m] + 1 ELSE 1
  BY RunAppend
<1>4. (r - 1) % MaxCnt = 0 /\ Cardinality(Starts(t)) = n
  <2>1. CASE t = << >> /\ n = 0
    <3>1. m = 0
      BY <2>1
    <3>2. r = 1
      BY <1>3, <3>1
    <3>3. Starts(t) = {}
      BY <3>1 DEF Starts
    <3>4. Cardinality(Starts(t)) = 0
      BY <3>3, FS_EmptySet
    <3> QED
      BY <1>2, <2>1, <3>2, <3>4
  <2>2. CASE \E b \in Addr, k \in 1 .. MaxCnt : Filled(t, n, b, k) /\ (b = a => k = MaxCnt)
    <3>1. PICK b \in Addr, k \in 1 .. MaxCnt : Filled(t, n, b, k) /\ (b = a => k = MaxCnt)
      BY <2>2
    <3>2. m > 0 /\ t[m] = b /\ Cardinality(Starts(t)) = n /\ (RunOf(t)[m] - 1) % MaxCnt = k - 1
      BY <3>1 DEF Filled
    <3>3. CASE b # a
      <4>1. r = 1
        BY <1>3, <3>2, <3>3
      <4> QED
        BY <1>2, <3>2, <4>1
    <3>4. CASE b = a
      <4>1. PICK q \in Nat \ {0} : q = RunOf(t)[m] /\ r = q + 1
        <5>1. m \in 1 .. m
          BY <1>1, <3>2
        <5>2. RunOf(t)[m] \in Nat \ {0}
          BY <5>1, RunIs
        <5> HIDE DEF r, m
        <5> QED
          BY <1>3, <3>2, <3>4, <5>2
      <4>2. PICK x \in Nat : x = q - 1 /\ r - 1 = x + 1
        BY <4>1
      <4>3. (x + 1) % MaxCnt = IF x % MaxCnt = MaxCnt - 1 THEN 0 ELSE (x % MaxCnt) + 1
        BY <1>2, NextRemainder
      <4>4. x % MaxCnt = MaxCnt - 1
        BY <3>1, <3>2, <3>4, <4>1, <4>2
      <4> QED
        BY <3>2, <4>2, <4>3, <4>4
    <3> QED
      BY <3>3, <3>4
  <2> QED
    BY <2>1, <2>2
<1> HIDE DEF u, m
<1>5. Cardinality(Starts(u)) = n + 1
  BY <1>4, StartsAppend DEF u, m
<1>6. 1 - 1 = 0 /\ m + 1 > 0
  BY <1>1
<1> QED
  BY <1>1, <1>2, <1>4, <1>5, <1>6 DEF Filled, u

\* The calls of one item.
LEMMA CopiesAre ==
  ASSUME NEW x \in StackItem
  PROVE  /\ Copies(x) \in Seq(Addr) /\ Len(Copies(x)) = x.cnt /\ x.cnt \in 1 .. MaxCnt /\ x.addr \in Addr
         /\ x.cnt \in Nat /\ \A k \in 1 .. x.cnt : Copies(x)[k] = x.addr
BY StackAssumption DEF StackItem, Copies

\* The calls of an item, one by one, are one place.
LEMMA ItemFills ==
  ASSUME NEW t \in Seq(Addr), NEW n \in Nat, NEW x \in StackItem,
         \/ t = << >> /\ n = 0
         \/ \E b \in Addr, k \in 1 .. MaxCnt : Filled(t, n, b, k) /\ (b = x.addr => k = MaxCnt)
  PROVE  Filled(t \o Copies(x), n + 1, x.addr, x.cnt)
<1> DEFINE a == x.addr
           m == x.cnt
           Same(k) == [i \in 1 .. k |-> a]
           S == {k \in Nat : k = 0 \/ k > m \/ Filled(t \o Same(k), n + 1, a, k)}
<1>1. m \in 1 .. MaxCnt /\ a \in Addr /\ MaxCnt \in Nat
  BY StackAssumption DEF StackItem
<1>2. \A k \in Nat : Same(k) \in Seq(Addr) /\ Len(Same(k)) = k /\ \A i \in 1 .. k : Same(k)[i] = a
  BY <1>1
<1> HIDE DEF a, m, Same
<1>3. ASSUME NEW k \in Nat
      PROVE  t \o Same(k + 1) = Append(t \o Same(k), a)
  <2>1. PICK p \in Seq(Addr) : p = Same(k) /\ Len(p) = k /\ \A i \in 1 .. k : p[i] = a
    BY <1>2
  <2>2. PICK q \in Seq(Addr) : q = Same(k + 1) /\ Len(q) = k + 1 /\ \A i \in 1 .. k + 1 : q[i] = a
    BY <1>2
  <2>3. \A i \in 1 .. k : q[i] = p[i]
    <3>1. \A i \in 1 .. k : i \in 1 .. k + 1
      OBVIOUS
    <3> QED
      BY <2>1, <2>2, <3>1
  <2>4. q[k + 1] = a
    BY <2>2
  <2> DEFINE l == Len(t)
  <2>5. l \in Nat /\ t \o q \in Seq(Addr) /\ Len(t \o q) = l + (k + 1) /\ Len(Append(t \o p, a)) = l + k + 1
        /\ Append(t \o p, a) \in Seq(Addr)
    BY <1>1, <2>1, <2>2
  <2>6. ASSUME NEW i \in 1 .. l + (k + 1)
        PROVE  (t \o q)[i] = Append(t \o p, a)[i]
    <3>1. CASE i <= l
      BY <2>1, <2>2, <2>5, <3>1
    <3>2. CASE i > l /\ i <= l + k
      <4>1. i - l \in 1 .. k
        BY <2>5, <3>2
      <4>2. (t \o q)[i] = q[i - l] /\ Append(t \o p, a)[i] = p[i - l]
        BY <2>1, <2>2, <2>5, <3>2
      <4> QED
        BY <2>3, <4>1, <4>2
    <3>3. CASE i = l + k + 1
      <4>1. i - l = k + 1
        BY <2>5, <3>3
      <4>2. (t \o q)[i] = q[i - l] /\ Append(t \o p, a)[i] = a
        BY <2>1, <2>2, <2>5, <3>3
      <4> QED
        BY <2>4, <4>1, <4>2
    <3> QED
      BY <2>5, <3>1, <3>2, <3>3
  <2> HIDE DEF l
  <2>7. t \o q = Append(t \o p, a)
    <3>1. PICK c \in Seq(Addr), d \in Seq(Addr) : c = t \o q /\ d = Append(t \o p, a)
      BY <2>5
    <3>2. Len(c) = l + (k + 1) /\ Len(d) = l + (k + 1)
      BY <2>5, <3>1
    <3>3. \A i \in 1 .. Len(c) : c[i] = d[i]
      BY <2>6, <3>1, <3>2
    <3>4. c = d
      BY <3>2, <3>3, SeqEqual
    <3> QED
      BY <3>1, <3>4
  <2> QED
    BY <2>1, <2>2, <2>7
<1>4. t \o Same(0) = t
  <2>1. PICK e \in Seq(Addr) : e = Same(0) /\ Len(e) = 0
    BY <1>2
  <2>2. e = << >>
    BY <2>1
  <2> QED
    BY <2>1, <2>2
<1>5. 0 \in S
  OBVIOUS
<1>6. ASSUME NEW k \in Nat, k \in S
      PROVE  k + 1 \in S
  <2>1. CASE k = 0
    <3>1. Filled(Append(t, a), n + 1, a, 1)
      BY <1>1, CallBegins DEF a
    <3>2. t \o Same(0 + 1) = Append(t, a) /\ 0 + 1 = 1
      BY <1>3, <1>4
    <3>3. Filled(t \o Same(1), n + 1, a, 1)
      BY <3>1, <3>2
    <3>4. k + 1 = 1 /\ 1 \in Nat
      BY <2>1
    <3> QED
      BY <3>3, <3>4
  <2>2. CASE k # 0 /\ k + 1 <= m
    <3>1. Filled(t \o Same(k), n + 1, a, k) /\ k < MaxCnt
      BY <1>1, <1>6, <2>2
    <3>2. Filled(Append(t \o Same(k), a), n + 1, a, k + 1)
      BY <1>1, <3>1, CallShares
    <3>3. Filled(t \o Same(k + 1), n + 1, a, k + 1)
      BY <1>3, <3>2
    <3>4. k + 1 \in Nat
      OBVIOUS
    <3> QED
      BY <3>3, <3>4
  <2>3. CASE k + 1 > m
    BY <2>3
  <2> QED
    BY <1>1, <2>1, <2>2, <2>3
<1>7. Nat \subseteq S
  <2> HIDE DEF S
  <2> QED
    BY <1>5, <1>6, Count!NatInd
<1>8. Filled(t \o Same(m), n + 1, a, m)
  BY <1>1, <1>7
<1>9. Same(m) = Copies(x)
  BY DEF Same, Copies, a, m
<1> QED
  BY <1>8, <1>9 DEF a, m

\* The items are the places their addresses take.
LEMMA SpreadFills ==
  ASSUME NEW s, Parted(s)
  PROVE  /\ Spread(s) \in Seq(Addr)
         /\ IF s = << >> THEN Spread(s) = << >>
            ELSE Filled(Spread(s), Len(s), s[Len(s)].addr, s[Len(s)].cnt)
<1>1. s \in Seq(StackItem) /\ Len(s) \in Nat
  BY DEF Parted
<1>2. PICK f : /\ f = [n \in 0 .. Len(s) |-> IF n = 0 THEN << >> ELSE f[n - 1] \o Copies(s[n])]
               /\ Spread(s) = f[Len(s)]
  BY <1>1, SpreadIs
<1> DEFINE S == {i \in Nat : \/ i > Len(s)
                             \/ /\ f[i] \in Seq(Addr)
                                /\ IF i = 0 THEN f[i] = << >>
                                   ELSE Filled(f[i], i, s[i].addr, s[i].cnt)}
<1>3. 0 \in S
  <2>1. f[0] = << >> /\ f[0] \in Seq(Addr)
    BY <1>1, <1>2
  <2>2. IF 0 = 0 THEN f[0] = << >> ELSE Filled(f[0], 0, s[0].addr, s[0].cnt)
    BY <2>1
  <2> QED
    BY <2>1, <2>2
<1>4. ASSUME NEW i \in 0 .. Len(s) - 1, i \in S
      PROVE  i + 1 \in S
  <2>1. i \in Nat /\ i + 1 \in 1 .. Len(s) /\ i + 1 \in 0 .. Len(s) /\ i + 1 # 0 /\ (i + 1) - 1 = i /\ ~(i > Len(s))
    BY <1>1
  <2>2. f[i + 1] = f[i] \o Copies(s[i + 1])
    BY <1>2, <2>1
  <2>3. PICK x \in StackItem : x = s[i + 1]
    BY <1>1, <2>1
  <2>4. /\ f[i] \in Seq(Addr)
        /\ IF i = 0 THEN f[i] = << >> ELSE Filled(f[i], i, s[i].addr, s[i].cnt)
    BY <1>4, <2>1
  <2>5. \/ f[i] = << >> /\ i = 0
        \/ \E b \in Addr, k \in 1 .. MaxCnt : Filled(f[i], i, b, k) /\ (b = x.addr => k = MaxCnt)
    <3>1. CASE i = 0
      BY <2>4, <3>1
    <3>2. CASE i # 0
      <4>1. i \in 1 .. Len(s) /\ i \in 1 .. Len(s) - 1
        BY <1>1, <2>1, <3>2
      <4>2. PICK y \in StackItem : y = s[i]
        BY <1>1, <4>1
      <4>3. y.addr \in Addr /\ y.cnt \in 1 .. MaxCnt
        BY DEF StackItem
      <4>4. y.addr = x.addr => y.cnt = MaxCnt
        BY <2>3, <4>1, <4>2 DEF Parted
      <4>5. Filled(f[i], i, y.addr, y.cnt)
        BY <2>4, <3>2, <4>2
      <4> QED
        BY <4>3, <4>4, <4>5
    <3> QED
      BY <3>1, <3>2
  <2>6. Filled(f[i] \o Copies(x), i + 1, x.addr, x.cnt)
    BY <2>1, <2>4, <2>5, ItemFills
  <2>7. f[i + 1] \in Seq(Addr)
    BY <2>2, <2>3, <2>6 DEF Filled
  <2>8. Filled(f[i + 1], i + 1, s[i + 1].addr, s[i + 1].cnt)
    BY <2>2, <2>3, <2>6
  <2> DEFINE j == i + 1
  <2>9. j \in Nat /\ j # 0 /\ f[j] \in Seq(Addr) /\ Filled(f[j], j, s[j].addr, s[j].cnt)
    BY <2>1, <2>7, <2>8
  <2> HIDE DEF j
  <2>10. j \in S
    BY <2>9
  <2> QED
    BY <2>10 DEF j
<1>5. 0 .. Len(s) \subseteq S
  <2> HIDE DEF S
  <2> QED
    BY <1>1, <1>3, <1>4, Count!UpTo
<1>6. Len(s) \in S /\ ~(Len(s) > Len(s))
  BY <1>1, <1>5
<1>7. s = << >> <=> Len(s) = 0
  BY <1>1
<1> QED
  BY <1>2, <1>6, <1>7

\* The newest item on its own.
LEMMA SpreadAppend ==
  ASSUME NEW s \in Seq(StackItem), NEW x \in StackItem
  PROVE  Spread(Append(s, x)) = Spread(s) \o Copies(x)
<1> DEFINE u == Append(s, x)
<1>1. Len(s) \in Nat /\ Len(u) = Len(s) + 1 /\ u[Len(u)] = x /\ \A k \in 1 .. Len(s) : u[k] = s[k]
  OBVIOUS
<1> HIDE DEF u
<1>2. PICK f : /\ f = [n \in 0 .. Len(s) |-> IF n = 0 THEN << >> ELSE f[n - 1] \o Copies(s[n])]
               /\ Spread(s) = f[Len(s)]
  BY <1>1, SpreadIs
<1>3. PICK g : /\ g = [n \in 0 .. Len(u) |-> IF n = 0 THEN << >> ELSE g[n - 1] \o Copies(u[n])]
               /\ Spread(u) = g[Len(u)]
  <2>1. Len(u) \in Nat
    BY <1>1
  <2> QED
    BY <2>1, SpreadIs
<1> DEFINE S == {k \in Nat : f[k] = g[k]}
<1>4. 0 \in S
  BY <1>1, <1>2, <1>3
<1>5. ASSUME NEW k \in 0 .. Len(s) - 1, k \in S
      PROVE  k + 1 \in S
  <2>0. k + 1 \in 0 .. Len(s) /\ k + 1 \in 0 .. Len(u) /\ k + 1 # 0 /\ (k + 1) - 1 = k /\ k + 1 \in 1 .. Len(s)
        /\ k + 1 \in Nat
    BY <1>1
  <2>1. f[k + 1] = f[k] \o Copies(s[k + 1])
    BY <1>2, <2>0
  <2>2. g[k + 1] = g[k] \o Copies(u[k + 1])
    BY <1>3, <2>0
  <2>3. u[k + 1] = s[k + 1]
    BY <1>1, <2>0
  <2>4. f[k + 1] = g[k + 1]
    BY <1>5, <2>1, <2>2, <2>3
  <2> QED
    BY <2>0, <2>4
<1>6. f[Len(s)] = g[Len(s)]
  <2>1. 0 .. Len(s) \subseteq S
    <3> HIDE DEF S
    <3> QED
      BY <1>1, <1>4, <1>5, Count!UpTo
  <2> QED
    BY <1>1, <2>1
<1>7. g[Len(u)] = g[Len(s)] \o Copies(x)
  BY <1>1, <1>3
<1> QED
  BY <1>2, <1>3, <1>6, <1>7 DEF u

\* The oldest item on its own.
LEMMA SpreadTail ==
  ASSUME NEW s \in Seq(StackItem), s # << >>
  PROVE  Spread(s) = Copies(s[1]) \o Spread(Tail(s)) /\ Spread(Tail(s)) \in Seq(Addr)
<1> DEFINE u == Tail(s)
           c == Copies(s[1])
<1>1. Len(s) \in Nat /\ Len(u) = Len(s) - 1 /\ Len(u) \in Nat /\ \A k \in 1 .. Len(u) : u[k] = s[k + 1] /\ u[k] \in StackItem
  OBVIOUS
<1>2. s[1] \in StackItem /\ Copies(s[1]) \in Seq(Addr)
  <2>1. s[1] \in StackItem
    OBVIOUS
  <2> QED
    BY <2>1, CopiesAre
<1> HIDE DEF u
<1>3. PICK f : /\ f = [n \in 0 .. Len(s) |-> IF n = 0 THEN << >> ELSE f[n - 1] \o Copies(s[n])]
               /\ Spread(s) = f[Len(s)]
  BY <1>1, SpreadIs
<1>4. PICK g : /\ g = [n \in 0 .. Len(u) |-> IF n = 0 THEN << >> ELSE g[n - 1] \o Copies(u[n])]
               /\ Spread(u) = g[Len(u)]
  BY <1>1, SpreadIs
<1> HIDE DEF c
<1> DEFINE S == {k \in Nat : f[k + 1] = c \o g[k] /\ g[k] \in Seq(Addr)}
<1>5. 0 \in S
  <2>1. f[0] = << >> /\ g[0] = << >>
    BY <1>1, <1>3, <1>4
  <2>2. f[0 + 1] = f[0] \o Copies(s[1])
    <3>1. 1 \in 0 .. Len(s) /\ 0 + 1 = 1 /\ 1 # 0 /\ 1 - 1 = 0
      BY <1>1
    <3> QED
      BY <1>3, <3>1
  <2>3. << >> \o c = c /\ c \o << >> = c
    BY <1>2 DEF c
  <2>4. f[0 + 1] = c \o g[0] /\ g[0] \in Seq(Addr) /\ 0 \in Nat
    BY <2>1, <2>2, <2>3 DEF c
  <2> QED
    BY <2>4
<1>6. ASSUME NEW k \in 0 .. Len(u) - 1, k \in S
      PROVE  k + 1 \in S
  <2>1. k + 1 \in 1 .. Len(u) /\ k + 1 \in 0 .. Len(u) /\ k + 2 \in 0 .. Len(s) /\ k + 1 # 0 /\ k + 2 # 0
        /\ (k + 1) - 1 = k /\ (k + 2) - 1 = k + 1 /\ (k + 1) + 1 = k + 2 /\ k + 1 \in Nat
    BY <1>1
  <2>2. f[k + 2] = f[k + 1] \o Copies(s[k + 2])
    BY <1>3, <2>1
  <2>3. g[k + 1] = g[k] \o Copies(u[k + 1])
    BY <1>4, <2>1
  <2>4. u[k + 1] = s[k + 2] /\ u[k + 1] \in StackItem
    BY <1>1, <2>1
  <2>5. PICK d \in Seq(Addr) : d = Copies(u[k + 1])
    BY <2>4, CopiesAre
  <2>6. PICK h \in Seq(Addr) : h = g[k] /\ f[k + 1] = c \o h
    BY <1>6
  <2>7. (c \o h) \o d = c \o (h \o d) /\ h \o d \in Seq(Addr)
    <3>1. c \in Seq(Addr)
      BY <1>2 DEF c
    <3> QED
      BY <3>1, ConcatAssociative
  <2> QED
    BY <2>1, <2>2, <2>3, <2>4, <2>5, <2>6, <2>7
<1>7. 0 .. Len(u) \subseteq S
  <2> HIDE DEF S
  <2> QED
    BY <1>1, <1>5, <1>6, Count!UpTo
<1>8. Len(u) + 1 = Len(s) /\ f[Len(u) + 1] = c \o g[Len(u)] /\ g[Len(u)] \in Seq(Addr)
  <2>1. Len(u) \in S /\ Len(u) + 1 = Len(s)
    <3>1. Len(u) \in 0 .. Len(u)
      BY <1>1
    <3> HIDE DEF S
    <3> QED
      BY <1>1, <1>7, <3>1
  <2> QED
    BY <2>1
<1> QED
  BY <1>3, <1>4, <1>8 DEF u, c

\* A sequence without its last element.
LEMMA ButLast ==
  ASSUME NEW T, NEW s \in Seq(T), s # << >>
  PROVE  /\ SubSeq(s, 1, Len(s) - 1) \in Seq(T) /\ Len(SubSeq(s, 1, Len(s) - 1)) = Len(s) - 1
         /\ \A i \in 1 .. Len(s) - 1 : SubSeq(s, 1, Len(s) - 1)[i] = s[i]
<1>1. Len(s) \in Nat /\ Len(s) # 0
  OBVIOUS
<1>2. PICK m \in Nat : m = Len(s) - 1
  BY <1>1
<1>3. SubSeq(s, 1, m) = [i \in 1 .. m |-> s[i]]
  BY <1>1, <1>2
<1>4. \A i \in 1 .. m : s[i] \in T
  BY <1>1, <1>2
<1>5. [i \in 1 .. m |-> s[i]] \in Seq(T) /\ Len([i \in 1 .. m |-> s[i]]) = m
  BY <1>2, <1>4
<1> QED
  BY <1>2, <1>3, <1>5

\* Replacing the last element is taking it off and putting another one on.
LEMMA LastReplaced ==
  ASSUME NEW T, NEW s \in Seq(T), s # << >>, NEW y \in T, NEW p \in Seq(T),
         Len(p) = Len(s) - 1, \A i \in 1 .. Len(s) - 1 : p[i] = s[i]
  PROVE  [s EXCEPT ![Len(s)] = y] = Append(p, y)
<1>1. Len(s) \in Nat \ {0}
  OBVIOUS
<1>2. PICK w : w = [s EXCEPT ![Len(s)] = y]
  OBVIOUS
<1>3. w \in Seq(T) /\ Len(w) = Len(s) /\ \A i \in 1 .. Len(s) : w[i] = IF i = Len(s) THEN y ELSE s[i]
  BY <1>1, <1>2, ExceptSeq
<1>4. Append(p, y) \in Seq(T) /\ Len(Append(p, y)) = Len(s)
  BY <1>1
<1>5. \A i \in 1 .. Len(s) : Append(p, y)[i] = IF i = Len(s) THEN y ELSE s[i]
  BY <1>1
<1>6. w = Append(p, y)
  BY <1>3, <1>4, <1>5, SeqEqual
<1> QED
  BY <1>2, <1>6

\* The newest item and those under it.
LEMMA TopItem ==
  ASSUME NEW s, Parted(s), s # << >>
  PROVE  /\ Len(s) \in Nat \ {0} /\ s[Len(s)] \in StackItem
         /\ Parted(SubSeq(s, 1, Len(s) - 1)) /\ Len(SubSeq(s, 1, Len(s) - 1)) = Len(s) - 1
         /\ \A i \in 1 .. Len(s) - 1 : SubSeq(s, 1, Len(s) - 1)[i] = s[i]
         /\ s = Append(SubSeq(s, 1, Len(s) - 1), s[Len(s)])
         /\ Spread(SubSeq(s, 1, Len(s) - 1)) \in Seq(Addr)
         /\ Spread(s) = Spread(SubSeq(s, 1, Len(s) - 1)) \o Copies(s[Len(s)])
<1> DEFINE p == SubSeq(s, 1, Len(s) - 1)
           m == Len(s)
<1>1. s \in Seq(StackItem) /\ m \in Nat \ {0} /\ s[m] \in StackItem
  BY DEF Parted
<1>2. p \in Seq(StackItem) /\ Len(p) = m - 1 /\ \A i \in 1 .. m - 1 : p[i] = s[i]
  BY <1>1, ButLast
<1>3. s = Append(p, s[m])
  <2>1. Append(p, s[m]) \in Seq(StackItem) /\ Len(Append(p, s[m])) = m
    BY <1>1, <1>2
  <2>2. \A i \in 1 .. m : s[i] = Append(p, s[m])[i]
    BY <1>1, <1>2
  <2> HIDE DEF p
  <2> QED
    BY <1>1, <2>1, <2>2, SeqEqual
<1> HIDE DEF p
<1>4. Parted(p)
  <2> SUFFICES ASSUME NEW i \in 1 .. Len(p) - 1, p[i].addr = p[i + 1].addr
               PROVE  p[i].cnt = MaxCnt
    BY <1>2 DEF Parted
  <2>1. i \in 1 .. m - 1 /\ i + 1 \in 1 .. m - 1
    BY <1>1, <1>2
  <2> QED
    BY <1>2, <2>1 DEF Parted
<1>5. Spread(p) \in Seq(Addr)
  BY <1>4, SpreadFills
<1>6. Spread(s) = Spread(p) \o Copies(s[m])
  BY <1>1, <1>2, <1>3, SpreadAppend
<1> QED
  BY <1>1, <1>2, <1>3, <1>4, <1>5, <1>6 DEF p

\* An item may go on top of one of another address, or of a full one.
LEMMA PartedAppend ==
  ASSUME NEW s, Parted(s), NEW x \in StackItem,
         s # << >> => (s[Len(s)].addr = x.addr => s[Len(s)].cnt = MaxCnt)
  PROVE  /\ Parted(Append(s, x)) /\ Len(Append(s, x)) = Len(s) + 1
         /\ Spread(Append(s, x)) = Spread(s) \o Copies(x)
<1> DEFINE u == Append(s, x)
<1>1. s \in Seq(StackItem) /\ Len(s) \in Nat
  BY DEF Parted
<1>2. u \in Seq(StackItem) /\ Len(u) = Len(s) + 1 /\ u[Len(s) + 1] = x /\ \A i \in 1 .. Len(s) : u[i] = s[i]
  BY <1>1
<1> HIDE DEF u
<1>3. Parted(u)
  <2> SUFFICES ASSUME NEW i \in 1 .. Len(u) - 1, u[i].addr = u[i + 1].addr
               PROVE  u[i].cnt = MaxCnt
    BY <1>2 DEF Parted
  <2>1. CASE i = Len(s)
    BY <1>1, <1>2, <2>1
  <2>2. CASE i < Len(s)
    <3>1. i \in 1 .. Len(s) - 1 /\ i \in 1 .. Len(s) /\ i + 1 \in 1 .. Len(s)
      BY <1>1, <1>2, <2>2
    <3> QED
      BY <1>2, <3>1 DEF Parted
  <2> QED
    BY <1>1, <1>2, <2>1, <2>2
<1> QED
  BY <1>1, <1>2, <1>3, SpreadAppend DEF u

\* One call more from the same address.
LEMMA CopiesMore ==
  ASSUME NEW x \in StackItem, NEW y \in StackItem, y.addr = x.addr, y.cnt = x.cnt + 1,
         NEW t \in Seq(Addr)
  PROVE  t \o Copies(y) = Append(t \o Copies(x), x.addr)
<1>1. PICK c \in Seq(Addr) : c = Copies(x) /\ Len(c) = x.cnt /\ \A i \in 1 .. x.cnt : c[i] = x.addr
  BY CopiesAre
<1>2. PICK d \in Seq(Addr) : d = Copies(y) /\ Len(d) = y.cnt /\ \A i \in 1 .. y.cnt : d[i] = x.addr
  BY CopiesAre
<1>3. PICK m \in Nat, a \in Addr : m = x.cnt /\ a = x.addr
  <2>1. x.cnt \in Nat /\ x.addr \in Addr
    BY CopiesAre
  <2> QED
    BY <2>1, Zenon
<1>4. Append(c, a) \in Seq(Addr) /\ Len(Append(c, a)) = m + 1 /\ Len(d) = m + 1
  BY <1>1, <1>2, <1>3
<1>5. \A i \in 1 .. m + 1 : d[i] = Append(c, a)[i]
  BY <1>1, <1>2, <1>3
<1>6. d = Append(c, a)
  BY <1>4, <1>5, SeqEqual
<1>7. t \o Append(c, a) = Append(t \o c, a)
  OBVIOUS
<1> QED
  BY <1>1, <1>2, <1>3, <1>6, <1>7

\* The first call from an address.
LEMMA CopiesOne ==
  ASSUME NEW x \in StackItem, x.cnt = 1, NEW t \in Seq(Addr)
  PROVE  t \o Copies(x) = Append(t, x.addr)
<1>1. PICK c \in Seq(Addr) : c = Copies(x) /\ Len(c) = 1 /\ c[1] = x.addr
  <2>1. Copies(x) \in Seq(Addr) /\ Len(Copies(x)) = x.cnt /\ \A i \in 1 .. x.cnt : Copies(x)[i] = x.addr
    BY CopiesAre
  <2>2. Copies(x)[1] = x.addr
    BY <2>1
  <2> QED
    BY <2>1, <2>2, Zenon
<1>2. PICK a \in Addr : a = x.addr
  <2>1. x.addr \in Addr
    BY CopiesAre
  <2> QED
    BY <2>1, Zenon
<1>3. Append(<< >>, a) \in Seq(Addr) /\ Len(Append(<< >>, a)) = 1 /\ Append(<< >>, a)[1] = a
  OBVIOUS
<1>4. c = Append(<< >>, a)
  BY <1>1, <1>2, <1>3, SeqEqual
<1>5. t \o Append(<< >>, a) = Append(t, a)
  OBVIOUS
<1> QED
  BY <1>1, <1>2, <1>4, <1>5

\* A stack without its newest call.
LEMMA WithoutAppend ==
  ASSUME NEW t \in Seq(Addr), NEW a \in Addr
  PROVE  main_ras!Stack!Without(Append(t, a)) = t
<1>1. Len(Append(t, a)) - 1 = Len(t) /\ Len(t) \in Nat
  OBVIOUS
<1>2. SubSeq(Append(t, a), 1, Len(t)) = t
  OBVIOUS
<1> QED
  BY <1>1, <1>2 DEF main_ras!Stack!Without

\* pop_addr takes one call off (ras.h:133-161).
LEMMA PoppedIs ==
  ASSUME NEW s, Parted(s), Len(s) <= RAS_SIZE
  PROVE  /\ Parted(main_ras!Popped(s)) /\ Len(main_ras!Popped(s)) <= RAS_SIZE
         /\ Spread(main_ras!Popped(s)) = main_ras!Stack!Without(Spread(s))
         /\ s # << >> => /\ Spread(s) # << >> /\ Spread(s)[Len(Spread(s))] = s[Len(s)].addr
                         /\ main_ras!Popped(s) = << >> => s[Len(s)].cnt = 1
<1>1. CASE s = << >>
  <2>1. Spread(s) = << >> /\ main_ras!Popped(s) = s
    BY <1>1, SpreadFills DEF main_ras!Popped
  <2>2. main_ras!Stack!Without(<< >>) = << >>
    BY DEF main_ras!Stack!Without
  <2> QED
    BY <1>1, <2>1, <2>2
<1>2. CASE s # << >>
  <2> DEFINE p == SubSeq(s, 1, Len(s) - 1)
             x == s[Len(s)]
             y == [x EXCEPT !.cnt = @ - 1]
  <2>1. /\ Len(s) \in Nat \ {0} /\ x \in StackItem
        /\ Parted(p) /\ Len(p) = Len(s) - 1 /\ s = Append(p, x) /\ \A i \in 1 .. Len(s) - 1 : p[i] = s[i]
        /\ Spread(p) \in Seq(Addr) /\ Spread(s) = Spread(p) \o Copies(x)
    BY <1>2, TopItem
  <2>2. Spread(s) # << >> /\ Spread(s)[Len(Spread(s))] = x.addr
    <3>1. Filled(Spread(s), Len(s), x.addr, x.cnt)
      BY <1>2, SpreadFills
    <3> QED
      BY <3>1 DEF Filled
  <2>3. x.addr \in Addr /\ x.cnt \in 1 .. MaxCnt /\ MaxCnt \in Nat /\ RAS_SIZE \in Nat
    BY <2>1, StackAssumption DEF StackItem
  <2>4. CASE x.cnt = 1
    <3>1. main_ras!Popped(s) = p
      BY <1>2, <2>4 DEF main_ras!Popped
    <3> HIDE DEF p, x
    <3>2. Spread(s) = Append(Spread(p), x.addr)
      BY <2>1, <2>4, CopiesOne
    <3>3. Spread(p) = main_ras!Stack!Without(Spread(s))
      BY <2>1, <2>3, <3>2, WithoutAppend
    <3>4. Len(p) <= RAS_SIZE
      BY <2>1, <2>3
    <3> QED
      BY <2>1, <2>2, <2>4, <3>1, <3>3, <3>4 DEF x
  <2>5. CASE x.cnt # 1
    <3>1. main_ras!Popped(s) = [s EXCEPT ![Len(s)].cnt = @ - 1]
      BY <1>2, <2>5 DEF main_ras!Popped
    <3>2. y \in StackItem /\ y.addr = x.addr /\ x.cnt = y.cnt + 1
      <4>1. x \in [addr : Addr, cnt : 1 .. MaxCnt]
        BY <2>1 DEF StackItem
      <4>2. x.cnt - 1 \in 1 .. MaxCnt
        BY <2>3, <2>5
      <4> HIDE DEF x
      <4> QED
        BY <2>3, <4>1, <4>2 DEF StackItem
    <3>3. [s EXCEPT ![Len(s)].cnt = @ - 1] = Append(p, y)
      <4>1. s \in Seq(StackItem)
        BY DEF Parted
      <4>2. [s EXCEPT ![Len(s)].cnt = @ - 1] = [s EXCEPT ![Len(s)] = y]
        OBVIOUS
      <4> HIDE DEF y, p
      <4>3. p \in Seq(StackItem)
        BY <2>1 DEF Parted
      <4>4. y \in StackItem /\ Len(p) = Len(s) - 1 /\ \A i \in 1 .. Len(s) - 1 : p[i] = s[i]
        BY <2>1, <3>2, Zenon
      <4>5. [s EXCEPT ![Len(s)] = y] = Append(p, y)
        BY <1>2, <4>1, <4>3, <4>4, LastReplaced, Zenon
      <4> QED
        BY <4>2, <4>5, Zenon
    <3> HIDE DEF y, p, x
    <3>4. p # << >> => (p[Len(p)].addr = y.addr => p[Len(p)].cnt = MaxCnt)
      <4> SUFFICES ASSUME p # << >>, p[Len(p)].addr = y.addr
                   PROVE  p[Len(p)].cnt = MaxCnt
        OBVIOUS
      <4>1. Len(p) \in 1 .. Len(s) - 1 /\ Len(p) + 1 = Len(s)
        BY <2>1 DEF Parted
      <4>2. p[Len(p)] = s[Len(p)] /\ s[Len(p) + 1] = x
        BY <2>1, <4>1 DEF x
      <4> QED
        BY <3>2, <4>1, <4>2 DEF Parted
    <3>5. Parted(Append(p, y)) /\ Len(Append(p, y)) = Len(p) + 1 /\ Spread(Append(p, y)) = Spread(p) \o Copies(y)
      BY <2>1, <3>2, <3>4, PartedAppend
    <3>6. Spread(s) = Append(Spread(Append(p, y)), x.addr)
      BY <2>1, <3>2, <3>5, CopiesMore
    <3>7. Spread(Append(p, y)) \in Seq(Addr)
      BY <3>5, SpreadFills
    <3>8. Spread(Append(p, y)) = main_ras!Stack!Without(Spread(s))
      BY <2>3, <3>6, <3>7, WithoutAppend
    <3>9. main_ras!Popped(s) = Append(p, y)
      BY <3>1, <3>3
    <3>10. Append(p, y) # << >>
      BY <2>1, <3>5
    <3> QED
      BY <2>1, <2>2, <3>5, <3>8, <3>9, <3>10 DEF x
  <2> QED
    BY <2>4, <2>5
<1> QED
  BY <1>1, <1>2

\* push_addr puts one call on, and forgets only the oldest (ras.h:101-131).
LEMMA PushedIs ==
  ASSUME NEW s, Parted(s), Len(s) <= RAS_SIZE, NEW a \in Addr
  PROVE  /\ Parted(main_ras!Pushed(s, a)) /\ Len(main_ras!Pushed(s, a)) <= RAS_SIZE
         /\ main_ras!Pushed(s, a) # << >>
         /\ Spread(main_ras!Pushed(s, a)) \in main_ras!Stack!After(Spread(s), a)
<1> DEFINE z == [addr |-> a, cnt |-> 1]
<1>0. z \in StackItem /\ z.addr = a /\ z.cnt = 1 /\ RAS_SIZE \in Nat \ {0} /\ MaxCnt \in Nat \ {0}
  BY StackAssumption DEF StackItem
<1>1. s \in Seq(StackItem) /\ Len(s) \in Nat /\ Spread(s) \in Seq(Addr)
  BY SpreadFills DEF Parted
<1> HIDE DEF z
<1>2. CASE main_ras!Shares(s, a)
  <2> DEFINE p == SubSeq(s, 1, Len(s) - 1)
             x == s[Len(s)]
             y == [x EXCEPT !.cnt = @ + 1]
  <2>0. s # << >> /\ x.addr = a /\ x.cnt < MaxCnt
    BY <1>2 DEF main_ras!Shares
  <2>1. /\ Len(s) \in Nat \ {0} /\ x \in StackItem
        /\ Parted(p) /\ Len(p) = Len(s) - 1 /\ s = Append(p, x) /\ \A i \in 1 .. Len(s) - 1 : p[i] = s[i]
        /\ Spread(p) \in Seq(Addr) /\ Spread(s) = Spread(p) \o Copies(x)
    BY <2>0, TopItem
  <2>2. main_ras!Pushed(s, a) = [s EXCEPT ![Len(s)].cnt = @ + 1]
    BY <1>2 DEF main_ras!Pushed
  <2>3. y \in StackItem /\ y.addr = x.addr /\ y.cnt = x.cnt + 1
    <3>1. x \in [addr : Addr, cnt : 1 .. MaxCnt]
      BY <2>1 DEF StackItem
    <3>2. x.cnt + 1 \in 1 .. MaxCnt
      BY <1>0, <2>0, <3>1
    <3> HIDE DEF x
    <3> QED
      BY <3>1, <3>2 DEF StackItem
  <2>4. [s EXCEPT ![Len(s)].cnt = @ + 1] = Append(p, y)
    <3>1. [s EXCEPT ![Len(s)].cnt = @ + 1] = [s EXCEPT ![Len(s)] = y]
      OBVIOUS
    <3> HIDE DEF y, p
    <3>2. p \in Seq(StackItem)
      BY <2>1 DEF Parted
    <3>3. y \in StackItem /\ Len(p) = Len(s) - 1 /\ \A i \in 1 .. Len(s) - 1 : p[i] = s[i]
      BY <2>1, <2>3, Zenon
    <3>4. [s EXCEPT ![Len(s)] = y] = Append(p, y)
      BY <1>1, <2>0, <3>2, <3>3, LastReplaced, Zenon
    <3> QED
      BY <3>1, <3>4, Zenon
  <2> HIDE DEF y, p, x
  <2>5. p # << >> => (p[Len(p)].addr = y.addr => p[Len(p)].cnt = MaxCnt)
    <3> SUFFICES ASSUME p # << >>, p[Len(p)].addr = y.addr
                 PROVE  p[Len(p)].cnt = MaxCnt
      OBVIOUS
    <3>1. Len(p) \in 1 .. Len(s) - 1 /\ Len(p) + 1 = Len(s)
      BY <2>1 DEF Parted
    <3>2. p[Len(p)] = s[Len(p)] /\ s[Len(p) + 1] = x
      BY <2>1, <3>1 DEF x
    <3> QED
      BY <2>3, <3>1, <3>2 DEF Parted
  <2>6. Parted(Append(p, y)) /\ Len(Append(p, y)) = Len(p) + 1 /\ Spread(Append(p, y)) = Spread(p) \o Copies(y)
    BY <2>1, <2>3, <2>5, PartedAppend
  <2>7. Spread(Append(p, y)) = Append(Spread(s), a)
    BY <2>0, <2>1, <2>3, <2>6, CopiesMore
  <2>8. main_ras!Pushed(s, a) = Append(p, y) /\ Len(Append(p, y)) = Len(s)
    BY <2>1, <2>2, <2>4, <2>6
  <2>9. Append(p, y) # << >>
    BY <2>1, <2>8
  <2> QED
    BY <2>6, <2>7, <2>8, <2>9 DEF main_ras!Stack!After
<1>3. CASE ~main_ras!Shares(s, a) /\ Len(s) # RAS_SIZE
  <2>1. main_ras!Pushed(s, a) = Append(s, z)
    BY <1>3 DEF main_ras!Pushed, z
  <2>2. s # << >> => (s[Len(s)].addr = z.addr => s[Len(s)].cnt = MaxCnt)
    <3> SUFFICES ASSUME s # << >>, s[Len(s)].addr = z.addr
                 PROVE  s[Len(s)].cnt = MaxCnt
      OBVIOUS
    <3>1. s[Len(s)] \in StackItem
      BY TopItem
    <3>2. PICK k \in 1 .. MaxCnt : k = s[Len(s)].cnt
      BY <3>1 DEF StackItem
    <3>3. ~(k < MaxCnt)
      BY <1>0, <1>3, <3>2 DEF main_ras!Shares
    <3> QED
      BY <1>0, <3>2, <3>3
  <2>3. Parted(Append(s, z)) /\ Len(Append(s, z)) = Len(s) + 1 /\ Spread(Append(s, z)) = Spread(s) \o Copies(z)
    BY <1>0, <2>2, PartedAppend
  <2>4. Spread(Append(s, z)) = Append(Spread(s), a)
    BY <1>0, <1>1, <2>3, CopiesOne
  <2>5. Len(Append(s, z)) <= RAS_SIZE /\ Append(s, z) # << >>
    BY <1>0, <1>1, <1>3, <2>3
  <2> QED
    BY <2>1, <2>3, <2>4, <2>5 DEF main_ras!Stack!After
<1>4. CASE ~main_ras!Shares(s, a) /\ Len(s) = RAS_SIZE
  <2> DEFINE q == Tail(s)
             u == Append(q, z)
             w == Spread(s)
  <2>1. main_ras!Pushed(s, a) = u
    BY <1>4 DEF main_ras!Pushed, main_ras!throw_push, z
  <2>2. s # << >>
    BY <1>0, <1>4
  <2>3. /\ q \in Seq(StackItem) /\ Len(q) = Len(s) - 1 /\ \A i \in 1 .. Len(s) - 1 : q[i] = s[i + 1]
        /\ q # << >> => Len(q) \in 1 .. Len(s) - 1 /\ Len(q) + 1 = Len(s)
    BY <1>1, <2>2
  <2> HIDE DEF q
  <2>4. Parted(q)
    <3> SUFFICES ASSUME NEW i \in 1 .. Len(q) - 1, q[i].addr = q[i + 1].addr
                 PROVE  q[i].cnt = MaxCnt
      BY <2>3 DEF Parted
    <3>1. i \in 1 .. Len(s) - 1 /\ i + 1 \in 1 .. Len(s) - 1
      BY <1>1, <2>3
    <3>2. q[i] = s[i + 1] /\ q[i + 1] = s[(i + 1) + 1]
      BY <2>3, <3>1
    <3> QED
      BY <3>1, <3>2 DEF Parted
  <2>5. q # << >> => (q[Len(q)].addr = z.addr => q[Len(q)].cnt = MaxCnt)
    <3> SUFFICES ASSUME q # << >>, q[Len(q)].addr = z.addr
                 PROVE  q[Len(q)].cnt = MaxCnt
      OBVIOUS
    <3>1. q[Len(q)] = s[Len(s)] /\ s[Len(s)] \in StackItem
      BY <2>2, <2>3, TopItem
    <3>2. PICK k \in 1 .. MaxCnt : k = s[Len(s)].cnt
      BY <3>1 DEF StackItem
    <3>3. ~(k < MaxCnt)
      BY <1>0, <1>4, <2>2, <3>1, <3>2 DEF main_ras!Shares
    <3> QED
      BY <1>0, <3>1, <3>2, <3>3
  <2>6. Parted(u) /\ Len(u) = Len(q) + 1 /\ Spread(u) = Spread(q) \o Copies(z)
    BY <1>0, <2>4, <2>5, PartedAppend
  <2>7. Len(u) = RAS_SIZE /\ u # << >>
    <3>1. Len(u) = RAS_SIZE
      BY <1>0, <1>4, <2>3, <2>6
    <3> HIDE DEF u
    <3> QED
      BY <1>0, <3>1
  <2>8. w = Copies(s[1]) \o Spread(q) /\ Spread(q) \in Seq(Addr)
    BY <1>1, <2>2, SpreadTail DEF q
  <2>9. Spread(u) = Append(Spread(q), a)
    BY <1>0, <2>6, <2>8, CopiesOne
  <2>10. \E n \in 1 .. Len(w) : SubSeq(w, n + 1, Len(w)) = Spread(q)
    <3>1. s[1] \in StackItem
      BY <1>1, <2>2
    <3>2. PICK c \in Seq(Addr), n \in Nat : c = Copies(s[1]) /\ Len(c) = n /\ n \in 1 .. MaxCnt
      BY <3>1, CopiesAre
    <3>3. PICK v \in Seq(Addr) : v = Spread(q) /\ w = c \o v
      BY <2>8, <3>2
    <3>4. Len(c \o v) = n + Len(v) /\ Len(v) \in Nat /\ n \in 1 .. n + Len(v)
      BY <1>0, <3>2
    <3>5. SubSeq(c \o v, n + 1, n + Len(v)) = v
      <4>1. /\ SubSeq(c \o v, n + 1, n + Len(v)) \in Seq(Addr)
            /\ Len(SubSeq(c \o v, n + 1, n + Len(v))) = Len(v)
            /\ \A i \in 1 .. Len(v) : SubSeq(c \o v, n + 1, n + Len(v))[i] = (c \o v)[n + i]
        BY <3>2, <3>4
      <4>2. \A i \in 1 .. Len(v) : (c \o v)[n + i] = v[i]
        BY <3>2, <3>4
      <4> QED
        BY <4>1, <4>2, SeqEqual
    <3> HIDE DEF w
    <3> QED
      BY <3>3, <3>4, <3>5
  <2>11. main_ras!Stack!Places(Spread(u)) = RAS_SIZE
    <3>1. Filled(Spread(u), Len(u), u[Len(u)].addr, u[Len(u)].cnt)
      BY <2>6, <2>7, SpreadFills
    <3>2. Cardinality(Starts(Spread(u))) = RAS_SIZE
      BY <2>7, <3>1 DEF Filled
    <3> QED
      BY <3>2, PlacesAre
  <2> HIDE DEF u, w
  <2>12. Spread(u) \in main_ras!Stack!After(w, a)
    <3>1. PICK n \in 1 .. Len(w) : Spread(u) = Append(SubSeq(w, n + 1, Len(w)), a)
      BY <2>9, <2>10
    <3> QED
      BY <2>11, <3>1 DEF main_ras!Stack!After
  <2> QED
    BY <1>0, <2>1, <2>6, <2>7, <2>12 DEF w
<1> QED
  BY <1>2, <1>3, <1>4

\* What holds of the stack between two uses of it.
StackOK ==
  /\ Parted(items)
  /\ Len(items) <= RAS_SIZE
  /\ items = << >> => last_addr = popped

\* One use of the stack, seen as a use of the abstract one.
StackStep == [main_ras!Stack!Next]_(main_ras!Stack!vars)

\* The addresses after a step are those of the items after it.
LEMMA StackSeesNext == main_ras!Addresses' = Spread(items')
BY DEF main_ras!Addresses, Spread, Copies

\* A stack with no items.
LEMMA EmptyStack == Parted(<< >>) /\ Len(<< >>) <= RAS_SIZE /\ Spread(<< >>) = << >>
<1>1. Parted(<< >>) /\ Len(<< >>) <= RAS_SIZE
  BY StackAssumption DEF Parted
<1> QED
  BY <1>1, SpreadFills

\* PopAddr answers with the newest call.
LEMMA PopAnswers ==
  ASSUME StackOK, main_ras!PopAddr
  PROVE  /\ main_ras!Stack!Answer
         /\ main_ras!Popped(items) = << >> => last_addr' = popped'
<1>1. main_ras!Addresses = Spread(items) /\ Parted(items) /\ Len(items) <= RAS_SIZE
  BY StackSees DEF StackOK
<1>2. CASE items = << >>
  <2>1. Spread(items) = << >>
    BY <1>2, EmptyStack
  <2>2. popped' = last_addr /\ last_addr' = last_addr /\ last_addr = popped
    BY <1>2 DEF main_ras!PopAddr, StackOK
  <2> QED
    BY <1>1, <2>1, <2>2 DEF main_ras!Stack!Answer
<1>3. CASE items # << >>
  <2>1. /\ popped' = items[Len(items)].addr
        /\ last_addr' = IF items[Len(items)].cnt = 1 THEN popped' ELSE last_addr
    BY <1>3 DEF main_ras!PopAddr
  <2>2. /\ Spread(items) # << >> /\ Spread(items)[Len(Spread(items))] = items[Len(items)].addr
        /\ main_ras!Popped(items) = << >> => items[Len(items)].cnt = 1
    BY <1>1, <1>3, PoppedIs
  <2> QED
    BY <1>1, <2>1, <2>2 DEF main_ras!Stack!Answer
<1> QED
  BY <1>2, <1>3

\* A call is a call of the abstract stack (ras.h:101-131).
LEMMA push_addrStep ==
  ASSUME StackOK, NEW a \in Addr, main_ras!push_addr(a)
  PROVE  StackOK' /\ StackStep
<1>1. items' = main_ras!Pushed(items, a) /\ popped' = popped
  BY DEF main_ras!push_addr
<1>2. /\ Parted(items') /\ Len(items') <= RAS_SIZE /\ items' # << >>
      /\ Spread(items') \in main_ras!Stack!After(Spread(items), a)
  BY <1>1, PushedIs DEF StackOK
<1>3. main_ras!Stack!Call(a)
  BY <1>1, <1>2, StackSees, StackSeesNext DEF main_ras!Stack!Call
<1> QED
  BY <1>2, <1>3 DEF StackOK, StackStep, main_ras!Stack!Next

\* A return is a return of the abstract stack (ras.h:133-161).
LEMMA pop_addrStep ==
  ASSUME StackOK, main_ras!pop_addr
  PROVE  StackOK' /\ StackStep
<1>1. items' = main_ras!Popped(items) /\ main_ras!PopAddr
  BY DEF main_ras!pop_addr
<1>2. /\ Parted(items') /\ Len(items') <= RAS_SIZE
      /\ Spread(items') = main_ras!Stack!Without(Spread(items))
  BY <1>1, PoppedIs DEF StackOK
<1>3. main_ras!Stack!Answer /\ (items' = << >> => last_addr' = popped')
  BY <1>1, PopAnswers
<1>4. main_ras!Stack!Return
  BY <1>2, <1>3, StackSees, StackSeesNext DEF main_ras!Stack!Return
<1> QED
  BY <1>2, <1>3, <1>4 DEF StackOK, StackStep, main_ras!Stack!Next

\* A switch of coroutines is both in one.
LEMMA pop_pushStep ==
  ASSUME StackOK, NEW a \in Addr, main_ras!pop_push(a)
  PROVE  StackOK' /\ StackStep
<1> DEFINE p == main_ras!Popped(items)
<1>1. items' = main_ras!Pushed(p, a) /\ main_ras!PopAddr
  BY DEF main_ras!pop_push
<1>2. Parted(p) /\ Len(p) <= RAS_SIZE /\ Spread(p) = main_ras!Stack!Without(Spread(items))
  BY PoppedIs DEF StackOK
<1>3. main_ras!Stack!Answer
  BY <1>1, PopAnswers
<1> HIDE DEF p
<1>4. /\ Parted(items') /\ Len(items') <= RAS_SIZE /\ items' # << >>
      /\ Spread(items') \in main_ras!Stack!After(Spread(p), a)
  BY <1>1, <1>2, PushedIs
<1>5. main_ras!Stack!Switch(a)
  BY <1>2, <1>3, <1>4, StackSees, StackSeesNext DEF main_ras!Stack!Switch
<1> QED
  BY <1>4, <1>5 DEF StackOK, StackStep, main_ras!Stack!Next

\* A reset forgets every call (ras.h:57-61).
LEMMA resetStep ==
  ASSUME main_ras!reset
  PROVE  StackOK' /\ StackStep
<1>1. items' = << >> /\ last_addr' = NoAddr /\ popped' = NoAddr
  BY DEF main_ras!reset
<1>2. Parted(items') /\ Len(items') <= RAS_SIZE /\ Spread(items') = << >>
  BY <1>1, EmptyStack
<1>3. main_ras!Stack!Clear
  BY <1>1, <1>2, StackSeesNext DEF main_ras!Stack!Clear
<1> QED
  BY <1>1, <1>2, <1>3 DEF StackOK, StackStep, main_ras!Stack!Next

\* A step that leaves the stack alone.
LEMMA StackIdle ==
  ASSUME StackOK, UNCHANGED stack
  PROVE  StackOK' /\ StackStep
<1>1. items' = items /\ last_addr' = last_addr /\ popped' = popped
  BY DEF stack
<1>2. main_ras!Addresses' = main_ras!Addresses
  BY <1>1, StackSees, StackSeesNext
<1> QED
  BY <1>1, <1>2 DEF StackOK, StackStep, main_ras!Stack!vars

\* What every step of the branch predictor does to its stack.
LEMMA StackSteps ==
  ASSUME StackOK, [PredictorNext]_<<vars, stack>>
  PROVE  StackOK' /\ StackStep
<1>1. CASE FetchJump
  <2>1. \/ \E a \in Addr : main_ras!push_addr(a) \/ main_ras!pop_push(a)
        \/ main_ras!pop_addr
        \/ UNCHANGED stack
    BY <1>1 DEF FetchJump
  <2> QED
    BY <2>1, push_addrStep, pop_pushStep, pop_addrStep, StackIdle
<1>2. CASE ResetAll
  BY <1>2, resetStep DEF ResetAll
<1>3. CASE FetchBranch \/ ResolveOrCommit \/ UNCHANGED <<vars, stack>>
  BY <1>3, StackIdle DEF FetchBranch, ResolveOrCommit
<1> QED
  BY <1>1, <1>2, <1>3 DEF PredictorNext

\* The empty stack stands for no calls and has answered nothing.
LEMMA StackStarts == PredictorInit => StackOK /\ main_ras!Stack!Init
<1> SUFFICES ASSUME PredictorInit
             PROVE  StackOK /\ main_ras!Stack!Init
  OBVIOUS
<1>1. items = << >> /\ last_addr = NoAddr /\ popped = NoAddr
  BY DEF PredictorInit, main_ras!Init
<1> QED
  BY <1>1, EmptyStack, StackSees DEF StackOK, main_ras!Stack!Init

\* The return stack of the predictor is a stack of the calls' addresses that
\* forgets (a reset apart) only its oldest calls, only on a call, and only as many as its
\* places, each with a count, cannot hold; emptied, it repeats its last answer
\* (ras.h:101-161 as branch_predictor.h's get_prediction uses it).
THEOREM StackRefines == PredictorSpec => ImplementsStack
<1>1. StackOK /\ [PredictorNext]_<<vars, stack>> => StackOK' /\ StackStep
  BY StackSteps
<1> QED
  BY <1>1, StackStarts, PTL DEF PredictorSpec, ImplementsStack, main_ras!Stack!Spec, StackStep

=============================================================================
