--------------------------- MODULE RenamingProofs ---------------------------
(***************************************************************************)
(* Proofs about Renaming, for every number of physical and architectural   *)
(* registers and every size of the reorder buffer.  Invariance of IInv is  *)
(* shown one action at a time; the safety properties follow from it.       *)
(***************************************************************************)
EXTENDS Renaming, SequenceTheorems, TLAPS

-----------------------------------------------------------------------------
(* What the invariant says of the registers the entries name.              *)

LEMMA NoPhyIsNotReal == NoPhy \notin Phy /\ Arch \subseteq Phy /\ NoPhy \in Nat
BY RatAssumption DEF NoPhy, Phy, Arch

LEMMA EntryIsItem ==
  ASSUME TypeOK, NEW j \in 1 .. Len(rob)
  PROVE  /\ rob[j] \in Item
         /\ rob[j].new \in Phy \cup {NoPhy}
         /\ rob[j].old \in Phy \cup {NoPhy}
<1>1. rob[j] \in Item
  BY DEF TypeOK
<1> QED
  BY <1>1 DEF Item

\* Every mapping in between consists of allocated registers.
LEMMA VisibleIsValid ==
  ASSUME IInv, NEW k \in 0 .. Len(rob)
  PROVE  VisibleAt(k) \subseteq rat.valid
BY DEF IInv, RegistersOK, VisibleAt

LEMMA CommittedIsReal ==
  ASSUME IInv
  PROVE  /\ rat.valid \subseteq Phy /\ rat.visible \subseteq Phy
         /\ Committed \subseteq Phy
         /\ VisibleAt(0) = Committed
<1>1. rat.valid \subseteq Phy /\ rat.visible \subseteq Phy
  BY DEF IInv, TypeOK, RatType
<1> QED
  BY <1>1, NoPhyIsNotReal DEF VisibleAt, Committed

\* The destination of an entry and the register it hides.
LEMMA EntryRegisters ==
  ASSUME IInv, NEW j \in 1 .. Len(rob), rob[j].new # NoPhy
  PROVE  /\ rob[j].new \in rat.valid
         /\ rob[j].old \in rat.valid
         /\ rob[j].old # NoPhy
         /\ rob[j].new # rob[j].old
         /\ rob[j].new \notin rat.commit
<1>1. rob[j].new \in rat.valid /\ rob[j].old # NoPhy /\ rob[j].new \notin rat.commit
  BY DEF IInv, RegistersOK, ChainOK
<1>2. j - 1 \in 0 .. Len(rob) /\ rob[j].old \in VisibleAt(j - 1)
  BY DEF IInv, ChainOK, TypeOK
<1>3. rob[j].old \in rat.valid
  BY <1>2, VisibleIsValid
<1>4. rob[j].old \in Committed \cup {rob[i].new : i \in 1 .. j - 1}
  BY <1>2 DEF VisibleAt
<1>5. rob[j].new \notin {rob[i].new : i \in 1 .. j - 1}
  BY DEF IInv, RegistersOK, TypeOK
<1>6. rob[j].new # rob[j].old
  BY <1>1, <1>4, <1>5 DEF Committed
<1> QED
  BY <1>1, <1>3, <1>6

\* An entry's destination is in no mapping older than the entry.
LEMMA NewIsNotOlder ==
  ASSUME IInv, NEW j \in 1 .. Len(rob), rob[j].new # NoPhy,
         NEW k \in 0 .. j - 1
  PROVE  rob[j].new \notin VisibleAt(k)
<1>1. rob[j].new \notin Committed
  BY DEF IInv, RegistersOK
<1>2. rob[j].new \notin {rob[i].new : i \in 1 .. k}
  BY DEF IInv, RegistersOK, TypeOK
<1> QED
  BY <1>1, <1>2 DEF VisibleAt

\* A register an entry hides is in no mapping younger than the entry.
LEMMA OldIsNotYounger ==
  ASSUME NEW k \in Nat, NEW j \in 1 .. k
  PROVE  rob[j].old \notin VisibleAt(k)
BY DEF VisibleAt

\* The mappings before and after an entry differ by its two registers.
LEMMA VisibleStep ==
  ASSUME IInv, NEW j \in 1 .. Len(rob)
  PROVE  VisibleAt(j) = IF rob[j].new = NoPhy THEN VisibleAt(j - 1)
                        ELSE (VisibleAt(j - 1) \cup {rob[j].new}) \ {rob[j].old}
<1>0. j \in Nat /\ j - 1 \in Nat /\ 1 .. j = (1 .. j - 1) \cup {j}
  BY DEF IInv, TypeOK
<1>1. /\ {rob[i].new : i \in 1 .. j} = {rob[i].new : i \in 1 .. j - 1} \cup {rob[j].new}
      /\ {rob[i].old : i \in 1 .. j} = {rob[i].old : i \in 1 .. j - 1} \cup {rob[j].old}
  BY <1>0
<1>2. CASE rob[j].new = NoPhy
  BY <1>1, <1>2 DEF VisibleAt, IInv, ChainOK
<1>3. CASE rob[j].new # NoPhy
  <2>1. \A i \in 1 .. j - 1 : rob[i].old # rob[j].new
    <3> SUFFICES ASSUME NEW i \in 1 .. j - 1
                 PROVE  rob[i].old # rob[j].new
      OBVIOUS
    <3>1. i \in 1 .. Len(rob) /\ i - 1 \in 0 .. j - 1
      BY DEF IInv, TypeOK
    <3>2. CASE rob[i].new = NoPhy
      BY <1>3, <3>1, <3>2 DEF IInv, ChainOK
    <3>3. CASE rob[i].new # NoPhy
      <4>1. rob[i].old \in VisibleAt(i - 1)
        BY <3>1, <3>3 DEF IInv, ChainOK
      <4>2. rob[j].new \notin VisibleAt(i - 1)
        BY <1>3, <3>1, NewIsNotOlder
      <4> QED
        BY <4>1, <4>2
    <3> QED
      BY <3>2, <3>3
  <2> QED
    BY <1>1, <1>3, <2>1 DEF VisibleAt
<1> QED
  BY <1>2, <1>3

-----------------------------------------------------------------------------
(* Frame lemmas: what a step leaves alone.                                 *)

\* The k-th mapping depends on the committed state and k entries alone.
LEMMA VisibleSame ==
  ASSUME NEW k \in Nat, Committed' = Committed,
         \A j \in 1 .. k : rob'[j].new = rob[j].new /\ rob'[j].old = rob[j].old
  PROVE  VisibleAt(k)' = VisibleAt(k)
<1>1. /\ {rob'[j].new : j \in 1 .. k} = {rob[j].new : j \in 1 .. k}
      /\ {rob'[j].old : j \in 1 .. k} = {rob[j].old : j \in 1 .. k}
  OBVIOUS
<1> QED
  BY <1>1 DEF VisibleAt

\* A table that agrees on a mapping keeps it one register per
\* architectural register.
LEMMA OnePerArchKept ==
  ASSUME NEW S, NEW T, OnePerArch(S), T = S,
         \A q \in S : rat'.table[q] = rat.table[q]
  PROVE  /\ \A a \in Arch : \E p \in T : \A q \in T : rat'.table[q] = a <=> q = p
         /\ \A q \in T : rat'.table[q] \in Arch
BY DEF OnePerArch

-----------------------------------------------------------------------------
(* Rename: an instruction with a destination.                              *)

LEMMA RenameDestStep ==
  ASSUME IInv, NEW arch_id \in Arch, NEW phy_id \in Phy, NEW predicted \in BOOLEAN,
         RenameDest(arch_id, phy_id, predicted)
  PROVE  IInv'
<1>0. PICK n \in Nat : n = Len(rob)
  BY DEF IInv, TypeOK
<1>1. PICK old \in get_phy_id(rat, arch_id), cp \in {{}, rat'.visible} :
        rob' = Append(rob, NewItem(phy_id, old, cp))
  BY DEF RenameDest
<1>2. /\ cur_state = "normal" /\ cur_state' = cur_state /\ data_valid' = data_valid
      /\ n < ROB_SIZE /\ n \in Nat
      /\ phy_id \in Phy /\ phy_id \notin rat.valid /\ phy_id # NoPhy
  BY <1>0, NoPhyIsNotReal DEF RenameDest, IInv, TypeOK
<1>3. /\ rat \in RatType
      /\ rat.visible = VisibleAt(n) /\ VisibleAt(n) \subseteq rat.valid
      /\ OnePerArch(VisibleAt(n))
  BY <1>0, <1>2, VisibleIsValid DEF IInv, MappingsOK, TypeOK
<1>4. /\ old \in rat.visible /\ old \in rat.valid /\ old \in Phy /\ old # NoPhy
      /\ rat.table[old] = arch_id /\ phy_id # old
      /\ get_phy_id(rat, arch_id) = {old}
  BY <1>0, <1>1, <1>2, <1>3, CommittedIsReal, NoPhyIsNotReal DEF get_phy_id, OnePerArch
<1>5. /\ rat'.table = [rat.table EXCEPT ![phy_id] = arch_id]
      /\ rat'.valid = rat.valid \cup {phy_id}
      /\ rat'.visible = (rat.visible \cup {phy_id}) \ {old}
      /\ rat'.commit = rat.commit \ {phy_id}
      /\ rat' \in RatType
  <2>1. rat' = [table   |-> [rat.table EXCEPT ![phy_id] = arch_id],
                valid   |-> rat.valid \cup {phy_id},
                visible |-> (rat.visible \cup {phy_id}) \ {old},
                commit  |-> rat.commit \ {phy_id}]
    BY <1>4 DEF RenameDest, set_map
  <2> QED
    BY <1>0, <2>1, <1>2, <1>3, RatAssumption DEF RatType, Arch
<1>6. /\ Len(rob') = n + 1 /\ \A j \in 1 .. n : rob'[j] = rob[j]
      /\ rob'[n + 1] = NewItem(phy_id, old, cp)
      /\ rob' \in Seq(Item)
  <2>1. NewItem(phy_id, old, cp) \in Item
    BY <1>0, <1>2, <1>4, <1>5 DEF NewItem, Item, RatType
  <2> QED
    BY <2>1, <1>0, <1>1, AppendProperties DEF IInv, TypeOK
<1>7. /\ rob'[n + 1].new = phy_id /\ rob'[n + 1].old = old
      /\ rob'[n + 1].cp = cp /\ rob'[n + 1].status = "waiting"
  BY <1>0, <1>6 DEF NewItem
<1>8. Committed' = Committed
  BY <1>0, <1>2, <1>5 DEF Committed
<1>9. \A k \in 0 .. n : VisibleAt(k)' = VisibleAt(k)
  BY <1>0, <1>2, <1>6, <1>8, VisibleSame
<1>10. \A j \in 1 .. n : /\ rob[j].new # NoPhy => rob[j].new \in rat.valid /\ rob[j].old \in rat.valid
                         /\ rob[j].new # phy_id /\ rob[j].old # phy_id
  BY <1>0, <1>2, EntryRegisters DEF IInv, ChainOK
<1>11. TypeOK'
  BY <1>0, <1>2, <1>5, <1>6, RobAssumption DEF IInv, TypeOK
<1>12. RegistersOK'
  <2>1. {rob'[j].new : j \in 1 .. n + 1} = {rob[j].new : j \in 1 .. n} \cup {phy_id}
    <3>1. 1 .. n + 1 = (1 .. n) \cup {n + 1}
      BY <1>0, <1>2
    <3> QED
      BY <1>0, <3>1, <1>6, <1>7
  <2>2. rat'.valid = Committed' \cup ({rob'[j].new : j \in 1 .. Len(rob')} \ {NoPhy})
    BY <1>0, <2>1, <1>2, <1>5, <1>6, <1>8 DEF IInv, RegistersOK
  <2>3. ASSUME NEW i \in 1 .. n + 1, NEW j \in 1 .. n + 1, rob'[i].new # NoPhy
        PROVE  rob'[i].new \notin Committed' /\ (rob'[i].new = rob'[j].new => i = j)
    <3>1. phy_id \notin Committed
      BY <1>0, <1>2 DEF Committed
    <3>2. CASE i \in 1 .. n /\ j \in 1 .. n
      BY <1>0, <2>3, <3>2, <1>6, <1>8 DEF IInv, RegistersOK
    <3>3. CASE i \in 1 .. n /\ j = n + 1
      BY <1>0, <2>3, <3>3, <1>6, <1>7, <1>8, <1>10 DEF IInv, RegistersOK
    <3>4. CASE i = n + 1
      BY <1>0, <3>1, <3>4, <1>2, <1>6, <1>7, <1>8, <1>10
    <3> QED
      BY <1>0, <3>2, <3>3, <3>4, <1>2
  <2> QED
    BY <1>0, <2>2, <2>3, <1>6 DEF RegistersOK
<1>13. VisibleAt(n + 1)' = rat'.visible
  <2>1. 1 .. n + 1 = (1 .. n) \cup {n + 1}
    BY <1>0, <1>2
  <2>2. /\ {rob'[j].new : j \in 1 .. n + 1} = {rob[j].new : j \in 1 .. n} \cup {phy_id}
        /\ {rob'[j].old : j \in 1 .. n + 1} = {rob[j].old : j \in 1 .. n} \cup {old}
    BY <1>0, <2>1, <1>6, <1>7
  <2>3. phy_id \notin {rob[j].old : j \in 1 .. n}
    BY <1>10
  <2>4. VisibleAt(n + 1)' = (Committed \cup {rob[j].new : j \in 1 .. n} \cup {phy_id})
                              \ ({rob[j].old : j \in 1 .. n} \cup {old} \cup {NoPhy})
    BY <2>2, <1>8 DEF VisibleAt
  <2>5. VisibleAt(n) = (Committed \cup {rob[j].new : j \in 1 .. n})
                         \ ({rob[j].old : j \in 1 .. n} \cup {NoPhy})
    BY DEF VisibleAt
  <2> QED
    BY <2>3, <2>4, <2>5, <1>0, <1>2, <1>3, <1>4, <1>5
<1>14. ChainOK'
  <2> SUFFICES ASSUME NEW j \in 1 .. n + 1
               PROVE  /\ rob'[j].new = NoPhy <=> rob'[j].old = NoPhy
                      /\ rob'[j].new # NoPhy =>
                           /\ rob'[j].new \notin rat'.commit
                           /\ rob'[j].old \in VisibleAt(j - 1)'
                           /\ rat'.table[rob'[j].old] = rat'.table[rob'[j].new]
    BY <1>0, <1>6 DEF ChainOK
  <2>1. CASE j \in 1 .. n
    <3>1. j - 1 \in 0 .. n
      BY <1>0, <2>1, <1>2
    <3>2. /\ rob[j].new = NoPhy <=> rob[j].old = NoPhy
          /\ rob[j].new # NoPhy =>
               /\ rob[j].new \notin rat.commit
               /\ rob[j].old \in VisibleAt(j - 1)
               /\ rat.table[rob[j].old] = rat.table[rob[j].new]
      BY <1>0, <2>1 DEF IInv, ChainOK
    <3>3. rob[j].new # NoPhy =>
            /\ rat'.table[rob[j].old] = rat.table[rob[j].old]
            /\ rat'.table[rob[j].new] = rat.table[rob[j].new]
      BY <2>1, <1>3, <1>5, <1>10, CommittedIsReal DEF RatType
    <3>4. rob'[j] = rob[j] /\ VisibleAt(j - 1)' = VisibleAt(j - 1)
      BY <2>1, <3>1, <1>6, <1>9
    <3> QED
      BY <3>2, <3>3, <3>4, <1>5
  <2>2. CASE j = n + 1
    <3>1. j - 1 = n /\ n \in 0 .. n
      BY <1>0, <2>2, <1>2
    <3> QED
      BY <1>0, <2>2, <3>1, <1>2, <1>3, <1>4, <1>5, <1>7, <1>9 DEF RatType
  <2> QED
    BY <1>0, <2>1, <2>2, <1>2
<1>15. MappingsOK'
  <2>1. ASSUME NEW k \in 0 .. n
        PROVE  OnePerArch(VisibleAt(k))'
    <3>1. OnePerArch(VisibleAt(k)) /\ VisibleAt(k) \subseteq rat.valid
      BY <1>0, VisibleIsValid DEF IInv, MappingsOK
    <3>2. \A q \in VisibleAt(k) : rat'.table[q] = rat.table[q]
      BY <1>0, <3>1, <1>2, <1>3, <1>5 DEF RatType
    <3> QED
      BY <1>0, <3>1, <3>2, <1>9, OnePerArchKept DEF OnePerArch
  <2>2. OnePerArch(VisibleAt(n + 1))'
    <3>1. \A q \in rat.visible : rat'.table[q] = rat.table[q]
      BY <1>0, <1>2, <1>3, <1>5 DEF RatType
    <3>2. rat'.table[phy_id] = arch_id
      BY <1>0, <1>2, <1>3, <1>5 DEF RatType
    <3>3. \A a \in Arch : \E p \in rat'.visible : \A q \in rat'.visible :
            rat'.table[q] = a <=> q = p
      <4> SUFFICES ASSUME NEW a \in Arch
                   PROVE  \E p \in rat'.visible : \A q \in rat'.visible :
                            rat'.table[q] = a <=> q = p
        OBVIOUS
      <4>1. CASE a = arch_id
        BY <1>0, <4>1, <3>1, <3>2, <1>3, <1>4, <1>5 DEF OnePerArch
      <4>2. CASE a # arch_id
        <5>1. PICK p \in rat.visible : \A q \in rat.visible : rat.table[q] = a <=> q = p
          BY <1>0, <1>3 DEF OnePerArch
        <5>2. p \in rat'.visible
          BY <5>1, <4>2, <1>4, <1>5
        <5> QED
          BY <1>0, <5>1, <5>2, <4>2, <3>1, <3>2, <1>2, <1>3, <1>5
      <4> QED
        BY <4>1, <4>2
    <3> QED
      BY <1>0, <3>1, <3>2, <3>3, <1>3, <1>5, <1>13 DEF OnePerArch
  <2>3. \A k \in 0 .. n + 1 : k \in 0 .. n \/ k = n + 1
    BY <1>0, <1>2
  <2> QED
    BY <1>0, <2>1, <2>2, <2>3, <1>6, <1>13 DEF MappingsOK
<1>16. CheckpointsOK'
  <2> SUFFICES ASSUME NEW j \in 1 .. n + 1, rob'[j].cp # {}
               PROVE  rob'[j].cp = VisibleAt(j)'
    BY <1>0, <1>6 DEF CheckpointsOK
  <2>1. CASE j \in 1 .. n
    BY <1>0, <2>1, <1>2, <1>6, <1>9 DEF IInv, CheckpointsOK
  <2>2. CASE j = n + 1
    BY <1>0, <2>2, <1>7, <1>13
  <2> QED
    BY <1>0, <2>1, <2>2, <1>2
<1>17. DataOK'
  <2>1. Committed' \subseteq data_valid' /\ data_valid' \subseteq rat'.valid
    BY <1>0, <1>2, <1>5, <1>8 DEF IInv, DataOK
  <2>2. ASSUME NEW j \in 1 .. n + 1
        PROVE  /\ rob'[j].status \in {"done", "missed"} /\ rob'[j].new # NoPhy =>
                    rob'[j].new \in data_valid'
               /\ rob'[j].status = "missed" => rob'[j].cp # {}
    <3>1. CASE j \in 1 .. n
      BY <1>0, <3>1, <1>2, <1>6 DEF IInv, DataOK
    <3>2. CASE j = n + 1
      BY <3>2, <1>7
    <3> QED
      BY <1>0, <3>1, <3>2, <1>2
  <2> QED
    BY <1>0, <2>1, <2>2, <1>6 DEF DataOK
<1>18. StateOK'
  BY <1>0, <1>2 DEF StateOK
<1> QED
  BY <1>11, <1>12, <1>14, <1>15, <1>16, <1>17, <1>18 DEF IInv

-----------------------------------------------------------------------------
(* Rename: an instruction without a destination.                           *)

LEMMA RenameNoDestStep ==
  ASSUME IInv, NEW predicted \in BOOLEAN, RenameNoDest(predicted)
  PROVE  IInv'
<1>0. PICK n \in Nat : n = Len(rob)
  BY DEF IInv, TypeOK
<1>1. PICK cp \in {{}, rat.visible} : rob' = Append(rob, NewItem(NoPhy, NoPhy, cp))
  BY DEF RenameNoDest
<1>2. /\ cur_state = "normal" /\ cur_state' = cur_state
      /\ data_valid' = data_valid /\ rat' = rat /\ n < ROB_SIZE
  BY <1>0 DEF RenameNoDest
<1>3. rat.visible = VisibleAt(n)
  BY <1>0 DEF IInv, MappingsOK
<1>4. /\ Len(rob') = n + 1 /\ \A j \in 1 .. n : rob'[j] = rob[j]
      /\ rob'[n + 1] = NewItem(NoPhy, NoPhy, cp)
      /\ rob' \in Seq(Item)
  <2>1. NewItem(NoPhy, NoPhy, cp) \in Item
    BY CommittedIsReal DEF NewItem, Item
  <2> QED
    BY <1>0, <1>1, <2>1, AppendProperties DEF IInv, TypeOK
<1>5. /\ rob'[n + 1].new = NoPhy /\ rob'[n + 1].old = NoPhy
      /\ rob'[n + 1].cp = cp /\ rob'[n + 1].status = "waiting"
  BY <1>4 DEF NewItem
<1>6. Committed' = Committed
  BY <1>2 DEF Committed
<1>7. \A k \in 0 .. n : VisibleAt(k)' = VisibleAt(k)
  BY <1>0, <1>4, <1>6, VisibleSame
<1>8. VisibleAt(n + 1)' = VisibleAt(n)
  <2>1. 1 .. n + 1 = (1 .. n) \cup {n + 1}
    BY <1>0
  <2>2. /\ {rob'[j].new : j \in 1 .. n + 1} = {rob[j].new : j \in 1 .. n} \cup {NoPhy}
        /\ {rob'[j].old : j \in 1 .. n + 1} = {rob[j].old : j \in 1 .. n} \cup {NoPhy}
    BY <2>1, <1>4, <1>5
  <2> QED
    BY <2>2, <1>6 DEF VisibleAt
<1>9. \A j \in 1 .. n + 1 : j \in 1 .. n \/ j = n + 1
  BY <1>0
<1>10. TypeOK'
  BY <1>0, <1>2, <1>4, RobAssumption DEF IInv, TypeOK
<1>11. RegistersOK'
  <2>1. {rob'[j].new : j \in 1 .. n + 1} = {rob[j].new : j \in 1 .. n} \cup {NoPhy}
    <3>1. 1 .. n + 1 = (1 .. n) \cup {n + 1}
      BY <1>0
    <3> QED
      BY <3>1, <1>4, <1>5
  <2>2. rat'.valid = Committed' \cup ({rob'[j].new : j \in 1 .. Len(rob')} \ {NoPhy})
    BY <2>1, <1>0, <1>2, <1>4, <1>6 DEF IInv, RegistersOK
  <2>3. \A i, j \in 1 .. n + 1 :
          rob'[i].new # NoPhy => /\ rob'[i].new \notin Committed'
                                 /\ rob'[i].new = rob'[j].new => i = j
    BY <1>0, <1>4, <1>5, <1>6, <1>9 DEF IInv, RegistersOK
  <2> QED
    BY <2>2, <2>3, <1>4 DEF RegistersOK
<1>12. ChainOK'
  <2> SUFFICES ASSUME NEW j \in 1 .. n, rob'[j].new # NoPhy
               PROVE  /\ rob'[j].new \notin rat'.commit
                      /\ rob'[j].old \in VisibleAt(j - 1)'
                      /\ rat'.table[rob'[j].old] = rat'.table[rob'[j].new]
    BY <1>0, <1>4, <1>5, <1>9 DEF ChainOK, IInv
  <2>1. j - 1 \in 0 .. n
    BY <1>0
  <2> QED
    BY <2>1, <1>0, <1>2, <1>4, <1>7 DEF IInv, ChainOK
<1>13. MappingsOK'
  <2>1. \A k \in 0 .. n + 1 : k \in 0 .. n \/ k = n + 1
    BY <1>0
  <2>2. \A k \in 0 .. n : OnePerArch(VisibleAt(k)) /\ n \in 0 .. n
    BY <1>0 DEF IInv, MappingsOK
  <2>3. \A k \in 0 .. n + 1 : OnePerArch(VisibleAt(k))'
    BY <2>1, <2>2, <1>2, <1>7, <1>8 DEF OnePerArch
  <2> QED
    BY <2>3, <1>2, <1>3, <1>4, <1>8 DEF MappingsOK
<1>14. CheckpointsOK'
  <2> SUFFICES ASSUME NEW j \in 1 .. n + 1, rob'[j].cp # {}
               PROVE  rob'[j].cp = VisibleAt(j)'
    BY <1>4 DEF CheckpointsOK
  <2> QED
    BY <1>0, <1>3, <1>4, <1>5, <1>7, <1>8, <1>9 DEF IInv, CheckpointsOK
<1>15. DataOK'
  <2>1. Committed' \subseteq data_valid' /\ data_valid' \subseteq rat'.valid
    BY <1>2, <1>6 DEF IInv, DataOK
  <2>2. \A j \in 1 .. n + 1 :
          /\ rob'[j].status \in {"done", "missed"} /\ rob'[j].new # NoPhy =>
               rob'[j].new \in data_valid'
          /\ rob'[j].status = "missed" => rob'[j].cp # {}
    BY <1>0, <1>2, <1>4, <1>5, <1>9 DEF IInv, DataOK
  <2> QED
    BY <2>1, <2>2, <1>4 DEF DataOK
<1>16. StateOK'
  BY <1>2 DEF StateOK
<1> QED
  BY <1>10, <1>11, <1>12, <1>13, <1>14, <1>15, <1>16 DEF IInv

-----------------------------------------------------------------------------
(* Steps that change what is known of the results and no register.         *)

LEMMA SameRegisters ==
  ASSUME IInv, rat' = rat, Len(rob') = Len(rob),
         \A j \in 1 .. Len(rob) :
           /\ rob'[j].new = rob[j].new /\ rob'[j].old = rob[j].old
           /\ rob'[j].cp \in {rob[j].cp, {}}
  PROVE  RegistersOK' /\ ChainOK' /\ MappingsOK' /\ CheckpointsOK' /\ Committed' = Committed
<1>0. PICK n \in Nat : n = Len(rob)
  BY DEF IInv, TypeOK
<1>1. Committed' = Committed
  BY DEF Committed
<1>2. \A k \in 0 .. n : VisibleAt(k)' = VisibleAt(k)
  BY <1>0, <1>1, VisibleSame
<1>3. RegistersOK'
  <2>1. {rob'[j].new : j \in 1 .. n} = {rob[j].new : j \in 1 .. n}
    BY <1>0
  <2> QED
    BY <2>1, <1>0, <1>1 DEF IInv, RegistersOK
<1>4. ChainOK'
  <2> SUFFICES ASSUME NEW j \in 1 .. n
               PROVE  /\ rob'[j].new = NoPhy <=> rob'[j].old = NoPhy
                      /\ rob'[j].new # NoPhy =>
                           /\ rob'[j].new \notin rat'.commit
                           /\ rob'[j].old \in VisibleAt(j - 1)'
                           /\ rat'.table[rob'[j].old] = rat'.table[rob'[j].new]
    BY <1>0 DEF ChainOK
  <2>1. j - 1 \in 0 .. n
    BY <1>0
  <2> QED
    BY <2>1, <1>0, <1>2 DEF IInv, ChainOK
<1>5. MappingsOK'
  BY <1>0, <1>2 DEF IInv, MappingsOK, OnePerArch
<1>6. CheckpointsOK'
  BY <1>0, <1>2 DEF IInv, CheckpointsOK
<1> QED
  BY <1>1, <1>3, <1>4, <1>5, <1>6

LEMMA WriteBackStep ==
  ASSUME IInv, NEW j \in 1 .. Len(rob), NEW status \in {"done", "missed", "exception"},
         WriteBack(j, status)
  PROVE  IInv'
<1>1. /\ rat' = rat /\ cur_state' = cur_state /\ cur_state = "normal"
      /\ rob' = [rob EXCEPT ![j].status = status]
      /\ status = "missed" => rob[j].cp # {}
      /\ data_valid' = IF status = "exception" THEN data_valid
                       ELSE data_valid \cup ({rob[j].new} \ {NoPhy})
  BY DEF WriteBack
<1>2. /\ rob \in Seq(Item) /\ rob[j] \in Item
      /\ rob' \in Seq(Item) /\ Len(rob') = Len(rob)
      /\ \A i \in 1 .. Len(rob) : i # j => rob'[i] = rob[i]
      /\ rob'[j] = [rob[j] EXCEPT !.status = status]
  <2>1. rob \in Seq(Item) /\ rob[j] \in Item
    BY EntryIsItem DEF IInv, TypeOK
  <2>2. [rob[j] EXCEPT !.status = status] \in Item
    BY <2>1 DEF Item
  <2>3. rob' = [rob EXCEPT ![j] = [rob[j] EXCEPT !.status = status]]
    BY <1>1
  <2> QED
    BY <2>1, <2>2, <2>3
<1>3. /\ rob'[j].new = rob[j].new /\ rob'[j].old = rob[j].old
      /\ rob'[j].cp = rob[j].cp /\ rob'[j].status = status
  BY <1>2 DEF Item
<1>4. RegistersOK' /\ ChainOK' /\ MappingsOK' /\ CheckpointsOK' /\ Committed' = Committed
  BY <1>1, <1>2, <1>3, SameRegisters
<1>5. rob[j].new # NoPhy => rob[j].new \in rat.valid /\ rob[j].new \in Phy
  BY EntryRegisters, CommittedIsReal
<1>6. TypeOK'
  BY <1>1, <1>2, <1>5, NoPhyIsNotReal DEF IInv, TypeOK
<1>7. DataOK'
  <2>1. Committed' \subseteq data_valid' /\ data_valid' \subseteq rat'.valid
    BY <1>1, <1>4, <1>5 DEF IInv, DataOK
  <2>2. ASSUME NEW i \in 1 .. Len(rob)
        PROVE  /\ rob'[i].status \in {"done", "missed"} /\ rob'[i].new # NoPhy =>
                    rob'[i].new \in data_valid'
               /\ rob'[i].status = "missed" => rob'[i].cp # {}
    <3>1. CASE i = j
      BY <3>1, <1>1, <1>3
    <3>2. CASE i # j
      BY <3>2, <1>1, <1>2 DEF IInv, DataOK
    <3> QED
      BY <3>1, <3>2
  <2> QED
    BY <2>1, <2>2, <1>2 DEF DataOK
<1>8. StateOK'
  BY <1>1 DEF StateOK
<1> QED
  BY <1>4, <1>6, <1>7, <1>8 DEF IInv

\* Entering a flush: the results are forgotten.
LEMMA FlushStep ==
  ASSUME IInv, Exception \/ Interrupt
  PROVE  IInv'
<1>1. /\ rat' = rat /\ data_valid' = data_valid /\ rob # << >>
      /\ rob' = Forgotten /\ cur_state' \in {"flush", "interrupt_flush"}
  BY DEF Exception, Interrupt
<1>2. /\ Len(rob') = Len(rob) /\ rob' \in Seq(Item)
      /\ \A j \in 1 .. Len(rob) :
           /\ rob'[j].new = rob[j].new /\ rob'[j].old = rob[j].old
           /\ rob'[j].cp = {} /\ rob'[j].status = "waiting"
  <2>1. \A j \in 1 .. Len(rob) : [rob[j] EXCEPT !.status = "waiting", !.cp = {}] \in Item
    BY EntryIsItem DEF IInv, Item
  <2>2. Len(rob) \in Nat
    BY DEF IInv, TypeOK
  <2>3. \A j \in 1 .. Len(rob) : rob[j] \in Item
    BY EntryIsItem DEF IInv
  <2>4. PICK n \in Nat : n = Len(rob)
    BY <2>2
  <2>5. rob' = [j \in 1 .. n |-> [rob[j] EXCEPT !.status = "waiting", !.cp = {}]]
    BY <1>1, <2>4 DEF Forgotten
  <2>6. rob' \in [1 .. n -> Item]
    BY <2>1, <2>4, <2>5
  <2>7. rob' \in Seq(Item) /\ Len(rob') = n
    BY <2>4, <2>6
  <2>8. ASSUME NEW j \in 1 .. n
        PROVE  /\ rob'[j].new = rob[j].new /\ rob'[j].old = rob[j].old
               /\ rob'[j].cp = {} /\ rob'[j].status = "waiting"
    <3>1. rob'[j] = [rob[j] EXCEPT !.status = "waiting", !.cp = {}]
      BY <2>5
    <3> QED
      BY <2>3, <2>4, <3>1 DEF Item
  <2> QED
    BY <2>4, <2>7, <2>8
<1>3. RegistersOK' /\ ChainOK' /\ MappingsOK' /\ CheckpointsOK' /\ Committed' = Committed
  BY <1>1, <1>2, SameRegisters
<1>4. rob' # << >>
  BY <1>1, <1>2, EmptySeq DEF IInv, TypeOK
<1>5. TypeOK'
  BY <1>1, <1>2 DEF IInv, TypeOK
<1>6. DataOK'
  BY <1>1, <1>2, <1>3 DEF IInv, DataOK
<1>7. StateOK'
  BY <1>4 DEF StateOK
<1> QED
  BY <1>3, <1>5, <1>6, <1>7 DEF IInv

-----------------------------------------------------------------------------
(* Walk back: the youngest entry is undone.                                *)

LEMMA UndoStep ==
  ASSUME IInv, Undo
  PROVE  IInv'
<1>0. PICK n \in Nat : n = Len(rob) /\ n > 0 /\ n - 1 \in Nat /\ n \in 1 .. n
  <2>1. Len(rob) \in Nat /\ Len(rob) # 0
    BY EmptySeq DEF IInv, TypeOK, Undo
  <2> QED
    BY <2>1
<1> DEFINE new == rob[n].new
           old == rob[n].old
<1>1. /\ cur_state # "normal" /\ rob' = SubSeq(rob, 1, n - 1)
      /\ data_valid' = data_valid \ {new}
      /\ rat' = IF new = NoPhy THEN rat ELSE restore_map(rat, new, old)
      /\ cur_state' = IF n = 1 THEN "normal" ELSE cur_state
  BY <1>0 DEF Undo, Last
<1>2. /\ rob' \in Seq(Item) /\ Len(rob') = n - 1
      /\ \A j \in 1 .. n - 1 : rob'[j] = rob[j]
  <2>1. \A j \in 1 .. n - 1 : rob[j] \in Item
    BY <1>0 DEF IInv, TypeOK
  <2>2. /\ rob' \in Seq(Item)
        /\ Len(rob') = IF 1 <= n - 1 THEN (n - 1) - 1 + 1 ELSE 0
        /\ \A j \in 1 .. (n - 1) - 1 + 1 : rob'[j] = rob[1 + j - 1]
    BY <1>0, <1>1, <2>1, SubSeqProperties
  <2> QED
    BY <1>0, <2>2
<1>3. /\ rat \in RatType /\ rat.visible = VisibleAt(n)
      /\ VisibleAt(n) = IF new = NoPhy THEN VisibleAt(n - 1)
                        ELSE (VisibleAt(n - 1) \cup {new}) \ {old}
  BY <1>0, VisibleStep DEF IInv, TypeOK, MappingsOK
<1>4. new # NoPhy =>
        /\ new \in rat.valid /\ new \in Phy /\ new \notin rat.commit
        /\ old \in rat.valid /\ old \in Phy /\ new # old
        /\ old \in VisibleAt(n - 1)
        /\ \A k \in 0 .. n - 1 : new \notin VisibleAt(k)
  BY <1>0, EntryRegisters, NewIsNotOlder, CommittedIsReal DEF IInv, ChainOK
<1>5. /\ rat' \in RatType
      /\ rat'.commit = rat.commit
      /\ rat'.valid = rat.valid \ {new}
      /\ rat'.visible = VisibleAt(n - 1)
      /\ \A q \in Phy : q # new => rat'.table[q] = rat.table[q]
  <2>1. CASE new = NoPhy
    BY <2>1, <1>1, <1>3, CommittedIsReal, NoPhyIsNotReal
  <2>2. CASE new # NoPhy
    <3>1. /\ rat'.table = [rat.table EXCEPT ![new] = 0]
          /\ rat'.valid = (rat.valid \ {new}) \cup {old}
          /\ rat'.visible = (rat.visible \ {new}) \cup {old}
          /\ rat'.commit = rat.commit
          /\ rat' \in RatType
      <4>1. rat' = [table   |-> [rat.table EXCEPT ![new] = 0],
                    valid   |-> (rat.valid \ {new}) \cup {old},
                    visible |-> (rat.visible \ {new}) \cup {old},
                    commit  |-> rat.commit]
        BY <2>2, <1>1, <1>3 DEF restore_map, RatType
      <4> QED
        BY <4>1, <2>2, <1>3, <1>4, RatAssumption DEF RatType
    <3>2. n - 1 \in 0 .. n - 1
      BY <1>0
    <3> QED
      BY <3>1, <3>2, <2>2, <1>3, <1>4 DEF RatType
  <2> QED
    BY <2>1, <2>2
<1>6. Committed' = Committed
  <2>1. new \notin Committed
    BY <1>4, NoPhyIsNotReal, CommittedIsReal DEF Committed
  <2> QED
    BY <2>1, <1>5 DEF Committed
<1>7. \A k \in 0 .. n - 1 : VisibleAt(k)' = VisibleAt(k)
  BY <1>0, <1>2, <1>6, VisibleSame, SMTT(60)
<1>8. \A k \in 0 .. n - 1 : new \notin VisibleAt(k) /\ VisibleAt(k) \subseteq Phy
  BY <1>0, <1>4, VisibleIsValid, CommittedIsReal, NoPhyIsNotReal
<1>9. TypeOK'
  <2>1. /\ data_valid' \in SUBSET Phy
        /\ cur_state' \in {"normal", "flush", "interrupt_flush"}
    BY <1>0, <1>1 DEF IInv, TypeOK
  <2>2. Len(rob') <= ROB_SIZE
    BY <1>0, <1>2, RobAssumption DEF IInv, TypeOK
  <2> QED
    BY <1>2, <1>5, <2>1, <2>2 DEF TypeOK
<1>10. RegistersOK'
  <2>1. {rob[j].new : j \in 1 .. n} = {rob'[j].new : j \in 1 .. n - 1} \cup {new}
    <3>1. 1 .. n = (1 .. n - 1) \cup {n}
      BY <1>0
    <3> QED
      BY <3>1, <1>2
  <2>2. new # NoPhy => new \notin Committed \cup {rob'[j].new : j \in 1 .. n - 1}
    BY <1>0, <1>2 DEF IInv, RegistersOK
  <2>3. new = NoPhy => new \notin rat.valid
    BY CommittedIsReal, NoPhyIsNotReal
  <2>4. rat.valid = Committed \cup ({rob[j].new : j \in 1 .. n} \ {NoPhy})
    BY <1>0 DEF IInv, RegistersOK
  <2>5. rat'.valid = Committed' \cup ({rob'[j].new : j \in 1 .. n - 1} \ {NoPhy})
    BY <2>1, <2>2, <2>3, <2>4, <1>5, <1>6
  <2>6. \A i, j \in 1 .. n - 1 :
          rob'[i].new # NoPhy => /\ rob'[i].new \notin Committed'
                                 /\ rob'[i].new = rob'[j].new => i = j
    <3>1. \A i, j \in 1 .. n :
            rob[i].new # NoPhy => /\ rob[i].new \notin Committed
                                  /\ rob[i].new = rob[j].new => i = j
      BY <1>0 DEF IInv, RegistersOK
    <3>2. \A i \in 1 .. n - 1 : i \in 1 .. n /\ rob'[i] = rob[i]
      BY <1>0, <1>2
    <3> QED
      BY <1>6, <3>1, <3>2, Zenon
  <2>7. Len(rob') = n - 1
    BY <1>2
  <2> QED
    BY <2>5, <2>6, <2>7, Zenon DEF RegistersOK
<1>11. ChainOK'
  <2> SUFFICES ASSUME NEW j \in 1 .. n - 1
               PROVE  /\ rob'[j].new = NoPhy <=> rob'[j].old = NoPhy
                      /\ rob'[j].new # NoPhy =>
                           /\ rob'[j].new \notin rat'.commit
                           /\ rob'[j].old \in VisibleAt(j - 1)'
                           /\ rat'.table[rob'[j].old] = rat'.table[rob'[j].new]
    BY <1>2 DEF ChainOK
  <2>1. j - 1 \in 0 .. n - 1 /\ j \in 1 .. n /\ j # n
    BY <1>0
  <2>2. /\ rob[j].new = NoPhy <=> rob[j].old = NoPhy
        /\ rob[j].new # NoPhy =>
             /\ rob[j].new \notin rat.commit
             /\ rob[j].old \in VisibleAt(j - 1)
             /\ rat.table[rob[j].old] = rat.table[rob[j].new]
    BY <2>1, <1>0 DEF IInv, ChainOK
  <2>3. rob[j].new # NoPhy => /\ rob[j].new # new /\ rob[j].new \in Phy
                              /\ rob[j].old # new /\ rob[j].old \in Phy
    <3>1. rob[j].new # NoPhy => rob[j].new # new
      BY <2>1, <1>0 DEF IInv, RegistersOK
    <3> QED
      BY <3>1, <2>1, <2>2, <1>0, <1>8, EntryRegisters, CommittedIsReal
  <2> QED
    BY <2>1, <2>2, <2>3, <1>2, <1>5, <1>7
<1>12. MappingsOK'
  <2>1. ASSUME NEW k \in 0 .. n - 1
        PROVE  OnePerArch(VisibleAt(k))'
    <3>1. OnePerArch(VisibleAt(k))
      BY <1>0 DEF IInv, MappingsOK
    <3>2. \A q \in VisibleAt(k) : rat'.table[q] = rat.table[q]
      BY <1>5, <1>8
    <3> QED
      BY <3>1, <3>2, <1>7, OnePerArchKept DEF OnePerArch
  <2>2. n - 1 \in 0 .. n - 1
    BY <1>0
  <2> QED
    BY <2>1, <2>2, <1>2, <1>5, <1>7 DEF MappingsOK
<1>13. CheckpointsOK'
  BY <1>0, <1>2, <1>7 DEF IInv, CheckpointsOK
<1>14. DataOK'
  <2>1. new \notin Committed
    BY <1>4, NoPhyIsNotReal, CommittedIsReal DEF Committed
  <2>2. Committed' \subseteq data_valid' /\ data_valid' \subseteq rat'.valid
    BY <2>1, <1>1, <1>5, <1>6 DEF IInv, DataOK
  <2>3. ASSUME NEW j \in 1 .. n - 1
        PROVE  /\ rob'[j].status \in {"done", "missed"} /\ rob'[j].new # NoPhy =>
                    rob'[j].new \in data_valid'
               /\ rob'[j].status = "missed" => rob'[j].cp # {}
    <3>1. j \in 1 .. n /\ j # n
      BY <1>0
    <3>2. rob[j].new # NoPhy => rob[j].new # new
      BY <3>1, <1>0 DEF IInv, RegistersOK
    <3> QED
      BY <3>1, <3>2, <1>0, <1>1, <1>2 DEF IInv, DataOK
  <2> QED
    BY <2>2, <2>3, <1>2 DEF DataOK
<1>15. StateOK'
  <2>1. rob' = << >> => n - 1 = 0
    BY <1>2, EmptySeq
  <2>2. cur_state' # "normal" => n # 1
    BY <1>1
  <2> QED
    BY <2>1, <2>2, <1>0 DEF StateOK
<1> QED
  BY <1>9, <1>10, <1>11, <1>12, <1>13, <1>14, <1>15 DEF IInv

-----------------------------------------------------------------------------
(* The oldest entry leaves.                                                *)

LEMMA ShiftedInterval ==
  ASSUME NEW k \in Nat
  PROVE  1 .. k + 1 = {1} \cup {j + 1 : j \in 1 .. k}
<1>1. \A i \in 1 .. k + 1 : i = 1 \/ (i - 1 \in 1 .. k /\ i = (i - 1) + 1)
  OBVIOUS
<1>2. \A i \in 1 .. k + 1 : i = 1 \/ \E j \in 1 .. k : i = j + 1
  BY <1>1
<1>3. 1 \in 1 .. k + 1 /\ \A j \in 1 .. k : j + 1 \in 1 .. k + 1
  OBVIOUS
<1> QED
  BY <1>2, <1>3

LEMMA HeadIsFirst ==
  ASSUME TypeOK, rob # << >>
  PROVE  Head(rob) = rob[1] /\ 1 \in 1 .. Len(rob) /\ Len(rob) \in Nat
BY EmptySeq DEF TypeOK

\* Committing the oldest entry makes the first mapping the committed one.
LEMMA RetireEffect ==
  ASSUME IInv, rob # << >>, NEW R, R = Retired(Head(rob))
  PROVE  /\ R \in RatType
         /\ R.visible = rat.visible
         /\ R.valid = rat.valid \ {rob[1].old}
         /\ R.commit = rat.commit \cup ({rob[1].new} \ {NoPhy})
         /\ \A q \in Phy : q # rob[1].old => R.table[q] = rat.table[q]
         /\ R.valid \cap R.commit = VisibleAt(1)
<1> DEFINE new == rob[1].new
           old == rob[1].old
<1>1. Head(rob) = rob[1] /\ 1 \in 1 .. Len(rob) /\ 0 \in 0 .. 1 - 1
  BY HeadIsFirst DEF IInv
<1>2. rat \in RatType
  BY DEF IInv, TypeOK
<1>3. VisibleAt(1) = IF new = NoPhy THEN Committed ELSE (Committed \cup {new}) \ {old}
  BY <1>1, VisibleStep, CommittedIsReal
<1>4. CASE new = NoPhy
  <2>1. old = NoPhy
    BY <1>1, <1>4 DEF IInv, ChainOK
  <2> QED
    BY <1>1, <1>2, <1>3, <1>4, <2>1, CommittedIsReal, NoPhyIsNotReal
       DEF Retired, Committed
<1>5. CASE new # NoPhy
  <2>1. /\ new \in rat.valid /\ new \in Phy /\ old \in Phy /\ new # old
    BY <1>1, <1>5, EntryRegisters, CommittedIsReal
  <2>2. R = [table   |-> [rat.table EXCEPT ![old] = 0],
             valid   |-> rat.valid \ {old},
             visible |-> rat.visible,
             commit  |-> rat.commit \cup {new}]
    BY <1>1, <1>2, <1>5 DEF Retired, release_map, commit_map, RatType
  <2>3. R \in RatType
    BY <2>1, <2>2, <1>2, RatAssumption DEF RatType
  <2> QED
    BY <2>1, <2>2, <2>3, <1>2, <1>3, <1>5 DEF RatType, Committed
<1> QED
  BY <1>4, <1>5

\* The register the oldest entry hides is committed state, so no younger
\* entry writes or hides it.
LEMMA HeadOldIsUnused ==
  ASSUME IInv, rob # << >>, rob[1].new # NoPhy, NEW j \in 2 .. Len(rob)
  PROVE  rob[j].new # rob[1].old /\ rob[j].old # rob[1].old
<1>1. 1 \in 1 .. Len(rob) /\ j \in 1 .. Len(rob) /\ 1 - 1 = 0 /\ j - 1 \in Nat /\ 1 \in 1 .. j - 1
  BY HeadIsFirst DEF IInv
<1>2. rob[1].old \in Committed /\ rob[1].old # NoPhy
  BY <1>1, EntryRegisters, CommittedIsReal DEF IInv, ChainOK
<1>3. rob[j].new # rob[1].old
  BY <1>1, <1>2 DEF IInv, RegistersOK
<1>4. rob[j].old # rob[1].old
  <2>1. rob[1].old \notin VisibleAt(j - 1)
    BY <1>1, OldIsNotYounger
  <2> QED
    BY <2>1, <1>1, <1>2 DEF IInv, ChainOK
<1> QED
  BY <1>3, <1>4

LEMMA CommitHeadStep ==
  ASSUME IInv, CommitHead
  PROVE  IInv'
<1>0. PICK n \in Nat : n = Len(rob) /\ n > 0 /\ n - 1 \in Nat /\ 1 \in 1 .. n
  BY HeadIsFirst DEF IInv, CommitHead
<1> DEFINE new == rob[1].new
           old == rob[1].old
<1>1. /\ cur_state = "normal" /\ cur_state' = cur_state /\ rob # << >>
      /\ rob[1].status = "done" /\ rob' = Tail(rob)
      /\ rat' = Retired(Head(rob)) /\ data_valid' = data_valid \ {old}
  BY HeadIsFirst DEF CommitHead, IInv
<1>2. /\ rob' \in Seq(Item) /\ Len(rob') = n - 1
      /\ \A j \in 1 .. n - 1 : rob'[j] = rob[j + 1]
  BY <1>0, <1>1, HeadTailProperties DEF IInv, TypeOK
<1>3. /\ rat' \in RatType
      /\ rat'.visible = rat.visible
      /\ rat'.valid = rat.valid \ {old}
      /\ rat'.commit = rat.commit \cup ({new} \ {NoPhy})
      /\ \A q \in Phy : q # old => rat'.table[q] = rat.table[q]
      /\ rat'.valid \cap rat'.commit = VisibleAt(1)
  BY <1>1, RetireEffect
<1>4. Committed' = VisibleAt(1)
  BY <1>3 DEF Committed
<1>5. \A j \in 1 .. n - 1 : j + 1 \in 1 .. n /\ j + 1 \in 2 .. n
  BY <1>0
<1>6. new = NoPhy <=> old = NoPhy
  BY <1>0 DEF IInv, ChainOK
<1>7. new # NoPhy => /\ new \in rat.valid /\ new \in Phy /\ new # old
                     /\ old \in Committed /\ old \in Phy
                     /\ \A j \in 2 .. n : rob[j].new # old /\ rob[j].old # old
  <2>1. 1 - 1 = 0
    OBVIOUS
  <2> QED
    BY <2>1, <1>0, <1>1, EntryRegisters, CommittedIsReal, HeadOldIsUnused DEF IInv, ChainOK
<1>8. \A k \in 0 .. n - 1 : VisibleAt(k)' = VisibleAt(k + 1)
  <2> SUFFICES ASSUME NEW k \in 0 .. n - 1
               PROVE  VisibleAt(k)' = VisibleAt(k + 1)
    OBVIOUS
  <2>1. /\ 1 .. k + 1 = {1} \cup {j + 1 : j \in 1 .. k}
        /\ \A j \in 1 .. k : j \in 1 .. n - 1
    BY <1>0, ShiftedInterval
  <2>2. /\ {rob'[j].new : j \in 1 .. k} = {rob[j + 1].new : j \in 1 .. k}
        /\ {rob'[j].old : j \in 1 .. k} = {rob[j + 1].old : j \in 1 .. k}
    BY <2>1, <1>2
  <2>3. /\ {rob[j].new : j \in 1 .. k + 1} = {new} \cup {rob[j + 1].new : j \in 1 .. k}
        /\ {rob[j].old : j \in 1 .. k + 1} = {old} \cup {rob[j + 1].old : j \in 1 .. k}
    BY <2>1
  <2>4. VisibleAt(1) = IF new = NoPhy THEN Committed ELSE (Committed \cup {new}) \ {old}
    BY <1>0, VisibleStep, CommittedIsReal
  <2>5. VisibleAt(k)' = (VisibleAt(1) \cup {rob[j + 1].new : j \in 1 .. k})
                          \ ({rob[j + 1].old : j \in 1 .. k} \cup {NoPhy})
    BY <2>2, <1>4 DEF VisibleAt
  <2>6. VisibleAt(k + 1) = (Committed \cup {new} \cup {rob[j + 1].new : j \in 1 .. k})
                             \ ({old} \cup {rob[j + 1].old : j \in 1 .. k} \cup {NoPhy})
    BY <2>3 DEF VisibleAt
  <2>7. new # NoPhy => old \notin {rob[j + 1].new : j \in 1 .. k}
    BY <2>1, <1>5, <1>7
  <2> QED
    BY <2>4, <2>5, <2>6, <2>7, <1>6
<1>9. \A k \in 0 .. n - 1 : k + 1 \in 0 .. n /\ VisibleAt(k + 1) \subseteq Phy /\ old \notin VisibleAt(k + 1)
  <2> SUFFICES ASSUME NEW k \in 0 .. n - 1
               PROVE  k + 1 \in 0 .. n /\ VisibleAt(k + 1) \subseteq Phy /\ old \notin VisibleAt(k + 1)
    OBVIOUS
  <2>1. k + 1 \in 0 .. n /\ k + 1 \in Nat /\ 1 \in 1 .. k + 1
    BY <1>0
  <2> QED
    BY <2>1, <1>0, VisibleIsValid, CommittedIsReal, OldIsNotYounger
<1>10. TypeOK'
  BY <1>0, <1>1, <1>2, <1>3, RobAssumption DEF IInv, TypeOK
<1>11. RegistersOK'
  <2>1. {rob[j].new : j \in 1 .. n} = {new} \cup {rob'[j].new : j \in 1 .. n - 1}
    <3>0. PICK m \in Nat : m = n - 1 /\ n = m + 1
      BY <1>0
    <3>1. 1 .. n = {1} \cup {j + 1 : j \in 1 .. n - 1}
      BY <3>0, ShiftedInterval
    <3>2. {rob'[j].new : j \in 1 .. n - 1} = {rob[j + 1].new : j \in 1 .. n - 1}
      BY <1>2
    <3> QED
      BY <3>1, <3>2
  <2>2. VisibleAt(1) = IF new = NoPhy THEN Committed ELSE (Committed \cup {new}) \ {old}
    BY <1>0, VisibleStep, CommittedIsReal
  <2>3. new # NoPhy => old \notin {rob'[j].new : j \in 1 .. n - 1}
    BY <1>2, <1>5, <1>7, SMTT(60)
  <2>4. new = NoPhy => old \notin rat.valid
    BY <1>6, CommittedIsReal, NoPhyIsNotReal
  <2>5. rat.valid = Committed \cup ({rob[j].new : j \in 1 .. n} \ {NoPhy})
    BY <1>0 DEF IInv, RegistersOK
  <2>6. rat'.valid = Committed' \cup ({rob'[j].new : j \in 1 .. n - 1} \ {NoPhy})
    BY <2>1, <2>2, <2>3, <2>4, <2>5, <1>3, <1>4
  <2>7. ASSUME NEW i \in 1 .. n - 1, NEW j \in 1 .. n - 1, rob'[i].new # NoPhy
        PROVE  rob'[i].new \notin Committed' /\ (rob'[i].new = rob'[j].new => i = j)
    <3>1. rob[i + 1].new \notin Committed /\ (rob[i + 1].new = rob[j + 1].new => i + 1 = j + 1)
      BY <2>7, <1>0, <1>2, <1>5 DEF IInv, RegistersOK
    <3>2. rob[i + 1].new # new
      BY <2>7, <1>0, <1>2, <1>5 DEF IInv, RegistersOK
    <3> QED
      BY <3>1, <3>2, <2>2, <1>2, <1>4
  <2> QED
    BY <2>6, <2>7, <1>2 DEF RegistersOK
<1>12. ChainOK'
  <2> SUFFICES ASSUME NEW j \in 1 .. n - 1
               PROVE  /\ rob'[j].new = NoPhy <=> rob'[j].old = NoPhy
                      /\ rob'[j].new # NoPhy =>
                           /\ rob'[j].new \notin rat'.commit
                           /\ rob'[j].old \in VisibleAt(j - 1)'
                           /\ rat'.table[rob'[j].old] = rat'.table[rob'[j].new]
    BY <1>2 DEF ChainOK
  <2>1. /\ j - 1 \in 0 .. n - 1 /\ (j - 1) + 1 = j /\ (j + 1) - 1 = j
        /\ j + 1 \in 1 .. n /\ j + 1 \in 2 .. n /\ j + 1 # 1
    BY <1>0
  <2>2. /\ rob[j + 1].new = NoPhy <=> rob[j + 1].old = NoPhy
        /\ rob[j + 1].new # NoPhy =>
             /\ rob[j + 1].new \notin rat.commit
             /\ rob[j + 1].old \in VisibleAt(j)
             /\ rat.table[rob[j + 1].old] = rat.table[rob[j + 1].new]
    BY <2>1, <1>0 DEF IInv, ChainOK
  <2>3. rob[j + 1].new # NoPhy => rob[j + 1].new # new
    BY <2>1, <1>0 DEF IInv, RegistersOK
  <2>4. rob[j + 1].new # NoPhy => /\ rob[j + 1].new \in Phy /\ rob[j + 1].old \in Phy
                                  /\ rob[j + 1].new # old /\ rob[j + 1].old # old
    BY <2>1, <2>2, <1>0, <1>6, <1>7, EntryRegisters, CommittedIsReal, NoPhyIsNotReal
  <2> QED
    BY <2>1, <2>2, <2>3, <2>4, <1>2, <1>3, <1>8, ZenonT(60)
<1>13. MappingsOK'
  <2>1. ASSUME NEW k \in 0 .. n - 1
        PROVE  OnePerArch(VisibleAt(k))'
    <3>1. OnePerArch(VisibleAt(k + 1))
      BY <1>0, <1>9 DEF IInv, MappingsOK
    <3>2. \A q \in VisibleAt(k + 1) : rat'.table[q] = rat.table[q]
      BY <1>3, <1>9
    <3> QED
      BY <3>1, <3>2, <1>8, OnePerArchKept DEF OnePerArch
  <2>2. n - 1 \in 0 .. n - 1 /\ (n - 1) + 1 = n
    BY <1>0
  <2> QED
    BY <2>1, <2>2, <1>0, <1>2, <1>3, <1>8 DEF MappingsOK, IInv
<1>14. CheckpointsOK'
  <2> SUFFICES ASSUME NEW j \in 1 .. n - 1, rob'[j].cp # {}
               PROVE  rob'[j].cp = VisibleAt(j)'
    BY <1>2 DEF CheckpointsOK
  <2>1. j \in 0 .. n - 1
    BY <1>0
  <2> QED
    BY <2>1, <1>0, <1>2, <1>5, <1>8 DEF IInv, CheckpointsOK
<1>15. DataOK'
  <2>1. VisibleAt(1) = IF new = NoPhy THEN Committed ELSE (Committed \cup {new}) \ {old}
    BY <1>0, VisibleStep, CommittedIsReal
  <2>2. new # NoPhy => new \in data_valid
    BY <1>0, <1>1 DEF IInv, DataOK
  <2>3. Committed' \subseteq data_valid' /\ data_valid' \subseteq rat'.valid
    <3>1. Committed \subseteq data_valid /\ data_valid \subseteq rat.valid
      BY DEF IInv, DataOK
    <3>2. old = NoPhy => old \notin Committed
      BY CommittedIsReal, NoPhyIsNotReal
    <3> QED
      BY <3>1, <3>2, <2>1, <2>2, <1>1, <1>3, <1>4, <1>6
  <2>4. ASSUME NEW j \in 1 .. n - 1
        PROVE  /\ rob'[j].status \in {"done", "missed"} /\ rob'[j].new # NoPhy =>
                    rob'[j].new \in data_valid'
               /\ rob'[j].status = "missed" => rob'[j].cp # {}
    <3>1. rob[j + 1].new # NoPhy => rob[j + 1].new # old
      BY <1>0, <1>5, <1>6, <1>7
    <3> QED
      BY <3>1, <1>0, <1>1, <1>2, <1>5 DEF IInv, DataOK
  <2> QED
    BY <2>3, <2>4, <1>2 DEF DataOK
<1>16. StateOK'
  BY <1>1 DEF StateOK
<1> QED
  BY <1>10, <1>11, <1>12, <1>13, <1>14, <1>15, <1>16 DEF IInv

-----------------------------------------------------------------------------
(* A mispredicted branch leaves, and the checkpoint comes back.            *)

\* What the step does to the table: the checkpoint is the first mapping.
LEMMA MispredictEffect ==
  ASSUME IInv, Mispredict
  PROVE  /\ rat' \in RatType
         /\ rat'.valid = VisibleAt(1) /\ rat'.visible = VisibleAt(1)
         /\ data_valid' = VisibleAt(1)
         /\ Committed' = VisibleAt(1)
         /\ VisibleAt(1) \subseteq rat.valid
         /\ \A q \in Phy : q # rob[1].old => rat'.table[q] = rat.table[q]
<1>1. /\ rob # << >> /\ Head(rob) = rob[1] /\ 1 \in 1 .. Len(rob) /\ 1 \in 0 .. Len(rob)
  BY HeadIsFirst DEF IInv, Mispredict
<1>2. rob[1].status = "missed" /\ rob[1].cp = VisibleAt(1)
  BY <1>1 DEF Mispredict, IInv, DataOK, CheckpointsOK
<1>3. PICK R : R = Retired(Head(rob))
  OBVIOUS
<1>4. /\ R \in RatType /\ R.valid \cap R.commit = VisibleAt(1)
      /\ \A q \in Phy : q # rob[1].old => R.table[q] = rat.table[q]
  BY <1>1, <1>3, RetireEffect
<1>5. VisibleAt(1) \subseteq rat.valid /\ rat.valid \subseteq Phy
  BY <1>1, VisibleIsValid, CommittedIsReal
<1>6. rat' = [table |-> R.table, valid |-> VisibleAt(1),
              visible |-> VisibleAt(1), commit |-> R.commit]
  <2>1. rat' = restore(R, [valid |-> VisibleAt(1), visible |-> VisibleAt(1)])
    BY <1>1, <1>2, <1>3 DEF Mispredict
  <2> QED
    BY <2>1, <1>4 DEF restore, RatType
<1>7. rat' \in RatType
  BY <1>4, <1>5, <1>6 DEF RatType
<1>8. data_valid' = VisibleAt(1)
  BY <1>1, <1>2 DEF Mispredict
<1> QED
  BY <1>4, <1>5, <1>6, <1>7, <1>8 DEF Committed

LEMMA MispredictStep ==
  ASSUME IInv, Mispredict
  PROVE  IInv'
<1>1. /\ rat' \in RatType
      /\ rat'.valid = VisibleAt(1) /\ rat'.visible = VisibleAt(1)
      /\ data_valid' = VisibleAt(1)
      /\ Committed' = VisibleAt(1)
      /\ VisibleAt(1) \subseteq Phy
      /\ \A q \in Phy : q # rob[1].old => rat'.table[q] = rat.table[q]
  BY MispredictEffect, CommittedIsReal
<1>2. /\ rob' = << >> /\ rob' \in Seq(Item) /\ Len(rob') = 0
      /\ cur_state' = "normal"
      /\ 1 \in 1 .. Len(rob) /\ 1 \in 1 .. 1 /\ 1 \in Nat /\ 1 \in 0 .. Len(rob)
  BY EmptySeq, HeadIsFirst DEF Mispredict, IInv
<1>3. \A j : j \notin 1 .. Len(rob')
  BY <1>2
<1>4. VisibleAt(0)' = VisibleAt(1)
  <2>1. {rob'[j].new : j \in 1 .. 0} = {} /\ {rob'[j].old : j \in 1 .. 0} = {}
    OBVIOUS
  <2> QED
    BY <2>1, <1>1, NoPhyIsNotReal DEF VisibleAt
<1>5. TypeOK'
  BY <1>1, <1>2, RobAssumption DEF TypeOK
<1>6. RegistersOK'
  BY <1>1, <1>2, <1>3 DEF RegistersOK
<1>7. ChainOK' /\ CheckpointsOK'
  BY <1>3 DEF ChainOK, CheckpointsOK
<1>8. MappingsOK'
  <2>1. OnePerArch(VisibleAt(1)) /\ rob[1].old \notin VisibleAt(1)
    BY <1>2, OldIsNotYounger DEF IInv, MappingsOK
  <2>2. \A q \in VisibleAt(1) : rat'.table[q] = rat.table[q]
    BY <2>1, <1>1
  <2>3. OnePerArch(VisibleAt(0))'
    BY <2>1, <2>2, <1>4, OnePerArchKept DEF OnePerArch
  <2>4. \A k \in 0 .. Len(rob') : k = 0
    BY <1>2
  <2> QED
    BY <2>3, <2>4, <1>1, <1>2, <1>4 DEF MappingsOK
<1>9. DataOK'
  BY <1>1, <1>3 DEF DataOK
<1>10. StateOK'
  BY <1>2 DEF StateOK
<1> QED
  BY <1>5, <1>6, <1>7, <1>8, <1>9, <1>10 DEF IInv

-----------------------------------------------------------------------------
(* The invariant.                                                          *)

LEMMA InitInv == Init => IInv
<1> SUFFICES ASSUME Init
             PROVE  IInv
  OBVIOUS
<1>1. /\ rat.table = [p \in Phy |-> IF p \in Arch THEN p ELSE 0]
      /\ rat.valid = Arch /\ rat.visible = Arch /\ rat.commit = Arch
      /\ rat \in RatType
      /\ Arch \subseteq Phy
  BY NoPhyIsNotReal, RatAssumption DEF Init, reset_map, RatType, Arch
<1>2. /\ rob = << >> /\ rob \in Seq(Item) /\ Len(rob) = 0 /\ data_valid = Arch
      /\ cur_state = "normal"
  BY EmptySeq DEF Init
<1>3. \A j : j \notin 1 .. Len(rob)
  BY <1>2
<1>4. Committed = Arch /\ VisibleAt(0) = Arch
  <2>1. {rob[j].new : j \in 1 .. 0} = {} /\ {rob[j].old : j \in 1 .. 0} = {}
    OBVIOUS
  <2> QED
    BY <2>1, <1>1, NoPhyIsNotReal DEF VisibleAt, Committed
<1>5. OnePerArch(Arch)
  BY <1>1 DEF OnePerArch
<1>6. \A k \in 0 .. Len(rob) : k = 0
  BY <1>2
<1>7. TypeOK
  BY <1>1, <1>2, RobAssumption DEF TypeOK
<1>8. RegistersOK /\ ChainOK /\ CheckpointsOK
  BY <1>1, <1>2, <1>3, <1>4 DEF RegistersOK, ChainOK, CheckpointsOK
<1>9. MappingsOK /\ DataOK /\ StateOK
  BY <1>1, <1>2, <1>3, <1>4, <1>5, <1>6 DEF MappingsOK, DataOK, StateOK
<1> QED
  BY <1>7, <1>8, <1>9 DEF IInv

LEMMA StepInv == IInv /\ [Next]_vars => IInv'
<1> SUFFICES ASSUME IInv, [Next]_vars
             PROVE  IInv'
  OBVIOUS
<1>1. ASSUME NEW arch_id \in Arch, NEW phy_id \in Phy, NEW predicted \in BOOLEAN,
             RenameDest(arch_id, phy_id, predicted)
      PROVE  IInv'
  BY <1>1, RenameDestStep
<1>2. ASSUME NEW predicted \in BOOLEAN, RenameNoDest(predicted)
      PROVE  IInv'
  BY <1>2, RenameNoDestStep
<1>3. ASSUME NEW j \in 1 .. Len(rob), NEW status \in {"done", "missed", "exception"},
             WriteBack(j, status)
      PROVE  IInv'
  BY <1>3, WriteBackStep
<1>4. CASE CommitHead
  BY <1>4, CommitHeadStep
<1>5. CASE Mispredict
  BY <1>5, MispredictStep
<1>6. CASE Exception \/ Interrupt
  BY <1>6, FlushStep
<1>7. CASE Undo
  BY <1>7, UndoStep
<1>8. CASE UNCHANGED vars
  <2>1. /\ rat' = rat /\ data_valid' = data_valid /\ rob' = rob /\ cur_state' = cur_state
    BY <1>8 DEF vars
  <2>2. RegistersOK' /\ ChainOK' /\ MappingsOK' /\ CheckpointsOK' /\ Committed' = Committed
    BY <2>1, SameRegisters
  <2> QED
    BY <2>1, <2>2 DEF IInv, TypeOK, DataOK, StateOK
<1> QED
  BY <1>1, <1>2, <1>3, <1>4, <1>5, <1>6, <1>7, <1>8 DEF Next

(***************************************************************************)
(* The chain of mappings between the committed state and the visible one   *)
(* is intact in every reachable state, whatever the sizes.                 *)
(***************************************************************************)
THEOREM InvariantHolds == Spec => []IInv
BY InitInv, StepInv, PTL DEF Spec

-----------------------------------------------------------------------------
(* What follows from the invariant.                                        *)

(***************************************************************************)
(* Every value the table, the register file and the buffer take has its    *)
(* type: no index of rat.h or rob.h leaves its range.                      *)
(***************************************************************************)
THEOREM TypeCorrect == Spec => []TypeOK
<1>1. IInv => TypeOK
  BY DEF IInv
<1> QED
  BY <1>1, InvariantHolds, PTL

LEMMA InvMeansNoLeak == IInv => NoRegisterLeak
<1> SUFFICES ASSUME IInv, NEW p \in Committed
             PROVE  rat.table[p] \in Arch /\ get_commit_phy_id(rat, rat.table[p]) = {p}
  BY DEF IInv, NoRegisterLeak
<1>0. 0 \in 0 .. Len(rob)
  BY DEF IInv, TypeOK
<1>1. OnePerArch(Committed)
  BY <1>0, CommittedIsReal DEF IInv, MappingsOK
<1>2. rat.table[p] \in Arch
  BY <1>1 DEF OnePerArch
<1>3. PICK o \in Committed : \A q \in Committed : rat.table[q] = rat.table[p] <=> q = o
  BY <1>1, <1>2 DEF OnePerArch
<1>4. o = p
  BY <1>3
<1>5. get_commit_phy_id(rat, rat.table[p]) = {q \in Committed : rat.table[q] = rat.table[p]}
  BY DEF get_commit_phy_id, Committed
<1> QED
  BY <1>2, <1>3, <1>4, <1>5

(***************************************************************************)
(* No physical register is lost or freed twice by any mix of retirement,   *)
(* walk back and checkpoint restore.                                       *)
(***************************************************************************)
THEOREM NoRegisterIsLost == Spec => []NoRegisterLeak
BY InvMeansNoLeak, InvariantHolds, PTL

LEMMA InvMeansAsserts == IInv => RatAssertsHold
<1> SUFFICES ASSUME IInv
             PROVE  RatAssertsHold
  OBVIOUS
<1>0. PICK n \in Nat : n = Len(rob)
  BY DEF IInv, TypeOK
<1>1. ASSUME NEW a \in Arch
      PROVE  IsOne(get_phy_id(rat, a))
  <2>1. /\ OnePerArch(VisibleAt(n)) /\ rat.visible = VisibleAt(n)
        /\ VisibleAt(n) \subseteq rat.valid
    BY <1>0, VisibleIsValid DEF IInv, MappingsOK
  <2>2. PICK p \in VisibleAt(n) : \A q \in VisibleAt(n) : rat.table[q] = a <=> q = p
    BY <2>1 DEF OnePerArch
  <2>3. get_phy_id(rat, a) = {p}
    BY <2>1, <2>2 DEF get_phy_id
  <2> QED
    BY <2>3 DEF IsOne
<1>2. ASSUME NEW a \in Arch
      PROVE  IsOne(get_commit_phy_id(rat, a))
  <2>1. OnePerArch(Committed) /\ 0 \in 0 .. n
    BY <1>0, CommittedIsReal DEF IInv, MappingsOK
  <2>2. PICK p \in Committed : \A q \in Committed : rat.table[q] = a <=> q = p
    BY <2>1 DEF OnePerArch
  <2>3. get_commit_phy_id(rat, a) = {p}
    BY <2>2 DEF get_commit_phy_id, Committed
  <2> QED
    BY <2>3 DEF IsOne
<1>3. ASSUME rob # << >>, Head(rob).new # NoPhy
      PROVE  /\ release_map_asserts(rat, Head(rob).old)
             /\ commit_map_asserts(release_map(rat, Head(rob).old), Head(rob).new)
  <2>1. Head(rob) = rob[1] /\ 1 \in 1 .. n /\ n \in 0 .. n
    BY <1>0, <1>3, HeadIsFirst DEF IInv
  <2>2. /\ rob[1].new \in rat.valid /\ rob[1].old \in rat.valid
        /\ rob[1].new # rob[1].old /\ rob[1].new \notin rat.commit
    BY <1>0, <1>3, <2>1, EntryRegisters
  <2>3. rob[1].old \notin rat.visible
    BY <1>0, <2>1, OldIsNotYounger DEF IInv, MappingsOK
  <2>4. /\ release_map(rat, rob[1].old).valid = rat.valid \ {rob[1].old}
        /\ release_map(rat, rob[1].old).commit = rat.commit
    BY DEF release_map, IInv, TypeOK, RatType
  <2> QED
    BY <2>1, <2>2, <2>3, <2>4 DEF release_map_asserts, commit_map_asserts
<1>4. ASSUME rob # << >>, Last.new # NoPhy
      PROVE  restore_map_asserts(rat, Last.new, Last.old)
  <2>1. Last = rob[n] /\ n \in 1 .. n /\ n \in 0 .. n
    BY <1>0, <1>4, HeadIsFirst DEF IInv, Last
  <2>2. /\ rob[n].new \in rat.valid /\ rob[n].old \in rat.valid
        /\ rob[n].new # rob[n].old /\ rob[n].old # NoPhy
    BY <1>0, <1>4, <2>1, EntryRegisters
  <2>3. rat.visible = (VisibleAt(n - 1) \cup {rob[n].new}) \ {rob[n].old}
    BY <1>0, <1>4, <2>1, VisibleStep DEF IInv, MappingsOK
  <2> QED
    BY <2>1, <2>2, <2>3 DEF restore_map_asserts
<1> QED
  BY <1>1, <1>2, <1>3, <1>4 DEF RatAssertsHold

(***************************************************************************)
(* No assertion of rat.h that guards set_map, get_phy_id, release_map,     *)
(* commit_map or restore_map can fail.                                     *)
(***************************************************************************)
THEOREM AssertsNeverFail == Spec => []RatAssertsHold
BY InvMeansAsserts, InvariantHolds, PTL

LEMMA InvMeansPrecise == IInv => PreciseWhenEmpty
<1> SUFFICES ASSUME IInv, rob = << >>
             PROVE  /\ rat.visible = Committed /\ rat.valid = Committed
                    /\ data_valid = Committed
  BY DEF PreciseWhenEmpty
<1>1. Len(rob) = 0
  BY EmptySeq
<1>2. rat.visible = Committed
  BY <1>1, CommittedIsReal DEF IInv, MappingsOK
<1>3. rat.valid = Committed
  BY <1>1 DEF IInv, RegistersOK
<1> QED
  BY <1>2, <1>3 DEF IInv, DataOK

(***************************************************************************)
(* Exceptions and interrupts are precise: once a flush has emptied the     *)
(* buffer the visible registers are the committed ones.                    *)
(***************************************************************************)
THEOREM FlushIsPrecise == Spec => []PreciseWhenEmpty
BY InvMeansPrecise, InvariantHolds, PTL

LEMMA InvMeansRestored == IInv => RestoredStateIsReal
<1> SUFFICES ASSUME IInv, rob # << >>, Head(rob).status = "missed"
             PROVE  /\ Head(rob).cp = Retired(Head(rob)).valid \cap Retired(Head(rob)).commit
                    /\ Head(rob).cp \subseteq data_valid
  BY DEF RestoredStateIsReal
<1>1. Head(rob) = rob[1] /\ 1 \in 1 .. Len(rob)
  BY HeadIsFirst DEF IInv
<1>2. rob[1].cp = VisibleAt(1)
  BY <1>1 DEF IInv, DataOK, CheckpointsOK
<1>3. Retired(Head(rob)).valid \cap Retired(Head(rob)).commit = VisibleAt(1)
  BY RetireEffect
<1>4. VisibleAt(1) \subseteq data_valid
  <2>1. VisibleAt(1) = IF rob[1].new = NoPhy THEN Committed
                       ELSE (Committed \cup {rob[1].new}) \ {rob[1].old}
    BY <1>1, VisibleStep, CommittedIsReal
  <2>2. rob[1].new # NoPhy => rob[1].new \in data_valid
    BY <1>1 DEF IInv, DataOK
  <2> QED
    BY <2>1, <2>2 DEF IInv, DataOK
<1> QED
  BY <1>1, <1>2, <1>3, <1>4

(***************************************************************************)
(* A checkpoint brings back the state the branch retires into, and the     *)
(* registers it declares written (commit.cpp:811-829) are written.         *)
(***************************************************************************)
THEOREM CheckpointsAreReal == Spec => []RestoredStateIsReal
BY InvMeansRestored, InvariantHolds, PTL

(***************************************************************************)
(* No free register has its data-valid bit set.                            *)
(***************************************************************************)
THEOREM FreeRegistersAreUnwritten == Spec => []FreeHasNoData
<1>1. IInv => FreeHasNoData
  BY DEF IInv, DataOK, FreeHasNoData
<1> QED
  BY <1>1, InvariantHolds, PTL

-----------------------------------------------------------------------------
(* Architectural state changes in program order.                           *)

\* The action inside CommittedChangesInOrder.
InOrder ==
  \A a \in Arch :
    get_commit_phy_id(rat, a)' # get_commit_phy_id(rat, a) =>
      /\ rob # << >> /\ Head(rob).status \in {"done", "missed"}
      /\ get_commit_phy_id(rat, a) = {Head(rob).old}
      /\ get_commit_phy_id(rat, a)' = {Head(rob).new}

\* A step that keeps the committed set and its part of the table.
LEMMA CommittedKept ==
  ASSUME Committed' = Committed,
         \A q \in Committed : rat'.table[q] = rat.table[q]
  PROVE  InOrder
BY DEF InOrder, get_commit_phy_id, Committed

\* A step that retires the oldest entry.
LEMMA CommittedAdvances ==
  ASSUME IInv, rob # << >>, Head(rob).status \in {"done", "missed"},
         Committed' = VisibleAt(1),
         \A q \in Phy : q # rob[1].old => rat'.table[q] = rat.table[q]
  PROVE  InOrder
<1>1. Head(rob) = rob[1] /\ 1 \in 1 .. Len(rob) /\ 1 - 1 = 0 /\ 0 \in 0 .. Len(rob)
  BY HeadIsFirst DEF IInv
<1>2. Committed \subseteq Phy /\ VisibleAt(0) = Committed
  BY CommittedIsReal
<1>3. VisibleAt(1) = IF rob[1].new = NoPhy THEN Committed
                     ELSE (Committed \cup {rob[1].new}) \ {rob[1].old}
  BY <1>1, VisibleStep, CommittedIsReal
<1>4. CASE rob[1].new = NoPhy
  <2>1. rob[1].old = NoPhy
    BY <1>1, <1>4 DEF IInv, ChainOK
  <2> QED
    BY <1>2, <1>3, <1>4, <2>1, NoPhyIsNotReal, CommittedKept
<1>5. CASE rob[1].new # NoPhy
  <2> DEFINE new == rob[1].new
             old == rob[1].old
  <2>1. /\ new \in Phy /\ new # old /\ new \notin Committed
        /\ old \in Committed /\ rat.table[old] = rat.table[new]
    BY <1>1, <1>2, <1>5, EntryRegisters, CommittedIsReal DEF IInv, ChainOK, RegistersOK
  <2>2. Committed' = (Committed \cup {new}) \ {old}
    BY <1>3, <1>5
  <2>3. rat'.table[new] = rat.table[new] /\ \A q \in Committed : q # old => rat'.table[q] = rat.table[q]
    BY <1>2, <2>1
  <2>4. OnePerArch(Committed)
    BY <1>1, <1>2 DEF IInv, MappingsOK
  <2> SUFFICES ASSUME NEW a \in Arch,
                      get_commit_phy_id(rat, a)' # get_commit_phy_id(rat, a)
               PROVE  /\ get_commit_phy_id(rat, a) = {old}
                      /\ get_commit_phy_id(rat, a)' = {new}
    BY <1>1 DEF InOrder
  <2>5. /\ get_commit_phy_id(rat, a) = {p \in Committed : rat.table[p] = a}
        /\ get_commit_phy_id(rat, a)' = {p \in Committed' : rat'.table[p] = a}
    BY DEF get_commit_phy_id, Committed
  <2>6. CASE rat.table[new] = a
    <3>1. \A q \in Committed : rat.table[q] = a <=> q = old
      BY <2>1, <2>4, <2>6 DEF OnePerArch
    <3>2. get_commit_phy_id(rat, a) = {old}
      BY <2>1, <2>5, <3>1
    <3>3. get_commit_phy_id(rat, a)' = {new}
      BY <2>1, <2>2, <2>3, <2>5, <2>6, <3>1
    <3> QED
      BY <3>2, <3>3
  <2>7. CASE rat.table[new] # a
    <3>1. get_commit_phy_id(rat, a)' = get_commit_phy_id(rat, a)
      BY <2>1, <2>2, <2>3, <2>5, <2>7
    <3> QED
      BY <3>1
  <2> QED
    BY <2>6, <2>7
<1> QED
  BY <1>4, <1>5

LEMMA StepInOrder == IInv /\ [Next]_vars => InOrder
<1> SUFFICES ASSUME IInv, [Next]_vars
             PROVE  InOrder
  OBVIOUS
<1>1. ASSUME NEW arch_id \in Arch, NEW phy_id \in Phy, NEW predicted \in BOOLEAN,
             RenameDest(arch_id, phy_id, predicted)
      PROVE  InOrder
  <2>1. /\ rat'.table = [rat.table EXCEPT ![phy_id] = arch_id]
        /\ rat'.valid = rat.valid \cup {phy_id} /\ rat'.commit = rat.commit \ {phy_id}
        /\ phy_id \notin rat.valid
    BY <1>1 DEF RenameDest, set_map
  <2>2. Committed' = Committed
    BY <2>1 DEF Committed
  <2>3. \A q \in Committed : rat'.table[q] = rat.table[q]
    BY <2>1, CommittedIsReal DEF Committed, IInv, TypeOK, RatType
  <2> QED
    BY <2>2, <2>3, CommittedKept
<1>2. CASE rat' = rat
  BY <1>2, CommittedKept DEF Committed
<1>3. CASE CommitHead
  <2>1. /\ rob # << >> /\ Head(rob).status \in {"done", "missed"}
        /\ rat' = Retired(Head(rob))
    BY <1>3 DEF CommitHead
  <2>2. /\ rat'.valid \cap rat'.commit = VisibleAt(1)
        /\ \A q \in Phy : q # rob[1].old => rat'.table[q] = rat.table[q]
    BY <2>1, RetireEffect
  <2> QED
    BY <2>1, <2>2, CommittedAdvances DEF Committed
<1>4. CASE Mispredict
  <2>1. rob # << >> /\ Head(rob).status \in {"done", "missed"}
    BY <1>4 DEF Mispredict
  <2> QED
    BY <1>4, <2>1, MispredictEffect, CommittedAdvances
<1>5. CASE Undo
  <2>1. PICK n \in Nat : n = Len(rob) /\ n \in 1 .. n
    <3>1. Len(rob) \in Nat /\ Len(rob) # 0
      BY <1>5, EmptySeq DEF IInv, TypeOK, Undo
    <3> QED
      BY <3>1
  <2>2. CASE rob[n].new = NoPhy
    BY <1>2, <1>5, <2>1, <2>2 DEF Undo, Last
  <2>3. CASE rob[n].new # NoPhy
    <3>1. /\ rob[n].new \in Phy /\ rob[n].new \notin rat.commit
          /\ rob[n].old \in rat.valid /\ rob[n].old # rob[n].new
      BY <2>1, <2>3, EntryRegisters, CommittedIsReal
    <3>2. /\ rat'.table = [rat.table EXCEPT ![rob[n].new] = 0]
          /\ rat'.valid = (rat.valid \ {rob[n].new}) \cup {rob[n].old}
          /\ rat'.commit = rat.commit
      BY <1>5, <2>1, <2>3 DEF Undo, Last, restore_map, IInv, TypeOK, RatType
    <3>3. Committed' = Committed
      BY <3>1, <3>2 DEF Committed
    <3>4. \A q \in Committed : rat'.table[q] = rat.table[q]
      BY <3>1, <3>2, CommittedIsReal DEF Committed, IInv, TypeOK, RatType
    <3> QED
      BY <3>3, <3>4, CommittedKept
  <2> QED
    BY <2>2, <2>3
<1> QED
  BY <1>1, <1>2, <1>3, <1>4, <1>5
     DEF Next, vars, RenameNoDest, WriteBack, Exception, Interrupt

(***************************************************************************)
(* The register that holds an architectural register's committed value     *)
(* changes only by the retirement of the oldest instruction.               *)
(***************************************************************************)
THEOREM CommittedInOrder == Spec => CommittedChangesInOrder
<1>1. IInv /\ [Next]_vars => [InOrder]_vars
  BY StepInOrder
<1> QED
  BY <1>1, InvariantHolds, PTL DEF Spec, CommittedChangesInOrder, InOrder

=============================================================================
