------------------------------ MODULE Renaming ------------------------------
(***************************************************************************)
(* What register renaming with a reorder buffer promises, one instruction  *)
(* at a time: the abstract specification the cycle-level module Pipeline   *)
(* implements.  An instruction enters the reorder buffer with a fresh      *)
(* register for its destination, writes its result there in any order, and *)
(* leaves the buffer in program order.  A flush undoes the instructions    *)
(* that have not left: entry by entry from the youngest for an exception   *)
(* or an interrupt (commit.cpp, states flush and interrupt_flush), at once *)
(* from a checkpoint for a mispredicted branch (commit.cpp:783-850).       *)
(***************************************************************************)
EXTENDS Rat, Sequences

CONSTANT ROB_SIZE

ASSUME RobAssumption == ROB_SIZE \in Nat \ {0}

VARIABLES
  rat,         \* the alias table
  data_valid,  \* the physical registers whose value has been written
  rob,         \* the reorder buffer, oldest instruction first
  cur_state    \* the state of the commit stage

vars == <<rat, data_valid, rob, cur_state>>

NoPhy == PHY_REG_NUM   \* "old_phy_reg_id_valid is false": no destination

\* A checkpoint is the set of visible registers just after its branch; an
\* instruction without one has the empty set.
Item == [new    : Phy \cup {NoPhy},
         old    : Phy \cup {NoPhy},
         status : {"waiting", "done", "missed", "exception"},
         cp     : SUBSET Phy]

TypeOK ==
  /\ rat \in RatType
  /\ data_valid \in SUBSET Phy
  /\ rob \in Seq(Item)
  /\ Len(rob) <= ROB_SIZE
  /\ cur_state \in {"normal", "flush", "interrupt_flush"}

Init ==
  /\ rat = reset_map
  /\ data_valid = Arch
  /\ rob = << >>
  /\ cur_state = "normal"

-----------------------------------------------------------------------------

NewItem(new, old, cp) ==
  [new |-> new, old |-> old, status |-> "waiting", cp |-> cp]

\* Mutants: no look at the room in the buffer; a checkpoint taken before the
\* branch's own destination is mapped.
MutantRenameIntoFull(arch_id, phy_id, predicted) ==
  /\ cur_state = "normal"
  /\ phy_id \in Phy \ rat.valid
  /\ rat' = set_map(rat, arch_id, phy_id)
  /\ \E old \in get_phy_id(rat, arch_id) :
       rob' = Append(rob, NewItem(phy_id, old, IF predicted THEN rat'.visible ELSE {}))
  /\ UNCHANGED <<data_valid, cur_state>>

MutantCheckpointTooEarly(arch_id, phy_id, predicted) ==
  /\ cur_state = "normal"
  /\ Len(rob) < ROB_SIZE
  /\ phy_id \in Phy \ rat.valid
  /\ rat' = set_map(rat, arch_id, phy_id)
  /\ \E old \in get_phy_id(rat, arch_id) :
       rob' = Append(rob, NewItem(phy_id, old, IF predicted THEN rat.visible ELSE {}))
  /\ UNCHANGED <<data_valid, cur_state>>

\* rename.cpp: an instruction with a destination takes a free register.
RenameDest(arch_id, phy_id, predicted) ==
  /\ cur_state = "normal"
  /\ Len(rob) < ROB_SIZE
  /\ phy_id \in Phy \ rat.valid
  /\ rat' = set_map(rat, arch_id, phy_id)
  /\ \E old \in get_phy_id(rat, arch_id) :
       rob' = Append(rob, NewItem(phy_id, old, IF predicted THEN rat'.visible ELSE {}))
  /\ UNCHANGED <<data_valid, cur_state>>

RenameNoDest(predicted) ==
  /\ cur_state = "normal"
  /\ Len(rob) < ROB_SIZE
  /\ rob' = Append(rob, NewItem(NoPhy, NoPhy, IF predicted THEN rat.visible ELSE {}))
  /\ UNCHANGED <<rat, data_valid, cur_state>>

\* wb.cpp: a result arrives; only a predicted branch can be "missed".
WriteBack(j, status) ==
  /\ cur_state = "normal"
  /\ rob[j].status = "waiting"
  /\ status = "missed" => rob[j].cp # {}
  /\ rob' = [rob EXCEPT ![j].status = status]
  /\ data_valid' = IF status = "exception" THEN data_valid
                   ELSE data_valid \cup ({rob[j].new} \ {NoPhy})
  /\ UNCHANGED <<rat, cur_state>>

\* Mutant: the replaced register is not given back.
MutantNothingReleased(item) ==
  IF item.new = NoPhy THEN rat ELSE commit_map(rat, item.new)

\* The table after the oldest instruction has left the buffer.
Retired(item) ==
  IF item.new = NoPhy THEN rat
  ELSE commit_map(release_map(rat, item.old), item.new)

CommitHead ==
  /\ cur_state = "normal"
  /\ rob # << >>
  /\ Head(rob).status = "done"
  /\ rat' = Retired(Head(rob))
  /\ data_valid' = data_valid \ {Head(rob).old}
  /\ rob' = Tail(rob)
  /\ UNCHANGED cur_state

\* The registers visible after the branch are the only ones that survive,
\* and each is declared written without a look at the register file.
Mispredict ==
  /\ cur_state = "normal"
  /\ rob # << >>
  /\ Head(rob).status = "missed"
  /\ rat' = restore(Retired(Head(rob)),
                    [valid |-> Head(rob).cp, visible |-> Head(rob).cp])
  /\ data_valid' = Head(rob).cp
  /\ rob' = << >>
  /\ UNCHANGED cur_state

\* A flush forgets which results have arrived, and the checkpoints: the
\* execution units drop what they hold, and nothing will look at either.
Forgotten ==
  [j \in 1 .. Len(rob) |-> [rob[j] EXCEPT !.status = "waiting", !.cp = {}]]

Exception ==
  /\ cur_state = "normal"
  /\ rob # << >>
  /\ Head(rob).status = "exception"
  /\ cur_state' = "flush"
  /\ rob' = Forgotten
  /\ UNCHANGED <<rat, data_valid>>

Interrupt ==
  /\ cur_state = "normal"
  /\ rob # << >>
  /\ cur_state' = "interrupt_flush"
  /\ rob' = Forgotten
  /\ UNCHANGED <<rat, data_valid>>

Last == rob[Len(rob)]

Undo ==
  /\ cur_state # "normal"
  /\ rob # << >>
  /\ rat' = IF Last.new = NoPhy THEN rat ELSE restore_map(rat, Last.new, Last.old)
  /\ data_valid' = data_valid \ {Last.new}
  /\ rob' = SubSeq(rob, 1, Len(rob) - 1)
  /\ cur_state' = IF Len(rob) = 1 THEN "normal" ELSE cur_state

Next ==
  \/ \E arch_id \in Arch, phy_id \in Phy, predicted \in BOOLEAN :
       RenameDest(arch_id, phy_id, predicted)
  \/ \E predicted \in BOOLEAN : RenameNoDest(predicted)
  \/ \E j \in 1 .. Len(rob), status \in {"done", "missed", "exception"} :
       WriteBack(j, status)
  \/ CommitHead
  \/ Mispredict
  \/ Exception
  \/ Interrupt
  \/ Undo

Spec == Init /\ [][Next]_vars

-----------------------------------------------------------------------------
(***************************************************************************)
(* Safety.                                                                 *)
(***************************************************************************)

\* The registers that hold the architectural state.
Committed == rat.valid \cap rat.commit

\* The mapping as it stood after the k oldest instructions of the buffer.
VisibleAt(k) ==
  (Committed \cup {rob[j].new : j \in 1 .. k})
    \ ({rob[j].old : j \in 1 .. k} \cup {NoPhy})

(***************************************************************************)
(* No assertion of rat.h fails, whatever the order of results and flushes: *)
(* rename and set_map find exactly one visible register per architectural  *)
(* register (rat.h:386, 434; rename.cpp:455), commit releases a register   *)
(* that is allocated and hidden and commits one that is not committed yet  *)
(* (rat.h:410-411, 454-455), and the walk back undoes a visible mapping in *)
(* favour of a hidden one (rat.h:472-475).                                 *)
(***************************************************************************)
RatAssertsHold ==
  /\ \A a \in Arch : IsOne(get_phy_id(rat, a)) /\ IsOne(get_commit_phy_id(rat, a))
  /\ cur_state = "normal" /\ rob # << >> /\ Head(rob).new # NoPhy =>
       /\ release_map_asserts(rat, Head(rob).old)
       /\ commit_map_asserts(release_map(rat, Head(rob).old), Head(rob).new)
  /\ cur_state # "normal" /\ rob # << >> /\ Last.new # NoPhy =>
       restore_map_asserts(rat, Last.new, Last.old)

\* An allocated register is committed or the destination of one instruction.
RegistersOK ==
  /\ rat.valid = Committed \cup ({rob[j].new : j \in 1 .. Len(rob)} \ {NoPhy})
  /\ \A i, j \in 1 .. Len(rob) :
       rob[i].new # NoPhy => /\ rob[i].new \notin Committed
                             /\ rob[i].new = rob[j].new => i = j

(***************************************************************************)
(* Every allocated physical register is accounted for: it is the destin-   *)
(* ation of exactly one live instruction, or it is the only one that holds *)
(* the committed state of its architectural register.  A register lost by  *)
(* a flush or a retirement, or freed twice, breaks this.                   *)
(***************************************************************************)
NoRegisterLeak ==
  /\ RegistersOK
  /\ \A p \in Committed :
       rat.table[p] \in Arch /\ get_commit_phy_id(rat, rat.table[p]) = {p}

(***************************************************************************)
(* When the buffer is empty - after a mispredict, after the walk back of   *)
(* an exception or an interrupt - the visible mapping is the committed     *)
(* one, nothing else is allocated, and every mapped register has data.     *)
(***************************************************************************)
PreciseWhenEmpty ==
  rob = << >> => /\ rat.visible = Committed
                 /\ rat.valid = Committed
                 /\ data_valid = Committed

(***************************************************************************)
(* A checkpoint about to be restored is the committed mapping as it will   *)
(* be once its branch has retired, and each of its registers really has    *)
(* its data: commit.cpp:819 has the second half as a commented-out         *)
(* assertion and marks the data valid regardless.                          *)
(***************************************************************************)
RestoredStateIsReal ==
  cur_state = "normal" /\ rob # << >> /\ Head(rob).status = "missed" =>
    /\ Head(rob).cp = Retired(Head(rob)).valid \cap Retired(Head(rob)).commit
    /\ Head(rob).cp \subseteq data_valid

(***************************************************************************)
(* A register on the free list never looks written (regfile.h): else the   *)
(* next instruction it is given to would wake its readers too early.       *)
(***************************************************************************)
FreeHasNoData == data_valid \subseteq rat.valid

(***************************************************************************)
(* The committed register of an architectural register changes only when   *)
(* the oldest instruction retires, and only for its own destination: no    *)
(* rename, result, walk back or restore touches architectural state.       *)
(***************************************************************************)
CommittedChangesInOrder ==
  [][\A a \in Arch :
       get_commit_phy_id(rat, a)' # get_commit_phy_id(rat, a) =>
         /\ rob # << >> /\ Head(rob).status \in {"done", "missed"}
         /\ get_commit_phy_id(rat, a) = {Head(rob).old}
         /\ get_commit_phy_id(rat, a)' = {Head(rob).new}]_vars

-----------------------------------------------------------------------------
(***************************************************************************)
(* The inductive invariant behind these properties: each entry of the      *)
(* buffer replaces the mapping its elders left, and each of the mappings   *)
(* in between has exactly one register per architectural register.         *)
(***************************************************************************)

\* S holds exactly one register of each architectural register.
OnePerArch(S) ==
  /\ \A a \in Arch : \E p \in S : \A q \in S : rat.table[q] = a <=> q = p
  /\ \A q \in S : rat.table[q] \in Arch

ChainOK ==
  \A j \in 1 .. Len(rob) :
    /\ rob[j].new = NoPhy <=> rob[j].old = NoPhy
    /\ rob[j].new # NoPhy =>
         /\ rob[j].new \notin rat.commit
         /\ rob[j].old \in VisibleAt(j - 1)
         /\ rat.table[rob[j].old] = rat.table[rob[j].new]

MappingsOK ==
  /\ \A k \in 0 .. Len(rob) : OnePerArch(VisibleAt(k))
  /\ rat.visible = VisibleAt(Len(rob))

CheckpointsOK ==
  \A j \in 1 .. Len(rob) : rob[j].cp # {} => rob[j].cp = VisibleAt(j)

DataOK ==
  /\ Committed \subseteq data_valid
  /\ data_valid \subseteq rat.valid
  /\ \A j \in 1 .. Len(rob) :
       /\ rob[j].status \in {"done", "missed"} /\ rob[j].new # NoPhy =>
            rob[j].new \in data_valid
       /\ rob[j].status = "missed" => rob[j].cp # {}

StateOK == cur_state # "normal" => rob # << >>

IInv ==
  /\ TypeOK
  /\ RegistersOK
  /\ ChainOK
  /\ MappingsOK
  /\ CheckpointsOK
  /\ DataOK
  /\ StateOK

=============================================================================
