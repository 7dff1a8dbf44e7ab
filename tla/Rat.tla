-------------------------------- MODULE Rat --------------------------------
(***************************************************************************)
(* component/rat.h: the register alias table, as operators on its value.   *)
(* A table value r is a record of the four members of the class: table     *)
(* (phy_map_table, the architectural register a physical one stands for)   *)
(* and the bitmaps valid (allocated), visible (the newest mapping of its   *)
(* architectural register) and commit, each as a set of physical           *)
(* registers.  An operator with the suffix _asserts is the conjunction of  *)
(* the assertions of the function it is named after.                       *)
(***************************************************************************)
EXTENDS Integers

CONSTANTS
  PHY_REG_NUM,   \* number of physical registers
  ARCH_REG_NUM   \* number of architectural registers, x0 included

ASSUME RatAssumption ==
  /\ ARCH_REG_NUM \in Nat /\ ARCH_REG_NUM > 1
  /\ PHY_REG_NUM \in Nat /\ PHY_REG_NUM >= ARCH_REG_NUM

Phy  == 0 .. PHY_REG_NUM - 1
Arch == 1 .. ARCH_REG_NUM - 1     \* x0 is never renamed

RatType == [table : [Phy -> 0 .. ARCH_REG_NUM - 1],
            valid : SUBSET Phy, visible : SUBSET Phy, commit : SUBSET Phy]

\* The part of checkpoint_t the table is saved in and restored from.
CheckpointType == [valid : SUBSET Phy, visible : SUBSET Phy]

IsOne(S) == \E p \in S : S = {p}

\* After reset: register i stands for architectural register i.
reset_map == [table   |-> [p \in Phy |-> IF p \in Arch THEN p ELSE 0],
              valid   |-> Arch,
              visible |-> Arch,
              commit  |-> Arch]

\* The registers get_phy_id counts; its result is the only one of them.
get_phy_id(r, arch_id) ==
  {p \in r.valid \cap r.visible : r.table[p] = arch_id}

get_commit_phy_id(r, arch_id) ==
  {p \in r.valid \cap r.commit : r.table[p] = arch_id}

set_map_asserts(r, arch_id, phy_id) ==
  /\ phy_id \in Phy \ r.valid
  /\ arch_id \in Arch
  /\ IsOne(get_phy_id(r, arch_id))

\* Mutant: the replaced register stays visible.
MutantOldStaysVisible(r, arch_id, phy_id) ==
  [table   |-> [r.table EXCEPT ![phy_id] = arch_id],
   valid   |-> r.valid \cup {phy_id},
   visible |-> r.visible \cup {phy_id},
   commit  |-> r.commit \ {phy_id}]

set_map(r, arch_id, phy_id) ==
  [table   |-> [r.table EXCEPT ![phy_id] = arch_id],
   valid   |-> r.valid \cup {phy_id},
   visible |-> (r.visible \cup {phy_id}) \ get_phy_id(r, arch_id),
   commit  |-> r.commit \ {phy_id}]

release_map_asserts(r, phy_id) == phy_id \in r.valid \ r.visible

release_map(r, phy_id) ==
  [r EXCEPT !.table[phy_id] = 0, !.valid = @ \ {phy_id}]

commit_map_asserts(r, phy_id) == phy_id \in r.valid \ r.commit

commit_map(r, phy_id) == [r EXCEPT !.commit = @ \cup {phy_id}]

restore_map_asserts(r, new_phy_id, old_phy_id) ==
  /\ new_phy_id \in r.valid \cap r.visible
  /\ old_phy_id \in r.valid \ r.visible

\* Mutants: the older mapping is not made visible again; the two registers
\* are swapped.
MutantOldStaysHidden(r, new_phy_id, old_phy_id) ==
  [r EXCEPT !.table[new_phy_id] = 0,
            !.valid   = @ \ {new_phy_id},
            !.visible = @ \ {new_phy_id}]

MutantRegistersSwapped(r, new_phy_id, old_phy_id) ==
  [r EXCEPT !.table[old_phy_id] = 0,
            !.valid   = (@ \ {old_phy_id}) \cup {new_phy_id},
            !.visible = (@ \ {old_phy_id}) \cup {new_phy_id}]

restore_map(r, new_phy_id, old_phy_id) ==
  [r EXCEPT !.table[new_phy_id] = 0,
            !.valid   = (@ \ {new_phy_id}) \cup {old_phy_id},
            !.visible = (@ \ {new_phy_id}) \cup {old_phy_id}]

save(r) == [valid |-> r.valid, visible |-> r.visible]

\* Only the two saved bitmaps come back; table and commit stay as they are.
restore(r, cp) == [r EXCEPT !.valid = cp.valid, !.visible = cp.visible]

cp_release_map_asserts(cp, phy_id) == phy_id \in cp.valid \ cp.visible

=============================================================================
