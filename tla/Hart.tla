-------------------------------- MODULE Hart --------------------------------
(***************************************************************************)
(* What the core promises to a program: one instruction after the other,   *)
(* each done at once, an exception at the instruction that raises it, and  *)
(* an interrupt between two instructions, only while they are enabled.     *)
(* How pipelined instructions can be so ordered is Core's business.        *)
(***************************************************************************)
EXTENDS Isa

VARIABLES
  pc,     \* of the next instruction
  csr,
  last    \* pc of the last instruction done

vars == <<pc, csr, last>>

Init == pc = 0 /\ csr = Boot /\ last = 0

Done == last' = pc

Execute ==
  /\ Op(pc) \in {"plain", "store", "fence_i", "read_csr"}
  /\ pc' = Succ(pc)
  /\ Done
  /\ UNCHANGED csr

Branch ==
  /\ Op(pc) = "branch"
  /\ \E outcome \in Outcomes(pc) : pc' = outcome.next
  /\ Done
  /\ UNCHANGED csr

\* The register is read and written at once.
WriteCsr ==
  /\ Op(pc) = "csr"
  /\ csr' = [csr EXCEPT ![Program[pc].csr] = csr_newvalue(pc, csr)]
  /\ pc' = Succ(pc)
  /\ Done

Mret ==
  /\ Op(pc) = "mret"
  /\ pc' = csr.mepc
  /\ csr' = [csr EXCEPT !.mstatus = {b \in {"mie", "mpie"} : "mpie" \in csr.mstatus}]
  /\ Done

\* mstatus stays as it is: an exception does not disable interrupts.
Raise ==
  /\ Op(pc) = "fault"
  /\ csr' = [csr EXCEPT !.mepc = pc, !.mcause = Exception]
  /\ pc' = csr.mtvec
  /\ UNCHANGED last

Interrupt ==
  /\ "mie" \in csr.mstatus
  /\ \E c \in csr.mie :
       csr' = [csr EXCEPT !.mepc = pc, !.mcause = c, !.mstatus = {"mpie"}]
  /\ pc' = csr.mtvec
  /\ UNCHANGED last

Next == Execute \/ Branch \/ WriteCsr \/ Mret \/ Raise \/ Interrupt

Spec == Init /\ [][Next]_vars
=============================================================================
