--------------------------------- MODULE Isa --------------------------------
(***************************************************************************)
(* A program as the parts that order its execution see it.  It is a        *)
(* function on 0 .. n - 1 and goes round after its last instruction;       *)
(* general registers are left out, so a branch goes any of its ways.       *)
(*   [op |-> "plain"], [op |-> "store"], [op |-> "fence_i"]                *)
(*   [op |-> "fault"]       raises an exception each time it executes      *)
(*   [op |-> "branch", cond |-> .., to |-> ..]   to: where it may jump;    *)
(*                          cond: it may also fall through; one with an    *)
(*                          undefined funct3 only does, and raises nothing *)
(*   [op |-> "csr", how |-> .., csr |-> .., value |-> ..]                  *)
(*   [op |-> "read_csr"]    with x0 as its source: nothing is written      *)
(*   [op |-> "mret"]                                                       *)
(* Control registers are sets of the names of the bits that are one, or a  *)
(* program counter; mip is left out, which hardware overwrites each cycle. *)
(***************************************************************************)
EXTENDS Naturals, FiniteSets

CONSTANTS
  Program,
  Boot,      \* the control registers when the program starts
  Causes     \* interrupts: 1 external, 2 software, 3 timer

Pc == DOMAIN Program

\* mcause of an exception
Exception == 0

Csr == [mstatus : SUBSET {"mie", "mpie"}, mie : SUBSET Causes,
        mepc : Pc, mtvec : Pc, mcause : Causes \cup {Exception}]

Op(p) == Program[p].op
Succ(p) == (p + 1) % Cardinality(Pc)

\* A branch to the program counter p, or the instruction at p passed by.
Jump(p) == [jump |-> TRUE, next |-> p]
Pass(p) == [jump |-> FALSE, next |-> Succ(p)]

\* execute/bru.cpp: the outcomes the branch at p may have.
Outcomes(p) ==
  {Jump(q) : q \in Program[p].to} \cup {r \in {Pass(p)} : Program[p].cond}

\* execute/csr.cpp: what the instruction at p makes of its register.
csr_newvalue(p, csr) ==
  LET i   == Program[p]
      old == csr[i.csr]
  IN  CASE i.how = "csrrw" -> i.value
        [] i.how = "csrrs" -> old \cup i.value
        [] i.how = "csrrc" -> old \ i.value

\* A control register is written with what it can hold.
ASSUME IsaAssumption ==
  /\ Causes \subseteq 1 .. 3
  /\ Pc # {} /\ IsFiniteSet(Pc) /\ Pc = 0 .. Cardinality(Pc) - 1
  /\ Boot \in Csr
  /\ \A p \in Pc :
       /\ Op(p) \in {"plain", "store", "fence_i", "fault", "branch",
                     "csr", "read_csr", "mret"}
       /\ Op(p) = "branch" => Program[p].to \subseteq Pc
       /\ Op(p) = "csr" => Program[p].csr \in DOMAIN Boot
       /\ Op(p) = "csr" => \A c \in Csr :
            [c EXCEPT ![Program[p].csr] = csr_newvalue(p, c)] \in Csr
=============================================================================
