------------------------------- MODULE MCCore -------------------------------
(* A program for Core, with everything it tells apart.                     *)
EXTENDS Core

StoreInst == [op |-> "store"]
FenceI    == [op |-> "fence_i"]
Fault     == [op |-> "fault"]
ReadCsr   == [op |-> "read_csr"]
MretInst  == [op |-> "mret"]
Branch(to) == [op |-> "branch", cond |-> TRUE, to |-> to]
CsrInst(how, name, value) == [op |-> "csr", how |-> how, csr |-> name, value |-> value]

Function(s) == [p \in 0 .. Len(s) - 1 |-> s[p + 1]]

Registers(mstatus, mie, mepc, mtvec) ==
  [mstatus |-> mstatus, mie |-> mie, mepc |-> mepc, mtvec |-> mtvec, mcause |-> 0]

\* A loop that faults, takes interrupts anywhere in it, turns them off and on,
\* moves the handler from 11 to 10 and writes code.  It ends in the handler,
\* 10-13, which goes back to what it interrupted or to 3 and reads which.  The
\* branch at 9 has an undefined funct3.
MCProgram ==
  Function(<<CsrInst("csrrc", "mstatus", {"mie"}), Branch({3}), Fault,
             CsrInst("csrrw", "mtvec", 10), CsrInst("csrrs", "mstatus", {"mie"}),
             CsrInst("csrrc", "mstatus", {"mpie"}), StoreInst, StoreInst, FenceI,
             Branch({}), Branch({12}), CsrInst("csrrw", "mepc", 3), ReadCsr, MretInst>>)
MCBoot == Registers({"mie"}, {1, 3}, 0, 11)
=============================================================================
