------------------------------- MODULE MCIssue -------------------------------
EXTENDS Issue

CONSTANTS x, y

Instr(op, rs1, rs2, rd) == [op |-> op, rs1 |-> rs1, rs2 |-> rs2, rd |-> rd]

\* Data flow: two units that may answer together, and an instruction that
\* waits to be alone, so that the queue stays full and the port waits.
DataInst == {Instr("alu", x, y, x), Instr("alu", x, NoArch, y), Instr("csr", NoArch, NoArch, NoArch)}

\* Order: a load may have to wait for its address, a store never does.
OrderInst ==
  {Instr("csr", NoArch, NoArch, NoArch), Instr("fence", NoArch, NoArch, NoArch),
   Instr("store", NoArch, NoArch, NoArch), Instr("load", x, NoArch, NoArch),
   Instr("alu", NoArch, NoArch, x)}

\* Waiting: for an operand, for the store buffer, to be alone.
WaitInst ==
  {Instr("csr", NoArch, NoArch, NoArch), Instr("mret", NoArch, NoArch, NoArch),
   Instr("fence", NoArch, NoArch, NoArch), Instr("store", NoArch, NoArch, NoArch),
   Instr("load", x, NoArch, x)}
==============================================================================
