-------------------------- MODULE SequentialMemory --------------------------
(***************************************************************************)
(* What the load-store unit and the store buffer promise together: memory  *)
(* as a machine sees it that executes one instruction after the other.  A  *)
(* load returns the bytes of the youngest older store, or of memory, and   *)
(* memory holds the stores that have retired, in program order.  An        *)
(* instruction that fails raises an exception: it does not retire, and     *)
(* what it would have stored is not there for the loads behind it, which   *)
(* do not retire either.                                                   *)
(***************************************************************************)
EXTENDS Naturals, Sequences

CONSTANTS
  Addr,   \* the byte addresses
  Byte,   \* the values of a byte
  Op      \* the instructions of the program: kind, addr, size and data

VARIABLES
  mem,   \* [Addr -> Byte]
  rob    \* the instructions that have not retired, oldest first

vars == <<mem, rob>>

NoValue == << >>

Writes(op, a) == op.kind = "store" /\ a \in op.addr .. op.addr + op.size - 1

StoredByte(op, a) == op.data[a - op.addr]

Read(m, op) == [i \in 0 .. op.size - 1 |-> m[op.addr + i]]

\* Memory as the instruction after the first n finds it: a byte is that of
\* the youngest store to it.
MemoryAfter(n) ==
  [a \in Addr |->
     LET stores == {i \in 1 .. n : ~rob[i].failed /\ Writes(rob[i].op, a)}
     IN  IF stores = {} THEN mem[a]
         ELSE StoredByte(rob[CHOOSE i \in stores : \A j \in stores : j <= i].op, a)]

-----------------------------------------------------------------------------

Init ==
  /\ mem \in [Addr -> Byte]
  /\ rob = << >>

Enter ==
  /\ rob' \in {Append(rob, [op |-> op, value |-> NoValue, failed |-> FALSE]) : op \in Op}
  /\ UNCHANGED mem

Fail(j) ==
  /\ rob[j].value = NoValue
  /\ rob' = [rob EXCEPT ![j].failed = TRUE]
  /\ UNCHANGED mem

Load(j) ==
  /\ rob[j].op.kind = "load" /\ rob[j].value = NoValue
  /\ rob' = [rob EXCEPT ![j].value = Read(MemoryAfter(j - 1), rob[j].op)]
  /\ UNCHANGED mem

Retire ==
  /\ rob # << >> /\ ~Head(rob).failed
  /\ Head(rob).op.kind = "load" => Head(rob).value # NoValue
  /\ mem' = MemoryAfter(1)
  /\ rob' = Tail(rob)

\* An exception, an interrupt or a misprediction: nothing else happens.
Flush ==
  /\ rob' = << >>
  /\ UNCHANGED mem

Next ==
  \/ Enter
  \/ \E j \in 1 .. Len(rob) : Fail(j) \/ Load(j)
  \/ Retire
  \/ Flush

Spec == Init /\ [][Next]_vars

=============================================================================
