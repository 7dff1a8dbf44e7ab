----------------------------- MODULE LossyStack -----------------------------
(***************************************************************************)
(* What a return-address predictor may promise with bounded memory: it is  *)
(* the stack of the calls' return addresses, of which it may forget the    *)
(* oldest ones - but only while what it still remembers would fill all of  *)
(* its places, where calls from one and the same place (recursion) share   *)
(* a place, up to a limit.                                                 *)
(***************************************************************************)
EXTENDS Naturals, Sequences, FiniteSets

CONSTANTS
  Addr,
  Size,        \* places
  Share,       \* calls with one return address that share a place
  NoAddr       \* what is answered before anything was ever returned

VARIABLES
  calls,       \* return addresses, the newest last
  answer       \* what the latest pop answered

vars == <<calls, answer>>

\* The places that the calls of s take: a new one where an address differs
\* from the one before it, and after every Share equal ones.
Places(s) ==
  LET run[n \in 1 .. Len(s)] ==
        IF n > 1 /\ s[n - 1] = s[n] THEN run[n - 1] + 1 ELSE 1
  IN Cardinality({n \in 1 .. Len(s) : (run[n] - 1) % Share = 0})

Init == calls = <<>> /\ answer = NoAddr

\* What may be remembered after a call on top of s: all, or no more than the
\* places hold, the n oldest calls forgotten.
After(s, a) ==
  {Append(s, a)} \cup
  {t \in {Append(SubSeq(s, n + 1, Len(s)), a) : n \in 1 .. Len(s)} : Places(t) = Size}

\* What a return leaves.
Without(s) == SubSeq(s, 1, Len(s) - 1)

Call(a) == calls' \in After(calls, a) /\ UNCHANGED answer

\* With nothing left to return to, the last answer is repeated.
Answer == answer' = IF calls = << >> THEN answer ELSE calls[Len(calls)]

Return == Answer /\ calls' = Without(calls)

\* A return and a call in one.
Switch(a) == Answer /\ calls' \in After(Without(calls), a)

Clear == calls' = << >> /\ answer' = NoAddr

Next == (\E a \in Addr : Call(a) \/ Switch(a)) \/ Return \/ Clear

Spec == Init /\ [][Next]_vars

=============================================================================
