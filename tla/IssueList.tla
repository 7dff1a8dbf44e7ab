------------------------------ MODULE IssueList ------------------------------
(***************************************************************************)
(* What component/issue_queue.h promises the issue stage: a list of at     *)
(* most Size elements in program order.  Elements are appended at once.    *)
(* The elements to replace and the elements to take out, anywhere in the   *)
(* list, are noted while the stage runs, and when it has run the former    *)
(* are replaced in place, and the others close up in their order.          *)
(***************************************************************************)
EXTENDS Naturals, Sequences, SequencesExt

CONSTANTS
  Elem,   \* the elements
  Size    \* the capacity

VARIABLES
  list,      \* the elements, oldest first
  updates,   \* replacements by position
  leaving    \* the positions to take out

vars == <<list, updates, leaving>>

\* The elements of s at the positions that are not in places.
Without(s, places) ==
  FoldLeft(LAMBDA kept, i : IF i \in places THEN kept ELSE Append(kept, s[i]),
           << >>, [i \in 1 .. Len(s) |-> i])

Init == list = << >> /\ updates = << >> /\ leaving = {}

Add(e) ==
  /\ Len(list) < Size
  /\ list' = Append(list, e)
  /\ UNCHANGED <<updates, leaving>>

Update(i, e) ==
  /\ i \notin leaving
  /\ updates' = [j \in DOMAIN updates \cup {i} |-> IF j = i THEN e ELSE updates[j]]
  /\ UNCHANGED <<list, leaving>>

TakeOut(places) ==
  /\ leaving' = leaving \cup places
  /\ UNCHANGED <<list, updates>>

Settle ==
  /\ list' = Without([i \in DOMAIN list |->
                        IF i \in DOMAIN updates THEN updates[i] ELSE list[i]], leaving)
  /\ updates' = << >> /\ leaving' = {}

Clear == list' = << >> /\ UNCHANGED <<updates, leaving>>

Next ==
  \/ \E e \in Elem : Add(e)
  \/ \E i \in DOMAIN list, e \in Elem : Update(i, e)
  \/ \E places \in SUBSET DOMAIN list : TakeOut(places)
  \/ Settle
  \/ Clear

Spec == Init /\ [][Next]_vars

=============================================================================
