---------------------------- MODULE MCStoreBuffer ----------------------------
(***************************************************************************)
(* StoreBuffer with a word of memory, and accesses that overlap in each of *)
(* the ways get_feedback_value tells apart: a load of the upper half, and  *)
(* stores that begin below it (sw) and inside it (sb).                     *)
(***************************************************************************)
EXTENDS StoreBuffer

MCAddr  == 0 .. 3
MCByte  == {0, 1}
MCImage == [a \in MCAddr |-> 0]

lh    == [kind |-> "load", addr |-> 2, size |-> 2]
sw    == [kind |-> "store", addr |-> 0, size |-> 4,
          data |-> [i \in 0 .. 3 |-> IF i < 2 THEN 0 ELSE 1]]
sb    == [kind |-> "store", addr |-> 3, size |-> 1, data |-> [i \in {0} |-> 0]]
Other == [kind |-> "other"]

\* A load, two stores that a flush may not confuse, and what stands between.
MCOp == {lh, sw, sb, Other}

\* For liveness, what is stored does not matter.
MCOpLive == {sb, Other}
=============================================================================
