----------------------------- MODULE MCRenaming -----------------------------
(* Renaming with two architectural registers besides x0.                   *)
EXTENDS Renaming
=============================================================================
