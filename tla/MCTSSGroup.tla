----------------------------- MODULE MCTSSGroup -----------------------------
(* Small instances of group creation. *)
EXTENDS TSSGroup
=============================================================================
