------------------------------- MODULE MCGrogu -------------------------------
(***************************************************************************)
(* Instances of Grogu: signals and keys are interchangeable.               *)
(***************************************************************************)
EXTENDS Grogu, TLC

Symmetry == Permutations(Signals) \cup Permutations(SubmitterKeys)
=============================================================================
