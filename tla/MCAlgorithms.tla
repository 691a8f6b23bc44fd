---------------------------- MODULE MCAlgorithms ----------------------------
(***************************************************************************)
(* Small instances of Algorithms.                                          *)
(***************************************************************************)
EXTENDS Algorithms

SomeNoncePairs == {[D |-> 1, E |-> 2], [D |-> 7, E |-> 3]}
=============================================================================
