------------------------------- MODULE MCRestake -------------------------------
(* Small instances of Restake for TLC. *)
EXTENDS Restake

CONSTANTS a, b

\* Both denominations are allowed, then only the first one.
ShrinkingDenoms == {{a, b}, {a}}
=============================================================================
