-------------------------------- MODULE MCYoda --------------------------------
(* Small instances of Yoda for TLC. *)
EXTENDS Yoda

\* One transaction with three requests.
OneTransaction == {<<1, 2, 3>>}
=============================================================================
