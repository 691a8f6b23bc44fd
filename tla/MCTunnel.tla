------------------------------- MODULE MCTunnel -------------------------------
(* Small instances of Tunnel for TLC. *)
EXTENDS Tunnel, TLC

CONSTANTS btc, eth

OneTunnel == 1..1

\* The creator drops a signal and takes it back.
TwoSignals == {[s \in {btc, eth} |-> [soft |-> 100, hard |-> 500]],
               [s \in {eth} |-> [soft |-> 100, hard |-> 500]]}

UserSymmetry == Permutations(Users)
=============================================================================
