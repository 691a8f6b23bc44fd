---------------------------- MODULE MCTSSSigning ----------------------------
(* Instances of TSSSigning for TLC. *)
EXTENDS TSSSigning

\* One group of two out of three.
OneGroup == {1}
OneGroupMembers == [g \in OneGroup |-> Accounts]
OneGroupThreshold == [g \in OneGroup |-> 2]

\* Two groups that share their accounts, as during a group transition.
TwoGroups == {1, 2}
TwoGroupsMembers == [g \in TwoGroups |-> Accounts]
TwoGroupsThreshold == [g \in TwoGroups |-> g]

Param(period, attempts, des) ==
  [signingPeriod |-> period, maxSigningAttempt |-> attempts, maxDESize |-> des]

FixedPeriod == {Param(1, 2, 2), Param(1, 1, 1)}
ChangingPeriod == {Param(1, 2, 2), Param(3, 2, 2)}
OnePeriod == {Param(1, 2, 2)}
=============================================================================
