------------------------------ MODULE MCBandTSS ------------------------------
(* Small instances of BandTSS for TLC. *)
EXTENDS BandTSS, TLC

CONSTANTS a1, a2, a3

TwoGroups == 1..2
TwoGroupMembers == <<{a1, a2}, {a2, a3}>>
TwoThresholds == <<2, 1>>

SmallGroups == <<{a1}, {a2}>>
SmallThresholds == <<1, 1>>

ThreeGroups == 1..3
ThreeGroupMembers == <<{a1}, {a1, a2}, {a2}>>
ThreeThresholds == <<1, 2, 1>>

OneSigning == 1..1
TwoSignings == 1..2
ThreeSignings == 1..3
=============================================================================
