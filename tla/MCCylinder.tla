----------------------------- MODULE MCCylinder -----------------------------
(***************************************************************************)
(* Instances of Cylinder: one group, one signing, nonces as numbers.       *)
(***************************************************************************)
EXTENDS Cylinder

MCGroupOf == [s \in Signings |-> CHOOSE g \in Groups : TRUE]
MCDEs == 1..2
=============================================================================
