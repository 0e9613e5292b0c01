--------------------------- MODULE MCControlPlane ---------------------------
(* Instances of ControlPlane for TLC. The slots are interchangeable.       *)
EXTENDS ControlPlane, TLC

Slots == Permutations(Requests)
=============================================================================
