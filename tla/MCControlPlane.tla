--------------------------- MODULE MCControlPlane ---------------------------
(* Instances of ControlPlane for TLC. *)
EXTENDS ControlPlane, TLC

CONSTANTS o1, m1, l1

OneOwner == {o1}
OneModule == {m1}
OwnerAndModule == {o1, m1}
OneList == {l1}

\* What follows a clash is not explored: every property is about what is not.
NoClash == ~clashed
=============================================================================
