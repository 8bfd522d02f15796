---------------------------- MODULE MCAdminAuth ----------------------------
(* Instances of AdminAuth for TLC. *)
EXTENDS AdminAuth, TLC

CONSTANTS o1, o2, r1, r2

TwoOwners == {o1, o2}
OneOwner == {o1}
TwoRequests == {r1, r2}
Alike == Permutations(TwoRequests)
=============================================================================
