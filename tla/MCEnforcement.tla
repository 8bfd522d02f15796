--------------------------- MODULE MCEnforcement ---------------------------
(* Instances of Enforcement for TLC: one with mode switches and lost batches,   *)
(* whose constants are in the configuration, and one with administrators.       *)
EXTENDS Enforcement

CONSTANT u1

VARIABLE part

OneUser == {u1}
NoRequests == {}

Attended == INSTANCE Enforcement WITH
  Requests <- {"ban", "unban", "strikes"}, MaxLosses <- 1, MaxSwitches <- 0, MaxAdmin <- 2

MCInit == part \in {"dispatch", "admin"} /\ Init

MCNext ==
  /\ UNCHANGED part
  /\ \/ part = "dispatch" /\ Next
     \/ part = "admin" /\ Attended!Next

MCSpec == MCInit /\ [][MCNext]_<<part, vars>> /\ Fairness
=============================================================================
