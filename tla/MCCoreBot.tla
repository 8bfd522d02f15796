----------------------------- MODULE MCCoreBot -----------------------------
(* Instances of CoreBot for TLC: one with commands and crashes, whose         *)
(* constants are in the configuration, and one that warns twice.              *)
EXTENDS CoreBot

CONSTANT u1

VARIABLE part

OneUser == {u1}
TwoTags == {[user |-> u1, ip |-> "ip1", tag |-> "tag1"], [user |-> u1, ip |-> "ip1", tag |-> "tag2"]}
TwoDurations == <<1, 1>>
Nobody == {}
SomeCommands == {"unban", "forgive", "set", "wipe", "dry", "exempt"}

Patient == INSTANCE CoreBot WITH
  WarningsBeforeBan <- 2, WarningTimeout <- 0, Approvals <- {FALSE}, MaxDisturbances <- 0,
  Lines <- {[user |-> u1, ip |-> "ip1", tag |-> "tag1"]}

MCInit == part \in {"disturbed", "patient"} /\ Init

MCNext ==
  /\ UNCHANGED part
  /\ \/ part = "disturbed" /\ Next
     \/ part = "patient" /\ Patient!Next

MCSpec == MCInit /\ [][MCNext]_<<part, vars>> /\ Fairness
=============================================================================
