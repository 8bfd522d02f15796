---------------------------- MODULE MCCaseFiles ----------------------------
(* Instances of what the panel's pages read.  "cases": one device seen on two  *)
(* addresses, two agents that open and recheck its cases beside the ingest     *)
(* worker, and a database that an older version may have left with two open    *)
(* cases of one scope.  "pages": the pipeline's status and the overview.       *)
(* These share no state, so each is explored without the other.                *)
EXTENDS CaseFiles, ReadModels, TLC

CONSTANTS s1, s2, d1, a1, a2

VARIABLE part

MCScopes == {s1, s2}
MCDevices == {d1}
MCDeviceOf == [s \in MCScopes |-> d1]
MCAgents == {a1, a2}

Old(s, repeats, opened, updated) ==
  [scope |-> s, status |-> "OPEN", repeats |-> repeats, opened |-> opened, updated |-> updated]
MCLegacy == {<<>>, <<Old(s1, 2, 0, 1), Old(s1, 1, 1, 1)>>}
Alike == Permutations(MCAgents)

\* The other part rests: one of its initial states will do.
MCInit ==
  /\ CaseInit
  /\ PageInit
  /\ part \in {"cases", "pages"}
  /\ part = "cases" => depth = 0
  /\ part = "pages" => cases = <<>> /\ clock = 1

MCNext ==
  /\ UNCHANGED part
  /\ \/ part = "cases" /\ CaseNext /\ UNCHANGED pageVars
     \/ part = "pages" /\ PageNext /\ UNCHANGED caseVars

MCSpec == MCInit /\ [][MCNext]_<<part, caseVars, pageVars>>
=============================================================================
