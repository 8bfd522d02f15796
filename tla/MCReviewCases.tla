--------------------------- MODULE MCReviewCases ---------------------------
(* Instances of ReviewCases for TLC. *)
EXTENDS ReviewCases, TLC

CONSTANTS a1, a2, w1, w2, s1, s2, ip1, p1

TwoAgents == {a1, a2}
TwoWorkers == {w1, w2}
TwoScopes == {s1, s2}
OneAddress == {ip1}
SameAddress == [s \in Scopes |-> ip1]
OnePattern == {p1}

AgentSymmetry ==
  Permutations(TwoAgents) \cup Permutations(TwoWorkers) \cup Permutations(TwoScopes)

Everything == {"override", "purge", "audit", "recheck"}
Nothing == {}
=============================================================================
