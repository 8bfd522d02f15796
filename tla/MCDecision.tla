----------------------------- MODULE MCDecision -----------------------------
(* Instances of Decision for TLC, with the default settings of the panel: one    *)
(* of two events among administrators, whose constants are in the configuration, *)
(* and one of a single event with every combination of signals.                  *)
EXTENDS Decision, TLC

CONSTANTS w1, w2, u1, u2, d1, d2

VARIABLE part

DefaultSettings ==
  [threshold_home |-> 15, threshold_probable_home |-> 30,
   threshold_probable_mobile |-> 50, threshold_mobile |-> 60,
   pure_asn_score |-> 60, mixed_asn_score |-> 45, pure_home_asn_penalty |-> -100,
   ptr_home_penalty |-> -20, mobile_kw_bonus |-> 20,
   provider_mobile_marker_bonus |-> 18, provider_home_marker_penalty |-> -18,
   churn_mobile_threshold |-> 3, score_churn_high_bonus |-> 30,
   score_churn_medium_bonus |-> 15, history_mobile_bonus |-> 40,
   history_home_penalty |-> -25, score_stationary_penalty |-> -5,
   subnet_mobile_min_evidence |-> 1, score_subnet_mobile_bonus |-> 40,
   subnet_home_min_evidence |-> 3, score_subnet_home_penalty |-> 0,
   concurrency_threshold |-> 2, hwid_match_bonus |-> 30, hwid_sharing_penalty |-> -60]

TwoWorkers == {w1, w2}
OneUser == {u1}
TwoUsers == {u1, u2}
OneDevice == {d1}
NotEnrolled == {{}}


\* The rule for strong cases is switched on and off; the guardrail with it, as
\* long as no provider is matched, changes nothing.
OnAndOff == [strict : BOOLEAN, reviewOnly : {TRUE}]

AnyTag == BOOLEAN
Everything == {"override", "pattern", "cache", "patch", "rules", "trackers"}

NoEvidence == [d \in Directions |-> 0]
Unseen == {[evidence |-> NoEvidence, trackers |-> {}]}
SeenBefore ==
  Unseen \cup {[evidence |-> [NoEvidence EXCEPT !["MOBILE"] = 1], trackers |-> TwoUsers]}

Alike == Permutations(TwoWorkers)

Unlearned == [kind \in PatternKinds |-> "none"]
NoLegacy == [d \in Directions |-> 0]
Blank == [asn |-> "unlisted", datacenter |-> FALSE, provider |-> "none", markers |-> {},
          keywords |-> {}, churn |-> 0, rotating |-> FALSE, stable |-> FALSE,
          stationary |-> FALSE, learned |-> Unlearned, legacy |-> NoLegacy]

\* What the learning tables may say of one signal.
Learnings ==
  {[learned |-> Unlearned, legacy |-> NoLegacy],
   [learned |-> Unlearned, legacy |-> [NoLegacy EXCEPT !["MOBILE"] = 3]],
   [learned |-> [Unlearned EXCEPT !.combo = "HOME", !.asn = "MOBILE"], legacy |-> NoLegacy],
   [learned |-> [Unlearned EXCEPT !.provider_service = "HOME", !.provider = "MOBILE"],
    legacy |-> [NoLegacy EXCEPT !["HOME"] = 5]]}

Behaviours ==
  {[churn |-> 0, rotating |-> FALSE, stable |-> st, stationary |-> st] : st \in BOOLEAN}
  \cup {[churn |-> 2, rotating |-> FALSE, stable |-> FALSE, stationary |-> FALSE],
        [churn |-> 3, rotating |-> TRUE, stable |-> FALSE, stationary |-> TRUE]}

Networks ==
  {[asn |-> "unlisted", datacenter |-> TRUE]}
  \cup {[asn |-> a, datacenter |-> FALSE]
          : a \in {"none", "unlisted", "pure_home", "pure_mobile", "mixed"}}

Providers ==
  {[provider |-> "none", markers |-> {}]}
  \cup {[provider |-> "mixed", markers |-> m] : m \in SUBSET Directions}
  \cup {[provider |-> "mobile", markers |-> {"MOBILE"}]}

AllSignals ==
  {[asn |-> n.asn, datacenter |-> n.datacenter, provider |-> p.provider,
    markers |-> p.markers, keywords |-> k, churn |-> b.churn, rotating |-> b.rotating,
    stable |-> b.stable, stationary |-> b.stationary,
    learned |-> l.learned, legacy |-> l.legacy]
     : n \in Networks, p \in Providers, k \in SUBSET Directions, b \in Behaviours,
       l \in Learnings}

\* A mobile network, and a home line that only one source speaks for.
SomeSignals ==
  {[Blank EXCEPT !.asn = "pure_mobile"],
   [Blank EXCEPT !.stable = TRUE, !.stationary = TRUE]}

Alone == INSTANCE Decision WITH
  Workers <- {w1}, Users <- {u1}, Devices <- {d1, d2}, Histories <- SeenBefore,
  Enrolled <- {{d2}}, Tags <- {TRUE}, Signals <- AllSignals,
  RuleSets <- OnAndOff, AdminOps <- {},
  MaxEvents <- 1, MaxAdmin <- 0

MCInit ==
  \/ part = "race" /\ Init
  \/ part = "signals" /\ Alone!Init /\ (rules.strict \/ trackers = {})

MCNext ==
  /\ UNCHANGED part
  /\ \/ part = "race" /\ Next
     \/ part = "signals" /\ Alone!Next

MCSpec == MCInit /\ [][MCNext]_<<part, vars>>
=============================================================================
