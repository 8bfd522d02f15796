------------------------------ MODULE Scoring ------------------------------
(***************************************************************************)
(* How MobGuard decides whether an address is a mobile or a home network:   *)
(* evaluate_mobile_network of mobguard_core/scoring, the behavioural        *)
(* analyzers it consults, and the HWID check that _analyze_event runs on    *)
(* its result.                                                             *)
(*                                                                         *)
(* What the lookups of one analysis return is a "signal":                   *)
(*   asn, datacenter     the class of the ASN and of its owner              *)
(*   provider, markers   classification of the matched provider profile and *)
(*                       the directions of its service markers              *)
(*   keywords            directions of the generic keywords                 *)
(*   churn, rotating, stable, stationary    the user's behaviour            *)
(*   learned             direction of the promoted pattern of each kind     *)
(*   legacy              confidence of the legacy ASN learning              *)
(* A reason is a record; a decision carries the set of its reasons, and its *)
(* score is the sum of their weights.  The ip-api fallback never scores:    *)
(* the panel passes check_ip_api_mobile a stub that returns None.           *)
(***************************************************************************)
EXTENDS Integers, Sequences, FiniteSets, FiniteSetsExt

CONSTANT Settings   \* the record of live_rules["settings"]

Directions == {"MOBILE", "HOME"}
PatternKinds == {"combo", "provider_service", "provider", "asn"}
NoSignal == [asn |-> "unread"]

Reason(code, source, weight, kind, direction) ==
  [code |-> code, source |-> source, weight |-> weight,
   kind |-> kind, direction |-> direction]

Only(reason, condition) == IF condition THEN {reason} ELSE {}

Score(reasons) == MapThenSumSet(LAMBDA r : r.weight, reasons)

(* DecisionBundle.sources_for_direction *)
SourcesFor(reasons, direction) ==
  {r.source : r \in {q \in reasons : /\ q.direction = direction
                                     /\ IF direction = "HOME" THEN q.weight < 0
                                                              ELSE q.weight > 0}}

-----------------------------------------------------------------------------
(* The reasons of each stage *)

ServiceHint(s) ==
  CASE s.provider = "none" \/ s.markers = {} -> "unknown"
    [] s.markers = Directions                -> "conflict"
    [] s.markers = {"MOBILE"}                -> "mobile"
    [] OTHER                                 -> "home"

ProviderReasons(s) ==
  IF s.provider = "none" THEN {}
  ELSE {CASE ServiceHint(s) = "mobile" ->
               Reason("provider_mobile_marker", "provider_profile",
                      Settings.provider_mobile_marker_bonus, "soft", "MOBILE")
          [] ServiceHint(s) = "home" ->
               Reason("provider_home_marker", "provider_profile",
                      Settings.provider_home_marker_penalty, "soft", "HOME")
          [] ServiceHint(s) = "conflict" ->
               Reason("provider_conflict", "provider_profile", 0, "soft", "NEUTRAL")
          [] OTHER ->
               Reason("provider_marker_missing", "provider_profile", 0, "soft", "NEUTRAL")}

Datacenter == Reason("datacenter", "generic_keyword", -100, "hard", "HOME")
PureHome == Reason("pure_home_asn", "asn", Settings.pure_home_asn_penalty, "hard", "HOME")

AsnReasons(s) ==
  Only(Reason("pure_mobile_asn", "asn", Settings.pure_asn_score, "soft", "MOBILE"),
       s.asn = "pure_mobile")
  \cup Only(Reason("mixed_asn", "asn", Settings.mixed_asn_score, "soft", "MOBILE"),
            s.asn = "mixed" /\ s.provider # "mixed")
  \cup Only(Reason("mixed_asn_guarded", "asn", 0, "soft", "NEUTRAL"),
            s.asn = "mixed" /\ s.provider = "mixed")

KeywordReasons(s) ==
  Only(Reason("keyword_home", "generic_keyword", Settings.ptr_home_penalty, "soft", "HOME"),
       "HOME" \in s.keywords)
  \cup Only(Reason("keyword_mobile", "generic_keyword", Settings.mobile_kw_bonus, "soft", "MOBILE"),
            "MOBILE" \in s.keywords)

(* ChurnAnalyzer.get_mobility_score *)
ChurnBonus(rate) ==
  CASE rate >= Settings.churn_mobile_threshold -> Settings.score_churn_high_bonus
    [] rate >= 2                               -> Settings.score_churn_medium_bonus
    [] OTHER                                   -> 0

(* SubnetIntelligence.get_subnet_bonus: evidence counts the subnet's verdicts *)
SubnetBonus(evidence) ==
  CASE evidence["MOBILE"] >= Settings.subnet_mobile_min_evidence ->
         Settings.score_subnet_mobile_bonus
    [] evidence["MOBILE"] < Settings.subnet_mobile_min_evidence
         /\ Settings.score_subnet_home_penalty < 0
         /\ evidence["HOME"] >= Settings.subnet_home_min_evidence ->
         Settings.score_subnet_home_penalty
    [] OTHER -> 0

(* BehavioralEngine.analyze, run when the event carries a uuid and a tag *)
BehaviorReasons(s, tagged, evidence) ==
  LET churn == ChurnBonus(s.churn)
      subnet == SubnetBonus(evidence)
      Behavior(code, weight) ==
        Reason(code, "behavior", weight, "soft", IF weight > 0 THEN "MOBILE" ELSE "HOME")
  IN IF ~tagged THEN {}
     ELSE Only(Behavior("behavior_churn", churn), churn > 0)
          \cup Only(Behavior("behavior_history_mobile", Settings.history_mobile_bonus), s.rotating)
          \cup Only(Behavior("behavior_history_home", Settings.history_home_penalty), s.stable)
          \cup Only(Behavior("behavior_lifetime", Settings.score_stationary_penalty), s.stationary)
          \cup Only(Behavior("behavior_subnet", subnet), subnet # 0)

(* _apply_promoted_learning_reason: patterns are promoted at a precision   *)
(* of 0.9 or more, so the clamp leaves the largest weight of the kind.       *)
LearnedWeight ==
  [combo |-> 8, provider_service |-> 7, provider |-> 6, asn |-> 6]

LearningCode ==
  [combo |-> "learning_combo", provider_service |-> "learning_provider_service",
   provider |-> "learning_provider", asn |-> "learning_asn"]

\* The kinds of pattern this signal has a key for, most specific first.
PatternKeys(s) ==
  (IF s.keywords # {} THEN <<"combo">> ELSE <<>>)
  \o (IF ServiceHint(s) # "unknown" THEN <<"provider_service">> ELSE <<>>)
  \o (IF s.provider # "none" THEN <<"provider">> ELSE <<>>)
  \o <<"asn">>

LearningReasons(s) ==
  LET keys == PatternKeys(s)
      promoted == {i \in DOMAIN keys : s.learned[keys[i]] \in Directions}
      Signed(direction, weight) == IF direction = "HOME" THEN -weight ELSE weight
      Learned(code, direction, weight) ==
        {Reason(code, "learning", Signed(direction, weight), "soft", direction)}
      winner == IF s.legacy["MOBILE"] > s.legacy["HOME"] THEN "MOBILE" ELSE "HOME"
      capped == IF s.legacy[winner] < 4 THEN s.legacy[winner] ELSE 4
  IN CASE s.asn = "none" -> {}
       [] s.asn # "none" /\ promoted # {} ->
            LET kind == keys[Min(promoted)]
            IN Learned(LearningCode[kind], s.learned[kind], LearnedWeight[kind])
       [] OTHER -> IF s.legacy["MOBILE"] # s.legacy["HOME"] /\ s.legacy[winner] >= 3
                     THEN Learned("legacy_learning_asn", winner, capped)
                     ELSE {}

-----------------------------------------------------------------------------
(* From a score to a decision *)

Outcome(verdict, band) == [verdict |-> verdict, band |-> band]

(* _derive_score_outcome, and the same cascade in _analyze_event *)
Derived(score) ==
  CASE score >= Settings.threshold_mobile          -> Outcome("MOBILE", "HIGH_MOBILE")
    [] score < Settings.threshold_mobile
         /\ score >= Settings.threshold_probable_mobile -> Outcome("MOBILE", "PROBABLE_MOBILE")
    [] score <= -Settings.threshold_probable_home  -> Outcome("HOME", "HIGH_HOME")
    [] score > -Settings.threshold_probable_home
         /\ score <= -Settings.threshold_home      -> Outcome("HOME", "PROBABLE_HOME")
    [] OTHER                                       -> Outcome("UNSURE", "UNSURE")

(* _apply_provider_guardrail: whether automation is blocked *)
Guarded(s, reasons, verdict, rules) ==
  LET hint == ServiceHint(s)
      Support(direction) ==
        SourcesFor(reasons, direction) \ {"provider_profile", "generic_keyword"}
      direction == IF hint = "home" THEN "HOME" ELSE "MOBILE"
  IN /\ s.provider = "mixed" /\ rules.reviewOnly
     /\ CASE hint = "conflict" -> TRUE
          [] hint = "unknown"  ->
               ~ (/\ verdict = "MOBILE"
                  /\ "behavior" \in Support("MOBILE")
                  /\ Cardinality(Support("MOBILE")) >= 2)
          [] OTHER -> (verdict \in Directions /\ verdict # direction)
                      \/ Support(direction) = {}

(* derive_punitive_eligibility *)
Eligible(b) ==
  /\ ~b.blocked
  /\ b.verdict = "HOME" /\ b.band = "HIGH_HOME"
  /\ \/ \E r \in b.reasons : r.kind = "hard" /\ r.direction = "HOME"
     \/ Cardinality(SourcesFor(b.reasons, "HOME")) >= 2

\* Mutant: a confident HOME is enough, whatever the rule says.
PunitiveByBand(b, rules) == b.verdict = "HOME" /\ b.band = "HIGH_HOME"

(* The choice _finalize_bundle and _analyze_event make from the rule         *)
(* auto_enforce_requires_hard_or_multi_signal                                *)
Punitive(b, rules) ==
  IF rules.strict THEN Eligible(b) ELSE b.verdict = "HOME" /\ b.band = "HIGH_HOME"

(* _finalize_bundle *)
Bundle(source, outcome, score, reasons, blocked, rules) ==
  LET b == [source |-> source, verdict |-> outcome.verdict, band |-> outcome.band,
            score |-> score, reasons |-> reasons, blocked |-> blocked,
            punitive |-> FALSE]
  IN [b EXCEPT !.punitive = Punitive(b, rules)]

(* A manual override ends the evaluation: its reason weighs nothing.         *)
Overridden(decision, rules) ==
  LET reason == Reason("manual_override", "manual_override", 0, "hard",
                       IF decision \in Directions THEN decision ELSE "NEUTRAL")
      outcome == CASE decision = "MOBILE" -> Outcome("MOBILE", "HIGH_MOBILE")
                   [] decision = "HOME"   -> Outcome("HOME", "HIGH_HOME")
                   [] OTHER               -> Outcome("SKIP", "SKIP")
  IN Bundle("manual_override", outcome, 0, {reason}, FALSE, rules)

(* The end of evaluate_mobile_network *)
Concluded(s, reasons, outcome, rules) ==
  Bundle("rule_engine", outcome, Score(reasons), reasons,
         Guarded(s, reasons, outcome.verdict, rules), rules)

\* Mutant: a datacenter or a pure HOME ASN only adds its penalty.
WeighedWithoutReturn(s, tagged, evidence, immune, rules) ==
  LET reasons == ProviderReasons(s) \cup AsnReasons(s) \cup KeywordReasons(s)
                 \cup BehaviorReasons(s, tagged, evidence) \cup LearningReasons(s)
                 \cup Only(Datacenter, s.datacenter) \cup Only(PureHome, s.asn = "pure_home")
  IN Concluded(s, reasons, Derived(Score(reasons)), rules)

(* evaluate_mobile_network without an override *)
Weighed(s, tagged, evidence, immune, rules) ==
  LET blockers == ProviderReasons(s)
                  \cup IF s.datacenter THEN {Datacenter}
                       ELSE Only(PureHome, s.asn = "pure_home")
      weighed == ProviderReasons(s) \cup AsnReasons(s) \cup KeywordReasons(s)
                 \cup BehaviorReasons(s, tagged, evidence) \cup LearningReasons(s)
      score == Score(weighed)
      spared == tagged /\ immune /\ score < Settings.threshold_mobile
      outcome == IF spared THEN Outcome("UNSURE", "UNSURE") ELSE Derived(score)
      reasons == weighed \cup Only(Reason("cgnat_immunity", "concurrency", 0, "soft", "NEUTRAL"),
                                   spared)
  IN IF s.datacenter \/ s.asn = "pure_home"
       THEN Bundle("rule_engine", Outcome("HOME", "HIGH_HOME"), Score(blockers),
                   blockers, FALSE, rules)
       ELSE Concluded(s, reasons, outcome, rules)

(* The HWID part of _analyze_event, once the user's devices are known: the   *)
(* verdict is derived again from the changed score.                          *)
HwidChecked(b, known, rules) ==
  LET reason == IF known
                  THEN {Reason("hwid_match_bonus", "hwid_check",
                               Settings.hwid_match_bonus, "soft", "MOBILE")}
                  ELSE Only(Reason("sharing_hwid_limit_exceeded", "hwid_check",
                                   Settings.hwid_sharing_penalty, "hard", "HOME"),
                            b.verdict # "MOBILE")
      score == b.score + Score(reason)
  IN Bundle(b.source, Derived(score), score, b.reasons \cup reason, b.blocked, rules)

(* stationary_home_auto_resolved *)
StationaryHome(b) ==
  /\ ~b.blocked /\ b.verdict = "HOME" /\ b.band = "HIGH_HOME"
  /\ {"behavior_history_home", "behavior_lifetime"} \subseteq {r.code : r \in b.reasons}
  /\ SourcesFor(b.reasons, "MOBILE") = {}
  /\ \A r \in b.reasons : r.code # "provider_conflict"

(* review_reason_for_bundle *)
ReviewReason(b) ==
  CASE b.blocked -> "provider_conflict"
    [] ~b.blocked /\ b.verdict = "UNSURE" -> "unsure"
    [] ~b.blocked /\ b.band = "PROBABLE_HOME" -> "probable_home"
    [] ~b.blocked /\ b.band = "HIGH_HOME" /\ (b.punitive \/ ~StationaryHome(b)) ->
         "home_requires_review"
    [] OTHER -> "none"
=============================================================================
