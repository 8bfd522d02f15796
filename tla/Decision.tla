------------------------------ MODULE Decision ------------------------------
(***************************************************************************)
(* The decisions the ingest workers take about one address, from the look   *)
(* for an override to the commit: what they share through the database is   *)
(* the override, the legacy pattern, the cached decision, the evidence of   *)
(* the subnet and the active trackers of the address.                      *)
(*                                                                         *)
(* A worker reads these one await at a time, scores the address under the   *)
(* rules its batch was loaded with, checks the device against Remnawave,    *)
(* and writes what it decided.  Administrators change overrides, the cache  *)
(* and the rules meanwhile.  The signal an analysis finds is any of         *)
(* Signals.  Claiming and retrying are in IngestQueue.                      *)
(***************************************************************************)
EXTENDS Scoring

CONSTANTS
  Workers,      \* events in hand at once
  Users,        \* Remnawave users seen at the address
  Devices,      \* client_device_id values
  Enrolled,     \* sets of devices a user may have registered at first
  NoDevice,     \* an event without one, or the panel disabled
  Histories,    \* what earlier events left in evidence and trackers
  Tags,         \* whether an event names an inbound tag
  Signals,      \* what an analysis may find
  RuleSets,     \* values of [strict, reviewOnly] an administrator sets
  AdminOps,     \* the administrator actions in use
  MaxEvidence,  \* bound: the counters of the subnet evidence stop here
  MaxEvents,    \* bound: events in all
  MaxAdmin      \* bound: administrator actions and expiries

ASSUME DecisionAssumption ==
  /\ NoDevice \notin Devices /\ Tags \subseteq BOOLEAN
  /\ Enrolled \subseteq SUBSET Devices
  /\ RuleSets \subseteq [strict : BOOLEAN, reviewOnly : BOOLEAN]
  /\ MaxEvidence \in Nat /\ MaxEvents \in Nat /\ MaxAdmin \in Nat

VARIABLES
  override,    \* the exact_ip_overrides row: its decision, and whether it expired
  pattern,     \* the unsure_patterns row: its decision
  cache,       \* the ip_decisions row
  evidence,    \* the subnet_evidence row
  trackers,    \* users with a recent row in active_trackers for the address
  registered,  \* Remnawave: the HWID devices of each user
  rules,       \* the live rules
  worker,      \* what each worker is doing
  events,      \* events begun
  adminOps     \* administrator actions and expiries so far

vars == <<override, pattern, cache, evidence, trackers, registered, rules,
          worker, events, adminOps>>
stores == <<override, pattern, cache, evidence, trackers>>

Absent == "absent"
Decisions == {"MOBILE", "HOME", "SKIP"}
NoBundle == [verdict |-> "undecided"]
NoRules == [strict |-> TRUE, reviewOnly |-> TRUE]
NoRow == [present |-> FALSE, expired |-> FALSE, status |-> Absent, bundle |-> NoBundle,
          under |-> NoRules]

\* For the properties, "began" and "touched" remember the override in force
\* when the event began and whether one was set or removed since, and "under"
\* the rules under which the decision in hand, or in the cache, was scored.
Idle == [pc |-> "idle", began |-> Absent, touched |-> FALSE, user |-> Absent,
         device |-> NoDevice, tagged |-> FALSE, rules |-> NoRules, live |-> FALSE,
         signal |-> NoSignal, bundle |-> NoBundle, under |-> NoRules]

Init ==
  /\ override = [decision |-> Absent, expired |-> FALSE]
  /\ pattern = Absent
  /\ cache = NoRow
  /\ \E h \in Histories : evidence = h.evidence /\ trackers = h.trackers
  /\ registered \in [Users -> Enrolled]
  /\ rules \in RuleSets
  /\ worker = [w \in Workers |-> Idle]
  /\ events = 0 /\ adminOps = 0

-----------------------------------------------------------------------------
(* The ingest worker *)

(* get_ip_override *)
InForce == IF override.expired THEN Absent ELSE override.decision

Standing == IF InForce # Absent THEN InForce ELSE pattern

Move(w, from, changes) ==
  /\ worker[w].pc = from
  /\ worker' = [worker EXCEPT ![w] = changes]

(* _process_claimed_event, after the user was resolved; the rules are those  *)
(* of the batch.                                                            *)
Begin(w, u, d, t) ==
  /\ events < MaxEvents
  /\ events' = events + 1
  /\ Move(w, "idle", [Idle EXCEPT !.pc = "override", !.user = u, !.device = d,
                                  !.tagged = t, !.rules = rules, !.began = Standing])
  /\ UNCHANGED <<stores, registered, rules, adminOps>>

workerFrame == <<stores, registered, rules, events, adminOps>>

ReadOverride(w) ==
  /\ Move(w, "override",
          [worker[w] EXCEPT !.pc = IF InForce # Absent THEN "evaluate" ELSE "pattern"])
  /\ UNCHANGED workerFrame

ReadPattern(w) ==
  /\ Move(w, "pattern",
          [worker[w] EXCEPT !.pc = IF pattern # Absent THEN "evaluate" ELSE "cache"])
  /\ UNCHANGED workerFrame

(* get_cached_decision and DecisionBundle.from_cache_record: the structured  *)
(* bundle counts, not the columns beside it.                                *)
ReadCache(w) ==
  /\ Move(w, "cache",
          IF cache.present /\ ~cache.expired
            THEN [worker[w] EXCEPT !.pc = "commit", !.bundle = cache.bundle,
                                   !.under = cache.under]
            ELSE [worker[w] EXCEPT !.pc = "evaluate"])
  /\ UNCHANGED workerFrame

Immune == Cardinality(trackers) >= Settings.concurrency_threshold

\* Mutant: the analysis knows the override of the address but no pattern.
EvaluateWithoutPattern(w, s) ==
  LET b == IF InForce # Absent THEN Overridden(InForce, worker[w].rules)
           ELSE Weighed(s, worker[w].tagged, evidence, Immune, worker[w].rules)
  IN /\ Move(w, "evaluate",
             [worker[w] EXCEPT !.pc = IF worker[w].device = NoDevice
                                        THEN "commit" ELSE "devices",
                               !.live = TRUE, !.signal = s, !.bundle = b,
                               !.under = worker[w].rules])
     /\ UNCHANGED workerFrame

(* _analyze_event up to the HWID check *)
Evaluate(w, s) ==
  LET b == IF Standing # Absent THEN Overridden(Standing, worker[w].rules)
           ELSE Weighed(s, worker[w].tagged, evidence, Immune, worker[w].rules)
  IN /\ Move(w, "evaluate",
             [worker[w] EXCEPT !.pc = IF worker[w].device = NoDevice
                                        THEN "commit" ELSE "devices",
                               !.live = TRUE, !.signal = s, !.bundle = b,
                               !.under = worker[w].rules])
     /\ UNCHANGED workerFrame

Checked(w, known) ==
  [worker[w] EXCEPT !.pc = "commit",
                    !.bundle = HwidChecked(@, known, worker[w].rules)]

(* get_user_hwid_devices: a failed request answers with an empty list, which *)
(* the client then keeps for 30 seconds.                                    *)
LookUpDevices(w, answered) ==
  LET devices == IF answered THEN registered[worker[w].user] ELSE {}
  IN /\ Move(w, "devices",
             IF devices # {} THEN Checked(w, worker[w].device \in devices)
                             ELSE [worker[w] EXCEPT !.pc = "register"])
     /\ UNCHANGED workerFrame

(* create_hwid_device, when the lookup returned no device *)
RegisterDevice(w) ==
  /\ Move(w, "register", Checked(w, TRUE))
  /\ registered' = [registered EXCEPT ![worker[w].user] = @ \cup {worker[w].device}]
  /\ UNCHANGED <<stores, rules, events, adminOps>>

RegisterFails(w) ==
  /\ Move(w, "register", [worker[w] EXCEPT !.pc = "commit"])
  /\ UNCHANGED workerFrame

Counted(verdict) ==
  [d \in Directions |-> IF d = verdict /\ evidence[d] < MaxEvidence
                          THEN evidence[d] + 1 ELSE evidence[d]]

(* The transaction of _process_claimed_event: the cache row of a live        *)
(* analysis, and _persist_behavior_state_tx.                                *)
Commit(w) ==
  LET b == worker[w].bundle
      counts == worker[w].tagged /\ b.source # "manual_override"
  IN /\ Move(w, "commit", Idle)
     /\ cache' = IF worker[w].live
                   THEN [present |-> TRUE, expired |-> FALSE, status |-> b.verdict,
                         bundle |-> b, under |-> worker[w].under]
                   ELSE cache
     /\ trackers' = IF counts THEN trackers \cup {worker[w].user} ELSE trackers
     /\ evidence' = IF counts THEN Counted(b.verdict) ELSE evidence
     /\ UNCHANGED <<override, pattern, registered, rules, events, adminOps>>

(* The batch ends early: the task is cancelled, or the event fails.          *)
Fail(w) ==
  /\ worker[w].pc # "idle"
  /\ worker' = [worker EXCEPT ![w] = Idle]
  /\ UNCHANGED workerFrame

WorkerStep(w) ==
  \/ \E u \in Users, d \in Devices \cup {NoDevice}, t \in Tags : Begin(w, u, d, t)
  \/ ReadOverride(w) \/ ReadPattern(w) \/ ReadCache(w)
  \/ \E s \in Signals : Evaluate(w, s)
  \/ \E answered \in BOOLEAN : LookUpDevices(w, answered)
  \/ RegisterDevice(w) \/ RegisterFails(w)
  \/ Commit(w) \/ Fail(w)

-----------------------------------------------------------------------------
(* Administrators, and time *)

Administer(op) ==
  /\ op \in AdminOps
  /\ adminOps < MaxAdmin
  /\ adminOps' = adminOps + 1

\* The events in hand are marked: the standing override changed under them.
Touched == [w \in Workers |-> [worker[w] EXCEPT !.touched = worker[w].pc # "idle"]]

overrideFrame == <<cache, evidence, trackers, registered, rules, events>>

(* set_ip_override; resolve_review_case writes the same row *)
SetOverride(decision) ==
  /\ Administer("override")
  /\ override' = [decision |-> decision, expired |-> FALSE]
  /\ worker' = Touched
  /\ UNCHANGED <<pattern, overrideFrame>>

(* delete_exact_override *)
DeleteOverride ==
  /\ Administer("override") /\ override.decision # Absent
  /\ override' = [decision |-> Absent, expired |-> FALSE]
  /\ worker' = Touched
  /\ UNCHANGED <<pattern, overrideFrame>>

(* expires_at passes; the row stays until maintenance removes it *)
OverrideExpires ==
  /\ Administer("override") /\ InForce # Absent
  /\ override' = [override EXCEPT !.expired = TRUE]
  /\ worker' = Touched
  /\ UNCHANGED <<pattern, overrideFrame>>

(* upsert_unsure_override, delete_unsure_override *)
SetPattern(decision) ==
  /\ Administer("pattern") /\ pattern # decision
  /\ pattern' = decision
  /\ worker' = Touched
  /\ UNCHANGED <<override, overrideFrame>>

cacheFrame == <<override, pattern, evidence, trackers, registered, rules, worker, events>>

(* The three days pass, delete_cache, or run_db_maintenance *)
CacheExpires ==
  /\ Administer("cache") /\ cache.present /\ ~cache.expired
  /\ cache' = [cache EXCEPT !.expired = TRUE]
  /\ UNCHANGED cacheFrame

DeleteCache ==
  /\ Administer("cache") /\ cache.present
  /\ cache' = NoRow
  /\ UNCHANGED cacheFrame

(* patch_cache writes the columns the administrator names *)
PatchCache(verdict) ==
  /\ Administer("patch") /\ cache.present
  /\ cache' = [cache EXCEPT !.status = verdict]
  /\ UNCHANGED cacheFrame

(* update_live_rules *)
ReviseRules(revised) ==
  /\ Administer("rules") /\ rules # revised
  /\ rules' = revised
  /\ UNCHANGED <<stores, registered, worker, events>>

TrackersAge ==
  /\ Administer("trackers") /\ trackers # {}
  /\ trackers' = {}
  /\ UNCHANGED <<override, pattern, cache, evidence, registered, rules, worker, events>>

AdminStep ==
  \/ \E decision \in Decisions : SetOverride(decision)
  \/ DeleteOverride \/ OverrideExpires
  \/ \E decision \in Decisions \cup {Absent} : SetPattern(decision)
  \/ CacheExpires \/ DeleteCache
  \/ \E verdict \in Directions : PatchCache(verdict)
  \/ \E revised \in RuleSets : ReviseRules(revised)
  \/ TrackersAge

Next == (\E w \in Workers : WorkerStep(w)) \/ AdminStep

Spec == Init /\ [][Next]_vars

-----------------------------------------------------------------------------
(* Properties *)

Outcomes == [verdict : Decisions \cup {"UNSURE"},
             band : {"HIGH_MOBILE", "PROBABLE_MOBILE", "HIGH_HOME", "PROBABLE_HOME",
                     "UNSURE", "SKIP"}]

IsBundle(b) ==
  /\ b # NoBundle
  /\ Outcome(b.verdict, b.band) \in Outcomes
  /\ b.score \in Int /\ {b.blocked, b.punitive} \subseteq BOOLEAN

(* Type invariant: every event that reaches its commit has a decision with a *)
(* verdict and a band of the program, and so has every cache row.            *)
TypeOK ==
  /\ override \in [decision : Decisions \cup {Absent}, expired : BOOLEAN]
  /\ pattern \in Decisions \cup {Absent}
  /\ cache.present => IsBundle(cache.bundle)
  /\ evidence \in [Directions -> 0 .. MaxEvidence]
  /\ trackers \subseteq Users
  /\ registered \in [Users -> SUBSET Devices]
  /\ rules \in RuleSets
  /\ \A w \in Workers :
       /\ worker[w].pc \in {"idle", "override", "pattern", "cache", "evaluate",
                            "devices", "register", "commit"}
       /\ worker[w].pc = "commit" => IsBundle(worker[w].bundle)

Decided(w) == worker[w].pc = "commit"

(* Without a device to check, an event begun while an override or pattern    *)
(* was standing, and during which none was set, removed or expired, is       *)
(* decided by it and never by the cache; and a live decision is forced only  *)
(* then.  Five reads in three functions have to agree for this.              *)
OverrideDecides ==
  \A w \in DOMAIN worker :
    Decided(w) /\ ~worker[w].touched /\ worker[w].device = NoDevice =>
      /\ worker[w].began # Absent =>
           /\ worker[w].live /\ worker[w].bundle.source = "manual_override"
           /\ worker[w].bundle.verdict = worker[w].began
      /\ worker[w].began = Absent /\ worker[w].live =>
           worker[w].bundle.source = "rule_engine"

LiveScore(w) ==
  Decided(w) /\ worker[w].live /\ worker[w].bundle.source = "rule_engine"

(* A datacenter or pure HOME network is decided HOME with high confidence    *)
(* whatever else speaks for it, the bonus of a recognised device included.   *)
(* docs/scoring-decision-semantics.md: hard HOME blockers win immediately.   *)
HardBlockersHold ==
  \A w \in DOMAIN worker :
    LiveScore(w) /\ (worker[w].signal.datacenter \/ worker[w].signal.asn = "pure_home")
      => worker[w].bundle.verdict = "HOME" /\ worker[w].bundle.band = "HIGH_HOME"

\* The signals with one more piece of evidence for a mobile network.
MoreMobile(s) ==
  {[s EXCEPT !.keywords = @ \cup {"MOBILE"}], [s EXCEPT !.rotating = TRUE],
   [s EXCEPT !.churn = @ + 1]}
  \cup {[s EXCEPT !.learned[kind] = "MOBILE"] : kind \in PatternKinds}
  \cup IF s.provider = "none" THEN {} ELSE {[s EXCEPT !.markers = @ \cup {"MOBILE"}]}

(* More evidence for a mobile network never makes a decision punitive: a     *)
(* keyword or marker also changes which learned pattern counts and what the  *)
(* guardrail sees, and neither may outweigh it.                              *)
MobileEvidenceNeverConvicts ==
  \A w \in DOMAIN worker :
    worker[w].pc = "devices" /\ worker[w].bundle.source = "rule_engine" =>
      \A s \in MoreMobile(worker[w].signal) :
        Weighed(s, worker[w].tagged, evidence, Immune, worker[w].rules).punitive
          => worker[w].bundle.punitive

(* docs/scoring-decision-semantics.md: a blocked guardrail says that the     *)
(* verdict may exist, but automation must not act on it.  The code keeps to  *)
(* this under the strict rule only.                                          *)
GuardrailBlocks ==
  \A w \in DOMAIN worker : Decided(w) /\ worker[w].bundle.blocked => ~worker[w].bundle.punitive

(* en.ts, auto_enforce_requires_hard_or_multi_signal: automatic sanctions    *)
(* are allowed only for strong or multi-signal HOME cases.  Owners switch    *)
(* the rule on and off: a decision that does not keep to it, made by an      *)
(* event or taken from the cache, was scored by an event that began while    *)
(* it was off.  No rescoring after the device check, no row of the cache and *)
(* no edit of it makes one out of a decision scored while it was on.         *)
StrictRulesProtect ==
  \A w \in DOMAIN worker :
    Decided(w) /\ worker[w].bundle.punitive /\ ~Eligible(worker[w].bundle)
      => ~worker[w].under.strict

(* A punitive decision always opens a case for a moderator, whichever rule   *)
(* made it so (review_reason_for_bundle and the analysis judge apart).       *)
SanctionsAreReviewed ==
  \A w \in DOMAIN worker :
    Decided(w) /\ worker[w].bundle.source = "rule_engine" /\ worker[w].bundle.punitive
      => ReviewReason(worker[w].bundle) # "none"

(* A decision is punitive only with the evidence that the rules it was       *)
(* scored under ask for and with a case to review it, and no evidence        *)
(* against it can have made it so.                                           *)
SanctionsAreEarned ==
  /\ MobileEvidenceNeverConvicts
  /\ StrictRulesProtect
  /\ SanctionsAreReviewed
=============================================================================
