---------------------------- MODULE ReviewCases ----------------------------
(***************************************************************************)
(* The review queue of the panel and what it learns from its moderators:    *)
(* review_cases, review_resolutions, review_labels, exact_ip_overrides,     *)
(* learning_patterns_active and ai_learning_suggestions.                    *)
(*                                                                         *)
(* An ingest worker looks for the case of an event's scope and, after it    *)
(* has built the usage profile, re-opens what it found or inserts a case.   *)
(* On PostgreSQL nothing keeps another worker out meanwhile: BEGIN          *)
(* IMMEDIATE is no statement there and no index holds a scope to one case.  *)
(* Moderators, auto-resolution and rechecks close cases; each reads the     *)
(* case before the transaction that writes it.  A HOME or MOBILE resolution *)
(* sets the override of the address and labels the event's pattern; the     *)
(* promotion of labels to active patterns reads the labels before its own   *)
(* transaction.                                                             *)
(*                                                                         *)
(* The statements that one transaction writes are one step.  Case details   *)
(* that no decision here reads (repeat counter, usage profile, inventories, *)
(* priority) are left out; an event carries one pattern.                    *)
(***************************************************************************)
EXTENDS Naturals, Sequences, FiniteSets

CONSTANTS
  Scopes,         \* case_scope_key values: a device or an account on one address
  Addresses,      \* IP addresses
  AddressOf,      \* the address of a scope
  Patterns,       \* values of one pattern type (ASN, provider, keyword, ...)
  Workers,        \* ingest workers
  Agents,         \* requests and tasks that resolve, recheck or accept
  MinSupport,     \* learning_promote_*_min_support
  MinPrecision,   \* learning_promote_*_min_precision, in percent
  AdminOps,       \* what else happens: subset of {"override", "purge", "audit", "recheck"}
  MaxEvents,      \* bound: analysis events
  MaxResolutions, \* bound: resolutions
  MaxSuggestions, \* bound: suggestions of the AI auditor
  MaxAdmin        \* bound: override edits, purges, rewordings and suggestion decisions

Verdicts == {"HOME", "MOBILE"}
Resolutions == Verdicts \cup {"SKIP"}

ASSUME ReviewAssumption ==
  /\ AddressOf \in [Scopes -> Addresses]
  /\ MinSupport \in Nat
  /\ MinPrecision \in Nat
  /\ MaxEvents \in Nat
  /\ MaxResolutions \in Nat
  /\ MaxSuggestions \in Nat
  /\ MaxAdmin \in Nat

VARIABLES
  events,         \* analysis_events, in id order
  cases,          \* review_cases, in id order
  resolutions,    \* review_resolutions, in id order
  labels,         \* review_labels
  override,       \* exact_ip_overrides
  active,         \* learning_patterns_active
  suggestions,    \* ai_learning_suggestions, in id order
  worker,         \* the event each ingest worker files and the case it found
  agent,          \* what each agent is doing and what it has read
  adminOps        \* how much of MaxAdmin is used

vars == <<events, cases, resolutions, labels, override, active, suggestions,
          worker, agent, adminOps>>

None == [decision |-> "none", source |-> "none"]
Override == {None} \cup [decision : Verdicts, source : {"manual", "review"}]

Event == [scope : Scopes, pattern : Patterns, asked : BOOLEAN]

\* A deleted row keeps its id: AUTOINCREMENT never reuses one.  Ghost "after":
\* how many cases there were when the worker that inserted it had looked.
Case == [scope : Scopes, latest : Nat, after : Nat,
         status : {"OPEN", "RESOLVED", "SKIPPED", "purged"}]
Closed == {"RESOLVED", "SKIPPED"}

Resolution == [case : Nat, event : Nat, decision : Resolutions \cup {"deleted"}]

Label == [case : Nat, pattern : Patterns, decision : Verdicts]

Suggestion == [pattern : Patterns, decision : Verdicts,
               status : {"PENDING", "ACCEPTED", "REJECTED", "deleted"}]

Idle == [step |-> "idle"]

Init ==
  /\ events = <<>>
  /\ cases = <<>>
  /\ resolutions = <<>>
  /\ labels = {}
  /\ override = [ip \in Addresses |-> None]
  /\ active = [p \in Patterns |-> None]
  /\ suggestions = <<>>
  /\ worker = [w \in Workers |-> Idle]
  /\ agent = [a \in Agents |-> Idle]
  /\ adminOps = 0

-----------------------------------------------------------------------------
(* Reads and writes of the tables *)

\* Mutant: looks for an open case only.
LiveIfOpen(s) == {c \in DOMAIN cases : cases[c].scope = s /\ cases[c].status = "OPEN"}

Live(s) == {c \in DOMAIN cases : cases[c].scope = s /\ cases[c].status # "purged"}

Exists(c) == cases[c].status # "purged"

\* An UPDATE of a case that maintenance has deleted matches no row.
Put(c, latest, status) ==
  IF Exists(c) THEN [cases EXCEPT ![c].latest = latest, ![c].status = status]
  ELSE cases

StatusAfter(d) == IF d = "SKIP" THEN "SKIPPED" ELSE "RESOLVED"

\* Mutant: INSERT OR IGNORE: an override that is there stays.
OverriddenIfAbsent(ip, d) ==
  IF d # "SKIP" /\ override[ip] = None
    THEN [override EXCEPT ![ip] = [decision |-> d, source |-> "review"]]
  ELSE IF d = "SKIP" /\ override[ip].source = "review" THEN [override EXCEPT ![ip] = None]
  ELSE override

\* INSERT ... ON CONFLICT DO UPDATE; a SKIP deletes what a review had set.
Overridden(ip, d) ==
  IF d # "SKIP" THEN [override EXCEPT ![ip] = [decision |-> d, source |-> "review"]]
  ELSE IF override[ip].source = "review" THEN [override EXCEPT ![ip] = None]
  ELSE override

\* Mutant: a SKIP forgets to withdraw the labels.
LabelledForGood(c, pattern, d) ==
  IF d = "SKIP" THEN labels
  ELSE labels \cup {[case |-> c, pattern |-> pattern, decision |-> d]}

\* _record_labels_for_resolution, INSERT OR IGNORE; a SKIP deletes the case's labels.
Labelled(c, pattern, d) ==
  IF d = "SKIP" THEN {l \in labels : l.case # c}
  ELSE labels \cup {[case |-> c, pattern |-> pattern, decision |-> d]}

Votes(L, p, d) == Cardinality({l \in L : l.pattern = p /\ l.decision = d})

\* The decision the labels L support for a pattern; a tie supports none.
Supported(L, p) ==
  {d \in Verdicts :
     LET support == Votes(L, p, d)
         total == Cardinality({l \in L : l.pattern = p})
     IN /\ \A other \in Verdicts \ {d} : support > Votes(L, p, other)
        /\ support >= MinSupport
        /\ 100 * support >= MinPrecision * total}

Accepted(p) ==
  {i \in DOMAIN suggestions :
     suggestions[i].pattern = p /\ suggestions[i].status = "ACCEPTED"}

\* Mutant: without the restore.
PromotedFromLabels(L) ==
  [p \in Patterns |->
     IF Supported(L, p) # {}
       THEN [decision |-> CHOOSE d \in Supported(L, p) : TRUE, source |-> "labels"]
     ELSE None]

\* Accepted suggestions are restored over what the labels say.
Promoted(L) ==
  [p \in Patterns |->
     IF Accepted(p) # {}
       THEN [decision |-> suggestions[CHOOSE i \in Accepted(p) : TRUE].decision, source |-> "ai"]
     ELSE IF Supported(L, p) # {}
       THEN [decision |-> CHOOSE d \in Supported(L, p) : TRUE, source |-> "labels"]
     ELSE None]

\* Writes of a resolution of case c on the evidence of event e.
Resolve(c, e, d) ==
  /\ resolutions' = Append(resolutions, [case |-> c, event |-> e, decision |-> d])
  /\ override' = Overridden(AddressOf[events[e].scope], d)
  /\ labels' = Labelled(c, events[e].pattern, d)

Becomes(a, state) == agent' = [agent EXCEPT ![a] = state]

-----------------------------------------------------------------------------
(* The ingest workers *)

\* The bound on events counts those still in a worker's transaction.
MayFile == Len(events) + Cardinality({w \in Workers : worker[w].step = "file"}) < MaxEvents

WorkerBecomes(w, state) == worker' = [worker EXCEPT ![w] = state]

\* The SELECT found no row.
NoCase == 0

\* SELECT of the scope's cases.  The one updated last is taken; which of
\* several that is, is left open.
IngestRead(w, s, p) ==
  /\ worker[w].step = "idle"
  /\ MayFile
  /\ \E c \in IF Live(s) = {} THEN {NoCase} ELSE Live(s) :
       WorkerBecomes(w, [step |-> "file", scope |-> s, pattern |-> p,
                         found |-> c, after |-> Len(cases)])
  /\ UNCHANGED <<events, cases, resolutions, labels, override, active, suggestions,
                 agent, adminOps>>

\* UPDATE of the case found, by id, or INSERT; the event is there on commit.
IngestWrite(w) ==
  /\ worker[w].step = "file"
  /\ LET m == worker[w]
         e == Len(events) + 1
     IN /\ events' = Append(events, [scope |-> m.scope, pattern |-> m.pattern, asked |-> TRUE])
        /\ cases' = IF m.found = NoCase
                    THEN Append(cases, [scope |-> m.scope, latest |-> e,
                                        after |-> m.after, status |-> "OPEN"])
                    ELSE Put(m.found, e, "OPEN")
  /\ WorkerBecomes(w, Idle)
  /\ UNCHANGED <<resolutions, labels, override, active, suggestions, agent, adminOps>>

-----------------------------------------------------------------------------
(* Resolution: by a moderator, or by a task whose auto-resolution rule matched *)

\* SELECT of the case and its latest event; any status is accepted.
ResolveRead(a, c, d) ==
  /\ agent[a].step = "idle"
  /\ Exists(c)
  /\ Becomes(a, [step |-> "resolve", case |-> c, event |-> cases[c].latest, decision |-> d])
  /\ UNCHANGED <<events, cases, resolutions, labels, override, active,
                 suggestions, worker, adminOps>>

ResolveWrite(a) ==
  /\ agent[a].step = "resolve"
  /\ Len(resolutions) < MaxResolutions
  /\ LET c == agent[a].case
         d == agent[a].decision
     IN /\ cases' = Put(c, cases[c].latest, StatusAfter(d))
        /\ Resolve(c, agent[a].event, d)
        /\ Becomes(a, IF d = "SKIP" THEN Idle ELSE [step |-> "learn"])
  /\ UNCHANGED <<events, active, suggestions, worker, adminOps>>

\* promote_learning_patterns: the labels are read, then everything is replaced.
PromoteRead(a) ==
  /\ agent[a].step = "learn"
  /\ Becomes(a, [step |-> "promote", labels |-> labels])
  /\ UNCHANGED <<events, cases, resolutions, labels, override, active,
                 suggestions, worker, adminOps>>

PromoteWrite(a) ==
  /\ agent[a].step = "promote"
  /\ active' = Promoted(agent[a].labels)
  /\ Becomes(a, Idle)
  /\ UNCHANGED <<events, cases, resolutions, labels, override,
                 suggestions, worker, adminOps>>

-----------------------------------------------------------------------------
(* Recheck: analyse the case again under the current rules *)

\* A transaction of its own records the new analysis.  The case was listed as
\* OPEN, or named by the request, some time before: any status is possible now.
RecheckRecord(a, c, p) ==
  /\ "recheck" \in AdminOps
  /\ agent[a].step = "idle"
  /\ Exists(c)
  /\ MayFile
  /\ events' = Append(events, [scope |-> cases[c].scope, pattern |-> p, asked |-> FALSE])
  /\ Becomes(a, [step |-> "recheck", case |-> c, event |-> Len(events) + 1])
  /\ UNCHANGED <<cases, resolutions, labels, override, active,
                 suggestions, worker, adminOps>>

\* Mutant: closes the case and leaves no resolution.
RecheckClosesUnrecorded(a, d) ==
  /\ agent[a].step = "recheck"
  /\ cases' = Put(agent[a].case, agent[a].event, "RESOLVED")
  /\ Becomes(a, [step |-> "learn"])
  /\ UNCHANGED <<events, resolutions, labels, override, active,
                 suggestions, worker, adminOps>>

\* No review reason is left and the verdict is clear: the case is closed with it.
RecheckCloses(a, d) ==
  /\ agent[a].step = "recheck"
  /\ Len(resolutions) < MaxResolutions
  /\ LET c == agent[a].case
         e == agent[a].event
     IN /\ cases' = Put(c, e, "RESOLVED")
        /\ Resolve(c, e, d)
  /\ Becomes(a, [step |-> "learn"])
  /\ UNCHANGED <<events, active, suggestions, worker, adminOps>>

\* Otherwise it is put back into the queue, whatever happened to it meanwhile.
\* When an auto-resolution rule matches, ResolveRead follows.
RecheckKeeps(a) ==
  /\ agent[a].step = "recheck"
  /\ cases' = Put(agent[a].case, agent[a].event, "OPEN")
  /\ Becomes(a, Idle)
  /\ UNCHANGED <<events, resolutions, labels, override, active,
                 suggestions, worker, adminOps>>

-----------------------------------------------------------------------------
(* Suggestions of the AI auditor *)

Pending(p) ==
  {i \in DOMAIN suggestions :
     suggestions[i].pattern = p /\ suggestions[i].status = "PENDING"}

Suggest(p, d) ==
  /\ "audit" \in AdminOps
  /\ Pending(p) = {}
  /\ Len(suggestions) < MaxSuggestions
  /\ suggestions' = Append(suggestions, [pattern |-> p, decision |-> d, status |-> "PENDING"])
  /\ UNCHANGED <<events, cases, resolutions, labels, override, active,
                 worker, agent, adminOps>>

\* A pending suggestion is updated in place.
Reword(i, d) ==
  /\ adminOps < MaxAdmin
  /\ suggestions[i].status = "PENDING"
  /\ suggestions[i].decision # d
  /\ suggestions' = [suggestions EXCEPT ![i].decision = d]
  /\ adminOps' = adminOps + 1
  /\ UNCHANGED <<events, cases, resolutions, labels, override, active, worker, agent>>

\* accept_suggestion and reject_suggestion read the row before they write.
DecideRead(a, i, choice) ==
  /\ agent[a].step = "idle"
  /\ adminOps < MaxAdmin
  /\ suggestions[i].status = "PENDING"
  /\ Becomes(a, [step |-> choice, row |-> i, decision |-> suggestions[i].decision])
  /\ adminOps' = adminOps + 1
  /\ UNCHANGED <<events, cases, resolutions, labels, override,
                 active, suggestions, worker>>

\* DELETE the rows of that pattern and status, then UPDATE this one: a decision
\* taken twice deletes the row it was to update.
Settled(i, status) ==
  [j \in DOMAIN suggestions |->
     IF suggestions[j].pattern = suggestions[i].pattern /\ suggestions[j].status = status
       THEN [suggestions[j] EXCEPT !.status = "deleted"]
     ELSE IF j = i /\ suggestions[i].status # "deleted"
       THEN [suggestions[i] EXCEPT !.status = status]
     ELSE suggestions[j]]

\* The cases S are those the auditor calls operator errors.
Accept(a, S) ==
  /\ agent[a].step = "accept"
  /\ LET i == agent[a].row
     IN /\ suggestions' = Settled(i, "ACCEPTED")
        /\ active' = [active EXCEPT ![suggestions[i].pattern] =
                        [decision |-> agent[a].decision, source |-> "ai"]]
  /\ cases' = [c \in DOMAIN cases |->
                 IF c \in S /\ Exists(c) THEN [cases[c] EXCEPT !.status = "OPEN"]
                 ELSE cases[c]]
  /\ Becomes(a, Idle)
  /\ UNCHANGED <<events, resolutions, labels, override, worker, adminOps>>

Reject(a) ==
  /\ agent[a].step = "reject"
  /\ suggestions' = Settled(agent[a].row, "REJECTED")
  /\ Becomes(a, Idle)
  /\ UNCHANGED <<events, cases, resolutions, labels, override,
                 active, worker, adminOps>>

-----------------------------------------------------------------------------
(* Override edits, expiry and maintenance *)

SetOverride(ip, d) ==
  /\ "override" \in AdminOps /\ adminOps < MaxAdmin
  /\ override' = [override EXCEPT ![ip] = [decision |-> d, source |-> "manual"]]
  /\ adminOps' = adminOps + 1
  /\ UNCHANGED <<events, cases, resolutions, labels, active,
                 suggestions, worker, agent>>

\* Deleted by an administrator, or past its seven days.
DropOverride(ip) ==
  /\ "override" \in AdminOps /\ adminOps < MaxAdmin
  /\ override[ip] # None
  /\ override' = [override EXCEPT ![ip] = None]
  /\ adminOps' = adminOps + 1
  /\ UNCHANGED <<events, cases, resolutions, labels, active,
                 suggestions, worker, agent>>

\* Maintenance deletes old closed cases with their resolutions and labels.
Purge(c) ==
  /\ "purge" \in AdminOps /\ adminOps < MaxAdmin
  /\ cases[c].status \in Closed
  /\ cases' = [cases EXCEPT ![c].status = "purged"]
  /\ resolutions' = [i \in DOMAIN resolutions |->
                       IF resolutions[i].case = c
                         THEN [resolutions[i] EXCEPT !.decision = "deleted"]
                       ELSE resolutions[i]]
  /\ labels' = {l \in labels : l.case # c}
  /\ adminOps' = adminOps + 1
  /\ UNCHANGED <<events, override, active, suggestions, worker, agent>>

-----------------------------------------------------------------------------
AgentStep(a) ==
  \/ \E c \in DOMAIN cases : \E d \in Resolutions : ResolveRead(a, c, d)
  \/ ResolveWrite(a)
  \/ PromoteRead(a)
  \/ PromoteWrite(a)
  \/ \E c \in DOMAIN cases : \E p \in Patterns : RecheckRecord(a, c, p)
  \/ \E d \in Verdicts : RecheckCloses(a, d)
  \/ RecheckKeeps(a)
  \/ \E i \in DOMAIN suggestions : \E v \in {"accept", "reject"} : DecideRead(a, i, v)
  \/ \E S \in SUBSET DOMAIN cases : Accept(a, S)
  \/ Reject(a)

Next ==
  \/ \E w \in Workers : \E s \in Scopes : \E p \in Patterns : IngestRead(w, s, p)
  \/ \E w \in Workers : IngestWrite(w)
  \/ \E a \in Agents : AgentStep(a)
  \/ \E p \in Patterns : \E d \in Verdicts : Suggest(p, d)
  \/ \E i \in DOMAIN suggestions : \E d \in Verdicts : Reword(i, d)
  \/ \E ip \in Addresses : \E d \in Verdicts : SetOverride(ip, d)
  \/ \E ip \in Addresses : DropOverride(ip)
  \/ \E c \in DOMAIN cases : Purge(c)

Spec == Init /\ [][Next]_vars

-----------------------------------------------------------------------------
(* Properties *)

AgentState ==
  {Idle, [step |-> "learn"]}
  \cup [step : {"resolve"}, case : Nat, event : Nat, decision : Resolutions]
  \cup [step : {"promote"}, labels : SUBSET Label]
  \cup [step : {"recheck"}, case : Nat, event : Nat]
  \cup [step : {"accept", "reject"}, row : Nat, decision : Verdicts]

WorkerState ==
  {Idle} \cup [step : {"file"}, scope : Scopes, pattern : Patterns, found : Nat, after : Nat]

(* Every variable has its type. *)
TypeOK ==
  /\ events \in Seq(Event)
  /\ cases \in Seq(Case)
  /\ resolutions \in Seq(Resolution)
  /\ labels \subseteq Label
  /\ override \in [Addresses -> Override]
  /\ active \in [Patterns -> {None} \cup [decision : Verdicts, source : {"labels", "ai"}]]
  /\ suggestions \in Seq(Suggestion)
  /\ worker \in [Workers -> WorkerState]
  /\ agent \in [Agents -> AgentState]
  /\ adminOps \in Nat

\* The resolutions of a case, and of an address, still on record.
OnRecord == {i \in DOMAIN resolutions : resolutions[i].decision # "deleted"}
OfCase(c) == {i \in OnRecord : resolutions[i].case = c}
OfAddress(ip) == {i \in OnRecord : AddressOf[events[resolutions[i].event].scope] = ip}
IsLast(i, S) == i \in S /\ \A j \in S : j <= i

(* The evidence of one scope is split over two cases only by a race: the     *)
(* earlier case was inserted after the worker of the later one had looked    *)
(* for a case.  Workers that do not overlap gather it in one case, also one  *)
(* that a moderator has closed.                                              *)
SplitOnlyByRace ==
  \A c, d \in DOMAIN cases :
    c < d /\ Exists(c) /\ Exists(d) /\ cases[c].scope = cases[d].scope => cases[d].after < c

(* A case is closed only by a resolution on record, and its status is that   *)
(* of the last one, however moderators, rechecks, new events, re-opened      *)
(* operator errors and maintenance interleave.                               *)
ClosedAsJudged ==
  \A c \in DOMAIN cases : cases[c].status \in Closed =>
    \E i \in DOMAIN resolutions :
      /\ IsLast(i, OfCase(c))
      /\ cases[c].status = StatusAfter(resolutions[i].decision)

(* What the panel learns from was said by a resolution of that very case and *)
(* pattern, and was not withdrawn by a later SKIP.                           *)
LabelsFollowVerdicts ==
  \A l \in labels :
    \E i \in OfCase(l.case) :
      /\ resolutions[i].decision = l.decision
      /\ events[resolutions[i].event].pattern = l.pattern
      /\ \A j \in OfCase(l.case) : j > i => resolutions[j].decision # "SKIP"

(* An override that a review set is the last word on its address, whichever  *)
(* of the cases of the address was resolved last; until maintenance deletes  *)
(* one of those cases.                                                       *)
OverrideIsLastWord ==
  \A ip \in Addresses :
    override[ip].source = "review" =>
      \/ \E c \in DOMAIN cases : ~Exists(c) /\ AddressOf[cases[c].scope] = ip
      \/ \E i \in DOMAIN resolutions :
           IsLast(i, OfAddress(ip)) /\ resolutions[i].decision = override[ip].decision

(* A pattern with an accepted suggestion is never left to the labels, also   *)
(* by a promotion that read them before the acceptance.  (Its decision may   *)
(* be an older one until the next promotion: the auditor may reword the row  *)
(* between the read and the write of the acceptance.)                        *)
AcceptedStaysActive ==
  \A p \in Patterns : Accepted(p) # {} => active[p].source = "ai"
=============================================================================
