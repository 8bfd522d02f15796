----------------------------- MODULE CaseFiles -----------------------------
(***************************************************************************)
(* What a review case says about its sightings: the hits of its addresses   *)
(* (review_case_ips), its repeat counter and the usage profile kept with it *)
(* in read_model_snapshots.                                                 *)
(*                                                                         *)
(* The ingest worker files an event in one transaction: it inserts the      *)
(* event, updates or opens the case of the event's scope, counts the hit    *)
(* and writes the profile it built inside the transaction.  A recheck does  *)
(* the same in three: the event, then the profile, then the case.  A page   *)
(* that opens a case reads it, compares the profile with the events, builds *)
(* a newer one when it is stale and writes it under the update time of the  *)
(* case it read.  Timestamps have a resolution of one second, so several of *)
(* these steps may carry the same one.                                      *)
(*                                                                         *)
(* A transaction is one step from its first write, and every SELECT before  *)
(* it is a step of its own: two transactions of one scope do not overlap    *)
(* here.  ReviewCases has the case that PostgreSQL lets two of them open.   *)
(* A scope stands for one address, so it has one row of review_case_ips per *)
(* case; what resolving a case decides is in ReviewCases.                   *)
(***************************************************************************)
EXTENDS Naturals, Sequences, FiniteSets, FiniteSetsExt, Functions

CONSTANTS
  Scopes,      \* case_scope_key values: a subject or a device on one address
  Devices,     \* device_scope_key values
  DeviceOf,    \* the device scope whose events make a scope's profile
  Agents,      \* requests and tasks that open or recheck cases
  Gap,         \* REPEAT_COUNT_MIN_GAP
  Legacy,      \* rows an older version may have left in review_cases
  MaxSightings, \* bound: analysis events
  MaxSeconds,  \* bound: seconds that pass
  MaxFaults    \* bound: operations given up half-way

ASSUME CaseFilesAssumption ==
  /\ DeviceOf \in [Scopes -> Devices]
  /\ Legacy \subseteq Seq([scope : Scopes, status : {"OPEN", "RESOLVED"}, repeats : Nat \ {0},
                           opened : Nat, updated : Nat])
  /\ Gap \in Nat \ {0}
  /\ MaxSightings \in Nat
  /\ MaxSeconds \in Nat
  /\ MaxFaults \in Nat

VARIABLES
  clock,       \* the current second
  log,         \* analysis_events, in id order
  cases,       \* review_cases with their review_case_ips, in id order
  profiles,    \* the review_usage_profile snapshot of each case
  agent,       \* what each agent is doing and what it has read
  migrated,    \* whether the scope backfill has left its marker
  faults       \* how much of MaxFaults is used

caseVars == <<clock, log, cases, profiles, agent, migrated, faults>>

\* `recheck` and `counted` are history fields: whether a recheck logged the
\* event, and how many hits the cases of its scope owe to it.
Event == [scope : Scopes, at : Nat, recheck : BOOLEAN, counted : Nat]

Case == [scope : Scopes, status : {"OPEN", "RESOLVED", "MERGED"}, latest : Nat,
         opened : Nat, updated : Nat, repeats : Nat, lastRepeat : Nat, hits : Nat]

NoProfile == [at |-> 0, covers |-> {}]

NoRequest == [step |-> "idle"]

\* A case of the older version counts repeats, has no row in review_case_ips,
\* and its latest event carries its update time.
LegacyCase(row, id) ==
  [scope |-> row.scope, status |-> row.status, latest |-> id, opened |-> row.opened,
   updated |-> row.updated, repeats |-> row.repeats, lastRepeat |-> row.updated, hits |-> 0]

CaseInit ==
  /\ \E rows \in Legacy :
       /\ clock \in 1..MaxSeconds
       /\ \A i \in DOMAIN rows : rows[i].updated <= clock
       /\ log = [i \in DOMAIN rows |->
                   [scope |-> rows[i].scope, at |-> rows[i].updated,
                    recheck |-> FALSE, counted |-> rows[i].repeats]]
       /\ cases = [i \in DOMAIN rows |-> LegacyCase(rows[i], i)]
       /\ profiles = [i \in DOMAIN rows |-> NoProfile]
  /\ agent = [a \in Agents |-> NoRequest]
  /\ migrated = FALSE
  /\ faults = 0

-----------------------------------------------------------------------------
\* The events a profile of scope s is built from.
Sightings(rows, s) == {e \in DOMAIN rows : DeviceOf[rows[e].scope] = DeviceOf[s]}

Built(rows, s, at) == [at |-> at, covers |-> Sightings(rows, s)]

Times(rows, s) == {rows[e].at : e \in Sightings(rows, s)}

\* Whether profile p must be rebuilt for a case of which c has been read.
Stale(c, p, rows) ==
  \/ p = NoProfile
  \/ c.updated > p.at
  \/ \E e \in Sightings(rows, c.scope) : e > c.latest
  \/ \E at \in Times(rows, c.scope) : at > p.at

-----------------------------------------------------------------------------
\* The live cases of a scope, and the one _ensure_review_case takes: the last
\* updated, the newest of several.
Live(s) == {c \in DOMAIN cases : cases[c].scope = s /\ cases[c].status # "MERGED"}

Current(s) ==
  CHOOSE c \in Live(s) : \A d \in Live(s) :
    \/ cases[c].updated > cases[d].updated
    \/ cases[c].updated = cases[d].updated /\ c >= d

\* A sighting counts as a repeat when the last one counted is long enough ago.
Repeated(c, at) == at >= c.lastRepeat + Gap

Reopened(c, e, at) ==
  [c EXCEPT !.status = "OPEN", !.latest = e, !.updated = at, !.hits = @ + 1,
            !.repeats = IF Repeated(c, at) THEN @ + 1 ELSE @,
            !.lastRepeat = IF Repeated(c, at) THEN at ELSE @]

Opened(s, e, at) ==
  [scope |-> s, status |-> "OPEN", latest |-> e, opened |-> at, updated |-> at,
   repeats |-> 1, lastRepeat |-> at, hits |-> 1]

\* An event no case is opened for: only the log grows.
Log(s) ==
  /\ migrated
  /\ Len(log) < MaxSightings
  /\ log' = Append(log, [scope |-> s, at |-> clock, recheck |-> FALSE, counted |-> 0])
  /\ UNCHANGED <<clock, cases, profiles, agent, migrated, faults>>

\* An event with a review reason: the transaction of the ingest worker takes
\* its time, inserts it, and updates or opens the case of its scope.
File(s) ==
  LET e == Len(log) + 1
      rows == Append(log, [scope |-> s, at |-> clock, recheck |-> FALSE, counted |-> 1])
  IN
  /\ migrated
  /\ e <= MaxSightings
  /\ log' = rows
  /\ IF Live(s) # {}
     THEN /\ cases' = [cases EXCEPT ![Current(s)] = Reopened(@, e, clock)]
          /\ profiles' = [profiles EXCEPT ![Current(s)] = Built(rows, s, clock)]
     ELSE /\ cases' = Append(cases, Opened(s, e, clock))
          /\ profiles' = Append(profiles, Built(rows, s, clock))
  /\ UNCHANGED <<clock, agent, migrated, faults>>

-----------------------------------------------------------------------------
\* recheck_review_case: any case may be rechecked, a merged one too.  The event
\* takes its time before its transaction may begin.
RecheckStart(a, c) ==
  /\ migrated
  /\ agent[a] = NoRequest
  /\ agent' = [agent EXCEPT ![a] = [step |-> "record", case |-> c, at |-> clock]]
  /\ UNCHANGED <<clock, log, cases, profiles, migrated, faults>>

RecheckRecord(a) ==
  /\ agent[a].step = "record"
  /\ Len(log) < MaxSightings
  /\ log' = Append(log, [scope |-> cases[agent[a].case].scope, at |-> agent[a].at,
                         recheck |-> TRUE, counted |-> 0])
  /\ agent' = [agent EXCEPT ![a] = [step |-> "profile", case |-> @.case,
                                    event |-> Len(log) + 1]]
  /\ UNCHANGED <<clock, cases, profiles, migrated, faults>>

RecheckProfile(a) ==
  LET e == agent[a].event IN
  /\ agent[a].step = "profile"
  /\ agent' = [agent EXCEPT ![a] = [step |-> "write", case |-> @.case, event |-> e,
                                    profile |-> Built(log, log[e].scope, log[e].at)]]
  /\ UNCHANGED <<clock, log, cases, profiles, migrated, faults>>

\* The repeat counter stays; the newest event and the update time may go back.
Rechecked(c, e, at, status) ==
  [c EXCEPT !.status = status, !.latest = e, !.updated = at, !.hits = @ + 1]

RecheckWrite(a) ==
  LET c == agent[a].case
      e == agent[a].event
  IN
  /\ agent[a].step = "write"
  /\ \E status \in {"OPEN", "RESOLVED"} :
       cases' = [cases EXCEPT ![c] = Rechecked(@, e, log[e].at, status)]
  /\ profiles' = [profiles EXCEPT ![c] = agent[a].profile]
  /\ log' = [log EXCEPT ![e].counted = 1]
  /\ agent' = [agent EXCEPT ![a] = NoRequest]
  /\ UNCHANGED <<clock, migrated, faults>>

-----------------------------------------------------------------------------
\* get_review_case: a page, or the worker after it filed an event.
ViewRead(a, c) ==
  /\ migrated
  /\ agent[a] = NoRequest
  /\ agent' = [agent EXCEPT ![a] = [step |-> "check", case |-> c, read |-> cases[c]]]
  /\ UNCHANGED <<clock, log, cases, profiles, migrated, faults>>

ViewCheck(a) ==
  /\ agent[a].step = "check"
  /\ agent' = [agent EXCEPT ![a] =
                 IF Stale(@.read, profiles[@.case], log)
                 THEN [step |-> "build", case |-> @.case, read |-> @.read]
                 ELSE NoRequest]
  /\ UNCHANGED <<clock, log, cases, profiles, migrated, faults>>

ViewBuild(a) ==
  /\ agent[a].step = "build"
  /\ agent' = [agent EXCEPT ![a] = [step |-> "persist", case |-> @.case,
                                    profile |-> Built(log, @.read.scope, @.read.updated)]]
  /\ UNCHANGED <<clock, log, cases, profiles, migrated, faults>>

\* Mutant: the rebuilt profile is dated when it is written.
ViewPersistDatedNow(a) ==
  /\ agent[a].step = "persist"
  /\ profiles' = [profiles EXCEPT ![agent[a].case] = [agent[a].profile EXCEPT !.at = clock]]
  /\ agent' = [agent EXCEPT ![a] = NoRequest]
  /\ UNCHANGED <<clock, log, cases, migrated, faults>>

ViewPersist(a) ==
  /\ agent[a].step = "persist"
  /\ profiles' = [profiles EXCEPT ![agent[a].case] = agent[a].profile]
  /\ agent' = [agent EXCEPT ![a] = NoRequest]
  /\ UNCHANGED <<clock, log, cases, migrated, faults>>

\* "database is locked", a restart: what is written stays, the rest is not done.
GiveUp(a) ==
  /\ agent[a] # NoRequest
  /\ faults < MaxFaults
  /\ faults' = faults + 1
  /\ agent' = [agent EXCEPT ![a] = NoRequest]
  /\ UNCHANGED <<clock, log, cases, profiles, migrated>>

\* A moderator closes the case (ReviewCases has what that decides).
Resolve(c) ==
  /\ migrated
  /\ cases[c].status = "OPEN"
  /\ cases' = [cases EXCEPT ![c] = [@ EXCEPT !.status = "RESOLVED", !.updated = clock]]
  /\ UNCHANGED <<clock, log, profiles, agent, migrated, faults>>

-----------------------------------------------------------------------------
\* _run_review_scope_backfill_conn, once: rows without hits take their repeats,
\* then the open cases of one scope become one.
Backfilled == [c \in DOMAIN cases |-> [cases[c] EXCEPT !.hits = Max({@, cases[c].repeats, 1})]]

Duplicates(s) == {c \in DOMAIN cases : cases[c].scope = s /\ cases[c].status = "OPEN"}

Survivor(s) ==
  CHOOSE c \in Duplicates(s) : \A d \in Duplicates(s) :
    \/ cases[c].updated > cases[d].updated
    \/ cases[c].updated = cases[d].updated /\ c >= d

\* Mutant: the survivor keeps its own hits only.
CollapsedForgetful(rows, c) ==
  LET s == rows[c].scope
      D == Duplicates(s)
  IN IF c \notin D \/ Cardinality(D) < 2 THEN rows[c]
     ELSE IF c # Survivor(s)
     THEN [rows[c] EXCEPT !.status = "MERGED", !.updated = rows[Survivor(s)].updated, !.hits = 0]
     ELSE [rows[c] EXCEPT
             !.repeats = SumFunctionOnSet([d \in D |-> rows[d].repeats], D),
             !.opened = Min({rows[d].opened : d \in D}),
             !.lastRepeat = Max({rows[d].lastRepeat : d \in D})]

Collapsed(rows, c) ==
  LET s == rows[c].scope
      D == Duplicates(s)
  IN IF c \notin D \/ Cardinality(D) < 2 THEN rows[c]
     ELSE IF c # Survivor(s)
     THEN [rows[c] EXCEPT !.status = "MERGED", !.updated = rows[Survivor(s)].updated, !.hits = 0]
     ELSE [rows[c] EXCEPT
             !.repeats = SumFunctionOnSet([d \in D |-> rows[d].repeats], D),
             !.hits = SumFunctionOnSet([d \in D |-> rows[d].hits], D),
             !.opened = Min({rows[d].opened : d \in D}),
             !.lastRepeat = Max({rows[d].lastRepeat : d \in D})]

Migrate ==
  /\ ~migrated
  /\ migrated' = TRUE
  /\ cases' = [c \in DOMAIN cases |-> Collapsed(Backfilled, c)]
  /\ profiles' = [c \in DOMAIN cases |-> NoProfile]
  /\ UNCHANGED <<clock, log, agent, faults>>

SecondPasses ==
  /\ clock < MaxSeconds
  /\ clock' = clock + 1
  /\ UNCHANGED <<log, cases, profiles, agent, migrated, faults>>

CaseNext ==
  \/ SecondPasses
  \/ Migrate
  \/ \E s \in Scopes : File(s) \/ Log(s)
  \/ \E c \in DOMAIN cases : Resolve(c)
  \/ \E a \in Agents :
       \/ \E c \in DOMAIN cases : ViewRead(a, c) \/ RecheckStart(a, c)
       \/ RecheckRecord(a)
       \/ RecheckProfile(a)
       \/ RecheckWrite(a)
       \/ ViewCheck(a)
       \/ ViewBuild(a)
       \/ ViewPersist(a)
       \/ GiveUp(a)

CaseSpec == CaseInit /\ [][CaseNext]_caseVars

-----------------------------------------------------------------------------
\* A profile a page serves as current covers every event the worker logged for
\* the device, unless the event is of the very second the profile is dated: a
\* page that rebuilds the profile while the worker files an event overwrites the
\* worker's profile, and only the date and the newest event can tell
\* (review_admin.py:901).  The event of a recheck is dated before its transaction
\* begins, and may be missed for longer.
CurrentProfiles ==
  \A c \in DOMAIN cases :
    ~Stale(cases[c], profiles[c], log) =>
      \A e \in Sightings(log, cases[c].scope) \ profiles[c].covers :
        log[e].recheck \/ log[e].at = profiles[c].at

\* No sighting is lost and none counted twice by a case that is re-opened,
\* rechecked or merged: the hits of a scope are the repeats the older version
\* counted and the events filed since (review_case_ips, review_admin.py:562).
Hits == [c \in DOMAIN cases |-> cases[c].hits]
Counts == [e \in DOMAIN log |-> log[e].counted]

HitsAddUp ==
  migrated =>
    \A s \in Scopes :
      SumFunctionOnSet(Hits, {c \in DOMAIN cases : cases[c].scope = s}) =
      SumFunctionOnSet(Counts, {e \in DOMAIN log : log[e].scope = s})

=============================================================================
