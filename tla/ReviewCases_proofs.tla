------------------------- MODULE ReviewCases_proofs -------------------------
(***************************************************************************)
(* Theorems about ReviewCases, for any number of workers, agents, scopes,   *)
(* patterns, events and suggestions: the tables hold rows of their kind, a  *)
(* scope has two cases only by a race (SplitInv, which needs that a worker  *)
(* that found no case overlooked none that was there when it looked), a     *)
(* pattern with an accepted suggestion is in force because of it, and       *)
(* cases, labels and overrides say what the resolutions on record say       *)
(* (JudgedInv, which needs that evidence stays on its case's scope).        *)
(*                                                                         *)
(* The type invariant is not inductive alone: what a case or an agent holds *)
(* names rows of other tables, which must still be there when they are read *)
(* again.  CaseRefs and AgentRefs say that, and TypeInv adds them.          *)
(***************************************************************************)
EXTENDS ReviewCases, TLAPS

-----------------------------------------------------------------------------
(* Type correctness *)

(* Cases name events, and so do agents that resolve or recheck; an agent     *)
(* that accepts or rejects names a suggestion.                              *)
CaseRefs == \A c \in DOMAIN cases : cases[c].latest \in DOMAIN events

AgentRefs ==
  \A a \in Agents :
    /\ agent[a].step \in {"resolve", "recheck"} => agent[a].event \in DOMAIN events
    /\ agent[a].step \in {"accept", "reject"} => agent[a].row \in DOMAIN suggestions

TypeInv == TypeOK /\ CaseRefs /\ AgentRefs

LEMMA InitTypes == Init => TypeInv
<1>. SUFFICES ASSUME Init PROVE TypeInv
  OBVIOUS
<1>1. Idle \in AgentState /\ Idle \in WorkerState
  BY DEF AgentState, WorkerState
<1>2. TypeOK
  BY <1>1 DEF Init, TypeOK, Override
<1>3. CaseRefs /\ AgentRefs
  BY DEF Init, CaseRefs, AgentRefs, Idle
<1>. QED BY <1>2, <1>3 DEF TypeInv

(* What the agents hold at each step.                                       *)
LEMMA AgentFields ==
  ASSUME TypeInv, NEW a \in Agents
  PROVE  /\ agent[a].step \in {"resolve", "recheck"} =>
              agent[a].case \in Nat /\ agent[a].event \in DOMAIN events
         /\ agent[a].step = "resolve" => agent[a].decision \in Resolutions
         /\ agent[a].step \in {"accept", "reject"} =>
              agent[a].row \in DOMAIN suggestions /\ agent[a].decision \in Verdicts
<1>1. agent[a] \in AgentState
  BY DEF TypeInv, TypeOK
<1>. QED BY <1>1 DEF AgentState, Idle, TypeInv, AgentRefs

(* An agent moves on, and the tables its kind of state refers to have grown  *)
(* at most.                                                                 *)
LEMMA AgentMoves ==
  ASSUME TypeInv, NEW a \in Agents, NEW state \in AgentState, Becomes(a, state),
         DOMAIN events \subseteq DOMAIN events',
         DOMAIN suggestions \subseteq DOMAIN suggestions',
         state.step \in {"resolve", "recheck"} => state.event \in DOMAIN events',
         state.step \in {"accept", "reject"} => state.row \in DOMAIN suggestions'
  PROVE  agent' \in [Agents -> AgentState] /\ AgentRefs'
<1>1. agent \in [Agents -> AgentState] /\ AgentRefs
  BY DEF TypeInv, TypeOK
<1>2. agent' \in [Agents -> AgentState]
  BY <1>1 DEF Becomes
<1>3. \A b \in Agents : agent'[b] = agent[b] \/ agent'[b] = state
  BY <1>1 DEF Becomes
<1>. QED BY <1>1, <1>2, <1>3 DEF AgentRefs

(* What a worker holds.                                                      *)
LEMMA WorkerFields ==
  ASSUME TypeInv, NEW w \in Workers, worker[w].step = "file"
  PROVE  /\ worker[w].scope \in Scopes /\ worker[w].pattern \in Patterns
         /\ worker[w].found \in Nat /\ worker[w].after \in Nat
<1>1. worker[w] \in WorkerState
  BY DEF TypeInv, TypeOK
<1>. QED BY <1>1 DEF WorkerState, Idle

(* The cases, or rather their scopes, are kept: no case is added, none gets  *)
(* another scope or comes back from deletion.  Kept: and no worker looks.    *)
KeptCases ==
  /\ DOMAIN cases' = DOMAIN cases
  /\ \A c \in DOMAIN cases :
       /\ cases'[c].scope = cases[c].scope /\ cases'[c].after = cases[c].after
       /\ Exists(c)' => Exists(c)

Kept == KeptCases /\ worker' = worker

(* A case a worker found is of its event's scope, and one that found no case *)
(* has overlooked none that was there when it looked.                        *)
WorkerRefs ==
  \A w \in Workers : worker[w].step = "file" =>
    /\ worker[w].after \in {0} \cup DOMAIN cases
    /\ worker[w].found # NoCase =>
         worker[w].found \in DOMAIN cases /\ cases[worker[w].found].scope = worker[w].scope

NoneOverlooked ==
  \A w \in Workers : worker[w].step = "file" /\ worker[w].found = NoCase =>
    \A c \in DOMAIN cases :
      Exists(c) /\ cases[c].scope = worker[w].scope => worker[w].after < c

SplitInv == SplitOnlyByRace /\ WorkerRefs /\ NoneOverlooked

LEMMA KeptSplit ==
  ASSUME SplitInv, Kept
  PROVE  SplitInv'
<1>1. SplitOnlyByRace'
  BY DEF SplitInv, SplitOnlyByRace, Kept, KeptCases, Exists
<1>2. WorkerRefs'
  BY DEF SplitInv, WorkerRefs, Kept, KeptCases
<1>3. NoneOverlooked'
  BY DEF SplitInv, NoneOverlooked, Kept, KeptCases, Exists
<1>. QED BY <1>1, <1>2, <1>3 DEF SplitInv

LEMMA PutKeeps ==
  ASSUME TypeInv, NEW c \in Nat, NEW latest, NEW status \in {"OPEN", "RESOLVED", "SKIPPED"},
         c \in DOMAIN cases => latest \in DOMAIN events',
         DOMAIN events \subseteq DOMAIN events', DOMAIN events' \subseteq Nat,
         cases' = Put(c, latest, status)
  PROVE  cases' \in Seq(Case) /\ CaseRefs' /\ KeptCases
<1>1. cases \in Seq(Case) /\ CaseRefs
  BY DEF TypeInv, TypeOK
<1>2. CASE c \in DOMAIN cases /\ Exists(c)
  <2>. DEFINE new == [cases[c] EXCEPT !.latest = latest, !.status = status]
  <2>1. cases[c] \in Case /\ latest \in Nat /\ latest \in DOMAIN events'
    BY <1>1, <1>2
  <2>2. /\ new \in Case /\ new.latest = latest
        /\ new.scope = cases[c].scope /\ new.after = cases[c].after
    BY <2>1 DEF Case
  <2>3. cases' = [cases EXCEPT ![c] = new]
    <3>1. cases' = [cases EXCEPT ![c].latest = latest, ![c].status = status]
      BY <1>2 DEF Put
    <3>. QED BY <3>1, <1>1, <1>2
  <2>. HIDE DEF new
  <2>4. cases' \in Seq(Case) /\ DOMAIN cases' = DOMAIN cases
    BY <1>1, <1>2, <2>2, <2>3
  <2>5. cases'[c] = new /\ \A d \in DOMAIN cases : d # c => cases'[d] = cases[d]
    BY <1>1, <1>2, <2>3
  <2>6. CaseRefs'
    BY <1>1, <2>1, <2>2, <2>4, <2>5 DEF CaseRefs
  <2>. QED BY <1>2, <2>2, <2>4, <2>5, <2>6 DEF Kept, KeptCases, Exists
<1>3. CASE ~(c \in DOMAIN cases /\ Exists(c))
  <2>1. cases' = cases
    BY <1>1, <1>3 DEF Put
  <2>. QED BY <1>1, <2>1 DEF CaseRefs, Kept, KeptCases, Exists
<1>. QED BY <1>2, <1>3

LEMMA ResolveTypes ==
  ASSUME TypeInv, NEW c \in Nat, NEW e \in DOMAIN events, NEW d \in Resolutions,
         Resolve(c, e, d)
  PROVE  /\ resolutions' \in Seq(Resolution)
         /\ override' \in [Addresses -> Override]
         /\ labels' \subseteq Label
<1>1. e \in Nat /\ events[e] \in Event
  BY DEF TypeInv, TypeOK
<1>2. resolutions' \in Seq(Resolution)
  <2>. DEFINE r == [case |-> c, event |-> e, decision |-> d]
  <2>1. r \in Resolution
    BY <1>1 DEF Resolution
  <2>2. resolutions' = Append(resolutions, r)
    BY DEF Resolve
  <2>. HIDE DEF r
  <2>. QED BY <2>1, <2>2 DEF TypeInv, TypeOK
<1>3. override' \in [Addresses -> Override]
  <2>. DEFINE ip == AddressOf[events[e].scope]
  <2>1. override' = Overridden(ip, d) /\ override \in [Addresses -> Override]
    BY DEF Resolve, TypeInv, TypeOK
  <2>. HIDE DEF ip
  <2>2. None \in Override
    BY DEF Override
  <2>3. d # "SKIP" => [decision |-> d, source |-> "review"] \in Override
    BY DEF Override, Resolutions
  <2>. QED BY <2>1, <2>2, <2>3 DEF Overridden
<1>4. labels' \subseteq Label
  <2>1. labels' = Labelled(c, events[e].pattern, d) /\ labels \subseteq Label
    BY DEF Resolve, TypeInv, TypeOK
  <2>2. d # "SKIP" => [case |-> c, pattern |-> events[e].pattern, decision |-> d] \in Label
    BY <1>1 DEF Label, Event, Resolutions
  <2>. QED BY <2>1, <2>2 DEF Labelled
<1>. QED BY <1>2, <1>3, <1>4

(* A new analysis event is a row of its own.                                *)
LEMMA EventAppended ==
  ASSUME TypeInv, NEW s \in Scopes, NEW p \in Patterns, NEW asked \in BOOLEAN,
         events' = Append(events, [scope |-> s, pattern |-> p, asked |-> asked])
  PROVE  /\ events' \in Seq(Event)
         /\ DOMAIN events \subseteq DOMAIN events' /\ DOMAIN events' \subseteq Nat
         /\ Len(events) + 1 \in DOMAIN events'
<1>. DEFINE row == [scope |-> s, pattern |-> p, asked |-> asked]
<1>1. row \in Event /\ events \in Seq(Event)
  BY DEF Event, TypeInv, TypeOK
<1>2. events' = Append(events, row)
  OBVIOUS
<1>. HIDE DEF row
<1>. QED BY <1>1, <1>2

(* A worker that looks remembers a case of the scope, or none.               *)
LEMMA ReadTypes ==
  ASSUME TypeInv, SplitInv, NEW w \in Workers, NEW s \in Scopes, NEW p \in Patterns,
         IngestRead(w, s, p)
  PROVE  TypeInv' /\ SplitInv'
<1>1. /\ cases \in Seq(Case) /\ DOMAIN cases = 1 .. Len(cases) /\ Len(cases) \in Nat
      /\ worker \in [Workers -> WorkerState]
  BY DEF TypeInv, TypeOK
<1>2. UNCHANGED <<events, cases, resolutions, labels, override, active, suggestions,
                  agent, adminOps>>
  BY DEF IngestRead
<1>3. PICK c \in IF Live(s) = {} THEN {NoCase} ELSE Live(s) :
        WorkerBecomes(w, [step |-> "file", scope |-> s, pattern |-> p,
                          found |-> c, after |-> Len(cases)])
  BY DEF IngestRead
<1>4. \/ Live(s) = {} /\ c = NoCase
      \/ c \in DOMAIN cases /\ c # NoCase /\ cases[c].scope = s
  BY <1>1, <1>3 DEF Live, NoCase
<1>5. c \in Nat
  BY <1>1, <1>4 DEF NoCase
<1>. DEFINE look == [step |-> "file", scope |-> s, pattern |-> p, found |-> c, after |-> Len(cases)]
<1>6. /\ look \in WorkerState /\ look.scope = s /\ look.found = c /\ look.after = Len(cases)
  BY <1>1, <1>5 DEF WorkerState
<1>7. worker' = [worker EXCEPT ![w] = look]
  BY <1>3 DEF WorkerBecomes
<1>. HIDE DEF look
<1>8. /\ worker' \in [Workers -> WorkerState]
      /\ \A v \in Workers : (v = w /\ worker'[v] = look) \/ worker'[v] = worker[v]
  BY <1>1, <1>6, <1>7
<1>9. TypeInv'
  BY <1>2, <1>8 DEF TypeInv, TypeOK, CaseRefs, AgentRefs
<1>10. SplitOnlyByRace'
  BY <1>2 DEF SplitInv, SplitOnlyByRace, Exists
<1>11. WorkerRefs'
  <2>1. Len(cases) \in {0} \cup DOMAIN cases
    BY <1>1
  <2>. QED BY <1>2, <1>4, <1>6, <1>8, <2>1 DEF SplitInv, WorkerRefs
<1>12. NoneOverlooked'
  <2>1. c = NoCase => \A k \in DOMAIN cases : ~(Exists(k) /\ cases[k].scope = s)
    BY <1>1, <1>4 DEF Live, Exists, NoCase
  <2>2. \A k : Exists(k)' = Exists(k)
    BY <1>2 DEF Exists
  <2>. QED BY <1>2, <1>6, <1>8, <2>1, <2>2 DEF SplitInv, NoneOverlooked
<1>. QED BY <1>9, <1>10, <1>11, <1>12 DEF SplitInv

(* It re-opens the case it found, if it is still there, or inserts one.      *)
LEMMA WriteTypes ==
  ASSUME TypeInv, SplitInv, NEW w \in Workers, IngestWrite(w)
  PROVE  TypeInv' /\ SplitInv'
<1>. DEFINE e == Len(events) + 1
            m == worker[w]
<1>1. /\ m.step = "file" /\ m.scope \in Scopes /\ m.pattern \in Patterns
      /\ m.found \in Nat /\ m.after \in Nat
  BY WorkerFields DEF IngestWrite
<1>2. /\ events' \in Seq(Event)
      /\ DOMAIN events \subseteq DOMAIN events' /\ DOMAIN events' \subseteq Nat
      /\ e \in DOMAIN events'
  BY <1>1, EventAppended DEF IngestWrite
<1>3. /\ cases \in Seq(Case) /\ CaseRefs /\ DOMAIN cases = 1 .. Len(cases) /\ Len(cases) \in Nat
      /\ worker \in [Workers -> WorkerState]
  BY DEF TypeInv, TypeOK
<1>4. /\ worker' \in [Workers -> WorkerState]
      /\ \A v \in Workers : worker'[v].step = "file" => v # w /\ worker'[v] = worker[v]
  <2>1. worker' = [worker EXCEPT ![w] = Idle]
    BY DEF IngestWrite, WorkerBecomes
  <2>2. Idle \in WorkerState /\ Idle.step # "file"
    BY DEF WorkerState, Idle
  <2>. QED BY <1>3, <2>1, <2>2
<1>5. CASE m.found = NoCase
  <2>. DEFINE row == [scope |-> m.scope, latest |-> e, after |-> m.after, status |-> "OPEN"]
              n == Len(cases) + 1
  <2>1. row \in Case /\ row.latest = e /\ row.scope = m.scope /\ row.after = m.after
    BY <1>1, <1>2 DEF Case
  <2>2. cases' = Append(cases, row)
    BY <1>5 DEF IngestWrite
  <2>3. \A c \in DOMAIN cases : Exists(c) /\ cases[c].scope = m.scope => m.after < c
    BY <1>1, <1>5 DEF SplitInv, NoneOverlooked
  <2>. HIDE DEF row, e, m
  <2>4. /\ cases' \in Seq(Case) /\ DOMAIN cases' = DOMAIN cases \cup {n} /\ cases'[n] = row
        /\ \A c \in DOMAIN cases : cases'[c] = cases[c] /\ c \in Nat /\ c < n
    BY <1>3, <2>1, <2>2
  <2>5. n \in Nat /\ n \notin DOMAIN cases
    BY <1>3
  <2>. HIDE DEF n
  <2>6. CaseRefs'
    BY <1>2, <1>3, <2>1, <2>4 DEF CaseRefs
  <2>7. \A c \in DOMAIN cases : Exists(c)' = Exists(c)
    BY <2>4 DEF Exists
  <2>8. SplitOnlyByRace'
    <3>. SUFFICES ASSUME NEW c \in DOMAIN cases', NEW d \in DOMAIN cases',
                         c < d, Exists(c)', Exists(d)', cases'[c].scope = cases'[d].scope
                  PROVE  cases'[d].after < c
      BY DEF SplitOnlyByRace
    <3>1. c \in DOMAIN cases
      BY <2>4, <2>5
    <3>2. CASE d \in DOMAIN cases
      <4>1. /\ Exists(c) /\ Exists(d) /\ cases[c].scope = cases[d].scope
            /\ cases'[d].after = cases[d].after
        BY <2>4, <2>7, <3>1, <3>2
      <4>. QED BY <3>1, <3>2, <4>1 DEF SplitInv, SplitOnlyByRace
    <3>3. CASE d = n
      BY <2>1, <2>3, <2>4, <2>7, <3>1, <3>3
    <3>. QED BY <2>4, <3>2, <3>3
  <2>9. WorkerRefs'
    BY <1>4, <2>4 DEF SplitInv, WorkerRefs
  <2>10. NoneOverlooked'
    <3>. SUFFICES ASSUME NEW v \in Workers, worker'[v].step = "file", worker'[v].found = NoCase,
                         NEW c \in DOMAIN cases', Exists(c)', cases'[c].scope = worker'[v].scope
                  PROVE  worker'[v].after < c
      BY DEF NoneOverlooked
    <3>1. worker'[v] = worker[v] /\ worker[v].step = "file"
      BY <1>4
    <3>2. CASE c \in DOMAIN cases
      <4>1. Exists(c) /\ cases[c].scope = worker[v].scope
        BY <2>4, <2>7, <3>1, <3>2
      <4>. QED BY <3>1, <3>2, <4>1 DEF SplitInv, NoneOverlooked
    <3>3. CASE c = n
      <4>1. worker[v].after \in {0} \cup DOMAIN cases
        BY <3>1 DEF SplitInv, WorkerRefs
      <4>2. 0 < n
        BY <1>3 DEF n
      <4>. QED BY <2>4, <3>1, <3>3, <4>1, <4>2
    <3>. QED BY <2>4, <3>2, <3>3
  <2>11. agent' = agent
    BY DEF IngestWrite
  <2>12. AgentRefs'
    BY <1>2, <2>11 DEF IngestWrite, TypeInv, AgentRefs
  <2>. QED BY <1>2, <1>4, <2>4, <2>6, <2>8, <2>9, <2>10, <2>12
       DEF IngestWrite, TypeInv, TypeOK, SplitInv
<1>6. CASE m.found # NoCase
  <2>1. cases' = Put(m.found, e, "OPEN")
    BY <1>6 DEF IngestWrite
  <2>. HIDE DEF m, e
  <2>2. cases' \in Seq(Case) /\ CaseRefs' /\ KeptCases
    BY <1>1, <1>2, <2>1, PutKeeps
  <2>3. SplitOnlyByRace'
    BY <2>2 DEF SplitInv, SplitOnlyByRace, KeptCases, Exists
  <2>4. WorkerRefs'
    BY <1>4, <2>2 DEF SplitInv, WorkerRefs, KeptCases
  <2>5. NoneOverlooked'
    BY <1>4, <2>2 DEF SplitInv, NoneOverlooked, KeptCases, Exists
  <2>6. AgentRefs'
    BY <1>2 DEF IngestWrite, TypeInv, AgentRefs
  <2>. QED BY <1>2, <1>4, <2>2, <2>3, <2>4, <2>5, <2>6
       DEF IngestWrite, TypeInv, TypeOK, SplitInv
<1>. QED BY <1>5, <1>6

LEMMA ResolutionTypes ==
  ASSUME TypeInv, NEW a \in Agents,
         \/ \E c \in DOMAIN cases : \E d \in Resolutions : ResolveRead(a, c, d)
         \/ ResolveWrite(a)
  PROVE  TypeInv' /\ Kept
<1>0. /\ events \in Seq(Event) /\ cases \in Seq(Case) /\ CaseRefs
      /\ DOMAIN events \subseteq Nat /\ DOMAIN cases \subseteq Nat
  BY DEF TypeInv, TypeOK
<1>1. ASSUME NEW c \in DOMAIN cases, NEW d \in Resolutions, ResolveRead(a, c, d)
      PROVE  TypeInv' /\ Kept
  <2>. DEFINE state == [step |-> "resolve", case |-> c, event |-> cases[c].latest, decision |-> d]
  <2>1. cases[c].latest \in DOMAIN events
    BY <1>0 DEF CaseRefs
  <2>2. state \in AgentState /\ state.event \in DOMAIN events /\ state.step = "resolve"
    BY <1>0, <2>1 DEF AgentState
  <2>3. /\ Becomes(a, state)
        /\ UNCHANGED <<events, cases, resolutions, labels, override, active,
                       suggestions, worker, adminOps>>
    BY <1>1 DEF ResolveRead
  <2>. HIDE DEF state
  <2>4. agent' \in [Agents -> AgentState] /\ AgentRefs'
    BY <2>2, <2>3, AgentMoves
  <2>. QED BY <2>3, <2>4 DEF TypeInv, TypeOK, CaseRefs, Kept, KeptCases, Exists
<1>2. ASSUME ResolveWrite(a)
      PROVE  TypeInv' /\ Kept
  <2>. DEFINE c == agent[a].case
              d == agent[a].decision
              state == IF d = "SKIP" THEN Idle ELSE [step |-> "learn"]
  <2>1. c \in Nat /\ agent[a].event \in DOMAIN events /\ d \in Resolutions
    BY <1>2, AgentFields DEF ResolveWrite
  <2>2. state \in AgentState /\ state.step \in {"idle", "learn"}
    BY DEF AgentState, Idle
  <2>3. StatusAfter(d) \in {"OPEN", "RESOLVED", "SKIPPED"}
    BY DEF StatusAfter
  <2>4. /\ cases' = Put(c, cases[c].latest, StatusAfter(d)) /\ Resolve(c, agent[a].event, d)
        /\ Becomes(a, state)
        /\ UNCHANGED <<events, active, suggestions, worker, adminOps>>
    BY <1>2 DEF ResolveWrite
  <2>5. c \in DOMAIN cases => cases[c].latest \in DOMAIN events'
    BY <1>0, <2>4 DEF CaseRefs
  <2>. HIDE DEF c, d, state
  <2>6. agent' \in [Agents -> AgentState] /\ AgentRefs'
    BY <2>2, <2>4, AgentMoves
  <2>7. cases' \in Seq(Case) /\ CaseRefs' /\ Kept
    BY <1>0, <2>1, <2>3, <2>4, <2>5, PutKeeps DEF Kept
  <2>8. /\ resolutions' \in Seq(Resolution)
        /\ override' \in [Addresses -> Override] /\ labels' \subseteq Label
    BY <2>1, <2>4, ResolveTypes
  <2>. QED BY <2>4, <2>6, <2>7, <2>8 DEF TypeInv, TypeOK
<1>. QED BY <1>1, <1>2

LEMMA PromotionTypes ==
  ASSUME TypeInv, NEW a \in Agents, PromoteRead(a) \/ PromoteWrite(a)
  PROVE  TypeInv' /\ Kept
<1>1. CASE PromoteRead(a)
  <2>. DEFINE state == [step |-> "promote", labels |-> labels]
  <2>1. state \in AgentState /\ state.step = "promote"
    BY DEF AgentState, TypeInv, TypeOK
  <2>2. /\ Becomes(a, state)
        /\ UNCHANGED <<events, cases, resolutions, labels, override, active,
                       suggestions, worker, adminOps>>
    BY <1>1 DEF PromoteRead
  <2>. HIDE DEF state
  <2>3. agent' \in [Agents -> AgentState] /\ AgentRefs'
    BY <2>1, <2>2, AgentMoves
  <2>. QED BY <2>2, <2>3 DEF TypeInv, TypeOK, CaseRefs, Kept, KeptCases, Exists
<1>2. CASE PromoteWrite(a)
  <2>. DEFINE L == agent[a].labels
  <2>1. /\ active' = Promoted(L) /\ Becomes(a, Idle)
        /\ UNCHANGED <<events, cases, resolutions, labels, override,
                       suggestions, worker, adminOps>>
    BY <1>2 DEF PromoteWrite
  <2>. HIDE DEF L
  <2>2. Idle \in AgentState /\ Idle.step = "idle"
    BY DEF AgentState, Idle
  <2>3. agent' \in [Agents -> AgentState] /\ AgentRefs'
    BY <2>1, <2>2, AgentMoves
  <2>4. Promoted(L) \in [Patterns -> {None} \cup [decision : Verdicts, source : {"labels", "ai"}]]
    <3>1. \A p \in Patterns : Supported(L, p) \subseteq Verdicts
      BY DEF Supported
    <3>2. \A p \in Patterns : \A i \in Accepted(p) : suggestions[i].decision \in Verdicts
      <4>1. \A i \in DOMAIN suggestions : suggestions[i] \in Suggestion
        BY DEF TypeInv, TypeOK
      <4>. QED BY <4>1 DEF Accepted, Suggestion
    <3>3. ASSUME NEW p \in Patterns
          PROVE  Promoted(L)[p] \in {None} \cup [decision : Verdicts, source : {"labels", "ai"}]
      <4>1. Accepted(p) # {} => suggestions[CHOOSE i \in Accepted(p) : TRUE].decision \in Verdicts
        BY <3>2
      <4>2. Supported(L, p) # {} => (CHOOSE d \in Supported(L, p) : TRUE) \in Verdicts
        BY <3>1
      <4>. QED BY <4>1, <4>2 DEF Promoted
    <3>. QED BY <3>3 DEF Promoted
  <2>. QED BY <2>1, <2>3, <2>4 DEF TypeInv, TypeOK, CaseRefs, Kept, KeptCases, Exists
<1>. QED BY <1>1, <1>2

LEMMA RecheckTypes ==
  ASSUME TypeInv, NEW a \in Agents,
         \/ \E c \in DOMAIN cases : \E p \in Patterns : RecheckRecord(a, c, p)
         \/ \E d \in Verdicts : RecheckCloses(a, d)
         \/ RecheckKeeps(a)
  PROVE  TypeInv' /\ Kept
<1>0. /\ events \in Seq(Event) /\ cases \in Seq(Case) /\ CaseRefs
      /\ DOMAIN events \subseteq Nat /\ DOMAIN cases \subseteq Nat
  BY DEF TypeInv, TypeOK
<1>1. ASSUME NEW c \in DOMAIN cases, NEW p \in Patterns, RecheckRecord(a, c, p)
      PROVE  TypeInv' /\ Kept
  <2>. DEFINE state == [step |-> "recheck", case |-> c, event |-> Len(events) + 1]
  <2>0. cases[c] \in Case
    BY <1>0
  <2>1. cases[c].scope \in Scopes
    BY <2>0 DEF Case
  <2>2. /\ events' = Append(events, [scope |-> cases[c].scope, pattern |-> p, asked |-> FALSE])
        /\ Becomes(a, state)
        /\ UNCHANGED <<cases, resolutions, labels, override, active,
                       suggestions, worker, adminOps>>
    BY <1>1 DEF RecheckRecord
  <2>3. /\ events' \in Seq(Event)
        /\ DOMAIN events \subseteq DOMAIN events' /\ DOMAIN events' \subseteq Nat
        /\ Len(events) + 1 \in DOMAIN events'
    BY <2>1, <2>2, EventAppended
  <2>4. state \in AgentState /\ state.event \in DOMAIN events' /\ state.step = "recheck"
    BY <1>0, <2>3 DEF AgentState
  <2>. HIDE DEF state
  <2>5. agent' \in [Agents -> AgentState] /\ AgentRefs'
    BY <2>2, <2>3, <2>4, AgentMoves
  <2>6. CaseRefs'
    BY <1>0, <2>2, <2>3 DEF CaseRefs
  <2>. QED BY <2>2, <2>3, <2>5, <2>6 DEF TypeInv, TypeOK, Kept, KeptCases, Exists
<1>2. ASSUME NEW d \in Verdicts, RecheckCloses(a, d)
      PROVE  TypeInv' /\ Kept
  <2>. DEFINE c == agent[a].case
              e == agent[a].event
              state == [step |-> "learn"]
  <2>1. c \in Nat /\ e \in DOMAIN events
    BY <1>2, AgentFields DEF RecheckCloses
  <2>2. state \in AgentState /\ state.step = "learn" /\ d \in Resolutions
    BY DEF AgentState, Resolutions
  <2>3. /\ cases' = Put(c, e, "RESOLVED") /\ Resolve(c, e, d) /\ Becomes(a, state)
        /\ UNCHANGED <<events, active, suggestions, worker, adminOps>>
    BY <1>2 DEF RecheckCloses
  <2>. HIDE DEF c, e, state
  <2>4. agent' \in [Agents -> AgentState] /\ AgentRefs'
    BY <2>2, <2>3, AgentMoves
  <2>5. cases' \in Seq(Case) /\ CaseRefs' /\ Kept
    BY <1>0, <2>1, <2>3, PutKeeps DEF Kept
  <2>6. /\ resolutions' \in Seq(Resolution)
        /\ override' \in [Addresses -> Override] /\ labels' \subseteq Label
    BY <2>1, <2>2, <2>3, ResolveTypes
  <2>. QED BY <2>3, <2>4, <2>5, <2>6 DEF TypeInv, TypeOK
<1>3. ASSUME RecheckKeeps(a)
      PROVE  TypeInv' /\ Kept
  <2>. DEFINE c == agent[a].case
              e == agent[a].event
  <2>1. c \in Nat /\ e \in DOMAIN events
    BY <1>3, AgentFields DEF RecheckKeeps
  <2>2. Idle \in AgentState /\ Idle.step = "idle"
    BY DEF AgentState, Idle
  <2>3. /\ cases' = Put(c, e, "OPEN") /\ Becomes(a, Idle)
        /\ UNCHANGED <<events, resolutions, labels, override, active,
                       suggestions, worker, adminOps>>
    BY <1>3 DEF RecheckKeeps
  <2>. HIDE DEF c, e
  <2>4. agent' \in [Agents -> AgentState] /\ AgentRefs'
    BY <2>2, <2>3, AgentMoves
  <2>5. cases' \in Seq(Case) /\ CaseRefs' /\ Kept
    BY <1>0, <2>1, <2>3, PutKeeps DEF Kept
  <2>. QED BY <2>3, <2>4, <2>5 DEF TypeInv, TypeOK
<1>. QED BY <1>1, <1>2, <1>3

(* The auditor's writes leave the agents alone.                              *)
LEMMA AuditTypes ==
  ASSUME TypeInv,
         \/ \E p \in Patterns : \E d \in Verdicts : Suggest(p, d)
         \/ \E i \in DOMAIN suggestions : \E d \in Verdicts : Reword(i, d)
  PROVE  TypeInv' /\ Kept
<1>0. suggestions \in Seq(Suggestion)
  BY DEF TypeInv, TypeOK
<1>1. ASSUME NEW p \in Patterns, NEW d \in Verdicts, Suggest(p, d)
      PROVE  TypeInv' /\ Kept
  <2>. DEFINE row == [pattern |-> p, decision |-> d, status |-> "PENDING"]
  <2>1. row \in Suggestion /\ suggestions' = Append(suggestions, row)
    BY <1>1 DEF Suggestion, Suggest
  <2>. HIDE DEF row
  <2>2. suggestions' \in Seq(Suggestion) /\ DOMAIN suggestions \subseteq DOMAIN suggestions'
    BY <1>0, <2>1
  <2>. QED BY <1>1, <2>2 DEF Suggest, TypeInv, TypeOK, CaseRefs, AgentRefs, Kept, KeptCases, Exists
<1>2. ASSUME NEW i \in DOMAIN suggestions, NEW d \in Verdicts, Reword(i, d)
      PROVE  TypeInv' /\ Kept
  <2>1. /\ suggestions' = [suggestions EXCEPT ![i].decision = d]
        /\ adminOps' = adminOps + 1
        /\ UNCHANGED <<events, cases, resolutions, labels, override, active, worker, agent>>
    BY <1>2 DEF Reword
  <2>. DEFINE new == [suggestions[i] EXCEPT !.decision = d]
  <2>2. suggestions[i] \in Suggestion
    BY <1>0
  <2>3. new \in Suggestion
    BY <2>2 DEF Suggestion
  <2>4. suggestions' = [suggestions EXCEPT ![i] = new]
    BY <2>1
  <2>. HIDE DEF new
  <2>5. suggestions' \in Seq(Suggestion) /\ DOMAIN suggestions' = DOMAIN suggestions
    BY <1>0, <2>3, <2>4
  <2>. QED BY <2>1, <2>5 DEF TypeInv, TypeOK, CaseRefs, AgentRefs, Kept, KeptCases, Exists
<1>. QED BY <1>1, <1>2

LEMMA SettledTypes ==
  ASSUME TypeInv, NEW i \in DOMAIN suggestions, NEW status \in {"ACCEPTED", "REJECTED"}
  PROVE  Settled(i, status) \in Seq(Suggestion)
         /\ DOMAIN Settled(i, status) = DOMAIN suggestions
<1>1. suggestions \in Seq(Suggestion)
  BY DEF TypeInv, TypeOK
<1>2. ASSUME NEW j \in DOMAIN suggestions
      PROVE  Settled(i, status)[j] \in Suggestion
  <2>1. suggestions[i] \in Suggestion /\ suggestions[j] \in Suggestion
    BY <1>1
  <2>2. /\ [suggestions[j] EXCEPT !.status = "deleted"] \in Suggestion
        /\ [suggestions[i] EXCEPT !.status = status] \in Suggestion
    BY <2>1 DEF Suggestion
  <2>. QED BY <2>1, <2>2 DEF Settled
<1>3. DOMAIN Settled(i, status) = 1 .. Len(suggestions)
  BY <1>1 DEF Settled
<1>4. Settled(i, status) \in [1 .. Len(suggestions) -> Suggestion]
  BY <1>1, <1>2, <1>3 DEF Settled
<1>. QED BY <1>1, <1>3, <1>4

LEMMA SettlementTypes ==
  ASSUME TypeInv, NEW a \in Agents,
         \/ \E i \in DOMAIN suggestions : \E v \in {"accept", "reject"} : DecideRead(a, i, v)
         \/ \E S \in SUBSET DOMAIN cases : Accept(a, S)
         \/ Reject(a)
  PROVE  TypeInv' /\ Kept
<1>0. /\ suggestions \in Seq(Suggestion) /\ cases \in Seq(Case) /\ CaseRefs
      /\ active \in [Patterns -> {None} \cup [decision : Verdicts, source : {"labels", "ai"}]]
  BY DEF TypeInv, TypeOK
<1>1. Idle \in AgentState /\ Idle.step = "idle"
  BY DEF AgentState, Idle
<1>2. ASSUME NEW i \in DOMAIN suggestions, NEW v \in {"accept", "reject"}, DecideRead(a, i, v)
      PROVE  TypeInv' /\ Kept
  <2>. DEFINE state == [step |-> v, row |-> i, decision |-> suggestions[i].decision]
  <2>0. i \in Nat /\ suggestions[i] \in Suggestion
    BY <1>0
  <2>1. i \in Nat /\ suggestions[i].decision \in Verdicts
    BY <2>0 DEF Suggestion
  <2>2. state \in AgentState /\ state.row \in DOMAIN suggestions
        /\ state.step \in {"accept", "reject"}
    BY <2>1 DEF AgentState
  <2>3. /\ Becomes(a, state) /\ adminOps' = adminOps + 1
        /\ UNCHANGED <<events, cases, resolutions, labels, override,
                       active, suggestions, worker>>
    BY <1>2 DEF DecideRead
  <2>. HIDE DEF state
  <2>4. agent' \in [Agents -> AgentState] /\ AgentRefs'
    BY <2>2, <2>3, AgentMoves
  <2>. QED BY <2>3, <2>4 DEF TypeInv, TypeOK, CaseRefs, Kept, KeptCases, Exists
<1>3. ASSUME NEW S \in SUBSET DOMAIN cases, Accept(a, S)
      PROVE  TypeInv' /\ Kept
  <2>. DEFINE i == agent[a].row
              new == [decision |-> agent[a].decision, source |-> "ai"]
  <2>1. i \in DOMAIN suggestions /\ agent[a].decision \in Verdicts
    BY <1>3, AgentFields DEF Accept
  <2>2. /\ suggestions' = Settled(i, "ACCEPTED")
        /\ active' = [active EXCEPT ![suggestions[i].pattern] = new]
        /\ cases' = [c \in DOMAIN cases |->
                       IF c \in S /\ Exists(c) THEN [cases[c] EXCEPT !.status = "OPEN"]
                       ELSE cases[c]]
        /\ Becomes(a, Idle)
        /\ UNCHANGED <<events, resolutions, labels, override, worker, adminOps>>
    BY <1>3 DEF Accept
  <2>3. new \in [decision : Verdicts, source : {"labels", "ai"}]
    BY <2>1
  <2>. HIDE DEF i, new
  <2>4. suggestions' \in Seq(Suggestion) /\ DOMAIN suggestions' = DOMAIN suggestions
    BY <2>1, <2>2, SettledTypes
  <2>5. agent' \in [Agents -> AgentState] /\ AgentRefs'
    BY <1>1, <2>2, <2>4, AgentMoves
  <2>6. active' \in [Patterns -> {None} \cup [decision : Verdicts, source : {"labels", "ai"}]]
    BY <1>0, <2>2, <2>3
  <2>7. cases' \in Seq(Case) /\ CaseRefs' /\ Kept
    <3>1. ASSUME NEW c \in DOMAIN cases
          PROVE  /\ cases'[c] \in Case /\ cases'[c].latest = cases[c].latest
                 /\ cases'[c].scope = cases[c].scope /\ cases'[c].after = cases[c].after
                 /\ cases'[c].status # "purged" => cases[c].status # "purged"
      <4>. DEFINE reopened == [cases[c] EXCEPT !.status = "OPEN"]
      <4>1. cases[c] \in Case
        BY <1>0
      <4>2. /\ reopened \in Case /\ reopened.latest = cases[c].latest
            /\ reopened.scope = cases[c].scope /\ reopened.after = cases[c].after
        BY <4>1 DEF Case
      <4>3. (Exists(c) /\ cases'[c] = reopened) \/ cases'[c] = cases[c]
        BY <2>2
      <4>. HIDE DEF reopened
      <4>. QED BY <4>1, <4>2, <4>3 DEF Exists
    <3>2. DOMAIN cases' = 1 .. Len(cases) /\ DOMAIN cases = 1 .. Len(cases)
      BY <1>0, <2>2
    <3>3. cases' \in [1 .. Len(cases) -> Case]
      BY <2>2, <3>1, <3>2
    <3>4. cases' \in Seq(Case)
      BY <1>0, <3>3
    <3>. QED BY <1>0, <2>2, <3>1, <3>2, <3>4 DEF CaseRefs, Kept, KeptCases, Exists
  <2>. QED BY <2>2, <2>4, <2>5, <2>6, <2>7 DEF TypeInv, TypeOK
<1>4. ASSUME Reject(a)
      PROVE  TypeInv' /\ Kept
  <2>. DEFINE i == agent[a].row
  <2>1. i \in DOMAIN suggestions
    BY <1>4, AgentFields DEF Reject
  <2>2. /\ suggestions' = Settled(i, "REJECTED") /\ Becomes(a, Idle)
        /\ UNCHANGED <<events, cases, resolutions, labels, override, active, worker, adminOps>>
    BY <1>4 DEF Reject
  <2>. HIDE DEF i
  <2>3. suggestions' \in Seq(Suggestion) /\ DOMAIN suggestions' = DOMAIN suggestions
    BY <2>1, <2>2, SettledTypes
  <2>4. agent' \in [Agents -> AgentState] /\ AgentRefs'
    BY <1>1, <2>2, <2>3, AgentMoves
  <2>. QED BY <2>2, <2>3, <2>4 DEF TypeInv, TypeOK, CaseRefs, Kept, KeptCases, Exists
<1>. QED BY <1>2, <1>3, <1>4

LEMMA AdminTypes ==
  ASSUME TypeInv,
         \/ \E ip \in Addresses : \E d \in Verdicts : SetOverride(ip, d)
         \/ \E ip \in Addresses : DropOverride(ip)
         \/ \E c \in DOMAIN cases : Purge(c)
  PROVE  TypeInv' /\ Kept
<1>0. /\ cases \in Seq(Case) /\ CaseRefs /\ override \in [Addresses -> Override]
      /\ labels \subseteq Label /\ adminOps \in Nat
      /\ resolutions \in Seq(Resolution)
  BY DEF TypeInv, TypeOK
<1>1. ASSUME NEW ip \in Addresses, NEW d \in Verdicts, SetOverride(ip, d)
      PROVE  TypeInv' /\ Kept
  <2>1. [decision |-> d, source |-> "manual"] \in Override
    BY DEF Override
  <2>2. override' \in [Addresses -> Override]
    BY <1>0, <1>1, <2>1 DEF SetOverride
  <2>. QED
    BY <1>1, <2>2 DEF SetOverride, TypeInv, TypeOK, CaseRefs, AgentRefs, Kept, KeptCases, Exists
<1>2. ASSUME NEW ip \in Addresses, DropOverride(ip)
      PROVE  TypeInv' /\ Kept
  <2>1. None \in Override
    BY DEF Override
  <2>2. override' \in [Addresses -> Override]
    BY <1>0, <1>2, <2>1 DEF DropOverride
  <2>. QED
    BY <1>2, <2>2 DEF DropOverride, TypeInv, TypeOK, CaseRefs, AgentRefs, Kept, KeptCases, Exists
<1>3. ASSUME NEW c \in DOMAIN cases, Purge(c)
      PROVE  TypeInv' /\ Kept
  <2>. DEFINE new == [cases[c] EXCEPT !.status = "purged"]
  <2>1. /\ cases' = [cases EXCEPT ![c].status = "purged"]
        /\ resolutions' = [i \in DOMAIN resolutions |->
                             IF resolutions[i].case = c
                               THEN [resolutions[i] EXCEPT !.decision = "deleted"]
                             ELSE resolutions[i]]
        /\ labels' = {l \in labels : l.case # c}
        /\ adminOps' = adminOps + 1
        /\ UNCHANGED <<events, override, active, suggestions, worker, agent>>
    BY <1>3 DEF Purge
  <2>0. cases[c] \in Case
    BY <1>0
  <2>2. /\ new \in Case /\ new.latest = cases[c].latest
        /\ new.scope = cases[c].scope /\ new.after = cases[c].after /\ new.status = "purged"
    BY <2>0 DEF Case
  <2>3. cases' = [cases EXCEPT ![c] = new]
    BY <2>1
  <2>. HIDE DEF new
  <2>4. cases' \in Seq(Case) /\ DOMAIN cases' = DOMAIN cases
    BY <1>0, <2>2, <2>3
  <2>5. cases'[c] = new /\ \A d \in DOMAIN cases : d # c => cases'[d] = cases[d]
    BY <1>0, <2>3
  <2>6. CaseRefs' /\ Kept
    BY <1>0, <2>1, <2>2, <2>4, <2>5 DEF CaseRefs, Kept, KeptCases, Exists
  <2>7. resolutions' \in Seq(Resolution)
    <3>1. ASSUME NEW i \in DOMAIN resolutions
          PROVE  resolutions'[i] \in Resolution
      <4>1. resolutions[i] \in Resolution
        BY <1>0
      <4>2. [resolutions[i] EXCEPT !.decision = "deleted"] \in Resolution
        BY <4>1 DEF Resolution
      <4>. QED BY <2>1, <4>1, <4>2
    <3>2. DOMAIN resolutions' = 1 .. Len(resolutions) /\ DOMAIN resolutions = 1 .. Len(resolutions)
      BY <1>0, <2>1
    <3>3. resolutions' \in [1 .. Len(resolutions) -> Resolution]
      BY <2>1, <3>1, <3>2
    <3>. QED BY <1>0, <3>3
  <2>. QED BY <1>0, <2>1, <2>4, <2>6, <2>7 DEF TypeInv, TypeOK, AgentRefs
<1>. QED BY <1>1, <1>2, <1>3

(* Only the worker adds a case; every other step keeps them.                 *)
LEMMA TypesStep == TypeInv /\ SplitInv /\ [Next]_vars => TypeInv' /\ SplitInv'
<1>. SUFFICES ASSUME TypeInv, SplitInv, [Next]_vars
              PROVE  TypeInv' /\ SplitInv'
  OBVIOUS
<1>1. ASSUME NEW w \in Workers,
             (\E s \in Scopes : \E p \in Patterns : IngestRead(w, s, p)) \/ IngestWrite(w)
      PROVE  TypeInv' /\ SplitInv'
  BY <1>1, ReadTypes, WriteTypes
<1>2. ASSUME NEW a \in Agents, AgentStep(a)
      PROVE  TypeInv' /\ Kept
  BY <1>2, ResolutionTypes, PromotionTypes, RecheckTypes, SettlementTypes DEF AgentStep
<1>3. CASE \/ \E p \in Patterns : \E d \in Verdicts : Suggest(p, d)
           \/ \E i \in DOMAIN suggestions : \E d \in Verdicts : Reword(i, d)
  BY <1>3, AuditTypes, KeptSplit
<1>4. CASE \/ \E ip \in Addresses : \E d \in Verdicts : SetOverride(ip, d)
           \/ \E ip \in Addresses : DropOverride(ip)
           \/ \E c \in DOMAIN cases : Purge(c)
  BY <1>4, AdminTypes, KeptSplit
<1>5. CASE UNCHANGED vars
  <2>1. Kept
    BY <1>5 DEF vars, Kept, KeptCases, Exists
  <2>. QED BY <1>5, <2>1, KeptSplit DEF vars, TypeInv, TypeOK, CaseRefs, AgentRefs
<1>. QED BY <1>1, <1>2, <1>3, <1>4, <1>5, KeptSplit DEF Next

LEMMA TypesAndSplits == Spec => [](TypeInv /\ SplitInv)
<1>1. Init => TypeInv /\ SplitInv
  BY InitTypes DEF Init, SplitInv, SplitOnlyByRace, WorkerRefs, NoneOverlooked, Idle
<1>. QED BY <1>1, TypesStep, PTL DEF Spec

(* Every table holds rows of its kind, every agent what it has read.         *)
THEOREM TypeCorrect == Spec => []TypeOK
<1>1. TypeInv => TypeOK
  BY DEF TypeInv
<1>. QED BY <1>1, TypesAndSplits, PTL

(* A scope has a second case only when the worker that inserted it had       *)
(* looked before the first was there (the SELECT and the INSERT of           *)
(* _ensure_review_case), whatever moderators, rechecks, the auditor and      *)
(* maintenance do meanwhile.                                                 *)
THEOREM SecondCaseIsARace == Spec => []SplitOnlyByRace
<1>1. SplitInv => SplitOnlyByRace
  BY DEF SplitInv
<1>. QED BY <1>1, TypesAndSplits, PTL

-----------------------------------------------------------------------------
(* Accepted suggestions *)

(* Only an acceptance turns a row ACCEPTED, and it writes the active pattern *)
(* in the same transaction.                                                 *)
LEMMA SettledRows ==
  ASSUME TypeInv, NEW i \in DOMAIN suggestions, NEW status \in {"ACCEPTED", "REJECTED"},
         NEW j \in DOMAIN suggestions
  PROVE  /\ Settled(i, status)[j].pattern = suggestions[j].pattern
         /\ Settled(i, status)[j].status = "ACCEPTED" =>
              (j = i /\ status = "ACCEPTED") \/ suggestions[j].status = "ACCEPTED"
<1>1. suggestions[i] \in Suggestion /\ suggestions[j] \in Suggestion
  BY DEF TypeInv, TypeOK
<1>. QED BY <1>1 DEF Settled, Suggestion

LEMMA DecisionKeeps ==
  ASSUME TypeInv, AcceptedStaysActive, NEW a \in Agents,
         (\E S \in SUBSET DOMAIN cases : Accept(a, S)) \/ Reject(a)
  PROVE  AcceptedStaysActive'
<1>. DEFINE i == agent[a].row
<1>1. i \in DOMAIN suggestions
  BY AgentFields DEF Accept, Reject
<1>2. suggestions[i].pattern \in Patterns /\ DOMAIN active = Patterns
  <2>1. suggestions[i] \in Suggestion /\ DOMAIN active = Patterns
    BY <1>1 DEF TypeInv, TypeOK
  <2>. QED BY <2>1 DEF Suggestion
<1>3. PICK status \in {"ACCEPTED", "REJECTED"} :
        /\ suggestions' = Settled(i, status)
        /\ status = "ACCEPTED" =>
             active' = [active EXCEPT ![suggestions[i].pattern] =
                          [decision |-> agent[a].decision, source |-> "ai"]]
        /\ status = "REJECTED" => active' = active
  BY DEF Accept, Reject
<1>4. /\ DOMAIN suggestions' = DOMAIN suggestions
      /\ \A j \in DOMAIN suggestions :
           /\ suggestions'[j].pattern = suggestions[j].pattern
           /\ suggestions'[j].status = "ACCEPTED" =>
                (j = i /\ status = "ACCEPTED") \/ suggestions[j].status = "ACCEPTED"
  BY <1>1, <1>3, SettledRows, SettledTypes
<1>5. ASSUME NEW p \in Patterns, Accepted(p)' # {}
      PROVE  active'[p].source = "ai"
  <2>1. \/ Accepted(p) # {}
        \/ status = "ACCEPTED" /\ p = suggestions[i].pattern
    BY <1>4, <1>5 DEF Accepted
  <2>2. Accepted(p) # {} => active[p].source = "ai"
    BY DEF AcceptedStaysActive
  <2>. QED BY <1>2, <1>3, <2>1, <2>2
<1>. QED BY <1>5 DEF AcceptedStaysActive

(* To suggest and to reword accepts nothing and leaves the patterns alone.   *)
LEMMA ProposalKeeps ==
  ASSUME TypeInv, AcceptedStaysActive,
         \/ \E p \in Patterns : \E d \in Verdicts : Suggest(p, d)
         \/ \E i \in DOMAIN suggestions : \E d \in Verdicts : Reword(i, d)
  PROVE  AcceptedStaysActive'
<1>0. suggestions \in Seq(Suggestion)
  BY DEF TypeInv, TypeOK
<1>1. ASSUME NEW p \in Patterns, NEW d \in Verdicts, Suggest(p, d)
      PROVE  AcceptedStaysActive'
  <2>. DEFINE row == [pattern |-> p, decision |-> d, status |-> "PENDING"]
  <2>1. row.status # "ACCEPTED" /\ suggestions' = Append(suggestions, row) /\ active' = active
    BY <1>1 DEF Suggest
  <2>. HIDE DEF row
  <2>2. \A i \in DOMAIN suggestions' :
          (i \in DOMAIN suggestions /\ suggestions'[i] = suggestions[i]) \/ suggestions'[i] = row
    BY <1>0, <2>1
  <2>3. \A q \in Patterns : Accepted(q)' \subseteq Accepted(q)
    BY <2>1, <2>2 DEF Accepted
  <2>. QED BY <2>1, <2>3 DEF AcceptedStaysActive
<1>2. ASSUME NEW i \in DOMAIN suggestions, NEW d \in Verdicts, Reword(i, d)
      PROVE  AcceptedStaysActive'
  <2>1. suggestions' = [suggestions EXCEPT ![i].decision = d] /\ active' = active
    BY <1>2 DEF Reword
  <2>2. /\ DOMAIN suggestions' = DOMAIN suggestions
        /\ \A j \in DOMAIN suggestions : /\ suggestions'[j].pattern = suggestions[j].pattern
                                         /\ suggestions'[j].status = suggestions[j].status
    BY <1>0, <2>1 DEF Suggestion
  <2>3. \A q \in Patterns : Accepted(q)' = Accepted(q)
    BY <2>2 DEF Accepted
  <2>. QED BY <2>1, <2>3 DEF AcceptedStaysActive
<1>. QED BY <1>1, <1>2

(* A promotion restores the rows that are accepted as it writes; what is     *)
(* left changes neither the suggestions nor the active patterns.             *)
LEMMA AcceptedStep ==
  TypeInv /\ AcceptedStaysActive /\ [Next]_vars => AcceptedStaysActive'
<1>. SUFFICES ASSUME TypeInv, AcceptedStaysActive, [Next]_vars
              PROVE  AcceptedStaysActive'
  OBVIOUS
<1>1. ASSUME UNCHANGED <<suggestions, active>>
      PROVE  AcceptedStaysActive'
  BY <1>1 DEF AcceptedStaysActive, Accepted
<1>2. ASSUME NEW a \in Agents, PromoteWrite(a)
      PROVE  AcceptedStaysActive'
  <2>1. suggestions' = suggestions /\ active' = Promoted(agent[a].labels)
    BY <1>2 DEF PromoteWrite
  <2>2. \A p \in Patterns : Accepted(p)' = Accepted(p)
    BY <2>1 DEF Accepted
  <2>. QED BY <2>1, <2>2 DEF AcceptedStaysActive, Promoted
<1>3. ASSUME NEW a \in Agents, AgentStep(a)
      PROVE  AcceptedStaysActive'
  <2>1. ASSUME NEW c \in DOMAIN cases
        PROVE  /\ (\E d \in Resolutions : ResolveRead(a, c, d)) => UNCHANGED <<suggestions, active>>
               /\ (\E p \in Patterns : RecheckRecord(a, c, p)) => UNCHANGED <<suggestions, active>>
    BY DEF ResolveRead, RecheckRecord
  <2>2. ResolveWrite(a) \/ PromoteRead(a) => UNCHANGED <<suggestions, active>>
    BY DEF ResolveWrite, PromoteRead
  <2>3. (\E d \in Verdicts : RecheckCloses(a, d)) \/ RecheckKeeps(a)
          => UNCHANGED <<suggestions, active>>
    BY DEF RecheckCloses, RecheckKeeps
  <2>4. (\E i \in DOMAIN suggestions : \E v \in {"accept", "reject"} : DecideRead(a, i, v))
          => UNCHANGED <<suggestions, active>>
    BY DEF DecideRead
  <2>. QED BY <1>1, <1>2, <1>3, <2>1, <2>2, <2>3, <2>4, DecisionKeeps DEF AgentStep
<1>4. ASSUME NEW w \in Workers,
             (\E s \in Scopes : \E p \in Patterns : IngestRead(w, s, p)) \/ IngestWrite(w)
      PROVE  UNCHANGED <<suggestions, active>>
  BY <1>4 DEF IngestRead, IngestWrite
<1>5. CASE \/ \E ip \in Addresses : \E d \in Verdicts : SetOverride(ip, d)
           \/ \E ip \in Addresses : DropOverride(ip)
           \/ \E c \in DOMAIN cases : Purge(c)
  BY <1>1, <1>5 DEF SetOverride, DropOverride, Purge
<1>6. CASE UNCHANGED vars
  BY <1>1, <1>6 DEF vars
<1>. QED BY <1>1, <1>3, <1>4, <1>5, <1>6, ProposalKeeps DEF Next

(* A suggestion once accepted is what its pattern is active by: promotions   *)
(* of labels read before the acceptance do not undo it                      *)
(* (promote_learning_patterns against accept_suggestion).                   *)
THEOREM AcceptedStays == Spec => []AcceptedStaysActive
<1>1. Init => AcceptedStaysActive
  BY DEF Init, AcceptedStaysActive, Accepted
<1>. QED BY <1>1, TypesAndSplits, AcceptedStep, PTL DEF Spec

-----------------------------------------------------------------------------
(* What was judged: resolutions, the cases they close, the labels and the    *)
(* overrides they leave.                                                     *)

(* A case, an agent at work on it and every resolution of it stand on        *)
(* evidence of the case's own scope.                                         *)
CaseEvidence ==
  \A c \in DOMAIN cases : events[cases[c].latest].scope = cases[c].scope

AgentEvidence ==
  \A a \in Agents : agent[a].step \in {"resolve", "recheck"} =>
    /\ agent[a].case \in DOMAIN cases
    /\ events[agent[a].event].scope = cases[agent[a].case].scope

ResolutionEvidence ==
  \A i \in DOMAIN resolutions :
    /\ resolutions[i].case \in DOMAIN cases /\ resolutions[i].event \in DOMAIN events
    /\ events[resolutions[i].event].scope = cases[resolutions[i].case].scope

SameScope == CaseEvidence /\ AgentEvidence /\ ResolutionEvidence

JudgedInv == SameScope /\ ClosedAsJudged /\ LabelsFollowVerdicts /\ OverrideIsLastWord

(* No step changes an event, gives a case another scope or brings a deleted  *)
(* case back.                                                                *)
HistoryKept ==
  /\ DOMAIN events \subseteq DOMAIN events'
  /\ \A e \in DOMAIN events : events'[e] = events[e]
  /\ DOMAIN cases \subseteq DOMAIN cases'
  /\ \A c \in DOMAIN cases :
       cases'[c].scope = cases[c].scope /\ (Exists(c)' => Exists(c))

(* A step that resolves and deletes nothing closes no case, touches no label *)
(* and sets no override in the name of a review.                             *)
Quiet ==
  /\ resolutions' = resolutions /\ labels' = labels
  /\ \A ip \in Addresses :
       override'[ip] = override[ip] \/ override'[ip].source # "review"
  /\ \A c \in DOMAIN cases' : cases'[c].status \in Closed =>
       c \in DOMAIN cases /\ cases'[c].status = cases[c].status

(* An agent closes its case with a decision.                                 *)
Resolving(a, d) ==
  /\ agent[a].step \in {"resolve", "recheck"}
  /\ d \in Resolutions
  /\ Resolve(agent[a].case, agent[a].event, d)
  /\ events' = events
  /\ \E latest : cases' = Put(agent[a].case, latest, StatusAfter(d))

(* An UPDATE of a case changes that case alone, and only while it is there.  *)
LEMMA PutRows ==
  ASSUME TypeInv, NEW c \in DOMAIN cases, NEW latest, NEW status, cases' = Put(c, latest, status)
  PROVE  /\ DOMAIN cases' = DOMAIN cases
         /\ \A k \in DOMAIN cases :
              /\ cases'[k].scope = cases[k].scope
              /\ k # c \/ ~Exists(c) => cases'[k] = cases[k]
              /\ k = c /\ Exists(c) => cases'[k].latest = latest /\ cases'[k].status = status
<1>0. cases \in Seq(Case) /\ cases[c] \in Case
  BY DEF TypeInv, TypeOK
<1>1. CASE Exists(c)
  <2>. DEFINE new == [cases[c] EXCEPT !.latest = latest, !.status = status]
  <2>1. cases' = [cases EXCEPT ![c] = new]
    <3>1. cases' = [cases EXCEPT ![c].latest = latest, ![c].status = status]
      BY <1>1 DEF Put
    <3>. QED BY <3>1, <1>0
  <2>2. new.scope = cases[c].scope /\ new.latest = latest /\ new.status = status
    BY <1>0 DEF Case
  <2>. HIDE DEF new
  <2>. QED BY <1>0, <1>1, <2>1, <2>2
<1>2. CASE ~Exists(c)
  BY <1>2 DEF Put
<1>. QED BY <1>1, <1>2

(* What an agent holds stays evidence of its case's scope.                   *)
LEMMA EvidenceHeld ==
  ASSUME TypeInv, SameScope, HistoryKept, agent' = agent
  PROVE  AgentEvidence'
<1>1. ASSUME NEW a \in Agents, agent[a].step \in {"resolve", "recheck"}
      PROVE  /\ agent[a].case \in DOMAIN cases'
             /\ events'[agent[a].event].scope = cases'[agent[a].case].scope
  BY <1>1, AgentFields DEF SameScope, AgentEvidence, HistoryKept
<1>. QED BY <1>1 DEF AgentEvidence

LEMMA EvidenceTaken ==
  ASSUME TypeInv, SameScope, HistoryKept, NEW a \in Agents, NEW state, Becomes(a, state),
         state.step \in {"resolve", "recheck"} =>
           state.case \in DOMAIN cases' /\ events'[state.event].scope = cases'[state.case].scope
  PROVE  AgentEvidence'
<1>1. ASSUME NEW b \in Agents, agent[b].step \in {"resolve", "recheck"}
      PROVE  /\ agent[b].case \in DOMAIN cases'
             /\ events'[agent[b].event].scope = cases'[agent[b].case].scope
  BY <1>1, AgentFields DEF SameScope, AgentEvidence, HistoryKept
<1>2. DOMAIN agent = Agents
  BY DEF TypeInv, TypeOK
<1>3. \A b \in Agents : agent'[b] = agent[b] \/ agent'[b] = state
  BY <1>2 DEF Becomes
<1>. QED BY <1>1, <1>3 DEF AgentEvidence

(* The latest event of a case is of its scope when it is left as it is.      *)
LEMMA LatestHeld ==
  ASSUME TypeInv, SameScope, HistoryKept,
         \A c \in DOMAIN cases' :
           \/ c \in DOMAIN cases /\ cases'[c].latest = cases[c].latest
           \/ events'[cases'[c].latest].scope = cases'[c].scope
  PROVE  CaseEvidence'
<1>1. \A c \in DOMAIN cases : cases[c].latest \in DOMAIN events
  BY DEF TypeInv, CaseRefs
<1>. QED BY <1>1 DEF CaseEvidence, SameScope, HistoryKept

(* A worker that looks writes nothing; it then re-opens the case it found,   *)
(* which is of its event's scope, or inserts one.                            *)
LEMMA ReadJudged ==
  ASSUME TypeInv, SameScope, NEW w \in Workers, NEW s \in Scopes, NEW p \in Patterns,
         IngestRead(w, s, p)
  PROVE  HistoryKept /\ Quiet /\ CaseEvidence' /\ AgentEvidence'
<1>1. UNCHANGED <<events, cases, resolutions, labels, override, agent>>
  BY DEF IngestRead
<1>2. HistoryKept /\ Quiet
  BY <1>1 DEF HistoryKept, Quiet, Exists
<1>. QED BY <1>1, <1>2 DEF SameScope, CaseEvidence, AgentEvidence

LEMMA WriteJudged ==
  ASSUME TypeInv, SplitInv, SameScope, NEW w \in Workers, IngestWrite(w)
  PROVE  HistoryKept /\ Quiet /\ CaseEvidence' /\ AgentEvidence'
<1>. DEFINE e == Len(events) + 1
            m == worker[w]
            row == [scope |-> m.scope, pattern |-> m.pattern, asked |-> TRUE]
<1>1. /\ events \in Seq(Event) /\ cases \in Seq(Case)
      /\ DOMAIN cases \subseteq Nat
  BY DEF TypeInv, TypeOK
<1>2. events' = Append(events, row) /\ row.scope = m.scope
  BY DEF IngestWrite
<1>3. /\ resolutions' = resolutions /\ labels' = labels /\ override' = override
      /\ agent' = agent
  BY DEF IngestWrite
<1>. HIDE DEF row
<1>4. /\ DOMAIN events \subseteq DOMAIN events' /\ events'[e].scope = m.scope
      /\ \A i \in DOMAIN events : events'[i] = events[i]
  BY <1>1, <1>2
<1>5. CASE m.found = NoCase
  <2>. DEFINE new == [scope |-> m.scope, latest |-> e, after |-> m.after, status |-> "OPEN"]
  <2>1. cases' = Append(cases, new) /\ new.scope = m.scope /\ new.latest = e /\ new.status = "OPEN"
    BY <1>5 DEF IngestWrite
  <2>. HIDE DEF new, e, m
  <2>2. /\ DOMAIN cases \subseteq DOMAIN cases'
        /\ \A c \in DOMAIN cases : cases'[c] = cases[c]
        /\ \A c \in DOMAIN cases' : c \in DOMAIN cases \/ cases'[c] = new
    BY <1>1, <2>1
  <2>3. HistoryKept
    BY <1>4, <2>2 DEF HistoryKept, Exists
  <2>4. Quiet
    BY <1>3, <2>1, <2>2 DEF Quiet, Closed
  <2>5. CaseEvidence'
    BY <1>4, <2>1, <2>2, <2>3, LatestHeld
  <2>. QED BY <1>3, <2>3, <2>4, <2>5, EvidenceHeld
<1>6. CASE m.found # NoCase
  <2>. DEFINE c == m.found
  <2>1. cases' = Put(c, e, "OPEN")
    BY <1>6 DEF IngestWrite
  <2>2. c \in DOMAIN cases /\ cases[c].scope = m.scope
    BY <1>6 DEF IngestWrite, SplitInv, WorkerRefs
  <2>. HIDE DEF c, e, m
  <2>3. /\ DOMAIN cases' = DOMAIN cases
        /\ \A k \in DOMAIN cases :
             /\ cases'[k].scope = cases[k].scope
             /\ k # c \/ ~Exists(c) => cases'[k] = cases[k]
             /\ k = c /\ Exists(c) => cases'[k].latest = e /\ cases'[k].status = "OPEN"
    BY <2>1, <2>2, PutRows
  <2>4. HistoryKept
    BY <1>4, <2>3 DEF HistoryKept, Exists
  <2>5. Quiet
    BY <1>3, <2>3 DEF Quiet, Closed
  <2>6. CaseEvidence'
    BY <1>4, <2>2, <2>3, <2>4, LatestHeld
  <2>. QED BY <1>3, <2>4, <2>5, <2>6, EvidenceHeld
<1>. QED BY <1>5, <1>6

(* A resolution, and what a recheck makes of its case.                       *)
LEMMA CloseJudged ==
  ASSUME TypeInv, SameScope, NEW a \in Agents,
         ResolveWrite(a) \/ \E d \in Verdicts : RecheckCloses(a, d)
  PROVE  /\ HistoryKept /\ CaseEvidence' /\ AgentEvidence'
         /\ \E d : Resolving(a, d)
<1>. DEFINE c == agent[a].case
            e == agent[a].event
            Closes(d) == \E latest : /\ latest = cases[c].latest \/ latest = e
                                     /\ cases' = Put(c, latest, StatusAfter(d))
<1>1. /\ c \in DOMAIN cases /\ e \in DOMAIN events
      /\ events[e].scope = cases[c].scope
      /\ agent[a].step \in {"resolve", "recheck"}
  BY AgentFields DEF SameScope, AgentEvidence, ResolveWrite, RecheckCloses
<1>2. \E d \in Resolutions : Resolve(c, e, d) /\ Closes(d)
  <2>1. CASE ResolveWrite(a)
    <3>1. agent[a].decision \in Resolutions
      BY <2>1, AgentFields DEF ResolveWrite
    <3>. QED BY <2>1, <3>1 DEF ResolveWrite
  <2>2. ASSUME NEW d \in Verdicts, RecheckCloses(a, d)
        PROVE  \E v \in Resolutions : Resolve(c, e, v) /\ Closes(v)
    <3>1. d \in Resolutions /\ StatusAfter(d) = "RESOLVED"
      BY DEF Resolutions, Verdicts, StatusAfter
    <3>. QED BY <2>2, <3>1 DEF RecheckCloses
  <2>. QED BY <2>1, <2>2
<1>3. PICK d \in Resolutions : Resolve(c, e, d) /\ Closes(d)
  BY <1>2
<1>4. PICK latest : /\ latest = cases[c].latest \/ latest = e
                    /\ cases' = Put(c, latest, StatusAfter(d))
  BY <1>3
<1>5. events' = events
  BY DEF ResolveWrite, RecheckCloses
<1>6. \E state : state.step \in {"idle", "learn"} /\ Becomes(a, state)
  <2>1. Idle.step = "idle" /\ [step |-> "learn"].step = "learn"
    BY DEF Idle
  <2>. QED BY <2>1 DEF ResolveWrite, RecheckCloses
<1>7. Resolving(a, d)
  BY <1>1, <1>3, <1>5, <1>4 DEF Resolving
<1>. HIDE DEF c, e, Closes
<1>8. /\ DOMAIN cases' = DOMAIN cases
      /\ \A k \in DOMAIN cases :
           /\ cases'[k].scope = cases[k].scope
           /\ k # c \/ ~Exists(c) => cases'[k] = cases[k]
           /\ k = c /\ Exists(c) => cases'[k].latest = latest
  BY <1>1, <1>4, PutRows
<1>9. HistoryKept
  BY <1>5, <1>8 DEF HistoryKept, Exists
<1>10. CaseEvidence'
  BY <1>1, <1>5, <1>8, <1>9, <1>4, LatestHeld
<1>11. AgentEvidence'
  BY <1>6, <1>9, EvidenceTaken
<1>. QED BY <1>7, <1>9, <1>10, <1>11

(* A case that is only read, or put back into the queue, is not judged.      *)
LEMMA QueueJudged ==
  ASSUME TypeInv, SameScope, NEW a \in Agents,
         \/ \E c \in DOMAIN cases : \E d \in Resolutions : ResolveRead(a, c, d)
         \/ \E c \in DOMAIN cases : \E p \in Patterns : RecheckRecord(a, c, p)
         \/ RecheckKeeps(a)
  PROVE  HistoryKept /\ Quiet /\ CaseEvidence' /\ AgentEvidence'
<1>0. events \in Seq(Event)
  BY DEF TypeInv, TypeOK
<1>1. ASSUME NEW c \in DOMAIN cases, NEW d \in Resolutions, ResolveRead(a, c, d)
      PROVE  HistoryKept /\ Quiet /\ CaseEvidence' /\ AgentEvidence'
  <2>. DEFINE state == [step |-> "resolve", case |-> c, event |-> cases[c].latest, decision |-> d]
  <2>1. state.case = c /\ state.event = cases[c].latest /\ Becomes(a, state)
    BY <1>1 DEF ResolveRead
  <2>2. UNCHANGED <<events, cases, resolutions, labels, override, worker>>
    BY <1>1 DEF ResolveRead
  <2>. HIDE DEF state
  <2>3. HistoryKept /\ Quiet
    BY <2>2 DEF HistoryKept, Quiet, Exists
  <2>4. CaseEvidence'
    BY <2>2 DEF SameScope, CaseEvidence
  <2>. QED BY <2>1, <2>2, <2>3, <2>4, EvidenceTaken DEF SameScope, CaseEvidence
<1>2. ASSUME NEW c \in DOMAIN cases, NEW p \in Patterns, RecheckRecord(a, c, p)
      PROVE  HistoryKept /\ Quiet /\ CaseEvidence' /\ AgentEvidence'
  <2>. DEFINE e == Len(events) + 1
              row == [scope |-> cases[c].scope, pattern |-> p, asked |-> FALSE]
              state == [step |-> "recheck", case |-> c, event |-> e]
  <2>1. state.case = c /\ state.event = e /\ Becomes(a, state)
    BY <1>2 DEF RecheckRecord
  <2>2. UNCHANGED <<cases, resolutions, labels, override, worker>>
    BY <1>2 DEF RecheckRecord
  <2>3. events' = Append(events, row) /\ row.scope = cases[c].scope
    BY <1>2 DEF RecheckRecord
  <2>. HIDE DEF row, state
  <2>4. /\ DOMAIN events \subseteq DOMAIN events' /\ events'[e].scope = cases[c].scope
        /\ \A i \in DOMAIN events : events'[i] = events[i]
    BY <1>0, <2>3
  <2>. HIDE DEF e
  <2>5. HistoryKept /\ Quiet
    BY <2>2, <2>4 DEF HistoryKept, Quiet, Exists
  <2>6. CaseEvidence'
    BY <2>2, <2>5, LatestHeld
  <2>. QED BY <2>1, <2>2, <2>4, <2>5, <2>6, EvidenceTaken
<1>3. ASSUME RecheckKeeps(a)
      PROVE  HistoryKept /\ Quiet /\ CaseEvidence' /\ AgentEvidence'
  <2>. DEFINE c == agent[a].case
              e == agent[a].event
  <2>1. /\ c \in DOMAIN cases /\ events[e].scope = cases[c].scope
        /\ cases' = Put(c, e, "OPEN") /\ Becomes(a, Idle)
        /\ UNCHANGED <<events, resolutions, labels, override, worker>>
    BY <1>3 DEF RecheckKeeps, SameScope, AgentEvidence
  <2>. HIDE DEF c, e
  <2>2. /\ DOMAIN cases' = DOMAIN cases
        /\ \A k \in DOMAIN cases :
             /\ cases'[k].scope = cases[k].scope
             /\ k # c \/ ~Exists(c) => cases'[k] = cases[k]
             /\ k = c /\ Exists(c) => cases'[k].latest = e /\ cases'[k].status = "OPEN"
    BY <2>1, PutRows
  <2>3. HistoryKept /\ Quiet
    BY <2>1, <2>2 DEF HistoryKept, Quiet, Exists, Closed
  <2>4. CaseEvidence'
    BY <2>1, <2>2, <2>3, LatestHeld
  <2>5. Idle.step = "idle"
    BY DEF Idle
  <2>. QED BY <2>1, <2>3, <2>4, <2>5, EvidenceTaken
<1>. QED BY <1>1, <1>2, <1>3

(* Learning and the auditor's suggestions judge nothing; an accepted one may *)
(* re-open cases.                                                            *)
LEMMA LearningJudged ==
  ASSUME TypeInv, SameScope, NEW a \in Agents,
         \/ PromoteRead(a) \/ PromoteWrite(a) \/ Reject(a)
         \/ \E i \in DOMAIN suggestions : \E v \in {"accept", "reject"} : DecideRead(a, i, v)
         \/ \E S \in SUBSET DOMAIN cases : Accept(a, S)
  PROVE  HistoryKept /\ Quiet /\ CaseEvidence' /\ AgentEvidence'
<1>1. UNCHANGED <<events, resolutions, labels, override, worker>>
  BY DEF PromoteRead, PromoteWrite, Reject, DecideRead, Accept
<1>2. \E state : state.step \notin {"resolve", "recheck"} /\ Becomes(a, state)
  <2>1. Idle.step = "idle" /\ [step |-> "promote", labels |-> labels].step = "promote"
    BY DEF Idle
  <2>2. ASSUME NEW i \in DOMAIN suggestions, NEW v \in {"accept", "reject"}, DecideRead(a, i, v)
        PROVE  \E state : state.step \notin {"resolve", "recheck"} /\ Becomes(a, state)
    <3>. DEFINE state == [step |-> v, row |-> i, decision |-> suggestions[i].decision]
    <3>1. state.step = v /\ Becomes(a, state)
      BY <2>2 DEF DecideRead
    <3>. QED BY <3>1
  <2>. QED BY <2>1, <2>2 DEF PromoteRead, PromoteWrite, Reject, Accept
<1>. DEFINE Reopened(c) ==
              /\ cases'[c].scope = cases[c].scope /\ cases'[c].latest = cases[c].latest
              /\ \/ cases'[c].status = cases[c].status
                 \/ Exists(c) /\ cases'[c].status = "OPEN"
<1>3. DOMAIN cases' = DOMAIN cases /\ \A c \in DOMAIN cases : Reopened(c)
  <2>1. ASSUME NEW S \in SUBSET DOMAIN cases, Accept(a, S)
        PROVE  DOMAIN cases' = DOMAIN cases /\ \A c \in DOMAIN cases : Reopened(c)
    <3>1. cases' = [c \in DOMAIN cases |->
                      IF c \in S /\ Exists(c) THEN [cases[c] EXCEPT !.status = "OPEN"]
                      ELSE cases[c]]
      BY <2>1 DEF Accept
    <3>2. \A c \in DOMAIN cases : cases[c] \in Case
      BY DEF TypeInv, TypeOK
    <3>. QED BY <3>1, <3>2 DEF Case
  <2>. QED BY <2>1 DEF PromoteRead, PromoteWrite, Reject, DecideRead
<1>4. HistoryKept /\ Quiet
  BY <1>1, <1>3 DEF HistoryKept, Quiet, Exists, Closed
<1>5. CaseEvidence'
  BY <1>3, <1>4, LatestHeld
<1>. QED BY <1>2, <1>4, <1>5, EvidenceTaken

(* Suggestions and override edits do not touch a case.                       *)
LEMMA EditJudged ==
  ASSUME TypeInv, SameScope,
         \/ \E p \in Patterns : \E d \in Verdicts : Suggest(p, d)
         \/ \E i \in DOMAIN suggestions : \E d \in Verdicts : Reword(i, d)
         \/ \E ip \in Addresses : \E d \in Verdicts : SetOverride(ip, d)
         \/ \E ip \in Addresses : DropOverride(ip)
         \/ UNCHANGED vars
  PROVE  HistoryKept /\ Quiet /\ CaseEvidence' /\ AgentEvidence'
<1>1. UNCHANGED <<events, cases, resolutions, labels, worker, agent>>
  BY DEF Suggest, Reword, SetOverride, DropOverride, vars
<1>2. \A ip \in Addresses : override'[ip] = override[ip] \/ override'[ip].source # "review"
  <2>1. DOMAIN override = Addresses
    BY DEF TypeInv, TypeOK
  <2>2. ASSUME NEW ip \in Addresses, NEW d \in Verdicts, SetOverride(ip, d)
        PROVE  \A x \in Addresses : override'[x] = override[x] \/ override'[x].source # "review"
    <3>. DEFINE new == [decision |-> d, source |-> "manual"]
    <3>1. override' = [override EXCEPT ![ip] = new] /\ new.source # "review"
      BY <2>2 DEF SetOverride
    <3>. HIDE DEF new
    <3>. QED BY <2>1, <3>1
  <2>3. None.source # "review"
    BY DEF None
  <2>. QED BY <2>1, <2>2, <2>3 DEF Suggest, Reword, DropOverride, vars
<1>3. HistoryKept /\ Quiet
  BY <1>1, <1>2 DEF HistoryKept, Quiet, Exists
<1>. QED BY <1>1, <1>3, LatestHeld, EvidenceHeld

(* Maintenance deletes a case.                                               *)
LEMMA PurgeJudged ==
  ASSUME TypeInv, SameScope, NEW c \in DOMAIN cases, Purge(c)
  PROVE  /\ HistoryKept /\ CaseEvidence' /\ AgentEvidence'
         /\ ~Exists(c)'
         /\ \A k \in DOMAIN cases : k # c => cases'[k] = cases[k]
         /\ DOMAIN cases' = DOMAIN cases
<1>. DEFINE new == [cases[c] EXCEPT !.status = "purged"]
<1>1. cases \in Seq(Case) /\ cases[c] \in Case
  BY DEF TypeInv, TypeOK
<1>2. new.scope = cases[c].scope /\ new.latest = cases[c].latest /\ new.status = "purged"
  BY <1>1 DEF Case
<1>3. cases' = [cases EXCEPT ![c] = new]
  BY DEF Purge
<1>. HIDE DEF new
<1>4. /\ DOMAIN cases' = DOMAIN cases /\ cases'[c] = new
      /\ \A k \in DOMAIN cases : k # c => cases'[k] = cases[k]
  BY <1>1, <1>3
<1>5. HistoryKept
  BY <1>2, <1>4 DEF HistoryKept, Exists, Purge
<1>6. CaseEvidence'
  BY <1>2, <1>4, <1>5, LatestHeld
<1>7. AgentEvidence'
  BY <1>5, EvidenceHeld DEF Purge
<1>. QED BY <1>2, <1>4, <1>5, <1>6, <1>7 DEF Exists

(* Every step is quiet, or a resolution, or the deletion of a closed case.   *)
LEMMA StepKinds ==
  ASSUME TypeInv, SplitInv, SameScope, [Next]_vars
  PROVE  /\ HistoryKept /\ CaseEvidence' /\ AgentEvidence'
         /\ \/ Quiet
            \/ \E a \in Agents : \E d : Resolving(a, d)
            \/ \E c \in DOMAIN cases : Purge(c)
<1>1. ASSUME NEW w \in Workers,
             (\E s \in Scopes : \E p \in Patterns : IngestRead(w, s, p)) \/ IngestWrite(w)
      PROVE  HistoryKept /\ Quiet /\ CaseEvidence' /\ AgentEvidence'
  BY <1>1, ReadJudged, WriteJudged
<1>2. ASSUME NEW a \in Agents, AgentStep(a)
      PROVE  /\ HistoryKept /\ CaseEvidence' /\ AgentEvidence'
             /\ Quiet \/ \E d : Resolving(a, d)
  BY <1>2, CloseJudged, QueueJudged, LearningJudged DEF AgentStep
<1>3. CASE \/ \E p \in Patterns : \E d \in Verdicts : Suggest(p, d)
           \/ \E i \in DOMAIN suggestions : \E d \in Verdicts : Reword(i, d)
           \/ \E ip \in Addresses : \E d \in Verdicts : SetOverride(ip, d)
           \/ \E ip \in Addresses : DropOverride(ip)
           \/ UNCHANGED vars
  BY <1>3, EditJudged
<1>4. CASE \E c \in DOMAIN cases : Purge(c)
  BY <1>4, PurgeJudged
<1>. QED BY <1>1, <1>2, <1>3, <1>4 DEF Next

(* A resolution adds the last row to the record.                             *)
LEMMA ResolvingRows ==
  ASSUME TypeInv, NEW a \in Agents, NEW d, Resolving(a, d)
  PROVE  /\ Len(resolutions) + 1 \in DOMAIN resolutions'
         /\ Len(resolutions) + 1 \in Nat
         /\ resolutions'[Len(resolutions) + 1].case = agent[a].case
         /\ resolutions'[Len(resolutions) + 1].event = agent[a].event
         /\ resolutions'[Len(resolutions) + 1].decision = d
         /\ DOMAIN resolutions' = DOMAIN resolutions \cup {Len(resolutions) + 1}
         /\ \A i \in DOMAIN resolutions :
              /\ resolutions'[i] = resolutions[i]
              /\ i \in Nat /\ i < Len(resolutions) + 1
<1>. DEFINE row == [case |-> agent[a].case, event |-> agent[a].event, decision |-> d]
<1>1. resolutions \in Seq(Resolution)
  BY DEF TypeInv, TypeOK
<1>2. resolutions' = Append(resolutions, row)
  BY DEF Resolving, Resolve
<1>3. row.case = agent[a].case /\ row.event = agent[a].event /\ row.decision = d
  OBVIOUS
<1>. HIDE DEF row
<1>. QED BY <1>1, <1>2, <1>3

(* A deletion marks the resolutions of the case and leaves the others.       *)
LEMMA PurgeRows ==
  ASSUME TypeInv, NEW c \in DOMAIN cases, Purge(c)
  PROVE  /\ DOMAIN resolutions' = DOMAIN resolutions
         /\ \A i \in DOMAIN resolutions :
              /\ resolutions'[i].case = resolutions[i].case
              /\ resolutions'[i].event = resolutions[i].event
              /\ resolutions[i].case = c => resolutions'[i].decision = "deleted"
              /\ resolutions[i].case # c => resolutions'[i] = resolutions[i]
<1>1. \A i \in DOMAIN resolutions : resolutions[i] \in Resolution
  BY DEF TypeInv, TypeOK
<1>2. resolutions' = [i \in DOMAIN resolutions |->
                        IF resolutions[i].case = c
                          THEN [resolutions[i] EXCEPT !.decision = "deleted"]
                        ELSE resolutions[i]]
  BY DEF Purge
<1>. QED BY <1>1, <1>2 DEF Resolution

LEMMA ScopesStep ==
  ASSUME TypeInv, SplitInv, SameScope, [Next]_vars
  PROVE  SameScope'
<1>1. HistoryKept /\ CaseEvidence' /\ AgentEvidence'
  BY StepKinds
<1>2. ResolutionEvidence
  BY DEF SameScope
<1>3. CASE Quiet
  BY <1>1, <1>2, <1>3 DEF ResolutionEvidence, HistoryKept, Quiet, SameScope
<1>4. ASSUME NEW a \in Agents, NEW d, Resolving(a, d)
      PROVE  ResolutionEvidence'
  <2>1. /\ agent[a].case \in DOMAIN cases /\ agent[a].event \in DOMAIN events
        /\ events[agent[a].event].scope = cases[agent[a].case].scope
    BY <1>4, AgentFields DEF Resolving, SameScope, AgentEvidence
  <2>. DEFINE n == Len(resolutions) + 1
  <2>2. /\ DOMAIN resolutions' = DOMAIN resolutions \cup {n}
        /\ resolutions'[n].case = agent[a].case /\ resolutions'[n].event = agent[a].event
        /\ \A i \in DOMAIN resolutions : resolutions'[i] = resolutions[i]
    BY <1>4, ResolvingRows
  <2>. HIDE DEF n
  <2>. QED BY <1>1, <1>2, <2>1, <2>2 DEF ResolutionEvidence, HistoryKept
<1>5. ASSUME NEW c \in DOMAIN cases, Purge(c)
      PROVE  ResolutionEvidence'
  <2>1. /\ DOMAIN resolutions' = DOMAIN resolutions
        /\ \A i \in DOMAIN resolutions : /\ resolutions'[i].case = resolutions[i].case
                                         /\ resolutions'[i].event = resolutions[i].event
    BY <1>5, PurgeRows
  <2>. QED BY <1>1, <1>2, <2>1 DEF ResolutionEvidence, HistoryKept
<1>. QED BY <1>1, <1>3, <1>4, <1>5, StepKinds DEF SameScope

LEMMA ClosedStep ==
  ASSUME TypeInv, SplitInv, SameScope, ClosedAsJudged, [Next]_vars
  PROVE  ClosedAsJudged'
<1>1. CASE Quiet
  BY <1>1 DEF ClosedAsJudged, Quiet, IsLast, OfCase, OnRecord
<1>2. ASSUME NEW a \in Agents, NEW d, Resolving(a, d)
      PROVE  ClosedAsJudged'
  <2>. DEFINE c == agent[a].case
              n == Len(resolutions) + 1
  <2>1. c \in DOMAIN cases /\ d \in Resolutions
    BY <1>2 DEF Resolving, SameScope, AgentEvidence
  <2>2. /\ n \in DOMAIN resolutions' /\ n \in Nat
        /\ resolutions'[n].case = c /\ resolutions'[n].decision = d
        /\ DOMAIN resolutions' = DOMAIN resolutions \cup {n}
        /\ \A i \in DOMAIN resolutions :
             resolutions'[i] = resolutions[i] /\ i \in Nat /\ i < n
    BY <1>2, ResolvingRows
  <2>3. /\ DOMAIN cases' = DOMAIN cases
        /\ \A k \in DOMAIN cases :
             /\ k # c \/ ~Exists(c) => cases'[k] = cases[k]
             /\ k = c /\ Exists(c) => cases'[k].status = StatusAfter(d)
    BY <1>2, <2>1, PutRows DEF Resolving
  <2>. HIDE DEF c, n
  <2>4. d # "deleted"
    BY <2>1 DEF Resolutions, Verdicts
  <2>5. ASSUME NEW k \in DOMAIN cases', cases'[k].status \in Closed, k = c
        PROVE  /\ n \in OfCase(k)' /\ \A j \in OfCase(k)' : j <= n
               /\ cases'[k].status = StatusAfter(resolutions'[n].decision)
    <3>1. cases'[k].status = StatusAfter(d)
      BY <2>3, <2>5 DEF Exists, Closed
    <3>2. n \in OfCase(k)'
      BY <2>2, <2>4, <2>5 DEF OfCase, OnRecord
    <3>3. \A j \in OfCase(k)' : j <= n
      BY <2>2 DEF OfCase, OnRecord
    <3>. QED BY <2>2, <3>1, <3>2, <3>3
  <2>6. ASSUME NEW k \in DOMAIN cases', cases'[k].status \in Closed, k # c
        PROVE  \E i \in DOMAIN resolutions' :
                 /\ i \in OfCase(k)' /\ \A j \in OfCase(k)' : j <= i
                 /\ cases'[k].status = StatusAfter(resolutions'[i].decision)
    <3>1. PICK i \in DOMAIN resolutions :
            IsLast(i, OfCase(k)) /\ cases[k].status = StatusAfter(resolutions[i].decision)
      BY <2>3, <2>6 DEF ClosedAsJudged
    <3>2. OfCase(k)' = OfCase(k)
      BY <2>2, <2>6 DEF OfCase, OnRecord
    <3>. QED BY <2>2, <2>3, <2>6, <3>1, <3>2 DEF IsLast
  <2>. QED BY <2>2, <2>5, <2>6 DEF ClosedAsJudged, IsLast
<1>3. ASSUME NEW c \in DOMAIN cases, Purge(c)
      PROVE  ClosedAsJudged'
  <2>1. /\ ~Exists(c)' /\ DOMAIN cases' = DOMAIN cases
        /\ \A k \in DOMAIN cases : k # c => cases'[k] = cases[k]
    BY <1>3, PurgeJudged
  <2>2. /\ DOMAIN resolutions' = DOMAIN resolutions
        /\ \A i \in DOMAIN resolutions :
             /\ resolutions'[i].case = resolutions[i].case
             /\ resolutions[i].case # c => resolutions'[i] = resolutions[i]
    BY <1>3, PurgeRows
  <2>3. ASSUME NEW k \in DOMAIN cases', cases'[k].status \in Closed
        PROVE  \E i \in DOMAIN resolutions' :
                 /\ i \in OfCase(k)' /\ \A j \in OfCase(k)' : j <= i
                 /\ cases'[k].status = StatusAfter(resolutions'[i].decision)
    <3>1. k # c
      BY <2>1, <2>3 DEF Exists, Closed
    <3>2. PICK i \in DOMAIN resolutions :
            IsLast(i, OfCase(k)) /\ cases[k].status = StatusAfter(resolutions[i].decision)
      BY <2>1, <2>3, <3>1 DEF ClosedAsJudged
    <3>3. OfCase(k)' = OfCase(k)
      BY <2>2, <3>1 DEF OfCase, OnRecord
    <3>4. resolutions'[i] = resolutions[i]
      BY <2>2, <3>1, <3>2 DEF IsLast, OfCase
    <3>. QED BY <2>1, <2>2, <3>1, <3>2, <3>3, <3>4 DEF IsLast
  <2>. QED BY <2>3 DEF ClosedAsJudged, IsLast
<1>. QED BY <1>1, <1>2, <1>3, StepKinds

LEMMA LabelsStep ==
  ASSUME TypeInv, SplitInv, SameScope, LabelsFollowVerdicts, [Next]_vars
  PROVE  LabelsFollowVerdicts'
<1>0. \A i \in DOMAIN resolutions : resolutions[i].event \in DOMAIN events
  BY DEF SameScope, ResolutionEvidence
<1>. DEFINE Follows(l, i) ==
              /\ resolutions[i].decision = l.decision
              /\ events[resolutions[i].event].pattern = l.pattern
              /\ \A j \in OfCase(l.case) : j > i => resolutions[j].decision # "SKIP"
            FollowsNext(l, i) ==
              /\ resolutions'[i].decision = l.decision
              /\ events'[resolutions'[i].event].pattern = l.pattern
              /\ \A j \in OfCase(l.case)' : j > i => resolutions'[j].decision # "SKIP"
<1>1. \A l \in labels : \E i \in OfCase(l.case) : Follows(l, i)
  BY DEF LabelsFollowVerdicts
<1>2. HistoryKept
  BY StepKinds
<1>3. ASSUME Quiet, NEW l \in labels'
      PROVE  \E i \in OfCase(l.case)' : FollowsNext(l, i)
  <2>1. l \in labels /\ OfCase(l.case)' = OfCase(l.case)
    BY <1>3 DEF Quiet, OfCase, OnRecord
  <2>2. PICK i \in OfCase(l.case) : Follows(l, i)
    BY <1>1, <2>1
  <2>3. i \in DOMAIN resolutions
    BY <2>2 DEF OfCase, OnRecord
  <2>. QED BY <1>0, <1>2, <1>3, <2>1, <2>2, <2>3 DEF Quiet, HistoryKept
<1>4. ASSUME NEW a \in Agents, NEW d, Resolving(a, d), NEW l \in labels'
      PROVE  \E i \in OfCase(l.case)' : FollowsNext(l, i)
  <2>. DEFINE c == agent[a].case
              e == agent[a].event
              n == Len(resolutions) + 1
              new == [case |-> c, pattern |-> events[e].pattern, decision |-> d]
  <2>1. /\ n \in DOMAIN resolutions' /\ n \in Nat
        /\ resolutions'[n].case = c /\ resolutions'[n].event = e
        /\ resolutions'[n].decision = d
        /\ DOMAIN resolutions' = DOMAIN resolutions \cup {n}
        /\ \A i \in DOMAIN resolutions :
             resolutions'[i] = resolutions[i] /\ i \in Nat /\ i < n
    BY <1>4, ResolvingRows
  <2>2. events' = events /\ d # "deleted"
    BY <1>4 DEF Resolving, Resolutions, Verdicts
  <2>3. labels' = Labelled(c, events[e].pattern, d)
    BY <1>4 DEF Resolving, Resolve
  <2>4. \/ l \in labels /\ (d = "SKIP" => l.case # c)
        \/ l = new /\ d # "SKIP"
    BY <2>3 DEF Labelled
  <2>5. new.case = c /\ new.pattern = events[e].pattern /\ new.decision = d
    OBVIOUS
  <2>. HIDE DEF c, e, n, new
  <2>6. CASE l = new /\ d # "SKIP"
    <3>1. n \in OfCase(l.case)'
      BY <2>1, <2>2, <2>5, <2>6 DEF OfCase, OnRecord
    <3>2. \A j \in OfCase(l.case)' : j <= n
      BY <2>1 DEF OfCase, OnRecord
    <3>3. \A j \in OfCase(l.case)' : j \in Nat
      BY <2>1 DEF OfCase, OnRecord
    <3>4. \A j \in OfCase(l.case)' : ~(j > n)
      BY <2>1, <3>2, <3>3
    <3>. QED BY <2>1, <2>2, <2>5, <2>6, <3>1, <3>4
  <2>7. CASE l \in labels /\ (d = "SKIP" => l.case # c)
    <3>1. PICK i \in OfCase(l.case) : Follows(l, i)
      BY <1>1, <2>7
    <3>2. i \in DOMAIN resolutions /\ i \in OfCase(l.case)' /\ resolutions'[i] = resolutions[i]
      BY <2>1, <3>1 DEF OfCase, OnRecord
    <3>3. ASSUME NEW j \in OfCase(l.case)', j > i
          PROVE  resolutions'[j].decision # "SKIP"
      <4>1. CASE j = n
        <5>1. l.case = c
          BY <2>1, <4>1 DEF OfCase
        <5>. QED BY <2>1, <2>7, <4>1, <5>1
      <4>2. CASE j # n
        <5>1. j \in OfCase(l.case) /\ resolutions'[j] = resolutions[j]
          BY <2>1, <4>2 DEF OfCase, OnRecord
        <5>. QED BY <3>1, <3>3, <5>1
      <4>. QED BY <4>1, <4>2
    <3>. QED BY <2>2, <3>1, <3>2, <3>3
  <2>. QED BY <2>4, <2>6, <2>7
<1>5. ASSUME NEW c \in DOMAIN cases, Purge(c), NEW l \in labels'
      PROVE  \E i \in OfCase(l.case)' : FollowsNext(l, i)
  <2>1. l \in labels /\ l.case # c /\ events' = events
    BY <1>5 DEF Purge
  <2>2. /\ DOMAIN resolutions' = DOMAIN resolutions
        /\ \A i \in DOMAIN resolutions :
             /\ resolutions'[i].case = resolutions[i].case
             /\ resolutions[i].case # c => resolutions'[i] = resolutions[i]
    BY <1>5, PurgeRows
  <2>3. OfCase(l.case)' = OfCase(l.case)
    BY <2>1, <2>2 DEF OfCase, OnRecord
  <2>4. \A i \in OfCase(l.case) : resolutions'[i] = resolutions[i]
    BY <2>1, <2>2 DEF OfCase, OnRecord
  <2>5. PICK i \in OfCase(l.case) : Follows(l, i)
    BY <1>1, <2>1
  <2>. QED BY <2>1, <2>3, <2>4, <2>5
<1>6. \A l \in labels' : \E i \in OfCase(l.case)' : FollowsNext(l, i)
  BY <1>3, <1>4, <1>5, StepKinds
<1>. QED BY <1>6 DEF LabelsFollowVerdicts

LEMMA OverrideStep ==
  ASSUME TypeInv, SplitInv, SameScope, OverrideIsLastWord, [Next]_vars
  PROVE  OverrideIsLastWord'
<1>. DEFINE CaseGone(ip) == \E c \in DOMAIN cases : ~Exists(c) /\ AddressOf[cases[c].scope] = ip
            CaseGoneNext(ip) ==
              \E c \in DOMAIN cases' : ~Exists(c)' /\ AddressOf[cases'[c].scope] = ip
            LastWord(ip) ==
              \E i \in OfAddress(ip) : /\ \A j \in OfAddress(ip) : j <= i
                                       /\ resolutions[i].decision = override[ip].decision
            LastWordNext(ip) ==
              \E i \in OfAddress(ip)' : /\ \A j \in OfAddress(ip)' : j <= i
                                        /\ resolutions'[i].decision = override'[ip].decision
<1>1. \A ip \in Addresses : override[ip].source = "review" => CaseGone(ip) \/ LastWord(ip)
  BY DEF OverrideIsLastWord, IsLast
<1>2. HistoryKept
  BY StepKinds
<1>3. \A ip \in Addresses : CaseGone(ip) => CaseGoneNext(ip)
  BY <1>2 DEF HistoryKept
<1>4. /\ \A i \in DOMAIN resolutions : resolutions[i].event \in DOMAIN events
      /\ DOMAIN override = Addresses
  BY DEF SameScope, ResolutionEvidence, TypeInv, TypeOK
<1>5. ASSUME Quiet, NEW ip \in Addresses, override'[ip].source = "review"
      PROVE  CaseGoneNext(ip) \/ LastWordNext(ip)
  <2>1. resolutions' = resolutions /\ override'[ip] = override[ip]
    BY <1>5 DEF Quiet
  <2>2. OfAddress(ip)' = OfAddress(ip)
    BY <1>2, <1>4, <2>1 DEF OfAddress, OnRecord, HistoryKept
  <2>. QED BY <1>1, <1>3, <1>5, <2>1, <2>2
<1>6. ASSUME NEW a \in Agents, NEW d, Resolving(a, d),
             NEW ip \in Addresses, override'[ip].source = "review"
      PROVE  CaseGoneNext(ip) \/ LastWordNext(ip)
  <2>. DEFINE e == agent[a].event
              at == AddressOf[events[e].scope]
              n == Len(resolutions) + 1
              new == [decision |-> d, source |-> "review"]
  <2>1. /\ n \in DOMAIN resolutions' /\ n \in Nat
        /\ resolutions'[n].event = e /\ resolutions'[n].decision = d
        /\ DOMAIN resolutions' = DOMAIN resolutions \cup {n}
        /\ \A i \in DOMAIN resolutions :
             resolutions'[i] = resolutions[i] /\ i \in Nat /\ i < n
    BY <1>6, ResolvingRows
  <2>2. events' = events /\ d # "deleted"
    BY <1>6 DEF Resolving, Resolutions, Verdicts
  <2>3. override' = Overridden(at, d)
    BY <1>6 DEF Resolving, Resolve
  <2>4. None.source # "review" /\ new.decision = d
    BY DEF None
  <2>. HIDE DEF e, n, new
  <2>5. CASE ip = at
    <3>1. d # "SKIP" /\ override'[ip] = new
      BY <1>4, <1>6, <2>3, <2>4, <2>5 DEF Overridden, new
    <3>2. n \in OfAddress(ip)'
      BY <2>1, <2>2, <2>5 DEF OfAddress, OnRecord
    <3>3. \A j \in OfAddress(ip)' : j <= n
      BY <2>1 DEF OfAddress, OnRecord
    <3>. QED BY <2>1, <2>4, <3>1, <3>2, <3>3
  <2>6. CASE ip # at
    <3>1. override'[ip] = override[ip]
      BY <1>4, <2>3, <2>6 DEF Overridden
    <3>2. n \notin OfAddress(ip)'
      BY <2>1, <2>2, <2>6 DEF OfAddress
    <3>3. OfAddress(ip)' = OfAddress(ip)
      BY <2>1, <2>2, <3>2 DEF OfAddress, OnRecord
    <3>4. \A i \in OfAddress(ip) : resolutions'[i] = resolutions[i]
      BY <2>1 DEF OfAddress, OnRecord
    <3>. QED BY <1>1, <1>3, <1>6, <3>1, <3>3, <3>4
  <2>. QED BY <2>5, <2>6
<1>7. ASSUME NEW c \in DOMAIN cases, Purge(c),
             NEW ip \in Addresses, override'[ip].source = "review"
      PROVE  CaseGoneNext(ip) \/ LastWordNext(ip)
  <2>1. ~Exists(c)' /\ c \in DOMAIN cases' /\ cases'[c].scope = cases[c].scope
    BY <1>2, <1>7, PurgeJudged DEF HistoryKept
  <2>2. CASE AddressOf[cases[c].scope] = ip
    BY <2>1, <2>2
  <2>3. CASE AddressOf[cases[c].scope] # ip
    <3>1. events' = events /\ override' = override
      BY <1>7 DEF Purge
    <3>2. /\ DOMAIN resolutions' = DOMAIN resolutions
          /\ \A i \in DOMAIN resolutions :
               /\ resolutions'[i].event = resolutions[i].event
               /\ resolutions[i].case = c => resolutions'[i].decision = "deleted"
               /\ resolutions[i].case # c => resolutions'[i] = resolutions[i]
      BY <1>7, PurgeRows
    <3>3. \A i \in OfAddress(ip) : resolutions[i].case # c
      BY <2>3 DEF OfAddress, OnRecord, SameScope, ResolutionEvidence
    <3>4. \A i \in DOMAIN resolutions :
            AddressOf[events[resolutions[i].event].scope] = ip => resolutions[i].case # c
      BY <2>3 DEF SameScope, ResolutionEvidence
    <3>5. OfAddress(ip)' = OfAddress(ip)
      BY <3>1, <3>2, <3>4 DEF OfAddress, OnRecord
    <3>6. \A i \in OfAddress(ip) : resolutions'[i] = resolutions[i]
      BY <3>2, <3>3 DEF OfAddress, OnRecord
    <3>. QED BY <1>1, <1>3, <1>7, <3>1, <3>5, <3>6
  <2>. QED BY <2>2, <2>3
<1>8. \A ip \in Addresses :
        override'[ip].source = "review" => CaseGoneNext(ip) \/ LastWordNext(ip)
  BY <1>5, <1>6, <1>7, StepKinds
<1>. QED BY <1>8 DEF OverrideIsLastWord, IsLast, OfAddress, OnRecord

LEMMA JudgedHolds == Spec => []JudgedInv
<1>1. Init => JudgedInv
  <2>. SUFFICES ASSUME Init PROVE JudgedInv
    OBVIOUS
  <2>1. SameScope
    BY DEF Init, SameScope, CaseEvidence, AgentEvidence, ResolutionEvidence, Idle
  <2>2. ClosedAsJudged /\ LabelsFollowVerdicts
    BY DEF Init, ClosedAsJudged, LabelsFollowVerdicts
  <2>3. OverrideIsLastWord
    BY DEF Init, OverrideIsLastWord, None
  <2>. QED BY <2>1, <2>2, <2>3 DEF JudgedInv
<1>2. TypeInv /\ SplitInv /\ JudgedInv /\ [Next]_vars => JudgedInv'
  <2>. SUFFICES ASSUME TypeInv, SplitInv, JudgedInv, [Next]_vars
                PROVE  JudgedInv'
    OBVIOUS
  <2>1. SameScope /\ ClosedAsJudged /\ LabelsFollowVerdicts /\ OverrideIsLastWord
    BY DEF JudgedInv
  <2>2. SameScope' /\ ClosedAsJudged'
    BY <2>1, ScopesStep, ClosedStep
  <2>3. LabelsFollowVerdicts' /\ OverrideIsLastWord'
    BY <2>1, LabelsStep, OverrideStep
  <2>. QED BY <2>2, <2>3 DEF JudgedInv
<1>. QED BY <1>1, <1>2, TypesAndSplits, PTL DEF Spec

(* A case is closed only by a resolution on record, and its status is that   *)
(* of the last one: of the moderator's, auto-resolution's or recheck's       *)
(* decision that was written last, whatever re-opened the case before it.    *)
THEOREM CasesClosedAsJudged == Spec => []ClosedAsJudged
<1>1. JudgedInv => ClosedAsJudged
  BY DEF JudgedInv
<1>. QED BY <1>1, JudgedHolds, PTL

(* What the panel learns from was said by a resolution of that case and      *)
(* pattern (_record_labels_for_resolution) and no later SKIP withdrew it.    *)
THEOREM LabelsAreVerdicts == Spec => []LabelsFollowVerdicts
<1>1. JudgedInv => LabelsFollowVerdicts
  BY DEF JudgedInv
<1>. QED BY <1>1, JudgedHolds, PTL

(* An override that a review set carries the decision of the last            *)
(* resolution of its address, unless a case of the address was deleted.      *)
THEOREM OverrideHasLastWord == Spec => []OverrideIsLastWord
<1>1. JudgedInv => OverrideIsLastWord
  BY DEF JudgedInv
<1>. QED BY <1>1, JudgedHolds, PTL
=============================================================================
