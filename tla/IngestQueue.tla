---------------------------- MODULE IngestQueue ----------------------------
(***************************************************************************)
(* The raw-event queue of the panel: table ingested_raw_events, the ingest  *)
(* worker that claims and processes its rows, and the maintenance that      *)
(* deletes them.                                                            *)
(*                                                                         *)
(* A worker claims a batch under a lease, analyses each row, and commits    *)
(* all effects of an event in one transaction; review auto-resolution and   *)
(* notifications happen after that commit.  Any exception sends the row     *)
(* back to the queue or, when permanent or out of attempts, to 'failed'.    *)
(* A crash, a cancelled task or an exception outside the per-row handler    *)
(* loses the batch; its rows stay 'processing' until the lease expires.     *)
(*                                                                         *)
(* The backend is PostgreSQL, the only one the storage settings accept: its *)
(* adapter drops BEGIN IMMEDIATE, so that claims and commits of two workers *)
(* interleave between their statements.                                     *)
(***************************************************************************)
EXTENDS Naturals, Sequences, FiniteSets

CONSTANTS
  Events,         \* event uids
  Malformed,      \* events whose payload raises ValueError whenever processed
  Workers,        \* ingest_worker_loop instances, one per API process
  BatchLimit,     \* INGEST_CLAIM_BATCH_SIZE
  MaxAttempts,    \* INGEST_MAX_ATTEMPTS
  Bounds          \* bounds, one of which holds in a behaviour: the events that
                  \* arrive, the batches lost to crashes and aborts, the leases
                  \* that run out while their worker is alive, the maintenance
                  \* passes that delete something

ASSUME IngestAssumption ==
  /\ Malformed \subseteq Events
  /\ BatchLimit \in Nat \ {0}
  /\ MaxAttempts \in Nat \ {0}
  /\ Bounds \subseteq [events : SUBSET Events, losses : Nat, expiries : Nat, purges : Nat]

VARIABLES
  rows,           \* ingested_raw_events, by event_uid
  arrivals,       \* how many rows were ever inserted (the next row id)
  analyses,       \* analysis_events id recorded for an event, 0 when none
  claims,         \* per worker: the rest of its claimed batch
  selected,       \* per worker: rows an open claim has read and not yet stamped
  pc,             \* per worker: where it stands with the head of its batch
  aux,            \* per worker: what it read or committed for that head
  journal,        \* history: events in the order their effects were committed
  forgotten,      \* history: analysis ids deleted by maintenance
  announced,      \* history: analysis ids in the order they were announced
  exempted,       \* history: events settled by an exemption, unanalysed
  lost,           \* history: how often an event's lease or row was lost, or its row
                  \* was claimed from a reading that was out of date
  bound           \* what is left of the bounds of this behaviour

queueVars  == <<rows, arrivals>>
workerVars == <<claims, selected, pc, aux>>
effectVars == <<analyses, journal, forgotten, announced, exempted>>
vars == <<queueVars, workerVars, effectVars, lost, bound>>

-----------------------------------------------------------------------------
(* Rows, claims and worker positions *)

RowStates == {"absent", "queued", "processing", "processed", "failed"}

Row == [state : RowStates, id : Nat, attempts : Nat, due : BOOLEAN,
        leased : BOOLEAN, link : Nat]

Absent == [state |-> "absent", id |-> 0, attempts |-> 0, due |-> FALSE,
           leased |-> FALSE, link |-> 0]

\* A row as the claim read it: the worker never re-reads attempt_count.
ClaimRecord == [event : Events, id : Nat, attempts : Nat]

Positions == {"ready", "claiming", "commit", "post", "failing"}

Present == {e \in Events : rows[e].state # "absent"}

Queued == {e \in Events : rows[e].state = "queued"}

Due == {e \in Queued : rows[e].due}

Expired == {e \in Events : rows[e].state = "processing" /\ ~rows[e].leased}

\* The head of a batch: rows are processed in (received_at, id) order.
IsHead(w, c) ==
  /\ c \in claims[w]
  /\ \A d \in claims[w] : c.id <= d.id

\* A worker holds an event from its claim until it moves past the row.
Holds(w, e) == \E c \in claims[w] : c.event = e

\* Any LIMIT oldest members of S in id order.
IsOldest(chosen, S) ==
  /\ chosen \subseteq S
  /\ \A e \in chosen, f \in S \ chosen : rows[e].id <= rows[f].id
  /\ \/ chosen = S
     \/ Cardinality(chosen) = BatchLimit
  /\ Cardinality(chosen) <= BatchLimit

-----------------------------------------------------------------------------
(* Row updates, one per UPDATE statement *)

\* Mutant: the claim stamps the row but leaves its state 'queued'.
ClaimedWithoutState(r) == [r EXCEPT !.leased = TRUE, !.attempts = @ + 1]

Claimed(r) == [r EXCEPT !.state = "processing", !.leased = TRUE,
                        !.attempts = @ + 1]

Reclaimed(r) == [r EXCEPT !.state = "queued", !.leased = FALSE]

\* UPDATE ... WHERE event_uid = ?: nothing happens when the row is gone.
Processed(r, link) ==
  IF r.state = "absent" THEN r
  ELSE [r EXCEPT !.state = "processed", !.leased = FALSE, !.link = link]

\* The exemption branches leave analysis_event_id alone.
Skipped(r) ==
  IF r.state = "absent" THEN r
  ELSE [r EXCEPT !.state = "processed", !.leased = FALSE]

\* mark_raw_event_retry compares neither the owner nor the state.
Retried(r, deadLetter) ==
  IF r.state = "absent" THEN r
  ELSE [r EXCEPT !.state = IF deadLetter THEN "failed" ELSE "queued",
                 !.leased = FALSE, !.due = FALSE]

-----------------------------------------------------------------------------
Idle == [analysis |-> 0, permanent |-> FALSE]

Init ==
  /\ rows = [e \in Events |-> Absent]
  /\ arrivals = 0
  /\ analyses = [e \in Events |-> 0]
  /\ claims = [w \in Workers |-> {}]
  /\ selected = [w \in Workers |-> {}]
  /\ pc = [w \in Workers |-> "ready"]
  /\ aux = [w \in Workers |-> Idle]
  /\ journal = <<>>
  /\ forgotten = {}
  /\ announced = <<>>
  /\ exempted = {}
  /\ lost = [e \in Events |-> 0]
  /\ bound \in Bounds

(* A module posts an event: INSERT OR IGNORE on the unique event_uid, so a  *)
(* duplicate delivery leaves the row as it is.                              *)
Fresh(e) == [Absent EXCEPT !.state = "queued", !.id = arrivals + 1, !.due = TRUE]

Enqueue(e) ==
  /\ e \in bound.events
  /\ IF e \in Present
     THEN UNCHANGED queueVars
     ELSE /\ rows' = [rows EXCEPT ![e] = Fresh(e)]
          /\ arrivals' = arrivals + 1
  /\ UNCHANGED <<workerVars, effectVars, lost, bound>>

BackoffElapses(e) ==
  /\ rows[e].state = "queued"
  /\ ~rows[e].due
  /\ rows' = [rows EXCEPT ![e].due = TRUE]
  /\ UNCHANGED <<arrivals, workerVars, effectVars, lost, bound>>

(* Mutant: only rows with a live holder lose their lease. *)
LeaseExpiresIfHeld(e) ==
  /\ rows[e].state = "processing"
  /\ rows[e].leased
  /\ \E w \in Workers : Holds(w, e)
  /\ bound.expiries > 0
  /\ bound' = [bound EXCEPT !.expiries = @ - 1]
  /\ rows' = [rows EXCEPT ![e].leased = FALSE]
  /\ UNCHANGED <<arrivals, workerVars, effectVars, lost>>

(* INGEST_CLAIM_TIMEOUT_SECONDS pass.  A row nobody holds always gets       *)
(* there; how often a live worker is overtaken is bounded.                  *)
LeaseExpires(e) ==
  /\ rows[e].state = "processing"
  /\ rows[e].leased
  /\ rows' = [rows EXCEPT ![e].leased = FALSE]
  /\ IF \E w \in Workers : Holds(w, e)
     THEN bound.expiries > 0 /\ bound' = [bound EXCEPT !.expiries = @ - 1]
     ELSE UNCHANGED bound
  /\ UNCHANGED <<arrivals, workerVars, effectVars, lost>>

-----------------------------------------------------------------------------
(* claim_raw_events *)

RecordOf(e) ==
  [event |-> e, id |-> rows[e].id, attempts |-> rows[e].attempts + 1]

Claimable == {e \in Due \cup Expired : rows[e].due}

Idling(w) == pc[w] = "ready" /\ claims[w] = {} /\ Due \cup Expired # {}

LoseLeases ==
  lost' = [e \in Events |-> IF e \in Expired THEN lost[e] + 1 ELSE lost[e]]

(* READ COMMITTED: the reclaiming UPDATE locks the expired rows until the   *)
(* claim commits, so for them the claim is atomic; the rows that were       *)
(* already queued are only read here.                                       *)
ClaimSelect(w) ==
  /\ Idling(w)
  /\ \E chosen \in SUBSET Events :
       /\ IsOldest(chosen, Claimable)
       /\ rows' = [e \in Events |->
                     CASE e \in Expired \cap chosen -> Claimed(rows[e])
                       [] e \in Expired \ chosen -> Reclaimed(rows[e])
                       [] OTHER -> rows[e]]
       /\ claims' = [claims EXCEPT
                       ![w] = {RecordOf(e) : e \in chosen \cap Expired}]
       /\ selected' = [selected EXCEPT
                         ![w] = {[event |-> e, id |-> rows[e].id] :
                                   e \in chosen \ Expired}]
  /\ pc' = [pc EXCEPT ![w] = "claiming"]
  /\ LoseLeases
  /\ UNCHANGED <<arrivals, aux, effectVars, bound>>

(* UPDATE ... WHERE id IN (...): the state read by the SELECT is not        *)
(* checked again, so a row that another worker claimed or even settled in   *)
(* between is claimed once more.                                            *)
ClaimUpdate(w) ==
  /\ pc[w] = "claiming"
  /\ LET taken == {e \in Events : [event |-> e, id |-> rows[e].id] \in selected[w]}
     IN /\ rows' = [e \in Events |->
                      IF e \in taken THEN Claimed(rows[e]) ELSE rows[e]]
        /\ claims' = [claims EXCEPT ![w] = @ \cup {RecordOf(e) : e \in taken}]
        /\ lost' = [e \in Events |-> IF e \in taken \ Queued THEN lost[e] + 1 ELSE lost[e]]
  /\ selected' = [selected EXCEPT ![w] = {}]
  /\ pc' = [pc EXCEPT ![w] = "ready"]
  /\ UNCHANGED <<arrivals, aux, effectVars, bound>>

-----------------------------------------------------------------------------
(* _process_claimed_event and the handler around it.  c is the head of w's  *)
(* batch in every action.                                                   *)

Advance(w, c) ==
  /\ claims' = [claims EXCEPT ![w] = @ \ {c}]
  /\ pc' = [pc EXCEPT ![w] = "ready"]
  /\ aux' = [aux EXCEPT ![w] = Idle]
  /\ UNCHANGED selected

Goto(w, position, analysis, permanent) ==
  /\ pc' = [pc EXCEPT ![w] = position]
  /\ aux' = [aux EXCEPT ![w] = [analysis |-> analysis, permanent |-> permanent]]
  /\ UNCHANGED <<claims, selected>>

(* Mutant: the exemption commits and then raises. *)
SkipExemptThenRaise(w, c) ==
  /\ pc[w] = "ready"
  /\ c.event \notin Malformed
  /\ rows' = [rows EXCEPT ![c.event] = Skipped(@)]
  /\ exempted' = exempted \cup {c.event}
  /\ Goto(w, "failing", 0, FALSE)
  /\ UNCHANGED <<arrivals, analyses, journal, forgotten, announced, lost, bound>>

(* The exemption branches settle the row without an analysis. *)
SkipExempt(w, c) ==
  /\ pc[w] = "ready"
  /\ c.event \notin Malformed
  /\ rows' = [rows EXCEPT ![c.event] = Skipped(@)]
  /\ exempted' = exempted \cup {c.event}
  /\ Advance(w, c)
  /\ UNCHANGED <<arrivals, analyses, journal, forgotten, announced, lost, bound>>

(* Anything raised before the commit: a malformed payload (permanent), a    *)
(* remote lookup, the analysis, or the transaction itself.                  *)
FailBeforeCommit(w, c, permanent) ==
  /\ pc[w] \in {"ready", "commit"}
  /\ c.event \in Malformed => permanent
  /\ Goto(w, "failing", 0, permanent)
  /\ UNCHANGED <<queueVars, effectVars, lost, bound>>

(* The duplicate check is a plain read inside the transaction. *)
BeginCommit(w, c) ==
  /\ pc[w] = "ready"
  /\ c.event \notin Malformed
  /\ Goto(w, "commit", analyses[c.event], FALSE)
  /\ UNCHANGED <<queueVars, effectVars, lost, bound>>

\* Mutant: source_event_uid has no unique index.
IndexAbsent(e) == TRUE

\* The unique index on source_event_uid admits one analysis row per event.
IndexAdmits(e) == analyses[e] = 0

(* The transaction of a new event: analysis row, behavioural evidence,      *)
(* review case, enforcement plan and the row's 'processed' state commit     *)
(* together.                                                                *)
CommitEffects(w, c) ==
  /\ pc[w] = "commit"
  /\ aux[w].analysis = 0
  /\ IndexAdmits(c.event)
  /\ LET id == Len(journal) + 1
     IN /\ analyses' = [analyses EXCEPT ![c.event] = id]
        /\ journal' = Append(journal, c.event)
        /\ rows' = [rows EXCEPT ![c.event] = Processed(@, id)]
        /\ Goto(w, "post", id, FALSE)
  /\ UNCHANGED <<arrivals, forgotten, announced, exempted, lost, bound>>

(* The event was analysed before: settle the row and return at once, with   *)
(* no enforcement, auto-review or notification.                             *)
CommitDuplicate(w, c) ==
  /\ pc[w] = "commit"
  /\ aux[w].analysis # 0
  /\ rows' = [rows EXCEPT ![c.event] = Processed(@, aux[w].analysis)]
  /\ Advance(w, c)
  /\ UNCHANGED <<arrivals, effectVars, lost, bound>>

(* Another worker committed the same event after this one's check.  The     *)
(* unique violation reaches the handler as an OperationalError, hence as a  *)
(* transient failure.                                                       *)
IndexConflict(w, c) ==
  /\ pc[w] = "commit"
  /\ aux[w].analysis = 0
  /\ ~IndexAdmits(c.event)
  /\ Goto(w, "failing", 0, FALSE)
  /\ UNCHANGED <<queueVars, effectVars, lost, bound>>

(* After the commit: auto-resolution of the review case and notifications. *)
FinishEvent(w, c) ==
  /\ pc[w] = "post"
  /\ announced' = Append(announced, aux[w].analysis)
  /\ Advance(w, c)
  /\ UNCHANGED <<queueVars, analyses, journal, forgotten, exempted, lost, bound>>

(* get_review_case or resolve_review_case raises after the commit. *)
FailAfterCommit(w, c, permanent) ==
  /\ pc[w] = "post"
  /\ Goto(w, "failing", aux[w].analysis, permanent)
  /\ UNCHANGED <<queueVars, effectVars, lost, bound>>

(* The except branch: mark_raw_event_retry with the claimed attempt count. *)
MarkRetry(w, c) ==
  /\ pc[w] = "failing"
  /\ rows' = [rows EXCEPT ![c.event] =
                Retried(@, aux[w].permanent \/ c.attempts >= MaxAttempts)]
  /\ Advance(w, c)
  /\ UNCHANGED <<arrivals, effectVars, lost, bound>>

(* The process dies, the task is cancelled, or an exception escapes the     *)
(* per-row handler (the batch context, mark_raw_event_retry itself).        *)
LoseBatch(w) ==
  /\ claims[w] # {}
  /\ pc[w] # "claiming"
  /\ bound.losses > 0
  /\ bound' = [bound EXCEPT !.losses = @ - 1]
  /\ claims' = [claims EXCEPT ![w] = {}]
  /\ pc' = [pc EXCEPT ![w] = "ready"]
  /\ aux' = [aux EXCEPT ![w] = Idle]
  /\ UNCHANGED <<queueVars, selected, effectVars, lost>>

(* run_db_maintenance, one transaction: raw events older than the retention *)
(* (by processed_at, or by the node's occurred_at when never processed, in  *)
(* whatever state they are) and analysis rows no review case points to.     *)
Maintenance(R, A) ==
  /\ bound.purges > 0
  /\ R \cup A # {}
  /\ bound' = [bound EXCEPT !.purges = @ - 1]
  /\ rows' = [e \in Events |-> IF e \in R THEN Absent ELSE rows[e]]
  /\ analyses' = [e \in Events |-> IF e \in A THEN 0 ELSE analyses[e]]
  /\ forgotten' = forgotten \cup {analyses[e] : e \in A}
  /\ lost' = [e \in Events |-> IF e \in R THEN lost[e] + 1 ELSE lost[e]]
  /\ UNCHANGED <<arrivals, workerVars, journal, announced, exempted>>

-----------------------------------------------------------------------------
HeadStep(w, c) ==
  \/ SkipExempt(w, c)
  \/ BeginCommit(w, c)
  \/ CommitEffects(w, c)
  \/ CommitDuplicate(w, c)
  \/ IndexConflict(w, c)
  \/ FinishEvent(w, c)
  \/ MarkRetry(w, c)
  \/ \E permanent \in BOOLEAN :
       \/ FailBeforeCommit(w, c, permanent)
       \/ FailAfterCommit(w, c, permanent)

WorkerStep(w) ==
  \/ ClaimSelect(w)
  \/ ClaimUpdate(w)
  \/ \E c \in claims[w] : IsHead(w, c) /\ HeadStep(w, c)

MaintenanceStep ==
  \E R \in SUBSET Present, A \in SUBSET {e \in Events : analyses[e] # 0} :
    Maintenance(R, A)

Next ==
  \/ \E e \in Events : Enqueue(e) \/ BackoffElapses(e) \/ LeaseExpires(e)
  \/ \E w \in Workers : WorkerStep(w) \/ LoseBatch(w)
  \/ MaintenanceStep

Spec == Init /\ [][Next]_vars

(* The worker loop never stops (every exception but cancellation is caught  *)
(* and the container is restarted), and clocks advance.                     *)
Fairness ==
  /\ \A w \in Workers : WF_vars(WorkerStep(w))
  /\ \A e \in Events : WF_vars(BackoffElapses(e)) /\ WF_vars(LeaseExpires(e))

FairSpec == Spec /\ Fairness

-----------------------------------------------------------------------------
(* Properties *)

(* Every variable has its type. *)
TypeOK ==
  /\ rows \in [Events -> Row]
  /\ arrivals \in Nat
  /\ analyses \in [Events -> Nat]
  /\ claims \in [Workers -> SUBSET ClaimRecord]
  /\ selected \in [Workers -> SUBSET [event : Events, id : Nat]]
  /\ pc \in [Workers -> Positions]
  /\ aux \in [Workers -> [analysis : Nat, permanent : BOOLEAN]]
  /\ journal \in Seq(Events)
  /\ forgotten \in SUBSET Nat
  /\ announced \in Seq(Nat)
  /\ exempted \in SUBSET Events
  /\ lost \in [Events -> Nat]
  /\ bound \in [events : SUBSET Events, losses : Nat, expiries : Nat, purges : Nat]

(* However often an event is delivered, claimed, overtaken, retried or      *)
(* revived, its effects (strike, evidence, review case, job) are committed  *)
(* a second time only after maintenance deleted the earlier analysis row.   *)
EffectsOnce ==
  \A i, j \in DOMAIN journal :
    i < j /\ journal[i] = journal[j] => i \in forgotten

(* A row reads 'processed' only if the event was analysed, and then the row *)
(* links to an analysis of that very event, or was exempted.                *)
ProcessedIsHandled ==
  \A e \in Events : rows[e].state = "processed" =>
    IF rows[e].link = 0 THEN e \in exempted
    ELSE rows[e].link \in DOMAIN journal /\ journal[rows[e].link] = e

(* A row is held by one worker at a time, unless its lease ran out, a claim *)
(* stamped it after another had, or maintenance removed it under its holder. *)
ExclusiveHold ==
  \A e \in Events : \A v, w \in Workers :
    v # w /\ Holds(v, e) /\ Holds(w, e) => lost[e] > 0

(* attempt_count outgrows INGEST_MAX_ATTEMPTS only by those losses, one try *)
(* for each: no sequence of retries, revivals and late marks adds another.  *)
AttemptBudget ==
  \A e \in Events : rows[e].attempts <= MaxAttempts + lost[e]

(* What a row says of its event is so, and a lost lease or row or a claim   *)
(* from an outdated reading is the only excuse for a second holder, and     *)
(* each for one try beyond the budget and no more (store.py:2189).          *)
RowsAreSound == ProcessedIsHandled /\ ExclusiveHold /\ AttemptBudget

(* A settled row is re-opened only after its effects were committed (the    *)
(* post-commit work failed) or by a worker that outlived its lease or       *)
(* claimed it from an outdated reading: never by the one that settled it as *)
(* exempt (store.py:2239).                                                  *)
ReopenedOnlyAfterEffects ==
  [][\A e \in Events :
       rows[e].state = "processed" /\ rows'[e].state \in {"queued", "failed"}
         => rows[e].link # 0 \/ lost[e] > 0]_vars

(* Every accepted event is eventually settled for good: crashes, lost       *)
(* leases, retries and late marks cannot keep a row in flight for ever.     *)
Drains ==
  \A e \in Events : <>[](rows[e].state \notin {"queued", "processing"})

(* The pipeline implements at-most-once delivery with at most one           *)
(* announcement per committed analysis.                                     *)
D == INSTANCE EventDelivery WITH
       Events <- Events, journal <- journal, forgotten <- forgotten, announced <- announced
Delivery == D!Spec
=============================================================================
