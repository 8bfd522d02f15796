----------------------------- MODULE ReadModels -----------------------------
(***************************************************************************)
(* What the pages show of the pipeline: the ingest_pipeline and overview    *)
(* rows of read_model_snapshots, the last good copies PlatformStore keeps   *)
(* in memory, and the flag that says the pipeline's row is outdated.        *)
(*                                                                         *)
(* The ingest worker, the dispatcher and, when a row is missing, a page     *)
(* rebuild a row: they count the queue, then write, and each statement of   *)
(* theirs is a step, for on PostgreSQL and on SQLite outside a write        *)
(* transaction it sees what has been committed by then.  A page reads the   *)
(* row, or the copy in memory when the database does not answer.            *)
(*                                                                         *)
(* The count stands for every figure of the row: the jobs not yet applied   *)
(* are counted the same way, and the ages, the worker's heartbeat and the   *)
(* last drain are derived.  Of the overview only whether there is one.       *)
(***************************************************************************)
EXTENDS Naturals

CONSTANTS
  StaleAfter,       \* PIPELINE_SNAPSHOT_STALE_AFTER_SECONDS
  RefreshInterval,  \* INGEST_PIPELINE_SNAPSHOT_REFRESH_INTERVAL_SECONDS
  OverviewInterval, \* OVERVIEW_SNAPSHOT_REFRESH_INTERVAL_SECONDS
  MaxDepth,         \* bound: events in the queue
  MaxTime           \* bound: seconds that pass

ASSUME ReadModelsAssumption ==
  /\ {StaleAfter, RefreshInterval, OverviewInterval} \subseteq Nat
  /\ MaxDepth \in Nat
  /\ MaxTime \in Nat

VARIABLES
  time,        \* the current second
  depth,       \* how many events are queued or processing
  since,       \* history: seconds since a count was last that of the queue
  pipeline,    \* the ingest_pipeline row
  overview,    \* whether there is an overview row
  good,        \* the last good copies of both rows
  dirty,       \* _ingest_pipeline_snapshot_dirty
  attempted,   \* when a loop last tried to refresh the pipeline's row
  overviewed,  \* when the ingest worker last tried to refresh the overview
  doing,       \* what each loop and the page are doing and what they have read
  reply        \* history: the answer the page got

pageVars == <<time, depth, since, pipeline, overview, good, dirty, attempted,
          overviewed, doing, reply>>

rows == <<pipeline, overview, good, dirty>>
timers == <<attempted, overviewed>>

Readers == {"worker", "dispatcher", "page"}
Loops == Readers \ {"page"}

Long == StaleAfter + 1   \* that long ago or longer, or never
NoRow == [at |-> 0]   \* no row, or no copy of one: the clock starts at 1
AtRest == [step |-> "idle"]

PageInit ==
  /\ time = 1
  /\ depth \in 0..MaxDepth
  /\ since = [n \in 0..MaxDepth |-> IF n = depth THEN 0 ELSE Long]
  /\ pipeline = NoRow
  /\ overview = FALSE
  /\ good = [pipeline |-> NoRow, overview |-> FALSE]
  /\ dirty = TRUE
  /\ attempted = 0
  /\ overviewed = 0
  /\ doing = [a \in Readers |-> AtRest]
  /\ reply = NoRow

-----------------------------------------------------------------------------
TimePasses ==
  /\ time < MaxTime
  /\ time' = time + 1
  /\ since' = [n \in 0..MaxDepth |->
                  IF n = depth THEN 0 ELSE IF since[n] = Long THEN Long ELSE since[n] + 1]
  /\ reply' = NoRow
  /\ UNCHANGED <<depth, rows, timers, doing>>

\* An event is queued or processed, and the call that did it marks the row.
Work ==
  /\ depth' \in {depth - 1, depth + 1} \cap (0..MaxDepth)
  /\ since' = [since EXCEPT ![depth'] = 0]
  /\ dirty' = TRUE
  /\ UNCHANGED <<time, pipeline, overview, good, timers, doing, reply>>

Moves(a, state) ==
  /\ doing' = [doing EXCEPT ![a] = state]
  /\ UNCHANGED <<time, depth, since>>

-----------------------------------------------------------------------------
\* refresh_ingest_pipeline_snapshot.  The row is dated before it is read.
Counting == [step |-> "count", at |-> time]

CountQueue(a) ==
  /\ doing[a].step = "count"
  /\ Moves(a, [step |-> "write", at |-> doing[a].at, count |-> depth])
  /\ UNCHANGED <<rows, timers, reply>>

\* Mutant: the row is dated when it is written.
WriteLate(a) ==
  /\ doing[a].step = "write"
  /\ pipeline' = [at |-> time, count |-> doing[a].count]
  /\ Moves(a, [step |-> "remember", row |-> pipeline'])
  /\ UNCHANGED <<overview, good, dirty, timers, reply>>

Write(a) ==
  /\ doing[a].step = "write"
  /\ pipeline' = [at |-> doing[a].at, count |-> doing[a].count]
  /\ Moves(a, [step |-> "remember", row |-> pipeline'])
  /\ UNCHANGED <<overview, good, dirty, timers, reply>>

\* What a page is reply: the row it got, marked when it is old or when the
\* database did not answer.
Told(row, unread) ==
  [count |-> row.count, stale |-> unread \/ time - row.at > StaleAfter]

Unanswered == [stale |-> TRUE]

\* The copy is kept and the flag lowered, also when it was raised since the
\* counts were read.  The worker goes on to the overview.
Remember(a) ==
  LET row == doing[a].row IN
  /\ doing[a].step = "remember"
  /\ good' = [good EXCEPT !.pipeline = row]
  /\ dirty' = FALSE
  /\ attempted' = time
  /\ reply' = IF a = "page" THEN Told(row, FALSE) ELSE reply
  /\ Moves(a, IF a = "worker" THEN [step |-> "overview due"] ELSE AtRest)
  /\ UNCHANGED <<pipeline, overview, overviewed>>

-----------------------------------------------------------------------------
\* refresh_due_ingest_pipeline_snapshot, after a batch of either loop.
Due == dirty /\ time - attempted >= RefreshInterval

RefreshDue(a) ==
  /\ a \in Loops
  /\ doing[a] = AtRest
  /\ Due
  /\ attempted' = time
  /\ Moves(a, Counting)
  /\ UNCHANGED <<rows, overviewed, reply>>

\* The worker's turn when the pipeline's row is not due.
NotDue ==
  /\ doing["worker"] = AtRest
  /\ ~Due
  /\ Moves("worker", [step |-> "overview due"])
  /\ UNCHANGED <<rows, timers, reply>>

\* The overview is built from the tables of the cases, trackers and modules.
OverviewDue ==
  /\ doing["worker"].step = "overview due"
  /\ IF time - overviewed >= OverviewInterval
       THEN overviewed' = time /\ Moves("worker", [step |-> "build"])
       ELSE overviewed' = overviewed /\ Moves("worker", AtRest)
  /\ UNCHANGED <<rows, attempted, reply>>

Build(a) ==
  /\ doing[a].step = "build"
  /\ Moves(a, [step |-> "write overview"])
  /\ UNCHANGED <<rows, timers, reply>>

WriteOverview(a) ==
  /\ doing[a].step = "write overview"
  /\ overview' = TRUE
  /\ good' = [good EXCEPT !.overview = TRUE]
  /\ Moves(a, IF a = "page" THEN [step |-> "status"] ELSE AtRest)
  /\ UNCHANGED <<pipeline, dirty, timers, reply>>

\* The database is locked: a loop tries again at its next turn.
Busy(a) ==
  /\ a \in Loops
  /\ doing[a].step \in {"count", "write", "build", "write overview"}
  /\ Moves(a, IF a = "worker" /\ doing[a].step \notin {"build", "write overview"}
                THEN [step |-> "overview due"] ELSE AtRest)
  /\ UNCHANGED <<rows, timers, reply>>

-----------------------------------------------------------------------------
\* get_overview_metrics and, of the modules page, get_ingest_pipeline_status.
OpenPage ==
  /\ doing["page"] = AtRest
  /\ \E first \in {"overview", "status"} : Moves("page", [step |-> first])
  /\ reply' = NoRow
  /\ UNCHANGED <<rows, timers>>

ReadOverview ==
  /\ doing["page"].step = "overview"
  /\ Moves("page", IF overview THEN [step |-> "status"] ELSE [step |-> "build"])
  /\ good' = [good EXCEPT !.overview = @ \/ overview]
  /\ UNCHANGED <<pipeline, overview, dirty, timers, reply>>

\* The copy stands in for an overview that cannot be read or built.
OverviewBusy ==
  /\ doing["page"].step \in {"overview", "build", "write overview"}
  /\ IF good.overview
       THEN Moves("page", [step |-> "status"]) /\ reply' = reply
       ELSE Moves("page", AtRest) /\ reply' = Unanswered
  /\ UNCHANGED <<rows, timers>>

ReadStatus ==
  /\ doing["page"].step = "status"
  /\ IF pipeline = NoRow
       THEN Moves("page", Counting) /\ UNCHANGED <<good, reply>>
       ELSE /\ Moves("page", AtRest)
            /\ good' = [good EXCEPT !.pipeline = pipeline]
            /\ reply' = Told(pipeline, FALSE)
  /\ UNCHANGED <<pipeline, overview, dirty, timers>>

StatusBusy ==
  /\ doing["page"].step \in {"status", "count", "write"}
  /\ reply' = IF good.pipeline = NoRow THEN Unanswered ELSE Told(good.pipeline, TRUE)
  /\ Moves("page", AtRest)
  /\ UNCHANGED <<rows, timers>>

\* run_review_scope_backfill drops every copy.
Backfill ==
  /\ good' = [pipeline |-> NoRow, overview |-> FALSE]
  /\ dirty' = TRUE
  /\ UNCHANGED <<time, depth, since, pipeline, overview, timers, doing, reply>>

PageNext ==
  \/ TimePasses
  \/ Work
  \/ \E a \in Readers :
       \/ RefreshDue(a)
       \/ CountQueue(a)
       \/ Write(a)
       \/ Remember(a)
       \/ Build(a)
       \/ WriteOverview(a)
       \/ Busy(a)
  \/ NotDue
  \/ OverviewDue
  \/ OpenPage
  \/ ReadOverview
  \/ OverviewBusy
  \/ ReadStatus
  \/ StatusBusy
  \/ Backfill

PageSpec == PageInit /\ [][PageNext]_pageVars

-----------------------------------------------------------------------------
\* A count that a page shows without the mark was the true one at some moment
\* of the last StaleAfter seconds, however long the statements of a refresh
\* take and whichever refreshes overlap (store.py:2441, 631).
FreshOrMarked ==
  reply # NoRow /\ ~reply.stale => since[reply.count] <= StaleAfter
=============================================================================
