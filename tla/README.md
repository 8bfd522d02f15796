# Formal model of mobguard-panel

mobguard-panel is the control plane of MobGuard. Collectors ("modules") on VPN nodes post access events; the panel decides
for each address whether it is a mobile or a home network, opens review cases, counts strikes, and restricts users in
the Remnawave panel. This directory holds TLA+ modules of that program, the TLC runs that check them, and theorems
checked by TLAPS. Source paths are relative to the repository root; line numbers are in `PROJECT.json` under `map`.

## 1. Inventory

The services of `docker-compose.yml` are one API process (which also runs the ingest worker, the enforcement dispatcher and
the maintenance task as asyncio tasks), the web front-end and the bot. The database is PostgreSQL: the storage settings
accept no other backend (`storage/config.py:7`, although `README.md:36` of the repository still lists `sqlite`), and the
adapter drops `BEGIN IMMEDIATE` (`postgres.py:243`), so transactions of two workers interleave between their statements.
SQLite serves the tests (`storage/factory.py:21`). The repository also holds the stand-alone bot the panel grew out of
(`mobguard_core/app.py`), which no service starts but `python -m mobguard_core.app` does; it keeps an SQLite file of its own.

| Component | State it keeps | Operations | Interacts with | Hard behaviour | Correct when |
|---|---|---|---|---|---|
| Raw-event queue, ingest worker (`api/services/ingest_pipeline.py`, `store.py`) | `ingested_raw_events`, `analysis_events` | enqueue, claim, process, retry, dead letter, delete | modules (posts), scoring, cases, violations, notifier | leases that run out under a live worker, post-commit failures, PostgreSQL interleavings, deletion | effects of an event committed once; nothing settled unseen; queue drains |
| Violation planning, limiter (`_plan_enforcement_tx`, `limiter_engine.py`) | `violations`, `limiter_state_*`, `active_trackers` | threshold, window, cooldown, warning, strike | ingest worker, settings | read-then-write counters, boundaries of windows | triggers earned and a cooldown apart; strikes numbered |
| Enforcement outbox, dispatcher, restrictions (`ingest_pipeline.py`, `access_control.py`, `data_admin.py`) | `enforcement_jobs`, `violations`, Remnawave | queue, claim, send, suppress, retry; ban, unban, strikes | ingest worker, administrators, Remnawave | remote calls that take effect and fail, mode switches, administrators beside the outbox | no restriction without record; jobs settle |
| Scoring (`mobguard_core/scoring/pipeline.py`, `behavioral_analyzers.py`, `policy.py`) | `ip_history`, `active_trackers`, `subnet_evidence` | evaluate, rescore after the HWID check | decision reads, learning | stages with early returns, greedy sampling, eligibility computed twice | blockers and guardrail hold; samples are the best there are |
| Overrides, decision cache, devices (`modules.py`, `analysis_store.py`, `data_admin_overrides_cache.py`) | `exact_ip_overrides`, `unsure_patterns`, `ip_decisions`, `subnet_evidence`, `active_trackers` | look up, write, edit, expire | ingest worker, administrators, Remnawave devices | five reads between awaits, stale cached verdicts | the override decides |
| Review cases, labels, learning (`repositories/review_admin.py`) | `review_cases`, `review_resolutions`, `review_labels`, `learning_patterns_active` | open, re-open, resolve, recheck, promote, purge | ingest worker, moderators, rechecks, overrides | reads before the transaction, two workers, two moderators | a second case of a scope only by a race; closed as judged; learns what was said |
| Case files (`review_admin.py`, `reviews.py`) | `review_case_ips`, profile snapshots | count hits, rebuild a profile, merge duplicates | ingest worker, rechecks, pages | staleness by timestamps of one second | hits add up; a page's profile is current |
| Usage profiles (`usage_profile.py`) | the profile of a case | build, rebuild, enrich | events, panel record | a panel that stops answering | the burst is the heaviest window and is not forgotten |
| AI auditor (`scripts/ai_learning_cron.py`, `ai_learning_suggestions.py`) | `ai_learning_suggestions` | suggest, reword, accept, reject | learning, cases, live rules | races with promotion and with itself | accepted suggestions stay in force |
| Live rules (`store.py`, `settings.py`) | rules file, cache, mirror, audit log | read, patch with expected revision, reload | everything that reads settings | lost update, cache filled late | one revision, one set of rules |
| Module registry (`modules_admin.py`) | `modules` | create, register, heartbeat, restart, toggle | modules, live rules | read and written-back metadata | a module comes to run its configuration; a restart arrives |
| Admin authentication (`auth.py`, `admin_security.py`) | identities, challenges, sessions | start, set up, confirm, verify, log out, reset | requests | challenge consumed in several transactions | a reset undoes enrolment; nobody is locked out |
| Read models, caches (`store.py`, `panel_client.py`) | snapshots, dirty marks, last good copies | mark, refresh, read | loops, pages | changes made during a refresh | old figures carry the stale mark |
| Maintenance (`db_maintenance.py`, `run_db_maintenance`) | its settings | delete by age | all tables | deletes what is in use | nothing alive is deleted |
| Stand-alone bot (`mobguard_core/app.py`) | `violations`, trackers, locks, queues and counters in memory | ladder, unbanner, forgiveness, questions, answers, reports, commands | Remnawave, Telegram, ip-api.com | every await lets another task in; restarts | a restriction ends; a question is asked once; no count is lost |
| Notifier, consoles, exports, Bedolaga, health, metrics, web, scripts | derived | read, show, send | | I/O and presentation | |

The hazards of this code, each at its line, with the properties that cover them or the reason that none does, are listed
in `PROJECT.json` under `hazards`.

## 2. Modules

| Module | Models | Built on |
|---|---|---|
| `EventDelivery` | what the pipeline promises: effects of an event once while remembered, one announcement each | |
| `IngestQueue` | the queue table, claims on PostgreSQL, processing, retries, crashes, maintenance | implements `EventDelivery` |
| `Ladder` | usage threshold, limiter and strikes inside the transactions of the workers | |
| `Enforcement` | recorded strikes, outbox, dispatcher, Remnawave user, administrators | |
| `Behavior` | the past of a user and the statistics the analyzers take from it | |
| `Scoring` | the score, guardrail, eligibility, HWID rescoring and review reason as operators | |
| `Decision` | one address: the workers' reads and commit, administrators' edits, time | extends `Scoring` |
| `ReviewCases` | cases, resolutions, labels, overrides, promotion, recheck, AI suggestions | |
| `CaseFiles` | hits, repeats and profile snapshots of cases, rechecks, pages, merged duplicates | |
| `UsageProfile` | what a usage profile says and what a rebuild keeps | |
| `ReadModels` | the snapshots of the pipeline and the overview | |
| `LiveRules` | rules file, cache, the owners' requests, restarts | |
| `ControlPlane` | the module registry and the modules | extends `LiveRules` |
| `AdminAuth` | identities, challenges, enrolment, sessions, reset | |
| `CoreBot` | the stand-alone bot's ladder: tasks, unbanner, forgiveness, commands, restarts | |
| `CoreStats` | its daily statistics and its pool of refused addresses | |
| `CoreAnswers` | its questions, answers, cached verdicts and Telegram queue | |
| `IngestQueue_proofs`, `Enforcement_proofs`, `Decision_proofs`, `ReviewCases_proofs`, `AdminAuth_proofs` | theorems about the module they are named after | that module, TLAPS |
| `ControlPlane_proofs` | theorems about `LiveRules`, then about `ControlPlane` | both |
| `CoreBot_proofs` | theorems about `CoreBot`, then about `CoreAnswers` | both |
| `Counts_proofs` | sums over finite sets, and what is counted in `Ladder`, `CaseFiles`, `ReadModels`, `CoreStats`, `UsageProfile` and `Behavior` | all six |
| `MC*` | constants and compositions of the TLC runs | |

A definition whose comment begins with "Mutant:" is a plausible wrong version of the definition it precedes. It is not
part of any specification; replacing the definition by it makes the property listed beside it in `PROJECT.json` fail.

Components that share no state are not multiplied with one another: an MC module with a variable `part` explores one or
the other. Where two components do interact, one module extends the other (`ControlPlane` and `LiveRules`, `Decision` and
`Scoring`), or the other's outcome is an input that ranges over all it can be (a verdict in `Ladder`, a planned strike in
`Enforcement`).

### How the state and actions correspond to the code

**IngestQueue.** `rows` is `ingested_raw_events` by `event_uid`; `due` stands for `next_attempt_at` having passed and
`leased` for `processing_started_at` being recent, so no clock is needed. `claims[w]` is the list a worker got from
`claim_raw_events`, with the attempt count as it was then; `pc[w]` says where the worker stands with the head of the
list. `CommitEffects` is the transaction of `_process_claimed_event`; `FinishEvent` is the auto-resolution and
notification after it. `MarkRetry` checks neither owner nor state, as the UPDATE does not. `journal`, `forgotten`, `announced` and `exempted` are history, and so is
`lost`: it counts the leases and rows an event lost, and the claims that stamped its row from a reading another worker had
overtaken. A claim is two steps, `ClaimSelect` (the reclaiming UPDATE, which locks the expired rows, and the SELECT) and
`ClaimUpdate` (which does not look at the state again), and so are the duplicate check and the commit (`BeginCommit`, then
`CommitEffects`, `CommitDuplicate` or `IndexConflict`). `bound` is what is left of the bounds of a behaviour.

**Ladder.** `tx[w]` is the transaction a worker is in, with what it has read; `tracker`, `window`, `cooldown`, `ignore` and
`violations` are the rows committed. A verdict, and whether it is tracked, are inputs of `Begin`. On PostgreSQL a row once
written stays locked until the end of the transaction, so what follows the first contended write (`Admit`, `Refuse`,
`Strike`, `Warn`) is one step that sees what was committed when the lock was granted, while what was read before may be
old. `Abort` rolls everything back. `counted`, `triggers`, `struck` and `loose` are history. `Serialized` lets one
transaction be open at a time, as SQLite's write lock does in the tests of the repository; the run leaves it off, and the
theorems hold either way.

**Enforcement.** `row[u]` is the user's violations row with the restriction that an unban will undo; `remote[u]` is the
squad and traffic limit Remnawave has; `lookup` is the user as the ingest worker read it, any time before the
transaction. `dpc` and `batch` are the dispatcher: `ClaimJobs`, one `ReadMode` for the batch, then for each job
`SendJob`/`SendFails` and `MarkApplied`/`MarkRetry`, or `SuppressJob`. `SendFails` may reach Remnawave and lose the answer, and
whether it is permanent is the exception's to say. An unban goes on where the panel is not configured.
Administrator requests are one at a time, each cut where the code commits or calls Remnawave. Traffic used only grows.
`unban_time` is left out: no operation of the deployed services reads it. `ModeInLiveRules` says whether the rules the
dispatcher reads can hold the mode (section 5).

**Behavior, Scoring and Decision.** `Behavior` keeps the rows of one user's past and computes summary, churn, session and
neighbours as the analyzers do. In `Scoring` a "signal" is everything the lookups of one analysis return (class of the ASN,
provider and markers, keywords, behaviour, learned patterns); how a provider or a keyword is recognised is an input.
Weights are the settings; learned weights are at the clamp's maximum because patterns are promoted at a precision of 0.9
or more. The `ip-api` fallback never scores (the panel passes a stub). In `Decision` a worker makes each database or
Remnawave read in a step of its own; the override and the pattern that `_analyze_event` reads together are one step. The
live rules of an event are those of its batch; the owner switches the rule for strong cases (`strict`) on and off, and `under`
keeps with a decision, also in the cache, the rules it was scored under. Rows, samples and events are named by their places in the history, so a query
is a set of places; `LastKept` is the loop that keeps a row a gap after the last kept one.

**ReviewCases.** Filing is two steps of a worker: `IngestRead`, the SELECT of the scope's cases, and `IngestWrite`, which updates
the case found or inserts one; between them another worker may insert too, because no index is on the scope and the unique
key of a case holds the event's id (`review_admin.py:963`, `1126`). A case remembers how many there were when its worker
looked (`after`, history). `resolve_review_case` is `ResolveRead`, `ResolveWrite`, and `promote_learning_patterns` is
`PromoteRead`, `PromoteWrite`; the case and its latest event are read together. That `ResolveWrite` is one step is more than
PostgreSQL gives: its statements (`review_admin.py:2325`-`2371`) lock row by row. An agent is a moderator's request, the auto-resolution of an event or a
recheck. Events that do not open a case are left out, and an event carries one pattern. Deleted cases stay as "purged"
because ids are never reused.

**CaseFiles.** What `ReviewCases` leaves out of a case. `cases` has the repeat counter, the times and the hits of a row,
`profiles` its snapshot with the newest event and the update time it was made for. `File` is the worker's transaction;
a recheck (`RecheckStart` to `RecheckWrite`) has three, a page (`ViewRead`, `ViewCheck`, `ViewBuild`, `ViewPersist`) four steps.
`Migrate` is the scope backfill of a database an older version left. `clock` counts seconds, so several steps may carry
one time.

**UsageProfile.** `FileCase` is the worker building the profile with the panel's record or without, `LogEvent` an event that
opens no case, `OpenCase` the page that builds it again without the panel and the API that then asks the panel once more;
`stored` is what stays and `shown` what the page got. `Ordered` lists the panel's points by time, `Moved` is one turn of the loop
that moves the window over them. A profile is built from a reading of the events: the newest of the lookback, as many as the query
takes, in the order of their one-second dates; those of one date come in any order (`Newest`, `Readings`, `Read`), because
the query and the sort look at nothing else (`usage_profile.py:731`, `778`). A place without a country but with a region or
coordinates counts (`Nowhere` is the one with nothing). Times are in the unit of a series and places have a distance.

**ReadModels.** `pipeline` and `overview` are rows, `good` the copies in memory, `dirty` and `attempted` the flag and the time
of the last try. Each statement of a refresh is a step (`Count`, `Write`, `Remember`; `Build`, `WriteOverview`), `Busy` a
database that does not answer. The count of queued events stands for every figure of the row.

**LiveRules and ControlPlane.** `file` is `config.json` with its revision and mtime, `cache` the copy in memory with its own
mtime; loading compares, reads and fills it in separate steps because requests run in threads. A form carries the
revision its `page` shows, a list does not. `clashed` records that two requests met in one of the windows that `Clash` names
(both between reading and writing the rules, or a cache filled with what was read before a write). In `ControlPlane` a
row's metadata is read and written back in two statements, a module makes one request at a time, and what it does with a
configuration (apply it) and with a token it has not seen (restart) is its own program, outside this repository.

**AdminAuth.** `req[r]` is a login, the answer to a challenge or a reset with what it has read; each query is a step. A
secret is a number in the order of drawing, a code is the secret it was computed from. `overtaken` and `undercut` record a
reset inside a confirmation and a challenge that went while its secret was on the way.

**CoreBot, CoreStats and CoreAnswers.** One asyncio loop: an action is what happens between two awaits. `CoreBot` has the
tasks of log lines as slots (`task`), the rows, trackers and locks, what the unbanner and forgiveness still have to do of the
list they read, whether the unbanner has ended (`UnbannerEnds`, `halted`: a statement that fails ends the task, which has no
`try`, and nothing starts it again before the process does), and the command or button being served ("skipped" is an `/unban` that a dry run let pass). `overtaken`,
`erased` and `early` record that somebody wrote from an old copy of the row, that the recorded end of a restriction was overwritten, and a strike before its warnings. `CoreStats`
has two independent halves, `Tally` (buffer, flush, daily rows, report) and `LookUp` (rate limit, pool, rounds). A report
shows the top of each list that ends (`Tops`; 15 providers, 10 words) or nothing at all while notifications are off, and
then deletes the whole day: `reported` counts what it showed, `unshown` what it read and dropped.
`CoreAnswers` takes days as its clock, so a line lasts less than a day. Between the mark of a question and its place in
the queue the bot builds a usage profile; `AskFails` is a failure there, and `failed` counts the questions it loses.

## 3. Runs

A run takes up to three minutes. Deadlock checking is off everywhere: every module has bounds on events
and failures, and a quiet system is a legal end. Bounds are constants named `Max...`; nothing else caps a counter.

| Run | Question | Instance and why it is enough |
|---|---|---|
| `ingest` | Is everything settled exactly once, under fairness, when claims and commits interleave? | 2 workers, batches of 2, 2 attempts, and one of four bounds: a good and a malformed event with 1 lost batch, or with 1 overtaken lease; 1 event with a lost batch and an overtaken lease, or with an overtaken lease and a deletion. Two workers can hold the same row, the batch order matters, and a retry, a revival and a dead letter fit in the attempts |
| `limiter_postgres` | Are triggers earned and strikes numbered? Does the stand-alone bot forget nothing it counted, asked or was told? | *ladder*: 1 user (users share nothing), 2 addresses, 2 workers, 3 events, clock to 3 with window and cooldown of 1, one change of settings among off, trial and force. *tally, lookup*: 3 verdicts of 2 providers, of which a report shows 1, 2 days, 1 failed write; 3 addresses. *asking*: two lines of one address, 1 clearing, 1 toggle. *answering*: 2 answers over 2 days, a cached verdict lasting 1 day and an answer 2, in the order of the code's 3 and 7 |
| `enforcement` | Do jobs settle with what the mode allows, and can a user be restricted without a record? | *dispatch*: 2 jobs in a batch of 2, 2 attempts, 2 mode switches (out and back), 2 lost batches. *admin*: 2 administrator requests, 1 lost batch |
| `decision` | Does the override decide under concurrent edits, and do blockers hold for every signal? | *race*: 2 workers, 2 events, 2 administrator actions of any kind, the rule for strong cases among them: a verdict may be cached under one rule and used under the other. *signals*: 1 event, all combinations of network, provider, keywords, behaviour and learning, with and without evidence, immunity, devices and the rule, default settings |
| `decision_guardrail` | *violation*: does a blocked guardrail keep automation from acting? | the instance of `decision` |
| `review_queue` | Are cases, labels and overrides consistent? | 2 workers, 2 agents, 2 scopes of one address, 2 events, 2 resolutions, 1 suggestion, 2 other actions, a pattern promoted from 1 label; two events suffice for two cases of one scope |
| `case_files` | Do hits add up, are profiles current, are old figures marked? | *cases*: 2 agents, 2 scopes of one device, 3 events, 2 seconds, 1 operation given up, a database with and without older duplicates. *pages*: stale after 1, 1 queued event, 3 seconds |
| `profiles` | Are burst and samples the best there are, and do they last? | *charts*: every series of up to 4 points over 4 times. *device*: 2 events of a device that travels and changes, a panel that answers or not. *travels*: 3 events without a panel, so two of one time can stand before a new one, or all three. Lookback of 1 over 3 times, so events fall out of the window. *past*: every history of 4 rows, limit 3 |
| `control_plane` | Does a revision name one set of rules, and do modules come to run it? | 1 owner, 1 module, 1 list, 2 edits, 1 rewrite, restart or failed audit, 1 restart token, 1 edit of the row |
| `admin_auth` | Does a reset hold, and can every enrolled owner answer? | 2 owners, 1 who may bypass, 2 requests, 2 secrets, 2 challenges, 1 reset |
| `core_ladder` | Do restrictions of the stand-alone bot end, and are strikes earned? | *disturbed*: 1 user, 2 tags of one address, 2 tasks, 3 lines, clock to 2, 1 warning, 1 command, rejected approval or crash, and an unbanner that may end. *patient*: one tag, 2 warnings with no time between them, undisturbed |
| `enforcement_rollout` | *violation*: does a strike restrict when every switch is at enforce? | 1 user, no failures |

Every property of a passing run is also checked against a mutant of the code (`PROJECT.json`, `mutants`). `TypeOK` of modules
without a theorem is documentation.

**Properties.** Each is stated in words where it is defined. Some hold only under a condition the code does not enforce,
which the property names and section 6 explains: `StrikesAreNumbered` on PostgreSQL while the limiter is on (`loose`),
`RestrictionHasEnd`, `RestrictionsEnd` and `StrikesAreEarned` unless somebody wrote from an old copy of the row or overwrote
its end (`overtaken`, `erased`), `RestrictionsEnd` besides only where the unbanner does not stay ended (`[]<>~halted`),
`SplitOnlyByRace` for workers that overlap, `SignalsAccumulate` for the reasons about travels and rotations when the new event
comes last, `StrictRulesProtect` (of `SanctionsAreEarned`) but for decisions scored while the rule was off (`under`),
`ResetHolds` and `EnrolledOwnersCanAnswer` outside two named windows (`overtaken`, `undercut`), the properties of the control
plane while no two requests clashed. For the last, the run cuts behaviours at a clash (`NoClash` as a constraint): each
property says nothing about what follows one.

**Fairness.** Nothing is assumed of administrators, arrivals, maintenance or failures; failures are bounded, not excluded.

- `IngestQueue`: weak fairness of each worker and of the passing of time (backoff, lease). The loop catches every exception
  but cancellation and the container restarts, so a worker that can take a step takes one.
- `Enforcement`: the same of the dispatcher.
- `CoreBot`: weak fairness of time, the unbanner's scan and its steps; strong fairness of a restore that succeeds, that is,
  a panel that is asked again and again answers in the end. The unbanner may end at any statement (`app.py:2595`), and then
  none of its steps is enabled until a restart; weak fairness asks nothing of a task that is gone, and `RestrictionsEnd`
  claims nothing of a process whose unbanner stays ended.
- `ControlPlane`: weak fairness of requests that have been accepted; strong fairness of a module's polling, because the
  panel may restart between any two polls and the module's own loop is outside this repository.

## 4. Theorems

| Module | Theorem | Says |
|---|---|---|
| `IngestQueue_proofs` | `TypeCorrect`, `EffectsCommittedOnce` | `TypeOK`; `EffectsOnce` |
| | `QueueImplementsDelivery` | `Spec => Delivery`: the queue implements `EventDelivery` |
| | `RowsSound`, `ReopenedAfterEffects` | `RowsAreSound`; `ReopenedOnlyAfterEffects` |
| | `ProcessedHandled` | the conjunct of `RowsAreSound` that no loss excuses |
| `Counts_proofs` | `TypeCorrect`, `CooldownsKept`, `StrikesNumbered`, `TriggersEarned` | of `Ladder`: `TypeOK`; `CooldownsAreKept`; `StrikesAreNumbered`; `TriggersAreEarned` |
| | `ProfilesAreCurrent`, `EveryHitIsCounted` | of `CaseFiles`: `CurrentProfiles`; `HitsAddUp` |
| | `PagesAreFreshOrMarked` | of `ReadModels`: `FreshOrMarked` |
| | `NothingOverlooked` | of `CoreStats`: `NothingIsOverlooked` |
| | `BurstIsAlwaysHeaviest`, `EvidenceAddsUp`, `BurstIsKept` | of `UsageProfile`: `BurstIsHeaviest`; `SignalsAccumulate`; `BurstIsRemembered` |
| | `SamplesAreAlwaysMost` | of `Behavior`: `SamplesAreMost` |
| `Enforcement_proofs` | `TypeCorrect`, `AppliedHadEffect`, `RestrictionHasRecord`, `StaleModeIsBounded` | `TypeOK`; `AppliedTookEffect`; `RestrictionIsRecorded`; `StaleModeWindow` |
| `Decision_proofs` | `OverrideDecided` | `OverrideDecides` |
| | `HardBlockersWin` | `BlockersPrevail` implies `HardBlockersHold` |
| | `SanctionsReviewed`, `StrictlyProtected`, `LiveDecisionsProtected` | what `SanctionsAreEarned` is made of: every punitive decision opens a case; a punitive decision that is not eligible was scored while the rule for strong cases was off (`StrictRulesProtect`); one just made keeps to its rules |
| `ReviewCases_proofs` | `TypeCorrect`, `SecondCaseIsARace`, `AcceptedStays` | `TypeOK`; `SplitOnlyByRace`; `AcceptedStaysActive` |
| | `CasesClosedAsJudged`, `LabelsAreVerdicts`, `OverrideHasLastWord` | `ClosedAsJudged`; `LabelsFollowVerdicts`; `OverrideIsLastWord` |
| `ControlPlane_proofs` | `RulesTypes`, `OneRevisionOneRuleSet`, `FormsReplaceWhatTheySaw` | of the owners' requests alone: types; a revision names one set of rules; `FormsSeeWhatTheyReplace` |
| | `PlaneTypes`, `ModulesApplyPublishedRules`, `FormsReplaceWhatTheySawWithModules`, `RestartsStay` | with modules: types; `ModulesApplyTheirRevision`; `FormsSeeWhatTheyReplace`; `RequestsSurvive`: a requested restart is not dropped by a report |
| `AdminAuth_proofs` | `TypeCorrect`, `ResetsHold`, `EnrolledCanAnswer` | `TypeOK`; `ResetHolds`; `EnrolledOwnersCanAnswer` |
| `CoreBot_proofs` | `TypeCorrect`, `RestrictionsHaveEnd`, `StrikesEarned` | `TypeOK`; `RestrictionHasEnd`; `StrikesAreEarned` |
| | `AnswersAlwaysStand`, `QuestionsAreAskedOnce` | of `CoreAnswers`: `AnswersStand`; `QuestionsAreAsked` |

With them every safety property of the passing runs is a theorem but one, `SanctionsAreEarned`, of which parts are. They hold for
every number of events, users, workers, agents, callers and tasks and all bounds, from the assumptions on constants that the
modules declare (named `...Assumption`). One has a hypothesis of its own, `BlockersPrevail`, which is explained below.

**IngestQueue.** `EffectsOnce` is not inductive: a second commit is stopped by `analyses[e] # 0`, and nothing in `EffectsOnce` ties
`analyses` to `journal`. `MemoryIsComplete` does: every journal entry that maintenance did not delete is the one `analyses`
remembers, so while an entry is remembered the unique index refuses another. `PostIsPending` says what waits for its
post-commit work is committed, not announced, and waited for by one worker. `CommitInv` is their conjunction with `TypeOK` and
`EffectsOnce`. Most steps change none of the four delivery variables; the lemma `QuietSteps` says so once, and only the
commit, the announcement and maintenance are argued one by one. For the refinement those three map to `Commit`, `Announce` and
`Forget`, and every quiet step to a stutter.

`RowInv` adds what makes a processed row true: an id is never given out twice, so a worker that holds
the id of a deleted row updates nothing (`IdsAreOwn`), and a link leads to an analysis of the row's own event. `HoldInv` counts
holders: every lease that ran out, every row taken away and every claim from an outdated reading excuses one more of them, and
each holder that can still send the row back excuses one more try (`Budgeted`). Two claims that selected the same row both take
it; the second finds the row no longer queued, and that is the moment at which it is counted. A row that is queued has no
holder but the excused ones, so the first claim needs no excuse.

**Ladder.** Two triggers could only come closer than a cooldown if the second did not see the row the first one wrote.
`CooldownIsLatest` says that the committed row is the cooldown of the latest trigger; the row is read again in the step that
writes it, after the window's lock is granted, so no older copy of it decides. Strikes are harder, because the row is read
before it is locked. `StrikeInv` adds that with `Serialized` one transaction is open at a time (`OneAtATime`), that a transaction which
reads strikes without having been serialised by the limiter is on record in `loose` (`ReadersAreMarked`), that the row counts the
history (`StrikesAreCounted`) and that what a transaction has read is still the row (`ReadingsAreFresh`). For `TriggersEarned`,
`CountInv` compares the window with the events really counted: the row never counts more than happened since its
start, and neither does what a transaction has read of it, so a lost update makes a trigger later, never earlier.

**Sums and loops.** The library's induction takes an operator as a parameter, which the provers cannot instantiate. `LeastSubset`
and `LeastNatural` say instead that of the sets, or numbers, for which something fails one is least, and a proof shows that it
cannot be. `SumsExist` builds the function behind `SumFunctionOnSet` that way, `SumSplits`, `SumChanges` and `PartChanges` say what
becomes of a sum when its set is split or one of its terms changes; `LatestExists` and `ScanExists` build the recursive functions of
`Behavior` and `UsageProfile`, of which the specification only says that they are chosen.

**CaseFiles.** `CaseInv` is the types, that nothing is dated later than now (`DatedBefore`), and that what an agent has read is of the
case it works on (`Remembered`). `ProfileInv` says of each profile, stored or on its way to the row, that an event it leaves out is no
older than it (`LeavesOutLater`). `CurrentProfiles` follows: of a profile that does not look stale the newest event is the
one it names, so an event it misses is neither newer nor older than its date. `HitInv` adds to the sum of the hits that before
the backfill nothing is counted and one event stands for each case (`NotCountedYet`), and that a recheck on its way to its write
has an event of its own that is not counted yet (`CountedOnce`), or two rechecks could count one event twice. Merging moves the
hits of the duplicates to one case, and the sum over the scope splits into theirs and the rest.

**ReadModels.** `Dated` relates a row to what is known of its count: the last moment at which the count was true is no longer ago than the
row's date. `PageInv` says it of the row, of the copy in memory and of whatever a refresh carries between two statements. A
refresh takes its date before it counts, which is what keeps it true when an older refresh writes last.

**CoreStats.** `StatsInv` counts a verdict in the buffer, in what a flush took and has not written, in the table and in what reports
have read (`ReadOf`: shown or not), and takes off what a report has read and not yet deleted, which is in two places. `Tops`
splits the rows of a day in two, whatever the lists are, so nothing is dropped that is not counted in `unshown`. Counts only grow beyond what was counted (a failed
flush puts back what it had written), hence the inequality. `PoolInv` is `RefusedAreAsked` with the types.

**UsageProfile.** The series is a list in any order. `Rank` names each place once, because a finite set of numbers that holds as many of
them as there are holds them all; the sorted list has the same points, and a sum does not depend on the order (`SumOfListed`). `Scan` says
of the loop at each point that the window begins at the first point near enough and that the best so far is the heaviest window
that ends so far (`Best`). A window that begins at a point and one that ends at a point are not the same windows, so the
last step compares them both ways: each lies in a window of the other kind. For `EvidenceAddsUp`, `Further` says that
one more event comes after all the rows a profile had: then neighbours in time stay neighbours and every count in a reason or in
the priority only grows; `Capped` keeps that order. `Within` only says that what was observed is still observed, in whatever
order: every reason but those about travels and rotations is then still given (`OrderFreeStay`), because it asks which
devices, nodes, systems and providers there are and not which came next. The theorem is about every order the database may
choose before and after the event, and an event of a time that is there already may be placed before a row it ties with: the
travel between that row and the one before is then no travel any more. `BurstIsKept` rests on `UsageInv`: a burst the row
of a case names is stored with its profile.

**Behavior.** `PastInv` is that rows are in the order of their times, which maintenance keeps because what it deletes comes first. Against any
choice of rows a gap apart, `SamplesAreMost` maps each chosen row to the sample kept last when it was read. Two chosen rows never share
one: the later is a gap from the earlier, so a gap from their common sample, and would have been kept. The map is injective, hence the
choice is no larger.

**Enforcement.** `OutboxInv` relates the dispatcher's position to its batch: what it holds is pending with the attempts it was
claimed with, at "sent" the head of the batch was sent, and a pending job nobody holds has an attempt left or a lost batch to show for it.
`RecordInv` moves the record forward: it is there when a job is queued or a ban begins, not only when the panel has restricted.
`WindowInv` adds the jobs still held to those sent since the mode changed; the sum is at most a batch.

**Decision.** `ReadsInv` carries `OverrideDecides` back over the reads: of an event nobody touched, at each position, the
override or pattern it began under still stands, and only an event that began under none comes to the cache. `BundleInv` says what a
bundle vouches for by itself, because after the commit it may return as a row of the cache under other rules. `under`
names the rules a bundle was scored under, and `Kept` that a bundle is well founded under them, in a worker's hands and in
the cache; a decision just made has `under = rules`, those of its batch. Only the cache carries a decision past a change of the
rules, and no step between scoring and commit, the HWID check and an administrator's edit of the row included, makes a punitive
decision of one that was not founded. `HardInv` follows the score of a blocked network:
the blocker and at most one provider marker, then at most one device bonus. `BlockersPrevail` is that the settings keep such a sum
below the threshold; the defaults do (-100 + 18 + 30 against -30), and it is a hypothesis because an owner may change the weights.
The score is a fold over a set of reasons; `ScoreOfNone` and `ScoreOfTwo` unfold it for the sets that occur, without induction.

**ReviewCases.** The type invariant is not inductive by itself: a case names its latest event, and an agent carries the ids
of a case, an event or a suggestion from its read to its write. `CaseRefs` and `AgentRefs` say those rows are still there
(events and suggestions are never taken away; a case keeps its id when it is deleted), and `TypeInv` is their conjunction
with `TypeOK`. `SplitInv` is proved on top of it: what a
worker has found is a case of its scope (`WorkerRefs`), and a worker that found none overlooks only cases that were inserted
after it looked (`NoneOverlooked`), because a case that was deleted does not come back and no case changes its scope. So when
it inserts, every other case of the scope is younger than its reading, which is what `SplitOnlyByRace` says of it.
Every step but the two of filing satisfies `Kept`, and `KeptSplit` does the rest. `AcceptedStaysActive` rests on `TypeInv`: the row an agent decided on exists. Only
an acceptance makes a row ACCEPTED, it writes the active pattern in the same transaction, and a promotion restores
accepted rows as they are when it *writes*, not as they were when it read the labels. `JudgedInv` adds that the evidence of a case, of
an agent and of a resolution is of one scope (`SameScope`): what an agent read before others wrote is old, but it is about the
same case, so its resolution is the last one and status, labels and override follow it in one transaction.

**LiveRules and ControlPlane.** The invariant is the type and, as long as nothing clashed, `Consistent`: the file is the newest set published
(`FileHolds`), the cache a published set with its own revision (`CacheHolds`), every page one that was published, and each
request's copies fit the point it has reached (`JobHolds`). A clash is recorded in the step that makes it, so the invariant
needs no argument about what follows. A module's requests load rules through the same positions, so with modules `Consistent` is kept
for the same reasons; `PlaneInv` adds that what a module applies is a published pair. `TokensKnown` (no row and no
request has a restart token that was not given out) is what `RestartsStay` needs.

**AdminAuth.** A secret is on its way through a request that stores it, a challenge, and a request that confirms it. `ResetInv`
and `ShownInv` say of each of these places what the theorem says of an identity: drawn since the reset, and shown or about
to be shown to its owner.

**CoreBot.** Neither property is inductive; what keeps them are the copies. `LadderInv` says of every fresh copy that it is the row
(`CopyTrue`), that no restoration of the user is waiting to be recorded, and that a copy which is about to restrict has an
end while one about to strike has none left to lose and all its warnings counted. A restored user has nothing in force that the restoration did not
cover (`RowTrue`), a served command has read what is there (`CommandTrue`). A step from an old copy sets `overtaken`, a write over an
end `erased`, so it is enough to follow the fresh ones. The proof showed that `/unban` reads `DRY_RUN` once
(`mobguard_core/app.py:1541`): on a dry run it goes on to delete the row, which the model now keeps as the position "skipped".

**CoreAnswers.** An answer is written in several statements, and the reads of a line may fall between them, and an analysis may cache its verdict
after the answer has emptied the cache. What decides is how long things live: `OldVerdictsExpire` and `OldAnalysesExpire` say that a verdict
older than an answer, cached or still to be cached, is gone before the answer is, because a verdict lives shorter and a line less than a
day. So a line that found no answer finds no older verdict either (`ReadersAreSafe`); `BotInv` is their conjunction with the types.
`AskInv` counts a question in the queue by the positions that hold it, or in `failed` when the line that marked it did not get
there, and adds that what waits is of this era or an earlier one, so clearing begins at nothing.

Only model-checked:

- liveness (`Drains`, `JobsSettle`, `BanReachesPanel`, `RestrictionsEnd`, `ModulesConverge`, `RestartArrives`): fairness and
  ENABLED are out of the prover's reach.
- `SanctionsAreEarned` as a whole. Its first conjunct, `MobileEvidenceNeverConvicts`, compares a decision with the one more mobile
  evidence would have given, and is checked for one event with every combination of signals. Whether it holds depends on the figures
  of the settings; and with edits in between it is not a property of the code, since what an event counts may change after its
  analysis. The theorems above state the other conjuncts.

## 5. Findings

`enforcement_rollout` ends in a violation. The dispatcher derives its mode from the live rules alone
(`ingest_pipeline.py:834`), the store keeps only editable settings in them (`store.py:524`), and `limiter_rollout_mode` is not
one: with every switch at enforce the dispatcher still reads "observe" and files each job as applied without sending it,
while the worker, which also reads the runtime settings, goes on recording strikes. The texts of the settings page
(`en.ts:903`, `en.ts:1846`) say that enforce restricts. The run `enforcement` sets `ModeInLiveRules` and asks what the
dispatcher does when it can see the mode.

`decision_guardrail` ends in one too. With `auto_enforce_requires_hard_or_multi_signal` off, `_finalize_bundle` makes every
HIGH_HOME verdict punitive (`pipeline.py:93`), also one the provider guardrail blocked: only `derive_punitive_eligibility`,
which that branch skips, looks at the guardrail. `docs/scoring-decision-semantics.md:22` says that of a blocked guardrail "the
verdict may exist, but automation must not act on it". The run `decision` checks what the code does keep to:
`StrictRulesProtect`, that a decision the rule would not have allowed was scored while the rule was off, and that the rule
may be on again when it is used.

## 6. Other disagreements and limits met while modelling

Some of these were counterexamples of runs of their own before the runs were merged; all are visible in the modules.

Enforcement and strikes:

- Unban after the second strike of a user with an own traffic limit restores nothing, against "Restore full access"
  (`access_control.py:114`, `ingest_pipeline.py:413`, `en.ts:1193`). A second, lower manual cap overwrites the saved limit
  (`data_admin.py:240`); unban followed by "Restore previous limit" (`en.ts:1196`) puts the ended restriction's cap back.
- `en.ts:1788` speaks of restrictions that end; `unban_time` (`ingest_pipeline.py:412`) is stored and shown, nothing in the
  deployed services lifts the restriction when it passes.
- `job_key`'s ON CONFLICT keeps the old status, so a repeated delivery after maintenance can plan a strike whose settled
  job is never sent. Panel clients cache users for 15 and 30 seconds, so a plan may save an old limit.
- Setting strikes to 0 deletes the row with its saved limits. Restoring strikes from the largest `strike_number` left in the
  history can bring forgiven strikes back. The incident reset deletes jobs the dispatcher may hold, judges a restriction
  by an `unban_time` inside the window, and erases the record when the panel's answer is lost.
- The limiter and the ladder read before they lock: counts can be lost (never invented), and with the limiter
  off two events can plan the same strike. Observe and warning-only rollouts still write cooldowns and ignore rules. The
  warning-persist and dry-run branches of `_plan_enforcement_tx` cannot be reached, and `warnings_before_ban`,
  `manual_ban_approval_enabled` and `warning_timeout_seconds` (`en.ts:1764`-`1783`) are read nowhere in the panel.
- A HOME verdict of an override is not tracked, so with a usage threshold and no tracker it is suppressed.
- VIP users are looked up (`modules.py:1092`, `1371`) but `_plan_enforcement_tx` does not ask whether the user is one.
- An ignore rule that has expired is deleted by the look-up that finds it, and one without an end never expires
  (`limiter_engine.py:75`); the only code that writes one gives it an end, and `Ladder` drops the rows by date.
- `_apply_enforcement_if_needed` and `_process_module_event` (`modules.py`) and `store.create_enforcement_job` have no caller.

Decisions:

- The HWID check rescores a verdict an override gave (`modules.py:1214`, `docs/scoring-decision-semantics.md:4`), and the
  concurrency immunity (`pipeline.py:356`) does not survive it. A corrected cache entry keeps deciding as before because
  `from_cache_record` reads the bundle (`models/decision.py:165`, `en.ts:1038`).
- A device lookup that fails looks like a user without devices; the unknown device is then registered and rewarded
  (`modules.py:1173`, `1196`).
- A cached decision that is punitive under the looser rule stays punitive for up to three days after the rule for strong
  cases is switched on (`ingest_pipeline.py:564`, `en.ts:1690`). The automatic resolution of a provider conflict at a
  stationary home line sets an override HOME on a verdict the guardrail blocked, which makes the next event punitive
  (`review_auto_resolution.py:165`).
- `get_recent_ip_history` takes the oldest 1000 rows, not the newest; a session's lifetime counts silences the tracker
  cleanup missed; a user's own present event is not counted in the concurrency immunity.

Cases and profiles:

- A case re-opened between read and write of a resolution is closed unseen (`review_admin.py:2314`,
  `tests/test_store_review_flow.py:118`); the older of two readings of the labels may be promoted last
  (`review_admin.py:2176`). A SKIP withdraws labels and does not promote (`review_admin.py:2376`). A suggestion accepted by
  two requests at once deletes its own row (`ai_learning_suggestions.py:50`): the pattern goes with the next promotion.
- Staleness of a profile has a resolution of one second, and a recheck stamps its event before its transaction begins and
  sets `updated_at` back: a page can miss the recheck's event. A recheck counts as a hit and can re-open a MERGED case.
  Rebuilt by a page, a profile stays "stale" if the device has newer events in other cases.
- Two first events of a scope can open two cases (`SplitOnlyByRace` names the race), and RESOLVED with OPEN cases of one
  scope are never merged. In `CaseFiles` filing is one step: the counters of a scope whose filings overlap are not
  modelled. A resolution is one step in `ReviewCases`; PostgreSQL would let its statements mix with another's
  (`review_admin.py:2325`-`2371`).
- Events have one-second dates and the query no tie-break, so a new event may be placed before one of the same second, and a
  travel of no time is no travel (`usage_profile.py:731`, `778`, `912`): reasons about travels and rotations, and the 160
  points of an impossible one, can be taken back.
- The burst threshold is ignored whenever an anchor is given, which is for every case (`usage_profile.py:944`,
  `signalBadges.ts:160`); worker, page and recheck use default burst settings because the repository's store has no
  `get_live_rules`; a single heavy point hides a qualifying burst of two; a page invents figures for a burst that is named
  without any (`reviews.py:63`); a rebuilt profile keeps the old burst without its soft reason (`review_admin.py:1814`).
- The dirty flag is cleared whatever changed during the refresh (`store.py:2522`), an idle pipeline is shown as stale, and of
  two overlapping refreshes the older may write last. The scope backfill empties the whole read cache (`store.py:2769`), so
  a busy database answers 503 afterwards.

Rules, modules and owners:

- Overlapping saves lose edits and give two sets of rules one revision; a cache filled between the write of the rules and
  of their time stays old until the next write of the file (`store.py:953`); exemption toggles compute from an earlier
  read; all writers share one `.tmp`. A restart restores settings that were cleared, from `runtime_settings_backup`. A save
  whose audit fails is published all the same.
- `register_module` does not ask whether the module is enabled; `update_managed_module` replaces the metadata and drops a
  pending restart token.
- A mistyped code leaves the second factor enabled (`auth.py:420`); a confirmation in flight over a reset enables the old
  secret again; a challenge that expires between storing and showing leaves an enabled secret nobody saw; one challenge
  may give two sessions (`auth.py:397`).
- `AdminAuth` has the roles of the default single-admin mode. With that mode off a login overwrites the recorded role
  (`admin_security.py:37`), and switching the second factor off clears the rows recorded as owner
  (`admin_security.py:122`), so an owner who was demoted since keeps an enabled factor through a reset.
- `LiveRules` reads the file and its time in one step (`store.py:850`-`859`); a write between the two makes the cache newer
  than its date, and the next request reads it again.

The stand-alone bot:

- A warning's INSERT OR REPLACE erases an expired end that was not yet served, the saved limits and the last forgiveness.
  Rejecting a ban deletes the row and then fails on a column `active_trackers` does not have; a late or repeated approval
  applies a default restriction to a user without a row; "User active while banned. Re-disabling" applies a restriction
  that still waits for approval (`en.ts:1782`). `/dry`, `/exempt` and `/immune` last until the next refresh; a dry-run unbanner
  clears `unban_time` without restoring; `/strike add|set` erases the end; forgiveness writes a count it read earlier.
- A failed flush puts back counts it has already written, so they are counted twice. The report task and the unbanner
  have no `try` and nothing watches them (`app.py:2595`, `3029`): one failed statement ends the unbanner, and restrictions last
  until the next restart. The daily report shows 15 providers and 10 words, or nothing while notifications are off, and then
  deletes the whole day (`app.py:2752`, `2769`, `2778`). A question whose usage profile cannot be built is marked as asked
  and never queued (`app.py:1196`-`1250`). A stop loses up to five minutes of counts and the pool. A lookup that fails in a round of the pool is dropped.
- A deleted answer may go on deciding through the cached verdict for three days; `/ipinfo` caches an analysis made without
  behaviour; a button pressed twice counts its learning twice; questions carry no buttons any more. `/clear unsure_patterns`, as
  documented, is refused (the flag is `unsure`), and `/clear all` keeps `exact_ip_overrides`. The cleanup compares local time
  with times in UTC. A question that Telegram or switched-off notifications refuse is not asked again.

## 7. Not modelled, and what is left

- The manual traffic-cap endpoints, manual warnings and the incident reset: administrator tools on the same rows as
  `Enforcement`; section 6 says what they do beside the outbox.
- The panel client's caches, and the counters of two cases that a race opened for one scope.
- Validation of settings, the runtime settings and the environment file; passwords, signatures, cookies and permissions.
- Consoles, exports, AI optimizer, Bedolaga, health, metrics, web and scripts: they read what the parts above write, or
  talk to services of which nothing is known here.

Worth proving next: that a score under the default weights grows with mobile evidence, which is the part of
`MobileEvidenceNeverConvicts` that no edit disturbs, and with it the rest of `SanctionsAreEarned` for one event. `PROJECT.json` lists every component with its status.
