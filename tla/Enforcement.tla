---------------------------- MODULE Enforcement ----------------------------
(***************************************************************************)
(* From a strike to the Remnawave panel: the violations table, the outbox   *)
(* of enforcement jobs, the dispatcher that sends them, and the             *)
(* administrators who restrict and restore users at the same time.          *)
(*                                                                         *)
(* The ingest worker looks a user up in Remnawave, and later, inside its    *)
(* transaction, records the strike and queues a job.  The dispatcher claims *)
(* a batch of jobs, reads the runtime mode once, and sends or suppresses    *)
(* every job of the batch.  Administrators write the violations table and   *)
(* call Remnawave directly, without looking at the outbox.                  *)
(*                                                                         *)
(* The worker reads the mode in the runtime settings and the live rules     *)
(* together, the dispatcher in the live rules alone, and there the store    *)
(* keeps only the editable keys: no dry_run, no warning_only_mode and no    *)
(* limiter_rollout_mode, without which the mode is observe.  ModeInLiveRules *)
(* is FALSE for the dispatcher with this store, and TRUE for the dispatcher *)
(* with a store that returns those keys, as its tests supply it.            *)
(*                                                                         *)
(* One API process runs (docker-compose.yml), so there is one dispatcher    *)
(* and only it touches claims: a lease that matters runs out only after a   *)
(* lost batch.  Administrator requests are modelled one at a time.          *)
(***************************************************************************)
EXTENDS Integers, Sequences, FiniteSets

CONSTANTS
  Users,         \* Remnawave users
  Threshold,     \* traffic_cap_threshold_gb
  Increment,     \* traffic_cap_increment_gb
  PlainLimit,    \* every user's traffic limit before MobGuard acts, 0 = none
  BatchLimit,    \* ENFORCEMENT_CLAIM_BATCH_SIZE
  MaxAttempts,   \* ENFORCEMENT_MAX_ATTEMPTS
  Requests,      \* the administrator requests in use
  ModeInLiveRules,   \* do the live rules hold the mode's settings?
  MaxUsed,       \* bound: traffic a user consumes
  MaxStrikes,    \* bound: strikes of a user, and jobs in all
  MaxLosses,     \* bound: batches lost to crashes
  MaxSwitches,   \* bound: changes of the runtime mode
  MaxAdmin       \* bound: administrator requests

ASSUME EnforcementAssumption ==
  /\ Threshold \in Nat /\ PlainLimit \in Nat /\ MaxUsed \in Nat
  /\ Increment \in Nat \ {0}
  /\ BatchLimit \in Nat \ {0} /\ MaxAttempts \in Nat \ {0}
  /\ Requests \subseteq {"ban", "unban", "strikes"}
  /\ ModeInLiveRules \in BOOLEAN
  /\ MaxStrikes \in Nat /\ MaxLosses \in Nat
  /\ MaxSwitches \in Nat /\ MaxAdmin \in Nat

VARIABLES
  row,           \* violations, by user
  jobs,          \* enforcement_jobs in id order
  remote,        \* what Remnawave has for a user
  used,          \* traffic the user has consumed, as Remnawave reports it
  mode,          \* "enforce", or "observe" for every mode that suppresses
  lookup,        \* the user the ingest worker is processing, as it read it
  batch,         \* the dispatcher's claimed jobs: [id, attempts]
  dpc, fault,    \* where the dispatcher stands; is its failure permanent?
  admin,         \* the administrator request in progress
  overtaken,     \* history: was the user's row deleted ahead of its jobs?
  stale,         \* history: jobs sent since the mode left "enforce"
  losses, switches, adminOps    \* how much of each bound is used

recordVars == <<row, jobs>>
remoteVars == <<remote, used>>
dispatcherVars == <<batch, dpc, fault>>
historyVars == <<overtaken, stale>>
boundVars == <<losses, switches, adminOps>>
vars == <<recordVars, remoteVars, mode, lookup, dispatcherVars, admin,
          historyVars, boundVars>>

-----------------------------------------------------------------------------
(* Rows, jobs and the remote user *)

None == -1      \* SQL NULL in a traffic-limit column

Modes == {"enforce", "observe"}
RestrictionModes == {"SQUAD", "TRAFFIC_CAP"}
Positions == {"idle", "claimed", "sending", "suppressing", "sent", "failing"}
Limits == Nat \cup {None}

\* unban_time is left out: it is shown, but no operation of the panel reads it.
Row == [present : BOOLEAN, strikes : Nat, mode : RestrictionModes, saved : Limits]

\* What _get_violation_restriction_state returns when there is no row.
NoRow == [present |-> FALSE, strikes |-> 0, mode |-> "SQUAD", saved |-> None]

Job == [user : Users, type : {"access_state", "traffic_cap"}, limit : Limits,
        status : {"pending", "applied", "failed"}, leased : BOOLEAN,
        due : BOOLEAN, attempts : Nat, sent : BOOLEAN, suppressed : BOOLEAN]

NewJob(u, type, limit) ==
  [user |-> u, type |-> type, limit |-> limit, status |-> "pending",
   leased |-> FALSE, due |-> TRUE, attempts |-> 0,
   sent |-> FALSE, suppressed |-> FALSE]

Remote == [squad : {"full", "restricted"}, limit : Nat]
FullAccess == [squad |-> "full", limit |-> PlainLimit]

NoLookup == [busy |-> FALSE]
Lookup == [busy : {TRUE}, user : Users, limit : Nat, used : Nat]

NoRequest == [op |-> "none"]
Request == [op : {"ban"}, user : Users]
             \cup [op : {"unban", "delete"}, user : Users,
                   mode : RestrictionModes, saved : Limits]

Unsettled(u) == \E i \in DOMAIN jobs : jobs[i].user = u /\ jobs[i].status = "pending"

Init ==
  /\ row = [u \in Users |-> NoRow]
  /\ jobs = <<>>
  /\ remote = [u \in Users |-> FullAccess]
  /\ used = [u \in Users |-> 0]
  /\ mode = "enforce"
  /\ lookup = NoLookup
  /\ batch = {} /\ dpc = "idle" /\ fault = FALSE
  /\ admin = NoRequest
  /\ overtaken = [u \in Users |-> FALSE] /\ stale = 0
  /\ losses = 0 /\ switches = 0 /\ adminOps = 0

-----------------------------------------------------------------------------
(* build_auto_restriction_state and build_traffic_cap_plan: a heavy user is *)
(* capped at the traffic used so far plus the increment, unless the limit   *)
(* in force is at least as strict; the limit in force is what is saved.     *)

Target(traffic) == traffic + Increment

\* Mutant: a limit of 0 is taken for the strictest limit, not for none.
AutoRestrictionZeroIsStrict(limit, traffic) ==
  IF traffic < Threshold
  THEN [mode |-> "SQUAD", saved |-> None, limit |-> None, change |-> TRUE]
  ELSE IF limit <= Target(traffic)
  THEN [mode |-> "TRAFFIC_CAP", saved |-> None, limit |-> limit, change |-> FALSE]
  ELSE [mode |-> "TRAFFIC_CAP", saved |-> limit, limit |-> Target(traffic), change |-> TRUE]

AutoRestriction(limit, traffic) ==
  IF traffic < Threshold
  THEN [mode |-> "SQUAD", saved |-> None, limit |-> None, change |-> TRUE]
  ELSE IF limit > 0 /\ limit <= Target(traffic)
  THEN [mode |-> "TRAFFIC_CAP", saved |-> None, limit |-> limit, change |-> FALSE]
  ELSE [mode |-> "TRAFFIC_CAP", saved |-> limit, limit |-> Target(traffic), change |-> TRUE]

\* apply_remote_access_state: the squad, and a disconnect that may fail.
Squadded(r) == [r EXCEPT !.squad = "restricted"]

\* _dispatch_remote_job: what a job does to the remote user.
Applied(r, j) ==
  IF j.type = "access_state" THEN Squadded(r)
  ELSE [r EXCEPT !.limit = j.limit]

\* restore_remote_restriction_state: a cap without a saved limit is left.
Restored(r, restrictionMode, saved) ==
  IF restrictionMode = "SQUAD" THEN [r EXCEPT !.squad = "full"]
  ELSE IF saved = None THEN r
  ELSE [r EXCEPT !.limit = saved]

-----------------------------------------------------------------------------
(* The environment *)

UseTraffic(u) ==
  /\ used[u] < MaxUsed
  /\ used' = [used EXCEPT ![u] = @ + 1]
  /\ UNCHANGED <<recordVars, remote, mode, lookup, dispatcherVars, admin,
                 historyVars, boundVars>>

(* An owner edits dry_run, shadow_mode, warning_only_mode or the rollout    *)
(* mode.                                                                    *)
SwitchMode ==
  /\ switches < MaxSwitches
  /\ switches' = switches + 1
  /\ mode' = IF mode = "enforce" THEN "observe" ELSE "enforce"
  /\ stale' = 0
  /\ UNCHANGED <<recordVars, remoteVars, lookup, dispatcherVars, admin,
                 overtaken, losses, adminOps>>

-----------------------------------------------------------------------------
(* The ingest worker: _resolve_remote_user, then _plan_enforcement_tx       *)

workerFrame == <<remoteVars, mode, dispatcherVars, admin, historyVars, boundVars>>

ResolveRemoteUser(u) ==
  /\ lookup = NoLookup
  /\ row[u].strikes < MaxStrikes /\ Len(jobs) < MaxStrikes
  /\ lookup' = [busy |-> TRUE, user |-> u, limit |-> remote[u].limit, used |-> used[u]]
  /\ UNCHANGED <<recordVars, workerFrame>>

(* No strike: the verdict, the usage threshold, the limiter or the mode     *)
(* spares the user; such warnings leave no trace in violations.             *)
PlanNothing ==
  /\ lookup # NoLookup
  /\ lookup' = NoLookup
  /\ UNCHANGED <<recordVars, workerFrame>>

(* A punitive HIGH_HOME verdict while the settings, read again in the       *)
(* transaction, say enforce: the next strike replaces the restriction state *)
(* of the row, and a job is queued unless the limit in force is kept.       *)
(* Whether the user is VIP is not looked at.                                *)
PlanBan ==
  /\ lookup # NoLookup
  /\ mode = "enforce"
  /\ LET u == lookup.user
         state == AutoRestriction(lookup.limit, lookup.used)
         type == IF state.mode = "SQUAD" THEN "access_state" ELSE "traffic_cap"
     IN /\ row' = [row EXCEPT ![u] =
                     [present |-> TRUE, strikes |-> @.strikes + 1,
                      mode |-> state.mode, saved |-> state.saved]]
        /\ jobs' = IF state.change
                   THEN Append(jobs, NewJob(u, type, state.limit)) ELSE jobs
  /\ lookup' = NoLookup
  /\ UNCHANGED workerFrame

-----------------------------------------------------------------------------
(* claim_enforcement_jobs *)

dispatcherFrame == <<row, used, mode, lookup, admin, overtaken, switches, adminOps>>

Held(i) == \E c \in batch : c.id = i

BackoffElapses(i) ==
  /\ jobs[i].status = "pending" /\ ~jobs[i].due
  /\ jobs' = [jobs EXCEPT ![i].due = TRUE]
  /\ UNCHANGED <<remote, dispatcherVars, stale, losses, dispatcherFrame>>

\* Mutant: the reclaim looks for the state name of the raw-event queue.
LeaseExpiresProcessing(i) ==
  /\ jobs[i].status = "processing" /\ ~Held(i)
  /\ jobs' = [jobs EXCEPT ![i].leased = FALSE]
  /\ UNCHANGED <<remote, dispatcherVars, stale, losses, dispatcherFrame>>

(* ENFORCEMENT_CLAIM_TIMEOUT_SECONDS pass for a job of a lost batch; the    *)
(* next claim takes it back.                                                *)
LeaseExpires(i) ==
  /\ jobs[i].leased /\ ~Held(i)
  /\ jobs' = [jobs EXCEPT ![i].leased = FALSE]
  /\ UNCHANGED <<remote, dispatcherVars, stale, losses, dispatcherFrame>>

Claimable == {i \in DOMAIN jobs :
                jobs[i].status = "pending" /\ jobs[i].due /\ ~jobs[i].leased}

\* The LIMIT oldest of S, all of S when it has no more.
IsOldest(chosen, S) ==
  /\ chosen \subseteq S
  /\ \A i \in chosen, j \in S \ chosen : i < j
  /\ Cardinality(chosen) <= BatchLimit
  /\ chosen = S \/ Cardinality(chosen) = BatchLimit

ClaimJobs ==
  /\ dpc = "idle" /\ Claimable # {}
  /\ \E chosen \in SUBSET Claimable :
       /\ IsOldest(chosen, Claimable)
       /\ jobs' = [i \in DOMAIN jobs |->
                     IF i \in chosen
                     THEN [jobs[i] EXCEPT !.leased = TRUE, !.attempts = @ + 1]
                     ELSE jobs[i]]
       /\ batch' = {[id |-> i, attempts |-> jobs[i].attempts + 1] : i \in chosen}
  /\ dpc' = "claimed"
  /\ UNCHANGED <<remote, fault, stale, losses, dispatcherFrame>>

-----------------------------------------------------------------------------
(* dispatch_enforcement_batch_once *)

IsHead(c) == c \in batch /\ \A d \in batch : c.id <= d.id

\* On to the next job, or to the next claim after the last one.
Advance(c) ==
  /\ batch' = batch \ {c}
  /\ dpc' = IF batch = {c} THEN "idle"
            ELSE IF dpc = "suppressing" THEN "suppressing" ELSE "sending"
  /\ fault' = FALSE

\* Mutant: the mode of the previous batch is used for this one.
ReadModeCached ==
  /\ dpc = "claimed"
  /\ dpc' \in {"sending", "suppressing"}
  /\ UNCHANGED <<jobs, remote, batch, fault, stale, losses, dispatcherFrame>>

\* _normalize_settings_for_runtime drops what is not editable.
DispatcherMode == IF ModeInLiveRules THEN mode ELSE "observe"

(* The live rules are read once for the whole batch. *)
ReadMode ==
  /\ dpc = "claimed"
  /\ dpc' = IF DispatcherMode = "enforce" THEN "sending" ELSE "suppressing"
  /\ UNCHANGED <<jobs, remote, batch, fault, stale, losses, dispatcherFrame>>

Settle(j) == [j EXCEPT !.status = "applied", !.leased = FALSE]

SuppressJob(c) ==
  /\ dpc = "suppressing"
  /\ jobs' = [jobs EXCEPT ![c.id] = [Settle(@) EXCEPT !.suppressed = TRUE]]
  /\ Advance(c)
  /\ UNCHANGED <<remote, stale, losses, dispatcherFrame>>

\* The request reaches Remnawave.
Reaches(c) ==
  /\ remote' = [remote EXCEPT ![jobs[c.id].user] = Applied(@, jobs[c.id])]
  /\ jobs' = [jobs EXCEPT ![c.id].sent = TRUE]
  /\ stale' = IF mode = "enforce" THEN stale ELSE stale + 1

SendJob(c) ==
  /\ dpc = "sending"
  /\ Reaches(c)
  /\ dpc' = "sent"
  /\ UNCHANGED <<batch, fault, losses, dispatcherFrame>>

(* The request or its answer is lost, or the answer cannot be read.  A      *)
(* ValueError is permanent: an answer that cannot be decoded, or a job that *)
(* names no squad.                                                          *)
SendFails(c, reaches) ==
  /\ dpc = "sending"
  /\ IF reaches THEN Reaches(c) ELSE UNCHANGED <<remote, jobs, stale>>
  /\ dpc' = "failing"
  /\ fault' \in BOOLEAN
  /\ UNCHANGED <<batch, losses, dispatcherFrame>>

\* Mutant: a job may be marked before it is sent.
MarkAppliedEarly(c) ==
  /\ dpc \in {"sending", "sent"}
  /\ jobs' = [jobs EXCEPT ![c.id] = Settle(@)]
  /\ Advance(c)
  /\ UNCHANGED <<remote, stale, losses, dispatcherFrame>>

MarkApplied(c) ==
  /\ dpc = "sent"
  /\ jobs' = [jobs EXCEPT ![c.id] = Settle(@)]
  /\ Advance(c)
  /\ UNCHANGED <<remote, stale, losses, dispatcherFrame>>

(* mark_enforcement_job_applied raises, the remote change having been made. *)
MarkAppliedFails ==
  /\ dpc = "sent"
  /\ dpc' = "failing"
  /\ UNCHANGED <<jobs, remote, batch, fault, stale, losses, dispatcherFrame>>

(* mark_enforcement_job_retry *)
MarkRetry(c) ==
  /\ dpc = "failing"
  /\ LET deadLetter == fault \/ c.attempts >= MaxAttempts
     IN jobs' = [jobs EXCEPT ![c.id] =
                   [@ EXCEPT !.status = IF deadLetter THEN "failed" ELSE "pending",
                             !.leased = FALSE, !.due = FALSE]]
  /\ Advance(c)
  /\ UNCHANGED <<remote, stale, losses, dispatcherFrame>>

(* The process dies, the task is cancelled, or reading the rules, settling  *)
(* a suppressed job or mark_enforcement_job_retry raises.                   *)
LoseBatch ==
  /\ dpc # "idle" /\ losses < MaxLosses
  /\ losses' = losses + 1
  /\ batch' = {} /\ dpc' = "idle" /\ fault' = FALSE
  /\ UNCHANGED <<jobs, remote, stale, dispatcherFrame>>

DispatcherStep ==
  \/ ClaimJobs \/ ReadMode \/ MarkAppliedFails
  \/ \E c \in batch :
       /\ IsHead(c)
       /\ \/ SuppressJob(c) \/ SendJob(c) \/ MarkApplied(c) \/ MarkRetry(c)
          \/ \E reaches \in BOOLEAN : SendFails(c, reaches)

-----------------------------------------------------------------------------
(* Administrator requests *)

adminFrame == <<jobs, used, mode, lookup, dispatcherVars, stale, losses, switches>>

Begin(request) ==
  /\ request \in Requests
  /\ admin = NoRequest /\ adminOps < MaxAdmin
  /\ adminOps' = adminOps + 1

\* A row is deleted; its user's unsettled jobs, or a restriction, stay.
Forget(u) ==
  /\ row' = [row EXCEPT ![u] = NoRow]
  /\ overtaken' = [overtaken EXCEPT
                     ![u] = @ \/ Unsettled(u) \/ remote[u].squad = "restricted"]

\* Mutant: ban_user calls Remnawave before it commits.
BanUserRemoteFirst(u) ==
  /\ Begin("ban")
  /\ remote' = [remote EXCEPT ![u].squad = "restricted"]
  /\ UNCHANGED <<row, admin, overtaken, adminFrame>>

(* ban_user: the transaction ... *)
BanUser(u) ==
  /\ Begin("ban")
  /\ row' = [row EXCEPT ![u] =
               [present |-> TRUE, strikes |-> IF @.strikes > 1 THEN @.strikes ELSE 1,
                mode |-> "SQUAD", saved |-> None]]
  /\ admin' = [op |-> "ban", user |-> u]
  /\ UNCHANGED <<remote, overtaken, adminFrame>>

(* ... and then the call to Remnawave, whose failure is only reported.      *)
BanRemote ==
  /\ admin.op = "ban"
  /\ \/ remote' = [remote EXCEPT ![admin.user] = Squadded(@)]
     \/ UNCHANGED remote
  /\ admin' = NoRequest
  /\ UNCHANGED <<row, overtaken, adminOps, adminFrame>>

(* unban_user: read the restriction state, ... *)
UnbanUser(u) ==
  /\ Begin("unban")
  /\ admin' = [op |-> "unban", user |-> u, mode |-> row[u].mode, saved |-> row[u].saved]
  /\ UNCHANGED <<row, remote, overtaken, adminFrame>>

(* ... undo it in Remnawave, giving up when that fails, but going on when   *)
(* there is no Remnawave to ask (no URL or token is configured), ...        *)
UnbanRemote ==
  /\ admin.op = "unban"
  /\ remote' \in {remote, [remote EXCEPT ![admin.user] = Restored(@, admin.mode, admin.saved)]}
  /\ admin' \in {[admin EXCEPT !.op = "delete"], NoRequest}
  /\ UNCHANGED <<row, overtaken, adminOps, adminFrame>>

(* ... and delete the row, whatever it says by now.  The outbox is left.    *)
UnbanDelete ==
  /\ admin.op = "delete"
  /\ Forget(admin.user)
  /\ admin' = NoRequest
  /\ UNCHANGED <<remote, adminOps, adminFrame>>

(* update_user_strikes: zero deletes the row, restriction state and all.    *)
UpdateUserStrikes(u, count) ==
  /\ Begin("strikes")
  /\ IF count = 0 THEN Forget(u)
     ELSE /\ row' = [row EXCEPT ![u].present = TRUE, ![u].strikes = count]
          /\ UNCHANGED overtaken
  /\ UNCHANGED <<remote, admin, adminFrame>>

-----------------------------------------------------------------------------
WorkerStep ==
  \/ PlanNothing \/ PlanBan
  \/ \E u \in Users : ResolveRemoteUser(u)

AdminStep ==
  \/ BanRemote \/ UnbanRemote \/ UnbanDelete
  \/ \E u \in Users :
       \/ BanUser(u) \/ UnbanUser(u)
       \/ \E count \in 0 .. MaxStrikes : UpdateUserStrikes(u, count)

Next ==
  \/ WorkerStep \/ DispatcherStep \/ AdminStep \/ LoseBatch \/ SwitchMode
  \/ \E u \in Users : UseTraffic(u)
  \/ \E i \in DOMAIN jobs : BackoffElapses(i) \/ LeaseExpires(i)

Spec == Init /\ [][Next]_vars

(* The dispatcher loop survives every exception but cancellation, and a     *)
(* cancelled process is restarted; clocks advance.                          *)
Fairness ==
  /\ WF_vars(DispatcherStep)
  /\ \A i \in 1 .. MaxStrikes :
       WF_vars(i \in DOMAIN jobs /\ (BackoffElapses(i) \/ LeaseExpires(i)))

FairSpec == Spec /\ Fairness

-----------------------------------------------------------------------------
(* Properties *)

(* Every variable has its type. *)
TypeOK ==
  /\ row \in [Users -> Row]
  /\ jobs \in Seq(Job)
  /\ remote \in [Users -> Remote]
  /\ used \in [Users -> Nat]
  /\ mode \in Modes
  /\ lookup \in Lookup \cup {NoLookup}
  /\ batch \subseteq [id : DOMAIN jobs, attempts : Nat]
  /\ dpc \in Positions /\ fault \in BOOLEAN
  /\ admin \in Request \cup {NoRequest}
  /\ overtaken \in [Users -> BOOLEAN] /\ stale \in Nat
  /\ losses \in Nat /\ switches \in Nat /\ adminOps \in Nat

(* Once an owner leaves enforce mode, at most the rest of one claimed batch *)
(* is still sent, however batches are lost, reclaimed and retried.          *)
StaleModeWindow == stale <= BatchLimit

(* A job is filed as applied only after its request reached Remnawave or    *)
(* the mode suppressed it, and it has not used more attempts than its       *)
(* budget and the lost batches allow.                                       *)
AppliedTookEffect ==
  \A i \in DOMAIN jobs :
    /\ jobs[i].status = "applied" => jobs[i].sent \/ jobs[i].suppressed
    /\ jobs[i].attempts <= MaxAttempts + losses

(* A user is in the restricted squad without a violations row only when the *)
(* row was deleted while a job of the user was unsettled or the restriction *)
(* in force: the record always precedes the restriction.                    *)
RestrictionIsRecorded ==
  \A u \in Users :
    remote[u].squad = "restricted" => row[u].present \/ overtaken[u]

(* Every job is settled: backoffs, lost answers, lost batches and mode      *)
(* switches cannot keep one pending for ever.                               *)
JobsSettle ==
  \A u \in Users : Unsettled(u) ~> ~Unsettled(u)

(* A recorded ban reaches Remnawave, unless a job of the user dead-letters  *)
(* or is suppressed by observe mode, or an administrator steps in.          *)
BanReachesPanel ==
  \A u \in Users :
    row[u].present ~> \/ remote[u] # FullAccess \/ adminOps > 0
                      \/ \E i \in DOMAIN jobs :
                           /\ jobs[i].user = u
                           /\ jobs[i].status = "failed" \/ jobs[i].suppressed

(* "limiter allows automatic restrictions": while the owners keep the mode   *)
(* at enforce, a job filed as applied was sent.                             *)
EnforceModeSends ==
  switches = 0 => \A i \in DOMAIN jobs : jobs[i].status = "applied" => jobs[i].sent
=============================================================================
