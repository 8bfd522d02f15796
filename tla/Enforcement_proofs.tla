------------------------- MODULE Enforcement_proofs -------------------------
(***************************************************************************)
(* Theorems about Enforcement, for any number of users, jobs, losses, mode  *)
(* switches and administrator requests: what a filed job did, how far a     *)
(* retired mode is still acted upon, and that a record precedes every       *)
(* restriction.                                                             *)
(*                                                                         *)
(* The first two rest on how the dispatcher stands to its batch: the jobs   *)
(* it holds are pending with the attempts it claimed them with, and at      *)
(* "sent" the head of the batch was sent.                                   *)
(***************************************************************************)
EXTENDS Enforcement, FiniteSetTheorems, SequenceTheorems, TLAPS

-----------------------------------------------------------------------------
(* The inductive invariants *)

(* A job that caps the traffic says at what.                                 *)
CapsHaveLimits ==
  \A i \in DOMAIN jobs : jobs[i].type = "traffic_cap" => jobs[i].limit \in Nat

TypeInv == TypeOK /\ CapsHaveLimits

BatchIsClaimed ==
  /\ \A c \in batch : jobs[c.id].status = "pending" /\ c.attempts = jobs[c.id].attempts
  /\ dpc = "idle" <=> batch = {}
  /\ dpc = "sent" => \A c \in batch : IsHead(c) => jobs[c.id].sent

(* A job nobody holds has an attempt left, or a lost batch to show for it.   *)
AttemptsLeft ==
  \A i \in DOMAIN jobs :
    jobs[i].status = "pending" /\ ~Held(i) => jobs[i].attempts < MaxAttempts + losses

OutboxInv == TypeInv /\ BatchIsClaimed /\ AttemptsLeft /\ AppliedTookEffect

Recorded(u) == row[u].present \/ overtaken[u]

(* The record is there as soon as a job is queued or a ban begun.            *)
RecordInv ==
  /\ \A i \in DOMAIN jobs : jobs[i].status = "pending" => Recorded(jobs[i].user)
  /\ admin.op = "ban" => Recorded(admin.user)
  /\ RestrictionIsRecorded

(* What was sent since the mode changed, and what may still be sent, is at   *)
(* most one batch.                                                           *)
WindowInv ==
  /\ IsFiniteSet(batch) /\ Cardinality(batch) <= BatchLimit
  /\ mode = "enforce" => stale = 0
  /\ dpc = "sending" => stale + Cardinality(batch) <= BatchLimit
  /\ dpc \in {"sent", "failing"} => stale + Cardinality(batch) <= BatchLimit + 1
  /\ StaleModeWindow

-----------------------------------------------------------------------------
(* Jobs *)

(* An update of a job keeps whom it is about and what it is to do.           *)
Becomes(j, k, status, attempts) ==
  /\ k \in Job
  /\ k.user = j.user /\ k.type = j.type /\ k.limit = j.limit
  /\ k.status = status /\ k.attempts = attempts
  /\ j.sent => k.sent
  /\ j.suppressed => k.suppressed

LEMMA JobUpdates ==
  ASSUME NEW j \in Job, NEW status \in {"pending", "failed"}
  PROVE  /\ Becomes(j, [j EXCEPT !.due = TRUE], j.status, j.attempts)
         /\ Becomes(j, [j EXCEPT !.leased = FALSE], j.status, j.attempts)
         /\ Becomes(j, [j EXCEPT !.leased = TRUE, !.attempts = @ + 1], j.status, j.attempts + 1)
         /\ Becomes(j, [j EXCEPT !.sent = TRUE], j.status, j.attempts)
         /\ [j EXCEPT !.sent = TRUE].sent
         /\ Becomes(j, Settle(j), "applied", j.attempts)
         /\ Becomes(j, [Settle(j) EXCEPT !.suppressed = TRUE], "applied", j.attempts)
         /\ [Settle(j) EXCEPT !.suppressed = TRUE].suppressed
         /\ Becomes(j, [j EXCEPT !.status = status, !.leased = FALSE, !.due = FALSE],
                    status, j.attempts)
<1>1. j.attempts + 1 \in Nat
  BY DEF Job
<1>2. Becomes(j, [j EXCEPT !.leased = TRUE, !.attempts = @ + 1], j.status, j.attempts + 1)
  BY <1>1 DEF Becomes, Job
<1>3. /\ Becomes(j, [j EXCEPT !.due = TRUE], j.status, j.attempts)
      /\ Becomes(j, [j EXCEPT !.leased = FALSE], j.status, j.attempts)
  BY DEF Becomes, Job
<1>4. /\ Becomes(j, [j EXCEPT !.sent = TRUE], j.status, j.attempts)
      /\ [j EXCEPT !.sent = TRUE].sent
  BY DEF Becomes, Job
<1>5. Becomes(j, Settle(j), "applied", j.attempts)
  BY DEF Becomes, Job, Settle
<1>6. /\ Becomes(j, [Settle(j) EXCEPT !.suppressed = TRUE], "applied", j.attempts)
      /\ [Settle(j) EXCEPT !.suppressed = TRUE].suppressed
  BY DEF Becomes, Job, Settle
<1>7. Becomes(j, [j EXCEPT !.status = status, !.leased = FALSE, !.due = FALSE], status, j.attempts)
  BY DEF Becomes, Job
<1>. QED BY <1>2, <1>3, <1>4, <1>5, <1>6, <1>7

LEMMA OneJob ==
  ASSUME jobs \in Seq(Job), NEW i \in DOMAIN jobs, NEW j \in Job, jobs' = [jobs EXCEPT ![i] = j]
  PROVE  /\ jobs' \in Seq(Job) /\ DOMAIN jobs' = DOMAIN jobs
         /\ jobs'[i] = j
         /\ \A k \in DOMAIN jobs : k # i => jobs'[k] = jobs[k]
<1>1. DOMAIN jobs = 1 .. Len(jobs)
  BY LenProperties
<1>2. jobs' \in Seq(Job) /\ Len(jobs') = Len(jobs)
  BY <1>1, ExceptSeq
<1>3. DOMAIN jobs' = 1 .. Len(jobs')
  BY <1>2, LenProperties
<1>. QED BY <1>1, <1>2, <1>3, LenProperties

LEMMA JobsAreJobs ==
  ASSUME TypeOK, NEW i \in DOMAIN jobs
  PROVE  /\ jobs[i] \in Job /\ jobs[i].user \in Users /\ jobs[i].attempts \in Nat
         /\ i \in Nat /\ DOMAIN jobs = 1 .. Len(jobs) /\ Len(jobs) \in Nat
<1>1. jobs \in Seq(Job)
  BY DEF TypeOK
<1>2. DOMAIN jobs = 1 .. Len(jobs) /\ Len(jobs) \in Nat
  BY <1>1, LenProperties
<1>3. jobs[i] \in Job
  BY <1>1, <1>2, ElementOfSeq
<1>. QED BY <1>2, <1>3 DEF Job

(* A strike may queue a job.                                                 *)
LEMMA PlanBanJobs ==
  ASSUME TypeOK, PlanBan
  PROVE  /\ lookup \in Lookup
         /\ \/ jobs' = jobs
            \/ /\ jobs' \in Seq(Job)
               /\ DOMAIN jobs' = DOMAIN jobs \cup {Len(jobs) + 1} /\ Len(jobs) + 1 \notin DOMAIN jobs
               /\ \A i \in DOMAIN jobs : jobs'[i] = jobs[i]
               /\ jobs'[Len(jobs) + 1].user = lookup.user
               /\ jobs'[Len(jobs) + 1].status = "pending"
               /\ jobs'[Len(jobs) + 1].attempts = 0
               /\ jobs'[Len(jobs) + 1].type = "traffic_cap" => jobs'[Len(jobs) + 1].limit \in Nat
<1>1. lookup \in Lookup /\ lookup.user \in Users /\ lookup.limit \in Nat /\ lookup.used \in Nat
  BY DEF TypeOK, PlanBan, Lookup
<1>. DEFINE state == AutoRestriction(lookup.limit, lookup.used)
            type == IF state.mode = "SQUAD" THEN "access_state" ELSE "traffic_cap"
            job == NewJob(lookup.user, type, state.limit)
<1>2. /\ state.limit \in Limits
      /\ type = "traffic_cap" => state.limit \in Nat
  BY <1>1, EnforcementAssumption DEF AutoRestriction, Target, Limits, None
<1>3. job \in Job /\ job.user = lookup.user /\ job.status = "pending" /\ job.attempts = 0
      /\ job.type = type /\ job.limit = state.limit
  BY <1>1, <1>2 DEF NewJob, Job
<1>4. jobs \in Seq(Job) /\ DOMAIN jobs = 1 .. Len(jobs) /\ Len(jobs) \in Nat
  BY LenProperties DEF TypeOK
<1>5. jobs' = jobs \/ jobs' = Append(jobs, job)
  BY DEF PlanBan
<1>. HIDE DEF job
<1>6. CASE jobs' = Append(jobs, job)
  <2>1. /\ jobs' \in Seq(Job) /\ Len(jobs') = Len(jobs) + 1
        /\ \A i \in 1 .. Len(jobs) : jobs'[i] = jobs[i]
        /\ jobs'[Len(jobs) + 1] = job
    BY <1>3, <1>4, <1>6
  <2>2. DOMAIN jobs' = DOMAIN jobs \cup {Len(jobs) + 1} /\ Len(jobs) + 1 \notin DOMAIN jobs
    <3>1. DOMAIN jobs' = 1 .. (Len(jobs) + 1)
      BY <2>1, LenProperties
    <3>. QED BY <1>4, <3>1
  <2>. QED BY <1>1, <1>2, <1>3, <1>4, <2>1, <2>2
<1>. QED BY <1>1, <1>5, <1>6

(* A claim takes jobs on, and some.                                          *)
LEMMA ClaimedJobs ==
  ASSUME TypeOK, ClaimJobs
  PROVE  /\ jobs' \in Seq(Job) /\ DOMAIN jobs' = DOMAIN jobs
         /\ \E chosen \in SUBSET DOMAIN jobs :
              /\ chosen # {} /\ IsFiniteSet(chosen) /\ Cardinality(chosen) <= BatchLimit
              /\ \A i \in chosen : /\ jobs[i].status = "pending"
                                   /\ Becomes(jobs[i], jobs'[i], "pending", jobs[i].attempts + 1)
              /\ \A i \in DOMAIN jobs \ chosen : jobs'[i] = jobs[i]
              /\ batch' = {[id |-> i, attempts |-> jobs[i].attempts + 1] : i \in chosen}
<1>1. jobs \in Seq(Job) /\ DOMAIN jobs = 1 .. Len(jobs) /\ Len(jobs) \in Nat
  BY LenProperties DEF TypeOK
<1>2. PICK chosen \in SUBSET Claimable :
        /\ IsOldest(chosen, Claimable)
        /\ jobs' = [i \in DOMAIN jobs |->
                      IF i \in chosen
                      THEN [jobs[i] EXCEPT !.leased = TRUE, !.attempts = @ + 1]
                      ELSE jobs[i]]
        /\ batch' = {[id |-> i, attempts |-> jobs[i].attempts + 1] : i \in chosen}
  BY DEF ClaimJobs
<1>3. chosen \subseteq DOMAIN jobs /\ \A i \in chosen : jobs[i].status = "pending"
  BY DEF Claimable
<1>4. IsFiniteSet(chosen) /\ Cardinality(chosen) <= BatchLimit
  <2>1. IsFiniteSet(1 .. Len(jobs))
    BY <1>1, FS_Interval
  <2>2. IsFiniteSet(chosen)
    BY <1>1, <1>3, <2>1, FS_Subset
  <2>. QED BY <1>2, <2>2 DEF IsOldest
<1>5. chosen # {}
  <2>1. Claimable # {}
    BY DEF ClaimJobs
  <2>. QED BY <1>2, <2>1, FS_EmptySet, EnforcementAssumption DEF IsOldest
<1>6. \A i \in chosen : Becomes(jobs[i], jobs'[i], "pending", jobs[i].attempts + 1)
  <2>. SUFFICES ASSUME NEW i \in chosen
                PROVE  Becomes(jobs[i], jobs'[i], "pending", jobs[i].attempts + 1)
    OBVIOUS
  <2>1. jobs[i] \in Job
    BY <1>3, JobsAreJobs
  <2>2. jobs'[i] = [jobs[i] EXCEPT !.leased = TRUE, !.attempts = @ + 1]
    BY <1>2, <1>3
  <2>. QED BY <1>3, <2>1, <2>2, JobUpdates
<1>7. \A i \in DOMAIN jobs \ chosen : jobs'[i] = jobs[i]
  BY <1>2
<1>8. \A i \in DOMAIN jobs : jobs'[i] \in Job
  BY <1>3, <1>6, <1>7, JobsAreJobs DEF Becomes
<1>9. DOMAIN jobs' = 1 .. Len(jobs)
  BY <1>1, <1>2
<1>10. jobs' \in Seq(Job)
  <2>. DEFINE e(i) == jobs'[i]
  <2>1. jobs' = [i \in 1 .. Len(jobs) |-> e(i)]
    BY <1>1, <1>2
  <2>2. \A i \in 1 .. Len(jobs) : e(i) \in Job
    BY <1>1, <1>8
  <2>. QED BY <1>1, <2>1, <2>2, SeqDef
<1>. QED BY <1>1, <1>2, <1>3, <1>4, <1>5, <1>6, <1>7, <1>9, <1>10

(* The dispatcher settles or sends the head of its batch.                    *)
LEMMA HeadJobs ==
  ASSUME TypeOK, NEW c \in batch, NEW reaches \in BOOLEAN,
         SuppressJob(c) \/ SendJob(c) \/ MarkApplied(c) \/ MarkRetry(c) \/ SendFails(c, reaches)
  PROVE  /\ c.id \in DOMAIN jobs /\ c.attempts \in Nat
         /\ jobs' \in Seq(Job) /\ DOMAIN jobs' = DOMAIN jobs
         /\ \A i \in DOMAIN jobs : i # c.id => jobs'[i] = jobs[i]
         /\ LET j == jobs[c.id]
                k == jobs'[c.id]
            IN /\ SuppressJob(c) => Becomes(j, k, "applied", j.attempts) /\ k.suppressed
               /\ MarkApplied(c) => Becomes(j, k, "applied", j.attempts)
               /\ SendJob(c) => Becomes(j, k, j.status, j.attempts) /\ k.sent
               /\ SendFails(c, reaches) => jobs' = jobs \/ Becomes(j, k, j.status, j.attempts)
               /\ MarkRetry(c) =>
                    /\ Becomes(j, k, k.status, j.attempts)
                    /\ k.status = "failed" \/ (k.status = "pending" /\ c.attempts < MaxAttempts)
<1>1. c.id \in DOMAIN jobs /\ c.attempts \in Nat /\ jobs \in Seq(Job) /\ jobs[c.id] \in Job
  BY JobsAreJobs DEF TypeOK
<1>2. /\ SuppressJob(c) => dpc = "suppressing"
      /\ SendJob(c) => dpc = "sending" /\ dpc' = "sent"
      /\ SendFails(c, reaches) => dpc = "sending" /\ dpc' = "failing"
      /\ MarkApplied(c) => dpc = "sent"
      /\ MarkRetry(c) => dpc = "failing"
  BY DEF SuppressJob, SendJob, SendFails, MarkApplied, MarkRetry
<1>3. ASSUME NEW j \in Job, jobs' = [jobs EXCEPT ![c.id] = j]
      PROVE  /\ jobs' \in Seq(Job) /\ DOMAIN jobs' = DOMAIN jobs
             /\ \A i \in DOMAIN jobs : i # c.id => jobs'[i] = jobs[i]
             /\ jobs'[c.id] = j
  BY <1>1, <1>3, OneJob
<1>4. CASE SuppressJob(c)
  <2>. DEFINE j == [Settle(jobs[c.id]) EXCEPT !.suppressed = TRUE]
  <2>1. Becomes(jobs[c.id], j, "applied", jobs[c.id].attempts) /\ j.suppressed
    BY <1>1, JobUpdates
  <2>2. jobs' = [jobs EXCEPT ![c.id] = j]
    BY <1>4 DEF SuppressJob
  <2>. HIDE DEF j
  <2>3. j \in Job
    BY <2>1 DEF Becomes
  <2>. QED BY <1>1, <1>2, <1>3, <1>4, <2>1, <2>2, <2>3
<1>5. CASE MarkApplied(c)
  <2>. DEFINE j == Settle(jobs[c.id])
  <2>1. Becomes(jobs[c.id], j, "applied", jobs[c.id].attempts)
    BY <1>1, JobUpdates
  <2>2. jobs' = [jobs EXCEPT ![c.id] = j]
    BY <1>5 DEF MarkApplied
  <2>. HIDE DEF j
  <2>3. j \in Job
    BY <2>1 DEF Becomes
  <2>. QED BY <1>1, <1>2, <1>3, <1>5, <2>1, <2>2, <2>3
<1>6. CASE SendJob(c) \/ SendFails(c, reaches)
  <2>. DEFINE j == [jobs[c.id] EXCEPT !.sent = TRUE]
  <2>1. Becomes(jobs[c.id], j, jobs[c.id].status, jobs[c.id].attempts) /\ j.sent
    BY <1>1, JobUpdates
  <2>2. jobs' = [jobs EXCEPT ![c.id] = j] \/ (jobs' = jobs /\ SendFails(c, reaches))
    BY <1>6 DEF SendJob, SendFails, Reaches
  <2>. HIDE DEF j
  <2>3. j \in Job
    BY <2>1 DEF Becomes
  <2>. QED BY <1>1, <1>2, <1>3, <1>6, <2>1, <2>2, <2>3
<1>7. CASE MarkRetry(c)
  <2>. DEFINE status == IF fault \/ c.attempts >= MaxAttempts THEN "failed" ELSE "pending"
              j == [jobs[c.id] EXCEPT !.status = status, !.leased = FALSE, !.due = FALSE]
  <2>1. jobs' = [jobs EXCEPT ![c.id] = j]
    BY <1>7 DEF MarkRetry
  <2>2. status = "failed" \/ (status = "pending" /\ c.attempts < MaxAttempts)
    BY <1>1, EnforcementAssumption
  <2>. HIDE DEF status
  <2>3. Becomes(jobs[c.id], j, status, jobs[c.id].attempts)
    BY <1>1, <2>2, JobUpdates
  <2>. HIDE DEF j
  <2>4. j \in Job /\ j.status = status
    BY <2>3 DEF Becomes
  <2>. QED BY <1>1, <1>2, <1>3, <1>7, <2>1, <2>2, <2>3, <2>4
<1>. QED BY <1>4, <1>5, <1>6, <1>7

-----------------------------------------------------------------------------
(* Type correctness *)

LEMMA TypeInit == Init => TypeInv
<1>1. NoRow \in Row /\ FullAccess \in Remote
  BY EnforcementAssumption DEF NoRow, Row, RestrictionModes, Limits, None, FullAccess, Remote
<1>2. <<>> \in Seq(Job) /\ DOMAIN <<>> = {}
  BY EmptySeq
<1>. SUFFICES ASSUME Init PROVE TypeOK /\ CapsHaveLimits
  BY DEF TypeInv
<1>3. jobs \in Seq(Job) /\ CapsHaveLimits
  BY <1>2 DEF Init, CapsHaveLimits
<1>4. row \in [Users -> Row] /\ remote \in [Users -> Remote] /\ used \in [Users -> Nat]
  BY <1>1 DEF Init
<1>5. mode \in Modes /\ lookup \in Lookup \cup {NoLookup} /\ admin \in Request \cup {NoRequest}
  BY DEF Init, Modes
<1>6. batch \subseteq [id : DOMAIN jobs, attempts : Nat] /\ dpc \in Positions /\ fault \in BOOLEAN
  BY DEF Init, Positions
<1>7. overtaken \in [Users -> BOOLEAN] /\ stale \in Nat
      /\ losses \in Nat /\ switches \in Nat /\ adminOps \in Nat
  BY DEF Init
<1>. QED BY <1>3, <1>4, <1>5, <1>6, <1>7 DEF TypeOK

(* Jobs keep their type and limit when they are updated.                     *)
LEMMA CapsStay ==
  ASSUME CapsHaveLimits, DOMAIN jobs' = DOMAIN jobs,
         \A i \in DOMAIN jobs : jobs'[i] = jobs[i] \/ Becomes(jobs[i], jobs'[i], jobs'[i].status, jobs'[i].attempts)
  PROVE  CapsHaveLimits'
  BY DEF CapsHaveLimits, Becomes

LEMMA RemoteTypes ==
  ASSUME NEW r \in Remote
  PROVE  /\ Squadded(r) \in Remote
         /\ \A j \in Job : (j.type = "traffic_cap" => j.limit \in Nat) => Applied(r, j) \in Remote
         /\ \A restrictionMode \in RestrictionModes, saved \in Limits : Restored(r, restrictionMode, saved) \in Remote
<1>1. Squadded(r) \in Remote
  BY DEF Squadded, Remote
<1>2. ASSUME NEW j \in Job, j.type = "traffic_cap" => j.limit \in Nat
      PROVE  Applied(r, j) \in Remote
  BY <1>1, <1>2 DEF Applied, Remote, Job
<1>3. ASSUME NEW restrictionMode \in RestrictionModes, NEW saved \in Limits
      PROVE  Restored(r, restrictionMode, saved) \in Remote
  BY <1>3 DEF Restored, Remote, Limits
<1>. QED BY <1>1, <1>2, <1>3

LEMMA HeadStepTypes ==
  ASSUME TypeInv, NEW c \in batch, NEW reaches \in BOOLEAN,
         SuppressJob(c) \/ SendJob(c) \/ MarkApplied(c) \/ MarkRetry(c) \/ SendFails(c, reaches)
  PROVE  TypeInv'
<1>. USE DEF TypeInv
<1>1. /\ c.id \in DOMAIN jobs /\ jobs' \in Seq(Job) /\ DOMAIN jobs' = DOMAIN jobs
      /\ \A i \in DOMAIN jobs :
           jobs'[i] = jobs[i] \/ Becomes(jobs[i], jobs'[i], jobs'[i].status, jobs'[i].attempts)
  BY HeadJobs DEF Becomes
<1>2. CapsHaveLimits'
  BY <1>1, CapsStay
<1>3. batch' \subseteq [id : DOMAIN jobs', attempts : Nat]
  BY <1>1 DEF TypeOK, SuppressJob, SendJob, MarkApplied, MarkRetry, SendFails, Advance
<1>4. dpc' \in Positions /\ fault' \in BOOLEAN
  BY DEF TypeOK, SuppressJob, SendJob, MarkApplied, MarkRetry, SendFails, Advance, Positions
<1>5. remote' \in [Users -> Remote] /\ stale' \in Nat
  <2>1. CASE Reaches(c)
    <3>1. Applied(remote[jobs[c.id].user], jobs[c.id]) \in Remote
      BY <1>1, JobsAreJobs, RemoteTypes DEF TypeOK, CapsHaveLimits
    <3>2. remote' \in [Users -> Remote]
      BY <2>1, <3>1 DEF Reaches, TypeOK
    <3>3. stale' \in Nat
      BY <2>1 DEF Reaches, TypeOK
    <3>. QED BY <3>2, <3>3
  <2>2. CASE UNCHANGED <<remote, stale>>
    BY <2>2 DEF TypeOK
  <2>. QED BY <2>1, <2>2 DEF SuppressJob, SendJob, MarkApplied, MarkRetry, SendFails
<1>6. UNCHANGED dispatcherFrame /\ losses' = losses
  BY DEF SuppressJob, SendJob, MarkApplied, MarkRetry, SendFails
<1>. QED BY <1>1, <1>2, <1>3, <1>4, <1>5, <1>6 DEF TypeOK, dispatcherFrame

LEMMA DispatcherTypes ==
  ASSUME TypeInv, DispatcherStep \/ LoseBatch \/ \E i \in DOMAIN jobs : BackoffElapses(i) \/ LeaseExpires(i)
  PROVE  TypeInv'
<1>. USE DEF TypeInv
<1>1. CASE ClaimJobs
  <2>1. /\ jobs' \in Seq(Job) /\ DOMAIN jobs' = DOMAIN jobs
        /\ \A i \in DOMAIN jobs :
             jobs'[i] = jobs[i] \/ Becomes(jobs[i], jobs'[i], jobs'[i].status, jobs'[i].attempts)
        /\ batch' \subseteq [id : DOMAIN jobs', attempts : Nat]
    <3>1. \A i \in DOMAIN jobs : jobs[i].attempts + 1 \in Nat
      BY JobsAreJobs
    <3>. QED BY <1>1, <3>1, ClaimedJobs DEF Becomes
  <2>. QED BY <1>1, <2>1, CapsStay DEF ClaimJobs, TypeOK, Positions, dispatcherFrame
<1>2. CASE ReadMode \/ MarkAppliedFails \/ LoseBatch
  <2>1. UNCHANGED <<jobs, remote, stale, dispatcherFrame>> /\ losses' \in Nat
    BY <1>2 DEF ReadMode, MarkAppliedFails, LoseBatch, TypeOK
  <2>2. batch' \subseteq batch /\ dpc' \in Positions /\ fault' \in BOOLEAN
    BY <1>2 DEF ReadMode, MarkAppliedFails, LoseBatch, TypeOK, Positions
  <2>. QED BY <2>1, <2>2 DEF TypeOK, CapsHaveLimits, dispatcherFrame
<1>3. ASSUME NEW i \in DOMAIN jobs, BackoffElapses(i) \/ LeaseExpires(i)
      PROVE  TypeInv'
  <2>1. \E j \in Job : jobs' = [jobs EXCEPT ![i] = j] /\ Becomes(jobs[i], j, jobs[i].status, jobs[i].attempts)
    <3>1. /\ Becomes(jobs[i], [jobs[i] EXCEPT !.due = TRUE], jobs[i].status, jobs[i].attempts)
          /\ Becomes(jobs[i], [jobs[i] EXCEPT !.leased = FALSE], jobs[i].status, jobs[i].attempts)
      BY JobsAreJobs, JobUpdates
    <3>. QED BY <1>3, <3>1 DEF BackoffElapses, LeaseExpires, Becomes
  <2>2. /\ jobs' \in Seq(Job) /\ DOMAIN jobs' = DOMAIN jobs
        /\ \A k \in DOMAIN jobs :
             jobs'[k] = jobs[k] \/ Becomes(jobs[k], jobs'[k], jobs'[k].status, jobs'[k].attempts)
    BY <2>1, OneJob DEF TypeOK, Becomes
  <2>3. UNCHANGED <<remote, dispatcherVars, stale, losses, dispatcherFrame>>
    BY <1>3 DEF BackoffElapses, LeaseExpires
  <2>. QED BY <2>2, <2>3, CapsStay DEF TypeOK, dispatcherVars, dispatcherFrame
<1>4. ASSUME NEW c \in batch, NEW reaches \in BOOLEAN,
             SuppressJob(c) \/ SendJob(c) \/ MarkApplied(c) \/ MarkRetry(c) \/ SendFails(c, reaches)
      PROVE  TypeInv'
  BY <1>4, HeadStepTypes
<1>. QED BY <1>1, <1>2, <1>3, <1>4 DEF DispatcherStep

LEMMA AdminTypes ==
  ASSUME TypeInv, AdminStep
  PROVE  TypeInv'
<1>. USE DEF TypeInv
<1>1. NoRow \in Row
  BY DEF NoRow, Row, RestrictionModes, Limits
<1>2. UNCHANGED adminFrame => TypeOK' = /\ row' \in [Users -> Row] /\ remote' \in [Users -> Remote]
                                        /\ admin' \in Request \cup {NoRequest}
                                        /\ overtaken' \in [Users -> BOOLEAN] /\ adminOps' \in Nat
  BY DEF TypeOK, adminFrame, dispatcherVars
<1>3. UNCHANGED adminFrame => CapsHaveLimits'
  BY DEF CapsHaveLimits, adminFrame
<1>4. admin # NoRequest => admin \in Request /\ admin.user \in Users
  BY DEF TypeOK, Request
<1>5. NoRequest.op = "none"
  BY DEF NoRequest
<1>6. ASSUME NEW u \in Users, BanUser(u)
      PROVE  TypeInv'
  <2>1. row[u] \in Row
    BY DEF TypeOK
  <2>2. [present |-> TRUE, strikes |-> IF row[u].strikes > 1 THEN row[u].strikes ELSE 1,
         mode |-> "SQUAD", saved |-> None] \in Row
    BY <2>1 DEF Row, RestrictionModes, Limits
  <2>3. row' \in [Users -> Row]
    BY <1>6, <2>2 DEF BanUser, TypeOK
  <2>4. [op |-> "ban", user |-> u] \in Request
    BY DEF Request
  <2>. QED BY <1>2, <1>3, <1>6, <2>3, <2>4 DEF BanUser, Begin, TypeOK
<1>7. ASSUME NEW u \in Users, UnbanUser(u)
      PROVE  TypeInv'
  <2>1. [op |-> "unban", user |-> u, mode |-> row[u].mode, saved |-> row[u].saved] \in Request
    BY DEF TypeOK, Row, Request
  <2>. QED BY <1>2, <1>3, <1>7, <2>1 DEF UnbanUser, Begin, TypeOK
<1>8. ASSUME NEW u \in Users, NEW count \in 0 .. MaxStrikes, UpdateUserStrikes(u, count)
      PROVE  TypeInv'
  <2>1. row' \in [Users -> Row] /\ overtaken' \in [Users -> BOOLEAN]
    <3>1. CASE count = 0
      BY <1>1, <1>8, <3>1 DEF UpdateUserStrikes, Forget, TypeOK
    <3>2. CASE count # 0
      <4>1. count \in Nat
        BY EnforcementAssumption
      <4>2. row[u] \in Row
        BY DEF TypeOK
      <4>3. [row[u] EXCEPT !.present = TRUE, !.strikes = count] \in Row
        BY <4>1, <4>2 DEF Row
      <4>4. row' = [row EXCEPT ![u] = [row[u] EXCEPT !.present = TRUE, !.strikes = count]]
        BY <1>8, <3>2, <4>2 DEF UpdateUserStrikes, TypeOK
      <4>5. row' \in [Users -> Row]
        BY <4>3, <4>4 DEF TypeOK
      <4>. QED BY <1>8, <3>2, <4>5 DEF UpdateUserStrikes, TypeOK
    <3>. QED BY <3>1, <3>2
  <2>. QED BY SMTT(30), <1>2, <1>3, <1>8, <2>1 DEF UpdateUserStrikes, Begin, TypeOK
<1>9. CASE BanRemote
  <2>1. admin.user \in Users
    BY <1>4, <1>5, <1>9 DEF BanRemote
  <2>2. remote' \in [Users -> Remote]
    BY SMTT(30), <1>9, <2>1, RemoteTypes DEF BanRemote, TypeOK
  <2>. QED BY <1>2, <1>3, <1>9, <2>2 DEF BanRemote, TypeOK
<1>10. CASE UnbanRemote
  <2>1. admin \in [op : {"unban", "delete"}, user : Users, mode : RestrictionModes, saved : Limits]
    BY <1>4, <1>5, <1>10 DEF UnbanRemote, Request
  <2>2. Restored(remote[admin.user], admin.mode, admin.saved) \in Remote
    BY <2>1, RemoteTypes DEF TypeOK
  <2>3. remote' \in [Users -> Remote]
    BY <1>10, <2>2 DEF UnbanRemote, TypeOK
  <2>4. [admin EXCEPT !.op = "delete"] \in Request
    BY <2>1 DEF Request
  <2>. QED BY <1>2, <1>3, <1>10, <2>3, <2>4 DEF UnbanRemote, TypeOK
<1>11. CASE UnbanDelete
  <2>1. row' \in [Users -> Row] /\ overtaken' \in [Users -> BOOLEAN]
    BY <1>1, <1>11 DEF UnbanDelete, Forget, TypeOK
  <2>. QED BY <1>2, <1>3, <1>11, <2>1 DEF UnbanDelete, TypeOK
<1>. QED BY <1>6, <1>7, <1>8, <1>9, <1>10, <1>11 DEF AdminStep

LEMMA TypeStep ==
  ASSUME TypeInv, [Next]_vars
  PROVE  TypeInv'
<1>. USE DEF TypeInv
<1>1. CASE UNCHANGED vars
  BY <1>1 DEF vars, recordVars, remoteVars, dispatcherVars, historyVars, boundVars, TypeOK, CapsHaveLimits
<1>2. CASE WorkerStep
  <2>1. CASE PlanBan
    <3>1. lookup \in Lookup /\ lookup.user \in Users /\ lookup.limit \in Nat
      BY <2>1, PlanBanJobs DEF Lookup
    <3>2. row' \in [Users -> Row]
      <4>. DEFINE state == AutoRestriction(lookup.limit, lookup.used)
      <4>1. state.mode \in RestrictionModes /\ state.saved \in Limits
        BY <3>1 DEF AutoRestriction, RestrictionModes, Limits
      <4>2. row[lookup.user].strikes + 1 \in Nat
        BY <3>1 DEF TypeOK, Row
      <4>3. row' = [row EXCEPT ![lookup.user] = [present |-> TRUE, strikes |-> row[lookup.user].strikes + 1,
                                                 mode |-> state.mode, saved |-> state.saved]]
        BY <2>1 DEF PlanBan
      <4>. HIDE DEF state
      <4>. QED BY <4>1, <4>2, <4>3 DEF TypeOK, Row
    <3>3. jobs' \in Seq(Job) /\ DOMAIN jobs \subseteq DOMAIN jobs' /\ CapsHaveLimits'
      BY <2>1, PlanBanJobs DEF TypeOK, CapsHaveLimits
    <3>. QED BY <2>1, <3>2, <3>3
             DEF PlanBan, TypeOK, workerFrame, remoteVars, dispatcherVars, historyVars, boundVars
  <2>2. CASE PlanNothing
    BY <2>2 DEF PlanNothing, TypeOK, CapsHaveLimits, workerFrame, recordVars, remoteVars, dispatcherVars,
                historyVars, boundVars
  <2>3. ASSUME NEW u \in Users, ResolveRemoteUser(u)
        PROVE  TypeInv'
    <3>1. lookup' \in Lookup
      BY <2>3 DEF ResolveRemoteUser, TypeOK, Lookup, Remote
    <3>. QED BY <2>3, <3>1 DEF ResolveRemoteUser, TypeOK, CapsHaveLimits, workerFrame, recordVars, remoteVars,
                               dispatcherVars, historyVars, boundVars
  <2>. QED BY <1>2, <2>1, <2>2, <2>3 DEF WorkerStep
<1>3. CASE DispatcherStep \/ LoseBatch \/ \E i \in DOMAIN jobs : BackoffElapses(i) \/ LeaseExpires(i)
  BY <1>3, DispatcherTypes
<1>4. CASE AdminStep
  BY <1>4, AdminTypes
<1>5. CASE SwitchMode \/ \E u \in Users : UseTraffic(u)
  BY <1>5 DEF SwitchMode, UseTraffic, TypeOK, CapsHaveLimits, Modes, recordVars, remoteVars, dispatcherVars,
              historyVars, boundVars
<1>. QED BY <1>1, <1>2, <1>3, <1>4, <1>5 DEF Next

\* Violations, jobs, the remote user, the dispatcher and the administrators'
\* requests keep the types of their rows and messages.
THEOREM TypeCorrect == Spec => []TypeOK
<1>1. TypeInv => TypeOK
  BY DEF TypeInv
<1>. QED BY TypeInit, TypeStep, <1>1, PTL DEF Spec

-----------------------------------------------------------------------------
(* The outbox *)

LEMMA OutboxInit == Init => OutboxInv
<1>1. DOMAIN <<>> = {}
  BY EmptySeq
<1>. QED BY <1>1, TypeInit DEF Init, OutboxInv, BatchIsClaimed, AttemptsLeft, AppliedTookEffect

(* Claims of the same job are the same claim.                                *)
LEMMA OneClaim ==
  ASSUME TypeOK, BatchIsClaimed, NEW c \in batch, NEW d \in batch, c.id = d.id
  PROVE  c = d
<1>1. c \in [id : DOMAIN jobs, attempts : Nat] /\ d \in [id : DOMAIN jobs, attempts : Nat]
  BY DEF TypeOK
<1>2. c.attempts = d.attempts
  BY DEF BatchIsClaimed
<1>. QED BY <1>1, <1>2

(* Taking the head off the batch, its job settled or retried.                *)
LEMMA AdvanceOutbox ==
  ASSUME OutboxInv, NEW c \in batch, SuppressJob(c) \/ MarkApplied(c) \/ MarkRetry(c), IsHead(c)
  PROVE  BatchIsClaimed' /\ AttemptsLeft' /\ AppliedTookEffect'
<1>. USE DEF OutboxInv, TypeInv
<1>1. /\ c.id \in DOMAIN jobs /\ c.attempts \in Nat /\ DOMAIN jobs' = DOMAIN jobs
      /\ \A i \in DOMAIN jobs : i # c.id => jobs'[i] = jobs[i]
      /\ jobs'[c.id].attempts = jobs[c.id].attempts
      /\ jobs'[c.id].status = "pending" => jobs[c.id].attempts < MaxAttempts
      /\ jobs'[c.id].status = "applied" => jobs'[c.id].sent \/ jobs'[c.id].suppressed
  <2>1. TRUE \in BOOLEAN
    OBVIOUS
  <2>2. MarkApplied(c) => jobs[c.id].sent
    BY DEF MarkApplied, BatchIsClaimed
  <2>3. c.attempts = jobs[c.id].attempts
    BY DEF BatchIsClaimed
  <2>. QED BY <2>1, <2>2, <2>3, HeadJobs DEF Becomes
<1>2. batch' = batch \ {c} /\ (dpc' = "idle" <=> batch = {c}) /\ dpc' # "sent" /\ losses' = losses
  BY DEF SuppressJob, MarkApplied, MarkRetry, Advance
<1>3. \A d \in batch' : d \in batch /\ d.id # c.id /\ d.id \in DOMAIN jobs
  BY <1>2, OneClaim DEF TypeOK
<1>4. BatchIsClaimed'
  <2>1. \A d \in batch' : jobs'[d.id].status = "pending" /\ d.attempts = jobs'[d.id].attempts
    BY <1>1, <1>3 DEF BatchIsClaimed
  <2>2. dpc' = "idle" <=> batch' = {}
    BY <1>2
  <2>. QED BY <1>2, <2>1, <2>2 DEF BatchIsClaimed
<1>5. AttemptsLeft'
  <2>. SUFFICES ASSUME NEW i \in DOMAIN jobs, jobs'[i].status = "pending", ~Held(i)'
                PROVE  jobs'[i].attempts < MaxAttempts + losses'
    BY <1>1 DEF AttemptsLeft
  <2>1. CASE i = c.id
    <3>1. jobs'[i].attempts \in Nat /\ jobs'[i].attempts < MaxAttempts /\ losses \in Nat /\ MaxAttempts \in Nat
      BY <1>1, <2>1, JobsAreJobs, EnforcementAssumption DEF TypeOK
    <3>. QED BY <1>2, <3>1
  <2>2. CASE i # c.id
    <3>1. ~Held(i)
      BY <1>2, <2>2 DEF Held
    <3>. QED BY <1>1, <1>2, <2>2, <3>1 DEF AttemptsLeft
  <2>. QED BY <2>1, <2>2
<1>6. AppliedTookEffect'
  BY <1>1, <1>2 DEF AppliedTookEffect
<1>. QED BY <1>4, <1>5, <1>6

(* Sending the head, which stays in the batch.                               *)
LEMMA SendOutbox ==
  ASSUME OutboxInv, NEW c \in batch, NEW reaches \in BOOLEAN,
         SendJob(c) \/ SendFails(c, reaches), IsHead(c)
  PROVE  BatchIsClaimed' /\ AttemptsLeft' /\ AppliedTookEffect'
<1>. USE DEF OutboxInv, TypeInv
<1>1. /\ c.id \in DOMAIN jobs /\ DOMAIN jobs' = DOMAIN jobs
      /\ \A i \in DOMAIN jobs : i # c.id => jobs'[i] = jobs[i]
      /\ jobs'[c.id].status = jobs[c.id].status /\ jobs'[c.id].attempts = jobs[c.id].attempts
      /\ jobs[c.id].sent => jobs'[c.id].sent
      /\ jobs[c.id].suppressed => jobs'[c.id].suppressed
      /\ SendJob(c) => jobs'[c.id].sent
  BY HeadJobs DEF Becomes
<1>2. batch' = batch /\ losses' = losses /\ dpc' # "idle" /\ (dpc' = "sent" => SendJob(c))
  BY DEF SendJob, SendFails
<1>3. dpc # "idle"
  BY DEF BatchIsClaimed
<1>4. \A d \in batch : d.id \in DOMAIN jobs /\ d.id \in Nat
  BY JobsAreJobs DEF TypeOK
<1>5. BatchIsClaimed'
  <2>1. \A d \in batch' : jobs'[d.id].status = "pending" /\ d.attempts = jobs'[d.id].attempts
    BY <1>1, <1>2, <1>4 DEF BatchIsClaimed
  <2>2. ASSUME dpc' = "sent", NEW d \in batch', IsHead(d)'
        PROVE  jobs'[d.id].sent
    <3>1. d.id <= c.id /\ c.id <= d.id
      BY <1>2, <2>2 DEF IsHead
    <3>2. d.id = c.id
      BY <1>2, <1>4, <3>1
    <3>. QED BY <1>1, <1>2, <2>2, <3>2
  <2>. QED BY <1>2, <1>3, <2>1, <2>2 DEF BatchIsClaimed
<1>6. AttemptsLeft' /\ AppliedTookEffect'
  <2>1. \A i : Held(i)' <=> Held(i)
    BY <1>2 DEF Held
  <2>2. \A i \in DOMAIN jobs : jobs'[i].status = jobs[i].status /\ jobs'[i].attempts = jobs[i].attempts
                               /\ (jobs[i].sent => jobs'[i].sent)
                               /\ (jobs[i].suppressed => jobs'[i].suppressed)
    BY <1>1
  <2>. QED BY <1>1, <1>2, <2>1, <2>2 DEF AttemptsLeft, AppliedTookEffect
<1>. QED BY <1>5, <1>6

LEMMA ClaimOutbox ==
  ASSUME OutboxInv, ClaimJobs
  PROVE  BatchIsClaimed' /\ AttemptsLeft' /\ AppliedTookEffect'
<1>. USE DEF OutboxInv, TypeInv
<1>1. PICK chosen \in SUBSET DOMAIN jobs :
        /\ chosen # {}
        /\ \A i \in chosen : jobs[i].status = "pending"
                             /\ Becomes(jobs[i], jobs'[i], "pending", jobs[i].attempts + 1)
        /\ \A i \in DOMAIN jobs \ chosen : jobs'[i] = jobs[i]
        /\ batch' = {[id |-> i, attempts |-> jobs[i].attempts + 1] : i \in chosen}
  BY ClaimedJobs
<1>2. DOMAIN jobs' = DOMAIN jobs /\ losses' = losses /\ dpc' = "claimed" /\ batch = {}
  BY ClaimedJobs DEF ClaimJobs, BatchIsClaimed
<1>3. \A i \in DOMAIN jobs : jobs[i].status = "pending" => jobs[i].attempts < MaxAttempts + losses
  BY <1>2 DEF AttemptsLeft, Held
<1>4. \A i \in DOMAIN jobs : jobs[i].attempts \in Nat /\ losses \in Nat /\ MaxAttempts \in Nat
  BY JobsAreJobs, EnforcementAssumption DEF TypeOK
<1>5. BatchIsClaimed'
  <2>1. ASSUME NEW c \in batch'
        PROVE  jobs'[c.id].status = "pending" /\ c.attempts = jobs'[c.id].attempts
    <3>1. PICK i \in chosen : c = [id |-> i, attempts |-> jobs[i].attempts + 1]
      BY <1>1
    <3>2. jobs'[i].status = "pending" /\ jobs'[i].attempts = jobs[i].attempts + 1
      BY <1>1 DEF Becomes
    <3>. QED BY <3>1, <3>2
  <2>2. batch' # {}
    BY <1>1
  <2>. QED BY <1>2, <2>1, <2>2 DEF BatchIsClaimed
<1>6. \A i \in chosen : Held(i)'
  <2>. SUFFICES ASSUME NEW i \in chosen PROVE Held(i)'
    OBVIOUS
  <2>1. [id |-> i, attempts |-> jobs[i].attempts + 1] \in batch'
    BY <1>1
  <2>. QED BY <2>1 DEF Held
<1>7. AttemptsLeft'
  BY <1>1, <1>2, <1>3, <1>6 DEF AttemptsLeft
<1>8. AppliedTookEffect'
  <2>1. ASSUME NEW i \in chosen
        PROVE  jobs'[i].status = "pending" /\ jobs'[i].attempts <= MaxAttempts + losses
    <3>1. jobs'[i].status = "pending" /\ jobs'[i].attempts = jobs[i].attempts + 1
          /\ jobs[i].attempts < MaxAttempts + losses
      BY <1>1, <1>3 DEF Becomes
    <3>. QED BY <1>4, <3>1
  <2>. QED BY <1>1, <1>2, <2>1 DEF AppliedTookEffect
<1>. QED BY <1>5, <1>7, <1>8

LEMMA OutboxStep ==
  ASSUME OutboxInv, [Next]_vars
  PROVE  OutboxInv'
<1>. USE DEF OutboxInv, TypeInv
<1>1. TypeInv'
  BY TypeStep
<1>2. CASE UNCHANGED <<jobs, dispatcherVars, losses>>
  BY <1>1, <1>2 DEF dispatcherVars, BatchIsClaimed, IsHead, AttemptsLeft, Held, AppliedTookEffect
<1>3. CASE PlanBan
  <2>1. UNCHANGED <<batch, dpc, losses>>
    BY <1>3 DEF PlanBan, workerFrame, dispatcherVars, boundVars
  <2>2. \A i \in DOMAIN jobs : i \in DOMAIN jobs' /\ jobs'[i] = jobs[i]
    BY <1>3, PlanBanJobs
  <2>3. \A i \in DOMAIN jobs' \ DOMAIN jobs : jobs'[i].status = "pending" /\ jobs'[i].attempts = 0
    BY <1>3, PlanBanJobs
  <2>4. losses \in Nat /\ MaxAttempts \in Nat \ {0} /\ 0 < MaxAttempts + losses /\ 0 <= MaxAttempts + losses
    BY EnforcementAssumption DEF TypeOK
  <2>5. BatchIsClaimed'
    <3>1. \A c \in batch : c.id \in DOMAIN jobs
      BY DEF TypeOK
    <3>. QED BY <2>1, <2>2, <3>1 DEF BatchIsClaimed, IsHead
  <2>6. AttemptsLeft'
    BY <2>1, <2>2, <2>3, <2>4 DEF AttemptsLeft, Held
  <2>7. AppliedTookEffect'
    BY <2>1, <2>2, <2>3, <2>4 DEF AppliedTookEffect
  <2>. QED BY <1>1, <2>5, <2>6, <2>7
<1>4. ASSUME NEW i \in DOMAIN jobs, BackoffElapses(i) \/ LeaseExpires(i)
      PROVE  OutboxInv'
  <2>1. \E j \in Job : jobs' = [jobs EXCEPT ![i] = j] /\ Becomes(jobs[i], j, jobs[i].status, jobs[i].attempts)
    <3>1. /\ Becomes(jobs[i], [jobs[i] EXCEPT !.due = TRUE], jobs[i].status, jobs[i].attempts)
          /\ Becomes(jobs[i], [jobs[i] EXCEPT !.leased = FALSE], jobs[i].status, jobs[i].attempts)
      BY JobsAreJobs, JobUpdates
    <3>. QED BY <1>4, <3>1 DEF BackoffElapses, LeaseExpires, Becomes
  <2>2. /\ DOMAIN jobs' = DOMAIN jobs
        /\ \A k \in DOMAIN jobs : /\ jobs'[k].status = jobs[k].status /\ jobs'[k].attempts = jobs[k].attempts
                                  /\ jobs[k].sent => jobs'[k].sent
                                  /\ jobs[k].suppressed => jobs'[k].suppressed
    BY <2>1, OneJob DEF TypeOK, Becomes
  <2>3. UNCHANGED <<batch, dpc, losses>>
    BY <1>4 DEF BackoffElapses, LeaseExpires, dispatcherVars
  <2>4. \A c \in batch : c.id \in DOMAIN jobs
    BY DEF TypeOK
  <2>5. BatchIsClaimed'
    BY <2>2, <2>3, <2>4 DEF BatchIsClaimed, IsHead
  <2>. QED BY <1>1, <2>2, <2>3, <2>5 DEF AttemptsLeft, Held, AppliedTookEffect
<1>5. CASE ClaimJobs
  BY <1>1, <1>5, ClaimOutbox
<1>6. CASE ReadMode \/ MarkAppliedFails
  <2>1. /\ UNCHANGED <<jobs, batch, losses>>
        /\ dpc # "idle" /\ dpc' \notin {"idle", "sent"}
    BY <1>6 DEF ReadMode, MarkAppliedFails, dispatcherFrame
  <2>. QED BY <1>1, <2>1 DEF BatchIsClaimed, AttemptsLeft, Held, AppliedTookEffect
<1>7. ASSUME NEW c \in batch, IsHead(c), SuppressJob(c) \/ MarkApplied(c) \/ MarkRetry(c)
      PROVE  OutboxInv'
  BY <1>1, <1>7, AdvanceOutbox
<1>8. ASSUME NEW c \in batch, IsHead(c), NEW reaches \in BOOLEAN, SendJob(c) \/ SendFails(c, reaches)
      PROVE  OutboxInv'
  BY <1>1, <1>8, SendOutbox
<1>9. CASE LoseBatch
  <2>1. jobs' = jobs /\ losses' = losses + 1 /\ batch' = {} /\ dpc' = "idle"
    BY <1>9 DEF LoseBatch
  <2>2. \A i \in DOMAIN jobs : jobs[i].attempts \in Nat /\ losses \in Nat /\ MaxAttempts \in Nat
    BY JobsAreJobs, EnforcementAssumption DEF TypeOK
  <2>3. \A i \in DOMAIN jobs : jobs[i].attempts <= MaxAttempts + losses
    BY DEF AppliedTookEffect
  <2>4. \A i \in DOMAIN jobs : jobs[i].attempts < MaxAttempts + losses'
                               /\ jobs[i].attempts <= MaxAttempts + losses'
    BY <2>1, <2>2, <2>3
  <2>. QED BY <1>1, <2>1, <2>4 DEF BatchIsClaimed, AttemptsLeft, AppliedTookEffect
<1>10. CASE WorkerStep /\ ~PlanBan
  BY <1>2, <1>10 DEF WorkerStep, PlanNothing, ResolveRemoteUser, workerFrame, recordVars, boundVars
<1>11. CASE AdminStep
  BY <1>2, <1>11 DEF AdminStep, BanRemote, UnbanRemote, UnbanDelete, BanUser, UnbanUser,
                     UpdateUserStrikes, adminFrame
<1>12. CASE SwitchMode \/ \E u \in Users : UseTraffic(u)
  BY <1>2, <1>12 DEF SwitchMode, UseTraffic, recordVars, boundVars
<1>13. CASE UNCHANGED vars
  BY <1>2, <1>13 DEF vars, recordVars, boundVars
<1>. QED BY <1>3, <1>4, <1>5, <1>6, <1>7, <1>8, <1>9, <1>10, <1>11, <1>12, <1>13
         DEF Next, DispatcherStep

\* A job is filed as applied only after it was sent or suppressed, and every
\* attempt beyond its budget is owed to a lost batch (mark_enforcement_job_applied
\* and mark_enforcement_job_retry), for any number of jobs, users and losses.
THEOREM AppliedHadEffect == Spec => []AppliedTookEffect
<1>1. OutboxInv => AppliedTookEffect
  BY DEF OutboxInv
<1>. QED BY OutboxInit, OutboxStep, <1>1, PTL DEF Spec

-----------------------------------------------------------------------------
(* Records *)

(* A job that is pending was pending before, or has just been queued.        *)
LEMMA PendingJobs ==
  ASSUME OutboxInv, [Next]_vars, NEW i \in DOMAIN jobs', jobs'[i].status = "pending"
  PROVE  \/ i \in DOMAIN jobs /\ jobs[i].status = "pending" /\ jobs'[i].user = jobs[i].user
         \/ PlanBan /\ jobs'[i].user = lookup.user
<1>. USE DEF OutboxInv, TypeInv
<1>1. CASE jobs' = jobs
  BY <1>1
<1>2. CASE PlanBan
  BY <1>2, PlanBanJobs
<1>3. ASSUME NEW k \in DOMAIN jobs, BackoffElapses(k) \/ LeaseExpires(k)
      PROVE  i \in DOMAIN jobs /\ jobs[i].status = "pending" /\ jobs'[i].user = jobs[i].user
  <2>1. \E j \in Job : jobs' = [jobs EXCEPT ![k] = j] /\ Becomes(jobs[k], j, jobs[k].status, jobs[k].attempts)
    <3>1. /\ Becomes(jobs[k], [jobs[k] EXCEPT !.due = TRUE], jobs[k].status, jobs[k].attempts)
          /\ Becomes(jobs[k], [jobs[k] EXCEPT !.leased = FALSE], jobs[k].status, jobs[k].attempts)
      BY JobsAreJobs, JobUpdates
    <3>. QED BY <1>3, <3>1 DEF BackoffElapses, LeaseExpires, Becomes
  <2>. QED BY <2>1, OneJob DEF TypeOK, Becomes
<1>4. CASE ClaimJobs
  BY <1>4, ClaimedJobs DEF Becomes
<1>5. ASSUME NEW c \in batch, NEW reaches \in BOOLEAN,
             SuppressJob(c) \/ SendJob(c) \/ MarkApplied(c) \/ MarkRetry(c) \/ SendFails(c, reaches)
      PROVE  i \in DOMAIN jobs /\ jobs[i].status = "pending" /\ jobs'[i].user = jobs[i].user
  <2>1. jobs[c.id].status = "pending"
    BY DEF BatchIsClaimed
  <2>. QED BY <1>5, <2>1, HeadJobs DEF Becomes
<1>6. CASE ReadMode \/ MarkAppliedFails \/ LoseBatch \/ SwitchMode \/ \E u \in Users : UseTraffic(u)
  BY <1>1, <1>6 DEF ReadMode, MarkAppliedFails, LoseBatch, SwitchMode, UseTraffic, recordVars
<1>7. CASE AdminStep
  BY <1>1, <1>7 DEF AdminStep, BanRemote, UnbanRemote, UnbanDelete, BanUser, UnbanUser,
                    UpdateUserStrikes, adminFrame
<1>8. CASE WorkerStep /\ ~PlanBan
  BY <1>1, <1>8 DEF WorkerStep, PlanNothing, ResolveRemoteUser, recordVars
<1>9. CASE UNCHANGED vars
  BY <1>1, <1>9 DEF vars, recordVars
<1>. QED BY <1>2, <1>3, <1>4, <1>5, <1>6, <1>7, <1>8, <1>9 DEF Next, DispatcherStep

(* Who puts a user in the restricted squad: a pending job or a ban.          *)
LEMMA RestrictedBy ==
  ASSUME OutboxInv, [Next]_vars, NEW u \in Users, remote'[u].squad = "restricted"
  PROVE  \/ remote[u].squad = "restricted"
         \/ \E i \in DOMAIN jobs : jobs[i].status = "pending" /\ jobs[i].user = u
         \/ BanRemote /\ admin.user = u
<1>. USE DEF OutboxInv, TypeInv
<1>0. remote[u] \in Remote
  BY DEF TypeOK
<1>1. CASE remote' = remote
  BY <1>1
<1>2. ASSUME NEW c \in batch, Reaches(c)
      PROVE  \/ remote[u].squad = "restricted"
             \/ \E i \in DOMAIN jobs : jobs[i].status = "pending" /\ jobs[i].user = u
  <2>1. c.id \in DOMAIN jobs /\ jobs[c.id].status = "pending"
    BY DEF TypeOK, BatchIsClaimed
  <2>2. jobs[c.id].user # u => remote'[u] = remote[u]
    BY <1>2 DEF Reaches, TypeOK
  <2>. QED BY <2>1, <2>2
<1>3. CASE BanRemote
  BY <1>3 DEF BanRemote, TypeOK
<1>4. CASE UnbanRemote
  <2>1. remote'[u] \in {remote[u], Restored(remote[u], admin.mode, admin.saved)}
    BY <1>4 DEF UnbanRemote, TypeOK
  <2>2. Restored(remote[u], admin.mode, admin.saved).squad = "restricted" => remote[u].squad = "restricted"
    BY <1>0 DEF Restored, Remote
  <2>. QED BY <2>1, <2>2
<1>5. CASE AdminStep /\ ~BanRemote /\ ~UnbanRemote
  BY <1>1, <1>5 DEF AdminStep, UnbanDelete, BanUser, UnbanUser, UpdateUserStrikes
<1>6. CASE DispatcherStep /\ ~\E c \in batch : Reaches(c)
  BY <1>1, <1>6 DEF DispatcherStep, ClaimJobs, ReadMode, MarkAppliedFails, SuppressJob, SendJob,
                    MarkApplied, MarkRetry, SendFails
<1>7. CASE LoseBatch \/ SwitchMode \/ (\E w \in Users : UseTraffic(w))
           \/ \E i \in DOMAIN jobs : BackoffElapses(i) \/ LeaseExpires(i)
  BY <1>1, <1>7 DEF LoseBatch, SwitchMode, UseTraffic, BackoffElapses, LeaseExpires, remoteVars
<1>8. CASE WorkerStep
  BY <1>1, <1>8 DEF WorkerStep, PlanBan, PlanNothing, ResolveRemoteUser, workerFrame, remoteVars
<1>9. CASE UNCHANGED vars
  BY <1>1, <1>9 DEF vars, remoteVars
<1>. QED BY <1>2, <1>3, <1>4, <1>5, <1>6, <1>7, <1>8, <1>9 DEF Next

(* A record goes only when its row is deleted, and then what it leaves       *)
(* behind is noted.                                                          *)
LEMMA RecordStays ==
  ASSUME TypeInv, [Next]_vars, NEW u \in Users, Recorded(u)
  PROVE  \/ Recorded(u)'
         \/ /\ UNCHANGED <<jobs, remote>>
            /\ admin'.op # "ban"
            /\ ~Unsettled(u) /\ remote[u].squad # "restricted"
<1>. USE DEF TypeInv
<1>1. CASE row' = row /\ overtaken' = overtaken
  BY <1>1 DEF Recorded
<1>2. CASE PlanBan
  BY <1>2 DEF PlanBan, workerFrame, historyVars, Recorded, TypeOK
<1>3. ASSUME NEW w \in Users, BanUser(w)
      PROVE  Recorded(u)'
  BY <1>3 DEF BanUser, Recorded, TypeOK
<1>4. ASSUME NEW w \in Users, Forget(w), UNCHANGED <<jobs, remote>>, admin'.op # "ban"
      PROVE  \/ Recorded(u)'
             \/ /\ UNCHANGED <<jobs, remote>>
                /\ admin'.op # "ban"
                /\ ~Unsettled(u) /\ remote[u].squad # "restricted"
  BY <1>4 DEF Forget, Recorded, TypeOK
<1>5. NoRequest.op = "none"
  BY DEF NoRequest
<1>6. CASE UnbanDelete
  <2>1. admin.user \in Users
    BY <1>5, <1>6 DEF UnbanDelete, TypeOK, Request
  <2>. QED BY <1>4, <1>5, <1>6, <2>1 DEF UnbanDelete, adminFrame
<1>7. ASSUME NEW w \in Users, NEW count \in 0 .. MaxStrikes, UpdateUserStrikes(w, count)
      PROVE  \/ Recorded(u)'
             \/ /\ UNCHANGED <<jobs, remote>>
                /\ admin'.op # "ban"
                /\ ~Unsettled(u) /\ remote[u].squad # "restricted"
  <2>1. CASE count = 0
    BY <1>4, <1>5, <1>7, <2>1 DEF UpdateUserStrikes, adminFrame, Begin
  <2>2. CASE count # 0
    <3>1. row[w] \in Row
      BY DEF TypeOK
    <3>2. row' = [row EXCEPT ![w] = [row[w] EXCEPT !.present = TRUE, !.strikes = count]]
      BY <1>7, <2>2, <3>1 DEF UpdateUserStrikes, TypeOK
    <3>3. [row[w] EXCEPT !.present = TRUE, !.strikes = count].present
      BY <3>1 DEF Row
    <3>4. row[u].present => row'[u].present
      BY <3>2, <3>3 DEF TypeOK
    <3>. QED BY <1>7, <2>2, <3>4 DEF UpdateUserStrikes, Recorded
  <2>. QED BY <2>1, <2>2
<1>8. CASE BanRemote \/ UnbanRemote \/ \E w \in Users : UnbanUser(w)
  BY <1>1, <1>8 DEF BanRemote, UnbanRemote, UnbanUser
<1>9. CASE WorkerStep /\ ~PlanBan
  BY <1>1, <1>9 DEF WorkerStep, PlanNothing, ResolveRemoteUser, recordVars, workerFrame, historyVars
<1>10. CASE DispatcherStep \/ LoseBatch \/ \E i \in DOMAIN jobs : BackoffElapses(i) \/ LeaseExpires(i)
  BY <1>1, <1>10 DEF DispatcherStep, ClaimJobs, ReadMode, MarkAppliedFails, SuppressJob, SendJob,
                     MarkApplied, MarkRetry, SendFails, LoseBatch, BackoffElapses, LeaseExpires,
                     dispatcherFrame
<1>11. CASE SwitchMode \/ (\E w \in Users : UseTraffic(w)) \/ UNCHANGED vars
  BY <1>1, <1>11 DEF SwitchMode, UseTraffic, vars, recordVars, historyVars
<1>. QED BY <1>2, <1>3, <1>6, <1>7, <1>8, <1>9, <1>10, <1>11 DEF Next, AdminStep

(* A ban that is under way was begun with its record, or just now.           *)
LEMMA BanUnderWay ==
  ASSUME TypeInv, [Next]_vars, admin'.op = "ban"
  PROVE  \/ admin' = admin
         \/ row'[admin'.user].present
<1>1. CASE admin' = admin
  BY <1>1
<1>2. ASSUME NEW u \in Users, BanUser(u)
      PROVE  row'[admin'.user].present
  <2>1. admin'.user = u /\ row'[u].present
    BY <1>2 DEF BanUser, TypeInv, TypeOK
  <2>. QED BY <2>1
<1>3. CASE UnbanRemote
  <2>1. admin \in [op : {"unban", "delete"}, user : Users, mode : RestrictionModes, saved : Limits]
    BY <1>3 DEF UnbanRemote, TypeInv, TypeOK, Request, NoRequest
  <2>2. [admin EXCEPT !.op = "delete"].op = "delete" /\ NoRequest.op = "none"
    BY <2>1 DEF NoRequest
  <2>. QED BY <1>3, <2>2 DEF UnbanRemote
<1>4. CASE BanRemote \/ UnbanDelete \/ \E u \in Users : UnbanUser(u)
  BY <1>4 DEF BanRemote, UnbanDelete, UnbanUser, NoRequest
<1>5. ASSUME NEW u \in Users, NEW count \in 0 .. MaxStrikes, UpdateUserStrikes(u, count)
      PROVE  admin' = admin
  BY <1>5 DEF UpdateUserStrikes
<1>6. CASE ~AdminStep
  BY <1>1, <1>6 DEF Next, WorkerStep, PlanBan, PlanNothing, ResolveRemoteUser, workerFrame, DispatcherStep, ClaimJobs,
                    ReadMode, MarkAppliedFails, SuppressJob, SendJob, MarkApplied, MarkRetry, SendFails,
                    LoseBatch, BackoffElapses, LeaseExpires, dispatcherFrame, SwitchMode, UseTraffic, vars
<1>. QED BY <1>2, <1>3, <1>4, <1>5, <1>6 DEF AdminStep

(* Recorded, said of the next state.                                         *)
RecordedNext(u) == row'[u].present \/ overtaken'[u]

LEMMA RecordInit == Init => RecordInv
<1>1. DOMAIN <<>> = {}
  BY EmptySeq
<1>. QED BY <1>1 DEF Init, RecordInv, RestrictionIsRecorded, NoRequest, FullAccess

LEMMA RecordStep ==
  ASSUME OutboxInv, RecordInv, [Next]_vars
  PROVE  RecordInv'
<1>. USE DEF OutboxInv
<1>1. ASSUME PlanBan
      PROVE  lookup.user \in Users /\ RecordedNext(lookup.user)
  <2>1. lookup.user \in Users
    <3>1. lookup \in Lookup
      BY <1>1, PlanBanJobs DEF TypeInv
    <3>. QED BY <3>1 DEF Lookup
  <2>2. row'[lookup.user].present
    BY <1>1, <2>1 DEF PlanBan, TypeInv, TypeOK
  <2>. QED BY <2>1, <2>2 DEF RecordedNext
<1>2. \A u \in Users : Recorded(u) => \/ RecordedNext(u)
                                     \/ /\ UNCHANGED <<jobs, remote>>
                                        /\ admin'.op # "ban"
                                        /\ ~Unsettled(u) /\ remote[u].squad # "restricted"
  BY RecordStays DEF RecordedNext, Recorded
<1>3. \A i \in DOMAIN jobs : jobs[i].status = "pending" =>
        jobs[i].user \in Users /\ Recorded(jobs[i].user) /\ Unsettled(jobs[i].user)
  BY JobsAreJobs DEF TypeInv, RecordInv, Unsettled
<1>4. ASSUME NEW i \in DOMAIN jobs', jobs'[i].status = "pending"
      PROVE  RecordedNext(jobs'[i].user)
  <2>1. CASE i \in DOMAIN jobs /\ jobs[i].status = "pending" /\ jobs'[i].user = jobs[i].user
    BY <1>2, <1>3, <2>1
  <2>2. CASE PlanBan /\ jobs'[i].user = lookup.user
    BY <1>1, <2>2
  <2>. QED BY <1>4, <2>1, <2>2, PendingJobs
<1>5. ASSUME admin'.op = "ban"
      PROVE  RecordedNext(admin'.user)
  <2>1. CASE admin' = admin
    <3>1. Recorded(admin.user) /\ admin.user \in Users
      BY <1>5, <2>1 DEF RecordInv, TypeInv, TypeOK, Request, NoRequest
    <3>. QED BY <1>2, <1>5, <2>1, <3>1
  <2>2. CASE row'[admin'.user].present
    BY <2>2 DEF RecordedNext
  <2>. QED BY <1>5, <2>1, <2>2, BanUnderWay
<1>6. ASSUME NEW u \in Users, remote'[u].squad = "restricted"
      PROVE  RecordedNext(u)
  <2>1. Recorded(u)
    <3>1. CASE remote[u].squad = "restricted"
      BY <3>1 DEF RecordInv, RestrictionIsRecorded, Recorded
    <3>2. CASE \E i \in DOMAIN jobs : jobs[i].status = "pending" /\ jobs[i].user = u
      BY <1>3, <3>2
    <3>3. CASE BanRemote /\ admin.user = u
      BY <3>3 DEF BanRemote, RecordInv
    <3>. QED BY <1>6, <3>1, <3>2, <3>3, RestrictedBy
  <2>2. remote' = remote => remote[u].squad = "restricted"
    BY <1>6
  <2>. QED BY <1>2, <2>1, <2>2
<1>. QED BY <1>4, <1>5, <1>6 DEF RecordInv, Recorded, RecordedNext, RestrictionIsRecorded

\* A user is in the restricted squad only after the panel recorded a reason,
\* unless an administrator deleted the record since: for any number of users
\* and jobs (_plan_enforcement_tx and ban_user write before they call).
THEOREM RestrictionHasRecord == Spec => []RestrictionIsRecorded
<1>1. RecordInv => RestrictionIsRecorded
  BY DEF RecordInv
<1>. QED BY OutboxInit, OutboxStep, RecordInit, RecordStep, <1>1, PTL DEF Spec

-----------------------------------------------------------------------------
(* The window of a retired mode *)

LEMMA WindowInit == Init => WindowInv
  BY FS_EmptySet, EnforcementAssumption DEF Init, WindowInv, StaleModeWindow

LEMMA BatchSize ==
  ASSUME WindowInv, NEW c \in batch
  PROVE  /\ Cardinality(batch) \in Nat /\ Cardinality(batch) >= 1
         /\ IsFiniteSet(batch \ {c}) /\ Cardinality(batch \ {c}) = Cardinality(batch) - 1
<1>1. IsFiniteSet(batch) /\ batch # {}
  BY DEF WindowInv
<1>2. Cardinality(batch) \in Nat
  BY <1>1, FS_CardinalityType
<1>3. Cardinality(batch) # 0
  BY <1>1, FS_EmptySet
<1>4. IsFiniteSet(batch \ {c}) /\ Cardinality(batch \ {c}) = Cardinality(batch) - 1
  BY <1>1, FS_RemoveElement
<1>. QED BY <1>2, <1>3, <1>4

(* A batch is no larger than the claim allows.                               *)
LEMMA ClaimedBatch ==
  ASSUME TypeOK, ClaimJobs
  PROVE  IsFiniteSet(batch') /\ Cardinality(batch') <= BatchLimit
<1>1. PICK chosen \in SUBSET DOMAIN jobs :
        /\ IsFiniteSet(chosen) /\ Cardinality(chosen) <= BatchLimit
        /\ batch' = {[id |-> i, attempts |-> jobs[i].attempts + 1] : i \in chosen}
  BY ClaimedJobs
<1>. DEFINE claim == [i \in chosen |-> [id |-> i, attempts |-> jobs[i].attempts + 1]]
<1>2. claim \in Surjection(chosen, batch')
  <2>1. claim \in [chosen -> batch']
    BY <1>1
  <2>2. \A c \in batch' : \E i \in chosen : claim[i] = c
    BY <1>1
  <2>. QED BY <2>1, <2>2 DEF Surjection
<1>3. IsFiniteSet(batch') /\ Cardinality(batch') <= Cardinality(chosen)
  BY <1>1, <1>2, FS_Surjection
<1>4. Cardinality(batch') \in Nat /\ Cardinality(chosen) \in Nat
  BY <1>1, <1>3, FS_CardinalityType
<1>. QED BY <1>1, <1>3, <1>4, EnforcementAssumption

LEMMA WindowStep ==
  ASSUME OutboxInv, WindowInv, [Next]_vars
  PROVE  WindowInv'
<1>. USE DEF OutboxInv, TypeInv
<1>1. stale \in Nat /\ BatchLimit \in Nat \ {0} /\ Cardinality(batch) \in Nat
  BY FS_CardinalityType, EnforcementAssumption DEF TypeOK, WindowInv
<1>2. CASE UNCHANGED <<batch, dpc, mode, stale>>
  BY <1>2 DEF WindowInv, StaleModeWindow
<1>3. CASE SwitchMode
  <2>1. UNCHANGED <<batch, dpc>> /\ stale' = 0
    BY <1>3 DEF SwitchMode, dispatcherVars
  <2>. QED BY <1>1, <2>1 DEF WindowInv, StaleModeWindow
<1>4. CASE ClaimJobs
  <2>1. UNCHANGED <<mode, stale>> /\ dpc' = "claimed"
    BY <1>4 DEF ClaimJobs, dispatcherFrame
  <2>. QED BY <1>4, <2>1, ClaimedBatch DEF WindowInv, StaleModeWindow
<1>5. CASE ReadMode
  <2>1. UNCHANGED <<mode, stale, batch>> /\ dpc' \in {"sending", "suppressing"}
        /\ (dpc' = "sending" => mode = "enforce")
    BY <1>5 DEF ReadMode, DispatcherMode, dispatcherFrame
  <2>. QED BY <1>1, <2>1 DEF WindowInv, StaleModeWindow
<1>6. CASE MarkAppliedFails
  <2>1. UNCHANGED <<mode, stale, batch>> /\ dpc = "sent" /\ dpc' = "failing"
    BY <1>6 DEF MarkAppliedFails, dispatcherFrame
  <2>. QED BY <2>1 DEF WindowInv, StaleModeWindow
<1>7. CASE LoseBatch
  <2>1. UNCHANGED <<mode, stale>> /\ dpc' = "idle" /\ batch' = {}
    BY <1>7 DEF LoseBatch, dispatcherFrame
  <2>2. IsFiniteSet({}) /\ Cardinality({}) = 0
    BY FS_EmptySet
  <2>. QED BY <1>1, <2>1, <2>2 DEF WindowInv, StaleModeWindow
<1>8. ASSUME NEW c \in batch, NEW reaches \in BOOLEAN, SendJob(c) \/ SendFails(c, reaches)
      PROVE  WindowInv'
  <2>1. UNCHANGED <<mode, batch>> /\ dpc = "sending" /\ dpc' \in {"sent", "failing"}
    BY <1>8 DEF SendJob, SendFails, dispatcherFrame
  <2>2. stale' = stale \/ (mode # "enforce" /\ stale' = stale + 1)
    BY <1>8 DEF SendJob, SendFails, Reaches
  <2>3. stale + Cardinality(batch) <= BatchLimit
    BY <2>1 DEF WindowInv
  <2>4. stale' + Cardinality(batch) <= BatchLimit + 1 /\ stale' <= BatchLimit
    <3>1. Cardinality(batch) >= 1
      BY BatchSize
    <3>2. stale' \in Nat /\ stale' <= stale + 1
      BY <1>1, <2>2
    <3>. HIDE DEF TypeInv, OutboxInv
    <3>. QED BY <1>1, <2>3, <3>1, <3>2
  <2>. QED BY <2>1, <2>2, <2>4 DEF WindowInv, StaleModeWindow
<1>9. ASSUME NEW c \in batch, SuppressJob(c) \/ MarkApplied(c) \/ MarkRetry(c)
      PROVE  WindowInv'
  <2>1. /\ UNCHANGED <<mode, stale>> /\ batch' = batch \ {c}
        /\ dpc' \in {"idle", "suppressing", "sending"}
        /\ dpc' = "sending" => dpc \in {"sent", "failing"}
    BY <1>9 DEF SuppressJob, MarkApplied, MarkRetry, Advance, dispatcherFrame
  <2>2. Cardinality(batch) >= 1 /\ IsFiniteSet(batch') /\ Cardinality(batch') = Cardinality(batch) - 1
    BY <2>1, BatchSize
  <2>3. Cardinality(batch') <= BatchLimit
    BY <1>1, <2>2 DEF WindowInv
  <2>4. dpc' = "sending" => stale' + Cardinality(batch') <= BatchLimit
    BY <1>1, <2>1, <2>2 DEF WindowInv
  <2>. QED BY <2>1, <2>2, <2>3, <2>4 DEF WindowInv, StaleModeWindow
<1>10. CASE WorkerStep
  BY <1>2, <1>10 DEF WorkerStep, PlanBan, PlanNothing, ResolveRemoteUser, workerFrame, dispatcherVars, historyVars
<1>11. CASE AdminStep
  BY <1>2, <1>11 DEF AdminStep, BanRemote, UnbanRemote, UnbanDelete, BanUser, UnbanUser,
                     UpdateUserStrikes, adminFrame, dispatcherVars
<1>12. CASE (\E u \in Users : UseTraffic(u)) \/ \E i \in DOMAIN jobs : BackoffElapses(i) \/ LeaseExpires(i)
  BY <1>2, <1>12 DEF UseTraffic, BackoffElapses, LeaseExpires, dispatcherFrame, dispatcherVars, historyVars
<1>13. CASE UNCHANGED vars
  BY <1>2, <1>13 DEF vars, dispatcherVars, historyVars
<1>. QED BY <1>3, <1>4, <1>5, <1>6, <1>7, <1>8, <1>9, <1>10, <1>11, <1>12, <1>13
         DEF Next, DispatcherStep

\* After the mode leaves enforce, at most the rest of one claimed batch is
\* still sent, for every batch limit (dispatch_enforcement_batch_once reads the
\* mode once a batch), however many batches are lost and however often the mode
\* changes.
THEOREM StaleModeIsBounded == Spec => []StaleModeWindow
<1>1. WindowInv => StaleModeWindow
  BY DEF WindowInv
<1>. QED BY OutboxInit, OutboxStep, WindowInit, WindowStep, <1>1, PTL DEF Spec
=============================================================================
