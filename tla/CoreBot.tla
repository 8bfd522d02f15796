------------------------------ MODULE CoreBot ------------------------------
(***************************************************************************)
(* The stand-alone bot: a log line of the VPN server becomes a task, and    *)
(* the task climbs the ladder of its user: tracker, warnings, strike,       *)
(* restriction.  The unbanner ends restrictions, forgiveness takes strikes  *)
(* back, administrators send commands and press buttons, and a refresh      *)
(* re-reads the configuration.                                              *)
(*                                                                         *)
(* Everything runs on one asyncio loop, each query and each call of the     *)
(* panel is an await, and no transaction spans two of them: an action is    *)
(* what happens between two awaits that another task could come between.    *)
(* How a verdict is reached is the subject of Decision; here it is an       *)
(* input.                                                                   *)
(***************************************************************************)
EXTENDS Integers, Sequences, FiniteSets

CONSTANTS
  Users, Ips, Tags,
  Lines,              \* the log lines in use: [user, ip, tag]
  Tasks,              \* numbered slots for concurrent process_log_line tasks
  UsageThreshold, WarningTimeout, WarningsBeforeBan,   \* settings
  Durations,          \* ban_durations_minutes
  ForgiveAfter,       \* the 30 days of forgiveness_task
  TrackerIdle,        \* the hour after which cleanup_task deletes a tracker
  LockLimit,          \* the size at which cleanup_task clears the lock
  StrikeModes,        \* outcomes of build_auto_restriction_state in use
  Approvals,          \* values manual_ban_approval_enabled takes
  ConfigDry, ConfigExempt,   \* dry_run and exempt_uuids of config.json
  Commands,           \* the administrator commands in use
  StrikeCounts,       \* the counts /strike set and /strike add write
  MaxClock, MaxLines,     \* bounds: time, log lines, and
  MaxDisturbances     \* commands, presses of a reject button and crashes in all

ASSUME CoreBotAssumption ==
  /\ Lines \subseteq [user : Users, ip : Ips, tag : Tags]
  /\ Tasks \subseteq Nat /\ UsageThreshold \in Nat /\ WarningTimeout \in Nat
  /\ WarningsBeforeBan \in Nat \ {0}
  /\ Durations \in Seq(Nat \ {0}) /\ Durations # <<>>
  /\ ForgiveAfter \in Nat /\ TrackerIdle \in Nat /\ LockLimit \in Nat
  /\ StrikeModes \subseteq {"SQUAD", "CAP", "KEPT"} /\ Approvals \subseteq BOOLEAN
  /\ ConfigDry \in BOOLEAN /\ ConfigExempt \subseteq Users
  /\ Commands \subseteq {"unban", "forgive", "set", "wipe", "dry", "exempt"}
  /\ StrikeCounts \subseteq Nat
  /\ MaxClock \in Nat /\ MaxLines \in Nat /\ MaxDisturbances \in Nat

VARIABLES
  now,
  row,          \* violations, by user
  tracker,      \* active_trackers, by user and ip
  remote,       \* restrictions in force in Remnawave, by user
  task,         \* the tasks in flight
  lock,         \* PROCESSING_LOCK
  dry, exempt,  \* DRY_RUN and EXEMPT_UUIDS
  halted,       \* has an exception ended unbanner_task in this process?
  unbanning,    \* the unbanner's rows still to do, by user
  forgiving,    \* forgiveness_task's rows still to do, by user
  button,       \* approval messages with buttons, by user
  command,      \* the command or button being served
  overtaken,    \* history: somebody acted on a copy of the row that was old
  erased,       \* history: the recorded end of a restriction was overwritten
  warnings,     \* history: warnings since the last strike
  early,        \* history: was there a strike before its warnings?
  lines, disturbances    \* how much of each bound is used

dbVars == <<row, tracker>>
taskVars == <<task, lock>>
processVars == <<dry, exempt, halted>>
workVars == <<unbanning, forgiving, button, command>>
historyVars == <<overtaken, erased, warnings, early>>
boundVars == <<lines, disturbances>>
vars == <<now, dbVars, remote, taskVars, processVars, workVars, historyVars, boundVars>>

-----------------------------------------------------------------------------
(* Rows and what a restriction does *)

None == -1        \* SQL NULL

\* restriction_mode and the saved limit.  KEPT is a traffic cap without a
\* saved limit: the user's own limit was strict enough and stays.
Modes == {"SQUAD", "CAP", "KEPT"}

Restrictions == {"squad", "cap"}

Row == [present : BOOLEAN, strikes : Nat,
        unban : Int, warned : Int, count : Nat, mode : Modes, forgiven : Int]

NoRow == [present |-> FALSE, strikes |-> 0, unban |-> None, warned |-> None,
          count |-> 0, mode |-> "SQUAD", forgiven |-> None]

\* INSERT OR REPLACE gives every column that is not named its default.
WarningRow(strikes, count, at) ==
  [present |-> TRUE, strikes |-> strikes, unban |-> None, warned |-> at,
   count |-> count, mode |-> "SQUAD", forgiven |-> None]
StrikeRow(strikes, mode, at) ==
  [present |-> TRUE, strikes |-> strikes, unban |-> at + Durations[strikes], warned |-> None,
   count |-> 0, mode |-> mode, forgiven |-> at]
CommandRow(strikes) ==
  [present |-> TRUE, strikes |-> strikes, unban |-> None, warned |-> None,
   count |-> 0, mode |-> "SQUAD", forgiven |-> now]

\* apply_remote_restriction_state_async and restore_remote_restriction_state_async
Restricted(r, mode) ==
  CASE mode = "SQUAD" -> r \cup {"squad"} [] mode = "CAP" -> r \cup {"cap"} [] OTHER -> r
Restored(r, mode) ==
  CASE mode = "SQUAD" -> r \ {"squad"} [] mode = "CAP" -> r \ {"cap"} [] OTHER -> r

NoTracker == [start |-> None, seen |-> None]
Idle == [pc |-> "idle"]
NoWork == [pc |-> "none"]
NoButton == "none"

\* The database may hold trackers from before the process started.
Init ==
  /\ now = 0
  /\ row = [u \in Users |-> NoRow]
  /\ tracker \in [Users -> [Ips -> {NoTracker, [start |-> 0, seen |-> 0]}]]
  /\ remote = [u \in Users |-> {}]
  /\ task = [t \in Tasks |-> Idle] /\ lock = {}
  /\ dry = ConfigDry /\ exempt = ConfigExempt /\ halted = FALSE
  /\ unbanning = [u \in Users |-> NoWork]
  /\ forgiving = [u \in Users |-> NoWork]
  /\ button = [u \in Users |-> NoButton]
  /\ command = NoWork
  /\ overtaken = [u \in Users |-> FALSE] /\ erased = [u \in Users |-> FALSE]
  /\ warnings = [u \in Users |-> 0] /\ early = [u \in Users |-> FALSE]
  /\ lines = 0 /\ disturbances = 0

-----------------------------------------------------------------------------
(* Whoever works on a copy of a row has fresh = TRUE until somebody else    *)
(* writes the row or restores the user.  This is history: no code reads it. *)
(* A copy made between a restoration and the write that records it   *)
(* is old from the start.                                                   *)

Settled(u) ==
  /\ unbanning[u].pc # "restored"
  /\ command # NoWork => ~(command.user = u /\ command.pc = "restored")

Old(x) == IF "fresh" \in DOMAIN x THEN [x EXCEPT !.fresh = FALSE] ELSE x
OldTasks(u) == [t \in Tasks |-> IF task[t] # Idle /\ task[t].line.user = u
                                THEN Old(task[t]) ELSE task[t]]
OldUnbanning(u) == [unbanning EXCEPT ![u] = Old(@)]
OldForgiving(u) == [forgiving EXCEPT ![u] = Old(@)]
OldButton(u) == [button EXCEPT ![u] = IF @ = NoButton THEN @ ELSE "old"]
OldCommand(u) == IF command # NoWork /\ command.user = u THEN Old(command) ELSE command

\* u's row becomes r, written from a copy that is fresh or not.
WriteRow(u, r, fresh) ==
  /\ row' = [row EXCEPT ![u] = r]
  /\ overtaken' = [overtaken EXCEPT ![u] = @ \/ ~fresh]

\* The write takes away the end of a restriction that may be in force.
Erase(u, r) ==
  erased' = [erased EXCEPT ![u] = @ \/ (row[u].unban # None /\ r.unban # row[u].unban)]

\* Remnawave is asked to change u; a call that fails changes nothing.
CallRemote(u, r, fresh) ==
  /\ remote' = [remote EXCEPT ![u] = r]
  /\ overtaken' = [overtaken EXCEPT ![u] = @ \/ ~fresh]

Disturb == disturbances < MaxDisturbances /\ disturbances' = disturbances + 1

-----------------------------------------------------------------------------
(* process_log_line *)

Key(l) == <<l.user, l.ip, l.tag>>

\* Slots are interchangeable: the lowest free one is taken.
FreeSlot(t) == task[t] = Idle /\ \A s \in Tasks : s < t => task[s] # Idle

Goto(t, next) == task' = [task EXCEPT ![t] = next]
Done(t) == Goto(t, Idle) /\ lock' = lock \ {Key(task[t].line)}

\* A line whose key is in progress is skipped.
StartLine(t, l) ==
  /\ FreeSlot(t) /\ lines < MaxLines
  /\ Key(l) \notin lock
  /\ lock' = lock \cup {Key(l)}
  /\ Goto(t, [pc |-> "lookup", line |-> l])
  /\ lines' = lines + 1
  /\ UNCHANGED <<now, dbVars, remote, processVars, workVars, historyVars, disturbances>>

\* The panel does not know the user, the user is exempt, or the HOME verdict
\* goes to manual review.
Ignore(t) ==
  /\ task[t].pc = "lookup"
  /\ Done(t)
  /\ UNCHANGED <<now, dbVars, remote, processVars, workVars, historyVars, boundVars>>

\* A verdict other than HOME clears the user's trackers.
DecideMobile(t) ==
  LET u == task[t].line.user IN
  /\ task[t].pc = "lookup" /\ u \notin exempt
  /\ tracker' = [tracker EXCEPT ![u] = [i \in Ips |-> NoTracker]]
  /\ Done(t)
  /\ UNCHANGED <<now, row, remote, processVars, workVars, historyVars, boundVars>>

\* A HOME verdict goes to handle_violation, which fixes its clock and reads
\* the row; while the user is restricted it looks no further.
DecideHome(t) ==
  LET l == task[t].line IN
  /\ task[t].pc = "lookup" /\ l.user \notin exempt
  /\ \E warningOnly \in BOOLEAN :
       Goto(t, [pc |-> IF row[l.user].unban > now THEN "banned" ELSE "track",
                line |-> l, at |-> now, seen |-> row[l.user], start |-> None,
                warningOnly |-> warningOnly /\ row[l.user].unban <= now,
                fresh |-> Settled(l.user)])
  /\ UNCHANGED <<now, dbVars, remote, lock, processVars, workVars, historyVars, boundVars>>

\* Active while restricted: the restriction of the row is applied again.
Reapply(t) ==
  LET u == task[t].line.user IN
  /\ task[t].pc = "banned"
  /\ \/ UNCHANGED <<remote, overtaken>>
     \/ ~dry /\ CallRemote(u, Restricted(remote[u], task[t].seen.mode), task[t].fresh)
  /\ Done(t)
  /\ UNCHANGED <<now, dbVars, processVars, workVars, erased, warnings, early, boundVars>>

\* get_tracker_start
ReadTracker(t) ==
  LET start == tracker[task[t].line.user][task[t].line.ip].start IN
  /\ task[t].pc = "track"
  /\ Goto(t, [task[t] EXCEPT !.pc = "touch", !.start = start])
  /\ UNCHANGED <<now, dbVars, remote, lock, processVars, workVars, historyVars, boundVars>>

\* update_tracker keeps the start of a tracker that is there; a tracker that
\* was deleted since it was read comes back with the start that was read.
Touch(t) ==
  LET l == task[t].line
      there == tracker[l.user][l.ip].start
      start == IF task[t].start = None THEN task[t].at ELSE task[t].start
  IN
  /\ task[t].pc = "touch"
  /\ tracker' = [tracker EXCEPT ![l.user][l.ip] =
                   [start |-> IF there = None THEN start ELSE there, seen |-> now]]
  /\ IF task[t].start # None /\ task[t].at - start >= UsageThreshold
     THEN Goto(t, [task[t] EXCEPT !.pc = "act", !.start = None]) /\ UNCHANGED lock
     ELSE Done(t)
  /\ UNCHANGED <<now, row, remote, processVars, workVars, historyVars, boundVars>>

Forgotten(l) == [tracker EXCEPT ![l.user][l.ip] = NoTracker]

\* warning_only: the tracker goes, the database keeps no warning.
WarnOnly(t) ==
  /\ task[t].pc = "act" /\ task[t].warningOnly
  /\ tracker' = Forgotten(task[t].line)
  /\ Done(t)
  /\ UNCHANGED <<now, row, remote, processVars, workVars, historyVars, boundVars>>

WarnedLongAgo(x) == x.at - x.seen.warned >= WarningTimeout

\* Too soon after the last warning.
WarnedRecently(t) ==
  /\ task[t].pc = "act" /\ ~task[t].warningOnly
  /\ task[t].seen.warned # None /\ ~WarnedLongAgo(task[t])
  /\ Done(t)
  /\ UNCHANGED <<now, dbVars, remote, processVars, workVars, historyVars, boundVars>>

\* Everybody else who works on a copy of u's row now has an old one.
OthersOld(u) ==
  /\ unbanning' = OldUnbanning(u) /\ forgiving' = OldForgiving(u)
  /\ button' = OldButton(u) /\ command' = OldCommand(u)

\* The first warning, or the next one while warnings are left.
Warn(t) ==
  LET x == task[t]
      u == x.line.user
      count == IF x.seen.warned = None THEN 1 ELSE x.seen.count + 1
      r == WarningRow(x.seen.strikes, count, x.at)
  IN
  /\ x.pc = "act" /\ ~x.warningOnly
  /\ x.seen.warned # None => WarnedLongAgo(x) /\ count <= WarningsBeforeBan
  /\ WriteRow(u, r, x.fresh) /\ Erase(u, r) /\ OthersOld(u)
  /\ warnings' = [warnings EXCEPT ![u] = @ + 1]
  /\ IF x.seen.warned = None
     THEN task' = [OldTasks(u) EXCEPT ![t] = Idle] /\ lock' = lock \ {Key(x.line)}
     ELSE task' = [OldTasks(u) EXCEPT ![t] = [pc |-> "untrack", line |-> x.line]] /\ UNCHANGED lock
  /\ UNCHANGED <<now, tracker, remote, processVars, early, boundVars>>

\* After a warning that was not the first the tracker starts anew.
Untrack(t) ==
  /\ task[t].pc = "untrack"
  /\ tracker' = Forgotten(task[t].line)
  /\ Done(t)
  /\ UNCHANGED <<now, row, remote, processVars, workVars, historyVars, boundVars>>

\* Mutant: no warning counts as the last one.
WarningsUsedUpTooSoon(x) ==
  /\ x.seen.warned # None => WarnedLongAgo(x)
  /\ x.seen.count + 1 >= WarningsBeforeBan

WarningsUsedUp(x) == x.seen.warned # None /\ WarnedLongAgo(x) /\ x.seen.count + 1 > WarningsBeforeBan

\* A strike first deletes the tracker, ...
Escalate(t) ==
  /\ task[t].pc = "act" /\ ~task[t].warningOnly /\ WarningsUsedUp(task[t])
  /\ tracker' = Forgotten(task[t].line)
  /\ Goto(t, [task[t] EXCEPT !.pc = "strike"])
  /\ UNCHANGED <<now, row, remote, lock, processVars, workVars, historyVars, boundVars>>

Strikes(x) == IF x.seen.strikes >= Len(Durations) THEN Len(Durations) ELSE x.seen.strikes + 1

\* ... then writes the row, with the end of the restriction, and either asks
\* an administrator or goes on to restrict.
Strike(t, mode, approval) ==
  LET x == task[t]
      u == x.line.user
      r == StrikeRow(Strikes(x), mode, x.at)
  IN
  /\ x.pc = "strike"
  /\ r.unban <= MaxClock
  /\ WriteRow(u, r, x.fresh) /\ Erase(u, r)
  /\ unbanning' = OldUnbanning(u) /\ forgiving' = OldForgiving(u) /\ command' = OldCommand(u)
  /\ warnings' = [warnings EXCEPT ![u] = 0]
  /\ early' = [early EXCEPT ![u] = @ \/ (x.fresh /\ ~overtaken[u] /\ warnings[u] < WarningsBeforeBan)]
  /\ button' = IF approval THEN [button EXCEPT ![u] = "new"] ELSE OldButton(u)
  /\ IF approval \/ dry
     THEN task' = [OldTasks(u) EXCEPT ![t] = Idle] /\ lock' = lock \ {Key(x.line)}
     ELSE /\ task' = [OldTasks(u) EXCEPT ![t] = [pc |-> "restrict", line |-> x.line, seen |-> r, fresh |-> TRUE]]
          /\ UNCHANGED lock
  /\ UNCHANGED <<now, tracker, remote, processVars, boundVars>>

RestrictUser(t) ==
  LET x == task[t] IN
  /\ x.pc = "restrict"
  /\ \/ UNCHANGED <<remote, overtaken>>
     \/ CallRemote(x.line.user, Restricted(remote[x.line.user], x.seen.mode), x.fresh)
  /\ Done(t)
  /\ UNCHANGED <<now, dbVars, processVars, workVars, erased, warnings, early, boundVars>>

-----------------------------------------------------------------------------
(* unbanner_task: one pass reads the rows whose end has passed and takes    *)
(* them one after another.                                                  *)

Ended(u) == row[u].unban # None /\ row[u].unban <= now

\* Mutant: the mode of the restriction is not read, so the default is undone.
UnbanScanModeless ==
  /\ ~halted /\ \A u \in Users : unbanning[u] = NoWork
  /\ \E u \in Users : Ended(u)
  /\ unbanning' = [u \in Users |-> IF Ended(u)
                     THEN [pc |-> "due", mode |-> "SQUAD", fresh |-> TRUE] ELSE NoWork]
  /\ UNCHANGED <<now, dbVars, remote, taskVars, processVars, forgiving, button, command,
                 historyVars, boundVars>>

UnbanScan ==
  /\ ~halted /\ \A u \in Users : unbanning[u] = NoWork
  /\ \E u \in Users : Ended(u)
  /\ unbanning' = [u \in Users |-> IF Ended(u)
                     THEN [pc |-> "due", mode |-> row[u].mode, fresh |-> TRUE] ELSE NoWork]
  /\ UNCHANGED <<now, dbVars, remote, taskVars, processVars, forgiving, button, command,
                 historyVars, boundVars>>

\* Mutant: a panel that did not answer is taken for one that did.
UnbanRestoreBlind(u) ==
  /\ unbanning[u].pc = "due" /\ ~dry
  /\ \A v \in Users : unbanning[v].pc # "restored"
  /\ \/ UNCHANGED <<remote, overtaken>>
     \/ CallRemote(u, Restored(remote[u], unbanning[u].mode), unbanning[u].fresh)
  /\ unbanning' = [unbanning EXCEPT ![u].pc = "restored"]
  /\ task' = OldTasks(u) /\ command' = OldCommand(u)
  /\ UNCHANGED <<now, dbVars, lock, processVars, forgiving, button,
                 erased, warnings, early, boundVars>>

\* Restore the remote user; when that fails the row is left for the next pass.
UnbanRestored(u) ==
  /\ CallRemote(u, Restored(remote[u], unbanning[u].mode), unbanning[u].fresh)
  /\ task' = OldTasks(u) /\ command' = OldCommand(u)
  /\ unbanning' = [unbanning EXCEPT ![u].pc = "restored"]

UnbanRestore(u) ==
  /\ unbanning[u].pc = "due" /\ ~dry
  /\ \A v \in Users : unbanning[v].pc # "restored"
  /\ \/ UnbanRestored(u)
     \/ /\ unbanning' = [unbanning EXCEPT ![u] = NoWork]
        /\ UNCHANGED <<remote, overtaken, task, command>>
  /\ UNCHANGED <<now, dbVars, lock, processVars, forgiving, button,
                 erased, warnings, early, boundVars>>

\* SET unban_time = NULL, after the restoration or, on a dry run, without one.
UnbanClear(u) ==
  LET r == [row[u] EXCEPT !.unban = None] IN
  /\ \/ unbanning[u].pc = "restored" /\ UNCHANGED erased
     \/ unbanning[u].pc = "due" /\ dry /\ Erase(u, r)
  /\ IF row[u].present THEN WriteRow(u, r, unbanning[u].fresh) ELSE UNCHANGED <<row, overtaken>>
  /\ unbanning' = [unbanning EXCEPT ![u] = NoWork]
  /\ task' = OldTasks(u) /\ forgiving' = OldForgiving(u)
  /\ button' = OldButton(u) /\ command' = OldCommand(u)
  /\ UNCHANGED <<now, tracker, remote, lock, processVars, warnings, early, boundVars>>

\* Nothing in the task catches a query or a lookup that fails and nobody awaits
\* it: the pass is over, and no other follows while the process runs.  A pass
\* that finds no row may fail as well, which shows when a row is due.
UnbannerEnds ==
  /\ ~halted /\ \E u \in Users : Ended(u) \/ unbanning[u] # NoWork
  /\ halted' = TRUE
  /\ unbanning' = [u \in Users |-> NoWork]
  /\ UNCHANGED <<now, dbVars, remote, taskVars, dry, exempt, forgiving, button, command,
                 historyVars, boundVars>>

-----------------------------------------------------------------------------
(* forgiveness_task: a pass takes one strike back from every user who has   *)
(* had none for ForgiveAfter, from the count it read.                       *)

ForgiveDue(u) == row[u].strikes > 0 /\ row[u].forgiven # None /\ now - row[u].forgiven >= ForgiveAfter

ForgiveScan ==
  /\ \A u \in Users : forgiving[u] = NoWork
  /\ \E u \in Users : ForgiveDue(u)
  /\ forgiving' = [u \in Users |-> IF ForgiveDue(u)
                     THEN [pc |-> "due", strikes |-> row[u].strikes, at |-> now, fresh |-> TRUE]
                     ELSE NoWork]
  /\ UNCHANGED <<now, dbVars, remote, taskVars, processVars, unbanning, button, command,
                 historyVars, boundVars>>

Forgiven(u, strikes, at) == [row[u] EXCEPT !.strikes = strikes - 1, !.forgiven = at]

Forgive(u) ==
  /\ forgiving[u].pc = "due"
  /\ IF row[u].present
     THEN WriteRow(u, Forgiven(u, forgiving[u].strikes, forgiving[u].at), forgiving[u].fresh)
     ELSE UNCHANGED <<row, overtaken>>
  /\ forgiving' = [forgiving EXCEPT ![u] = NoWork]
  /\ task' = OldTasks(u) /\ command' = OldCommand(u)
  /\ UNCHANGED <<now, tracker, remote, lock, processVars, unbanning, button,
                 erased, warnings, early, boundVars>>

-----------------------------------------------------------------------------
(* Administrators: commands that read and then write, and the buttons of an *)
(* approval message.  One is served at a time.                              *)

\* /unban and /forgive (or /strike remove) start by reading the row; so does
\* the approval of a restriction.
CommandRead(op, u) ==
  /\ command = NoWork
  /\ \/ op \in Commands /\ Disturb
     \/ op = "approve" /\ button[u] # NoButton /\ UNCHANGED disturbances
  /\ op = "forgive" => row[u].strikes > 0
  /\ command' = [pc |-> "read", op |-> op, user |-> u, seen |-> row[u],
                 fresh |-> Settled(u) /\ (op = "approve" => button[u] = "new")]
  /\ UNCHANGED <<now, dbVars, remote, taskVars, processVars, unbanning, forgiving, button,
                 historyVars, lines>>

\* /unban: restore by the row that was read, unless dry, ...
UnbanCommandRestore ==
  LET u == command.user IN
  /\ command # NoWork /\ command.op = "unban" /\ command.pc = "read"
  /\ \/ ~dry /\ command' = NoWork /\ UNCHANGED <<remote, overtaken, task>>
     \/ dry /\ command' = [command EXCEPT !.pc = "skipped"] /\ UNCHANGED <<remote, overtaken, task>>
     \/ /\ ~dry
        /\ CallRemote(u, Restored(remote[u], command.seen.mode), command.fresh)
        /\ task' = OldTasks(u)
        /\ command' = [command EXCEPT !.pc = "restored"]
  /\ UNCHANGED <<now, dbVars, lock, processVars, unbanning, forgiving, button,
                 erased, warnings, early, boundVars>>

Deleted(u, fresh) ==
  /\ WriteRow(u, NoRow, fresh)
  /\ task' = OldTasks(u) /\ unbanning' = OldUnbanning(u)
  /\ forgiving' = OldForgiving(u) /\ button' = OldButton(u)

\* ... then delete the row.
UnbanCommandDelete ==
  LET u == command.user IN
  /\ command # NoWork /\ command.op = "unban"
  /\ \/ command.pc = "restored" /\ UNCHANGED erased
     \/ command.pc = "skipped" /\ Erase(u, NoRow)
  /\ Deleted(u, command.fresh)
  /\ warnings' = [warnings EXCEPT ![u] = 0]
  /\ command' = NoWork
  /\ UNCHANGED <<now, tracker, remote, lock, processVars, early, boundVars>>

ForgiveCommandWrite ==
  LET u == command.user IN
  /\ command # NoWork /\ command.op = "forgive"
  /\ IF row[u].present
     THEN WriteRow(u, Forgiven(u, command.seen.strikes, now), command.fresh)
     ELSE UNCHANGED <<row, overtaken>>
  /\ command' = NoWork
  /\ task' = OldTasks(u) /\ forgiving' = OldForgiving(u)
  /\ UNCHANGED <<now, tracker, remote, lock, processVars, unbanning, button,
                 erased, warnings, early, boundVars>>

\* The approve button applies the row that was read; the message keeps its
\* buttons when the panel refuses.
Approve ==
  LET u == command.user IN
  /\ command # NoWork /\ command.op = "approve"
  /\ \/ UNCHANGED <<remote, overtaken, button>>
     \/ /\ IF dry THEN UNCHANGED <<remote, overtaken>>
           ELSE CallRemote(u, Restricted(remote[u], command.seen.mode), command.fresh)
        /\ button' = [button EXCEPT ![u] = NoButton]
  /\ command' = NoWork
  /\ UNCHANGED <<now, dbVars, taskVars, processVars, unbanning, forgiving,
                 erased, warnings, early, boundVars>>

\* The reject button deletes the row; the statement that follows names a
\* column active_trackers does not have, so the message keeps its buttons.
Reject(u) ==
  /\ button[u] # NoButton
  /\ command = NoWork /\ Disturb
  /\ Deleted(u, TRUE) /\ Erase(u, NoRow)
  /\ warnings' = [warnings EXCEPT ![u] = 0]
  /\ UNCHANGED <<now, tracker, remote, lock, processVars, command, early, lines>>

\* /strike set (of 0: delete) and /strike add; the read of /strike add and
\* its write are one step here, which only hides an old copy.
SetStrikes(u, strikes) ==
  /\ command = NoWork /\ Disturb
  /\ "set" \in Commands
  /\ LET r == IF strikes = 0 THEN NoRow ELSE CommandRow(strikes) IN
     WriteRow(u, r, TRUE) /\ Erase(u, r)
  /\ task' = OldTasks(u) /\ unbanning' = OldUnbanning(u)
  /\ forgiving' = OldForgiving(u) /\ button' = OldButton(u)
  /\ warnings' = [warnings EXCEPT ![u] = 0]
  /\ UNCHANGED <<now, tracker, remote, lock, processVars, command, early, lines>>

\* /remove: the row and the trackers of a user, and the immunity.
Wipe(u) ==
  /\ "wipe" \in Commands
  /\ command = NoWork /\ Disturb
  /\ Deleted(u, TRUE) /\ Erase(u, NoRow)
  /\ tracker' = [tracker EXCEPT ![u] = [i \in Ips |-> NoTracker]]
  /\ exempt' = exempt \ {u}
  /\ warnings' = [warnings EXCEPT ![u] = 0]
  /\ UNCHANGED <<now, remote, lock, dry, halted, command, early, lines>>

\* /dry, and /exempt or /immune, change variables of the process only, ...
Switch(u) ==
  /\ command = NoWork /\ Disturb
  /\ \/ "dry" \in Commands /\ dry' = ~dry /\ UNCHANGED exempt
     \/ /\ "exempt" \in Commands
        /\ exempt' = IF u \in exempt THEN exempt \ {u} ELSE exempt \cup {u}
        /\ UNCHANGED dry
  /\ UNCHANGED <<now, dbVars, remote, taskVars, halted, workVars, historyVars, lines>>

\* ... and refresh_runtime_state_from_config puts back what config.json says.
Refresh ==
  /\ dry # ConfigDry \/ exempt # ConfigExempt
  /\ dry' = ConfigDry /\ exempt' = ConfigExempt
  /\ UNCHANGED <<now, dbVars, remote, taskVars, halted, workVars, historyVars, boundVars>>

-----------------------------------------------------------------------------
(* Time, cleanup_task, and a crash of the process *)

Tick ==
  /\ now < MaxClock
  /\ now' = now + 1
  /\ UNCHANGED <<dbVars, remote, taskVars, processVars, workVars, historyVars, boundVars>>

Cleanup ==
  /\ \E u \in Users, i \in Ips : tracker[u][i] # NoTracker /\ now - tracker[u][i].seen > TrackerIdle
  /\ tracker' = [u \in Users |-> [i \in Ips |->
                   IF now - tracker[u][i].seen > TrackerIdle THEN NoTracker ELSE tracker[u][i]]]
  /\ lock' = IF Cardinality(lock) > LockLimit THEN {} ELSE lock
  /\ UNCHANGED <<now, row, remote, task, processVars, workVars, historyVars, boundVars>>

Crash ==
  /\ Disturb
  /\ task' = [t \in Tasks |-> Idle] /\ lock' = {}
  /\ unbanning' = [u \in Users |-> NoWork] /\ forgiving' = [u \in Users |-> NoWork]
  /\ command' = NoWork
  /\ dry' = ConfigDry /\ exempt' = ConfigExempt /\ halted' = FALSE
  /\ UNCHANGED <<now, dbVars, remote, button, historyVars, lines>>

TaskStep(t) ==
  \/ Ignore(t) \/ DecideMobile(t) \/ DecideHome(t) \/ Reapply(t)
  \/ ReadTracker(t) \/ Touch(t) \/ WarnOnly(t) \/ WarnedRecently(t)
  \/ Warn(t) \/ Untrack(t) \/ Escalate(t)
  \/ \E mode \in StrikeModes, approval \in Approvals : Strike(t, mode, approval)
  \/ RestrictUser(t)

CommandStep == UnbanCommandRestore \/ UnbanCommandDelete \/ ForgiveCommandWrite \/ Approve

Next ==
  \/ \E t \in Tasks : TaskStep(t) \/ \E l \in Lines : StartLine(t, l)
  \/ UnbanScan \/ UnbannerEnds \/ \E u \in Users : UnbanRestore(u) \/ UnbanClear(u)
  \/ ForgiveScan \/ \E u \in Users : Forgive(u)
  \/ \E op \in {"unban", "forgive", "approve"}, u \in Users : CommandRead(op, u)
  \/ CommandStep
  \/ \E u \in Users : Reject(u) \/ Wipe(u) \/ Switch(u)
                      \/ \E n \in StrikeCounts : SetStrikes(u, n)
  \/ Refresh \/ Tick \/ Cleanup \/ Crash

\* Time passes and the unbanner's loop goes on while it has not ended; a panel
\* that is asked again and again answers in the end.
Fairness ==
  /\ WF_vars(Tick) /\ WF_vars(UnbanScan)
  /\ \A u \in Users : /\ WF_vars(UnbanRestore(u) \/ UnbanClear(u))
                      /\ SF_vars(UnbanRestore(u) /\ UnbanRestored(u))

Spec == Init /\ [][Next]_vars /\ Fairness

-----------------------------------------------------------------------------
(* Properties *)

Task ==
  [pc : {"lookup", "untrack"}, line : Lines]
  \cup [pc : {"banned", "track", "touch", "act", "strike"}, line : Lines, at : Nat, seen : Row,
        start : Int, warningOnly : BOOLEAN, fresh : BOOLEAN]
  \cup [pc : {"restrict"}, line : Lines, seen : Row, fresh : BOOLEAN]
UnbanWork == [pc : {"due", "restored"}, mode : Modes, fresh : BOOLEAN]
ForgiveWork == [pc : {"due"}, strikes : Nat \ {0}, at : Nat, fresh : BOOLEAN]
CommandWork == [pc : {"read", "restored", "skipped"}, op : {"unban", "forgive", "approve"},
                user : Users, seen : Row, fresh : BOOLEAN]

TypeOK ==
  /\ now \in Nat
  /\ row \in [Users -> Row]
  /\ tracker \in [Users -> [Ips -> [start : Int, seen : Int]]]
  /\ remote \in [Users -> SUBSET Restrictions]
  /\ task \in [Tasks -> Task \cup {Idle}]
  /\ lock \subseteq {Key(l) : l \in Lines}
  /\ dry \in BOOLEAN /\ exempt \subseteq Users /\ halted \in BOOLEAN
  /\ unbanning \in [Users -> UnbanWork \cup {NoWork}]
  /\ forgiving \in [Users -> ForgiveWork \cup {NoWork}]
  /\ button \in [Users -> {NoButton, "new", "old"}]
  /\ command \in CommandWork \cup {NoWork}
  /\ command # NoWork /\ command.op = "forgive" => command.seen.strikes > 0
  /\ overtaken \in [Users -> BOOLEAN] /\ erased \in [Users -> BOOLEAN]
  /\ warnings \in [Users -> Nat] /\ early \in [Users -> BOOLEAN]

\* A restriction in force has a recorded end, which the unbanner will act on,
\* unless somebody acted on an old copy of the row or overwrote the end: no
\* single task, pass or failed call of the panel strands a user on its own.
RestrictionHasEnd ==
  \A u \in Users :
    remote[u] # {} /\ ~overtaken[u] /\ ~erased[u] => row[u].unban # None

\* Every strike was preceded by all its warnings, whichever of the user's
\* addresses and tags they came from and however tasks interleaved, as long
\* as no write was made from an old copy of the row.
StrikesAreEarned == \A u \in Users : ~early[u]

\* A restriction ends unless the unbanner has ended for good: where each of its
\* deaths is followed by a restart, it restores the user although calls fail,
\* unless the recorded end was erased or overtaken.
RestrictionsEnd ==
  \A u \in Users :
    []<>~halted => (remote[u] # {} ~> remote[u] = {} \/ overtaken[u] \/ erased[u])
=============================================================================
