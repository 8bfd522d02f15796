--------------------------- MODULE CoreBot_proofs ---------------------------
(***************************************************************************)
(* Proofs about the stand-alone bot, CoreBot and CoreAnswers, for any number *)
(* of users, tasks and log lines, any ladder of warnings and durations, and  *)
(* any commands, crashes and failing calls of the panel.                     *)
(*                                                                         *)
(* Neither RestrictionHasEnd nor StrikesAreEarned is inductive.  What keeps  *)
(* them are the copies: whoever may still write from a copy of a row that   *)
(* nobody overtook has the row itself (CopyTrue), a restored user has no    *)
(* restriction left that a fresh task could have added (RowTrue), and the    *)
(* warnings the row counts were given (RowTrue).                            *)
(*                                                                         *)
(* Of CoreAnswers the invariants are BotInv, that a verdict older than an    *)
(* answer expires before the answer does, and AskInv, which says where the   *)
(* one question about an address is.                                        *)
(***************************************************************************)
EXTENDS CoreBot, CoreAnswers, FiniteSetTheorems, TLAPS

\* Nobody acted on an old copy of u's row or overwrote the end of a restriction.
Given(u) == ~overtaken[u] /\ ~erased[u]

\* What a restriction of this mode puts in force.
Effect(mode) == Restricted({}, mode)

Working == {"banned", "track", "touch", "act", "strike", "restrict"}

RowTrue(u) ==
  /\ Given(u) =>
       /\ remote[u] # {} => row[u].unban # None
       /\ remote[u] \subseteq Effect(row[u].mode)
       /\ button[u] = "new" => row[u].unban # None
       /\ unbanning[u].pc = "restored" /\ unbanning[u].fresh => remote[u] = {}
  /\ unbanning[u].pc \in {"due", "restored"} /\ unbanning[u].fresh =>
       unbanning[u].mode = row[u].mode
  /\ ~overtaken[u] /\ row[u].warned # None => row[u].count <= warnings[u]

CopyTrue(x) ==
  x.pc \in Working /\ x.fresh =>
    LET u == x.line.user IN
    /\ x.seen = row[u]
    /\ ~overtaken[u] => Settled(u)
    /\ x.pc \in {"banned", "restrict"} => x.seen.unban # None
    /\ x.pc \in {"track", "touch", "act", "strike"} => x.seen.unban <= x.at
    /\ x.pc = "strike" => x.seen.warned # None /\ x.seen.count >= WarningsBeforeBan

CommandTrue ==
  command # NoWork /\ command.fresh =>
    LET u == command.user IN
    /\ command.seen = row[u]
    /\ Given(u) /\ command.pc = "restored" => remote[u] = {}
    /\ command.op = "approve" =>
         /\ Given(u) => row[u].unban # None
         /\ ~overtaken[u] => unbanning[u].pc # "restored"

LadderInv ==
  /\ TypeOK
  /\ \A u \in Users : RowTrue(u)
  /\ \A t \in Tasks : CopyTrue(task[t])
  /\ CommandTrue
  /\ StrikesAreEarned

-----------------------------------------------------------------------------
(* Rows, and copies of them *)

LEMMA RowTypes ==
  /\ NoRow \in Row /\ NoRow.unban = None /\ NoRow.warned = None
  /\ \A strikes \in Nat, count \in Nat, at \in Nat :
       /\ WarningRow(strikes, count, at) \in Row
       /\ WarningRow(strikes, count, at).unban = None
       /\ WarningRow(strikes, count, at).count = count
<1>1. NoRow \in Row /\ NoRow.unban = None /\ NoRow.warned = None
  BY DEF NoRow, Row, None, Modes
<1>2. ASSUME NEW strikes \in Nat, NEW count \in Nat, NEW at \in Nat
      PROVE  /\ WarningRow(strikes, count, at) \in Row
             /\ WarningRow(strikes, count, at).unban = None
             /\ WarningRow(strikes, count, at).count = count
  BY DEF WarningRow, Row, None, Modes
<1>. QED BY <1>1, <1>2

LEMMA StrikeRowTypes ==
  ASSUME NEW x, x.seen \in Row, x.at \in Nat, NEW mode \in Modes
  PROVE  LET r == StrikeRow(Strikes(x), mode, x.at) IN
         /\ r \in Row /\ r.unban > x.at /\ r.unban # None
         /\ r.warned = None /\ r.mode = mode
<1>1. Strikes(x) \in 1..Len(Durations) /\ Strikes(x) \in Nat
  <2>1. Len(Durations) \in Nat \ {0} /\ x.seen.strikes \in Nat
    BY CoreBotAssumption DEF Row
  <2>. QED BY <2>1 DEF Strikes
<1>2. Durations[Strikes(x)] \in Nat \ {0}
  BY <1>1, CoreBotAssumption
<1>. DEFINE until == x.at + Durations[Strikes(x)]
<1>3. until \in Int /\ until > x.at /\ until # None /\ x.at \in Int
  BY <1>2 DEF None
<1>4. /\ StrikeRow(Strikes(x), mode, x.at).unban = until
      /\ StrikeRow(Strikes(x), mode, x.at).warned = None
      /\ StrikeRow(Strikes(x), mode, x.at).mode = mode
  BY DEF StrikeRow
<1>5. StrikeRow(Strikes(x), mode, x.at) \in Row
  <2>. HIDE DEF until
  <2>1. StrikeRow(Strikes(x), mode, x.at)
          = [present |-> TRUE, strikes |-> Strikes(x), unban |-> until, warned |-> None,
             count |-> 0, mode |-> mode, forgiven |-> x.at]
    BY DEF StrikeRow, until
  <2>. QED BY <1>1, <1>3, <2>1 DEF Row, None
<1>. QED BY <1>3, <1>4, <1>5

LEMMA OtherRowTypes ==
  /\ \A strikes \in Nat : now \in Nat =>
       CommandRow(strikes) \in Row /\ CommandRow(strikes).unban = None
       /\ CommandRow(strikes).warned = None
  /\ \A r \in Row : /\ [r EXCEPT !.unban = None] \in Row
                    /\ \A strikes \in Nat, at \in Nat :
                         [r EXCEPT !.strikes = strikes, !.forgiven = at] \in Row
<1>1. ASSUME NEW strikes \in Nat, now \in Nat
      PROVE  /\ CommandRow(strikes) \in Row /\ CommandRow(strikes).unban = None
             /\ CommandRow(strikes).warned = None
  BY <1>1 DEF CommandRow, Row, None, Modes
<1>2. \A r \in Row : [r EXCEPT !.unban = None] \in Row
  BY DEF Row, None
<1>3. ASSUME NEW r \in Row, NEW strikes \in Nat, NEW at \in Nat
      PROVE  [r EXCEPT !.strikes = strikes, !.forgiven = at] \in Row
  <2>1. /\ [r EXCEPT !.strikes = strikes] \in Row
    BY DEF Row
  <2>2. [[r EXCEPT !.strikes = strikes] EXCEPT !.forgiven = at] \in Row
    <3>1. at \in Int
      OBVIOUS
    <3>. DEFINE q == [r EXCEPT !.strikes = strikes]
    <3>2. q \in Row
      BY <2>1
    <3>. HIDE DEF q
    <3>3. [q EXCEPT !.forgiven = at] \in Row
      BY <3>1, <3>2 DEF Row
    <3>. QED BY <3>3 DEF q
  <2>. QED BY <2>2
<1>. QED BY <1>1, <1>2, <1>3

\* A copy that became old keeps its place.
LEMMA OldTask ==
  ASSUME NEW x \in Task
  PROVE  /\ Old(x) \in Task /\ Old(x).pc = x.pc /\ Old(x).line = x.line
         /\ x.pc \in Working => ~Old(x).fresh
<1>1. CASE x \in [pc : {"lookup", "untrack"}, line : Lines]
  BY <1>1 DEF Old, Task, Working
<1>2. CASE x \in [pc : {"banned", "track", "touch", "act", "strike"}, line : Lines, at : Nat,
                  seen : Row, start : Int, warningOnly : BOOLEAN, fresh : BOOLEAN]
  BY <1>2 DEF Old, Task, Working
<1>3. CASE x \in [pc : {"restrict"}, line : Lines, seen : Row, fresh : BOOLEAN]
  BY <1>3 DEF Old, Task, Working
<1>. QED BY <1>1, <1>2, <1>3 DEF Task

LEMMA TaskFields ==
  ASSUME NEW x \in Task
  PROVE  /\ x # Idle /\ x.pc # "idle" /\ x.line \in Lines /\ x.line.user \in Users
         /\ x.pc \in Working => x.seen \in Row /\ x.fresh \in BOOLEAN
         /\ x.pc \in {"banned", "track", "touch", "act", "strike"} => x.at \in Nat
         /\ x.pc \in {"lookup", "untrack"} \cup Working
  BY CoreBotAssumption DEF Task, Idle, Working

LEMMA OldTasksTypes ==
  ASSUME TypeOK, NEW u \in Users
  PROVE  /\ OldTasks(u) \in [Tasks -> Task \cup {Idle}]
         /\ \A t \in Tasks :
              /\ task[t] # Idle /\ task[t].line.user = u => OldTasks(u)[t] = Old(task[t])
              /\ ~(task[t] # Idle /\ task[t].line.user = u) => OldTasks(u)[t] = task[t]
  BY OldTask DEF TypeOK, OldTasks

LEMMA OldWork ==
  /\ \A x \in UnbanWork : /\ x # NoWork /\ x.pc \in {"due", "restored"} /\ x.mode \in Modes
                            /\ x.fresh \in BOOLEAN
                            /\ Old(x) \in UnbanWork /\ Old(x).pc = x.pc /\ ~Old(x).fresh
  /\ \A x \in ForgiveWork : /\ x # NoWork /\ x.pc = "due" /\ x.strikes \in Nat \ {0}
                              /\ x.at \in Nat /\ x.fresh \in BOOLEAN /\ Old(x) \in ForgiveWork
  /\ \A x \in CommandWork : /\ x # NoWork /\ x.pc \in {"read", "restored", "skipped"}
                              /\ x.op \in {"unban", "forgive", "approve"}
                              /\ x.user \in Users /\ x.seen \in Row /\ x.fresh \in BOOLEAN
                              /\ Old(x) \in CommandWork /\ Old(x).pc = x.pc /\ ~Old(x).fresh
                              /\ Old(x).op = x.op /\ Old(x).user = x.user /\ Old(x).seen = x.seen
  /\ Old(NoWork) = NoWork /\ NoWork.pc = "none"
<1>1. ASSUME NEW x \in UnbanWork
      PROVE  /\ x # NoWork /\ x.pc \in {"due", "restored"} /\ x.mode \in Modes
             /\ x.fresh \in BOOLEAN
             /\ Old(x) \in UnbanWork /\ Old(x).pc = x.pc /\ ~Old(x).fresh
  <2>1. "fresh" \in DOMAIN x /\ Old(x) = [x EXCEPT !.fresh = FALSE]
    BY DEF Old, UnbanWork
  <2>2. Old(x) \in UnbanWork /\ Old(x).pc = x.pc /\ ~Old(x).fresh
    BY <2>1 DEF UnbanWork
  <2>3. x # NoWork
    <3>1. x.pc # "none"
      BY DEF UnbanWork
    <3>. QED BY <3>1 DEF NoWork
  <2>. QED BY <2>2, <2>3 DEF UnbanWork
<1>2. ASSUME NEW x \in ForgiveWork
      PROVE  /\ x # NoWork /\ x.pc = "due" /\ x.strikes \in Nat \ {0}
             /\ x.at \in Nat /\ x.fresh \in BOOLEAN /\ Old(x) \in ForgiveWork
  <2>1. "fresh" \in DOMAIN x /\ Old(x) = [x EXCEPT !.fresh = FALSE]
    BY DEF Old, ForgiveWork
  <2>2. Old(x) \in ForgiveWork
    BY <2>1 DEF ForgiveWork
  <2>3. x # NoWork
    <3>1. x.pc # "none"
      BY DEF ForgiveWork
    <3>. QED BY <3>1 DEF NoWork
  <2>. QED BY <2>2, <2>3 DEF ForgiveWork
<1>3. ASSUME NEW x \in CommandWork
      PROVE  /\ x # NoWork /\ x.pc \in {"read", "restored", "skipped"}
             /\ x.op \in {"unban", "forgive", "approve"}
             /\ x.user \in Users /\ x.seen \in Row /\ x.fresh \in BOOLEAN
             /\ Old(x) \in CommandWork /\ Old(x).pc = x.pc /\ ~Old(x).fresh
             /\ Old(x).op = x.op /\ Old(x).user = x.user /\ Old(x).seen = x.seen
  <2>1. "fresh" \in DOMAIN x /\ Old(x) = [x EXCEPT !.fresh = FALSE]
    BY DEF Old, CommandWork
  <2>2. Old(x) \in CommandWork /\ Old(x).pc = x.pc /\ ~Old(x).fresh
       /\ Old(x).op = x.op /\ Old(x).user = x.user /\ Old(x).seen = x.seen
    BY <2>1 DEF CommandWork
  <2>3. x # NoWork
    <3>1. x.pc # "none"
      BY DEF CommandWork
    <3>. QED BY <3>1 DEF NoWork
  <2>. QED BY <2>2, <2>3 DEF CommandWork
<1>4. Old(NoWork) = NoWork /\ NoWork.pc = "none"
  BY DEF Old, NoWork
<1>. QED BY <1>1, <1>2, <1>3, <1>4

LEMMA OldWorkTypes ==
  ASSUME TypeOK, NEW u \in Users
  PROVE  /\ OldUnbanning(u) \in [Users -> UnbanWork \cup {NoWork}]
         /\ OldUnbanning(u)[u].pc = unbanning[u].pc
         /\ unbanning[u].pc \in {"due", "restored"} => ~OldUnbanning(u)[u].fresh
         /\ \A v \in Users \ {u} : OldUnbanning(u)[v] = unbanning[v]
         /\ OldForgiving(u) \in [Users -> ForgiveWork \cup {NoWork}]
         /\ OldButton(u) \in [Users -> {NoButton, "new", "old"}]
         /\ OldButton(u)[u] # "new"
         /\ \A v \in Users \ {u} : OldButton(u)[v] = button[v]
<1>1. /\ unbanning[u] \in UnbanWork \cup {NoWork}
      /\ forgiving[u] \in ForgiveWork \cup {NoWork}
      /\ unbanning \in [Users -> UnbanWork \cup {NoWork}]
      /\ forgiving \in [Users -> ForgiveWork \cup {NoWork}]
      /\ button \in [Users -> {NoButton, "new", "old"}]
  BY DEF TypeOK
<1>2. OldUnbanning(u)[u] = Old(unbanning[u]) /\ \A v \in Users \ {u} : OldUnbanning(u)[v] = unbanning[v]
  BY <1>1 DEF OldUnbanning
<1>3. OldUnbanning(u) \in [Users -> UnbanWork \cup {NoWork}]
  BY <1>1, OldWork DEF OldUnbanning
<1>4. OldForgiving(u) \in [Users -> ForgiveWork \cup {NoWork}]
  BY <1>1, OldWork DEF OldForgiving
<1>5. /\ OldButton(u) \in [Users -> {NoButton, "new", "old"}]
      /\ OldButton(u)[u] # "new"
      /\ \A v \in Users \ {u} : OldButton(u)[v] = button[v]
  BY <1>1 DEF OldButton, NoButton
<1>. QED BY <1>1, <1>2, <1>3, <1>4, <1>5, OldWork

LEMMA OldCommandTypes ==
  ASSUME TypeOK, NEW u \in Users
  PROVE  /\ OldCommand(u) \in CommandWork \cup {NoWork}
         /\ OldCommand(u) = NoWork <=> command = NoWork
         /\ command # NoWork =>
              /\ OldCommand(u).pc = command.pc /\ OldCommand(u).user = command.user
              /\ OldCommand(u).op = command.op /\ OldCommand(u).seen = command.seen
              /\ command.user = u => ~OldCommand(u).fresh
              /\ command.user # u => OldCommand(u) = command
<1>1. command \in CommandWork \cup {NoWork}
  BY DEF TypeOK
<1>. QED BY <1>1, OldWork DEF OldCommand

-----------------------------------------------------------------------------
(* Writes and calls *)

LEMMA WriteRowFacts ==
  ASSUME TypeOK, NEW u \in Users, NEW r \in Row, NEW fresh \in BOOLEAN, WriteRow(u, r, fresh)
  PROVE  /\ row' \in [Users -> Row] /\ overtaken' \in [Users -> BOOLEAN]
         /\ row'[u] = r /\ overtaken'[u] = (overtaken[u] \/ ~fresh)
         /\ \A v \in Users \ {u} : row'[v] = row[v] /\ overtaken'[v] = overtaken[v]
BY DEF TypeOK, WriteRow

LEMMA EraseFacts ==
  ASSUME TypeOK, NEW u \in Users, NEW r \in Row, Erase(u, r)
  PROVE  /\ erased' \in [Users -> BOOLEAN]
         /\ erased'[u] = (erased[u] \/ (row[u].unban # None /\ r.unban # row[u].unban))
         /\ \A v \in Users \ {u} : erased'[v] = erased[v]
BY DEF TypeOK, Erase

LEMMA RemoteTypes ==
  ASSUME NEW r \in SUBSET Restrictions, NEW mode \in Modes
  PROVE  Restricted(r, mode) \in SUBSET Restrictions /\ Restored(r, mode) \in SUBSET Restrictions
BY DEF Restricted, Restored, Restrictions, Modes

\* The restriction that is added is that of the mode, and its restoration takes it away.
LEMMA RestrictionEffect ==
  ASSUME NEW mode \in Modes, NEW r, r \subseteq Effect(mode)
  PROVE  Restricted(r, mode) \subseteq Effect(mode) /\ Restored(r, mode) = {}
BY DEF Effect, Restricted, Restored, Modes

LEMMA CallRemoteFacts ==
  ASSUME TypeOK, NEW u \in Users, NEW r \in SUBSET Restrictions, NEW fresh \in BOOLEAN,
         CallRemote(u, r, fresh)
  PROVE  /\ remote' \in [Users -> SUBSET Restrictions] /\ overtaken' \in [Users -> BOOLEAN]
         /\ remote'[u] = r /\ overtaken'[u] = (overtaken[u] \/ ~fresh)
         /\ \A v \in Users \ {u} : remote'[v] = remote[v] /\ overtaken'[v] = overtaken[v]
BY DEF TypeOK, CallRemote

-----------------------------------------------------------------------------
(* Tasks: what is at hand, and what replaces it *)

LEMMA TaskAt ==
  ASSUME TypeOK, NEW t \in Tasks, task[t].pc # "idle"
  PROVE  task[t] \in Task
BY DEF TypeOK, Idle

LEMMA NewTasks ==
  ASSUME NEW l \in Lines
  PROVE  /\ [pc |-> "lookup", line |-> l] \in Task
         /\ [pc |-> "untrack", line |-> l] \in Task
         /\ \A r \in Row : [pc |-> "restrict", line |-> l, seen |-> r, fresh |-> TRUE] \in Task
BY DEF Task

LEMMA HomeTask ==
  ASSUME NEW l \in Lines, NEW at \in Nat, NEW r \in Row, NEW only \in BOOLEAN,
         NEW fresh \in BOOLEAN, NEW pc \in {"banned", "track"}
  PROVE  [pc |-> pc, line |-> l, at |-> at, seen |-> r, start |-> None,
          warningOnly |-> only, fresh |-> fresh] \in Task
BY DEF Task, None

LEMMA MovedTask ==
  ASSUME NEW x \in Task, x.pc \in {"banned", "track", "touch", "act", "strike"}
  PROVE  /\ \A pc \in {"banned", "track", "touch", "act", "strike"} :
              /\ [x EXCEPT !.pc = pc] \in Task
              /\ [x EXCEPT !.pc = pc].pc = pc
         /\ \A start \in Int : [x EXCEPT !.start = start] \in Task
         /\ "pc" \in DOMAIN x
<1>. DEFINE S == [pc : {"banned", "track", "touch", "act", "strike"}, line : Lines, at : Nat,
                  seen : Row, start : Int, warningOnly : BOOLEAN, fresh : BOOLEAN]
<1>1. x \in S
  BY DEF Task
<1>2. "pc" \in DOMAIN x
  BY <1>1
<1>3. \A pc \in {"banned", "track", "touch", "act", "strike"} : [x EXCEPT !.pc = pc] \in S
  BY <1>1
<1>4. \A start \in Int : [x EXCEPT !.start = start] \in S
  BY <1>1
<1>5. S \subseteq Task
  BY DEF Task
<1>. HIDE DEF S
<1>. QED BY <1>2, <1>3, <1>4, <1>5

\* The task goes on, or its slot is free again.
LEMMA GotoFacts ==
  ASSUME TypeOK, NEW t \in Tasks, NEW x \in Task \cup {Idle}, Goto(t, x)
  PROVE  /\ task' \in [Tasks -> Task \cup {Idle}] /\ task'[t] = x
         /\ \A s \in Tasks \ {t} : task'[s] = task[s]
BY DEF TypeOK, Goto

LEMMA DoneFacts ==
  ASSUME TypeOK, NEW t \in Tasks, Done(t)
  PROVE  /\ task' \in [Tasks -> Task \cup {Idle}] /\ task'[t] = Idle
         /\ \A s \in Tasks \ {t} : task'[s] = task[s]
         /\ lock' \subseteq {Key(l) : l \in Lines}
BY GotoFacts DEF TypeOK, Done

LEMMA TrackerTypes ==
  ASSUME TypeOK
  PROVE  /\ NoTracker \in [start : Int, seen : Int]
         /\ \A l \in Lines : Forgotten(l) \in [Users -> [Ips -> [start : Int, seen : Int]]]
         /\ \A u \in Users : [tracker EXCEPT ![u] = [i \in Ips |-> NoTracker]]
                               \in [Users -> [Ips -> [start : Int, seen : Int]]]
         /\ \A u \in Users, i \in Ips : tracker[u][i].start \in Int
<1>1. NoTracker \in [start : Int, seen : Int]
  BY DEF NoTracker, None
<1>. DEFINE T == [start : Int, seen : Int]
<1>2. tracker \in [Users -> [Ips -> T]]
  BY DEF TypeOK
<1>3. \A u \in Users, i \in Ips : tracker[u][i].start \in Int
  BY <1>2
<1>0. NoTracker \in T
  BY <1>1
<1>. HIDE DEF T
<1>4. \A u \in Users : [tracker EXCEPT ![u] = [i \in Ips |-> NoTracker]] \in [Users -> [Ips -> T]]
  BY <1>0, <1>2
<1>5. ASSUME NEW l \in Lines
      PROVE  Forgotten(l) \in [Users -> [Ips -> T]]
  <2>1. l.user \in Users /\ l.ip \in Ips
    BY CoreBotAssumption
  <2>. QED BY <1>0, <1>2, <2>1 DEF Forgotten
<1>. QED BY <1>1, <1>3, <1>4, <1>5 DEF T

-----------------------------------------------------------------------------
(* Types *)

\* Steps of a task that leave its user's row alone.
LEMMA TaskStepTypes ==
  ASSUME TypeOK, NEW t \in Tasks,
         \/ Ignore(t) \/ DecideMobile(t) \/ DecideHome(t) \/ Reapply(t)
         \/ ReadTracker(t) \/ Touch(t) \/ WarnOnly(t) \/ WarnedRecently(t)
         \/ Untrack(t) \/ Escalate(t) \/ RestrictUser(t)
  PROVE  TypeOK'
<1>. DEFINE x == task[t]
<1>. USE DEF dbVars, processVars, workVars, historyVars, boundVars
<1>1. task[t].pc # "idle" /\ x \in Task
  BY TaskAt DEF Ignore, DecideMobile, DecideHome, Reapply, ReadTracker, Touch, WarnOnly,
                WarnedRecently, Untrack, Escalate, RestrictUser
<1>2. /\ x.line \in Lines /\ x.line.user \in Users
      /\ x.pc \in Working => x.seen \in Row /\ x.fresh \in BOOLEAN
      /\ x.pc \in {"banned", "track", "touch", "act", "strike"} => x.at \in Nat
  BY <1>1, TaskFields
<1>3. CASE Ignore(t)
  BY <1>3, DoneFacts DEF TypeOK, Ignore
<1>4. CASE DecideMobile(t)
  BY <1>2, <1>4, DoneFacts, TrackerTypes DEF TypeOK, DecideMobile
<1>5. CASE DecideHome(t)
  <2>. DEFINE l == x.line
              pc == IF row[l.user].unban > now THEN "banned" ELSE "track"
  <2>1. PICK only \in BOOLEAN :
          Goto(t, [pc |-> pc, line |-> l, at |-> now, seen |-> row[l.user], start |-> None,
                   warningOnly |-> only /\ row[l.user].unban <= now, fresh |-> Settled(l.user)])
    BY <1>5 DEF DecideHome
  <2>2. /\ row[l.user] \in Row /\ now \in Nat /\ Settled(l.user) \in BOOLEAN
        /\ (only /\ row[l.user].unban <= now) \in BOOLEAN /\ pc \in {"banned", "track"}
    BY <1>2 DEF TypeOK, Settled
  <2>. DEFINE y == [pc |-> pc, line |-> l, at |-> now, seen |-> row[l.user], start |-> None,
                    warningOnly |-> only /\ row[l.user].unban <= now, fresh |-> Settled(l.user)]
  <2>3. y \in Task
    BY ZenonT(60), <1>2, <2>2, HomeTask
  <2>4. Goto(t, y)
    BY <2>1
  <2>. HIDE DEF y
  <2>5. task' \in [Tasks -> Task \cup {Idle}]
    BY <2>3, <2>4, GotoFacts
  <2>. QED BY <1>5, <2>5 DEF TypeOK, DecideHome
<1>6. CASE Reapply(t)
  <2>1. x.seen.mode \in Modes /\ x.fresh \in BOOLEAN /\ remote[x.line.user] \in SUBSET Restrictions
    BY <1>2, <1>6 DEF TypeOK, Reapply, Working, Row
  <2>2. Restricted(remote[x.line.user], x.seen.mode) \in SUBSET Restrictions
    BY <2>1, RemoteTypes
  <2>3. remote' \in [Users -> SUBSET Restrictions] /\ overtaken' \in [Users -> BOOLEAN]
    BY ZenonT(60), <1>2, <1>6, <2>1, <2>2, CallRemoteFacts DEF Reapply, TypeOK
  <2>. QED BY <1>6, <2>3, DoneFacts DEF TypeOK, Reapply
<1>7. CASE ReadTracker(t)
  <2>. DEFINE start == tracker[x.line.user][x.line.ip].start
  <2>1. start \in Int
    BY <1>2, TrackerTypes, CoreBotAssumption
  <2>2. x.pc = "track" /\ Goto(t, [x EXCEPT !.pc = "touch", !.start = start])
    BY <1>7 DEF ReadTracker
  <2>. DEFINE y == [x EXCEPT !.pc = "touch"]
              z == [y EXCEPT !.start = start]
  <2>3. y \in Task /\ y.pc = "touch"
    BY <1>1, <2>2, MovedTask
  <2>4. Goto(t, z)
    BY <2>2
  <2>. HIDE DEF y, start
  <2>5. z \in Task
    BY <2>1, <2>3, MovedTask
  <2>. HIDE DEF z
  <2>6. task' \in [Tasks -> Task \cup {Idle}]
    BY <2>4, <2>5, GotoFacts
  <2>. QED BY <1>7, <2>6 DEF TypeOK, ReadTracker
<1>8. CASE Touch(t)
  <2>1. task' \in [Tasks -> Task \cup {Idle}] /\ lock' \subseteq {Key(l) : l \in Lines}
    <3>1. CASE Done(t)
      BY <3>1, DoneFacts
    <3>2. CASE Goto(t, [x EXCEPT !.pc = "act", !.start = None]) /\ lock' = lock
      <4>. DEFINE y == [x EXCEPT !.pc = "act"]
                  z == [y EXCEPT !.start = None]
      <4>1. y \in Task /\ y.pc = "act"
        BY <1>1, <1>8, MovedTask DEF Touch
      <4>2. Goto(t, z)
        BY <3>2
      <4>3. None \in Int
        BY DEF None
      <4>. HIDE DEF y
      <4>4. z \in Task
        BY <4>1, <4>3, MovedTask
      <4>. HIDE DEF z
      <4>. QED BY <3>2, <4>2, <4>4, GotoFacts DEF TypeOK
    <3>. QED BY <1>8, <3>1, <3>2 DEF Touch
  <2>2. tracker' \in [Users -> [Ips -> [start : Int, seen : Int]]]
    <3>. DEFINE T == [start : Int, seen : Int]
                l == x.line
    <3>1. l.user \in Users /\ l.ip \in Ips /\ tracker \in [Users -> [Ips -> T]]
      BY <1>2, CoreBotAssumption DEF TypeOK
    <3>2. x.start \in Int /\ x.at \in Int /\ now \in Int
      BY <1>1, <1>8 DEF TypeOK, Task, Touch
    <3>3. PICK e \in T : tracker' = [tracker EXCEPT ![l.user][l.ip] = e]
      BY <1>8, <3>1, <3>2 DEF Touch
    <3>. HIDE DEF T, l
    <3>4. tracker' \in [Users -> [Ips -> T]]
      BY <3>1, <3>3
    <3>. QED BY <3>4 DEF T
  <2>. QED BY <1>8, <2>1, <2>2 DEF TypeOK, Touch
<1>9. CASE WarnOnly(t)
  BY <1>2, <1>9, DoneFacts, TrackerTypes DEF TypeOK, WarnOnly
<1>10. CASE WarnedRecently(t)
  BY <1>10, DoneFacts DEF TypeOK, WarnedRecently
<1>11. CASE Untrack(t)
  BY <1>2, <1>11, DoneFacts, TrackerTypes DEF TypeOK, Untrack
<1>12. CASE Escalate(t)
  <2>1. [x EXCEPT !.pc = "strike"] \in Task
    BY <1>1, <1>12, MovedTask DEF Escalate
  <2>2. task' \in [Tasks -> Task \cup {Idle}]
    BY <1>12, <2>1, GotoFacts DEF Escalate
  <2>3. tracker' \in [Users -> [Ips -> [start : Int, seen : Int]]]
    BY <1>2, <1>12, TrackerTypes DEF Escalate
  <2>. QED BY <1>12, <2>2, <2>3 DEF TypeOK, Escalate
<1>13. CASE RestrictUser(t)
  <2>1. x.seen.mode \in Modes /\ x.fresh \in BOOLEAN /\ remote[x.line.user] \in SUBSET Restrictions
    BY <1>2, <1>13 DEF TypeOK, RestrictUser, Working, Row
  <2>2. Restricted(remote[x.line.user], x.seen.mode) \in SUBSET Restrictions
    BY <2>1, RemoteTypes
  <2>3. remote' \in [Users -> SUBSET Restrictions] /\ overtaken' \in [Users -> BOOLEAN]
    BY ZenonT(60), <1>2, <1>13, <2>1, <2>2, CallRemoteFacts DEF RestrictUser, TypeOK
  <2>. QED BY <1>13, <2>3, DoneFacts DEF TypeOK, RestrictUser
<1>. QED BY <1>3, <1>4, <1>5, <1>6, <1>7, <1>8, <1>9, <1>10, <1>11, <1>12, <1>13

LEMMA OldTasksWith ==
  ASSUME TypeOK, NEW u \in Users, NEW t \in Tasks, NEW x \in Task \cup {Idle},
         task' = [OldTasks(u) EXCEPT ![t] = x]
  PROVE  /\ task' \in [Tasks -> Task \cup {Idle}] /\ task'[t] = x
         /\ \A s \in Tasks \ {t} : task'[s] = OldTasks(u)[s]
BY OldTasksTypes

\* Steps of a task that write the row.
LEMMA WarnTypes ==
  ASSUME TypeOK, NEW t \in Tasks, Warn(t)
  PROVE  TypeOK'
<1>. DEFINE x == task[t]
            u == x.line.user
            count == IF x.seen.warned = None THEN 1 ELSE x.seen.count + 1
            r == WarningRow(x.seen.strikes, count, x.at)
<1>1. x.pc = "act" /\ x \in Task
  BY TaskAt DEF Warn
<1>2. x.line \in Lines /\ u \in Users /\ x.seen \in Row /\ x.fresh \in BOOLEAN /\ x.at \in Nat
  BY <1>1, TaskFields DEF Working
<1>3. x.seen.strikes \in Nat /\ count \in Nat
  BY <1>2 DEF Row
<1>4. r \in Row
  BY <1>2, <1>3, RowTypes
<1>5. /\ WriteRow(u, r, x.fresh) /\ Erase(u, r) /\ OthersOld(u)
      /\ warnings' = [warnings EXCEPT ![u] = @ + 1]
  BY DEF Warn
<1>6. \/ task' = [OldTasks(u) EXCEPT ![t] = Idle] /\ lock' = lock \ {Key(x.line)}
      \/ task' = [OldTasks(u) EXCEPT ![t] = [pc |-> "untrack", line |-> x.line]] /\ lock' = lock
  BY DEF Warn
<1>7. UNCHANGED <<now, tracker, remote, processVars, early, boundVars>>
  BY DEF Warn
<1>. HIDE DEF r, u
<1>8. task' \in [Tasks -> Task \cup {Idle}]
  BY <1>2, <1>6, OldTasksWith, NewTasks
<1>9. row' \in [Users -> Row] /\ overtaken' \in [Users -> BOOLEAN] /\ erased' \in [Users -> BOOLEAN]
  BY <1>2, <1>4, <1>5, WriteRowFacts, EraseFacts
<1>10. /\ unbanning' \in [Users -> UnbanWork \cup {NoWork}]
       /\ forgiving' \in [Users -> ForgiveWork \cup {NoWork}]
       /\ button' \in [Users -> {NoButton, "new", "old"}]
       /\ command' \in CommandWork \cup {NoWork}
       /\ command' # NoWork /\ command'.op = "forgive" => command'.seen.strikes > 0
  BY <1>2, <1>5, OldWorkTypes, OldCommandTypes DEF OthersOld, TypeOK
<1>11. warnings' \in [Users -> Nat]
  BY <1>2, <1>5 DEF TypeOK
<1>12. lock' \subseteq {Key(l) : l \in Lines}
  BY <1>6 DEF TypeOK
<1>. QED BY <1>7, <1>8, <1>9, <1>10, <1>11, <1>12 DEF TypeOK, processVars

LEMMA StrikeTypes ==
  ASSUME TypeOK, NEW t \in Tasks, NEW mode \in StrikeModes, NEW approval \in Approvals,
         Strike(t, mode, approval)
  PROVE  TypeOK'
<1>. DEFINE x == task[t]
            u == x.line.user
            r == StrikeRow(Strikes(x), mode, x.at)
<1>1. x.pc = "strike" /\ x \in Task
  BY TaskAt DEF Strike
<1>2. x.line \in Lines /\ u \in Users /\ x.seen \in Row /\ x.fresh \in BOOLEAN /\ x.at \in Nat
  BY <1>1, TaskFields DEF Working
<1>3. r \in Row
  BY <1>2, StrikeRowTypes, CoreBotAssumption DEF Modes
<1>4. WriteRow(u, r, x.fresh) /\ Erase(u, r)
  BY DEF Strike
<1>5. unbanning' = OldUnbanning(u) /\ forgiving' = OldForgiving(u) /\ command' = OldCommand(u)
  BY DEF Strike
<1>6. \/ task' = [OldTasks(u) EXCEPT ![t] = Idle] /\ lock' = lock \ {Key(x.line)}
      \/ /\ task' = [OldTasks(u) EXCEPT ![t] = [pc |-> "restrict", line |-> x.line, seen |-> r, fresh |-> TRUE]]
         /\ lock' = lock
  BY DEF Strike
<1>7. button' = [button EXCEPT ![u] = "new"] \/ button' = OldButton(u)
  BY DEF Strike
<1>8. /\ warnings' = [warnings EXCEPT ![u] = 0]
      /\ early' = [early EXCEPT ![u] = @ \/ (x.fresh /\ ~overtaken[u] /\ warnings[u] < WarningsBeforeBan)]
      /\ UNCHANGED <<now, tracker, remote, processVars, boundVars>>
  BY DEF Strike
<1>. HIDE DEF r, u
<1>9. task' \in [Tasks -> Task \cup {Idle}]
  BY <1>2, <1>3, <1>6, OldTasksWith, NewTasks
<1>10. row' \in [Users -> Row] /\ overtaken' \in [Users -> BOOLEAN] /\ erased' \in [Users -> BOOLEAN]
  BY <1>2, <1>3, <1>4, WriteRowFacts, EraseFacts
<1>11. /\ unbanning' \in [Users -> UnbanWork \cup {NoWork}]
       /\ forgiving' \in [Users -> ForgiveWork \cup {NoWork}]
       /\ button' \in [Users -> {NoButton, "new", "old"}]
       /\ command' \in CommandWork \cup {NoWork}
       /\ command' # NoWork /\ command'.op = "forgive" => command'.seen.strikes > 0
  BY <1>2, <1>5, <1>7, OldWorkTypes, OldCommandTypes DEF TypeOK
<1>12. early' \in [Users -> BOOLEAN]
  <2>1. PICK b \in BOOLEAN : early' = [early EXCEPT ![u] = b]
    BY <1>8
  <2>. QED BY <2>1 DEF TypeOK
<1>. QED BY <1>2, <1>6, <1>8, <1>9, <1>10, <1>11, <1>12 DEF TypeOK, processVars

\* Steps of the unbanner and of forgiveness.
LEMMA PassTypes ==
  ASSUME TypeOK, NEW u \in Users,
         \/ UnbanScan \/ UnbanRestore(u) \/ UnbanClear(u) \/ ForgiveScan \/ Forgive(u)
  PROVE  TypeOK'
<1>. USE DEF dbVars, taskVars, processVars, workVars, historyVars, boundVars
<1>1. /\ unbanning[u] \in UnbanWork \cup {NoWork} /\ forgiving[u] \in ForgiveWork \cup {NoWork}
      /\ row[u] \in Row
  BY DEF TypeOK
<1>2. CASE UnbanScan
  <2>1. unbanning' = [v \in Users |-> IF Ended(v)
                        THEN [pc |-> "due", mode |-> row[v].mode, fresh |-> TRUE] ELSE NoWork]
    BY <1>2 DEF UnbanScan
  <2>2. ASSUME NEW v \in Users
        PROVE  [pc |-> "due", mode |-> row[v].mode, fresh |-> TRUE] \in UnbanWork
    BY DEF TypeOK, Row, UnbanWork
  <2>3. unbanning' \in [Users -> UnbanWork \cup {NoWork}]
    BY <2>1, <2>2
  <2>. QED BY <1>2, <2>3 DEF TypeOK, UnbanScan
<1>3. CASE UnbanRestore(u)
  <2>1. unbanning[u] \in UnbanWork
    BY <1>1, <1>3, OldWork DEF UnbanRestore
  <2>2. /\ unbanning[u].mode \in Modes /\ unbanning[u].fresh \in BOOLEAN
        /\ remote[u] \in SUBSET Restrictions
    BY <2>1 DEF UnbanWork, TypeOK
  <2>3. [unbanning[u] EXCEPT !.pc = "restored"] \in UnbanWork
    BY <2>1 DEF UnbanWork
  <2>4. unbanning' \in [Users -> UnbanWork \cup {NoWork}]
    <3>1. PICK y \in UnbanWork \cup {NoWork} : unbanning' = [unbanning EXCEPT ![u] = y]
      BY <1>3, <2>3 DEF UnbanRestore, UnbanRestored
    <3>. QED BY <3>1 DEF TypeOK
  <2>5. Restored(remote[u], unbanning[u].mode) \in SUBSET Restrictions
    BY <2>2, RemoteTypes
  <2>6. remote' \in [Users -> SUBSET Restrictions] /\ overtaken' \in [Users -> BOOLEAN]
    <3>1. \/ CallRemote(u, Restored(remote[u], unbanning[u].mode), unbanning[u].fresh)
          \/ UNCHANGED <<remote, overtaken>>
      BY <1>3 DEF UnbanRestore, UnbanRestored
    <3>. QED BY ZenonT(60), <2>2, <2>5, <3>1, CallRemoteFacts DEF TypeOK
  <2>7. task' \in [Tasks -> Task \cup {Idle}]
    BY <1>3, OldTasksTypes DEF UnbanRestore, UnbanRestored, TypeOK
  <2>8. /\ command' \in CommandWork \cup {NoWork}
        /\ command' # NoWork /\ command'.op = "forgive" => command'.seen.strikes > 0
    BY <1>3, OldCommandTypes DEF UnbanRestore, UnbanRestored, TypeOK
  <2>. QED BY <1>3, <2>4, <2>6, <2>7, <2>8 DEF TypeOK, UnbanRestore
<1>4. CASE UnbanClear(u)
  <2>. DEFINE r == [row[u] EXCEPT !.unban = None]
  <2>1. r \in Row
    BY <1>1, OtherRowTypes
  <2>2. unbanning[u] \in UnbanWork /\ unbanning[u].fresh \in BOOLEAN
    BY <1>1, <1>4, OldWork DEF UnbanClear
  <2>3. /\ erased' = erased \/ Erase(u, r)
        /\ WriteRow(u, r, unbanning[u].fresh) \/ UNCHANGED <<row, overtaken>>
    BY <1>4 DEF UnbanClear
  <2>. HIDE DEF r
  <2>4. row' \in [Users -> Row] /\ overtaken' \in [Users -> BOOLEAN] /\ erased' \in [Users -> BOOLEAN]
    BY <2>1, <2>2, <2>3, WriteRowFacts, EraseFacts DEF TypeOK
  <2>5. /\ forgiving' \in [Users -> ForgiveWork \cup {NoWork}]
        /\ button' \in [Users -> {NoButton, "new", "old"}]
        /\ command' \in CommandWork \cup {NoWork}
        /\ command' # NoWork /\ command'.op = "forgive" => command'.seen.strikes > 0
        /\ task' \in [Tasks -> Task \cup {Idle}]
    BY <1>4, OldWorkTypes, OldCommandTypes, OldTasksTypes DEF TypeOK, UnbanClear
  <2>6. unbanning' \in [Users -> UnbanWork \cup {NoWork}]
    BY <1>4 DEF TypeOK, UnbanClear
  <2>. QED BY <1>4, <2>4, <2>5, <2>6 DEF TypeOK, UnbanClear
<1>5. CASE ForgiveScan
  <2>1. forgiving' = [v \in Users |-> IF ForgiveDue(v)
                        THEN [pc |-> "due", strikes |-> row[v].strikes, at |-> now, fresh |-> TRUE]
                        ELSE NoWork]
    BY <1>5 DEF ForgiveScan
  <2>2. ASSUME NEW v \in Users, ForgiveDue(v)
        PROVE  [pc |-> "due", strikes |-> row[v].strikes, at |-> now, fresh |-> TRUE] \in ForgiveWork
    BY <2>2 DEF TypeOK, Row, ForgiveWork, ForgiveDue
  <2>3. forgiving' \in [Users -> ForgiveWork \cup {NoWork}]
    BY <2>1, <2>2
  <2>. QED BY <1>5, <2>3 DEF TypeOK, ForgiveScan
<1>6. CASE Forgive(u)
  <2>. DEFINE r == Forgiven(u, forgiving[u].strikes, forgiving[u].at)
  <2>1. forgiving[u] \in ForgiveWork
    BY <1>1, <1>6, OldWork DEF Forgive
  <2>2. forgiving[u].strikes - 1 \in Nat /\ forgiving[u].at \in Nat /\ forgiving[u].fresh \in BOOLEAN
    BY <2>1 DEF ForgiveWork
  <2>3. r \in Row
    BY <1>1, <2>2, OtherRowTypes DEF Forgiven
  <2>4. WriteRow(u, r, forgiving[u].fresh) \/ UNCHANGED <<row, overtaken>>
    BY <1>6 DEF Forgive
  <2>. HIDE DEF r
  <2>5. row' \in [Users -> Row] /\ overtaken' \in [Users -> BOOLEAN]
    BY <2>2, <2>3, <2>4, WriteRowFacts DEF TypeOK
  <2>6. /\ forgiving' \in [Users -> ForgiveWork \cup {NoWork}]
        /\ task' \in [Tasks -> Task \cup {Idle}]
        /\ command' \in CommandWork \cup {NoWork}
        /\ command' # NoWork /\ command'.op = "forgive" => command'.seen.strikes > 0
    BY <1>6, OldCommandTypes, OldTasksTypes DEF TypeOK, Forgive
  <2>. QED BY <1>6, <2>5, <2>6 DEF TypeOK, Forgive
<1>. QED BY <1>2, <1>3, <1>4, <1>5, <1>6

\* A deletion by a command or a button.
LEMMA DeletedTypes ==
  ASSUME TypeOK, NEW u \in Users, NEW fresh \in BOOLEAN, Deleted(u, fresh)
  PROVE  /\ row' \in [Users -> Row] /\ overtaken' \in [Users -> BOOLEAN]
         /\ task' \in [Tasks -> Task \cup {Idle}]
         /\ unbanning' \in [Users -> UnbanWork \cup {NoWork}]
         /\ forgiving' \in [Users -> ForgiveWork \cup {NoWork}]
         /\ button' \in [Users -> {NoButton, "new", "old"}]
BY WriteRowFacts, OldTasksTypes, OldWorkTypes, RowTypes DEF Deleted

LEMMA CommandAt ==
  ASSUME TypeOK, command # NoWork
  PROVE  /\ command \in CommandWork /\ command.user \in Users /\ command.fresh \in BOOLEAN
         /\ command.seen \in Row /\ command.seen.mode \in Modes
         /\ \A pc \in {"restored", "skipped"} :
              /\ [command EXCEPT !.pc = pc] \in CommandWork
              /\ [command EXCEPT !.pc = pc].pc = pc
              /\ [command EXCEPT !.pc = pc].op = command.op
              /\ [command EXCEPT !.pc = pc].user = command.user
              /\ [command EXCEPT !.pc = pc].seen = command.seen
              /\ [command EXCEPT !.pc = pc].fresh = command.fresh
<1>1. command \in CommandWork
  BY DEF TypeOK
<1>2. command.seen.mode \in Modes
  BY <1>1 DEF CommandWork, Row
<1>. QED BY <1>1, <1>2 DEF CommandWork

\* Steps of the command that is being served.
LEMMA CommandStepTypes ==
  ASSUME TypeOK, command # NoWork, CommandStep
  PROVE  TypeOK'
<1>. DEFINE u == command.user
<1>. USE DEF dbVars, taskVars, processVars, workVars, historyVars, boundVars
<1>1. u \in Users /\ command.fresh \in BOOLEAN /\ command.seen.mode \in Modes
  BY CommandAt
<1>2. remote[u] \in SUBSET Restrictions /\ row[u] \in Row
  BY <1>1 DEF TypeOK
<1>3. CASE UnbanCommandRestore
  <2>1. Restored(remote[u], command.seen.mode) \in SUBSET Restrictions
    BY <1>1, <1>2, RemoteTypes
  <2>2. \/ CallRemote(u, Restored(remote[u], command.seen.mode), command.fresh)
        \/ UNCHANGED <<remote, overtaken>>
    BY <1>3 DEF UnbanCommandRestore
  <2>3. remote' \in [Users -> SUBSET Restrictions] /\ overtaken' \in [Users -> BOOLEAN]
    BY ZenonT(60), <1>1, <2>1, <2>2, CallRemoteFacts DEF TypeOK
  <2>4. command' \in CommandWork \cup {NoWork} /\ (command' # NoWork => command'.op = "unban")
    BY <1>3, CommandAt DEF UnbanCommandRestore
  <2>5. task' \in [Tasks -> Task \cup {Idle}]
    BY <1>1, <1>3, OldTasksTypes DEF UnbanCommandRestore, TypeOK
  <2>. QED BY <1>3, <2>3, <2>4, <2>5 DEF TypeOK, UnbanCommandRestore
<1>4. CASE UnbanCommandDelete
  <2>1. erased' = erased \/ Erase(u, NoRow)
    BY <1>4 DEF UnbanCommandDelete
  <2>2. erased' \in [Users -> BOOLEAN]
    BY <1>1, <2>1, EraseFacts, RowTypes DEF TypeOK
  <2>3. Deleted(u, command.fresh) /\ warnings' = [warnings EXCEPT ![u] = 0]
    BY <1>4 DEF UnbanCommandDelete
  <2>4. /\ row' \in [Users -> Row] /\ overtaken' \in [Users -> BOOLEAN]
        /\ task' \in [Tasks -> Task \cup {Idle}]
        /\ unbanning' \in [Users -> UnbanWork \cup {NoWork}]
        /\ forgiving' \in [Users -> ForgiveWork \cup {NoWork}]
        /\ button' \in [Users -> {NoButton, "new", "old"}]
    BY <1>1, <2>3, DeletedTypes
  <2>5. warnings' \in [Users -> Nat]
    BY <1>1, <2>3 DEF TypeOK
  <2>. QED BY <1>4, <2>2, <2>4, <2>5 DEF TypeOK, UnbanCommandDelete
<1>5. CASE ForgiveCommandWrite
  <2>. DEFINE r == Forgiven(u, command.seen.strikes, now)
  <2>1. command.seen.strikes - 1 \in Nat /\ now \in Nat
    BY <1>5, CommandAt DEF TypeOK, ForgiveCommandWrite, Row
  <2>2. r \in Row
    BY <1>2, <2>1, OtherRowTypes DEF Forgiven
  <2>3. WriteRow(u, r, command.fresh) \/ UNCHANGED <<row, overtaken>>
    BY <1>5 DEF ForgiveCommandWrite
  <2>. HIDE DEF r
  <2>4. row' \in [Users -> Row] /\ overtaken' \in [Users -> BOOLEAN]
    BY <1>1, <2>2, <2>3, WriteRowFacts DEF TypeOK
  <2>5. /\ forgiving' \in [Users -> ForgiveWork \cup {NoWork}]
        /\ task' \in [Tasks -> Task \cup {Idle}]
    BY <1>1, <1>5, OldWorkTypes, OldTasksTypes DEF ForgiveCommandWrite
  <2>. QED BY <1>5, <2>4, <2>5 DEF TypeOK, ForgiveCommandWrite
<1>6. CASE Approve
  <2>1. Restricted(remote[u], command.seen.mode) \in SUBSET Restrictions
    BY <1>1, <1>2, RemoteTypes
  <2>2. \/ CallRemote(u, Restricted(remote[u], command.seen.mode), command.fresh)
        \/ UNCHANGED <<remote, overtaken>>
    BY <1>6 DEF Approve
  <2>3. remote' \in [Users -> SUBSET Restrictions] /\ overtaken' \in [Users -> BOOLEAN]
    BY ZenonT(60), <1>1, <2>1, <2>2, CallRemoteFacts DEF TypeOK
  <2>4. button' \in [Users -> {NoButton, "new", "old"}]
    BY <1>6 DEF TypeOK, Approve
  <2>. QED BY <1>6, <2>3, <2>4 DEF TypeOK, Approve
<1>. QED BY <1>3, <1>4, <1>5, <1>6 DEF CommandStep

\* A command or a button that starts, or does its work in one step.
LEMMA AdminTypes ==
  ASSUME TypeOK, NEW u \in Users,
         \/ \E op \in {"unban", "forgive", "approve"} : CommandRead(op, u)
         \/ Reject(u) \/ Wipe(u) \/ Switch(u) \/ \E n \in StrikeCounts : SetStrikes(u, n)
  PROVE  TypeOK'
<1>. USE DEF dbVars, taskVars, processVars, workVars, historyVars, boundVars
<1>1. ASSUME NEW op \in {"unban", "forgive", "approve"}, CommandRead(op, u)
      PROVE  TypeOK'
  <2>1. row[u] \in Row /\ (Settled(u) /\ (op = "approve" => button[u] = "new")) \in BOOLEAN
    BY DEF TypeOK, Settled
  <2>. DEFINE y == [pc |-> "read", op |-> op, user |-> u, seen |-> row[u],
                    fresh |-> Settled(u) /\ (op = "approve" => button[u] = "new")]
  <2>2. y \in CommandWork /\ y.op = op /\ y.seen = row[u]
    BY <2>1 DEF CommandWork
  <2>3. command' = y /\ (op = "forgive" => row[u].strikes > 0)
    BY <1>1 DEF CommandRead
  <2>. HIDE DEF y
  <2>. QED BY <1>1, <2>2, <2>3 DEF TypeOK, CommandRead
<1>2. CASE Reject(u)
  <2>1. Deleted(u, TRUE) /\ Erase(u, NoRow) /\ warnings' = [warnings EXCEPT ![u] = 0]
    BY <1>2 DEF Reject
  <2>2. erased' \in [Users -> BOOLEAN]
    BY <2>1, EraseFacts, RowTypes
  <2>3. /\ row' \in [Users -> Row] /\ overtaken' \in [Users -> BOOLEAN]
        /\ task' \in [Tasks -> Task \cup {Idle}]
        /\ unbanning' \in [Users -> UnbanWork \cup {NoWork}]
        /\ forgiving' \in [Users -> ForgiveWork \cup {NoWork}]
        /\ button' \in [Users -> {NoButton, "new", "old"}]
    BY <2>1, DeletedTypes
  <2>4. warnings' \in [Users -> Nat]
    BY <2>1 DEF TypeOK
  <2>. QED BY <1>2, <2>2, <2>3, <2>4 DEF TypeOK, Reject
<1>3. CASE Wipe(u)
  <2>1. Deleted(u, TRUE) /\ Erase(u, NoRow) /\ warnings' = [warnings EXCEPT ![u] = 0]
    BY <1>3 DEF Wipe
  <2>2. erased' \in [Users -> BOOLEAN]
    BY <2>1, EraseFacts, RowTypes
  <2>3. tracker' \in [Users -> [Ips -> [start : Int, seen : Int]]]
    BY <1>3, TrackerTypes DEF Wipe
  <2>4. /\ row' \in [Users -> Row] /\ overtaken' \in [Users -> BOOLEAN]
        /\ task' \in [Tasks -> Task \cup {Idle}]
        /\ unbanning' \in [Users -> UnbanWork \cup {NoWork}]
        /\ forgiving' \in [Users -> ForgiveWork \cup {NoWork}]
        /\ button' \in [Users -> {NoButton, "new", "old"}]
    BY <2>1, DeletedTypes
  <2>5. warnings' \in [Users -> Nat]
    BY <2>1 DEF TypeOK
  <2>. QED BY <1>3, <2>2, <2>3, <2>4, <2>5 DEF TypeOK, Wipe
<1>4. CASE Switch(u)
  BY <1>4 DEF TypeOK, Switch
<1>5. ASSUME NEW n \in StrikeCounts, SetStrikes(u, n)
      PROVE  TypeOK'
  <2>. DEFINE r == IF n = 0 THEN NoRow ELSE CommandRow(n)
  <2>1. r \in Row
    BY RowTypes, OtherRowTypes, CoreBotAssumption DEF TypeOK
  <2>2. WriteRow(u, r, TRUE) /\ Erase(u, r)
    BY <1>5 DEF SetStrikes
  <2>. HIDE DEF r
  <2>3. row' \in [Users -> Row] /\ overtaken' \in [Users -> BOOLEAN] /\ erased' \in [Users -> BOOLEAN]
    BY <2>1, <2>2, WriteRowFacts, EraseFacts
  <2>4. /\ task' \in [Tasks -> Task \cup {Idle}]
        /\ unbanning' \in [Users -> UnbanWork \cup {NoWork}]
        /\ forgiving' \in [Users -> ForgiveWork \cup {NoWork}]
        /\ button' \in [Users -> {NoButton, "new", "old"}]
    BY <1>5, OldTasksTypes, OldWorkTypes DEF SetStrikes
  <2>. QED BY <1>5, <2>3, <2>4 DEF TypeOK, SetStrikes
<1>. QED BY <1>1, <1>2, <1>3, <1>4, <1>5

LEMMA TypesKept ==
  TypeOK /\ [Next]_vars => TypeOK'
<1>. SUFFICES ASSUME TypeOK, [Next]_vars PROVE TypeOK'
  OBVIOUS
<1>. USE DEF dbVars, taskVars, processVars, workVars, historyVars, boundVars
<1>1. ASSUME NEW t \in Tasks, TaskStep(t)
      PROVE  TypeOK'
  <2>1. CASE Warn(t)
    BY <2>1, WarnTypes
  <2>2. CASE \E mode \in StrikeModes, approval \in Approvals : Strike(t, mode, approval)
    BY <2>2, StrikeTypes
  <2>. QED BY <1>1, <2>1, <2>2, TaskStepTypes DEF TaskStep
<1>2. ASSUME NEW t \in Tasks, NEW l \in Lines, StartLine(t, l)
      PROVE  TypeOK'
  <2>1. Goto(t, [pc |-> "lookup", line |-> l]) /\ lock' = lock \cup {Key(l)}
    BY <1>2 DEF StartLine
  <2>2. task' \in [Tasks -> Task \cup {Idle}]
    BY <2>1, NewTasks, GotoFacts
  <2>. QED BY <1>2, <2>1, <2>2 DEF TypeOK, StartLine
<1>3. CASE UnbanScan \/ ForgiveScan
  <2>1. CASE Users = {}
    BY <1>3, <2>1 DEF UnbanScan, ForgiveScan
  <2>2. CASE \E u \in Users : TRUE
    BY <1>3, <2>2, PassTypes
  <2>. QED BY <2>1, <2>2
<1>4. ASSUME NEW u \in Users, UnbanRestore(u) \/ UnbanClear(u) \/ Forgive(u)
      PROVE  TypeOK'
  BY <1>4, PassTypes
<1>5. ASSUME NEW u \in Users,
             \/ \E op \in {"unban", "forgive", "approve"} : CommandRead(op, u)
             \/ Reject(u) \/ Wipe(u) \/ Switch(u) \/ \E n \in StrikeCounts : SetStrikes(u, n)
      PROVE  TypeOK'
  BY <1>5, AdminTypes
<1>6. CASE CommandStep
  <2>1. command # NoWork
    BY <1>6 DEF CommandStep, UnbanCommandRestore, UnbanCommandDelete, ForgiveCommandWrite, Approve
  <2>. QED BY <1>6, <2>1, CommandStepTypes
<1>7. CASE Refresh
  BY <1>7, CoreBotAssumption DEF TypeOK, Refresh
<1>8. CASE Tick
  BY <1>8 DEF TypeOK, Tick
<1>9. CASE Cleanup
  <2>. DEFINE T == [start : Int, seen : Int]
  <2>1. tracker' = [u \in Users |-> [i \in Ips |->
                      IF now - tracker[u][i].seen > TrackerIdle THEN NoTracker ELSE tracker[u][i]]]
    BY <1>9 DEF Cleanup
  <2>2. NoTracker \in T /\ tracker \in [Users -> [Ips -> T]]
    BY TrackerTypes DEF TypeOK
  <2>. HIDE DEF T
  <2>3. tracker' \in [Users -> [Ips -> T]]
    BY <2>1, <2>2
  <2>4. lock' \subseteq lock
    BY <1>9 DEF Cleanup
  <2>. QED BY <1>9, <2>3, <2>4 DEF TypeOK, Cleanup, T
<1>10. CASE Crash
  BY <1>10, CoreBotAssumption DEF TypeOK, Crash
<1>11. CASE UnbannerEnds
  BY <1>11 DEF TypeOK, UnbannerEnds
<1>12. CASE UNCHANGED vars
  BY <1>12 DEF TypeOK, vars
<1>. QED BY <1>1, <1>2, <1>3, <1>4, <1>5, <1>6, <1>7, <1>8, <1>9, <1>10, <1>11, <1>12 DEF Next

LEMMA InitTypes ==
  Init => TypeOK
<1>1. NoRow \in Row /\ Idle \in Task \cup {Idle} /\ NoWork \in UnbanWork \cup {NoWork}
  BY RowTypes
<1>2. Init => tracker \in [Users -> [Ips -> [start : Int, seen : Int]]]
  <2>. DEFINE T == [start : Int, seen : Int]
  <2>1. {NoTracker, [start |-> 0, seen |-> 0]} \subseteq T
    BY DEF NoTracker, None
  <2>. HIDE DEF T
  <2>2. Init => tracker \in [Users -> [Ips -> T]]
    BY SMTT(30), <2>1 DEF Init
  <2>. QED BY <2>2 DEF T
<1>3. Init => /\ dry \in BOOLEAN /\ exempt \subseteq Users /\ halted \in BOOLEAN /\ lock = {}
             /\ now \in Nat /\ command = NoWork
  <2>1. ConfigDry \in BOOLEAN /\ ConfigExempt \subseteq Users
    BY CoreBotAssumption
  <2>2. Init => /\ dry = ConfigDry /\ exempt = ConfigExempt /\ halted = FALSE /\ lock = {}
                /\ now = 0 /\ command = NoWork
    BY DEF Init
  <2>3. Init => dry \in BOOLEAN /\ halted \in BOOLEAN
    BY <2>1, <2>2
  <2>4. Init => exempt \subseteq Users /\ now \in Nat
    BY <2>1, <2>2
  <2>. QED BY <2>2, <2>3, <2>4
<1>4. Init => /\ row \in [Users -> Row] /\ task \in [Tasks -> Task \cup {Idle}]
              /\ unbanning \in [Users -> UnbanWork \cup {NoWork}]
              /\ forgiving \in [Users -> ForgiveWork \cup {NoWork}]
              /\ button \in [Users -> {NoButton, "new", "old"}]
  BY <1>1 DEF Init
<1>5. Init => /\ overtaken \in [Users -> BOOLEAN] /\ erased \in [Users -> BOOLEAN]
              /\ warnings \in [Users -> Nat] /\ early \in [Users -> BOOLEAN]
              /\ remote \in [Users -> SUBSET Restrictions]
  BY DEF Init
<1>. QED BY <1>2, <1>3, <1>4, <1>5 DEF TypeOK

\* The rows, the tasks, the passes and the commands have the shape the code gives them, for
\* any number of users, tasks and log lines.
THEOREM TypeCorrect == Spec => []TypeOK
BY InitTypes, TypesKept, PTL DEF Spec

-----------------------------------------------------------------------------
(* What a step leaves as it was *)

\* The step is about user u: everybody else's row, restriction and work stay.
OnlyAbout(u) ==
  \A v \in Users \ {u} :
    /\ row'[v] = row[v] /\ remote'[v] = remote[v] /\ button'[v] = button[v]
    /\ unbanning'[v] = unbanning[v] /\ warnings'[v] = warnings[v]
    /\ overtaken'[v] = overtaken[v] /\ erased'[v] = erased[v]
    /\ Settled(v) => Settled(v)'

LEMMA SettledKept ==
  ASSUME TypeOK, NEW u \in Users, NEW v \in Users, unbanning'[v].pc = "restored" => unbanning[v].pc = "restored",
         command' \in {command, OldCommand(u), NoWork}
  PROVE  Settled(v) => Settled(v)'
BY OldCommandTypes DEF Settled

LEMMA RowKept ==
  ASSUME NEW v \in Users, RowTrue(v),
         row'[v] = row[v], remote'[v] = remote[v], button'[v] = button[v],
         unbanning'[v] = unbanning[v] \/ unbanning'[v] = NoWork, warnings'[v] = warnings[v],
         overtaken'[v] = overtaken[v], erased'[v] = erased[v]
  PROVE  RowTrue(v)'
BY OldWork DEF RowTrue, Given

LEMMA CopyKept ==
  ASSUME NEW t \in Tasks, CopyTrue(task[t]), task'[t] = task[t],
         LET u == task[t].line.user IN
           row'[u] = row[u] /\ (overtaken[u] => overtaken'[u]) /\ (Settled(u) => Settled(u)')
  PROVE  CopyTrue(task[t])'
BY DEF CopyTrue

LEMMA CopyOld ==
  ASSUME TypeOK, NEW t \in Tasks, task'[t] \in {Old(task[t]), Idle}
  PROVE  CopyTrue(task[t])'
<1>1. ASSUME task[t] \in Task, task'[t] = Old(task[t])
      PROVE  CopyTrue(task[t])'
  <2>1. task'[t].pc \in Working => ~task'[t].fresh
    BY <1>1, OldTask
  <2>. QED BY <2>1 DEF CopyTrue
<1>2. ASSUME task'[t] = Idle
      PROVE  CopyTrue(task[t])'
  BY <1>2 DEF CopyTrue, Idle, Working
<1>3. Old(Idle) = Idle
  BY DEF Old, Idle
<1>. QED BY <1>1, <1>2, <1>3 DEF TypeOK

\* Tasks of u that were not finished have old copies now, and others are not concerned.
LEMMA TasksKept ==
  ASSUME LadderInv, NEW u \in Users, OnlyAbout(u), NEW t \in Tasks,
         task'[t] \in {OldTasks(u)[t], Idle}
  PROVE  CopyTrue(task[t])'
<1>. TypeOK /\ CopyTrue(task[t])
  BY DEF LadderInv
<1>1. CASE task'[t] = Idle \/ (task[t] # Idle /\ task[t].line.user = u)
  BY <1>1, CopyOld, OldTasksTypes
<1>2. CASE task[t] # Idle /\ task[t].line.user # u /\ task'[t] = OldTasks(u)[t]
  <2>1. task'[t] = task[t]
    BY <1>2, OldTasksTypes
  <2>2. task[t].line.user \in Users \ {u}
    BY <1>2, TaskFields DEF TypeOK
  <2>. QED BY <2>1, <2>2, CopyKept DEF OnlyAbout
<1>3. CASE task[t] = Idle /\ task'[t] = OldTasks(u)[t]
  BY <1>3, CopyOld, OldTasksTypes
<1>. QED BY <1>1, <1>2, <1>3

LEMMA CommandKept ==
  ASSUME LadderInv, NEW u \in Users, OnlyAbout(u), command' \in {OldCommand(u), NoWork}
  PROVE  CommandTrue'
<1>. TypeOK /\ CommandTrue
  BY DEF LadderInv
<1>1. CASE command' = NoWork
  BY <1>1 DEF CommandTrue
<1>2. CASE command # NoWork /\ command.user = u /\ command' = OldCommand(u)
  BY <1>2, OldCommandTypes DEF CommandTrue
<1>3. CASE command # NoWork /\ command.user # u /\ command' = OldCommand(u)
  <2>1. command' = command /\ command.user \in Users \ {u}
    BY <1>3, OldCommandTypes, CommandAt
  <2>. QED BY <2>1 DEF CommandTrue, OnlyAbout, Given
<1>4. CASE command = NoWork /\ command' = OldCommand(u)
  BY <1>4, OldCommandTypes DEF CommandTrue
<1>. QED BY <1>1, <1>2, <1>3, <1>4

LEMMA OtherRowsKept ==
  ASSUME LadderInv, NEW u \in Users, OnlyAbout(u)
  PROVE  \A v \in Users \ {u} : RowTrue(v)'
<1>1. ASSUME NEW v \in Users \ {u}
      PROVE  RowTrue(v)'
  <2>1. RowTrue(v)
    BY DEF LadderInv
  <2>. QED BY <2>1, RowKept DEF OnlyAbout
<1>. QED BY <1>1

\* The step is about u's row or restriction and settles it.
LEMMA StepAbout ==
  ASSUME LadderInv, TypeOK', NEW u \in Users, OnlyAbout(u), RowTrue(u)',
         command' \in {OldCommand(u), NoWork} \/ CommandTrue',
         \A t \in Tasks : task'[t] \in {OldTasks(u)[t], Idle} \/ CopyTrue(task[t])',
         early' = early \/ StrikesAreEarned'
  PROVE  LadderInv'
<1>1. \A v \in Users : RowTrue(v)'
  BY OtherRowsKept
<1>2. \A t \in Tasks : CopyTrue(task[t])'
  BY TasksKept
<1>3. CommandTrue'
  BY CommandKept
<1>4. StrikesAreEarned'
  BY DEF LadderInv, StrikesAreEarned
<1>. QED BY <1>1, <1>2, <1>3, <1>4 DEF LadderInv

\* The step changes no row, no restriction and nobody else's work.
LEMMA QuietStep ==
  ASSUME LadderInv, TypeOK',
         UNCHANGED <<row, remote, unbanning, button, command, overtaken, erased, warnings, early>>,
         \A t \in Tasks : task'[t] = task[t] \/ CopyTrue(task[t])'
  PROVE  LadderInv'
<1>1. \A v \in Users : RowTrue(v)'
  BY RowKept DEF LadderInv
<1>2. ASSUME NEW t \in Tasks, task'[t] = task[t]
      PROVE  CopyTrue(task[t])'
  <2>1. CopyTrue(task[t])
    BY DEF LadderInv
  <2>2. \A v : Settled(v) => Settled(v)'
    BY DEF Settled
  <2>. QED BY <1>2, <2>1, <2>2, CopyKept
<1>3. CommandTrue' /\ StrikesAreEarned'
  BY DEF LadderInv, CommandTrue, StrikesAreEarned, Given
<1>. QED BY <1>1, <1>2, <1>3 DEF LadderInv

-----------------------------------------------------------------------------
(* Steps of a task *)

\* Steps that write no row and no restriction.
LEMMA TaskStepKeeps ==
  ASSUME LadderInv, TypeOK', NEW t \in Tasks,
         \/ Ignore(t) \/ DecideMobile(t) \/ DecideHome(t)
         \/ ReadTracker(t) \/ Touch(t) \/ WarnOnly(t) \/ WarnedRecently(t)
         \/ Untrack(t) \/ Escalate(t)
  PROVE  LadderInv'
<1>. DEFINE x == task[t]
            u == x.line.user
<1>0. TypeOK /\ CopyTrue(x) /\ RowTrue(u)
  <2>1. x.pc # "idle"
    BY DEF Ignore, DecideMobile, DecideHome, ReadTracker, Touch, WarnOnly, WarnedRecently,
           Untrack, Escalate
  <2>. QED BY <2>1, TaskAt, TaskFields DEF LadderInv
<1>1. x \in Task /\ u \in Users
  BY <1>0, TaskAt, TaskFields DEF Ignore, DecideMobile, DecideHome, ReadTracker, Touch, WarnOnly,
           WarnedRecently, Untrack, Escalate
<1>2. UNCHANGED <<row, remote, unbanning, button, command, overtaken, erased, warnings, early>>
  BY DEF Ignore, DecideMobile, DecideHome, ReadTracker, Touch, WarnOnly, WarnedRecently,
         Untrack, Escalate, dbVars, workVars, historyVars
<1>3. (\A v : Settled(v) => Settled(v)') /\ (overtaken' = overtaken) /\ row' = row
  BY <1>2 DEF Settled
<1>4. ASSUME NEW y \in Task \cup {Idle}, Goto(t, y), CopyTrue(task[t])'
      PROVE  LadderInv'
  <2>1. \A s \in Tasks \ {t} : task'[s] = task[s]
    BY <1>0, <1>4, GotoFacts
  <2>. QED BY <1>2, <1>4, <2>1, QuietStep
<1>5. ASSUME Done(t)
      PROVE  LadderInv'
  <2>1. Goto(t, Idle) /\ task'[t] = Idle
    BY <1>0, <1>5, DoneFacts DEF Done
  <2>2. CopyTrue(task[t])'
    BY <1>0, <2>1, CopyOld
  <2>. QED BY <2>1, <2>2, <1>4
<1>6. CASE DecideHome(t)
  <2>. DEFINE l == x.line
              pc == IF row[l.user].unban > now THEN "banned" ELSE "track"
  <2>1. PICK only \in BOOLEAN :
          Goto(t, [pc |-> pc, line |-> l, at |-> now, seen |-> row[l.user], start |-> None,
                   warningOnly |-> only /\ row[l.user].unban <= now, fresh |-> Settled(l.user)])
    BY <1>6 DEF DecideHome
  <2>. DEFINE y == [pc |-> pc, line |-> l, at |-> now, seen |-> row[l.user], start |-> None,
                    warningOnly |-> only /\ row[l.user].unban <= now, fresh |-> Settled(l.user)]
  <2>2. /\ row[l.user] \in Row /\ now \in Nat /\ Settled(l.user) \in BOOLEAN
        /\ (only /\ row[l.user].unban <= now) \in BOOLEAN /\ pc \in {"banned", "track"}
        /\ l \in Lines /\ row[l.user].unban \in Int
    BY <1>0, <1>1, TaskFields DEF TypeOK, Settled, Row
  <2>3. y \in Task
    BY <2>2, HomeTask
  <2>4. /\ y.pc = pc /\ y.line = l /\ y.fresh = Settled(l.user) /\ y.seen = row[l.user] /\ y.at = now
        /\ Goto(t, y)
    BY <2>1
  <2>5. /\ pc = "banned" => row[l.user].unban # None
        /\ pc = "track" => row[l.user].unban <= now
    BY <2>2 DEF None
  <2>. HIDE DEF y, pc
  <2>6. task'[t] = y
    BY <1>0, <2>3, <2>4, GotoFacts
  <2>7. CopyTrue(task[t])'
    BY <1>3, <2>2, <2>4, <2>5, <2>6 DEF CopyTrue
  <2>. QED BY <1>4, <2>3, <2>4, <2>7
<1>7. ASSUME NEW start \in Int, NEW pc \in {"touch", "act"}, x.pc \in {"track", "touch"},
             Goto(t, [x EXCEPT !.pc = pc, !.start = start])
      PROVE  LadderInv'
  <2>. DEFINE y == [x EXCEPT !.pc = pc]
              z == [y EXCEPT !.start = start]
  <2>1. y \in Task /\ y.pc = pc
    BY <1>1, <1>7, MovedTask
  <2>2. Goto(t, z)
    BY <1>7
  <2>3. z \in Task
    BY <2>1, MovedTask
  <2>4. /\ z.pc = pc /\ z.line = x.line /\ z.fresh = x.fresh /\ z.seen = x.seen /\ z.at = x.at
    <3>1. "pc" \in DOMAIN x
      BY <1>1, <1>7, MovedTask
    <3>. QED BY <3>1
  <2>. HIDE DEF z
  <2>5. task'[t] = z
    BY <1>0, <2>2, <2>3, GotoFacts
  <2>6. CopyTrue(task[t])'
    BY <1>0, <1>3, <1>7, <2>4, <2>5 DEF CopyTrue, Working
  <2>. QED BY <1>4, <2>2, <2>3, <2>6
<1>8. CASE ReadTracker(t)
  <2>. DEFINE start == tracker[x.line.user][x.line.ip].start
  <2>1. start \in Int
    BY <1>0, <1>1, TaskFields, TrackerTypes, CoreBotAssumption
  <2>2. x.pc = "track" /\ Goto(t, [x EXCEPT !.pc = "touch", !.start = start])
    BY <1>8 DEF ReadTracker
  <2>. HIDE DEF start
  <2>. QED BY <1>7, <2>1, <2>2
<1>9. CASE Touch(t)
  <2>1. x.pc = "touch" /\ (Done(t) \/ Goto(t, [x EXCEPT !.pc = "act", !.start = None]))
    BY <1>9 DEF Touch
  <2>2. None \in Int
    BY DEF None
  <2>. QED BY <1>5, <1>7, <2>1, <2>2
<1>10. CASE Escalate(t)
  <2>. DEFINE z == [x EXCEPT !.pc = "strike"]
  <2>1. x.pc = "act" /\ WarningsUsedUp(x) /\ Goto(t, z)
    BY <1>10 DEF Escalate
  <2>2. z \in Task /\ z.pc = "strike"
    BY <1>1, <2>1, MovedTask
  <2>3. z.line = x.line /\ z.fresh = x.fresh /\ z.seen = x.seen /\ z.at = x.at
    OBVIOUS
  <2>4. x.seen.warned # None /\ x.seen.count >= WarningsBeforeBan
    <3>1. x.seen.count \in Nat
      BY <1>1, <2>1, TaskFields DEF Working, Row
    <3>2. x.seen.warned # None /\ x.seen.count + 1 > WarningsBeforeBan
      BY <2>1 DEF WarningsUsedUp
    <3>3. WarningsBeforeBan \in Nat
      BY CoreBotAssumption
    <3>. HIDE DEF x, z
    <3>. QED BY <3>1, <3>2, <3>3
  <2>. HIDE DEF z
  <2>5. task'[t] = z
    BY <1>0, <2>1, <2>2, GotoFacts
  <2>6. CopyTrue(task[t])'
    BY <1>0, <1>3, <2>1, <2>2, <2>3, <2>4, <2>5 DEF CopyTrue, Working
  <2>. QED BY <1>4, <2>1, <2>2, <2>6
<1>11. CASE Ignore(t) \/ DecideMobile(t) \/ WarnOnly(t) \/ WarnedRecently(t) \/ Untrack(t)
  BY <1>5, <1>11 DEF Ignore, DecideMobile, WarnOnly, WarnedRecently, Untrack
<1>. QED BY <1>6, <1>8, <1>9, <1>10, <1>11

\* A restriction of the row that is there is applied.
LEMMA ApplyKeeps ==
  ASSUME LadderInv, TypeOK', NEW u \in Users, NEW seen \in Row, NEW fresh \in BOOLEAN,
         CallRemote(u, Restricted(remote[u], seen.mode), fresh),
         fresh /\ Given(u) => /\ seen = row[u] /\ seen.unban # None
                              /\ unbanning[u].pc # "restored"
                              /\ command' # NoWork /\ command'.user = u => command'.pc # "restored",
         UNCHANGED <<row, unbanning, erased, warnings, early>>,
         button' = button \/ button' = [button EXCEPT ![u] = NoButton],
         command' = command \/ command' = NoWork,
         \A t \in Tasks : task'[t] \in {task[t], Idle}
  PROVE  LadderInv'
<1>. TypeOK /\ RowTrue(u) /\ CommandTrue
  BY DEF LadderInv
<1>1. remote[u] \in SUBSET Restrictions /\ seen.mode \in Modes
  BY DEF TypeOK, Row
<1>2. /\ remote'[u] = Restricted(remote[u], seen.mode)
      /\ overtaken'[u] = (overtaken[u] \/ ~fresh)
      /\ \A v \in Users \ {u} : remote'[v] = remote[v] /\ overtaken'[v] = overtaken[v]
  <2>1. Restricted(remote[u], seen.mode) \in SUBSET Restrictions
    BY <1>1, RemoteTypes
  <2>. QED BY <2>1, CallRemoteFacts
<1>3. \A v \in Users : Settled(v) => Settled(v)'
  BY DEF Settled
<1>4. \A v \in Users \ {u} : button'[v] = button[v]
  BY DEF TypeOK
<1>5. button'[u] \in {button[u], NoButton}
  BY DEF TypeOK
<1>6. OnlyAbout(u)
  BY <1>2, <1>3, <1>4 DEF OnlyAbout
<1>7. Given(u)' => fresh /\ Given(u)
  BY <1>2 DEF Given, TypeOK
<1>8. RowTrue(u)'
  <2>1. ASSUME Given(u)'
        PROVE  /\ (row[u].unban # None)' /\ remote'[u] \subseteq Effect(row[u].mode)
               /\ unbanning'[u].pc # "restored"
    <3>1. seen = row[u] /\ seen.unban # None /\ unbanning[u].pc # "restored"
      BY <1>7, <2>1
    <3>2. remote[u] \subseteq Effect(seen.mode)
      BY <1>7, <2>1, <3>1 DEF RowTrue
    <3>. QED BY <1>1, <1>2, <3>1, <3>2, RestrictionEffect
  <2>2. ~overtaken'[u] => ~overtaken[u]
    BY <1>2 DEF TypeOK
  <2>. QED BY <2>1, <2>2 DEF RowTrue
<1>9. CommandTrue'
  <2>1. CASE command' # NoWork /\ command'.user # u
    <3>1. command' = command /\ command.user \in Users \ {u}
      BY <2>1, CommandAt
    <3>. QED BY <1>2, <3>1 DEF CommandTrue, Given
  <2>2. CASE command' # NoWork /\ command'.user = u
    <3>1. command' = command /\ (Given(u)' => Given(u) /\ command.pc # "restored")
      BY <1>7, <2>2
    <3>2. ~overtaken'[u] => ~overtaken[u]
      BY <1>2 DEF TypeOK
    <3>. QED BY <2>2, <3>1, <3>2 DEF CommandTrue
  <2>. QED BY <2>1, <2>2 DEF CommandTrue
<1>10. ASSUME NEW t \in Tasks
       PROVE  CopyTrue(task[t])'
  <2>1. CASE task'[t] = Idle
    BY <2>1, CopyOld
  <2>2. CASE task'[t] = task[t] /\ task[t] # Idle
    <3>1. task[t].line.user \in Users /\ CopyTrue(task[t])
      BY <2>2, TaskFields DEF TypeOK, LadderInv
    <3>2. overtaken[task[t].line.user] => overtaken'[task[t].line.user]
      BY <1>2, <3>1
    <3>. QED BY <1>3, <2>2, <3>1, <3>2, CopyKept
  <2>. QED BY <2>1, <2>2
<1>. QED BY <1>6, <1>8, <1>9, <1>10, StepAbout

LEMMA RestrictKeeps ==
  ASSUME LadderInv, TypeOK', NEW t \in Tasks, Reapply(t) \/ RestrictUser(t)
  PROVE  LadderInv'
<1>. DEFINE x == task[t]
            u == x.line.user
<1>0. TypeOK /\ CopyTrue(x) /\ x.pc \in {"banned", "restrict"} /\ Done(t)
  BY DEF LadderInv, Reapply, RestrictUser
<1>1. x \in Task
  BY <1>0, TaskAt
<1>2. u \in Users /\ x.seen \in Row /\ x.fresh \in BOOLEAN
  BY <1>0, <1>1, TaskFields DEF Working
<1>3. UNCHANGED <<row, unbanning, erased, warnings, early, button, command>>
  BY DEF Reapply, RestrictUser, dbVars, workVars
<1>4. task'[t] = Idle /\ \A s \in Tasks \ {t} : task'[s] = task[s]
  BY <1>0, DoneFacts
<1>5. CASE UNCHANGED <<remote, overtaken>>
  <2>1. CopyTrue(task[t])'
    BY <1>0, <1>4, CopyOld
  <2>. QED BY <1>3, <1>4, <1>5, <2>1, QuietStep
<1>6. CASE CallRemote(u, Restricted(remote[u], x.seen.mode), x.fresh)
  <2>1. x.fresh /\ Given(u) => /\ x.seen = row[u] /\ x.seen.unban # None /\ Settled(u)
    BY <1>0 DEF CopyTrue, Given, Working
  <2>2. x.fresh /\ Given(u) => /\ x.seen = row[u] /\ x.seen.unban # None
                               /\ unbanning[u].pc # "restored"
                               /\ command' # NoWork /\ command'.user = u => command'.pc # "restored"
    BY <1>3, <2>1 DEF Settled
  <2>3. \A s \in Tasks : task'[s] \in {task[s], Idle}
    BY <1>4
  <2>. HIDE DEF u, x
  <2>. QED BY <1>2, <1>3, <1>6, <2>2, <2>3, ApplyKeeps
<1>. QED BY <1>5, <1>6 DEF Reapply, RestrictUser

\* A row without an end is written: where that takes an end away, it is known.
LEMMA EndlessRow ==
  ASSUME LadderInv, NEW u \in Users, remote'[u] = remote[u], row'[u].unban = None,
         Given(u)' => Given(u) /\ (row[u].unban = None \/ remote[u] = {}),
         button'[u] # "new",
         unbanning'[u].pc \in {"due", "restored"} => ~unbanning'[u].fresh,
         ~overtaken'[u] /\ row'[u].warned # None => row'[u].count <= warnings'[u]
  PROVE  RowTrue(u)'
<1>. RowTrue(u)
  BY DEF LadderInv
<1>1. Given(u)' => remote'[u] = {}
  BY DEF RowTrue
<1>. QED BY <1>1 DEF RowTrue

LEMMA OtherButtons ==
  ASSUME TypeOK, NEW u \in Users, NEW b
  PROVE  [button EXCEPT ![u] = b][u] = b /\ \A v \in Users \ {u} : [button EXCEPT ![u] = b][v] = button[v]
BY DEF TypeOK

LEMMA OtherWarnings ==
  ASSUME TypeOK, NEW u \in Users, NEW n
  PROVE  [warnings EXCEPT ![u] = n][u] = n /\ \A v \in Users \ {u} : [warnings EXCEPT ![u] = n][v] = warnings[v]
BY DEF TypeOK

LEMMA WarnKeeps ==
  ASSUME LadderInv, TypeOK', NEW t \in Tasks, Warn(t)
  PROVE  LadderInv'
<1>. DEFINE x == task[t]
<1>. PICK u : u = x.line.user
  OBVIOUS
<1>. DEFINE count == IF x.seen.warned = None THEN 1 ELSE x.seen.count + 1
            r == WarningRow(x.seen.strikes, count, x.at)
<1>0. TypeOK /\ CopyTrue(x)
  BY DEF LadderInv
<1>1. x.pc = "act" /\ x \in Task
  BY <1>0, TaskAt DEF Warn
<1>2. x.line \in Lines /\ u \in Users /\ x.seen \in Row /\ x.fresh \in BOOLEAN /\ x.at \in Nat
  BY <1>1, TaskFields DEF Working
<1>3. x.seen.strikes \in Nat /\ count \in Nat /\ x.seen.count \in Nat /\ warnings[u] \in Nat
  BY <1>0, <1>2 DEF Row, TypeOK
<1>4. r \in Row /\ r.unban = None /\ r.count = count
  <2>1. \A strikes \in Nat, c \in Nat, at \in Nat :
          LET w == WarningRow(strikes, c, at) IN w \in Row /\ w.unban = None /\ w.count = c
    BY RowTypes
  <2>2. x.seen.strikes \in Nat /\ count \in Nat /\ x.at \in Nat
    BY <1>2, <1>3
  <2>. HIDE DEF count
  <2>. QED BY <2>1, <2>2
<1>5. /\ WriteRow(u, r, x.fresh) /\ Erase(u, r) /\ OthersOld(u)
      /\ warnings' = [warnings EXCEPT ![u] = warnings[u] + 1]
      /\ UNCHANGED <<remote, early>>
  BY DEF Warn
<1>6. \/ task' = [OldTasks(u) EXCEPT ![t] = Idle]
      \/ task' = [OldTasks(u) EXCEPT ![t] = [pc |-> "untrack", line |-> x.line]]
  BY DEF Warn
<1>7. x.fresh => x.seen = row[u]
  BY <1>0, <1>1 DEF CopyTrue, Working
<1>. DEFINE n == warnings[u] + 1
<1>8. x.fresh /\ ~overtaken[u] => count <= n
  <2>1. RowTrue(u)
    BY <1>2 DEF LadderInv
  <2>. QED BY <1>3, <1>7, <2>1 DEF RowTrue
<1>. HIDE DEF r, count
<1>9. /\ row'[u] = r /\ overtaken'[u] = (overtaken[u] \/ ~x.fresh)
      /\ erased'[u] = (erased[u] \/ (row[u].unban # None /\ r.unban # row[u].unban))
      /\ \A v \in Users \ {u} : row'[v] = row[v] /\ overtaken'[v] = overtaken[v] /\ erased'[v] = erased[v]
  BY <1>0, <1>2, <1>4, <1>5, WriteRowFacts, EraseFacts
<1>10. /\ unbanning' = OldUnbanning(u) /\ button' = OldButton(u) /\ command' = OldCommand(u)
  BY <1>5 DEF OthersOld
<1>11. /\ unbanning'[u].pc \in {"due", "restored"} => ~unbanning'[u].fresh
       /\ \A v \in Users \ {u} : unbanning'[v] = unbanning[v] /\ button'[v] = button[v]
       /\ button'[u] # "new"
  BY <1>0, <1>2, <1>10, OldWorkTypes
<1>12. warnings'[u] = n /\ \A v \in Users \ {u} : warnings'[v] = warnings[v]
  BY <1>0, <1>2, <1>3, <1>5 DEF TypeOK
<1>13. OnlyAbout(u)
  <2>1. \A v \in Users \ {u} : Settled(v) => Settled(v)'
    BY <1>0, <1>2, <1>10, <1>11, SettledKept
  <2>. QED BY <1>5, <1>9, <1>11, <1>12, <2>1 DEF OnlyAbout
<1>14. RowTrue(u)'
  <2>0. overtaken[u] \in BOOLEAN /\ erased[u] \in BOOLEAN
    BY <1>0, <1>2 DEF TypeOK
  <2>1. Given(u)' => Given(u) /\ row[u].unban = None
    BY <1>2, <1>4, <1>9, <2>0 DEF Given
  <2>2. ~overtaken'[u] => row'[u].count <= warnings'[u]
    BY <1>2, <1>4, <1>8, <1>9, <1>12, <2>0
  <2>3. remote'[u] = remote[u] /\ row'[u].unban = None
    BY <1>4, <1>5, <1>9
  <2>. QED BY <1>2, <1>11, <2>1, <2>2, <2>3, EndlessRow
<1>15. ASSUME NEW s \in Tasks
       PROVE  task'[s] \in {OldTasks(u)[s], Idle} \/ CopyTrue(task[s])'
  <2>1. CASE s # t
    BY <1>0, <1>2, <1>6, <2>1, OldTasksTypes
  <2>2. CASE task'[t] = Idle /\ s = t
    BY <2>2
  <2>3. CASE task'[t] = [pc |-> "untrack", line |-> x.line] /\ s = t
    BY <2>3 DEF CopyTrue, Working
  <2>. QED BY <1>0, <1>2, <1>6, <2>1, <2>2, <2>3, OldTasksTypes
<1>16. command' \in {OldCommand(u), NoWork} /\ early' = early
  BY <1>5, <1>10
<1>. QED BY <1>2, <1>13, <1>14, <1>15, <1>16, StepAbout

LEMMA StrikeKeeps ==
  ASSUME LadderInv, TypeOK', NEW t \in Tasks, NEW mode \in StrikeModes, NEW approval \in Approvals,
         Strike(t, mode, approval)
  PROVE  LadderInv'
<1>. DEFINE x == task[t]
<1>. PICK u : u = x.line.user
  OBVIOUS
<1>. PICK r : r = StrikeRow(Strikes(x), mode, x.at)
  OBVIOUS
<1>0. TypeOK /\ CopyTrue(x)
  BY DEF LadderInv
<1>1. x.pc = "strike" /\ x \in Task
  BY <1>0, TaskAt DEF Strike
<1>2. x.line \in Lines /\ u \in Users /\ x.seen \in Row /\ x.fresh \in BOOLEAN /\ x.at \in Nat
  BY <1>1, TaskFields DEF Working
<1>3. /\ warnings[u] \in Nat /\ overtaken[u] \in BOOLEAN /\ erased[u] \in BOOLEAN
      /\ row[u] \in Row /\ row[u].unban \in Int /\ mode \in Modes
  BY ZenonT(60), <1>0, <1>2, CoreBotAssumption DEF Row, TypeOK, Modes
<1>4. r \in Row /\ r.unban > x.at /\ r.unban # None /\ r.warned = None
  BY <1>2, <1>3, StrikeRowTypes
<1>5. /\ WriteRow(u, r, x.fresh) /\ Erase(u, r)
      /\ warnings' = [warnings EXCEPT ![u] = 0]
      /\ early' = [early EXCEPT ![u] = early[u] \/ (x.fresh /\ ~overtaken[u] /\ warnings[u] < WarningsBeforeBan)]
      /\ remote' = remote
      /\ unbanning' = OldUnbanning(u) /\ command' = OldCommand(u)
      /\ button' = [button EXCEPT ![u] = "new"] \/ button' = OldButton(u)
  BY DEF Strike
<1>6. \/ task' = [OldTasks(u) EXCEPT ![t] = Idle]
      \/ task' = [OldTasks(u) EXCEPT ![t] = [pc |-> "restrict", line |-> x.line, seen |-> r, fresh |-> TRUE]]
  BY DEF Strike
\* A fresh copy is the row that is overwritten, its restriction has ended, and it has its warnings.
<1>7. x.fresh => /\ row[u].unban <= x.at
                 /\ ~overtaken[u] => Settled(u) /\ warnings[u] >= WarningsBeforeBan
  <2>1. x.fresh => /\ x.seen = row[u] /\ x.seen.unban <= x.at /\ x.seen.warned # None
                   /\ x.seen.count >= WarningsBeforeBan
                   /\ ~overtaken[u] => Settled(u)
    BY <1>0, <1>1 DEF CopyTrue, Working
  <2>2. RowTrue(u) /\ row[u].count \in Nat
    BY <1>2, <1>3 DEF LadderInv, Row
  <2>3. WarningsBeforeBan \in Nat
    BY CoreBotAssumption
  <2>. QED BY <1>3, <2>1, <2>2, <2>3 DEF RowTrue
<1>8. /\ row'[u] = r /\ overtaken'[u] = (overtaken[u] \/ ~x.fresh)
      /\ erased'[u] = (erased[u] \/ (row[u].unban # None /\ r.unban # row[u].unban))
      /\ \A v \in Users \ {u} : row'[v] = row[v] /\ overtaken'[v] = overtaken[v] /\ erased'[v] = erased[v]
  BY <1>0, <1>2, <1>4, <1>5, WriteRowFacts, EraseFacts
<1>9. /\ unbanning'[u].pc \in {"due", "restored"} => ~unbanning'[u].fresh
      /\ unbanning'[u].pc = unbanning[u].pc
      /\ \A v \in Users \ {u} : unbanning'[v] = unbanning[v] /\ button'[v] = button[v]
  <2>1. \A v \in Users \ {u} : button'[v] = button[v]
    <3>1. CASE button' = [button EXCEPT ![u] = "new"]
      BY <1>0, <1>2, <3>1 DEF TypeOK
    <3>2. CASE button' = OldButton(u)
      BY <1>0, <1>2, <3>2, OldWorkTypes
    <3>. QED BY <1>5, <3>1, <3>2
  <2>2. OldUnbanning(u)[u].pc = unbanning[u].pc
    BY <1>0, <1>2, OldWorkTypes
  <2>. QED BY <1>0, <1>2, <1>5, <2>1, <2>2, OldWorkTypes
<1>10. \A v \in Users \ {u} : warnings'[v] = warnings[v]
  BY <1>0, <1>2, <1>5 DEF TypeOK
<1>11. \A v \in Users : Settled(v) => Settled(v)'
  BY <1>0, <1>2, <1>5, <1>9, SettledKept
<1>12. OnlyAbout(u)
  BY <1>5, <1>8, <1>9, <1>10, <1>11 DEF OnlyAbout
<1>13. RowTrue(u)'
  <2>0. x.fresh => r.unban # row[u].unban
    BY <1>2, <1>3, <1>4, <1>7
  <2>1. Given(u)' => Given(u) /\ row[u].unban = None
    <3>1. ~overtaken'[u] => ~overtaken[u] /\ x.fresh
      BY <1>2, <1>3, <1>8
    <3>2. ~erased'[u] => ~erased[u] /\ (row[u].unban = None \/ r.unban = row[u].unban)
      BY <1>2, <1>3, <1>8
    <3>. QED BY <2>0, <3>1, <3>2 DEF Given
  <2>2. Given(u)' => remote'[u] = {}
    <3>1. RowTrue(u)
      BY <1>2 DEF LadderInv
    <3>. QED BY <1>5, <2>1, <3>1 DEF RowTrue
  <2>3. row'[u].unban # None /\ row'[u].warned = None
    BY <1>4, <1>8
  <2>. QED BY <1>9, <2>2, <2>3 DEF RowTrue
<1>14. ASSUME NEW s \in Tasks
       PROVE  task'[s] \in {OldTasks(u)[s], Idle} \/ CopyTrue(task[s])'
  <2>0. OldTasks(u) \in [Tasks -> Task \cup {Idle}]
    BY <1>0, <1>2, OldTasksTypes
  <2>1. CASE s # t
    <3>. HIDE DEF x
    <3>1. PICK z : task' = [OldTasks(u) EXCEPT ![t] = z]
      BY <1>6
    <3>2. task'[s] = OldTasks(u)[s]
      BY <2>0, <2>1, <3>1
    <3>. QED BY <3>2
  <2>. DEFINE y == [pc |-> "restrict", line |-> x.line, seen |-> r, fresh |-> TRUE]
  <2>2. CASE s = t /\ task' = [OldTasks(u) EXCEPT ![t] = y]
    <3>1. y.pc = "restrict" /\ y.line.user = u /\ y.seen = r
      OBVIOUS
    <3>. HIDE DEF y
    <3>2. task'[s] = y
      BY <2>0, <2>2
    <3>3. ~overtaken'[u] => Settled(u)'
      BY <1>2, <1>3, <1>7, <1>8, <1>11
    <3>. QED BY <1>4, <1>8, <3>1, <3>2, <3>3 DEF CopyTrue
  <2>3. CASE s = t /\ task' = [OldTasks(u) EXCEPT ![t] = Idle]
    BY <2>0, <2>3
  <2>. QED BY <1>6, <2>1, <2>2, <2>3
<1>15. StrikesAreEarned'
  <2>1. ~(x.fresh /\ ~overtaken[u] /\ warnings[u] < WarningsBeforeBan)
    BY SMTT(30), <1>3, <1>7, CoreBotAssumption
  <2>2. \A v \in Users : ~early[v]
    BY DEF LadderInv, StrikesAreEarned
  <2>3. early' = [early EXCEPT ![u] = early[u] \/ FALSE]
    BY <1>5, <2>1
  <2>. QED BY <1>0, <1>2, <2>2, <2>3 DEF TypeOK, StrikesAreEarned
<1>16. command' \in {OldCommand(u), NoWork}
  BY <1>5
<1>. QED BY <1>2, <1>12, <1>13, <1>14, <1>15, <1>16, StepAbout

-----------------------------------------------------------------------------
(* Steps of the unbanner and of forgiveness *)

LEMMA UnbanScanKeeps ==
  ASSUME LadderInv, TypeOK', UnbanScan
  PROVE  LadderInv'
<1>. TypeOK
  BY DEF LadderInv
<1>1. /\ \A v \in Users : unbanning[v] = NoWork
      /\ unbanning' = [v \in Users |-> IF Ended(v)
                         THEN [pc |-> "due", mode |-> row[v].mode, fresh |-> TRUE] ELSE NoWork]
      /\ UNCHANGED <<row, remote, task, button, command, overtaken, erased, warnings, early>>
  BY DEF UnbanScan, dbVars, taskVars, historyVars
<1>2. \A v \in Users : unbanning'[v].pc \in {"due", "none"}
                       /\ (unbanning'[v].pc = "due" => unbanning'[v].mode = row[v].mode)
  BY <1>1 DEF NoWork
<1>3. ASSUME NEW v \in Users
      PROVE  RowTrue(v)' /\ (Settled(v) => Settled(v)')
  <2>1. RowTrue(v)
    BY DEF LadderInv
  <2>2. RowTrue(v)'
    BY <1>1, <1>2, <2>1 DEF RowTrue, Given
  <2>. QED BY <1>1, <1>2, <2>2 DEF Settled
<1>4. ASSUME NEW t \in Tasks
      PROVE  CopyTrue(task[t])'
  <2>1. CASE task[t] = Idle
    BY <1>1, <2>1, CopyOld
  <2>2. CASE task[t] # Idle
    <3>1. task[t].line.user \in Users /\ CopyTrue(task[t])
      BY <2>2, TaskFields DEF TypeOK, LadderInv
    <3>. QED BY <1>1, <1>3, <3>1, CopyKept
  <2>. QED BY <2>1, <2>2
<1>5. CommandTrue'
  <2>1. CommandTrue /\ (command # NoWork => command.user \in Users)
    BY CommandAt DEF LadderInv
  <2>2. command # NoWork => unbanning'[command.user].pc # "restored"
    BY <1>2, <2>1
  <2>. QED BY <1>1, <2>1, <2>2 DEF CommandTrue, Given
<1>6. StrikesAreEarned'
  BY <1>1 DEF LadderInv, StrikesAreEarned
<1>. QED BY <1>3, <1>4, <1>5, <1>6 DEF LadderInv

LEMMA UnbanRestoreKeeps ==
  ASSUME LadderInv, TypeOK', NEW u \in Users, UnbanRestore(u)
  PROVE  LadderInv'
<1>. TypeOK /\ RowTrue(u) /\ CommandTrue
  BY DEF LadderInv
<1>1. /\ unbanning[u].pc = "due"
      /\ UNCHANGED <<row, button, erased, warnings, early>>
  BY DEF UnbanRestore, dbVars
<1>2. unbanning[u] \in UnbanWork /\ row[u] \in Row /\ overtaken[u] \in BOOLEAN
  BY <1>1, OldWork DEF TypeOK
<1>3. /\ unbanning[u].mode \in Modes /\ unbanning[u].fresh \in BOOLEAN
      /\ remote[u] \in SUBSET Restrictions
  BY <1>2 DEF UnbanWork, TypeOK
<1>4. CASE UnbanRestored(u)
  <2>1. Restored(remote[u], unbanning[u].mode) \in SUBSET Restrictions
    BY <1>3, RemoteTypes
  <2>2. /\ remote'[u] = Restored(remote[u], unbanning[u].mode)
        /\ overtaken'[u] = (overtaken[u] \/ ~unbanning[u].fresh)
        /\ \A v \in Users \ {u} : remote'[v] = remote[v] /\ overtaken'[v] = overtaken[v]
    BY <1>3, <1>4, <2>1, CallRemoteFacts DEF UnbanRestored
  <2>3. /\ \A v \in Users \ {u} : unbanning'[v] = unbanning[v]
        /\ unbanning'[u].mode = unbanning[u].mode /\ unbanning'[u].fresh = unbanning[u].fresh
        /\ unbanning' \in [Users -> UnbanWork \cup {NoWork}]
    BY <1>2, <1>4 DEF UnbanRestored, TypeOK, UnbanWork
  <2>4. task' = OldTasks(u) /\ command' = OldCommand(u)
    BY <1>4 DEF UnbanRestored
  <2>5. \A v \in Users \ {u} : Settled(v) => Settled(v)'
    BY <2>3, <2>4, SettledKept
  <2>6. OnlyAbout(u)
    BY <1>1, <2>2, <2>3, <2>5 DEF OnlyAbout
  <2>7. Given(u)' => remote'[u] = {}
    <3>1. Given(u)' => Given(u) /\ unbanning[u].fresh
      BY <1>1, <1>2, <1>3, <2>2 DEF Given
    <3>2. Given(u) /\ unbanning[u].fresh => remote[u] \subseteq Effect(unbanning[u].mode)
      BY <1>1 DEF RowTrue
    <3>. QED BY <1>3, <2>2, <3>1, <3>2, RestrictionEffect
  <2>8. RowTrue(u)'
    <3>1. Given(u)' => Given(u)
      BY <1>1, <1>2, <1>3, <2>2 DEF Given
    <3>2. ~overtaken'[u] => ~overtaken[u]
      BY <1>2, <1>3, <2>2
    <3>. QED BY <1>1, <2>3, <2>7, <3>1, <3>2 DEF RowTrue
  <2>9. \A t \in Tasks : task'[t] \in {OldTasks(u)[t], Idle} \/ CopyTrue(task[t])'
    BY <2>4
  <2>. QED BY <1>1, <2>4, <2>6, <2>8, <2>9, StepAbout
<1>5. CASE unbanning' = [unbanning EXCEPT ![u] = NoWork] /\ UNCHANGED <<remote, overtaken, task, command>>
  <2>1. unbanning'[u] = NoWork /\ \A v \in Users \ {u} : unbanning'[v] = unbanning[v]
    BY <1>5 DEF TypeOK
  <2>2. ASSUME NEW v \in Users
        PROVE  RowTrue(v)' /\ (Settled(v) => Settled(v)')
    <3>1. RowTrue(v)
      BY DEF LadderInv
    <3>2. RowTrue(v)'
      BY <1>1, <1>5, <2>1, <3>1, RowKept
    <3>. QED BY <1>5, <2>1, <3>2, OldWork DEF Settled
  <2>3. ASSUME NEW t \in Tasks
        PROVE  CopyTrue(task[t])'
    <3>1. CASE task[t] = Idle
      BY <1>5, <3>1, CopyOld
    <3>2. CASE task[t] # Idle
      <4>1. task[t].line.user \in Users /\ CopyTrue(task[t])
        BY <3>2, TaskFields DEF TypeOK, LadderInv
      <4>. QED BY <1>1, <1>5, <2>2, <4>1, CopyKept
    <3>. QED BY <3>1, <3>2
  <2>4. CommandTrue'
    <3>1. command # NoWork => command.user \in Users
      BY CommandAt
    <3>2. command # NoWork /\ unbanning[command.user].pc # "restored"
            => unbanning'[command.user].pc # "restored"
      BY <2>1, <3>1, OldWork
    <3>. QED BY <1>1, <1>5, <3>1, <3>2 DEF CommandTrue, Given
  <2>5. StrikesAreEarned'
    BY <1>1 DEF LadderInv, StrikesAreEarned
  <2>. QED BY <2>2, <2>3, <2>4, <2>5 DEF LadderInv
<1>. QED BY <1>4, <1>5 DEF UnbanRestore

LEMMA UnbanClearKeeps ==
  ASSUME LadderInv, TypeOK', NEW u \in Users, UnbanClear(u)
  PROVE  LadderInv'
<1>. TypeOK /\ RowTrue(u)
  BY DEF LadderInv
<1>. PICK r : r = [row[u] EXCEPT !.unban = None]
  OBVIOUS
<1>. DEFINE fresh == unbanning[u].fresh
<1>1. /\ unbanning[u].pc \in {"due", "restored"}
      /\ unbanning' = [unbanning EXCEPT ![u] = NoWork]
      /\ task' = OldTasks(u) /\ button' = OldButton(u) /\ command' = OldCommand(u)
      /\ remote' = remote /\ warnings' = warnings /\ early' = early
      /\ \/ unbanning[u].pc = "restored" /\ erased' = erased
         \/ Erase(u, r)
      /\ WriteRow(u, r, fresh) \/ UNCHANGED <<row, overtaken>>
  BY DEF UnbanClear
<1>2. /\ unbanning[u] \in UnbanWork /\ row[u] \in Row /\ overtaken[u] \in BOOLEAN
      /\ erased[u] \in BOOLEAN /\ fresh \in BOOLEAN
  BY <1>1, OldWork DEF TypeOK
<1>3. r \in Row /\ r.unban = None /\ r.mode = row[u].mode /\ r.warned = row[u].warned /\ r.count = row[u].count
  BY <1>2, OtherRowTypes DEF Row
<1>4. unbanning'[u] = NoWork /\ \A v \in Users \ {u} : unbanning'[v] = unbanning[v]
  BY <1>1 DEF TypeOK
<1>5. /\ \A v \in Users \ {u} : row'[v] = row[v] /\ overtaken'[v] = overtaken[v]
      /\ \/ row'[u] = r /\ overtaken'[u] = (overtaken[u] \/ ~fresh)
         \/ row' = row /\ overtaken' = overtaken
  <2>. HIDE DEF fresh
  <2>. QED BY <1>1, <1>2, <1>3, WriteRowFacts
<1>6. /\ \A v \in Users \ {u} : erased'[v] = erased[v]
      /\ \/ unbanning[u].pc = "restored" /\ erased'[u] = erased[u]
         \/ erased'[u] = (erased[u] \/ (row[u].unban # None /\ r.unban # row[u].unban))
  BY <1>1, <1>3, EraseFacts
<1>7. /\ \A v \in Users \ {u} : button'[v] = button[v]
      /\ button'[u] # "new"
  BY <1>1, OldWorkTypes
<1>8. \A v \in Users \ {u} : Settled(v) => Settled(v)'
  BY <1>1, <1>4, SettledKept
<1>9. OnlyAbout(u)
  BY <1>1, <1>4, <1>5, <1>6, <1>7, <1>8 DEF OnlyAbout
<1>10. RowTrue(u)'
  <2>1. ~erased'[u] => ~erased[u] /\ (unbanning[u].pc = "restored" \/ row[u].unban = None)
    BY <1>2, <1>3, <1>6
  <2>2. ~overtaken'[u] => ~overtaken[u]
    BY <1>2, <1>5
  <2>3. CASE row'[u] = r /\ overtaken'[u] = (overtaken[u] \/ ~fresh)
    <3>1. ~overtaken'[u] => fresh
      BY <1>2, <2>3
    <3>2. Given(u)' => Given(u) /\ (row[u].unban = None \/ remote[u] = {})
      BY <2>1, <2>2, <3>1 DEF Given, RowTrue
    <3>3. ~overtaken'[u] /\ row'[u].warned # None => row'[u].count <= warnings'[u]
      BY <1>1, <1>3, <2>2, <2>3 DEF RowTrue
    <3>4. row'[u].unban = None /\ unbanning'[u].pc = "none"
      BY <1>3, <1>4, <2>3, OldWork
    <3>. QED BY <1>1, <1>7, <3>2, <3>3, <3>4, EndlessRow
  <2>4. CASE row' = row /\ overtaken' = overtaken
    <3>1. Given(u)' => Given(u)
      BY <2>1, <2>2 DEF Given
    <3>2. unbanning'[u].pc = "none"
      BY <1>4, OldWork
    <3>. QED BY <1>1, <1>7, <2>4, <3>1, <3>2 DEF RowTrue
  <2>. QED BY <1>5, <2>3, <2>4
<1>11. \A t \in Tasks : task'[t] \in {OldTasks(u)[t], Idle} \/ CopyTrue(task[t])'
  BY <1>1
<1>. QED BY <1>1, <1>9, <1>10, <1>11, StepAbout

\* A strike that is taken back leaves the restriction and the warnings of the row.
LEMMA ForgivenKeeps ==
  ASSUME LadderInv, TypeOK', NEW u \in Users, NEW strikes \in Nat, NEW at \in Nat, NEW fresh \in BOOLEAN,
         \/ WriteRow(u, [row[u] EXCEPT !.strikes = strikes, !.forgiven = at], fresh)
         \/ UNCHANGED <<row, overtaken>>,
         UNCHANGED <<remote, unbanning, button, erased, warnings, early>>,
         command' \in {OldCommand(u), NoWork}, task' = OldTasks(u)
  PROVE  LadderInv'
<1>. TypeOK /\ RowTrue(u)
  BY DEF LadderInv
<1>. PICK r : r = [row[u] EXCEPT !.strikes = strikes, !.forgiven = at]
  OBVIOUS
<1>1. row[u] \in Row /\ overtaken[u] \in BOOLEAN
  BY DEF TypeOK
<1>2. r \in Row /\ r.unban = row[u].unban /\ r.mode = row[u].mode /\ r.warned = row[u].warned /\ r.count = row[u].count
  BY <1>1, OtherRowTypes DEF Row
<1>3. /\ \A v \in Users \ {u} : row'[v] = row[v] /\ overtaken'[v] = overtaken[v]
      /\ row'[u] \in {r, row[u]} /\ (~overtaken'[u] => ~overtaken[u])
  BY <1>1, <1>2, WriteRowFacts
<1>4. \A v \in Users : Settled(v) => Settled(v)'
  BY SettledKept
<1>5. OnlyAbout(u)
  BY <1>3, <1>4 DEF OnlyAbout
<1>6. RowTrue(u)'
  <2>1. /\ row'[u].unban = row[u].unban /\ row'[u].mode = row[u].mode
        /\ row'[u].warned = row[u].warned /\ row'[u].count = row[u].count
    BY <1>2, <1>3
  <2>. QED BY <1>3, <2>1 DEF RowTrue, Given
<1>7. \A t \in Tasks : task'[t] \in {OldTasks(u)[t], Idle} \/ CopyTrue(task[t])'
  OBVIOUS
<1>. QED BY <1>5, <1>6, <1>7, StepAbout

LEMMA ForgiveKeeps ==
  ASSUME LadderInv, TypeOK', NEW u \in Users, Forgive(u)
  PROVE  LadderInv'
<1>. TypeOK
  BY DEF LadderInv
<1>1. forgiving[u] \in ForgiveWork
  BY OldWork DEF Forgive, TypeOK
<1>. PICK strikes, at, fresh : strikes = forgiving[u].strikes - 1 /\ at = forgiving[u].at /\ fresh = forgiving[u].fresh
  OBVIOUS
<1>2. strikes \in Nat /\ at \in Nat /\ fresh \in BOOLEAN
  BY <1>1 DEF ForgiveWork
<1>3. /\ \/ WriteRow(u, [row[u] EXCEPT !.strikes = strikes, !.forgiven = at], fresh)
         \/ UNCHANGED <<row, overtaken>>
      /\ UNCHANGED <<remote, unbanning, button, erased, warnings, early>>
      /\ command' = OldCommand(u) /\ task' = OldTasks(u)
  BY DEF Forgive, Forgiven
<1>. QED BY <1>2, <1>3, ForgivenKeeps

-----------------------------------------------------------------------------
(* Steps of administrators *)

LEMMA CommandReadKeeps ==
  ASSUME LadderInv, TypeOK', NEW u \in Users, NEW op \in {"unban", "forgive", "approve"},
         CommandRead(op, u)
  PROVE  LadderInv'
<1>. TypeOK /\ RowTrue(u)
  BY DEF LadderInv
<1>. DEFINE y == [pc |-> "read", op |-> op, user |-> u, seen |-> row[u],
                  fresh |-> Settled(u) /\ (op = "approve" => button[u] = "new")]
<1>1. /\ command = NoWork /\ command' = y
      /\ UNCHANGED <<row, remote, task, unbanning, button, overtaken, erased, warnings, early>>
  BY DEF CommandRead, dbVars, taskVars, historyVars
<1>2. /\ y.pc = "read" /\ y.op = op /\ y.user = u /\ y.seen = row[u]
      /\ y.fresh = (Settled(u) /\ (op = "approve" => button[u] = "new"))
  OBVIOUS
<1>. HIDE DEF y
<1>3. \A v \in Users : RowTrue(v)' /\ (Settled(v) => Settled(v)')
  <2>1. ASSUME NEW v \in Users
        PROVE  RowTrue(v)'
    <3>1. RowTrue(v)
      BY DEF LadderInv
    <3>. QED BY <1>1, <3>1, RowKept
  <2>2. \A v \in Users : Settled(v) => Settled(v)'
    BY <1>1, <1>2 DEF Settled
  <2>. QED BY <2>1, <2>2
<1>4. ASSUME NEW t \in Tasks
      PROVE  CopyTrue(task[t])'
  <2>1. CASE task[t] = Idle
    BY <1>1, <2>1, CopyOld
  <2>2. CASE task[t] # Idle
    <3>1. task[t].line.user \in Users /\ CopyTrue(task[t])
      BY <2>2, TaskFields DEF TypeOK, LadderInv
    <3>. QED BY <1>1, <1>3, <3>1, CopyKept
  <2>. QED BY <2>1, <2>2
<1>5. CommandTrue'
  <2>1. y.fresh /\ y.op = "approve" => button[u] = "new" /\ unbanning[u].pc # "restored"
    BY <1>2 DEF Settled
  <2>2. Given(u) /\ button[u] = "new" => row[u].unban # None
    BY DEF RowTrue
  <2>. QED BY <1>1, <1>2, <2>1, <2>2 DEF CommandTrue, Given
<1>6. StrikesAreEarned'
  BY <1>1 DEF LadderInv, StrikesAreEarned
<1>. QED BY <1>3, <1>4, <1>5, <1>6 DEF LadderInv

LEMMA UnbanCommandRestoreKeeps ==
  ASSUME LadderInv, TypeOK', UnbanCommandRestore
  PROVE  LadderInv'
<1>. PICK u : u = command.user
  OBVIOUS
<1>1. /\ command # NoWork /\ command.pc = "read" /\ command.op = "unban"
      /\ UNCHANGED <<row, unbanning, button, erased, warnings, early>>
  BY DEF UnbanCommandRestore, dbVars
<1>. TypeOK /\ CommandTrue
  BY DEF LadderInv
<1>2. u \in Users /\ RowTrue(u) /\ command.fresh \in BOOLEAN /\ command.seen \in Row /\ command.seen.mode \in Modes
  BY <1>1, CommandAt DEF LadderInv
<1>3. \A v \in Users \ {u} : unbanning'[v] = unbanning[v]
  BY <1>1
<1>4. CASE /\ UNCHANGED <<remote, overtaken, task>>
           /\ command' = NoWork \/ command' = [command EXCEPT !.pc = "skipped"]
  <2>1. /\ command' # NoWork => /\ command'.pc = "skipped" /\ command'.op = "unban"
                                /\ command'.user = u /\ command'.seen = command.seen
                                /\ command'.fresh = command.fresh
    BY <1>1, <1>4, CommandAt
  <2>2. \A v \in Users : Settled(v) => Settled(v)'
    BY <1>1, <2>1 DEF Settled
  <2>3. ASSUME NEW v \in Users
        PROVE  RowTrue(v)'
    <3>1. RowTrue(v)
      BY DEF LadderInv
    <3>. QED BY <1>1, <1>4, <3>1, RowKept
  <2>4. ASSUME NEW t \in Tasks
        PROVE  CopyTrue(task[t])'
    <3>1. CASE task[t] = Idle
      BY <1>4, <3>1, CopyOld
    <3>2. CASE task[t] # Idle
      <4>1. task[t].line.user \in Users /\ CopyTrue(task[t])
        BY <3>2, TaskFields DEF TypeOK, LadderInv
      <4>. QED BY <1>1, <1>4, <2>2, <4>1, CopyKept
    <3>. QED BY <3>1, <3>2
  <2>5. CommandTrue'
    BY <1>1, <2>1 DEF CommandTrue
  <2>6. StrikesAreEarned'
    BY <1>1 DEF LadderInv, StrikesAreEarned
  <2>. QED BY <2>3, <2>4, <2>5, <2>6 DEF LadderInv
<1>5. CASE /\ CallRemote(u, Restored(remote[u], command.seen.mode), command.fresh)
           /\ task' = OldTasks(u)
           /\ command' = [command EXCEPT !.pc = "restored"]
  <2>1. Restored(remote[u], command.seen.mode) \in SUBSET Restrictions /\ overtaken[u] \in BOOLEAN
    BY <1>2, RemoteTypes DEF TypeOK
  <2>2. /\ remote'[u] = Restored(remote[u], command.seen.mode)
        /\ overtaken'[u] = (overtaken[u] \/ ~command.fresh)
        /\ \A v \in Users \ {u} : remote'[v] = remote[v] /\ overtaken'[v] = overtaken[v]
    BY <1>2, <1>5, <2>1, CallRemoteFacts
  <2>3. /\ command'.pc = "restored" /\ command'.op = "unban" /\ command'.user = u
        /\ command'.seen = command.seen /\ command'.fresh = command.fresh
    BY <1>1, <1>5, CommandAt
  <2>4. \A v \in Users \ {u} : Settled(v) => Settled(v)'
    BY <1>1, <2>3 DEF Settled
  <2>5. OnlyAbout(u)
    BY <1>1, <2>2, <2>4 DEF OnlyAbout
  <2>6. ~overtaken'[u] => ~overtaken[u] /\ command.fresh
    BY <1>2, <2>1, <2>2
  <2>7. Given(u)' => remote'[u] = {} /\ Given(u)
    <3>1. Given(u)' => Given(u) /\ command.fresh
      BY <1>1, <2>6 DEF Given
    <3>2. Given(u) /\ command.fresh => remote[u] \subseteq Effect(command.seen.mode)
      BY <1>1, <1>2 DEF RowTrue, CommandTrue
    <3>. QED BY <1>2, <2>2, <3>1, <3>2, RestrictionEffect
  <2>8. RowTrue(u)'
    BY <1>1, <1>2, <2>6, <2>7 DEF RowTrue
  <2>9. CommandTrue'
    BY <1>1, <2>3, <2>7 DEF CommandTrue
  <2>10. \A t \in Tasks : task'[t] \in {OldTasks(u)[t], Idle} \/ CopyTrue(task[t])'
    BY <1>5
  <2>. QED BY <1>1, <1>2, <2>5, <2>8, <2>9, <2>10, StepAbout
<1>. QED BY <1>4, <1>5 DEF UnbanCommandRestore

\* The row is deleted, or replaced by one without an end and without a warning.
LEMMA ReplacedKeeps ==
  ASSUME LadderInv, TypeOK', NEW u \in Users, NEW r \in Row, r.unban = None, r.warned = None,
         NEW fresh \in BOOLEAN, WriteRow(u, r, fresh),
         \/ Erase(u, r)
         \/ erased' = erased /\ (Given(u) /\ fresh => remote[u] = {}),
         task' = OldTasks(u), unbanning' = OldUnbanning(u), button' = OldButton(u),
         command' \in {OldCommand(u), NoWork},
         warnings' = [warnings EXCEPT ![u] = 0], UNCHANGED <<remote, early>>
  PROVE  LadderInv'
<1>. TypeOK
  BY DEF LadderInv
<1>1. /\ row[u] \in Row /\ overtaken[u] \in BOOLEAN /\ erased[u] \in BOOLEAN
  BY DEF TypeOK
<1>2. /\ row'[u] = r /\ overtaken'[u] = (overtaken[u] \/ ~fresh)
      /\ \A v \in Users \ {u} : row'[v] = row[v] /\ overtaken'[v] = overtaken[v]
  BY WriteRowFacts
<1>3. /\ \A v \in Users \ {u} : erased'[v] = erased[v]
      /\ \/ erased'[u] = (erased[u] \/ (row[u].unban # None /\ r.unban # row[u].unban))
         \/ erased'[u] = erased[u] /\ (Given(u) /\ fresh => remote[u] = {})
  BY EraseFacts
<1>4. \A v \in Users \ {u} : warnings'[v] = warnings[v]
  BY DEF TypeOK
<1>5. /\ \A v \in Users \ {u} : unbanning'[v] = unbanning[v] /\ button'[v] = button[v]
      /\ unbanning'[u].pc \in {"due", "restored"} => ~unbanning'[u].fresh
      /\ button'[u] # "new"
  BY OldWorkTypes
<1>6. \A v \in Users \ {u} : Settled(v) => Settled(v)'
  BY <1>5, SettledKept
<1>7. OnlyAbout(u)
  BY <1>2, <1>3, <1>4, <1>5, <1>6 DEF OnlyAbout
<1>8. RowTrue(u)'
  <2>1. ~overtaken'[u] => ~overtaken[u] /\ fresh
    BY <1>1, <1>2
  <2>2. ~erased'[u] => ~erased[u]
    BY <1>1, <1>3
  <2>3. ~erased'[u] => row[u].unban = None \/ (Given(u) /\ fresh => remote[u] = {})
    BY <1>1, <1>3
  <2>4. Given(u)' => Given(u) /\ (row[u].unban = None \/ remote[u] = {})
    BY <2>1, <2>2, <2>3 DEF Given
  <2>. QED BY <1>2, <1>5, <2>4, EndlessRow
<1>9. \A t \in Tasks : task'[t] \in {OldTasks(u)[t], Idle} \/ CopyTrue(task[t])'
  OBVIOUS
<1>. QED BY <1>7, <1>8, <1>9, StepAbout

LEMMA CommandWriteKeeps ==
  ASSUME LadderInv, TypeOK', UnbanCommandDelete \/ ForgiveCommandWrite \/ Approve
  PROVE  LadderInv'
<1>. PICK u, seen, fresh : u = command.user /\ seen = command.seen /\ fresh = command.fresh
  OBVIOUS
<1>1. command # NoWork /\ command' = NoWork
  BY DEF UnbanCommandDelete, ForgiveCommandWrite, Approve
<1>. TypeOK /\ CommandTrue
  BY DEF LadderInv
<1>2. u \in Users /\ fresh \in BOOLEAN /\ seen \in Row
  BY <1>1, CommandAt
<1>3. CASE UnbanCommandDelete
  <2>1. /\ \/ command.pc = "restored" /\ erased' = erased
           \/ Erase(u, NoRow)
        /\ Deleted(u, fresh)
        /\ warnings' = [warnings EXCEPT ![u] = 0] /\ remote' = remote /\ early' = early
    BY <1>3 DEF UnbanCommandDelete
  <2>2. command.pc = "restored" => (Given(u) /\ fresh => remote[u] = {})
    BY <1>1 DEF CommandTrue
  <2>3. /\ WriteRow(u, NoRow, fresh)
        /\ task' = OldTasks(u) /\ unbanning' = OldUnbanning(u) /\ button' = OldButton(u)
    BY <2>1 DEF Deleted
  <2>. QED BY <1>1, <1>2, <2>1, <2>2, <2>3, RowTypes, ReplacedKeeps
<1>4. CASE ForgiveCommandWrite
  <2>. PICK strikes : strikes = seen.strikes - 1
    OBVIOUS
  <2>1. strikes \in Nat /\ now \in Nat
    BY <1>1, <1>2, <1>4 DEF TypeOK, ForgiveCommandWrite, Row
  <2>. PICK at : at = now
    OBVIOUS
  <2>2. /\ \/ WriteRow(u, [row[u] EXCEPT !.strikes = strikes, !.forgiven = at], fresh)
           \/ UNCHANGED <<row, overtaken>>
        /\ UNCHANGED <<remote, unbanning, button, erased, warnings, early>>
        /\ task' = OldTasks(u)
    BY <1>4 DEF ForgiveCommandWrite, Forgiven
  <2>. QED BY <1>1, <1>2, <2>1, <2>2, ForgivenKeeps
<1>5. CASE Approve
  <2>1. /\ command.op = "approve"
        /\ UNCHANGED <<row, task, unbanning, erased, warnings, early>>
        /\ button' = button \/ button' = [button EXCEPT ![u] = NoButton]
        /\ \/ UNCHANGED <<remote, overtaken>>
           \/ CallRemote(u, Restricted(remote[u], seen.mode), fresh)
    BY <1>5 DEF Approve, dbVars, taskVars
  <2>2. fresh => /\ seen = row[u] /\ (Given(u) => row[u].unban # None)
                 /\ (~overtaken[u] => unbanning[u].pc # "restored")
    BY <1>1, <2>1 DEF CommandTrue
  <2>3. CASE CallRemote(u, Restricted(remote[u], seen.mode), fresh)
    <3>1. fresh /\ Given(u) => seen = row[u] /\ seen.unban # None /\ unbanning[u].pc # "restored"
      BY <2>2 DEF Given
    <3>. QED BY <1>1, <1>2, <2>1, <2>3, <3>1, ApplyKeeps
  <2>4. CASE UNCHANGED <<remote, overtaken>>
    <3>1. \A v \in Users : Settled(v) => Settled(v)'
      BY <1>1, <2>1 DEF Settled
    <3>2. /\ \A v \in Users \ {u} : button'[v] = button[v]
          /\ button'[u] = button[u] \/ button'[u] = NoButton
      BY <1>2, <2>1 DEF TypeOK
    <3>3. OnlyAbout(u)
      BY <2>1, <2>4, <3>1, <3>2 DEF OnlyAbout
    <3>4. RowTrue(u)'
      <4>1. RowTrue(u)
        BY <1>2 DEF LadderInv
      <4>. QED BY <2>1, <2>4, <3>2, <4>1 DEF RowTrue, Given, NoButton
    <3>5. ASSUME NEW t \in Tasks
          PROVE  CopyTrue(task[t])'
      <4>1. CASE task[t] = Idle
        BY <2>1, <4>1, CopyOld
      <4>2. CASE task[t] # Idle
        <5>1. task[t].line.user \in Users /\ CopyTrue(task[t])
          BY <4>2, TaskFields DEF TypeOK, LadderInv
        <5>. QED BY <2>1, <2>4, <3>1, <5>1, CopyKept
      <4>. QED BY <4>1, <4>2
    <3>. QED BY <1>1, <1>2, <2>1, <3>3, <3>4, <3>5, StepAbout
  <2>. QED BY <2>1, <2>3, <2>4
<1>. QED BY <1>3, <1>4, <1>5

LEMMA AdminKeeps ==
  ASSUME LadderInv, TypeOK', NEW u \in Users,
         Reject(u) \/ Wipe(u) \/ \E n \in StrikeCounts : SetStrikes(u, n)
  PROVE  LadderInv'
<1>. TypeOK
  BY DEF LadderInv
<1>1. PICK r \in {NoRow} \cup {CommandRow(n) : n \in StrikeCounts} :
        /\ WriteRow(u, r, TRUE) /\ Erase(u, r) /\ command = NoWork /\ command' = command
        /\ task' = OldTasks(u) /\ unbanning' = OldUnbanning(u) /\ button' = OldButton(u)
        /\ warnings' = [warnings EXCEPT ![u] = 0] /\ UNCHANGED <<remote, early>>
  <2>1. CASE Reject(u) \/ Wipe(u)
    BY <2>1 DEF Reject, Wipe, Deleted
  <2>2. ASSUME NEW n \in StrikeCounts, SetStrikes(u, n)
        PROVE  \E r \in {NoRow} \cup {CommandRow(m) : m \in StrikeCounts} :
                 /\ WriteRow(u, r, TRUE) /\ Erase(u, r) /\ command = NoWork /\ command' = command
                 /\ task' = OldTasks(u) /\ unbanning' = OldUnbanning(u) /\ button' = OldButton(u)
                 /\ warnings' = [warnings EXCEPT ![u] = 0] /\ UNCHANGED <<remote, early>>
    BY <2>2 DEF SetStrikes
  <2>. QED BY <2>1, <2>2
<1>2. r \in Row /\ r.unban = None /\ r.warned = None
  <2>1. now \in Nat /\ StrikeCounts \subseteq Nat
    BY CoreBotAssumption DEF TypeOK
  <2>2. ASSUME NEW n \in StrikeCounts
        PROVE  CommandRow(n) \in Row /\ CommandRow(n).unban = None /\ CommandRow(n).warned = None
    BY <2>1, OtherRowTypes
  <2>. QED BY <2>2, RowTypes
<1>. QED BY <1>1, <1>2, ReplacedKeeps

LEMMA CrashKeeps ==
  ASSUME LadderInv, TypeOK', Crash
  PROVE  LadderInv'
<1>1. /\ task' = [t \in Tasks |-> Idle] /\ unbanning' = [u \in Users |-> NoWork] /\ command' = NoWork
      /\ UNCHANGED <<row, remote, button, overtaken, erased, warnings, early>>
  BY DEF Crash, dbVars, historyVars
<1>2. ASSUME NEW v \in Users
      PROVE  RowTrue(v)'
  <2>1. RowTrue(v)
    BY DEF LadderInv
  <2>. QED BY <1>1, <2>1, RowKept
<1>3. ASSUME NEW t \in Tasks
      PROVE  CopyTrue(task[t])'
  BY <1>1, CopyOld DEF LadderInv
<1>4. CommandTrue' /\ StrikesAreEarned'
  BY <1>1 DEF CommandTrue, LadderInv, StrikesAreEarned
<1>. QED BY <1>2, <1>3, <1>4 DEF LadderInv

(* The unbanner's end leaves no pass and changes nothing else the invariant  *)
(* looks at.                                                                 *)
LEMMA UnbannerEndsKeeps ==
  ASSUME LadderInv, TypeOK', UnbannerEnds
  PROVE  LadderInv'
<1>1. /\ unbanning' = [u \in Users |-> NoWork] /\ command' = command /\ task' = task
      /\ UNCHANGED <<row, remote, button, overtaken, erased, warnings, early>>
  BY DEF UnbannerEnds, dbVars, taskVars, historyVars
<1>2. \A u \in Users : unbanning'[u].pc = "none"
  BY <1>1 DEF NoWork
<1>3. ASSUME NEW u \in Users
      PROVE  RowTrue(u)'
  <2>1. RowTrue(u)
    BY DEF LadderInv
  <2>. QED BY <1>1, <1>2, <2>1 DEF RowTrue, Given
<1>4. ASSUME NEW t \in Tasks
      PROVE  CopyTrue(task[t])'
  <2>1. CopyTrue(task[t]) /\ task[t] \in Task \cup {Idle}
    BY DEF LadderInv, TypeOK
  <2>2. CASE task[t].pc \in Working
    <3>1. task[t].line.user \in Users
      BY <2>1, <2>2, CoreBotAssumption DEF Task, Idle, Working
    <3>. QED BY <1>1, <1>2, <2>1, <3>1 DEF CopyTrue, Settled
  <2>3. CASE task[t].pc \notin Working
    BY <1>1, <2>3 DEF CopyTrue
  <2>. QED BY <2>2, <2>3
<1>5. CommandTrue'
  <2>1. command # NoWork => command.user \in Users
    BY DEF LadderInv, TypeOK, CommandWork
  <2>. QED BY <1>1, <1>2, <2>1 DEF CommandTrue, LadderInv, Given
<1>6. StrikesAreEarned'
  BY <1>1 DEF LadderInv, StrikesAreEarned
<1>. QED BY <1>3, <1>4, <1>5, <1>6 DEF LadderInv

LEMMA LadderKept ==
  LadderInv /\ [Next]_vars => LadderInv'
<1>. SUFFICES ASSUME LadderInv, [Next]_vars PROVE LadderInv'
  OBVIOUS
<1>0. TypeOK /\ TypeOK'
  BY TypesKept DEF LadderInv
<1>1. ASSUME NEW t \in Tasks, TaskStep(t)
      PROVE  LadderInv'
  BY <1>0, <1>1, TaskStepKeeps, RestrictKeeps, WarnKeeps, StrikeKeeps DEF TaskStep
<1>2. ASSUME NEW t \in Tasks, NEW l \in Lines, StartLine(t, l)
      PROVE  LadderInv'
  <2>. DEFINE y == [pc |-> "lookup", line |-> l]
  <2>1. /\ Goto(t, y)
        /\ UNCHANGED <<row, remote, unbanning, button, command, overtaken, erased, warnings, early>>
    BY <1>2 DEF StartLine, dbVars, workVars, historyVars
  <2>2. y \in Task /\ y.pc = "lookup"
    BY NewTasks
  <2>. HIDE DEF y
  <2>3. task'[t] = y /\ \A s \in Tasks \ {t} : task'[s] = task[s]
    BY <1>0, <2>1, <2>2, GotoFacts
  <2>4. CopyTrue(task[t])'
    BY <2>2, <2>3 DEF CopyTrue, Working
  <2>. QED BY <1>0, <2>1, <2>3, <2>4, QuietStep
<1>3. CASE UnbanScan
  BY <1>0, <1>3, UnbanScanKeeps
<1>4. ASSUME NEW u \in Users, UnbanRestore(u) \/ UnbanClear(u) \/ Forgive(u)
      PROVE  LadderInv'
  BY <1>0, <1>4, UnbanRestoreKeeps, UnbanClearKeeps, ForgiveKeeps
<1>5. ASSUME NEW u \in Users, NEW op \in {"unban", "forgive", "approve"}, CommandRead(op, u)
      PROVE  LadderInv'
  BY <1>0, <1>5, CommandReadKeeps
<1>6. CASE CommandStep
  BY <1>0, <1>6, UnbanCommandRestoreKeeps, CommandWriteKeeps DEF CommandStep
<1>7. ASSUME NEW u \in Users, Reject(u) \/ Wipe(u) \/ \E n \in StrikeCounts : SetStrikes(u, n)
      PROVE  LadderInv'
  BY <1>0, <1>7, AdminKeeps
<1>8. CASE Crash \/ UnbannerEnds
  BY <1>0, <1>8, CrashKeeps, UnbannerEndsKeeps
<1>9. CASE ForgiveScan \/ Refresh \/ Tick \/ Cleanup \/ UNCHANGED vars \/ \E u \in Users : Switch(u)
  <2>1. /\ UNCHANGED <<row, remote, unbanning, button, command, overtaken, erased, warnings, early>>
        /\ task' = task
    BY <1>9 DEF ForgiveScan, Refresh, Tick, Cleanup, Switch, vars, dbVars, taskVars, workVars, historyVars
  <2>. QED BY <1>0, <2>1, QuietStep
<1>. QED BY <1>1, <1>2, <1>3, <1>4, <1>5, <1>6, <1>7, <1>8, <1>9 DEF Next

LEMMA LadderStarts ==
  Init => LadderInv
<1>. SUFFICES ASSUME Init PROVE LadderInv
  OBVIOUS
<1>1. TypeOK
  BY InitTypes
<1>2. \A u \in Users : RowTrue(u)
  BY RowTypes, OldWork DEF Init, RowTrue, Given, NoButton
<1>3. \A t \in Tasks : CopyTrue(task[t])
  BY DEF Init, CopyTrue, Idle, Working
<1>4. CommandTrue /\ StrikesAreEarned
  BY DEF Init, CommandTrue, StrikesAreEarned
<1>. QED BY <1>1, <1>2, <1>3, <1>4 DEF LadderInv

\* A restriction in force has a recorded end, which the unbanner will act on, unless somebody
\* acted on an old copy of the row or overwrote the end: whatever calls fail, wherever the
\* process dies, and however the tasks, passes and commands of any number of users interleave.
THEOREM RestrictionsHaveEnd == Spec => []RestrictionHasEnd
<1>1. LadderInv => RestrictionHasEnd
  BY DEF LadderInv, RowTrue, Given, RestrictionHasEnd
<1>. QED BY <1>1, LadderStarts, LadderKept, PTL DEF Spec

\* Every strike had all its warnings before it, as long as no write was made from an old copy.
THEOREM StrikesEarned == Spec => []StrikesAreEarned
<1>1. LadderInv => StrikesAreEarned
  BY DEF LadderInv
<1>. QED BY <1>1, LadderStarts, LadderKept, PTL DEF Spec

-----------------------------------------------------------------------------
(* CoreAnswers: the answers *)

Steps == {"idle", "pattern", "cache", "analysis", "verdict", "decided", "asking"}

Line == [pc : Steps, knew : Nat, began : Nat, since : Nat]

BotTypes ==
  /\ today \in Nat
  /\ override \in [UnsureIps -> Nat]
  /\ cached \in [UnsureIps -> [until : Nat, knew : Nat]]
  /\ given \in [UnsureIps -> Nat]
  /\ line \in [Slots -> Line]
  /\ answer \in [Admins -> [pc : {"idle", "pattern", "override", "cache"}, ip : UnsureIps \cup {NoAnswer.ip}]]
  /\ \A a \in Admins : answer[a].pc # "idle" => answer[a].ip \in UnsureIps

\* Nothing outlives its time, and no line its day.
Timely ==
  /\ \A ip \in UnsureIps : override[ip] <= today + AnswerLife /\ cached[ip].until <= today + CacheLife
  /\ \A s \in Slots : line[s].pc # "idle" =>
       line[s].since <= today /\ today <= line[s].since + 1 /\ line[s].began <= given[s[2]]

\* A verdict that is older than an answer expires before the answer does.
OldVerdictsExpire ==
  \A ip \in UnsureIps :
    cached[ip].knew < given[ip] => cached[ip].until <= today \/ cached[ip].until <= override[ip]

\* So does one that an analysis still has to cache.
OldAnalysesExpire ==
  \A s \in Slots :
    line[s].pc = "verdict" /\ line[s].knew < given[s[2]]
      => CacheLife = 0 \/ line[s].since + CacheLife < override[s[2]]

\* A line that found no answer finds no verdict older than the answers before it.
ReadersAreSafe ==
  \A s \in Slots :
    line[s].pc \in {"pattern", "cache"} =>
      /\ Cached(s[2]) => cached[s[2]].knew >= line[s].began
      /\ \A t \in Slots :
           t[2] = s[2] /\ line[t].pc = "verdict" => CacheLife = 0 \/ line[t].knew >= line[s].began

BotInv == BotTypes /\ Timely /\ OldVerdictsExpire /\ OldAnalysesExpire /\ ReadersAreSafe /\ AnswersStand

\* What a line that still reads may find.
Safe(s, began) ==
  /\ Cached(s[2]) => cached[s[2]].knew >= began
  /\ \A t \in Slots :
       t[2] = s[2] /\ line[t].pc = "verdict" => CacheLife = 0 \/ line[t].knew >= began

LEMMA SlotsTyped ==
  ASSUME NEW s \in Slots
  PROVE  s[2] \in UnsureIps
  BY DEF Slots

LEMMA BotNumbers ==
  ASSUME BotTypes
  PROVE  /\ today \in Nat /\ CacheLife \in Nat /\ AnswerLife \in Nat /\ CacheLife < AnswerLife
         /\ \A ip \in UnsureIps : /\ override[ip] \in Nat /\ given[ip] \in Nat
                                  /\ cached[ip] \in [until : Nat, knew : Nat]
                                  /\ cached[ip].until \in Nat /\ cached[ip].knew \in Nat
         /\ \A s \in Slots : /\ line[s] \in Line /\ line[s].pc \in Steps /\ line[s].knew \in Nat
                              /\ line[s].began \in Nat /\ line[s].since \in Nat
<1>1. CacheLife \in Nat /\ AnswerLife \in Nat /\ CacheLife < AnswerLife
  BY CoreAnswersAssumption
<1>2. \A s \in Slots : line[s] \in Line
  BY DEF BotTypes
<1>3. \A s \in Slots : line[s].pc \in Steps /\ line[s].knew \in Nat /\ line[s].began \in Nat /\ line[s].since \in Nat
  BY <1>2 DEF Line
<1>4. \A ip \in UnsureIps : cached[ip] \in [until : Nat, knew : Nat]
  BY DEF BotTypes
<1>. QED BY <1>1, <1>2, <1>3, <1>4 DEF BotTypes

\* Steps that touch no line and no verdict.
LEMMA AnswersRest ==
  ASSUME BotInv, UNCHANGED <<today, override, cached, given, line>>,
         answer' \in [Admins -> [pc : {"idle", "pattern", "override", "cache"}, ip : UnsureIps \cup {NoAnswer.ip}]],
         \A a \in Admins : answer'[a].pc # "idle" => answer'[a].ip \in UnsureIps
  PROVE  BotInv'
<1>1. BotTypes'
  BY DEF BotInv, BotTypes
<1>2. Timely' /\ OldVerdictsExpire' /\ OldAnalysesExpire' /\ AnswersStand'
  BY DEF BotInv, Timely, OldVerdictsExpire, OldAnalysesExpire, AnswersStand
<1>3. ReadersAreSafe'
  BY DEF BotInv, ReadersAreSafe, Cached
<1>. QED BY <1>1, <1>2, <1>3 DEF BotInv

\* A line goes on by itself.
LEMMA LineMoves ==
  ASSUME BotInv, UNCHANGED <<today, override, cached, given, answer>>,
         NEW s \in Slots, NEW x \in Line, line' = [line EXCEPT ![s] = x],
         x.pc # "idle" => x.since <= today /\ today <= x.since + 1 /\ x.began <= given[s[2]],
         x.pc = "verdict" => x.knew = given[s[2]],
         x.pc \in {"pattern", "cache"} => Safe(s, x.began),
         s[1] # Lookup /\ x.pc \in {"verdict", "decided", "asking"} => x.knew >= x.began
  PROVE  BotInv'
<1>1. BotTypes /\ line'[s] = x /\ \A t \in Slots \ {s} : line'[t] = line[t]
  BY DEF BotInv, BotTypes
<1>2. BotTypes'
  BY DEF BotInv, BotTypes
<1>3. Timely'
  BY <1>1 DEF BotInv, Timely
<1>4. OldVerdictsExpire'
  BY DEF BotInv, OldVerdictsExpire
<1>5. OldAnalysesExpire'
  <2>1. x.pc = "verdict" => ~(x.knew < given[s[2]])
    BY <1>1, BotNumbers, SlotsTyped
  <2>. QED BY <1>1, <2>1 DEF BotInv, OldAnalysesExpire
<1>6. AnswersStand'
  BY <1>1 DEF BotInv, AnswersStand
<1>7. ASSUME NEW r \in Slots, line'[r].pc \in {"pattern", "cache"}
      PROVE  /\ Cached(r[2])' => cached'[r[2]].knew >= line'[r].began
             /\ \A t \in Slots : t[2] = r[2] /\ line'[t].pc = "verdict"
                               => CacheLife = 0 \/ line'[t].knew >= line'[r].began
  <2>1. Safe(r, line'[r].began)
    BY <1>1, <1>7 DEF BotInv, ReadersAreSafe, Safe
  <2>2. line'[r].began <= given[r[2]] /\ line'[r].began \in Nat
    <3>1. line'[r] \in Line
      BY <1>2, BotNumbers DEF BotTypes
    <3>. QED BY <1>1, <1>3, <1>7, <3>1 DEF Timely, Line
  <2>3. ASSUME NEW t \in Slots, t[2] = r[2], line'[t].pc = "verdict"
        PROVE  CacheLife = 0 \/ line'[t].knew >= line'[r].began
    <3>1. CASE t = s
      BY <1>1, <2>2, <2>3, <3>1
    <3>2. CASE t # s
      BY <1>1, <2>1, <2>3, <3>2 DEF Safe
    <3>. QED BY <3>1, <3>2
  <2>. QED BY <2>1, <2>3 DEF Safe, Cached
<1>8. ReadersAreSafe'
  BY <1>7 DEF ReadersAreSafe
<1>. QED BY <1>2, <1>3, <1>4, <1>5, <1>6, <1>8 DEF BotInv

\* A line that finds no answer is safe.
LEMMA NewReaderIsSafe ==
  ASSUME BotInv, NEW s \in Slots, ~Overridden(s[2])
  PROVE  Safe(s, given[s[2]])
<1>. DEFINE ip == s[2]
<1>1. ip \in UnsureIps /\ today \in Nat /\ override[ip] \in Nat /\ override[ip] <= today
      /\ given[ip] \in Nat /\ cached[ip].until \in Nat /\ cached[ip].knew \in Nat /\ CacheLife \in Nat
  BY SlotsTyped, BotNumbers DEF BotInv, Overridden
<1>2. Cached(ip) => cached[ip].knew >= given[ip]
  BY <1>1 DEF BotInv, OldVerdictsExpire, Cached
<1>3. ASSUME NEW t \in Slots, t[2] = ip, line[t].pc = "verdict", CacheLife # 0, line[t].knew < given[ip]
      PROVE  FALSE
  <2>1. line[t].since \in Nat /\ today <= line[t].since + 1
    BY <1>3, BotNumbers DEF BotInv, Timely
  <2>2. line[t].since + CacheLife < override[ip]
    BY <1>3 DEF BotInv, OldAnalysesExpire
  <2>. QED BY <1>1, <1>3, <2>1, <2>2
<1>4. \A t \in Slots : line[t].knew \in Nat
  BY BotNumbers DEF BotInv
<1>5. ASSUME NEW t \in Slots, t[2] = ip, line[t].pc = "verdict"
      PROVE  CacheLife = 0 \/ line[t].knew >= given[ip]
  BY <1>1, <1>3, <1>4, <1>5
<1>. QED BY <1>2, <1>5 DEF Safe

LEMMA FirstReadingStep ==
  ASSUME BotInv, NEW s \in Slots, LineBegins(s)
  PROVE  BotInv'
<1>. DEFINE x == [pc |-> IF Overridden(s[2]) THEN "analysis" ELSE "pattern",
                  knew |-> 0, began |-> given[s[2]], since |-> today]
<1>1. line' = [line EXCEPT ![s] = x] /\ UNCHANGED <<today, override, cached, given, answer>>
  BY DEF LineBegins, FirstReading, answerVars
<1>2. today \in Nat /\ given[s[2]] \in Nat
  BY SlotsTyped, BotNumbers DEF BotInv
<1>3. x \in Line /\ x.began = given[s[2]] /\ x.since = today
      /\ ((x.pc = "pattern" /\ ~Overridden(s[2])) \/ x.pc = "analysis")
  BY <1>2 DEF Line, Steps
<1>. HIDE DEF x
<1>4. x.pc \in {"pattern", "cache"} => Safe(s, x.began)
  BY <1>3, NewReaderIsSafe
<1>5. /\ x.since <= today /\ today <= x.since + 1 /\ x.began <= given[s[2]]
      /\ x.pc # "verdict" /\ x.pc \notin {"verdict", "decided", "asking"}
  BY <1>2, <1>3
<1>. QED BY <1>1, <1>3, <1>4, <1>5, LineMoves

\* A line keeps all but its place.
LEMMA LineGoes ==
  ASSUME BotInv, NEW s \in Slots, NEW pc \in Steps \ {"verdict"}, Goes(s, pc), line[s].pc # "idle",
         UNCHANGED <<today, override, cached, given, answer>>,
         pc \in {"pattern", "cache"} => line[s].pc \in {"pattern", "cache"},
         s[1] # Lookup /\ pc \in {"decided", "asking"} => line[s].pc \in {"verdict", "decided", "asking"}
  PROVE  BotInv'
<1>. DEFINE x == [line[s] EXCEPT !.pc = pc]
<1>1. line[s] \in Line
  BY BotNumbers DEF BotInv
<1>2. x \in Line /\ x.pc = pc /\ x.began = line[s].began /\ x.since = line[s].since /\ x.knew = line[s].knew
  BY <1>1 DEF Line
<1>3. line' = [line EXCEPT ![s] = x]
  BY DEF Goes
<1>. HIDE DEF x
<1>4. x.since <= today /\ today <= x.since + 1 /\ x.began <= given[s[2]]
  BY <1>2 DEF BotInv, Timely
<1>5. x.pc \in {"pattern", "cache"} => Safe(s, x.began)
  BY <1>2 DEF BotInv, ReadersAreSafe, Safe
<1>6. s[1] # Lookup /\ x.pc \in {"verdict", "decided", "asking"} => x.knew >= x.began
  BY <1>2 DEF BotInv, AnswersStand
<1>. QED BY <1>2, <1>3, <1>4, <1>5, <1>6, LineMoves

LEMMA LineRests ==
  ASSUME BotInv, NEW s \in Slots, Ends(s), UNCHANGED <<today, override, cached, given, answer>>
  PROVE  BotInv'
<1>1. NoLine \in Line /\ NoLine.pc = "idle"
  BY DEF NoLine, Line, Steps
<1>2. line' = [line EXCEPT ![s] = NoLine]
  BY DEF Ends
<1>. QED BY <1>1, <1>2, LineMoves

LEMMA ReadsCacheStep ==
  ASSUME BotInv, NEW s \in Slots, LineReadsCache(s)
  PROVE  BotInv'
<1>1. line[s].pc = "cache" /\ UNCHANGED <<today, override, cached, given, answer>>
  BY DEF LineReadsCache, answerVars
<1>2. CASE ~Cached(s[2])
  <2>1. Goes(s, "analysis") /\ "analysis" \in Steps \ {"verdict"}
    BY <1>2 DEF LineReadsCache, Steps
  <2>. QED BY <1>1, <2>1, LineGoes
<1>3. CASE Cached(s[2]) /\ s[1] = Lookup
  BY <1>1, <1>3, LineRests DEF LineReadsCache
<1>4. CASE Cached(s[2]) /\ s[1] # Lookup
  <2>. DEFINE x == [line[s] EXCEPT !.pc = "decided", !.knew = cached[s[2]].knew]
  <2>1. line[s] \in Line /\ cached[s[2]].knew \in Nat
    BY BotNumbers, SlotsTyped DEF BotInv
  <2>2. x \in Line /\ x.pc = "decided" /\ x.began = line[s].began /\ x.since = line[s].since
        /\ x.knew = cached[s[2]].knew
    BY <2>1 DEF Line, Steps
  <2>3. line' = [line EXCEPT ![s] = x]
    BY <1>4, <2>1 DEF LineReadsCache
  <2>. HIDE DEF x
  <2>4. x.since <= today /\ today <= x.since + 1 /\ x.began <= given[s[2]]
    BY <1>1, <2>2 DEF BotInv, Timely
  <2>5. x.knew >= x.began
    BY <1>1, <1>4, <2>2 DEF BotInv, ReadersAreSafe
  <2>. QED BY <1>1, <2>2, <2>3, <2>4, <2>5, LineMoves
<1>. QED BY <1>2, <1>3, <1>4

LEMMA AnalysesStep ==
  ASSUME BotInv, NEW s \in Slots, LineAnalyses(s)
  PROVE  BotInv'
<1>. DEFINE x == [line[s] EXCEPT !.pc = "verdict", !.knew = given[s[2]]]
<1>1. line[s] \in Line /\ given[s[2]] \in Nat /\ line[s].pc = "analysis"
      /\ UNCHANGED <<today, override, cached, given, answer>>
  BY BotNumbers, SlotsTyped DEF BotInv, LineAnalyses, answerVars
<1>2. x \in Line /\ x.pc = "verdict" /\ x.began = line[s].began /\ x.since = line[s].since
      /\ x.knew = given[s[2]]
  BY <1>1 DEF Line, Steps
<1>3. line' = [line EXCEPT ![s] = x]
  BY <1>1 DEF LineAnalyses
<1>. HIDE DEF x
<1>4. x.since <= today /\ today <= x.since + 1 /\ x.began <= given[s[2]]
  BY <1>1, <1>2 DEF BotInv, Timely
<1>5. x.knew >= x.began
  BY <1>1, <1>2, <1>4 DEF Line
<1>. QED BY <1>1, <1>2, <1>3, <1>4, <1>5, LineMoves

LEMMA IpInfoStep ==
  ASSUME BotInv, NEW s \in Slots, IpInfo(s)
  PROVE  BotInv'
<1>. DEFINE x == [pc |-> "cache", knew |-> 0, began |-> 0, since |-> today]
<1>1. line' = [line EXCEPT ![s] = x] /\ UNCHANGED <<today, override, cached, given, answer>>
  BY DEF IpInfo, answerVars
<1>2. today \in Nat /\ given[s[2]] \in Nat /\ cached[s[2]].knew \in Nat
      /\ \A t \in Slots : line[t].knew \in Nat
  BY SlotsTyped, BotNumbers DEF BotInv
<1>3. x \in Line /\ x.pc = "cache" /\ x.began = 0 /\ x.since = today
  BY <1>2 DEF Line, Steps
<1>. HIDE DEF x
<1>4. Safe(s, x.began)
  BY <1>2, <1>3 DEF Safe
<1>5. /\ x.since <= today /\ today <= x.since + 1 /\ x.began <= given[s[2]]
      /\ x.pc # "verdict" /\ x.pc \notin {"verdict", "decided", "asking"}
  BY <1>2, <1>3
<1>. QED BY <1>1, <1>3, <1>4, <1>5, LineMoves

\* A verdict that is cached when its analysis ends.
LEMMA CachesStep ==
  ASSUME BotInv, NEW s \in Slots, LineCaches(s)
  PROVE  BotInv'
<1>. DEFINE ip == s[2]
            v == [until |-> today + CacheLife, knew |-> line[s].knew]
            pc == IF s[1] = Lookup THEN "idle" ELSE "decided"
            x == IF s[1] = Lookup THEN NoLine ELSE [line[s] EXCEPT !.pc = "decided"]
<1>1. /\ line[s].pc = "verdict" /\ UNCHANGED <<today, override, given, answer>>
      /\ cached' = [cached EXCEPT ![ip] = v] /\ line' = [line EXCEPT ![s] = x]
  BY DEF LineCaches, answerVars, Ends, Goes
<1>2. /\ ip \in UnsureIps /\ today \in Nat /\ CacheLife \in Nat /\ AnswerLife \in Nat
      /\ line[s] \in Line /\ line[s].knew \in Nat /\ line[s].since \in Nat
      /\ override[ip] \in Nat /\ given[ip] \in Nat
  BY SlotsTyped, BotNumbers DEF BotInv
<1>3. v \in [until : Nat, knew : Nat] /\ v.until = today + CacheLife /\ v.knew = line[s].knew
  BY <1>2
<1>4. /\ x \in Line /\ x.pc \notin {"verdict", "pattern", "cache"}
      /\ x.pc # "idle" => /\ x.pc = "decided" /\ s[1] # Lookup
                          /\ x.began = line[s].began /\ x.since = line[s].since /\ x.knew = line[s].knew
  <2>1. CASE s[1] = Lookup
    <3>1. x = NoLine /\ NoLine \in Line /\ NoLine.pc = "idle"
      BY <2>1 DEF NoLine, Line, Steps
    <3>. QED BY <3>1
  <2>2. CASE s[1] # Lookup
    <3>1. x = [line[s] EXCEPT !.pc = "decided"]
      BY <2>2
    <3>. HIDE DEF x
    <3>. QED BY <1>2, <2>2, <3>1 DEF Line, Steps
  <2>. QED BY <2>1, <2>2
<1>. HIDE DEF v, x, ip
<1>5. /\ cached'[ip] = v /\ \A i \in UnsureIps \ {ip} : cached'[i] = cached[i]
      /\ line'[s] = x /\ \A t \in Slots \ {s} : line'[t] = line[t]
  BY <1>1, <1>2 DEF BotInv, BotTypes
<1>6. BotTypes'
  BY <1>1, <1>3, <1>4 DEF BotInv, BotTypes
<1>7. Timely'
  <2>1. \A i \in UnsureIps : cached'[i].until <= today + CacheLife
    BY <1>2, <1>3, <1>5 DEF BotInv, Timely
  <2>2. ASSUME NEW t \in Slots, line'[t].pc # "idle"
        PROVE  line'[t].since <= today /\ today <= line'[t].since + 1 /\ line'[t].began <= given[t[2]]
    BY <1>1, <1>4, <1>5, <2>2 DEF BotInv, Timely
  <2>. QED BY <1>1, <2>1, <2>2 DEF BotInv, Timely
<1>8. OldVerdictsExpire'
  <2>1. ASSUME v.knew < given[ip] PROVE v.until <= today \/ v.until <= override[ip]
    <3>1. CacheLife = 0 \/ line[s].since + CacheLife < override[ip]
      BY <1>1, <1>3, <2>1 DEF BotInv, OldAnalysesExpire, ip
    <3>2. today <= line[s].since + 1
      BY <1>1 DEF BotInv, Timely
    <3>. QED BY <1>2, <1>3, <3>1, <3>2
  <2>. QED BY <1>1, <1>5, <2>1 DEF BotInv, OldVerdictsExpire
<1>9. OldAnalysesExpire'
  BY <1>1, <1>4, <1>5 DEF BotInv, OldAnalysesExpire
<1>10. AnswersStand'
  <2>1. s[1] # Lookup => line[s].knew >= line[s].began
    BY <1>1 DEF BotInv, AnswersStand
  <2>. QED BY <1>4, <1>5, <2>1 DEF BotInv, AnswersStand
<1>11. ASSUME NEW r \in Slots, line'[r].pc \in {"pattern", "cache"}
       PROVE  /\ Cached(r[2])' => cached'[r[2]].knew >= line'[r].began
              /\ \A t \in Slots : t[2] = r[2] /\ line'[t].pc = "verdict"
                                => CacheLife = 0 \/ line'[t].knew >= line'[r].began
  <2>1. r # s /\ line'[r] = line[r] /\ Safe(r, line[r].began) /\ r[2] \in UnsureIps
    BY <1>4, <1>5, <1>11, SlotsTyped DEF BotInv, ReadersAreSafe, Safe
  <2>2. ASSUME r[2] = ip, Cached(r[2])' PROVE cached'[r[2]].knew >= line'[r].began
    <3>1. CacheLife # 0
      BY <1>1, <1>2, <1>3, <1>5, <2>2 DEF Cached
    <3>2. line[s].knew >= line[r].began
      BY <1>1, <2>1, <2>2, <3>1 DEF Safe, ip
    <3>. QED BY <1>3, <1>5, <2>1, <2>2, <3>2
  <2>3. ASSUME r[2] # ip, Cached(r[2])' PROVE cached'[r[2]].knew >= line'[r].began
    <3>1. cached'[r[2]] = cached[r[2]] /\ Cached(r[2])
      BY <1>1, <1>5, <2>1, <2>3 DEF Cached
    <3>. QED BY <2>1, <3>1 DEF Safe
  <2>4. ASSUME NEW t \in Slots, t[2] = r[2], line'[t].pc = "verdict"
        PROVE  CacheLife = 0 \/ line'[t].knew >= line'[r].began
    <3>1. line'[t] = line[t]
      BY <1>4, <1>5, <2>4
    <3>. QED BY <2>1, <2>4, <3>1 DEF Safe
  <2>. QED BY <2>2, <2>3, <2>4
<1>12. ReadersAreSafe'
  BY <1>11 DEF ReadersAreSafe
<1>. QED BY <1>6, <1>7, <1>8, <1>9, <1>10, <1>12 DEF BotInv

\* Cached verdicts that go away.
LEMMA VerdictsGo ==
  ASSUME BotInv, UNCHANGED <<today, override, given, line>>,
         answer' \in [Admins -> [pc : {"idle", "pattern", "override", "cache"}, ip : UnsureIps \cup {NoAnswer.ip}]],
         \A a \in Admins : answer'[a].pc # "idle" => answer'[a].ip \in UnsureIps,
         cached' \in [UnsureIps -> [until : Nat, knew : Nat]],
         \A ip \in UnsureIps : cached'[ip] = cached[ip] \/ cached'[ip].until = 0
  PROVE  BotInv'
<1>1. today \in Nat /\ CacheLife \in Nat /\ \A ip \in UnsureIps : override[ip] \in Nat
  BY BotNumbers DEF BotInv
<1>2. BotTypes'
  BY DEF BotInv, BotTypes
<1>3. Timely'
  BY <1>1 DEF BotInv, Timely
<1>4. OldVerdictsExpire'
  BY <1>1 DEF BotInv, OldVerdictsExpire
<1>5. OldAnalysesExpire' /\ AnswersStand'
  BY DEF BotInv, OldAnalysesExpire, AnswersStand
<1>6. ReadersAreSafe'
  <2>1. ASSUME NEW r \in Slots, line[r].pc \in {"pattern", "cache"}
        PROVE  Cached(r[2])' => cached'[r[2]].knew >= line[r].began
    <3>1. r[2] \in UnsureIps /\ ~(0 > today)
      BY <1>1, SlotsTyped
    <3>2. Cached(r[2])' => cached'[r[2]] = cached[r[2]] /\ Cached(r[2])
      BY <3>1 DEF Cached
    <3>. QED BY <2>1, <3>2 DEF BotInv, ReadersAreSafe
  <2>. QED BY <2>1 DEF BotInv, ReadersAreSafe
<1>. QED BY <1>2, <1>3, <1>4, <1>5, <1>6 DEF BotInv

LEMMA OverrideStep ==
  ASSUME BotInv, NEW a \in Admins, AnswerOverride(a)
  PROVE  BotInv'
<1>. DEFINE ip == answer[a].ip
            until == today + AnswerLife
            more == given[ip] + 1
            x == [answer[a] EXCEPT !.pc = "cache"]
<1>1. /\ ip \in UnsureIps /\ UNCHANGED <<today, cached, line>>
      /\ override' = [override EXCEPT ![ip] = until] /\ given' = [given EXCEPT ![ip] = more]
      /\ answer' = [answer EXCEPT ![a] = x]
  BY DEF AnswerOverride, Answering, lineVars, BotInv, BotTypes
<1>2. /\ today \in Nat /\ CacheLife \in Nat /\ AnswerLife \in Nat /\ CacheLife < AnswerLife
      /\ override[ip] \in Nat /\ given[ip] \in Nat
      /\ \A i \in UnsureIps : cached[i].until \in Nat
      /\ \A s \in Slots : line[s].since \in Nat /\ line[s].began \in Nat
  BY <1>1, BotNumbers DEF BotInv
<1>3. x \in [pc : {"idle", "pattern", "override", "cache"}, ip : UnsureIps \cup {NoAnswer.ip}] /\ x.ip = ip
  BY DEF BotInv, BotTypes
<1>4. until \in Nat /\ until = today + AnswerLife /\ more \in Nat /\ more = given[ip] + 1
  BY <1>2
<1>. HIDE DEF x, until, more
<1>5. /\ override' \in [UnsureIps -> Nat] /\ override'[ip] = until
      /\ given' \in [UnsureIps -> Nat] /\ given'[ip] = more
      /\ \A i \in UnsureIps \ {ip} : override'[i] = override[i] /\ given'[i] = given[i]
      /\ answer'[a] = x /\ \A b \in Admins \ {a} : answer'[b] = answer[b]
      /\ answer' \in [Admins -> [pc : {"idle", "pattern", "override", "cache"}, ip : UnsureIps \cup {NoAnswer.ip}]]
  BY <1>1, <1>3, <1>4 DEF BotInv, BotTypes
<1>. HIDE DEF ip
<1>6. BotTypes'
  BY <1>1, <1>3, <1>5 DEF BotInv, BotTypes
<1>7. Timely'
  <2>1. ASSUME NEW i \in UnsureIps PROVE override'[i] <= today + AnswerLife
    BY <1>2, <1>4, <1>5 DEF BotInv, Timely
  <2>2. ASSUME NEW s \in Slots, line[s].pc # "idle" PROVE line[s].began <= given'[s[2]]
    <3>1. s[2] \in UnsureIps /\ line[s].began <= given[s[2]]
      BY <2>2, SlotsTyped DEF BotInv, Timely
    <3>. QED BY <1>2, <1>4, <1>5, <3>1
  <2>. QED BY <1>1, <2>1, <2>2 DEF BotInv, Timely
<1>8. OldVerdictsExpire'
  <2>1. cached[ip].until <= until
    BY <1>1, <1>2, <1>4 DEF BotInv, Timely
  <2>. QED BY <1>1, <1>5, <2>1 DEF BotInv, OldVerdictsExpire
<1>9. ASSUME NEW s \in Slots, line[s].pc = "verdict", line[s].knew < given'[s[2]]
      PROVE  CacheLife = 0 \/ line[s].since + CacheLife < override'[s[2]]
  <2>1. CASE s[2] = ip
    <3>1. line[s].since <= today
      BY <1>9 DEF BotInv, Timely
    <3>. QED BY <1>2, <1>4, <1>5, <2>1, <3>1
  <2>2. CASE s[2] # ip
    BY <1>5, <1>9, <2>2, SlotsTyped DEF BotInv, OldAnalysesExpire
  <2>. QED BY <2>1, <2>2
<1>10. OldAnalysesExpire'
  BY <1>1, <1>9 DEF OldAnalysesExpire
<1>11. AnswersStand' /\ ReadersAreSafe'
  BY <1>1 DEF BotInv, AnswersStand, ReadersAreSafe, Cached
<1>. QED BY <1>6, <1>7, <1>8, <1>10, <1>11 DEF BotInv

LEMMA OverridesGo ==
  ASSUME BotInv, UNCHANGED <<today, cached, given, line, answer>>,
         override' = [ip \in UnsureIps |-> IF Overridden(ip) THEN override[ip] ELSE 0]
  PROVE  BotInv'
<1>1. /\ today \in Nat /\ CacheLife \in Nat /\ AnswerLife \in Nat
      /\ \A i \in UnsureIps : override[i] \in Nat /\ cached[i].until \in Nat
      /\ \A s \in Slots : line[s].since \in Nat
  BY BotNumbers DEF BotInv
<1>2. \A i \in UnsureIps : override'[i] = override[i] \/ (override'[i] = 0 /\ override[i] <= today)
  BY <1>1 DEF Overridden
<1>3. BotTypes'
  <2>1. \A i \in UnsureIps : (IF Overridden(i) THEN override[i] ELSE 0) \in Nat
    BY <1>1
  <2>2. override' \in [UnsureIps -> Nat]
    BY <2>1
  <2>. QED BY <2>2 DEF BotInv, BotTypes
<1>4. Timely'
  BY <1>1, <1>2 DEF BotInv, Timely
<1>5. OldVerdictsExpire'
  BY <1>1, <1>2 DEF BotInv, OldVerdictsExpire
<1>6. OldAnalysesExpire'
  <2>1. ASSUME NEW s \in Slots, line[s].pc = "verdict", line[s].knew < given[s[2]], CacheLife # 0
        PROVE  line[s].since + CacheLife < override'[s[2]]
    <3>1. line[s].since + CacheLife < override[s[2]] /\ today <= line[s].since + 1
      BY <2>1 DEF BotInv, OldAnalysesExpire, Timely
    <3>. QED BY <1>1, <1>2, <2>1, <3>1, SlotsTyped
  <2>. QED BY <2>1 DEF OldAnalysesExpire
<1>7. AnswersStand' /\ ReadersAreSafe'
  BY DEF BotInv, AnswersStand, ReadersAreSafe, Cached
<1>. QED BY <1>3, <1>4, <1>5, <1>6, <1>7 DEF BotInv

LEMMA MidnightStep ==
  ASSUME BotInv, Midnight
  PROVE  BotInv'
<1>1. /\ today' = today + 1 /\ UNCHANGED <<override, cached, given, line, answer>>
      /\ \A s \in Slots : line[s].pc = "idle" \/ line[s].since = today
  BY DEF Midnight, lineVars, answerVars
<1>2. /\ today \in Nat /\ CacheLife \in Nat /\ AnswerLife \in Nat
      /\ \A i \in UnsureIps : override[i] \in Nat /\ cached[i].until \in Nat
      /\ \A s \in Slots : line[s].since \in Nat
  BY BotNumbers DEF BotInv
<1>3. BotTypes'
  BY <1>1, <1>2 DEF BotInv, BotTypes
<1>4. Timely'
  BY <1>1, <1>2 DEF BotInv, Timely
<1>5. OldVerdictsExpire'
  BY <1>1, <1>2 DEF BotInv, OldVerdictsExpire
<1>6. OldAnalysesExpire' /\ AnswersStand'
  BY <1>1 DEF BotInv, OldAnalysesExpire, AnswersStand
<1>7. ReadersAreSafe'
  <2>1. ASSUME NEW s \in Slots, Cached(s[2])' PROVE Cached(s[2])
    BY <1>1, <1>2, <2>1, SlotsTyped DEF Cached
  <2>2. ASSUME NEW s \in Slots, line[s].pc \in {"pattern", "cache"}
        PROVE  Cached(s[2])' => cached'[s[2]].knew >= line[s].began
    BY <1>1, <2>1, <2>2 DEF BotInv, ReadersAreSafe
  <2>. QED BY <1>1, <2>2 DEF BotInv, ReadersAreSafe
<1>. QED BY <1>3, <1>4, <1>5, <1>6, <1>7 DEF BotInv

LEMMA AnswerTyped ==
  ASSUME BotInv
  PROVE  /\ answer \in [Admins -> [pc : {"idle", "pattern", "override", "cache"}, ip : UnsureIps \cup {NoAnswer.ip}]]
         /\ \A a \in Admins : answer[a].pc # "idle" => answer[a].ip \in UnsureIps
         /\ NoAnswer \in [pc : {"idle", "pattern", "override", "cache"}, ip : UnsureIps \cup {NoAnswer.ip}]
         /\ NoAnswer.pc = "idle"
         /\ NoVerdict \in [until : Nat, knew : Nat] /\ NoVerdict.until = 0
<1>1. NoAnswer \in [pc : {"idle", "pattern", "override", "cache"}, ip : UnsureIps \cup {NoAnswer.ip}]
      /\ NoAnswer.pc = "idle"
  BY DEF NoAnswer
<1>. QED BY <1>1 DEF BotInv, BotTypes, NoVerdict

LEMMA InvalidatesStep ==
  ASSUME BotInv, NEW a \in Admins, AnswerInvalidates(a)
  PROVE  BotInv'
<1>1. /\ cached' = [cached EXCEPT ![answer[a].ip] = NoVerdict] /\ answer' = [answer EXCEPT ![a] = NoAnswer]
      /\ UNCHANGED <<today, override, given, line>>
  BY DEF AnswerInvalidates, lineVars
<1>2. cached' \in [UnsureIps -> [until : Nat, knew : Nat]]
      /\ \A ip \in UnsureIps : cached'[ip] = cached[ip] \/ cached'[ip].until = 0
  BY <1>1, AnswerTyped DEF BotInv, BotTypes
<1>3. /\ answer' \in [Admins -> [pc : {"idle", "pattern", "override", "cache"}, ip : UnsureIps \cup {NoAnswer.ip}]]
      /\ \A b \in Admins : answer'[b].pc # "idle" => answer'[b].ip \in UnsureIps
  BY <1>1, AnswerTyped
<1>. QED BY <1>1, <1>2, <1>3, VerdictsGo

LEMMA CacheGoes ==
  ASSUME BotInv, UNCHANGED <<today, override, given, line, answer>>,
         \/ cached' = [ip \in UnsureIps |-> NoVerdict]
         \/ cached' = [ip \in UnsureIps |-> IF Cached(ip) THEN cached[ip] ELSE NoVerdict]
  PROVE  BotInv'
<1>1. \A ip \in UnsureIps : cached[ip] \in [until : Nat, knew : Nat]
  BY BotNumbers DEF BotInv
<1>2. \A ip \in UnsureIps : (IF Cached(ip) THEN cached[ip] ELSE NoVerdict) \in [until : Nat, knew : Nat]
  BY <1>1, AnswerTyped
<1>3. cached' \in [UnsureIps -> [until : Nat, knew : Nat]]
  BY <1>2, AnswerTyped
<1>4. \A ip \in UnsureIps : cached'[ip] = cached[ip] \/ cached'[ip].until = 0
  BY AnswerTyped
<1>5. UNCHANGED <<today, override, given, line>>
      /\ answer' \in [Admins -> [pc : {"idle", "pattern", "override", "cache"}, ip : UnsureIps \cup {NoAnswer.ip}]]
      /\ \A b \in Admins : answer'[b].pc # "idle" => answer'[b].ip \in UnsureIps
  BY AnswerTyped
<1>. QED BY <1>3, <1>4, <1>5, VerdictsGo

LEMMA LineStep ==
  ASSUME BotInv, NEW s \in Slots,
         \/ LineBegins(s) \/ LineReadsPattern(s) \/ LineReadsCache(s) \/ LineAnalyses(s) \/ LineCaches(s)
         \/ LineDecides(s) \/ LineAsks(s) \/ AskFails(s) \/ LineFails(s) \/ IpInfo(s)
  PROVE  BotInv'
<1>1. CASE LineReadsPattern(s)
  <2>1. PICK pc \in {"analysis", "cache"} : Goes(s, pc)
    BY <1>1 DEF LineReadsPattern
  <2>2. line[s].pc = "pattern" /\ UNCHANGED <<today, override, cached, given, answer>>
    BY <1>1 DEF LineReadsPattern, answerVars
  <2>3. pc \in Steps \ {"verdict"} /\ pc \notin {"decided", "asking"}
    BY <2>1 DEF Steps
  <2>. QED BY <2>1, <2>2, <2>3, LineGoes
<1>2. CASE LineDecides(s)
  <2>1. line[s].pc = "decided" /\ UNCHANGED <<today, override, cached, given, answer>>
        /\ "asking" \in Steps \ {"verdict"}
    BY <1>2 DEF LineDecides, answerVars, Steps
  <2>2. CASE Goes(s, "asking")
    BY <2>1, <2>2, LineGoes
  <2>3. CASE Ends(s)
    BY <2>1, <2>3, LineRests
  <2>. QED BY <1>2, <2>2, <2>3 DEF LineDecides
<1>3. CASE LineAsks(s) \/ AskFails(s) \/ LineFails(s)
  <2>1. Ends(s) /\ UNCHANGED <<today, override, cached, given, answer>>
    BY <1>3 DEF LineAsks, AskFails, LineFails, answerVars
  <2>. QED BY <2>1, LineRests
<1>. QED BY <1>1, <1>2, <1>3, FirstReadingStep, ReadsCacheStep, AnalysesStep, CachesStep, IpInfoStep

LEMMA AnswerStep ==
  ASSUME BotInv, NEW a \in Admins,
         \/ \E ip \in UnsureIps : AnswerTeaches(a, ip)
         \/ AnswerPattern(a) \/ AnswerOverride(a) \/ AnswerInvalidates(a) \/ AnswerFails(a)
  PROVE  BotInv'
<1>1. CASE \E ip \in UnsureIps : AnswerTeaches(a, ip)
  <2>1. PICK ip \in UnsureIps : AnswerTeaches(a, ip)
    BY <1>1
  <2>. DEFINE x == [pc |-> "pattern", ip |-> ip]
  <2>2. answer' = [answer EXCEPT ![a] = x] /\ UNCHANGED <<today, override, cached, given, line>>
    BY <2>1 DEF AnswerTeaches, lineVars
  <2>3. x \in [pc : {"idle", "pattern", "override", "cache"}, ip : UnsureIps \cup {NoAnswer.ip}]
        /\ x.ip \in UnsureIps
    OBVIOUS
  <2>. HIDE DEF x
  <2>4. /\ answer' \in [Admins -> [pc : {"idle", "pattern", "override", "cache"}, ip : UnsureIps \cup {NoAnswer.ip}]]
        /\ \A b \in Admins : answer'[b].pc # "idle" => answer'[b].ip \in UnsureIps
    BY <2>2, <2>3, AnswerTyped
  <2>. QED BY <2>2, <2>4, AnswersRest
<1>2. CASE AnswerPattern(a)
  <2>. DEFINE x == [answer[a] EXCEPT !.pc = "override"]
  <2>1. answer' = [answer EXCEPT ![a] = x] /\ UNCHANGED <<today, override, cached, given, line>>
        /\ answer[a].ip \in UnsureIps
        /\ answer[a] \in [pc : {"idle", "pattern", "override", "cache"}, ip : UnsureIps \cup {NoAnswer.ip}]
    BY <1>2, AnswerTyped DEF AnswerPattern, Answering, lineVars
  <2>2. x \in [pc : {"idle", "pattern", "override", "cache"}, ip : UnsureIps \cup {NoAnswer.ip}]
        /\ x.ip \in UnsureIps
    BY <2>1
  <2>. HIDE DEF x
  <2>3. /\ answer' \in [Admins -> [pc : {"idle", "pattern", "override", "cache"}, ip : UnsureIps \cup {NoAnswer.ip}]]
        /\ \A b \in Admins : answer'[b].pc # "idle" => answer'[b].ip \in UnsureIps
    BY <2>1, <2>2, AnswerTyped
  <2>. QED BY <2>1, <2>3, AnswersRest
<1>3. CASE AnswerFails(a)
  <2>1. answer' = [answer EXCEPT ![a] = NoAnswer] /\ UNCHANGED <<today, override, cached, given, line>>
    BY <1>3 DEF AnswerFails, lineVars
  <2>2. /\ answer' \in [Admins -> [pc : {"idle", "pattern", "override", "cache"}, ip : UnsureIps \cup {NoAnswer.ip}]]
        /\ \A b \in Admins : answer'[b].pc # "idle" => answer'[b].ip \in UnsureIps
    BY <2>1, AnswerTyped
  <2>. QED BY <2>1, <2>2, AnswersRest
<1>. QED BY <1>1, <1>2, <1>3, OverrideStep, InvalidatesStep

LEMMA CleanUpStep ==
  ASSUME BotInv, CleanUp
  PROVE  BotInv'
<1>1. UNCHANGED <<today, given, line, answer>>
  BY DEF CleanUp, lineVars
<1>2. \/ UNCHANGED override /\ cached' = [ip \in UnsureIps |-> IF Cached(ip) THEN cached[ip] ELSE NoVerdict]
      \/ UNCHANGED <<cached, override>>
      \/ UNCHANGED cached /\ override' = [ip \in UnsureIps |-> IF Overridden(ip) THEN override[ip] ELSE 0]
  BY DEF CleanUp
<1>3. CASE UNCHANGED <<cached, override>>
  BY <1>1, <1>3, AnswerTyped, AnswersRest
<1>. QED BY <1>1, <1>2, <1>3, CacheGoes, OverridesGo

LEMMA BotStep ==
  ASSUME BotInv, BotNext
  PROVE  BotInv'
<1>1. CASE \/ TakeMessage \/ SendMessage \/ DropMessage \/ Flooded \/ FloodEnds \/ Toggle \/ ClearPatterns \/ ClearAsked
  <2>1. UNCHANGED <<today, override, cached, given, line, answer>>
    BY <1>1 DEF TakeMessage, SendMessage, DropMessage, Flooded, FloodEnds, Toggle, ClearPatterns,
       ClearAsked, lineVars, answerVars
  <2>. QED BY <2>1, AnswerTyped, AnswersRest
<1>2. CASE ClearCache
  <2>1. UNCHANGED <<today, override, given, line, answer>> /\ cached' = [ip \in UnsureIps |-> NoVerdict]
    BY <1>2 DEF ClearCache, lineVars, answerVars
  <2>. QED BY <2>1, CacheGoes
<1>3. CASE CleanUp
  BY <1>3, CleanUpStep
<1>4. CASE Midnight
  BY <1>4, MidnightStep
<1>5. ASSUME NEW s \in Slots,
             \/ LineBegins(s) \/ LineReadsPattern(s) \/ LineReadsCache(s) \/ LineAnalyses(s) \/ LineCaches(s)
             \/ LineDecides(s) \/ LineAsks(s) \/ AskFails(s) \/ LineFails(s) \/ IpInfo(s)
      PROVE  BotInv'
  BY <1>5, LineStep
<1>6. ASSUME NEW a \in Admins,
             \/ \E ip \in UnsureIps : AnswerTeaches(a, ip)
             \/ AnswerPattern(a) \/ AnswerOverride(a) \/ AnswerInvalidates(a) \/ AnswerFails(a)
      PROVE  BotInv'
  BY <1>6, AnswerStep
<1>. QED BY <1>1, <1>2, <1>3, <1>4, <1>5, <1>6 DEF BotNext

LEMMA BotInitially == BotInit => BotInv
<1>. SUFFICES ASSUME BotInit PROVE BotInv
  OBVIOUS
<1>1. /\ today = 0 /\ override = [ip \in UnsureIps |-> 0] /\ given = [ip \in UnsureIps |-> 0]
      /\ cached = [ip \in UnsureIps |-> NoVerdict] /\ line = [s \in Slots |-> NoLine]
      /\ answer = [a \in Admins |-> NoAnswer]
  BY DEF BotInit
<1>2. /\ NoVerdict \in [until : Nat, knew : Nat] /\ NoVerdict.until = 0 /\ NoVerdict.knew = 0
      /\ NoLine \in Line /\ NoLine.pc = "idle"
      /\ NoAnswer \in [pc : {"idle", "pattern", "override", "cache"}, ip : UnsureIps \cup {NoAnswer.ip}]
      /\ NoAnswer.pc = "idle" /\ CacheLife \in Nat /\ AnswerLife \in Nat
  BY CoreAnswersAssumption DEF NoVerdict, NoLine, Line, Steps, NoAnswer
<1>3. BotTypes
  BY <1>1, <1>2 DEF BotTypes
<1>4. \A s \in Slots : line[s].pc = "idle"
  BY <1>1, <1>2
<1>5. Timely
  BY <1>1, <1>2, <1>4 DEF Timely
<1>6. OldVerdictsExpire
  BY <1>1, <1>2 DEF OldVerdictsExpire
<1>7. OldAnalysesExpire /\ ReadersAreSafe /\ AnswersStand
  BY <1>4 DEF OldAnalysesExpire, ReadersAreSafe, AnswersStand
<1>. QED BY <1>3, <1>5, <1>6, <1>7 DEF BotInv

\* No line is decided by a verdict older than an answer that was there when
\* the line began, for any life of verdicts shorter than that of answers.
THEOREM AnswersAlwaysStand == BotSpec => []AnswersStand
<1>1. BotInv /\ [BotNext]_botVars => BotInv'
  <2>. SUFFICES ASSUME BotInv, [BotNext]_botVars PROVE BotInv'
    OBVIOUS
  <2>1. CASE UNCHANGED botVars
    <3>1. UNCHANGED <<today, override, cached, given, line, answer>>
      BY <2>1 DEF botVars, lineVars, answerVars
    <3>. QED BY <3>1, AnswerTyped, AnswersRest
  <2>. QED BY <2>1, BotStep
<1>2. BotInv => AnswersStand
  BY DEF BotInv
<1>. QED BY <1>1, <1>2, BotInitially, PTL DEF BotSpec

-----------------------------------------------------------------------------
(* CoreAnswers: the questions *)

Message == [ip : UnsureIps, era : Nat, flood : BOOLEAN, held : BOOLEAN]

AskInv ==
  /\ era \in Nat /\ asked \subseteq UnsureIps
  /\ shown \in [UnsureIps -> Nat] /\ dropped \in [UnsureIps -> Nat] /\ failed \in [UnsureIps -> Nat]
  /\ queue \in Seq(Message)
  /\ \A n \in DOMAIN queue : queue[n].era <= era /\ queue[n].held /\ ~queue[n].flood
  /\ sending = NoMessage \/ (sending \in Message /\ sending.held /\ sending.era <= era)
  /\ QuestionsAreAsked

\* The messages of a sequence that ask about an address in an era.
Waiting(q, ip, e) == {n \in DOMAIN q : q[n].ip = ip /\ q[n].era = e}
Asks(m, ip, e) == IF m.ip = ip /\ m.era = e THEN 1 ELSE 0
HeldFor(m, ip, e) == IF m.held /\ m.ip = ip /\ m.era = e THEN 1 ELSE 0

LEMMA WaitingFinite ==
  ASSUME NEW q \in Seq(Message), NEW ip, NEW e
  PROVE  IsFiniteSet(Waiting(q, ip, e)) /\ Cardinality(Waiting(q, ip, e)) \in Nat
<1>. DEFINE D == 1..Len(q)
            W == Waiting(q, ip, e)
<1>1. IsFiniteSet(D) /\ DOMAIN q = D
  BY FS_Interval
<1>2. W \subseteq D
  BY <1>1 DEF Waiting
<1>. HIDE DEF D
<1>3. IsFiniteSet(W)
  BY <1>1, <1>2, FS_Subset
<1>. QED BY <1>3, FS_CardinalityType

LEMMA WaitingAppend ==
  ASSUME NEW q \in Seq(Message), NEW m \in Message, NEW ip, NEW e
  PROVE  Cardinality(Waiting(Append(q, m), ip, e)) = Cardinality(Waiting(q, ip, e)) + Asks(m, ip, e)
<1>. DEFINE n == Len(q) + 1
            r == Append(q, m)
<1>1. /\ Len(q) \in Nat /\ n \in Nat /\ DOMAIN q = 1..Len(q) /\ DOMAIN r = 1..n
      /\ r[n] = m /\ \A i \in DOMAIN q : r[i] = q[i]
  OBVIOUS
<1>2. DOMAIN r = DOMAIN q \cup {n} /\ n \notin DOMAIN q
  BY <1>1
<1>. HIDE DEF r, n
<1>3. ASSUME ~(m.ip = ip /\ m.era = e) PROVE Waiting(r, ip, e) = Waiting(q, ip, e)
  BY <1>1, <1>2, <1>3 DEF Waiting
<1>4. ASSUME m.ip = ip, m.era = e PROVE Waiting(r, ip, e) = Waiting(q, ip, e) \cup {n}
  BY <1>1, <1>2, <1>4 DEF Waiting
<1>5. n \notin Waiting(q, ip, e)
  BY <1>2 DEF Waiting
<1>6. IsFiniteSet(Waiting(q, ip, e)) /\ Cardinality(Waiting(q, ip, e)) \in Nat
  BY WaitingFinite
<1>7. Cardinality(Waiting(q, ip, e) \cup {n}) = Cardinality(Waiting(q, ip, e)) + 1
  BY <1>5, <1>6, FS_AddElement
<1>8. Cardinality(Waiting(r, ip, e)) = Cardinality(Waiting(q, ip, e)) + Asks(m, ip, e)
  <2>1. CASE m.ip = ip /\ m.era = e
    <3>1. Asks(m, ip, e) = 1
      BY <2>1 DEF Asks
    <3>. QED BY <1>4, <1>7, <2>1, <3>1
  <2>2. CASE ~(m.ip = ip /\ m.era = e)
    <3>1. Asks(m, ip, e) = 0
      BY <2>2 DEF Asks
    <3>. QED BY <1>3, <1>6, <2>2, <3>1
  <2>. QED BY <2>1, <2>2
<1>. QED BY <1>8 DEF r

LEMMA WaitingTail ==
  ASSUME NEW q \in Seq(Message), q # <<>>, NEW ip, NEW e
  PROVE  Cardinality(Waiting(q, ip, e)) = Cardinality(Waiting(Tail(q), ip, e)) + Asks(Head(q), ip, e)
<1>. DEFINE r == Tail(q)
            T == Waiting(r, ip, e)
            U == Waiting(q, ip, e) \ {1}
            f == [i \in T |-> i + 1]
<1>1. /\ Len(q) \in Nat /\ Len(q) >= 1 /\ DOMAIN q = 1..Len(q) /\ r \in Seq(Message) /\ Head(q) = q[1]
      /\ DOMAIN r = 1..(Len(q) - 1) /\ \A i \in DOMAIN r : r[i] = q[i + 1]
  OBVIOUS
<1>. HIDE DEF r
<1>2. T \subseteq Nat
  BY <1>1 DEF Waiting
<1>3. \A i \in T : f[i] \in U
  BY <1>1, <1>2 DEF Waiting
<1>4. ASSUME NEW j \in U PROVE \E i \in T : f[i] = j
  <2>1. j - 1 \in DOMAIN r /\ (j - 1) + 1 = j
    BY <1>1, <1>4 DEF Waiting
  <2>2. j - 1 \in T
    BY <1>1, <1>4, <2>1 DEF Waiting
  <2>. QED BY <2>1, <2>2
<1>5. \A i, j \in T : f[i] = f[j] => i = j
  BY <1>2
<1>6. f \in Bijection(T, U)
  <2>. HIDE DEF T, U
  <2>1. f \in [T -> U]
    BY <1>3
  <2>. HIDE DEF f
  <2>. QED BY <1>4, <1>5, <2>1 DEF Bijection, Injection, Surjection, IsInjective
<1>7. IsFiniteSet(T) /\ IsFiniteSet(Waiting(q, ip, e))
      /\ Cardinality(T) \in Nat /\ Cardinality(Waiting(q, ip, e)) \in Nat
  BY <1>1, WaitingFinite
<1>8. Cardinality(U) = Cardinality(T)
  <2>. HIDE DEF T, U, f
  <2>1. ExistsBijection(T, U)
    BY <1>6 DEF ExistsBijection
  <2>. QED BY <1>7, <2>1, FS_Bijection
<1>9. Cardinality(Waiting(q, ip, e)) = Cardinality(U) + Asks(Head(q), ip, e)
  <2>1. CASE 1 \in Waiting(q, ip, e)
    <3>1. Asks(Head(q), ip, e) = 1
      BY <1>1, <2>1 DEF Waiting, Asks
    <3>2. Cardinality(U) = Cardinality(Waiting(q, ip, e)) - 1
      BY <1>7, <2>1, FS_RemoveElement
    <3>. QED BY <1>7, <3>1, <3>2
  <2>2. CASE 1 \notin Waiting(q, ip, e)
    <3>1. Asks(Head(q), ip, e) = 0 /\ U = Waiting(q, ip, e)
      BY <1>1, <2>2 DEF Waiting, Asks
    <3>. HIDE DEF U, T
    <3>. QED BY <1>7, <3>1
  <2>. QED BY <2>1, <2>2
<1>. QED BY <1>8, <1>9 DEF r

\* What has become of the questions about an address, all together.
Questions(ip) ==
  Cardinality(Waiting(queue, ip, era)) + HeldFor(sending, ip, era) + shown[ip] + dropped[ip]
  + failed[ip]

LEMMA QuestionsCounted ==
  /\ QuestionsAreAsked <=> \A ip \in UnsureIps : Questions(ip) = IF ip \in asked THEN 1 ELSE 0
  /\ QuestionsAreAsked' <=> \A ip \in UnsureIps : Questions(ip)' = IF ip \in asked' THEN 1 ELSE 0
  BY DEF QuestionsAreAsked, Questions, Waiting, HeldFor

\* Everything that is summed is a number.
LEMMA AskNumbers ==
  ASSUME AskInv, NEW ip \in UnsureIps
  PROVE  /\ Cardinality(Waiting(queue, ip, era)) \in Nat /\ HeldFor(sending, ip, era) \in Nat
         /\ shown[ip] \in Nat /\ dropped[ip] \in Nat /\ failed[ip] \in Nat /\ era \in Nat
         /\ Questions(ip) = IF ip \in asked THEN 1 ELSE 0
<1>1. Cardinality(Waiting(queue, ip, era)) \in Nat
  BY WaitingFinite DEF AskInv
<1>2. HeldFor(sending, ip, era) \in Nat
  BY DEF HeldFor
<1>. QED BY <1>1, <1>2, QuestionsCounted DEF AskInv

LEMMA NoMessageHeld ==
  /\ ~NoMessage.held
  /\ \A ip, e : HeldFor(NoMessage, ip, e) = 0
  /\ \A m \in Message : m.held => \A ip, e : HeldFor(m, ip, e) = Asks(m, ip, e)
  /\ \A m \in Message : m.held => m # NoMessage
  BY DEF NoMessage, HeldFor, Asks

LEMMA TakeMessageStep ==
  ASSUME AskInv, TakeMessage
  PROVE  AskInv'
<1>1. sending = NoMessage /\ queue # <<>> /\ sending' = Head(queue) /\ queue' = Tail(queue)
      /\ UNCHANGED <<era, asked, failed, shown, dropped>>
  BY DEF TakeMessage, askVars
<1>2. /\ queue \in Seq(Message) /\ Len(queue) \in Nat /\ Len(queue) >= 1 /\ Head(queue) = queue[1]
      /\ DOMAIN queue = 1..Len(queue) /\ Head(queue) \in Message
      /\ Tail(queue) \in Seq(Message) /\ DOMAIN Tail(queue) = 1..(Len(queue) - 1)
      /\ \A i \in DOMAIN Tail(queue) : Tail(queue)[i] = queue[i + 1]
  BY <1>1 DEF AskInv
<1>3. Head(queue).held /\ Head(queue).era <= era
  BY <1>2 DEF AskInv
<1>4. ASSUME NEW i \in DOMAIN queue'
      PROVE  queue'[i].era <= era /\ queue'[i].held /\ ~queue'[i].flood
  <2>1. i + 1 \in DOMAIN queue /\ queue'[i] = queue[i + 1]
    BY <1>1, <1>2
  <2>. QED BY <2>1 DEF AskInv
<1>5. ASSUME NEW ip \in UnsureIps PROVE Questions(ip)' = IF ip \in asked' THEN 1 ELSE 0
  <2>1. Cardinality(Waiting(queue, ip, era)) = Cardinality(Waiting(queue', ip, era)) + Asks(Head(queue), ip, era)
    BY <1>1, <1>2, WaitingTail
  <2>2. HeldFor(sending, ip, era) = 0 /\ HeldFor(sending', ip, era) = Asks(Head(queue), ip, era)
    BY <1>1, <1>2, <1>3, NoMessageHeld
  <2>3. Cardinality(Waiting(queue', ip, era)) \in Nat /\ Asks(Head(queue), ip, era) \in Nat
    BY <1>1, <1>2, WaitingFinite DEF Asks
  <2>. QED BY <1>1, <2>1, <2>2, <2>3, AskNumbers DEF Questions
<1>. QED BY <1>1, <1>2, <1>3, <1>4, <1>5, QuestionsCounted DEF AskInv

\* The processor is done with its message.
LEMMA HandledStep ==
  ASSUME AskInv, SendMessage \/ DropMessage
  PROVE  AskInv'
<1>1. /\ sending.held /\ sending' = NoMessage /\ UNCHANGED <<era, asked, failed, queue>>
      /\ \/ shown' = CountSent(shown) /\ dropped' = dropped
         \/ dropped' = CountSent(dropped) /\ shown' = shown
  BY DEF SendMessage, DropMessage, askVars
<1>2. sending \in Message /\ sending.ip \in UnsureIps
  BY <1>1, NoMessageHeld DEF AskInv, Message
<1>3. ASSUME NEW f \in [UnsureIps -> Nat], NEW ip \in UnsureIps
      PROVE  CountSent(f) \in [UnsureIps -> Nat] /\ CountSent(f)[ip] = f[ip] + HeldFor(sending, ip, era)
  <2>1. CASE sending.era = era
    <3>. DEFINE n == f[sending.ip] + 1
    <3>1. n \in Nat /\ CountSent(f) = [f EXCEPT ![sending.ip] = n]
      BY <1>2, <2>1 DEF CountSent
    <3>2. HeldFor(sending, ip, era) = IF ip = sending.ip THEN 1 ELSE 0
      BY <1>1, <2>1 DEF HeldFor
    <3>3. n = f[sending.ip] + 1 /\ f[ip] \in Nat
      OBVIOUS
    <3>. HIDE DEF n
    <3>. QED BY <1>2, <3>1, <3>2, <3>3
  <2>2. CASE sending.era # era
    BY <2>2 DEF CountSent, HeldFor
  <2>. QED BY <2>1, <2>2
<1>4. shown' \in [UnsureIps -> Nat] /\ dropped' \in [UnsureIps -> Nat]
  <2>1. \A f \in [UnsureIps -> Nat] : CountSent(f) \in [UnsureIps -> Nat]
    BY <1>2, <1>3
  <2>. QED BY <1>1, <2>1 DEF AskInv
<1>5. ASSUME NEW ip \in UnsureIps PROVE Questions(ip)' = IF ip \in asked' THEN 1 ELSE 0
  <2>1. HeldFor(sending', ip, era) = 0
    BY <1>1, NoMessageHeld
  <2>2. shown'[ip] + dropped'[ip] = shown[ip] + dropped[ip] + HeldFor(sending, ip, era)
    <3>1. CountSent(shown)[ip] = shown[ip] + HeldFor(sending, ip, era)
          /\ CountSent(dropped)[ip] = dropped[ip] + HeldFor(sending, ip, era)
      BY <1>3 DEF AskInv
    <3>. QED BY <1>1, <3>1, AskNumbers
  <2>3. shown'[ip] \in Nat /\ dropped'[ip] \in Nat
    BY <1>4
  <2>4. Questions(ip)' = Cardinality(Waiting(queue, ip, era)) + HeldFor(sending', ip, era)
                         + shown'[ip] + dropped'[ip] + failed[ip]
    BY <1>1 DEF Questions
  <2>5. Questions(ip) = Cardinality(Waiting(queue, ip, era)) + HeldFor(sending, ip, era)
                        + shown[ip] + dropped[ip] + failed[ip]
    BY DEF Questions
  <2>6. Questions(ip)' = Questions(ip)
    BY <2>1, <2>2, <2>3, <2>4, <2>5, AskNumbers
  <2>. QED BY <1>1, <2>6, AskNumbers
<1>. QED BY <1>1, <1>4, <1>5, QuestionsCounted DEF AskInv

LEMMA FloodedStep ==
  ASSUME AskInv, Flooded
  PROVE  AskInv'
<1>1. sending.held /\ sending' = [sending EXCEPT !.flood = TRUE] /\ UNCHANGED <<era, asked, failed, queue, shown, dropped>>
  BY DEF Flooded, askVars
<1>2. sending \in Message /\ sending.era <= era
  BY <1>1, NoMessageHeld DEF AskInv
<1>3. sending' \in Message /\ sending'.held /\ sending'.era = sending.era /\ sending'.ip = sending.ip
  BY <1>1, <1>2 DEF Message
<1>4. \A ip \in UnsureIps : HeldFor(sending', ip, era) = HeldFor(sending, ip, era)
  BY <1>1, <1>3 DEF HeldFor
<1>5. ASSUME NEW ip \in UnsureIps PROVE Questions(ip)' = IF ip \in asked' THEN 1 ELSE 0
  BY <1>1, <1>4, AskNumbers DEF Questions
<1>. QED BY <1>1, <1>2, <1>3, <1>5, QuestionsCounted DEF AskInv

\* A message that joins the queue.
LEMMA QueueGrows ==
  ASSUME AskInv, NEW m \in Message, m.held, ~m.flood, m.era <= era
  PROVE  /\ Append(queue, m) \in Seq(Message)
         /\ \A n \in DOMAIN Append(queue, m) :
              Append(queue, m)[n].era <= era /\ Append(queue, m)[n].held /\ ~Append(queue, m)[n].flood
<1>1. /\ queue \in Seq(Message) /\ Len(queue) \in Nat /\ DOMAIN queue = 1..Len(queue)
      /\ Append(queue, m) \in Seq(Message) /\ DOMAIN Append(queue, m) = 1..(Len(queue) + 1)
      /\ Append(queue, m)[Len(queue) + 1] = m
      /\ \A i \in DOMAIN queue : Append(queue, m)[i] = queue[i]
  BY DEF AskInv
<1>2. ASSUME NEW n \in DOMAIN Append(queue, m)
      PROVE  Append(queue, m)[n].era <= era /\ Append(queue, m)[n].held /\ ~Append(queue, m)[n].flood
  <2>1. n \in DOMAIN queue \/ n = Len(queue) + 1
    BY <1>1
  <2>. QED BY <1>1, <2>1 DEF AskInv
<1>. QED BY <1>1, <1>2

LEMMA FloodEndsStep ==
  ASSUME AskInv, FloodEnds
  PROVE  AskInv'
<1>. DEFINE m == [sending EXCEPT !.flood = FALSE]
<1>1. sending.flood /\ queue' = Append(queue, m) /\ sending' = NoMessage /\ UNCHANGED <<era, asked, failed, shown, dropped>>
  BY DEF FloodEnds, PutBack, askVars
<1>2. sending \in Message /\ sending.held /\ sending.era <= era
  BY <1>1 DEF AskInv, NoMessage
<1>3. m \in Message /\ m.held /\ ~m.flood /\ m.era = sending.era /\ m.ip = sending.ip
  BY <1>2 DEF Message
<1>. HIDE DEF m
<1>4. /\ queue' \in Seq(Message)
      /\ \A n \in DOMAIN queue' : queue'[n].era <= era /\ queue'[n].held /\ ~queue'[n].flood
  BY <1>1, <1>2, <1>3, QueueGrows
<1>5. ASSUME NEW ip \in UnsureIps PROVE Questions(ip)' = IF ip \in asked' THEN 1 ELSE 0
  <2>1. Cardinality(Waiting(queue', ip, era)) = Cardinality(Waiting(queue, ip, era)) + Asks(m, ip, era)
    BY <1>1, <1>3, WaitingAppend DEF AskInv
  <2>2. HeldFor(sending', ip, era) = 0 /\ HeldFor(sending, ip, era) = Asks(m, ip, era)
    <3>1. HeldFor(sending, ip, era) = Asks(m, ip, era)
      BY <1>2, <1>3 DEF HeldFor, Asks
    <3>. QED BY <1>1, <3>1, NoMessageHeld
  <2>. QED BY <1>1, <2>1, <2>2, AskNumbers DEF Questions
<1>. QED BY <1>1, <1>4, <1>5, QuestionsCounted DEF AskInv

LEMMA AsksStep ==
  ASSUME AskInv, NEW s \in Slots, LineAsks(s)
  PROVE  AskInv'
<1>. DEFINE ip == s[2]
            m == [ip |-> ip, era |-> era, flood |-> FALSE, held |-> TRUE]
            n == dropped[ip] + 1
<1>1. AskOnce(s) /\ era' = era /\ failed' = failed /\ ip \in UnsureIps /\ era \in Nat /\ dropped[ip] \in Nat
  BY DEF LineAsks, Slots, AskInv
<1>2. m \in Message /\ m.held /\ ~m.flood /\ m.era = era /\ m.ip = ip /\ n = dropped[ip] + 1 /\ n \in Nat
  BY <1>1 DEF Message
<1>3. CASE ip \in asked
  <2>1. UNCHANGED <<asked, queue, sending, shown, dropped>>
    BY <1>1, <1>3 DEF AskOnce, telegramVars
  <2>2. \A i \in UnsureIps : Questions(i)' = Questions(i)
    BY <1>1, <2>1 DEF Questions
  <2>. QED BY <1>1, <2>1, <2>2, AskNumbers, QuestionsCounted DEF AskInv
<1>4. CASE ip \notin asked
  <2>1. asked' = asked \cup {ip} /\ UNCHANGED <<sending, shown>>
        /\ \/ queue' = Append(queue, m) /\ dropped' = dropped
           \/ queue' = queue /\ dropped' = [dropped EXCEPT ![ip] = n]
    BY <1>1, <1>4 DEF AskOnce, Notify
  <2>. HIDE DEF m, n, ip
  <2>2. asked' \subseteq UnsureIps
    BY <1>1, <2>1 DEF AskInv
  <2>3. CASE queue' = Append(queue, m) /\ dropped' = dropped
    <3>1. /\ queue' \in Seq(Message)
          /\ \A j \in DOMAIN queue' : queue'[j].era <= era /\ queue'[j].held /\ ~queue'[j].flood
      BY <1>1, <1>2, <2>3, QueueGrows
    <3>2. ASSUME NEW i \in UnsureIps PROVE Questions(i)' = IF i \in asked' THEN 1 ELSE 0
      <4>1. Cardinality(Waiting(queue', i, era)) = Cardinality(Waiting(queue, i, era)) + Asks(m, i, era)
        BY <1>2, <2>3, WaitingAppend DEF AskInv
      <4>2. Asks(m, i, era) = IF i = ip THEN 1 ELSE 0
        BY <1>2 DEF Asks
      <4>3. Questions(i)' = Questions(i) + Asks(m, i, era)
        <5>1. Questions(i)' = Cardinality(Waiting(queue', i, era)) + HeldFor(sending, i, era)
                              + shown[i] + dropped[i] + failed[i]
          BY <1>1, <2>1, <2>3 DEF Questions
        <5>2. Questions(i) = Cardinality(Waiting(queue, i, era)) + HeldFor(sending, i, era)
                             + shown[i] + dropped[i] + failed[i]
          BY DEF Questions
        <5>3. Asks(m, i, era) \in Nat
          BY <4>2
        <5>. QED BY <4>1, <5>1, <5>2, <5>3, AskNumbers
      <4>. QED BY <1>4, <2>1, <4>2, <4>3, AskNumbers
    <3>. QED BY <1>1, <2>1, <2>2, <2>3, <3>1, <3>2, QuestionsCounted DEF AskInv
  <2>4. CASE queue' = queue /\ dropped' = [dropped EXCEPT ![ip] = n]
    <3>1. dropped' \in [UnsureIps -> Nat] /\ dropped'[ip] = n
          /\ \A i \in UnsureIps \ {ip} : dropped'[i] = dropped[i]
      BY <1>1, <1>2, <2>4 DEF AskInv
    <3>2. ASSUME NEW i \in UnsureIps PROVE Questions(i)' = IF i \in asked' THEN 1 ELSE 0
      <4>1. dropped'[i] = dropped[i] + (IF i = ip THEN 1 ELSE 0)
        BY <1>2, <3>1, AskNumbers
      <4>2. Questions(i)' = Questions(i) + (IF i = ip THEN 1 ELSE 0)
        BY <1>1, <2>1, <2>4, <4>1, AskNumbers DEF Questions
      <4>. QED BY <1>4, <2>1, <4>2, AskNumbers
    <3>. QED BY <1>1, <2>1, <2>2, <2>4, <3>1, <3>2, QuestionsCounted DEF AskInv
  <2>. QED BY <2>1, <2>3, <2>4
<1>. QED BY <1>3, <1>4

LEMMA AskFailsStep ==
  ASSUME AskInv, NEW s \in Slots, AskFails(s)
  PROVE  AskInv'
<1>. DEFINE ip == s[2]
            n == failed[ip] + 1
<1>1. /\ ip \in UnsureIps /\ ip \notin asked /\ failed[ip] \in Nat /\ n = failed[ip] + 1 /\ n \in Nat
      /\ asked' = asked \cup {ip} /\ failed' = [failed EXCEPT ![ip] = n]
      /\ UNCHANGED <<era, queue, sending, shown, dropped>>
  BY DEF AskFails, telegramVars, Slots, AskInv
<1>. HIDE DEF ip, n
<1>2. failed' \in [UnsureIps -> Nat] /\ failed'[ip] = n
      /\ \A i \in UnsureIps \ {ip} : failed'[i] = failed[i]
  BY <1>1 DEF AskInv
<1>3. ASSUME NEW i \in UnsureIps PROVE Questions(i)' = IF i \in asked' THEN 1 ELSE 0
  <2>1. failed'[i] = failed[i] + (IF i = ip THEN 1 ELSE 0)
    BY <1>1, <1>2, AskNumbers
  <2>2. Questions(i)' = Questions(i) + (IF i = ip THEN 1 ELSE 0)
    BY <1>1, <2>1, AskNumbers DEF Questions
  <2>. QED BY <1>1, <2>2, AskNumbers
<1>4. asked' \subseteq UnsureIps
  BY <1>1 DEF AskInv
<1>. QED BY <1>1, <1>2, <1>3, <1>4, QuestionsCounted DEF AskInv

LEMMA ClearAskedStep ==
  ASSUME AskInv, ClearAsked
  PROVE  AskInv'
<1>1. /\ asked' = {} /\ era' = era + 1 /\ UNCHANGED <<queue, sending>> /\ era \in Nat
      /\ shown' = [ip \in UnsureIps |-> 0] /\ dropped' = [ip \in UnsureIps |-> 0]
      /\ failed' = [ip \in UnsureIps |-> 0]
  BY DEF ClearAsked, AskInv
<1>2. \A n \in DOMAIN queue : queue[n] \in Message
  BY DEF AskInv
<1>3. \A n \in DOMAIN queue : queue[n].era \in Nat /\ queue[n].era <= era
  BY <1>2 DEF AskInv, Message
<1>4. sending \in Message => sending.era \in Nat
  BY DEF Message
<1>5. ASSUME NEW ip \in UnsureIps PROVE Questions(ip)' = IF ip \in asked' THEN 1 ELSE 0
  <2>1. Waiting(queue, ip, era + 1) = {}
    BY <1>1, <1>3 DEF Waiting
  <2>2. HeldFor(sending, ip, era + 1) = 0
    <3>1. CASE sending = NoMessage
      BY <3>1, NoMessageHeld
    <3>2. CASE sending \in Message /\ sending.era <= era
      BY <1>1, <1>4, <3>2 DEF HeldFor
    <3>. QED BY <3>1, <3>2 DEF AskInv
  <2>. QED BY <1>1, <2>1, <2>2, FS_EmptySet DEF Questions
<1>6. \A n \in DOMAIN queue : queue[n].era <= era'
  BY <1>1, <1>3
<1>7. sending = NoMessage \/ (sending \in Message /\ sending.held /\ sending.era <= era')
  BY <1>1, <1>4 DEF AskInv
<1>. QED BY <1>1, <1>5, <1>6, <1>7, QuestionsCounted DEF AskInv

LEMMA AskingRests ==
  ASSUME AskInv, UNCHANGED <<askVars, telegramVars>>
  PROVE  AskInv'
<1>1. UNCHANGED <<asked, era, failed, queue, sending, shown, dropped>>
  BY DEF askVars, telegramVars
<1>. QED BY <1>1 DEF AskInv, QuestionsAreAsked

LEMMA AskStep ==
  ASSUME AskInv, BotNext
  PROVE  AskInv'
<1>1. ASSUME NEW s \in Slots,
             \/ LineBegins(s) \/ LineReadsPattern(s) \/ LineReadsCache(s) \/ LineAnalyses(s) \/ LineCaches(s)
             \/ LineDecides(s) \/ LineFails(s) \/ IpInfo(s)
      PROVE  AskInv'
  BY <1>1, AskingRests DEF LineBegins, LineReadsPattern, LineReadsCache, LineAnalyses, LineCaches,
     LineDecides, LineFails, IpInfo
<1>2. ASSUME NEW a \in Admins,
             \/ \E ip \in UnsureIps : AnswerTeaches(a, ip)
             \/ AnswerPattern(a) \/ AnswerOverride(a) \/ AnswerInvalidates(a) \/ AnswerFails(a)
      PROVE  AskInv'
  BY <1>2, AskingRests DEF AnswerTeaches, AnswerPattern, AnswerOverride, AnswerInvalidates, AnswerFails
<1>3. CASE Toggle \/ ClearCache \/ ClearPatterns \/ CleanUp \/ Midnight
  BY <1>3, AskingRests DEF Toggle, ClearCache, ClearPatterns, CleanUp, Midnight
<1>. QED BY <1>1, <1>2, <1>3, AsksStep, AskFailsStep, TakeMessageStep, HandledStep, FloodedStep, FloodEndsStep,
         ClearAskedStep DEF BotNext

LEMMA AskInitially == BotInit => AskInv
<1>. SUFFICES ASSUME BotInit PROVE AskInv
  OBVIOUS
<1>1. /\ asked = {} /\ queue = <<>> /\ sending = NoMessage /\ era = 0
      /\ shown = [ip \in UnsureIps |-> 0] /\ dropped = [ip \in UnsureIps |-> 0]
      /\ failed = [ip \in UnsureIps |-> 0]
  BY DEF BotInit
<1>2. queue \in Seq(Message) /\ DOMAIN queue = {}
  BY <1>1
<1>3. ASSUME NEW ip \in UnsureIps PROVE Questions(ip) = IF ip \in asked THEN 1 ELSE 0
  <2>1. Waiting(queue, ip, era) = {}
    BY <1>2 DEF Waiting
  <2>2. Cardinality(Waiting(queue, ip, era)) = 0
    BY <2>1, FS_EmptySet
  <2>3. HeldFor(sending, ip, era) = 0 /\ shown[ip] = 0 /\ dropped[ip] = 0 /\ failed[ip] = 0 /\ ip \notin asked
    BY <1>1, NoMessageHeld
  <2>. QED BY <2>2, <2>3 DEF Questions
<1>4. QuestionsAreAsked
  BY <1>3, QuestionsCounted
<1>5. shown \in [UnsureIps -> Nat] /\ dropped \in [UnsureIps -> Nat] /\ failed \in [UnsureIps -> Nat] /\ asked \subseteq UnsureIps /\ era \in Nat
  BY <1>1
<1>6. \A n \in DOMAIN queue : queue[n].era <= era /\ queue[n].held /\ ~queue[n].flood
  BY <1>2
<1>. QED BY ONLY <1>1, <1>2, <1>4, <1>5, <1>6 DEF AskInv

\* For every address marked since the last clearing there is exactly one
\* question: in the queue, in the processor's hands, sent, refused, or lost
\* between the mark and the queue.
THEOREM QuestionsAreAskedOnce == BotSpec => []QuestionsAreAsked
<1>1. AskInv /\ [BotNext]_botVars => AskInv'
  <2>. SUFFICES ASSUME AskInv, [BotNext]_botVars PROVE AskInv'
    OBVIOUS
  <2>1. CASE UNCHANGED botVars
    BY <2>1, AskingRests DEF botVars
  <2>. QED BY <2>1, AskStep
<1>2. AskInv => QuestionsAreAsked
  BY DEF AskInv
<1>. QED BY <1>1, <1>2, AskInitially, PTL DEF BotSpec
=============================================================================
