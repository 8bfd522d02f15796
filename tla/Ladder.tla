------------------------------- MODULE Ladder -------------------------------
(***************************************************************************)
(* How the panel decides that an event of a user is a strike: the usage     *)
(* threshold, the limiter with its window, cooldown and ignore rule, and    *)
(* the strike ladder, all inside the transaction that commits the event.    *)
(*                                                                         *)
(* On PostgreSQL, the backend the storage settings accept, they interleave  *)
(* and read what is committed; a row that was written stays locked until    *)
(* its transaction ends, so the second of two writers of a row waits, and   *)
(* then sees what the first one committed.  On SQLite, which the tests use, *)
(* they follow one another.  A transaction writes the tracker first, then   *)
(* the limiter's window, then the rest: what follows the first contended    *)
(* write is one step here.                                                  *)
(***************************************************************************)
EXTENDS Integers, Sequences, FiniteSets

CONSTANTS
  Users, Ips, Workers,
  Serialized,         \* does the backend serialise write transactions?
  SettingsInUse,      \* combinations of the switches the owners use
  UsageThreshold,     \* usage_time_threshold
  ThresholdCount, Tolerance,   \* limiter_threshold_count, and the rounded
                               \* product of tolerance and its multiplier
  WindowSeconds, CooldownSeconds, IgnoreSeconds,
  Durations,          \* ban_durations_minutes
  MaxClock, MaxEvents, MaxChanges      \* bounds

Rollouts == {"observe", "warning_only", "enforce"}

\* shadow stands for shadow_mode, dry_run and warning_only_mode: each of them
\* keeps _enforcement_mode from being "enforce".
Settings == [enabled : BOOLEAN, rollout : Rollouts, shadow : BOOLEAN]

ASSUME LadderAssumption ==
  /\ Serialized \in BOOLEAN
  /\ SettingsInUse \subseteq Settings
  /\ UsageThreshold \in Nat /\ ThresholdCount \in Nat /\ Tolerance \in Nat
  /\ WindowSeconds \in Nat \ {0} /\ CooldownSeconds \in Nat /\ IgnoreSeconds \in Nat
  /\ Durations \in Seq(Nat \ {0}) /\ Durations # <<>>
  /\ MaxClock \in Nat /\ MaxEvents \in Nat /\ MaxChanges \in Nat

VARIABLES
  now,
  settings,       \* the runtime settings and the live rules
  tracker,        \* active_trackers: when a user's address was first seen
  window,         \* limiter_state_windows, by user
  cooldown,       \* limiter_state_cooldowns, by user
  ignore,         \* limiter_ignore_rules, by user
  violations,     \* strikes and unban_time, by user
  tx,             \* the transactions of the workers
  counted,        \* history: when the limiter counted an event, by user
  triggers,       \* history: when it triggered, and the cooldown it set
  struck,         \* history: the rows of violation_history, by user
  loose,          \* history: a strike was planned past the limiter, unserialised
  events, changes     \* how much of each bound is used

limiterVars == <<window, cooldown, ignore>>
historyVars == <<counted, triggers, struck>>
vars == <<now, settings, tracker, limiterVars, violations, tx, historyVars, loose, events, changes>>

None == -1
Idle == [pc |-> "idle"]

NoWindow == [count |-> 0, started |-> None]

\* There may be trackers from before.
Init ==
  /\ now = 0
  /\ settings \in SettingsInUse
  /\ tracker \in [Users -> [Ips -> {None, 0}]]
  /\ window = [u \in Users |-> NoWindow]
  /\ cooldown = [u \in Users |-> None]
  /\ ignore = [u \in Users |-> None]
  /\ violations = [u \in Users |-> [strikes |-> 0, until |-> None]]
  /\ tx = [w \in Workers |-> Idle]
  /\ counted = [u \in Users |-> <<>>]
  /\ triggers = [u \in Users |-> <<>>]
  /\ struck = [u \in Users |-> <<>>]
  /\ loose = [u \in Users |-> FALSE]
  /\ events = 0 /\ changes = 0

-----------------------------------------------------------------------------
(* The transaction *)

Open(w) == tx[w] # Idle

\* The event has a HOME verdict.  It is punishable when its confidence is
\* high and it is eligible; a verdict that comes from an override is not
\* tracked.  The tracker's row is locked until the transaction ends.
Begin(w, u, ip, punishable, tracked) ==
  /\ ~Open(w) /\ events < MaxEvents
  /\ Serialized => \A v \in Workers : ~Open(v)
  /\ \A v \in Workers : Open(v) /\ tx[v].tracked /\ tracked => <<tx[v].user, tx[v].ip>> # <<u, ip>>
  /\ tx' = [tx EXCEPT ![w] =
              [pc |-> "plan", user |-> u, ip |-> ip, punishable |-> punishable, tracked |-> tracked,
               start |-> IF tracked /\ tracker[u][ip] = None THEN now ELSE tracker[u][ip],
               settings |-> settings, at |-> 0, count |-> 0, started |-> None]]
  /\ events' = events + 1
  /\ UNCHANGED <<now, settings, tracker, limiterVars, violations, historyVars, loose, changes>>

\* A transaction that ends commits its tracker.
Commit(w) ==
  LET x == tx[w] IN
  /\ tx' = [tx EXCEPT ![w] = Idle]
  /\ tracker' = IF x.tracked THEN [tracker EXCEPT ![x.user][x.ip] = x.start] ELSE tracker

\* An exception rolls everything back.
Abort(w) ==
  /\ Open(w)
  /\ tx' = [tx EXCEPT ![w] = Idle]
  /\ UNCHANGED <<now, settings, tracker, limiterVars, violations, historyVars, loose, events, changes>>

UsedTooShortly(x, at) ==
  UsageThreshold > 0 /\ (x.start = None \/ at - x.start < UsageThreshold)

\* The live rules are read once more, inside the transaction.
SuppressByUsage(w) ==
  /\ tx[w].pc = "plan" /\ UsedTooShortly(tx[w], now)
  /\ Commit(w)
  /\ UNCHANGED <<now, settings, limiterVars, violations, historyVars, loose, events, changes>>

-----------------------------------------------------------------------------
(* evaluate_limiter_policy_tx *)

\* An ignore rule refuses the event and counts nothing; an expired one is
\* deleted, which is as good as none.
RefuseIgnored(w) ==
  /\ tx[w].pc = "plan" /\ ~UsedTooShortly(tx[w], now)
  /\ settings.enabled /\ ignore[tx[w].user] > now
  /\ Commit(w)
  /\ UNCHANGED <<now, settings, limiterVars, violations, historyVars, loose, events, changes>>

\* Mutant: an old window goes on.
CountedSoFarForever(win, at) == IF win.started # None THEN win ELSE [count |-> 0, started |-> at]

\* A window counts from its first event for WindowSeconds, the last included.
CountedSoFar(win, at) ==
  IF win.started # None /\ at - win.started <= WindowSeconds
  THEN win ELSE [count |-> 0, started |-> at]

\* Otherwise the window is read ...
ReadWindow(w) ==
  LET sofar == CountedSoFar(window[tx[w].user], now) IN
  /\ tx[w].pc = "plan" /\ ~UsedTooShortly(tx[w], now)
  /\ settings.enabled /\ ignore[tx[w].user] <= now
  /\ tx' = [tx EXCEPT ![w].pc = "count", ![w].settings = settings, ![w].at = now,
                      ![w].count = sofar.count + 1, ![w].started = sofar.started]
  /\ UNCHANGED <<now, settings, tracker, limiterVars, violations, historyVars, loose, events, changes>>

Threshold == (IF ThresholdCount = 0 THEN 1 ELSE ThresholdCount) + Tolerance

\* ... and written with one event more, which waits for any other writer; the
\* rest reads what that writer committed.
CountEvent(x) ==
  /\ window' = [window EXCEPT ![x.user] = [count |-> x.count, started |-> x.started]]
  /\ counted' = [counted EXCEPT ![x.user] = Append(@, x.at)]

CoolingDown(x) == cooldown[x.user] # None /\ cooldown[x.user] > x.at

\* Mutant: the cooldown runs from the start of the window.
CooldownUntilEarly(x) == x.started + CooldownSeconds

CooldownUntil(x) == x.at + CooldownSeconds

Refuse(w) ==
  LET x == tx[w] IN
  /\ x.pc = "count"
  /\ x.count < Threshold \/ CoolingDown(x)
  /\ CountEvent(x)
  /\ Commit(w)
  /\ UNCHANGED <<now, settings, cooldown, ignore, violations, triggers, struck, loose, events, changes>>

\* Whatever the rollout is, a trigger starts the cooldown and the ignore rule.
Trigger(x) ==
  /\ cooldown' = [cooldown EXCEPT ![x.user] = CooldownUntil(x)]
  /\ ignore' = IF IgnoreSeconds > 0 THEN [ignore EXCEPT ![x.user] = x.at + IgnoreSeconds] ELSE ignore
  /\ triggers' = [triggers EXCEPT ![x.user] =
                    Append(@, [at |-> x.at, until |-> x.at + CooldownSeconds])]

-----------------------------------------------------------------------------
(* Warning or strike.  Every reason for warning_only is also one for a      *)
(* warning that is not persisted, so a warning writes nothing.              *)

Enforced(x) == x.punishable /\ x.settings.rollout = "enforce" /\ ~x.settings.shadow

\* Mutant: the strikes stop at the last duration.
NextStrikeCapped(strikes) == IF strikes + 1 > Len(Durations) THEN Len(Durations) ELSE strikes + 1

NextStrike(strikes) == strikes + 1

Duration(strike) == Durations[IF strike > Len(Durations) THEN Len(Durations) ELSE strike]

\* violations, violation_history and the job of the outbox
WriteStrike(x, strike) ==
  /\ violations' = [violations EXCEPT ![x.user] = [strikes |-> strike, until |-> x.at + Duration(strike)]]
  /\ struck' = [struck EXCEPT ![x.user] = Append(@, strike)]

Admit(w) ==
  LET x == tx[w] IN
  /\ x.pc = "count"
  /\ x.count >= Threshold /\ ~CoolingDown(x)
  /\ CountEvent(x) /\ Trigger(x)
  /\ IF Enforced(x) THEN WriteStrike(x, NextStrike(violations[x.user].strikes))
     ELSE UNCHANGED <<violations, struck>>
  /\ Commit(w)
  /\ UNCHANGED <<now, settings, loose, events, changes>>

\* Without the limiter the strikes are read first ...
ReadStrikes(w) ==
  LET x == [tx[w] EXCEPT !.settings = settings, !.at = now] IN
  /\ tx[w].pc = "plan" /\ ~UsedTooShortly(tx[w], now)
  /\ ~settings.enabled /\ Enforced(x)
  /\ tx' = [tx EXCEPT ![w] = [x EXCEPT !.pc = "strike", !.count = violations[x.user].strikes]]
  /\ loose' = [loose EXCEPT ![x.user] = @ \/ ~Serialized]
  /\ UNCHANGED <<now, settings, tracker, limiterVars, violations, historyVars, events, changes>>

Warn(w) ==
  LET x == [tx[w] EXCEPT !.settings = settings] IN
  /\ tx[w].pc = "plan" /\ ~UsedTooShortly(tx[w], now)
  /\ ~settings.enabled /\ ~Enforced(x)
  /\ Commit(w)
  /\ UNCHANGED <<now, settings, limiterVars, violations, historyVars, loose, events, changes>>

\* ... and nothing is locked until they are written.
Strike(w) ==
  /\ tx[w].pc = "strike"
  /\ WriteStrike(tx[w], NextStrike(tx[w].count))
  /\ Commit(w)
  /\ UNCHANGED <<now, settings, limiterVars, counted, triggers, loose, events, changes>>

-----------------------------------------------------------------------------
\* An owner saves the live rules.
ChangeSettings(s) ==
  /\ s # settings /\ changes < MaxChanges
  /\ settings' = s /\ changes' = changes + 1
  /\ UNCHANGED <<now, tracker, limiterVars, violations, tx, historyVars, loose, events>>

Tick ==
  /\ now < MaxClock /\ now' = now + 1
  /\ UNCHANGED <<settings, tracker, limiterVars, violations, tx, historyVars, loose, events, changes>>

Next ==
  \/ \E w \in Workers :
       \/ \E u \in Users, ip \in Ips, punishable, tracked \in BOOLEAN :
            Begin(w, u, ip, punishable, tracked)
       \/ SuppressByUsage(w) \/ RefuseIgnored(w) \/ ReadWindow(w) \/ Refuse(w) \/ Admit(w)
       \/ ReadStrikes(w) \/ Warn(w) \/ Strike(w) \/ Abort(w)
  \/ \E s \in SettingsInUse : ChangeSettings(s)
  \/ Tick

Spec == Init /\ [][Next]_vars

-----------------------------------------------------------------------------
(* Properties *)

Transaction ==
  [pc : {"plan", "count", "strike"}, user : Users, ip : Ips, punishable : BOOLEAN,
   tracked : BOOLEAN, start : Int, settings : Settings, at : Nat, count : Nat, started : Int]

TypeOK ==
  /\ now \in Nat /\ settings \in Settings
  /\ tracker \in [Users -> [Ips -> Int]]
  /\ window \in [Users -> [count : Nat, started : Int]]
  /\ cooldown \in [Users -> Int] /\ ignore \in [Users -> Int]
  /\ violations \in [Users -> [strikes : Nat, until : Int]]
  /\ tx \in [Workers -> Transaction \cup {Idle}]
  /\ counted \in [Users -> Seq(Nat)]
  /\ triggers \in [Users -> Seq([at : Nat, until : Nat])]
  /\ struck \in [Users -> Seq(Nat)]
  /\ loose \in [Users -> BOOLEAN]
  /\ events \in Nat /\ changes \in Nat

\* The limiter triggers only when it has counted Threshold events, the last
\* one included, within one window: what PostgreSQL's lost counts take away,
\* nothing adds, not even a window written from an old reading.
TriggersAreEarned ==
  [][\A u \in Users : Len(triggers'[u]) > Len(triggers[u]) =>
       LET at == triggers'[u][Len(triggers'[u])].at IN
       Cardinality({k \in DOMAIN counted'[u] : counted'[u][k] >= at - WindowSeconds}) >= Threshold]_vars

\* Two triggers of a user are a cooldown apart, whichever of two concurrent
\* transactions fixed its clock first: the lock of the window's row is held
\* from before the cooldown is read until it is committed.
CooldownsAreKept ==
  \A u \in Users : \A i, j \in DOMAIN triggers[u] :
    i < j => triggers[u][j].at >= triggers[u][i].until

\* The strikes of a user are numbered one after another, so the durations
\* escalate one by one: always on SQLite, and on PostgreSQL as long as no
\* strike of the user is planned with the limiter off.
StrikesAreNumbered ==
  \A u \in Users : ~loose[u] => \A i \in DOMAIN struck[u] : struck[u][i] = i
=============================================================================
