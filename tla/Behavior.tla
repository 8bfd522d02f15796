------------------------------- MODULE Behavior -------------------------------
(***************************************************************************)
(* What the behavioural analyzers read of a user's past: the rows the       *)
(* ingest worker writes with every event, and the summary, churn, session   *)
(* and neighbours that BehavioralEngine.analyze takes from them.  Scoring   *)
(* turns the result into reasons.                                          *)
(*                                                                         *)
(* One user and the users that share his addresses; times are in minutes or *)
(* a coarser unit.  An event is analysed before its own rows are written.   *)
(***************************************************************************)
EXTENDS Integers, Sequences, FiniteSets, FiniteSetsExt, Functions

CONSTANTS
  Visitors,        \* the users whose past is kept
  SubnetOf,        \* the /24 of each address
  Thresholds,      \* the settings of the analyzers
  HistoryLimit,    \* rows get_recent_ip_history returns at most
  MaxRows,         \* bound: events of the users
  MaxMinutes       \* bound: time

Addresses == DOMAIN SubnetOf
Verdicts == {"MOBILE", "HOME", "UNSURE"}

ASSUME BehaviorAssumption ==
  /\ HistoryLimit \in Nat \ {0}
  /\ {Thresholds.history_lookback, Thresholds.history_min_gap, Thresholds.churn_window,
      Thresholds.history_mobile_same_subnet_min_distinct_ips,
      Thresholds.history_home_same_ip_min_records, Thresholds.history_home_same_ip_min_span,
      Thresholds.concurrency_window, Thresholds.concurrency_threshold,
      Thresholds.lifetime_stationary, Thresholds.tracker_retention,
      Thresholds.history_retention} \subseteq Nat
  /\ MaxRows \in Nat /\ MaxMinutes \in Nat

VARIABLES
  minute,     \* the time
  history,    \* ip_history: user, address and time, in the order of insertion
  trackers,   \* active_trackers: start and end of the session of a user's address
  evidence,   \* subnet_evidence: verdicts of each direction
  analysis    \* what the analyzers said of the last event

pastVars == <<minute, history, trackers, evidence, analysis>>

NoSession == [start |-> -1, last |-> -1]

-----------------------------------------------------------------------------
(* HistoryPatternAnalyzer.  Rows are named by their place in the history,    *)
(* which is the order of their times.                                      *)

RowsOf(user) ==
  {i \in DOMAIN history : history[i].user = user
                          /\ history[i].at >= minute - Thresholds.history_lookback}

\* get_recent_ip_history: the oldest rows of the window, if there are too many.
RecentRows(user) ==
  {i \in RowsOf(user) : Cardinality({j \in RowsOf(user) : j < i}) < HistoryLimit}

Far(i, last) == history[i].at - history[last].at >= Thresholds.history_min_gap

\* The rows that are kept: the first, and each that comes a gap after the last kept.
\* Mutant: the gap is taken to the row before, kept or not.
SamplesAfterAny(rows) ==
  {i \in rows : \A j \in rows : j < i /\ (\A k \in rows : k <= j \/ k >= i) => Far(i, j)}

\* The row that was kept last when the rows up to i were read, or 0.
LastKept(rows) ==
  LET Latest[i \in 0..Len(history)] ==
        IF i = 0 THEN 0
        ELSE IF i \in rows /\ (Latest[i - 1] = 0 \/ Far(i, Latest[i - 1]))
             THEN i ELSE Latest[i - 1]
  IN Latest

Samples(rows) == {i \in rows : LastKept(rows)[i] = i}

At(rows, address) == {i \in Samples(rows) : history[i].address = address}

Span(rows, address) ==
  LET at == {history[i].at : i \in At(rows, address)} IN Max(at) - Min(at)

DistinctIn(rows, subnet) ==
  Cardinality({history[i].address : i \in {j \in Samples(rows) :
                                             SubnetOf[history[j].address] = subnet}})

\* history_mobile_bonus: many addresses of one subnet.
Rotating(rows) ==
  \E s \in Range(SubnetOf) :
    DistinctIn(rows, s) >= Max({1, Thresholds.history_mobile_same_subnet_min_distinct_ips})

\* history_home_penalty: of the address seen most, among those the one seen longest.
Stable(rows) ==
  \E a \in {history[i].address : i \in Samples(rows)} :
    /\ \A b \in Addresses : Cardinality(At(rows, b)) <= Cardinality(At(rows, a))
    /\ Cardinality(At(rows, a)) >= Thresholds.history_home_same_ip_min_records
    /\ Span(rows, a) >= Thresholds.history_home_same_ip_min_span

(* ChurnAnalyzer, ConcurrencyDetector, LifetimeAnalyzer *)

Churn(user) ==
  Cardinality({history[i].address : i \in {j \in DOMAIN history :
                 history[j].user = user /\ history[j].at > minute - Thresholds.churn_window}})

Neighbours(address) ==
  {u \in Visitors : trackers[u, address].last > minute - Thresholds.concurrency_window}

Immune(address) == Cardinality(Neighbours(address)) >= Thresholds.concurrency_threshold

Lifetime(user, address) ==
  trackers[user, address].last - trackers[user, address].start

Stationary(user, address) == Lifetime(user, address) > Thresholds.lifetime_stationary

(* BehavioralEngine.analyze *)
Analysis(user, address) ==
  [immune |-> Immune(address),
   churn |-> Churn(user),
   rotating |-> Rotating(RecentRows(user)),
   stable |-> Stable(RecentRows(user)),
   stationary |-> Stationary(user, address),
   evidence |-> evidence[SubnetOf[address]]]

-----------------------------------------------------------------------------
NoAnalysis == [immune |-> FALSE, churn |-> 0, rotating |-> FALSE, stable |-> FALSE,
               stationary |-> FALSE, evidence |-> [MOBILE |-> 0, HOME |-> 0]]

PastInit ==
  /\ minute = 0
  /\ analysis = NoAnalysis
  /\ history = <<>>
  /\ trackers = [k \in Visitors \X Addresses |-> NoSession]
  /\ evidence = [s \in Range(SubnetOf) |-> [MOBILE |-> 0, HOME |-> 0]]

\* _persist_behavior_state_tx, for an event whose verdict is no override.
Persist(user, address, verdict) ==
  LET subnet == SubnetOf[address] IN
  /\ Len(history) < MaxRows
  /\ analysis' = Analysis(user, address)
  /\ history' = Append(history, [user |-> user, address |-> address, at |-> minute])
  /\ trackers' = [trackers EXCEPT ![<<user, address>>] =
                    [start |-> IF @ = NoSession THEN minute ELSE @.start, last |-> minute]]
  /\ evidence' = [evidence EXCEPT ![subnet] =
                    [d \in {"MOBILE", "HOME"} |-> @[d] + (IF d = verdict THEN 1 ELSE 0)]]
  /\ UNCHANGED minute

\* run_db_maintenance: sessions that ended, rows past their retention, which
\* are the first of the history.
Clean ==
  /\ trackers' = [k \in DOMAIN trackers |->
                    IF trackers[k].last < minute - Thresholds.tracker_retention
                    THEN NoSession ELSE trackers[k]]
  /\ LET old == {i \in DOMAIN history : history[i].at < minute - Thresholds.history_retention}
     IN history' = SubSeq(history, 1 + Cardinality(old), Len(history))
  /\ UNCHANGED <<minute, evidence, analysis>>

PastTick ==
  /\ minute < MaxMinutes
  /\ minute' = minute + 1
  /\ UNCHANGED <<history, trackers, evidence, analysis>>

PastNext ==
  \/ \E u \in Visitors, a \in Addresses, v \in Verdicts : Persist(u, a, v)
  \/ Clean
  \/ PastTick

PastSpec == PastInit /\ [][PastNext]_pastVars

-----------------------------------------------------------------------------
\* Rows a gap apart.
Apart(chosen) == \A i, j \in chosen : i < j => Far(j, i)

\* The samples a user is judged by are as many as his history holds: however
\* his reconnects are spread, no choice of rows a gap apart is larger, so quick
\* reconnects neither add samples nor hide later ones
\* (behavioral_analyzers.py:114).
SamplesAreMost ==
  \A u \in Visitors :
    LET rows == RecentRows(u)
    IN /\ Apart(Samples(rows))
       /\ \A chosen \in SUBSET rows :
            Apart(chosen) => Cardinality(chosen) <= Cardinality(Samples(rows))

=============================================================================
