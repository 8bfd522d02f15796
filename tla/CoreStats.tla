----------------------------- MODULE CoreStats -----------------------------
(***************************************************************************)
(* What the legacy bot keeps in memory about the addresses it judges and    *)
(* must not forget while it runs: the verdicts it has counted but not yet   *)
(* written to daily_stats, and the addresses ip-api.com would not answer    *)
(* for, which it asks about again.                                          *)
(*                                                                         *)
(* Everything runs in one event loop, so a step lasts from one await to the *)
(* next.  Two tasks empty the buffer of counts, every five minutes and      *)
(* before the daily report; the report goes through the rows of the day      *)
(* before, shows the largest of its lists, or is not sent at all, and deletes *)
(* the whole day.  Verdicts that are being reached, and a task that works    *)
(* through the pool, ask ip-api.com and share its rate limit.               *)
(*                                                                         *)
(* A restart, which loses the buffer and the pool, and the cleanup of rows  *)
(* a week old are left out, and the report is not due at midnight, when a   *)
(* write still dated yesterday could land after the rows have been read.    *)
(***************************************************************************)
EXTENDS Naturals, Sequences, FiniteSets, SequencesExt, FiniteSetsExt, Functions

CONSTANTS
  Keys,         \* what is counted, in the order a flush writes it
  ApiIps,       \* addresses
  Lists,        \* the report's lists that end: the keys of each, and its length
  MaxCounts,    \* bound: verdicts counted
  MaxMidnights, \* bound: midnights
  MaxFailures   \* bound: writes that fail

ASSUME CoreStatsAssumption ==
  /\ Keys \in Seq(STRING) /\ IsInjective(Keys)
  /\ Lists \subseteq [of : SUBSET Range(Keys), top : Nat]
  /\ {MaxCounts, MaxMidnights, MaxFailures} \subseteq Nat

VARIABLES
  buffer,    \* _STATS_BUFFER
  flush,     \* the flush each task is in: what it took, and what is next
  daily,     \* daily_stats, by day
  day,       \* the current date
  report,    \* where the daily report stands, and the date it is of
  tallied,   \* history: verdicts counted
  reported,  \* history: counts shown in a report
  unshown,   \* history: counts a report read and did not show
  failures,  \* how much of MaxFailures is used
  limited,   \* IP_API_RATE_LIMITED
  elapsed,   \* has IP_API_RATE_LIMIT_UNTIL passed?
  pool,      \* IP_API_PENDING_POOL
  known,     \* addresses with an answer in ip_api_cache
  asking,    \* addresses whose answer a verdict waits for
  round,     \* the addresses the pool's task has still to ask about
  owed       \* history: addresses refused for the limit and not asked since

statVars == <<buffer, flush, daily, day, report, tallied, reported, unshown, failures>>
poolVars == <<limited, elapsed, pool, known, asking, round, owed>>
statsVars == <<statVars, poolVars>>

What == Range(Keys)
Tasks == {"timer", "report"}

Nothing == [k \in What |-> 0]
Plus(a, b) == [k \in What |-> a[k] + b[k]]
NoFlush == [took |-> Nothing, next |-> 0]
NoRound == [left |-> <<>>, sent |-> FALSE]

StatsInit ==
  /\ buffer = Nothing
  /\ flush = [t \in Tasks |-> NoFlush]
  /\ daily = [d \in 0..MaxMidnights |-> Nothing]
  /\ day = 0
  /\ report = [step |-> "waiting", of |-> 0]
  /\ tallied = Nothing
  /\ reported = Nothing
  /\ unshown = Nothing
  /\ failures = 0
  /\ limited = FALSE
  /\ elapsed = FALSE
  /\ pool = {}
  /\ known = {}
  /\ asking = {}
  /\ round = NoRound
  /\ owed = {}

-----------------------------------------------------------------------------
(* The statistics *)

\* _record_stats: a verdict counts for its provider and may count for a word.
Record ==
  /\ \E some \in SUBSET What \ {{}} :
       LET one == [k \in What |-> IF k \in some THEN 1 ELSE 0] IN
       /\ buffer' = Plus(buffer, one)
       /\ tallied' = Plus(tallied, one)
  /\ MapThenSumSet(LAMBDA k : tallied[k], What) < MaxCounts
  /\ UNCHANGED <<flush, daily, day, report, reported, unshown, failures, poolVars>>

DayEnds ==
  /\ day < MaxMidnights
  /\ day' = day + 1
  /\ UNCHANGED <<buffer, flush, daily, report, tallied, reported, unshown, failures, poolVars>>

\* A flush takes the buffer and leaves an empty one.
Take(t) ==
  /\ buffer' = Nothing
  /\ flush' = [flush EXCEPT ![t] = [took |-> buffer, next |-> 1]]

TimerFlush ==
  /\ flush["timer"] = NoFlush
  /\ Take("timer")
  /\ UNCHANGED <<daily, day, report, tallied, reported, unshown, failures, poolVars>>

\* increment_daily_stat adds to the row of today.
FlushWrites(t) ==
  LET k == Keys[flush[t].next] IN
  /\ flush[t].next \in DOMAIN Keys
  /\ daily' = [daily EXCEPT ![day][k] = @ + flush[t].took[k]]
  /\ flush' = [flush EXCEPT ![t].next = @ + 1]
  /\ UNCHANGED <<buffer, day, report, tallied, reported, unshown, failures, poolVars>>

Flushed(t) ==
  /\ flush' = [flush EXCEPT ![t] = NoFlush]
  /\ report' = IF t = "report" THEN [report EXCEPT !.step = "reading"] ELSE report

FlushEnds(t) ==
  /\ flush[t].next = Len(Keys) + 1
  /\ Flushed(t)
  /\ UNCHANGED <<buffer, daily, day, tallied, reported, unshown, failures, poolVars>>

\* A write fails: all that was taken goes back, also what has been written.
FlushFails(t) ==
  /\ flush[t].next \in DOMAIN Keys
  /\ failures < MaxFailures
  /\ failures' = failures + 1
  /\ buffer' = Plus(buffer, flush[t].took)
  /\ Flushed(t)
  /\ UNCHANGED <<daily, day, tallied, reported, unshown, poolVars>>

\* daily_report_task: once a day it flushes, reads the rows of the day before
\* the one it began on, deletes them, and sleeps a day.
ReportDue ==
  /\ report.step = "waiting" /\ day > report.of
  /\ report' = [step |-> "flushing", of |-> day]
  /\ Take("report")
  /\ UNCHANGED <<daily, day, tallied, reported, unshown, failures, poolVars>>

\* The keys a report may show of a day: of each list that ends the largest,
\* and all others.  Equal ones are in the database's order.
Tops(rows) ==
  {some \in SUBSET What : \A l \in Lists :
     LET counted == {k \in l.of : rows[k] > 0} IN
     /\ Cardinality(counted \cap some) = Min({Cardinality(counted), l.top})
     /\ \A k \in counted \cap some, o \in counted \ some : rows[k] >= rows[o]}

Only(rows, some) == [k \in What |-> IF k \in some THEN rows[k] ELSE 0]

\* The report is put together and sent, unless the notifications are off.
ReportSends ==
  LET rows == daily[report.of - 1] IN
  /\ report.step = "reading"
  /\ report' = [report EXCEPT !.step = "sent"]
  /\ \E some \in Tops(rows) \cup {{}} :
       /\ reported' = Plus(reported, Only(rows, some))
       /\ unshown' = Plus(unshown, Only(rows, What \ some))
  /\ UNCHANGED <<buffer, flush, daily, day, tallied, failures, poolVars>>

ReportClears ==
  /\ report.step = "sent"
  /\ report' = [report EXCEPT !.step = "waiting"]
  /\ daily' = [daily EXCEPT ![report.of - 1] = Nothing]
  /\ UNCHANGED <<buffer, flush, day, tallied, reported, unshown, failures, poolVars>>

\* Nothing catches a failed query: there is no further report.
ReportFails ==
  /\ report.step \in {"reading", "sent"}
  /\ failures < MaxFailures
  /\ failures' = failures + 1
  /\ report' = [report EXCEPT !.step = "dead"]
  /\ UNCHANGED <<buffer, flush, daily, day, tallied, reported, unshown, poolVars>>

-----------------------------------------------------------------------------
(* ip-api.com *)

\* _check_ip_api up to its request: an address the cache knows is not asked
\* about, one asked about during the limit joins the pool.
ApiRefuses == limited /\ ~elapsed

ApiAsk(ip) ==
  /\ ip \notin asking \cup known
  /\ IF ApiRefuses
       THEN /\ pool' = pool \cup {ip}
            /\ owed' = owed \cup {ip}
            /\ UNCHANGED <<asking, limited>>
       ELSE /\ asking' = asking \cup {ip}
            /\ limited' = FALSE
            /\ UNCHANGED <<pool, owed>>
  /\ UNCHANGED <<elapsed, known, round, statVars>>

\* What the answer to a request changes: a verdict, the limit, or nothing the
\* cache keeps.
Answered(ip) ==
  \/ /\ known' = known \cup {ip}
     /\ owed' = owed \ {ip}
     /\ UNCHANGED <<limited, elapsed, pool>>
  \/ /\ limited' = TRUE /\ elapsed' = FALSE
     /\ pool' = pool \cup {ip}
     /\ owed' = owed \cup {ip}
     /\ known' = known
  \/ /\ owed' = owed \ {ip}
     /\ UNCHANGED <<limited, elapsed, pool, known>>

ApiAnswer(ip) ==
  /\ ip \in asking
  /\ Answered(ip)
  /\ asking' = asking \ {ip}
  /\ UNCHANGED <<round, statVars>>

CacheExpires(ip) ==
  /\ ip \in known
  /\ known' = known \ {ip}
  /\ UNCHANGED <<limited, elapsed, pool, asking, round, owed, statVars>>

LimitElapses ==
  /\ limited /\ ~elapsed
  /\ elapsed' = TRUE
  /\ UNCHANGED <<limited, pool, known, asking, round, owed, statVars>>

\* ip_api_pool_processor wakes up: it lifts a limit that has run out, or takes
\* the pool.
LiftLimit ==
  /\ round = NoRound
  /\ limited /\ elapsed
  /\ limited' = FALSE
  /\ UNCHANGED <<elapsed, pool, known, asking, round, owed, statVars>>

TakePool ==
  /\ round = NoRound
  /\ ~limited /\ pool # {}
  /\ \E order \in SetToSeqs(pool) : round' = [left |-> order, sent |-> FALSE]
  /\ pool' = {}
  /\ UNCHANGED <<limited, elapsed, known, asking, owed, statVars>>

\* The next address of the round, unless the cache knows it or the limit has
\* been met meanwhile; the limit sends back what is left of the round.
Unasked == Range(round.left)

First == Head(round.left)

RoundAsks ==
  /\ round.left # <<>> /\ ~round.sent
  /\ First \notin known /\ ~ApiRefuses
  /\ limited' = FALSE
  /\ round' = [round EXCEPT !.sent = TRUE]
  /\ UNCHANGED <<elapsed, pool, known, asking, owed, statVars>>

\* Mutant: the addresses left are not put back.
RoundStopsShort(stops, more) ==
  /\ pool' = more
  /\ round' = IF stops THEN NoRound ELSE [left |-> Tail(round.left), sent |-> FALSE]

RoundStops(stops, more) ==
  /\ pool' = IF stops THEN more \cup Unasked ELSE more
  /\ round' = IF stops THEN NoRound ELSE [left |-> Tail(round.left), sent |-> FALSE]

RoundAnswer ==
  /\ round.left # <<>> /\ round.sent
  /\ \/ /\ known' = known \cup {First} /\ owed' = owed \ {First}
        /\ UNCHANGED <<limited, elapsed>>
        /\ RoundStops(limited, pool)
     \/ /\ limited' = TRUE /\ elapsed' = FALSE /\ owed' = owed \cup {First}
        /\ known' = known
        /\ RoundStops(TRUE, pool \cup {First})
     \/ /\ owed' = owed \ {First}
        /\ UNCHANGED <<limited, elapsed, known>>
        /\ RoundStops(limited, pool)
  /\ UNCHANGED <<asking, statVars>>

RoundSkips ==
  /\ round.left # <<>> /\ ~round.sent
  /\ \/ First \in known /\ owed' = owed \ {First} /\ RoundStops(limited, pool)
     \/ First \notin known /\ ApiRefuses /\ owed' = owed
        /\ RoundStops(TRUE, pool \cup {First})
  /\ UNCHANGED <<limited, elapsed, known, asking, statVars>>

Tally ==
  \/ Record
  \/ DayEnds
  \/ TimerFlush
  \/ \E t \in Tasks : FlushWrites(t) \/ FlushEnds(t) \/ FlushFails(t)
  \/ ReportDue
  \/ ReportSends
  \/ ReportClears
  \/ ReportFails

LookUp ==
  \/ \E ip \in ApiIps : ApiAsk(ip) \/ ApiAnswer(ip) \/ CacheExpires(ip)
  \/ LimitElapses
  \/ LiftLimit
  \/ TakePool
  \/ RoundAsks
  \/ RoundAnswer
  \/ RoundSkips

StatsNext == Tally \/ LookUp

StatsSpec == StatsInit /\ [][StatsNext]_statsVars

-----------------------------------------------------------------------------
\* What the flush of task t has still to write of k.
ToWrite(t, k) ==
  IF \E i \in DOMAIN Keys : Keys[i] = k /\ i >= flush[t].next THEN flush[t].took[k] ELSE 0

InTable(k) == SumFunctionOnSet([d \in 0..MaxMidnights |-> daily[d][k]], 0..MaxMidnights)

\* A count leaves memory for the table and the table once a report has gone
\* through it: whatever flushes fail or overlap, no verdict is missing from
\* all of them (app.py:2807, "so as not to lose it").  What a report goes
\* through it need not show: the ends of its lists are deleted unseen, and all
\* of the day if the notifications are off (app.py:2752, app.py:2778).
CountsReachAReport ==
  \A k \in What :
    tallied[k] <=
      buffer[k] + ToWrite("timer", k) + ToWrite("report", k) + InTable(k)
      + (reported[k] + unshown[k])

\* An address refused for the rate limit stays in the pool, or in the round
\* that works through it, until it has been asked about again, however the
\* limit comes and goes during the round (app.py:2947).
RefusedAreAsked == owed \subseteq pool \cup Unasked \cup asking

\* Every verdict counted is still somewhere until a report has read it
\* (app.py:2807), and every address refused for the rate limit is still to be
\* asked about (app.py:2947).
NothingIsOverlooked == CountsReachAReport /\ RefusedAreAsked
=============================================================================
