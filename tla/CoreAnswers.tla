---------------------------- MODULE CoreAnswers ----------------------------
(***************************************************************************)
(* What the legacy bot asks its administrators about the addresses it is    *)
(* unsure of, and what their answers decide.  A log line is decided by an   *)
(* answer, else by the verdict cached for its address, else by an analysis, *)
(* whose verdict it caches; a line that needs a review sends a question     *)
(* through the Telegram queue.  An answer is kept in two tables and takes   *)
(* the cached verdict away.  Other lines, answers and commands run at every *)
(* await in between.                                                       *)
(*                                                                         *)
(* The lines are of one user, whose questions have one reason: a question   *)
(* is then known by its address.  How much an answer is learned from is     *)
(* left out, for any analysis may come to any verdict; so are the panel's   *)
(* own deletion of an answer and the clearing of more than a thousand       *)
(* processing locks.  A line takes less than a day.                         *)
(***************************************************************************)
EXTENDS Naturals, Sequences, FiniteSets, FiniteSetsExt, SequencesExt

CONSTANTS
  LineTags,     \* mobile_tags: two lines of an address are apart by their tag
  Lookup,       \* the slot of the command /ipinfo, which is not a tag
  UnsureIps,    \* addresses it is unsure of
  Admins,       \* administrators pressing buttons
  CacheLife,    \* days a cached verdict lasts
  AnswerLife,   \* days an answer lasts
  MaxDays,      \* bound: midnights
  MaxAnswers,   \* bound: answers given
  MaxClears,    \* bound: commands /clear, and clearings by the cleanup task
  MaxToggles    \* bound: notifications switched on or off

ASSUME CoreAnswersAssumption ==
  /\ Lookup \notin LineTags
  /\ {CacheLife, AnswerLife, MaxDays, MaxAnswers, MaxClears, MaxToggles} \subseteq Nat
  /\ CacheLife < AnswerLife

VARIABLES
  today,      \* the date
  override,   \* exact_ip_overrides: the day an answer expires
  pattern,    \* unsure_patterns: the day an answer is removed
  cached,     \* ip_decisions: the day the verdict expires, and the answers its
              \* analysis could know of
  line,       \* where each line stands
  answer,     \* where each administrator's answer stands
  taught,     \* unsure_learning: addresses whose answers were learned from
  given,      \* history: answers given about an address
  clearing,   \* has /clear all the patterns still to delete?
  clears,     \* how much of MaxClears is used
  enabled,    \* admin_notifications_enabled
  toggles,    \* how much of MaxToggles is used
  asked,      \* UNSURE_NOTIFIED
  queue,      \* TG_MESSAGE_QUEUE
  sending,    \* the message the queue's processor holds
  era,        \* history: times asked has been cleared
  shown,      \* history: questions sent in this era
  dropped,    \* history: questions of this era the settings or Telegram refused
  failed      \* history: questions of this era that broke before they were queued

lineVars == <<line>>
answerVars == <<override, pattern, answer, given, taught>>
clearVars == <<clearing, clears>>
askVars == <<asked, era, failed>>
telegramVars == <<queue, sending, shown, dropped>>
noticeVars == <<enabled, toggles>>
botVars == <<today, cached, lineVars, answerVars, clearVars, askVars, telegramVars, noticeVars>>

Slots == (LineTags \cup {Lookup}) \X UnsureIps

NoVerdict == [until |-> 0, knew |-> 0]
NoLine == [pc |-> "idle", knew |-> 0, began |-> 0, since |-> 0]
NoAnswer == [pc |-> "idle", ip |-> CHOOSE ip \in UnsureIps : TRUE]
NoMessage == [ip |-> CHOOSE ip \in UnsureIps : TRUE, era |-> 0, flood |-> FALSE, held |-> FALSE]

BotInit ==
  /\ today = 0
  /\ override = [ip \in UnsureIps |-> 0]
  /\ pattern = [ip \in UnsureIps |-> 0]
  /\ cached = [ip \in UnsureIps |-> NoVerdict]
  /\ line = [s \in Slots |-> NoLine]
  /\ answer = [a \in Admins |-> NoAnswer]
  /\ taught = {}
  /\ given = [ip \in UnsureIps |-> 0]
  /\ clearing = FALSE
  /\ clears = 0
  /\ enabled \in BOOLEAN
  /\ toggles = 0
  /\ asked = {}
  /\ queue = <<>>
  /\ sending = NoMessage
  /\ era = 0
  /\ shown = [ip \in UnsureIps |-> 0]
  /\ dropped = [ip \in UnsureIps |-> 0]
  /\ failed = [ip \in UnsureIps |-> 0]

\* get_ip_override, get_unsure_pattern, get_cached_decision: a pattern lasts
\* until it is removed.
Overridden(ip) == override[ip] > today
Cached(ip) == cached[ip].until > today

\* The line of a slot goes on.
Goes(s, pc) == line' = [line EXCEPT ![s].pc = pc]
Ends(s) == line' = [line EXCEPT ![s] = NoLine]

-----------------------------------------------------------------------------
(* Log lines *)

\* Mutant: the cache is asked before the answers.
FirstReadingCached(s) ==
  line' = [line EXCEPT ![s] =
    [pc |-> IF Cached(s[2]) THEN "cache" ELSE IF Overridden(s[2]) THEN "analysis" ELSE "pattern",
     knew |-> 0, began |-> given[s[2]], since |-> today]]

\* The first answer asked for is the override.
FirstReading(s) ==
  line' = [line EXCEPT ![s] =
    [pc |-> IF Overridden(s[2]) THEN "analysis" ELSE "pattern",
     knew |-> 0, began |-> given[s[2]], since |-> today]]

\* process_log_line: one line of an address and a tag at a time.
LineBegins(s) ==
  /\ s[1] # Lookup /\ line[s].pc = "idle"
  /\ FirstReading(s)
  /\ UNCHANGED <<today, cached, answerVars, clearVars, askVars, telegramVars, noticeVars>>

LineReadsPattern(s) ==
  /\ line[s].pc = "pattern"
  /\ Goes(s, IF pattern[s[2]] > 0 THEN "analysis" ELSE "cache")
  /\ UNCHANGED <<today, cached, answerVars, clearVars, askVars, telegramVars, noticeVars>>

LineReadsCache(s) ==
  /\ line[s].pc = "cache"
  /\ IF ~Cached(s[2]) THEN Goes(s, "analysis")
     ELSE IF s[1] = Lookup THEN Ends(s)
     ELSE line' = [line EXCEPT ![s].pc = "decided", ![s].knew = cached[s[2]].knew]
  /\ UNCHANGED <<today, cached, answerVars, clearVars, askVars, telegramVars, noticeVars>>

\* check_is_mobile reads the answers again, and then takes its time.
LineAnalyses(s) ==
  /\ line[s].pc = "analysis"
  /\ line' = [line EXCEPT ![s].pc = "verdict", ![s].knew = given[s[2]]]
  /\ UNCHANGED <<today, cached, answerVars, clearVars, askVars, telegramVars, noticeVars>>

\* cache_decision, also of a verdict that is an answer.
LineCaches(s) ==
  /\ line[s].pc = "verdict"
  /\ cached' = [cached EXCEPT ![s[2]] = [until |-> today + CacheLife, knew |-> line[s].knew]]
  /\ IF s[1] = Lookup THEN Ends(s) ELSE Goes(s, "decided")
  /\ UNCHANGED <<today, answerVars, clearVars, askVars, telegramVars, noticeVars>>

\* A decided line that needs a review begins to ask, if events are notified.
LineDecides(s) ==
  /\ line[s].pc = "decided"
  /\ \/ enabled /\ Goes(s, "asking")
     \/ Ends(s)
  /\ UNCHANGED <<today, cached, answerVars, clearVars, askVars, telegramVars, noticeVars>>

\* A query or a lookup that fails ends the line, and /ipinfo.
LineFails(s) ==
  /\ line[s].pc # "idle"
  /\ Ends(s)
  /\ UNCHANGED <<today, cached, answerVars, clearVars, askVars, telegramVars, noticeVars>>

\* cmd_ipinfo shows the cached verdict, or analyses the address without its
\* user and caches that for everyone.
IpInfo(s) ==
  /\ s[1] = Lookup /\ line[s].pc = "idle"
  /\ line' = [line EXCEPT ![s] = [pc |-> "cache", knew |-> 0, began |-> 0, since |-> today]]
  /\ UNCHANGED <<today, cached, answerVars, clearVars, askVars, telegramVars, noticeVars>>

-----------------------------------------------------------------------------
(* Questions *)

\* notify_admin puts the question in the queue, unless the switch is off.
Notify(ip) ==
  /\ queue' = IF enabled THEN Append(queue, [ip |-> ip, era |-> era, flood |-> FALSE, held |-> TRUE])
                         ELSE queue
  /\ dropped' = IF enabled THEN dropped ELSE [dropped EXCEPT ![ip] = @ + 1]
  /\ UNCHANGED <<sending, shown>>

\* send_unsure_notify once the panel has answered, if nothing fails: asked
\* before, or marked and asked now.
AskOnce(s) ==
  IF s[2] \in asked THEN UNCHANGED <<asked, telegramVars>>
  ELSE asked' = asked \cup {s[2]} /\ Notify(s[2])

LineAsks(s) ==
  /\ line[s].pc = "asking"
  /\ AskOnce(s)
  /\ Ends(s)
  /\ UNCHANGED <<today, cached, answerVars, clearVars, era, failed, noticeVars>>

\* The address is marked, and then the profile and the text of its question are
\* built, with queries and nothing that would catch their failure: the mark
\* stays, no question is queued, and the line ends.
AskFails(s) ==
  /\ line[s].pc = "asking" /\ s[2] \notin asked
  /\ asked' = asked \cup {s[2]}
  /\ failed' = [failed EXCEPT ![s[2]] = @ + 1]
  /\ Ends(s)
  /\ UNCHANGED <<today, cached, answerVars, clearVars, era, telegramVars, noticeVars>>

\* telegram_queue_processor: takes a message and waits its turn.
TakeMessage ==
  /\ sending = NoMessage /\ queue # <<>>
  /\ sending' = Head(queue)
  /\ queue' = Tail(queue)
  /\ UNCHANGED <<today, cached, lineVars, answerVars, clearVars, askVars, shown, dropped, noticeVars>>

CountSent(many) ==
  IF sending.era = era THEN [many EXCEPT ![sending.ip] = @ + 1] ELSE many

SendMessage ==
  /\ sending.held /\ ~sending.flood /\ enabled
  /\ shown' = CountSent(shown)
  /\ sending' = NoMessage
  /\ UNCHANGED <<today, cached, lineVars, answerVars, clearVars, askVars, queue, dropped, noticeVars>>

\* The switch is off, or Telegram refuses the message for another reason.
DropMessage ==
  /\ sending.held /\ ~sending.flood
  /\ dropped' = CountSent(dropped)
  /\ sending' = NoMessage
  /\ UNCHANGED <<today, cached, lineVars, answerVars, clearVars, askVars, queue, shown, noticeVars>>

\* Flood control names a time to wait: then the message goes to the end.
Flooded ==
  /\ sending.held /\ ~sending.flood /\ enabled
  /\ sending' = [sending EXCEPT !.flood = TRUE]
  /\ UNCHANGED <<today, cached, lineVars, answerVars, clearVars, askVars, queue, shown, dropped, noticeVars>>

\* Mutant: the message waits in vain.
PutBackNot == UNCHANGED queue

PutBack == queue' = Append(queue, [sending EXCEPT !.flood = FALSE])

FloodEnds ==
  /\ sending.flood
  /\ PutBack
  /\ sending' = NoMessage
  /\ UNCHANGED <<today, cached, lineVars, answerVars, clearVars, askVars, shown, dropped, noticeVars>>

Toggle ==
  /\ toggles < MaxToggles
  /\ toggles' = toggles + 1
  /\ enabled' = ~enabled
  /\ UNCHANGED <<today, cached, lineVars, answerVars, clearVars, askVars, telegramVars>>

-----------------------------------------------------------------------------
(* Answers, commands and the cleanup *)

Answering(a, pc) == answer' = [answer EXCEPT ![a].pc = pc]

\* handle_unsure_callback: what the cached verdict was based on is learned,
\* then come the pattern, the override and the cache.
AnswerTeaches(a, ip) ==
  /\ answer[a].pc = "idle" /\ given[ip] < MaxAnswers
  /\ taught' = IF Cached(ip) THEN taught \cup {ip} ELSE taught
  /\ answer' = [answer EXCEPT ![a] = [pc |-> "pattern", ip |-> ip]]
  /\ UNCHANGED <<today, cached, override, pattern, given, lineVars, clearVars, askVars, telegramVars, noticeVars>>

AnswerPattern(a) ==
  /\ answer[a].pc = "pattern"
  /\ pattern' = [pattern EXCEPT ![answer[a].ip] = today + AnswerLife]
  /\ Answering(a, "override")
  /\ UNCHANGED <<today, cached, override, given, taught, lineVars, clearVars, askVars, telegramVars, noticeVars>>

AnswerOverride(a) ==
  LET ip == answer[a].ip IN
  /\ answer[a].pc = "override"
  /\ override' = [override EXCEPT ![ip] = today + AnswerLife]
  /\ given' = [given EXCEPT ![ip] = @ + 1]
  /\ Answering(a, "cache")
  /\ UNCHANGED <<today, cached, pattern, taught, lineVars, clearVars, askVars, telegramVars, noticeVars>>

AnswerInvalidates(a) ==
  /\ answer[a].pc = "cache"
  /\ cached' = [cached EXCEPT ![answer[a].ip] = NoVerdict]
  /\ answer' = [answer EXCEPT ![a] = NoAnswer]
  /\ UNCHANGED <<today, override, pattern, given, taught, lineVars, clearVars, askVars, telegramVars, noticeVars>>

\* A write that fails leaves what has been written.
AnswerFails(a) ==
  /\ answer[a].pc # "idle"
  /\ answer' = [answer EXCEPT ![a] = NoAnswer]
  /\ UNCHANGED <<today, cached, override, pattern, given, taught, lineVars, clearVars, askVars, telegramVars, noticeVars>>

\* /clear ip_cache, and /clear all, which goes on to the patterns and leaves
\* the overrides.
ClearCache ==
  /\ clears < MaxClears /\ ~clearing
  /\ clears' = clears + 1
  /\ cached' = [ip \in UnsureIps |-> NoVerdict]
  /\ clearing' \in BOOLEAN
  /\ UNCHANGED <<today, lineVars, answerVars, askVars, telegramVars, noticeVars>>

ClearPatterns ==
  /\ clearing
  /\ clearing' = FALSE
  /\ pattern' = [ip \in UnsureIps |-> 0]
  /\ UNCHANGED <<today, cached, override, answer, given, taught, clears, lineVars, askVars, telegramVars, noticeVars>>

\* /clear unsure, and the cleanup every six hours: all may be asked again.
ClearAsked ==
  /\ asked # {} /\ clears < MaxClears
  /\ clears' = clears + 1
  /\ asked' = {}
  /\ era' = era + 1
  /\ shown' = [ip \in UnsureIps |-> 0]
  /\ dropped' = [ip \in UnsureIps |-> 0]
  /\ failed' = [ip \in UnsureIps |-> 0]
  /\ UNCHANGED <<today, cached, clearing, lineVars, answerVars, queue, sending, noticeVars>>

\* cleanup_task removes what has expired.
CleanUp ==
  /\ \/ /\ cached' = [ip \in UnsureIps |-> IF Cached(ip) THEN cached[ip] ELSE NoVerdict]
        /\ UNCHANGED <<override, pattern>>
     \/ /\ pattern' = [ip \in UnsureIps |-> IF pattern[ip] > today THEN pattern[ip] ELSE 0]
        /\ UNCHANGED <<cached, override>>
     \/ /\ override' = [ip \in UnsureIps |-> IF Overridden(ip) THEN override[ip] ELSE 0]
        /\ UNCHANGED <<cached, pattern>>
  /\ UNCHANGED <<today, answer, given, taught, lineVars, clearVars, askVars, telegramVars, noticeVars>>

\* A day passes, which no line outlasts.
Midnight ==
  /\ today < MaxDays
  /\ \A s \in Slots : line[s].pc = "idle" \/ line[s].since = today
  /\ today' = today + 1
  /\ UNCHANGED <<cached, lineVars, answerVars, clearVars, askVars, telegramVars, noticeVars>>

BotNext ==
  \/ \E s \in Slots :
       \/ LineBegins(s)
       \/ LineReadsPattern(s)
       \/ LineReadsCache(s)
       \/ LineAnalyses(s)
       \/ LineCaches(s)
       \/ LineDecides(s)
       \/ LineAsks(s)
       \/ AskFails(s)
       \/ LineFails(s)
       \/ IpInfo(s)
  \/ TakeMessage
  \/ SendMessage
  \/ DropMessage
  \/ Flooded
  \/ FloodEnds
  \/ Toggle
  \/ \E a \in Admins :
       \/ \E ip \in UnsureIps : AnswerTeaches(a, ip)
       \/ AnswerPattern(a)
       \/ AnswerOverride(a)
       \/ AnswerInvalidates(a)
       \/ AnswerFails(a)
  \/ ClearCache
  \/ ClearPatterns
  \/ ClearAsked
  \/ CleanUp
  \/ Midnight

BotSpec == BotInit /\ [][BotNext]_botVars

-----------------------------------------------------------------------------
\* No line is decided by a verdict whose analysis began before an answer that
\* was there when the line began, though a slow analysis caches its verdict
\* after the answer has emptied the cache (app.py:1310).
AnswersStand ==
  \A s \in Slots :
    s[1] # Lookup /\ line[s].pc \in {"verdict", "decided", "asking"}
      => line[s].knew >= line[s].began

\* For each address marked since the last clearing there is one question, and
\* none for another: in the queue, in the processor's hands, sent, refused, or
\* lost because it failed between the mark and the queue, after which no line
\* asks again (app.py:1192, app.py:1200, app.py:2572).
QuestionsAreAsked ==
  \A ip \in UnsureIps :
    Cardinality({n \in DOMAIN queue : queue[n].ip = ip /\ queue[n].era = era})
    + (IF sending.held /\ sending.ip = ip /\ sending.era = era THEN 1 ELSE 0)
    + shown[ip] + dropped[ip] + failed[ip]
      = IF ip \in asked THEN 1 ELSE 0
=============================================================================
