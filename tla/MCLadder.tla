------------------------------ MODULE MCLadder ------------------------------
(* Instances of Ladder, CoreStats and CoreAnswers: the limiter and strikes of   *)
(* one user; the statistics of three verdicts over two days; three addresses    *)
(* looked up under a rate limit; an address asked about twice at once; and one  *)
(* answered twice over two days.  These share no state, so each is explored     *)
(* without the others.                                                          *)
EXTENDS Ladder, CoreStats, CoreAnswers, TLC

CONSTANTS u1, i1, i2, w1, w2

VARIABLE part

OneUser == {u1}
TwoWorkers == {w1, w2}
TwoIps == {i1, i2}
Symmetry == Permutations(TwoIps) \cup Permutations(TwoWorkers)
OneDuration == <<1>>

\* The limiter off, on trial, and in force.
Trial ==
  {[enabled |-> FALSE, rollout |-> "enforce", shadow |-> FALSE],
   [enabled |-> TRUE, rollout |-> "observe", shadow |-> FALSE],
   [enabled |-> TRUE, rollout |-> "enforce", shadow |-> FALSE]}

MCKeys == <<"as1", "as2">>

\* The list of providers ends after the first.
MCLists == {[of |-> {"as1", "as2"}, top |-> 1]}

\* The other parts rest: one of their initial states will do.
MCInit ==
  /\ Init
  /\ StatsInit
  /\ BotInit
  /\ part \in {"ladder", "tally", "lookup", "asking", "answering"}
  /\ part # "ladder" =>
       /\ settings = [enabled |-> FALSE, rollout |-> "enforce", shadow |-> FALSE]
       /\ tracker = [u \in Users |-> [i \in Ips |-> None]]
  /\ part # "asking" => ~enabled

\* Two lines of one address that need a review at once, on a day without
\* answers; and one line, a lookup and answers of an address as days pass,
\* with nothing asked.
AskingNext == BotNext /\ UNCHANGED <<today, given, answer>>
AnsweringNext == BotNext /\ UNCHANGED <<enabled, line["WIFI", "ip1"]>>

MCNext ==
  /\ UNCHANGED part
  /\ \/ part = "ladder" /\ Next /\ UNCHANGED <<statsVars, botVars>>
     \/ part = "tally" /\ Tally /\ UNCHANGED <<vars, botVars>>
     \/ part = "lookup" /\ LookUp /\ UNCHANGED <<vars, botVars>>
     \/ part = "asking" /\ AskingNext /\ UNCHANGED <<vars, statsVars>>
     \/ part = "answering" /\ AnsweringNext /\ UNCHANGED <<vars, statsVars>>

MCSpec == MCInit /\ [][MCNext]_<<part, vars, statsVars, botVars>>
=============================================================================
