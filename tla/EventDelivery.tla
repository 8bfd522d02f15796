--------------------------- MODULE EventDelivery ---------------------------
(***************************************************************************)
(* What the ingest pipeline promises, with the queue, the workers, the      *)
(* leases and the retries abstracted away.                                  *)
(*                                                                         *)
(* The committed effects of an event (its analysis row, behavioural         *)
(* evidence, review case, strike and enforcement job) are one entry of      *)
(* `journal`; the entry's position is the analysis id.  While the database  *)
(* remembers an analysis of an event, the event's effects are not           *)
(* committed again, and each committed analysis is announced at most once   *)
(* (auto-review and Telegram notification).                                 *)
(***************************************************************************)
EXTENDS Naturals, Sequences

CONSTANT Events     \* event uids a module may deliver

VARIABLES
  journal,          \* events in the order their effects were committed
  forgotten,        \* analysis ids whose rows maintenance has deleted
  announced         \* analysis ids in the order their post-commit work was done

vars == <<journal, forgotten, announced>>

Remembered(e) == \E i \in DOMAIN journal \ forgotten : journal[i] = e

Init ==
  /\ journal = <<>>
  /\ forgotten = {}
  /\ announced = <<>>

Commit(e) ==
  /\ ~Remembered(e)
  /\ journal' = Append(journal, e)
  /\ UNCHANGED <<forgotten, announced>>

Announce(i) ==
  /\ i \in DOMAIN journal
  /\ \A k \in DOMAIN announced : announced[k] # i
  /\ announced' = Append(announced, i)
  /\ UNCHANGED <<journal, forgotten>>

Forget(S) ==
  /\ S \subseteq DOMAIN journal
  /\ forgotten' = forgotten \cup S
  /\ UNCHANGED <<journal, announced>>

Next ==
  \/ \E e \in Events : Commit(e)
  \/ \E i \in DOMAIN journal : Announce(i)
  \/ \E S \in SUBSET DOMAIN journal : Forget(S)

Spec == Init /\ [][Next]_vars
=============================================================================
