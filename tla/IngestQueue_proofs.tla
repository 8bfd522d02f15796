------------------------- MODULE IngestQueue_proofs -------------------------
(***************************************************************************)
(* Proofs about IngestQueue, for any number of events and workers, any      *)
(* batch size and attempt budget, and any bounds.                           *)
(*                                                                         *)
(* TypeOK is inductive.  EffectsOnce is not: a commit is only known to be   *)
(* the first because the analysis table still holds every analysis that     *)
(* maintenance did not delete.  MemoryIsComplete says that, and CommitInv   *)
(* adds it.                                                                 *)
(*                                                                         *)
(* RowsAreSound and ReopenedOnlyAfterEffects need more.  RowInv: row ids    *)
(* are not given out again, a processed row links to an analysis of its own *)
(* event, and what a worker found before a commit is an analysis of the     *)
(* head of its batch.  HoldInv counts: each lost lease or row, and each     *)
(* claim from an outdated reading, excuses one more holder and one more try. *)
(***************************************************************************)
EXTENDS IngestQueue, FiniteSetTheorems, TLAPS

(* Type correctness holds initially. *)
LEMMA InitTypeOK == Init => TypeOK
<1>. SUFFICES ASSUME Init PROVE TypeOK
  OBVIOUS
<1>1. rows \in [Events -> Row] /\ arrivals \in Nat
  BY DEF Init, Row, RowStates, Absent
<1>2. analyses \in [Events -> Nat] /\ lost \in [Events -> Nat]
  BY DEF Init
<1>3. /\ claims \in [Workers -> SUBSET ClaimRecord]
      /\ selected \in [Workers -> SUBSET [event : Events, id : Nat]]
  BY DEF Init
<1>4. /\ pc \in [Workers -> Positions]
      /\ aux \in [Workers -> [analysis : Nat, permanent : BOOLEAN]]
  BY DEF Init, Idle, Positions
<1>5. /\ journal \in Seq(Events) /\ forgotten \in SUBSET Nat
      /\ announced \in Seq(Nat) /\ exempted \in SUBSET Events
  BY DEF Init
<1>6. bound \in [events : SUBSET Events, losses : Nat, expiries : Nat, purges : Nat]
  BY IngestAssumption DEF Init
<1>. QED BY <1>1, <1>2, <1>3, <1>4, <1>5, <1>6 DEF TypeOK

(* What is left of the bounds. *)
LEMMA BoundLeft ==
  ASSUME NEW b \in [events : SUBSET Events, losses : Nat, expiries : Nat, purges : Nat]
  PROVE  LET B == [events : SUBSET Events, losses : Nat, expiries : Nat, purges : Nat]
         IN /\ b.losses > 0 => [b EXCEPT !.losses = @ - 1] \in B
            /\ b.expiries > 0 => [b EXCEPT !.expiries = @ - 1] \in B
            /\ b.purges > 0 => [b EXCEPT !.purges = @ - 1] \in B
<1>1. b.losses > 0 => b.losses - 1 \in Nat
  OBVIOUS
<1>2. b.expiries > 0 => b.expiries - 1 \in Nat
  OBVIOUS
<1>3. b.purges > 0 => b.purges - 1 \in Nat
  OBVIOUS
<1>. QED BY <1>1, <1>2, <1>3, Zenon

(* The updates of a row leave a row. *)
LEMMA RowUpdates ==
  ASSUME NEW r \in Row, NEW link \in Nat, NEW deadLetter \in BOOLEAN
  PROVE  /\ Claimed(r) \in Row /\ Reclaimed(r) \in Row
         /\ Processed(r, link) \in Row /\ Skipped(r) \in Row
         /\ Retried(r, deadLetter) \in Row
<1>1. Claimed(r) \in Row /\ Reclaimed(r) \in Row
  <2>1. r.attempts + 1 \in Nat
    BY DEF Row
  <2>2. Claimed(r) \in Row
    BY <2>1, Zenon DEF Row, RowStates, Claimed
  <2>3. Reclaimed(r) \in Row
    BY DEF Row, RowStates, Reclaimed
  <2>. QED BY <2>2, <2>3
<1>2. Processed(r, link) \in Row /\ Skipped(r) \in Row
  BY DEF Row, RowStates, Processed, Skipped
<1>3. Retried(r, deadLetter) \in Row
  BY DEF Row, RowStates, Retried
<1>. QED BY <1>1, <1>2, <1>3

(* What the actions of the batch head do to the worker's own variables. *)
LEMMA WorkerTypes ==
  ASSUME TypeOK, NEW w \in Workers, NEW c,
         \/ Advance(w, c)
         \/ \E position \in Positions, analysis \in Nat, permanent \in BOOLEAN :
              Goto(w, position, analysis, permanent)
  PROVE  /\ claims' \in [Workers -> SUBSET ClaimRecord]
         /\ selected' \in [Workers -> SUBSET [event : Events, id : Nat]]
         /\ pc' \in [Workers -> Positions]
         /\ aux' \in [Workers -> [analysis : Nat, permanent : BOOLEAN]]
<1>1. CASE Advance(w, c)
  BY <1>1 DEF TypeOK, Advance, Idle, Positions
<1>2. CASE \E position \in Positions, analysis \in Nat, permanent \in BOOLEAN :
             Goto(w, position, analysis, permanent)
  BY <1>2 DEF TypeOK, Goto
<1>. QED BY <1>1, <1>2

(* The claim: the rows it stamps and the records it hands to the worker. *)
LEMMA ClaimTypes ==
  ASSUME TypeOK, NEW w \in Workers, ClaimSelect(w) \/ ClaimUpdate(w)
  PROVE  TypeOK'
<1>1. \A e \in Events : /\ RecordOf(e) \in ClaimRecord
                        /\ [event |-> e, id |-> rows[e].id] \in [event : Events, id : Nat]
  BY DEF TypeOK, RecordOf, ClaimRecord, Row
<1>2. \A e \in Events : Claimed(rows[e]) \in Row /\ Reclaimed(rows[e]) \in Row
  BY RowUpdates DEF TypeOK
<1>4. CASE ClaimSelect(w)
  <2>. USE <1>4 DEF ClaimSelect
  <2>1. PICK chosen \in SUBSET Events :
          /\ rows' = [e \in Events |->
                        CASE e \in Expired \cap chosen -> Claimed(rows[e])
                          [] e \in Expired \ chosen -> Reclaimed(rows[e])
                          [] OTHER -> rows[e]]
          /\ claims' = [claims EXCEPT
                          ![w] = {RecordOf(e) : e \in chosen \cap Expired}]
          /\ selected' = [selected EXCEPT
                            ![w] = {[event |-> e, id |-> rows[e].id] :
                                      e \in chosen \ Expired}]
    OBVIOUS
  <2>2. rows' \in [Events -> Row]
    BY <1>2, <2>1 DEF TypeOK
  <2>3. claims' \in [Workers -> SUBSET ClaimRecord]
    BY <1>1, <2>1 DEF TypeOK
  <2>4. selected' \in [Workers -> SUBSET [event : Events, id : Nat]]
    BY <1>1, <2>1 DEF TypeOK
  <2>5. lost' \in [Events -> Nat]
    BY DEF TypeOK, LoseLeases
  <2>6. pc' \in [Workers -> Positions]
    BY DEF TypeOK, Positions
  <2>. QED BY <2>2, <2>3, <2>4, <2>5, <2>6 DEF TypeOK, effectVars
<1>5. CASE ClaimUpdate(w)
  <2>. USE <1>5 DEF ClaimUpdate
  <2>. DEFINE taken == {e \in Events : [event |-> e, id |-> rows[e].id] \in selected[w]}
  <2>2. rows' \in [Events -> Row]
    BY <1>2 DEF TypeOK
  <2>3. claims' \in [Workers -> SUBSET ClaimRecord]
    <3>1. claims' = [claims EXCEPT ![w] = @ \cup {RecordOf(e) : e \in taken}]
      OBVIOUS
    <3>2. {RecordOf(e) : e \in taken} \subseteq ClaimRecord
      BY <1>1
    <3>. QED BY <3>1, <3>2 DEF TypeOK
  <2>4. selected' \in [Workers -> SUBSET [event : Events, id : Nat]]
    BY DEF TypeOK
  <2>5. pc' \in [Workers -> Positions]
    BY DEF TypeOK, Positions
  <2>6. lost' \in [Events -> Nat]
    BY DEF TypeOK
  <2>. QED BY <2>2, <2>3, <2>4, <2>5, <2>6 DEF TypeOK, effectVars
<1>. QED BY <1>4, <1>5

(* The steps of the worker on the head of its batch. *)
LEMMA HeadStepTypes ==
  ASSUME TypeOK, NEW w \in Workers, NEW c \in claims[w], HeadStep(w, c)
  PROVE  TypeOK'
<1>. c \in ClaimRecord /\ c.event \in Events /\ c.attempts \in Nat
  BY DEF TypeOK, ClaimRecord
<1>. rows[c.event] \in Row /\ aux[w] \in [analysis : Nat, permanent : BOOLEAN]
  BY DEF TypeOK
<1>. aux[w].analysis \in Nat
  BY DEF TypeOK
<1>. Len(journal) + 1 \in Nat
  BY DEF TypeOK
<1>. "failing" \in Positions /\ "commit" \in Positions /\ "post" \in Positions
  BY DEF Positions
<1>1. CASE SkipExempt(w, c)
  <2>1. Skipped(rows[c.event]) \in Row
    BY RowUpdates
  <2>. QED BY <1>1, <2>1, WorkerTypes DEF SkipExempt, TypeOK
<1>2. CASE BeginCommit(w, c)
  <2>1. analyses[c.event] \in Nat
    BY DEF TypeOK
  <2>. QED BY <1>2, <2>1, WorkerTypes DEF BeginCommit, TypeOK, queueVars, effectVars
<1>3. CASE CommitEffects(w, c)
  <2>1. Processed(rows[c.event], Len(journal) + 1) \in Row
    BY RowUpdates
  <2>2. Append(journal, c.event) \in Seq(Events)
    BY DEF TypeOK
  <2>. QED BY <1>3, <2>1, <2>2, WorkerTypes DEF CommitEffects, TypeOK
<1>4. CASE CommitDuplicate(w, c)
  <2>1. Processed(rows[c.event], aux[w].analysis) \in Row
    BY RowUpdates
  <2>. QED BY <1>4, <2>1, WorkerTypes DEF CommitDuplicate, TypeOK, effectVars
<1>5. CASE IndexConflict(w, c)
  BY <1>5, WorkerTypes DEF IndexConflict, TypeOK, queueVars, effectVars
<1>6. CASE FinishEvent(w, c)
  <2>1. Append(announced, aux[w].analysis) \in Seq(Nat)
    BY DEF TypeOK
  <2>. QED BY <1>6, <2>1, WorkerTypes DEF FinishEvent, TypeOK, queueVars
<1>7. CASE MarkRetry(w, c)
  <2>1. Retried(rows[c.event], aux[w].permanent \/ c.attempts >= MaxAttempts) \in Row
    BY RowUpdates
  <2>. QED BY <1>7, <2>1, WorkerTypes DEF MarkRetry, TypeOK, effectVars
<1>8. CASE \E permanent \in BOOLEAN : FailBeforeCommit(w, c, permanent)
  <2>1. PICK permanent \in BOOLEAN : FailBeforeCommit(w, c, permanent)
    BY <1>8
  <2>2. Goto(w, "failing", 0, permanent)
    BY <2>1 DEF FailBeforeCommit
  <2>3. /\ claims' \in [Workers -> SUBSET ClaimRecord]
        /\ selected' \in [Workers -> SUBSET [event : Events, id : Nat]]
        /\ pc' \in [Workers -> Positions]
        /\ aux' \in [Workers -> [analysis : Nat, permanent : BOOLEAN]]
    BY <2>2, WorkerTypes
  <2>. QED BY <2>1, <2>3 DEF FailBeforeCommit, TypeOK, queueVars, effectVars
<1>9. CASE \E permanent \in BOOLEAN : FailAfterCommit(w, c, permanent)
  <2>1. PICK permanent \in BOOLEAN : FailAfterCommit(w, c, permanent)
    BY <1>9
  <2>2. Goto(w, "failing", aux[w].analysis, permanent)
    BY <2>1 DEF FailAfterCommit
  <2>3. /\ claims' \in [Workers -> SUBSET ClaimRecord]
        /\ selected' \in [Workers -> SUBSET [event : Events, id : Nat]]
        /\ pc' \in [Workers -> Positions]
        /\ aux' \in [Workers -> [analysis : Nat, permanent : BOOLEAN]]
    BY <2>2, WorkerTypes
  <2>. QED BY <2>1, <2>3 DEF FailAfterCommit, TypeOK, queueVars, effectVars
<1>. QED BY <1>1, <1>2, <1>3, <1>4, <1>5, <1>6, <1>7, <1>8, <1>9 DEF HeadStep

(* Every step preserves type correctness. *)
LEMMA NextTypeOK == TypeOK /\ [Next]_vars => TypeOK'
<1>. SUFFICES ASSUME TypeOK, [Next]_vars PROVE TypeOK'
  OBVIOUS
<1>. USE DEF queueVars, workerVars, effectVars
<1>1. ASSUME NEW e \in Events, Enqueue(e) PROVE TypeOK'
  <2>1. Fresh(e) \in Row
    <3>1. arrivals + 1 \in Nat
      BY DEF TypeOK
    <3>2. Absent \in Row
      BY DEF Absent, Row, RowStates
    <3>. QED BY <3>1, <3>2, Zenon DEF Fresh, Row, RowStates
  <2>2. rows' \in [Events -> Row] /\ arrivals' \in Nat
    <3>1. CASE e \in Present
      BY <1>1, <3>1 DEF Enqueue, TypeOK
    <3>2. CASE e \notin Present
      <4>1. rows' = [rows EXCEPT ![e] = Fresh(e)] /\ arrivals' = arrivals + 1
        BY <1>1, <3>2 DEF Enqueue
      <4>. QED BY <2>1, <4>1 DEF TypeOK
    <3>. QED BY <3>1, <3>2
  <2>. QED BY <1>1, <2>2 DEF Enqueue, TypeOK
<1>2. ASSUME NEW e \in Events, BackoffElapses(e) PROVE TypeOK'
  BY <1>2 DEF BackoffElapses, TypeOK, Row
<1>3. ASSUME NEW e \in Events, LeaseExpires(e) PROVE TypeOK'
  <2>1. rows' \in [Events -> Row]
    BY ZenonT(60), <1>3 DEF LeaseExpires, TypeOK, Row
  <2>2. bound' \in [events : SUBSET Events, losses : Nat, expiries : Nat, purges : Nat]
    <3>1. bound' = bound \/ (bound.expiries > 0 /\ bound' = [bound EXCEPT !.expiries = @ - 1])
      BY <1>3 DEF LeaseExpires
    <3>2. bound \in [events : SUBSET Events, losses : Nat, expiries : Nat, purges : Nat]
      BY DEF TypeOK
    <3>. QED BY <3>1, <3>2, BoundLeft
  <2>. QED BY <1>3, <2>1, <2>2 DEF LeaseExpires, TypeOK
<1>4. ASSUME NEW w \in Workers, WorkerStep(w) PROVE TypeOK'
  BY <1>4, ClaimTypes, HeadStepTypes DEF WorkerStep
<1>5. ASSUME NEW w \in Workers, LoseBatch(w) PROVE TypeOK'
  <2>1. bound' \in [events : SUBSET Events, losses : Nat, expiries : Nat, purges : Nat]
    <3>1. bound.losses > 0 /\ bound' = [bound EXCEPT !.losses = @ - 1]
      BY <1>5 DEF LoseBatch
    <3>2. bound \in [events : SUBSET Events, losses : Nat, expiries : Nat, purges : Nat]
      BY DEF TypeOK
    <3>. QED BY <3>1, <3>2, BoundLeft
  <2>. QED BY <1>5, <2>1 DEF LoseBatch, TypeOK, Idle, Positions
<1>6. ASSUME NEW R \in SUBSET Present, NEW A \in SUBSET {e \in Events : analyses[e] # 0},
             Maintenance(R, A)
      PROVE  TypeOK'
  <2>. USE <1>6 DEF Maintenance
  <2>1. rows' \in [Events -> Row]
    BY DEF TypeOK, Absent, Row, RowStates
  <2>2. analyses' \in [Events -> Nat] /\ lost' \in [Events -> Nat]
    BY DEF TypeOK
  <2>3. forgotten' \in SUBSET Nat
    BY DEF TypeOK
  <2>4. bound' \in [events : SUBSET Events, losses : Nat, expiries : Nat, purges : Nat]
    <3>1. bound.purges > 0 /\ bound' = [bound EXCEPT !.purges = @ - 1]
      OBVIOUS
    <3>2. bound \in [events : SUBSET Events, losses : Nat, expiries : Nat, purges : Nat]
      BY DEF TypeOK
    <3>. QED BY <3>1, <3>2, BoundLeft
  <2>. QED BY <2>1, <2>2, <2>3, <2>4 DEF TypeOK
<1>7. CASE UNCHANGED vars
  BY <1>7 DEF vars, TypeOK
<1>. QED BY <1>1, <1>2, <1>3, <1>4, <1>5, <1>6, <1>7 DEF Next, MaintenanceStep

(* Type correctness: every reachable state of the queue, its workers and    *)
(* the history is of the declared shape.                                    *)
THEOREM TypeCorrect == Spec => []TypeOK
<1>1. Init => TypeOK BY InitTypeOK
<1>2. TypeOK /\ [Next]_vars => TypeOK' BY NextTypeOK
<1>. QED BY <1>1, <1>2, PTL DEF Spec

-----------------------------------------------------------------------------
(* The inductive invariant *)

(* The analysis table holds every committed analysis that maintenance did   *)
(* not delete, and nothing that was not committed.                          *)
MemoryIsComplete ==
  /\ \A i \in DOMAIN journal : i \in forgotten \/ analyses[journal[i]] = i
  /\ \A e \in Events : analyses[e] \in 0 .. Len(journal)

(* What waits for its post-commit work was committed, is not announced yet, *)
(* and is waited for by one worker only.                                    *)
PostIsPending ==
  /\ \A k \in DOMAIN announced : announced[k] \in DOMAIN journal
  /\ \A w \in Workers : pc[w] = "post" =>
       /\ aux[w].analysis \in DOMAIN journal
       /\ \A k \in DOMAIN announced : announced[k] # aux[w].analysis
  /\ \A v, w \in Workers : v # w /\ pc[v] = "post" /\ pc[w] = "post" =>
       aux[v].analysis # aux[w].analysis

CommitInv == TypeOK /\ MemoryIsComplete /\ EffectsOnce /\ PostIsPending

(* A step that commits, announces and deletes nothing, and that starts no   *)
(* post-commit work.                                                        *)
Quiet ==
  /\ UNCHANGED <<analyses, journal, forgotten, announced>>
  /\ \A w \in Workers : pc'[w] = "post" => pc[w] = "post" /\ aux'[w] = aux[w]

(* All but three actions are quiet. *)
LEMMA QuietSteps ==
  ASSUME TypeOK, [Next]_vars
  PROVE  \/ Quiet
         \/ \E w \in Workers : \E c \in claims[w] : CommitEffects(w, c) \/ FinishEvent(w, c)
         \/ MaintenanceStep
<1>. USE DEF queueVars, workerVars, effectVars
<1>1. ASSUME NEW e \in Events, Enqueue(e) \/ BackoffElapses(e) \/ LeaseExpires(e)
      PROVE  Quiet
  BY <1>1 DEF Enqueue, BackoffElapses, LeaseExpires, Quiet
<1>2. ASSUME NEW w \in Workers, ClaimSelect(w) \/ ClaimUpdate(w)
      PROVE  Quiet
  BY <1>2 DEF TypeOK, ClaimSelect, ClaimUpdate, Quiet
<1>3. ASSUME NEW w \in Workers, NEW c \in claims[w], HeadStep(w, c)
      PROVE  Quiet \/ CommitEffects(w, c) \/ FinishEvent(w, c)
  <2>1. ASSUME Advance(w, c) PROVE \A v \in Workers : pc'[v] = "post" => pc[v] = "post" /\ aux'[v] = aux[v]
    BY <2>1 DEF TypeOK, Advance
  <2>2. ASSUME NEW position \in {"commit", "failing"}, NEW analysis, NEW permanent,
               Goto(w, position, analysis, permanent)
        PROVE  \A v \in Workers : pc'[v] = "post" => pc[v] = "post" /\ aux'[v] = aux[v]
    BY <2>2 DEF TypeOK, Goto
  <2>3. CASE SkipExempt(w, c) \/ CommitDuplicate(w, c) \/ MarkRetry(w, c)
    BY <2>1, <2>3 DEF SkipExempt, CommitDuplicate, MarkRetry, Quiet
  <2>4. CASE BeginCommit(w, c) \/ IndexConflict(w, c)
    BY <2>2, <2>4 DEF BeginCommit, IndexConflict, Quiet
  <2>5. CASE \E permanent \in BOOLEAN : FailBeforeCommit(w, c, permanent) \/ FailAfterCommit(w, c, permanent)
    BY <2>2, <2>5 DEF FailBeforeCommit, FailAfterCommit, Quiet
  <2>. QED BY <1>3, <2>3, <2>4, <2>5 DEF HeadStep
<1>4. ASSUME NEW w \in Workers, LoseBatch(w) PROVE Quiet
  BY <1>4 DEF TypeOK, LoseBatch, Quiet
<1>5. CASE UNCHANGED vars
  BY <1>5 DEF vars, Quiet
<1>. QED BY <1>1, <1>2, <1>3, <1>4, <1>5 DEF Next, WorkerStep

(* A commit appends an event of which no analysis is remembered.            *)
LEMMA CommitAppends ==
  ASSUME TypeOK, NEW w \in Workers, NEW c \in claims[w], CommitEffects(w, c)
  PROVE  /\ c.event \in Events /\ analyses[c.event] = 0
         /\ journal' = Append(journal, c.event)
         /\ analyses' = [analyses EXCEPT ![c.event] = Len(journal) + 1]
         /\ UNCHANGED <<forgotten, announced>>
         /\ pc' = [pc EXCEPT ![w] = "post"]
         /\ aux'[w].analysis = Len(journal) + 1
         /\ \A v \in Workers : v # w => aux'[v] = aux[v]
  BY DEF TypeOK, ClaimRecord, CommitEffects, IndexAdmits, Goto

(* Finishing an event announces the analysis the worker waits for.          *)
LEMMA FinishAnnounces ==
  ASSUME TypeOK, NEW w \in Workers, NEW c, FinishEvent(w, c)
  PROVE  /\ pc[w] = "post"
         /\ announced' = Append(announced, aux[w].analysis)
         /\ UNCHANGED <<analyses, journal, forgotten>>
         /\ pc' = [pc EXCEPT ![w] = "ready"]
         /\ \A v \in Workers : v # w => aux'[v] = aux[v]
  BY DEF TypeOK, FinishEvent, Advance

(* Maintenance forgets only committed analyses. *)
LEMMA MaintenanceForgets ==
  ASSUME TypeOK, MemoryIsComplete, MaintenanceStep
  PROVE  \E A \in SUBSET {e \in Events : analyses[e] # 0} :
           /\ analyses' = [e \in Events |-> IF e \in A THEN 0 ELSE analyses[e]]
           /\ forgotten' = forgotten \cup {analyses[e] : e \in A}
           /\ {analyses[e] : e \in A} \subseteq DOMAIN journal
           /\ UNCHANGED <<journal, announced, pc, aux>>
<1>1. PICK R \in SUBSET Present, A \in SUBSET {e \in Events : analyses[e] # 0} :
        Maintenance(R, A)
  BY DEF MaintenanceStep
<1>2. \A e \in A : analyses[e] \in DOMAIN journal
  BY DEF TypeOK, MemoryIsComplete
<1>. QED BY <1>1, <1>2 DEF Maintenance, workerVars

(* MemoryIsComplete is preserved. *)
LEMMA NextMemory ==
  ASSUME TypeOK, MemoryIsComplete, [Next]_vars
  PROVE  MemoryIsComplete'
<1>1. CASE Quiet
  BY <1>1 DEF Quiet, MemoryIsComplete
<1>2. ASSUME NEW w \in Workers, NEW c \in claims[w], CommitEffects(w, c)
      PROVE  MemoryIsComplete'
  <2>1. /\ c.event \in Events /\ analyses[c.event] = 0
        /\ journal' = Append(journal, c.event)
        /\ analyses' = [analyses EXCEPT ![c.event] = Len(journal) + 1]
        /\ UNCHANGED forgotten
    BY <1>2, CommitAppends
  <2>2. journal \in Seq(Events) /\ analyses \in [Events -> Nat]
    BY DEF TypeOK
  <2>3. ASSUME NEW i \in DOMAIN journal'
        PROVE  i \in forgotten' \/ analyses'[journal'[i]] = i
    <3>1. CASE i = Len(journal) + 1
      BY <2>1, <2>2, <3>1
    <3>2. CASE i \in DOMAIN journal
      <4>1. journal'[i] = journal[i] /\ journal[i] \in Events /\ i # 0
        BY <2>1, <2>2, <3>2
      <4>2. i \in forgotten \/ analyses[journal[i]] = i
        BY <3>2 DEF MemoryIsComplete
      <4>. QED BY <2>1, <2>2, <4>1, <4>2
    <3>. QED BY <2>1, <2>2, <3>1, <3>2
  <2>4. ASSUME NEW e \in Events PROVE analyses'[e] \in 0 .. Len(journal')
    BY <2>1, <2>2 DEF MemoryIsComplete
  <2>. QED BY <2>3, <2>4 DEF MemoryIsComplete
<1>3. ASSUME NEW w \in Workers, NEW c \in claims[w], FinishEvent(w, c)
      PROVE  MemoryIsComplete'
  BY <1>3, FinishAnnounces DEF MemoryIsComplete
<1>4. CASE MaintenanceStep
  <2>1. PICK A \in SUBSET {e \in Events : analyses[e] # 0} :
          /\ analyses' = [e \in Events |-> IF e \in A THEN 0 ELSE analyses[e]]
          /\ forgotten' = forgotten \cup {analyses[e] : e \in A}
          /\ UNCHANGED journal
    BY <1>4, MaintenanceForgets
  <2>2. journal \in Seq(Events) /\ analyses \in [Events -> Nat]
    BY DEF TypeOK
  <2>3. ASSUME NEW i \in DOMAIN journal'
        PROVE  i \in forgotten' \/ analyses'[journal'[i]] = i
    <3>1. journal[i] \in Events /\ (i \in forgotten \/ analyses[journal[i]] = i)
      BY <2>1, <2>2 DEF MemoryIsComplete
    <3>. QED BY <2>1, <3>1
  <2>4. ASSUME NEW e \in Events PROVE analyses'[e] \in 0 .. Len(journal')
    BY <2>1, <2>2 DEF MemoryIsComplete
  <2>. QED BY <2>3, <2>4 DEF MemoryIsComplete
<1>. QED BY <1>1, <1>2, <1>3, <1>4, QuietSteps

(* EffectsOnce is preserved: an event is committed again only when all its  *)
(* earlier analyses are forgotten.                                          *)
LEMMA NextEffectsOnce ==
  ASSUME TypeOK, MemoryIsComplete, EffectsOnce, [Next]_vars
  PROVE  EffectsOnce'
<1>1. CASE Quiet
  BY <1>1 DEF Quiet, EffectsOnce
<1>2. ASSUME NEW w \in Workers, NEW c \in claims[w], CommitEffects(w, c)
      PROVE  EffectsOnce'
  <2>1. /\ c.event \in Events /\ analyses[c.event] = 0
        /\ journal' = Append(journal, c.event)
        /\ UNCHANGED forgotten
    BY <1>2, CommitAppends
  <2>2. journal \in Seq(Events)
    BY DEF TypeOK
  <2>3. SUFFICES ASSUME NEW i \in DOMAIN journal', NEW j \in DOMAIN journal',
                        i < j, journal'[i] = journal'[j]
                 PROVE  i \in forgotten'
    BY DEF EffectsOnce
  <2>4. i \in DOMAIN journal /\ i # 0 /\ journal'[i] = journal[i]
    BY <2>1, <2>2, <2>3
  <2>5. CASE j \in DOMAIN journal
    <3>1. journal'[j] = journal[j]
      BY <2>1, <2>2, <2>5
    <3>2. journal[i] = journal[j]
      BY <2>3, <2>4, <3>1
    <3>. QED BY <2>1, <2>3, <2>4, <2>5, <3>2 DEF EffectsOnce
  <2>6. CASE j = Len(journal) + 1
    <3>1. journal'[j] = c.event
      BY <2>1, <2>2, <2>6
    <3>2. journal[i] = c.event
      BY <2>3, <2>4, <3>1
    <3>. QED BY <2>1, <2>4, <3>2 DEF MemoryIsComplete
  <2>7. j \in DOMAIN journal \/ j = Len(journal) + 1
    BY <2>1, <2>2, <2>3
  <2>. QED BY <2>5, <2>6, <2>7
<1>3. ASSUME NEW w \in Workers, NEW c \in claims[w], FinishEvent(w, c)
      PROVE  EffectsOnce'
  BY <1>3, FinishAnnounces DEF EffectsOnce
<1>4. CASE MaintenanceStep
  <2>1. UNCHANGED journal /\ forgotten \subseteq forgotten'
    BY <1>4, MaintenanceForgets
  <2>. QED BY <2>1 DEF EffectsOnce
<1>. QED BY <1>1, <1>2, <1>3, <1>4, QuietSteps

(* PostIsPending is preserved. *)
LEMMA NextPending ==
  ASSUME TypeOK, PostIsPending, [Next]_vars
  PROVE  PostIsPending'
<1>. journal \in Seq(Events) /\ announced \in Seq(Nat) /\ pc \in [Workers -> Positions]
     /\ aux \in [Workers -> [analysis : Nat, permanent : BOOLEAN]]
  BY DEF TypeOK
<1>1. CASE Quiet
  BY <1>1 DEF Quiet, PostIsPending
<1>2. ASSUME NEW w \in Workers, NEW c \in claims[w], CommitEffects(w, c)
      PROVE  PostIsPending'
  <2>1. /\ journal' = Append(journal, c.event) /\ c.event \in Events
        /\ UNCHANGED announced
        /\ pc' = [pc EXCEPT ![w] = "post"]
        /\ aux'[w].analysis = Len(journal) + 1
        /\ \A v \in Workers : v # w => aux'[v] = aux[v]
    BY <1>2, CommitAppends
  <2>2. DOMAIN journal \subseteq DOMAIN journal' /\ Len(journal) + 1 \in DOMAIN journal'
        /\ Len(journal) + 1 \notin DOMAIN journal
    BY <2>1
  <2>3. \A v \in Workers : v # w /\ pc'[v] = "post" =>
          pc[v] = "post" /\ aux'[v].analysis = aux[v].analysis
    BY <2>1
  <2>4. \A k \in DOMAIN announced' : announced'[k] \in DOMAIN journal
    BY <2>1 DEF PostIsPending
  <2>5. \A v \in Workers : v # w /\ pc'[v] = "post" => aux'[v].analysis \in DOMAIN journal
    BY <2>3 DEF PostIsPending
  <2>6. ASSUME NEW v \in Workers, pc'[v] = "post"
        PROVE  /\ aux'[v].analysis \in DOMAIN journal'
               /\ \A k \in DOMAIN announced' : announced'[k] # aux'[v].analysis
    <3>1. CASE v = w
      BY <2>1, <2>2, <2>4, <3>1
    <3>2. CASE v # w
      BY <2>1, <2>2, <2>3, <2>5, <2>6, <3>2 DEF PostIsPending
    <3>. QED BY <3>1, <3>2
  <2>7. ASSUME NEW u \in Workers, NEW v \in Workers, u # v, pc'[u] = "post", pc'[v] = "post"
        PROVE  aux'[u].analysis # aux'[v].analysis
    <3>1. CASE u = w \/ v = w
      BY <2>1, <2>2, <2>5, <2>7, <3>1
    <3>2. CASE u # w /\ v # w
      BY <2>3, <2>7, <3>2 DEF PostIsPending
    <3>. QED BY <3>1, <3>2
  <2>. QED BY <2>2, <2>4, <2>6, <2>7 DEF PostIsPending
<1>3. ASSUME NEW w \in Workers, NEW c \in claims[w], FinishEvent(w, c)
      PROVE  PostIsPending'
  <2>1. /\ pc[w] = "post"
        /\ announced' = Append(announced, aux[w].analysis)
        /\ UNCHANGED journal
        /\ pc' = [pc EXCEPT ![w] = "ready"]
        /\ \A v \in Workers : v # w => aux'[v] = aux[v]
    BY <1>3, FinishAnnounces
  <2>2. \A k \in DOMAIN announced' :
          \/ k \in DOMAIN announced /\ announced'[k] = announced[k]
          \/ announced'[k] = aux[w].analysis
    BY <2>1
  <2>3. \A v \in Workers : pc'[v] = "post" => v # w /\ pc[v] = "post" /\ aux'[v] = aux[v]
    BY <2>1
  <2>. QED BY <2>1, <2>2, <2>3 DEF PostIsPending
<1>4. CASE MaintenanceStep
  <2>1. UNCHANGED <<journal, announced, pc, aux>>
    BY <1>4 DEF MaintenanceStep, Maintenance, workerVars
  <2>. QED BY <2>1 DEF PostIsPending
<1>. QED BY <1>1, <1>2, <1>3, <1>4, QuietSteps

(* CommitInv is inductive. *)
LEMMA CommitInvHolds == Spec => []CommitInv
<1>1. Init => CommitInv
  <2>1. Init => MemoryIsComplete /\ EffectsOnce /\ PostIsPending
    BY DEF Init, MemoryIsComplete, EffectsOnce, PostIsPending
  <2>. QED BY <2>1, InitTypeOK DEF CommitInv
<1>2. CommitInv /\ [Next]_vars => CommitInv'
  BY NextTypeOK, NextMemory, NextEffectsOnce, NextPending DEF CommitInv
<1>. QED BY <1>1, <1>2, PTL DEF Spec

(* Effects are committed once: whatever the leases, retries, crashes and    *)
(* overlapping transactions do, the effects of an event are committed a     *)
(* second time only after maintenance deleted the earlier analysis.         *)
THEOREM EffectsCommittedOnce == Spec => []EffectsOnce
<1>1. CommitInv => EffectsOnce BY DEF CommitInv
<1>. QED BY <1>1, CommitInvHolds, PTL

(* The queue implements EventDelivery: every step commits an event that is  *)
(* not remembered, announces a committed analysis for the first time,       *)
(* forgets analyses, or changes nothing the abstract specification sees.    *)
THEOREM QueueImplementsDelivery == Spec => Delivery
<1>1. Init => D!Init
  BY DEF Init, D!Init
<1>2. CommitInv /\ [Next]_vars => [D!Next]_D!vars
  <2>. SUFFICES ASSUME CommitInv, [Next]_vars PROVE D!Next \/ UNCHANGED D!vars
    OBVIOUS
  <2>. USE DEF CommitInv
  <2>1. CASE Quiet
    BY <2>1 DEF Quiet, D!vars
  <2>2. ASSUME NEW w \in Workers, NEW c \in claims[w], CommitEffects(w, c)
        PROVE  D!Next
    <3>1. /\ c.event \in Events /\ analyses[c.event] = 0
          /\ journal' = Append(journal, c.event)
          /\ UNCHANGED <<forgotten, announced>>
      BY <2>2, CommitAppends
    <3>2. ~D!Remembered(c.event)
      <4>1. \A i \in DOMAIN journal : i # 0
        BY DEF TypeOK
      <4>. QED BY <3>1, <4>1 DEF MemoryIsComplete, D!Remembered
    <3>3. D!Commit(c.event)
      BY <3>1, <3>2 DEF D!Commit
    <3>. QED BY <3>1, <3>3 DEF D!Next
  <2>3. ASSUME NEW w \in Workers, NEW c \in claims[w], FinishEvent(w, c)
        PROVE  D!Next
    <3>1. D!Announce(aux[w].analysis)
      BY <2>3, FinishAnnounces DEF PostIsPending, D!Announce
    <3>2. aux[w].analysis \in DOMAIN journal
      BY <2>3, FinishAnnounces DEF PostIsPending
    <3>. QED BY <3>1, <3>2 DEF D!Next
  <2>4. CASE MaintenanceStep
    <3>1. PICK A \in SUBSET {e \in Events : analyses[e] # 0} :
            /\ forgotten' = forgotten \cup {analyses[e] : e \in A}
            /\ {analyses[e] : e \in A} \subseteq DOMAIN journal
            /\ UNCHANGED <<journal, announced>>
      BY <2>4, MaintenanceForgets
    <3>2. D!Forget({analyses[e] : e \in A})
      BY <3>1 DEF D!Forget
    <3>. QED BY <3>1, <3>2 DEF D!Next
  <2>. QED BY <2>1, <2>2, <2>3, <2>4, QuietSteps
<1>. QED BY <1>1, <1>2, CommitInvHolds, PTL DEF Spec, Delivery, D!Spec

-----------------------------------------------------------------------------
(* What a row says.  ProcessedIsHandled rests on the analysis table: the    *)
(* analysis a worker finds for the head of its batch is one of that event,  *)
(* which is so because no row id is ever given to a second event.           *)

\* A row of e with that id is in the table, or some worker knows of it.
Named(e, id) ==
  \/ e \in Present /\ rows[e].id = id
  \/ \E w \in Workers : \E c \in claims[w] : c.event = e /\ c.id = id
  \/ \E w \in Workers : [event |-> e, id |-> id] \in selected[w]

IdsAreOwn ==
  /\ \A e \in Events, id \in Nat : Named(e, id) =>
       id # 0 /\ id <= arrivals /\ \A f \in Events : Named(f, id) => f = e
  /\ \A e \in Events : rows[e].state = "absent" => rows[e] = Absent

\* What is recorded of an event is an analysis of that event.
LinksAreOwn ==
  /\ \A e \in Events : analyses[e] # 0 => journal[analyses[e]] = e
  /\ \A e \in Events : rows[e].link # 0 =>
       rows[e].link \in DOMAIN journal /\ journal[rows[e].link] = e
  /\ \A w \in Workers : pc[w] = "commit" /\ aux[w].analysis # 0 =>
       /\ aux[w].analysis \in DOMAIN journal
       /\ \A c \in claims[w] : IsHead(w, c) => journal[aux[w].analysis] = c.event

RowInv == CommitInv /\ IdsAreOwn /\ LinksAreOwn /\ ProcessedIsHandled

-----------------------------------------------------------------------------
(* Who holds a row, and how often it was tried.  Each lost lease or row and *)
(* each claim from an outdated reading excuses one holder more; a row that  *)
(* waits in the queue has one fewer than a row that is out.  The same count *)
(* bounds the tries: each holder that could still send the row back may     *)
(* cause one more.                                                          *)

\* No event is twice in what a worker holds and is about to hold.
BatchesAreSets ==
  \A w \in Workers :
    /\ \A c, d \in claims[w] : c.event = d.event => c = d
    /\ \A c \in claims[w], s \in selected[w] : c.event # s.event

Holders(e) == {w \in Workers : Holds(w, e)}

\* A record of an earlier row of the event counts, whatever its attempts.
Revivers(e) ==
  {w \in Workers : \E c \in claims[w] :
     c.event = e /\ (c.id # rows[e].id \/ c.attempts < MaxAttempts)}

Over(attempts) == IF attempts < MaxAttempts THEN 0 ELSE attempts - (MaxAttempts - 1)

Out(e) == IF rows[e].state \in {"queued", "absent"} THEN 0 ELSE 1

Budgeted(e) ==
  /\ IsFiniteSet(Holders(e))
  /\ Cardinality(Holders(e)) <= lost[e] + Out(e)
  /\ Over(rows[e].attempts) + Cardinality(Revivers(e)) <= lost[e] + Out(e)

\* An exempted row has no holder left, but for a lost one.
ExemptIsLetGo(e) ==
  rows[e].state = "processed" /\ rows[e].link = 0 /\ lost[e] = 0 => Holders(e) = {}

HoldInv ==
  /\ RowInv /\ BatchesAreSets
  /\ \A e \in Events : Budgeted(e) /\ ExemptIsLetGo(e)

-----------------------------------------------------------------------------
(* What the steps do to a row *)

\* What each UPDATE changes.
LEMMA UpdateFields ==
  ASSUME NEW r \in Row, NEW link \in Nat, NEW deadLetter \in BOOLEAN
  PROVE  /\ Claimed(r).id = r.id /\ Claimed(r).link = r.link
         /\ Claimed(r).state = "processing" /\ Claimed(r).attempts = r.attempts + 1
         /\ Reclaimed(r).id = r.id /\ Reclaimed(r).link = r.link
         /\ Reclaimed(r).state = "queued" /\ Reclaimed(r).attempts = r.attempts
         /\ r.state = "absent" =>
              Processed(r, link) = r /\ Skipped(r) = r /\ Retried(r, deadLetter) = r
         /\ r.state # "absent" =>
              /\ Processed(r, link).state = "processed" /\ Processed(r, link).link = link
              /\ Processed(r, link).id = r.id /\ Processed(r, link).attempts = r.attempts
              /\ Skipped(r).state = "processed" /\ Skipped(r).link = r.link
              /\ Skipped(r).id = r.id /\ Skipped(r).attempts = r.attempts
              /\ Retried(r, deadLetter).state = (IF deadLetter THEN "failed" ELSE "queued")
              /\ Retried(r, deadLetter).link = r.link
              /\ Retried(r, deadLetter).id = r.id /\ Retried(r, deadLetter).attempts = r.attempts
<1>1. /\ Claimed(r).id = r.id /\ Claimed(r).link = r.link
      /\ Claimed(r).state = "processing" /\ Claimed(r).attempts = r.attempts + 1
  BY DEF Row, Claimed
<1>2. /\ Reclaimed(r).id = r.id /\ Reclaimed(r).link = r.link
      /\ Reclaimed(r).state = "queued" /\ Reclaimed(r).attempts = r.attempts
  BY DEF Row, Reclaimed
<1>3. r.state = "absent" =>
        Processed(r, link) = r /\ Skipped(r) = r /\ Retried(r, deadLetter) = r
  BY DEF Processed, Skipped, Retried
<1>4. r.state # "absent" =>
        /\ Processed(r, link).state = "processed" /\ Processed(r, link).link = link
        /\ Processed(r, link).id = r.id /\ Processed(r, link).attempts = r.attempts
  BY DEF Row, Processed
<1>5. r.state # "absent" =>
        /\ Skipped(r).state = "processed" /\ Skipped(r).link = r.link
        /\ Skipped(r).id = r.id /\ Skipped(r).attempts = r.attempts
  BY DEF Row, Skipped
<1>6. r.state # "absent" =>
        /\ Retried(r, deadLetter).state = (IF deadLetter THEN "failed" ELSE "queued")
        /\ Retried(r, deadLetter).link = r.link
        /\ Retried(r, deadLetter).id = r.id /\ Retried(r, deadLetter).attempts = r.attempts
  BY DEF Row, Retried
<1>. QED BY <1>1, <1>2, <1>3, <1>4, <1>5, <1>6

\* The ways a step can change the row of e.
Kept(e) == rows'[e] = rows[e]

SameRow(e) ==
  rows[e].state # "absent" /\ rows'[e].state # "absent" /\ rows'[e].id = rows[e].id

Moved(e) ==
  /\ SameRow(e) /\ rows'[e].link = rows[e].link
  /\ rows'[e].state \in {"queued", "processing", "failed"}

Exempted(e) ==
  /\ SameRow(e) /\ rows'[e].link = rows[e].link
  /\ e \in exempted'

Settled(e) ==
  /\ SameRow(e)
  /\ \E w \in Workers : \E c \in claims[w] :
       /\ IsHead(w, c) /\ c.event = e
       /\ \/ CommitEffects(w, c) /\ rows'[e].link = Len(journal) + 1
          \/ CommitDuplicate(w, c) /\ rows'[e].link = aux[w].analysis

Gone(e) == rows'[e] = Absent

New(e) ==
  rows[e].state = "absent" /\ rows'[e] = Fresh(e) /\ arrivals' = arrivals + 1

RowStep(e) == Kept(e) \/ Moved(e) \/ Exempted(e) \/ Settled(e) \/ Gone(e) \/ New(e)

LEMMA HeadRowSteps ==
  ASSUME TypeOK, NEW w \in Workers, NEW c \in claims[w], IsHead(w, c), HeadStep(w, c),
         NEW e \in Events
  PROVE  Kept(e) \/ Moved(e) \/ Exempted(e) \/ Settled(e)
<1>. USE DEF queueVars
<1>1. c.event \in Events /\ rows \in [Events -> Row]
  BY DEF TypeOK, ClaimRecord
<1>2. rows[c.event] \in Row /\ aux[w].analysis \in Nat /\ Len(journal) + 1 \in Nat
      /\ aux[w].permanent \in BOOLEAN
  BY <1>1 DEF TypeOK
<1>3. CASE SkipExempt(w, c)
  <2>1. rows' = [rows EXCEPT ![c.event] = Skipped(@)] /\ exempted' = exempted \cup {c.event}
    BY <1>3 DEF SkipExempt
  <2>2. CASE e = c.event
    BY <1>1, <1>2, <2>1, <2>2, UpdateFields DEF Kept, Exempted, SameRow
  <2>3. CASE e # c.event
    BY <1>1, <2>1, <2>3 DEF Kept
  <2>. QED BY <2>2, <2>3
<1>4. CASE CommitEffects(w, c)
  <2>1. rows' = [rows EXCEPT ![c.event] = Processed(@, Len(journal) + 1)]
    BY <1>4 DEF CommitEffects
  <2>2. CASE e = c.event
    <3>1. rows'[e] = Processed(rows[e], Len(journal) + 1)
      BY <1>1, <2>1, <2>2
    <3>2. CASE rows[e].state = "absent"
      BY <1>2, <2>2, <3>1, <3>2, UpdateFields DEF Kept
    <3>3. CASE rows[e].state # "absent"
      <4>1. SameRow(e) /\ rows'[e].link = Len(journal) + 1
        BY <1>2, <2>2, <3>1, <3>3, UpdateFields DEF SameRow
      <4>. QED BY <1>4, <2>2, <4>1 DEF Settled
    <3>. QED BY <3>2, <3>3
  <2>3. CASE e # c.event
    BY <1>1, <2>1, <2>3 DEF Kept
  <2>. QED BY <2>2, <2>3
<1>5. CASE CommitDuplicate(w, c)
  <2>1. rows' = [rows EXCEPT ![c.event] = Processed(@, aux[w].analysis)]
    BY <1>5 DEF CommitDuplicate
  <2>2. CASE e = c.event
    <3>1. rows'[e] = Processed(rows[e], aux[w].analysis)
      BY <1>1, <2>1, <2>2
    <3>2. CASE rows[e].state = "absent"
      BY <1>2, <2>2, <3>1, <3>2, UpdateFields DEF Kept
    <3>3. CASE rows[e].state # "absent"
      <4>1. SameRow(e) /\ rows'[e].link = aux[w].analysis
        BY <1>2, <2>2, <3>1, <3>3, UpdateFields DEF SameRow
      <4>. QED BY <1>5, <2>2, <4>1 DEF Settled
    <3>. QED BY <3>2, <3>3
  <2>3. CASE e # c.event
    BY <1>1, <2>1, <2>3 DEF Kept
  <2>. QED BY <2>2, <2>3
<1>6. CASE MarkRetry(w, c)
  <2>. DEFINE dead == aux[w].permanent \/ c.attempts >= MaxAttempts
  <2>1. rows' = [rows EXCEPT ![c.event] = Retried(@, dead)] /\ dead \in BOOLEAN
    BY <1>6 DEF MarkRetry
  <2>. HIDE DEF dead
  <2>2. CASE e = c.event
    <3>1. rows'[e] = Retried(rows[e], dead)
      BY <1>1, <2>1, <2>2
    <3>. QED BY <1>2, <2>1, <2>2, <3>1, UpdateFields DEF Kept, Moved, SameRow
  <2>3. CASE e # c.event
    BY <1>1, <2>1, <2>3 DEF Kept
  <2>. QED BY <2>2, <2>3
<1>7. CASE \/ BeginCommit(w, c) \/ IndexConflict(w, c) \/ FinishEvent(w, c)
           \/ \E permanent \in BOOLEAN :
                FailBeforeCommit(w, c, permanent) \/ FailAfterCommit(w, c, permanent)
  BY <1>7 DEF BeginCommit, IndexConflict, FinishEvent, FailBeforeCommit, FailAfterCommit, Kept
<1>. QED BY <1>3, <1>4, <1>5, <1>6, <1>7 DEF HeadStep

LEMMA ClaimRowSteps ==
  ASSUME TypeOK, NEW w \in Workers, ClaimSelect(w) \/ ClaimUpdate(w),
         NEW e \in Events, rows[e].state # "absent" \/ ~ClaimUpdate(w)
  PROVE  Kept(e) \/ Moved(e)
<1>1. rows[e] \in Row
  BY DEF TypeOK
<1>2. \/ rows'[e] = rows[e]
      \/ rows[e].state # "absent" /\ (rows'[e] = Claimed(rows[e]) \/ rows'[e] = Reclaimed(rows[e]))
  <2>1. CASE ClaimSelect(w)
    BY <2>1 DEF ClaimSelect, IsOldest, Claimable, Due, Queued, Expired
  <2>2. CASE ClaimUpdate(w)
    BY <2>2 DEF ClaimUpdate
  <2>. QED BY <2>1, <2>2
<1>. QED BY ZenonT(60), <1>1, <1>2, UpdateFields DEF Kept, Moved, SameRow

LEMMA RowSteps ==
  ASSUME TypeOK, IdsAreOwn, [Next]_vars, NEW e \in Events
  PROVE  RowStep(e)
<1>. rows \in [Events -> Row]
  BY DEF TypeOK
<1>1. ASSUME NEW f \in Events, Enqueue(f) PROVE RowStep(e)
  <2>1. CASE f = e /\ e \notin Present
    BY <1>1, <2>1 DEF Enqueue, Present, New, RowStep
  <2>2. CASE f # e \/ f \in Present
    BY <1>1, <2>2 DEF Enqueue, queueVars, Kept, RowStep
  <2>. QED BY <2>1, <2>2
<1>2. ASSUME NEW f \in Events, BackoffElapses(f) \/ LeaseExpires(f) PROVE RowStep(e)
  <2>1. CASE f = e
    <3>1. rows[e] \in Row
      OBVIOUS
    <3>2. rows'[e] = [rows[e] EXCEPT !.due = TRUE] \/ rows'[e] = [rows[e] EXCEPT !.leased = FALSE]
      BY <1>2, <2>1 DEF BackoffElapses, LeaseExpires
    <3>3. rows[e].state \in {"queued", "processing"}
      BY <1>2, <2>1 DEF BackoffElapses, LeaseExpires
    <3>. QED BY <3>1, <3>2, <3>3 DEF Row, Moved, SameRow, RowStep
  <2>2. CASE f # e
    BY <1>2, <2>2 DEF BackoffElapses, LeaseExpires, Kept, RowStep
  <2>. QED BY <2>1, <2>2
<1>3. ASSUME NEW w \in Workers, ClaimSelect(w) \/ ClaimUpdate(w) PROVE RowStep(e)
  <2>1. CASE rows[e].state # "absent" \/ ~ClaimUpdate(w)
    BY <1>3, <2>1, ClaimRowSteps DEF RowStep
  <2>2. CASE rows[e].state = "absent" /\ ClaimUpdate(w)
    <3>1. rows[e].id = 0
      BY <2>2 DEF IdsAreOwn, Absent
    <3>2. [event |-> e, id |-> rows[e].id] \notin selected[w]
      BY <3>1 DEF IdsAreOwn, Named
    <3>. QED BY <2>2, <3>2 DEF ClaimUpdate, Kept, RowStep
  <2>. QED BY <2>1, <2>2
<1>4. ASSUME NEW w \in Workers, NEW c \in claims[w], IsHead(w, c), HeadStep(w, c) PROVE RowStep(e)
  BY <1>4, HeadRowSteps DEF RowStep
<1>5. CASE (\E w \in Workers : LoseBatch(w)) \/ UNCHANGED vars
  BY <1>5 DEF LoseBatch, vars, queueVars, Kept, RowStep
<1>6. CASE MaintenanceStep
  BY <1>6 DEF MaintenanceStep, Maintenance, Kept, Gone, RowStep
<1>. QED BY <1>1, <1>2, <1>3, <1>4, <1>5, <1>6 DEF Next, WorkerStep

\* The journal and the exempted events are only added to.
LEMMA HistoryGrows ==
  ASSUME TypeOK, [Next]_vars
  PROVE  /\ \A i \in DOMAIN journal : i \in DOMAIN journal' /\ journal'[i] = journal[i]
         /\ exempted \subseteq exempted'
<1>. journal \in Seq(Events)
  BY DEF TypeOK
<1>1. \A i \in DOMAIN journal : i \in DOMAIN journal' /\ journal'[i] = journal[i]
  <2>1. journal' = journal \/ \E e \in Events : journal' = Append(journal, e)
    <3>1. ASSUME NEW w \in Workers, NEW c \in claims[w], CommitEffects(w, c)
          PROVE  \E e \in Events : journal' = Append(journal, e)
      BY <3>1, CommitAppends
    <3>2. ASSUME NEW w \in Workers, NEW c \in claims[w], FinishEvent(w, c) PROVE journal' = journal
      BY <3>2, FinishAnnounces
    <3>3. CASE MaintenanceStep
      BY <3>3 DEF MaintenanceStep, Maintenance
    <3>. QED BY <3>1, <3>2, <3>3, QuietSteps DEF Quiet
  <2>. QED BY <2>1
<1>2. exempted \subseteq exempted'
  <2>1. ASSUME NEW w \in Workers, NEW c, HeadStep(w, c) PROVE exempted \subseteq exempted'
    BY <2>1 DEF HeadStep, SkipExempt, BeginCommit, CommitEffects, CommitDuplicate, IndexConflict,
                FinishEvent, MarkRetry, FailBeforeCommit, FailAfterCommit, effectVars
  <2>2. ASSUME NEW w \in Workers, ClaimSelect(w) \/ ClaimUpdate(w) \/ LoseBatch(w)
        PROVE  exempted' = exempted
    BY <2>2 DEF ClaimSelect, ClaimUpdate, LoseBatch, effectVars
  <2>3. CASE \/ \E e \in Events : Enqueue(e) \/ BackoffElapses(e) \/ LeaseExpires(e)
             \/ MaintenanceStep \/ UNCHANGED vars
    BY <2>3 DEF Enqueue, BackoffElapses, LeaseExpires, MaintenanceStep, Maintenance, effectVars, vars
  <2>. QED BY <2>1, <2>2, <2>3 DEF Next, WorkerStep
<1>. QED BY <1>1, <1>2

\* Which steps give a worker records to hold, and what becomes of the others.
LEMMA ClaimsStep ==
  ASSUME TypeOK, [Next]_vars, NEW w \in Workers
  PROVE  \/ claims'[w] \subseteq claims[w] /\ selected'[w] = selected[w]
         \/ ClaimSelect(w) \/ ClaimUpdate(w)
<1>. USE DEF queueVars, workerVars
<1>. claims \in [Workers -> SUBSET ClaimRecord] /\ selected \in [Workers -> SUBSET [event : Events, id : Nat]]
  BY DEF TypeOK
<1>1. CASE \/ \E e \in Events : Enqueue(e) \/ BackoffElapses(e) \/ LeaseExpires(e)
           \/ UNCHANGED vars
  BY <1>1 DEF Enqueue, BackoffElapses, LeaseExpires, vars
<1>2. CASE MaintenanceStep
  BY <1>2 DEF MaintenanceStep, Maintenance
<1>3. ASSUME NEW v \in Workers, ClaimSelect(v) \/ ClaimUpdate(v), v # w
      PROVE  claims'[w] = claims[w] /\ selected'[w] = selected[w]
  BY <1>3 DEF ClaimSelect, ClaimUpdate
<1>4. ASSUME NEW v \in Workers, NEW c \in claims[v], HeadStep(v, c)
      PROVE  claims'[w] \subseteq claims[w] /\ selected'[w] = selected[w]
  <2>1. Advance(v, c) \/ (UNCHANGED <<claims, selected>>)
    BY <1>4 DEF HeadStep, SkipExempt, BeginCommit, CommitEffects, CommitDuplicate, IndexConflict,
                FinishEvent, MarkRetry, FailBeforeCommit, FailAfterCommit, Goto
  <2>. QED BY <2>1 DEF Advance
<1>5. ASSUME NEW v \in Workers, LoseBatch(v)
      PROVE  claims'[w] \subseteq claims[w] /\ selected'[w] = selected[w]
  BY <1>5 DEF LoseBatch
<1>. QED BY <1>1, <1>2, <1>3, <1>4, <1>5 DEF Next, WorkerStep

\* What a claim hands out names rows that were named before.
LEMMA ClaimNames ==
  ASSUME TypeOK, NEW w \in Workers, ClaimSelect(w) \/ ClaimUpdate(w),
         NEW e \in Events, NEW id \in Nat,
         \/ \E c \in claims'[w] : c.event = e /\ c.id = id
         \/ [event |-> e, id |-> id] \in selected'[w]
  PROVE  Named(e, id)
<1>. claims \in [Workers -> SUBSET ClaimRecord] /\ selected \in [Workers -> SUBSET [event : Events, id : Nat]]
  BY DEF TypeOK
<1>2. CASE ClaimSelect(w)
  <2>1. PICK chosen \in SUBSET Events :
          /\ chosen \subseteq Present
          /\ claims' = [claims EXCEPT ![w] = {RecordOf(f) : f \in chosen \cap Expired}]
          /\ selected' = [selected EXCEPT
                            ![w] = {[event |-> f, id |-> rows[f].id] : f \in chosen \ Expired}]
    BY <1>2 DEF ClaimSelect, IsOldest, Claimable, Due, Queued, Expired, Present
  <2>2. ASSUME NEW c \in claims'[w], c.event = e, c.id = id PROVE Named(e, id)
    <3>1. c = RecordOf(e) /\ e \in Present
      BY <2>1, <2>2 DEF RecordOf
    <3>. QED BY <2>2, <3>1 DEF RecordOf, Named
  <2>3. ASSUME [event |-> e, id |-> id] \in selected'[w] PROVE Named(e, id)
    <3>1. PICK f \in chosen : [event |-> e, id |-> id] = [event |-> f, id |-> rows[f].id]
      BY <2>1, <2>3
    <3>. QED BY <2>1, <3>1 DEF Named
  <2>. QED BY <2>2, <2>3
<1>3. CASE ClaimUpdate(w)
  <2>. DEFINE taken == {f \in Events : [event |-> f, id |-> rows[f].id] \in selected[w]}
  <2>1. claims'[w] = claims[w] \cup {RecordOf(f) : f \in taken} /\ selected'[w] = {}
    BY <1>3 DEF ClaimUpdate
  <2>2. ASSUME NEW c \in claims'[w], c.event = e, c.id = id PROVE Named(e, id)
    <3>1. CASE c \in claims[w]
      BY <2>2, <3>1 DEF Named
    <3>2. CASE c \in {RecordOf(f) : f \in taken}
      <4>1. PICK f \in taken : c = RecordOf(f)
        BY <3>2
      <4>2. c = RecordOf(e) /\ e \in taken
        BY <2>2, <4>1 DEF RecordOf
      <4>. QED BY <2>2, <4>2 DEF RecordOf, Named
    <3>. QED BY <2>1, <3>1, <3>2
  <2>. QED BY <2>1, <2>2
<1>. QED BY <1>2, <1>3

LEMMA ArrivalsStep ==
  ASSUME TypeOK, [Next]_vars
  PROVE  \/ arrivals' = arrivals
         \/ \E f \in Events :
              /\ f \notin Present /\ rows' = [rows EXCEPT ![f] = Fresh(f)]
              /\ arrivals' = arrivals + 1 /\ UNCHANGED <<claims, selected>>
<1>1. ASSUME NEW f \in Events, Enqueue(f)
      PROVE  \/ arrivals' = arrivals
             \/ /\ f \notin Present /\ rows' = [rows EXCEPT ![f] = Fresh(f)]
                /\ arrivals' = arrivals + 1 /\ UNCHANGED <<claims, selected>>
  BY <1>1 DEF Enqueue, queueVars, workerVars
<1>2. ASSUME NEW w \in Workers, NEW c, HeadStep(w, c) PROVE arrivals' = arrivals
  BY <1>2 DEF HeadStep, SkipExempt, BeginCommit, CommitEffects, CommitDuplicate, IndexConflict,
              FinishEvent, MarkRetry, FailBeforeCommit, FailAfterCommit, queueVars
<1>3. ASSUME NEW w \in Workers, ClaimSelect(w) \/ ClaimUpdate(w) \/ LoseBatch(w)
      PROVE  arrivals' = arrivals
  BY <1>3 DEF ClaimSelect, ClaimUpdate, LoseBatch, queueVars
<1>4. CASE \/ \E e \in Events : BackoffElapses(e) \/ LeaseExpires(e)
           \/ MaintenanceStep \/ UNCHANGED vars
  BY <1>4 DEF BackoffElapses, LeaseExpires, MaintenanceStep, Maintenance, queueVars, vars
<1>. QED BY <1>1, <1>2, <1>3, <1>4 DEF Next, WorkerStep

\* No step names a row anew, but that a new row has a new id.
LEMMA NamesStep ==
  ASSUME TypeOK, IdsAreOwn, [Next]_vars
  PROVE  IdsAreOwn'
<1>. arrivals \in Nat /\ rows \in [Events -> Row]
  BY DEF TypeOK
<1>1. CASE arrivals' = arrivals
  <2>1. ASSUME NEW e \in Events PROVE ~New(e)
    BY <1>1 DEF New
  <2>2. \A e \in Events : Kept(e) \/ SameRow(e) \/ Gone(e)
    BY <2>1, RowSteps DEF RowStep, Moved, Exempted, Settled
  <2>3. ASSUME NEW e \in Events, NEW id \in Nat, Named(e, id)' PROVE Named(e, id)
    <3>1. CASE e \in Present' /\ rows'[e].id = id
      <4>1. Kept(e) \/ SameRow(e)
        BY <2>2, <3>1 DEF Gone, Absent, Present
      <4>. QED BY <3>1, <4>1 DEF Present, Kept, SameRow, Named
    <3>2. ASSUME NEW w \in Workers, \E c \in claims'[w] : c.event = e /\ c.id = id
          PROVE  Named(e, id)
      <4>1. CASE claims'[w] \subseteq claims[w]
        BY <3>2, <4>1 DEF Named
      <4>2. CASE ClaimSelect(w) \/ ClaimUpdate(w)
        BY <3>2, <4>2, ClaimNames
      <4>. QED BY <4>1, <4>2, ClaimsStep
    <3>3. ASSUME NEW w \in Workers, [event |-> e, id |-> id] \in selected'[w]
          PROVE  Named(e, id)
      <4>1. CASE selected'[w] = selected[w]
        BY <3>3, <4>1 DEF Named
      <4>2. CASE ClaimSelect(w) \/ ClaimUpdate(w)
        BY <3>3, <4>2, ClaimNames
      <4>. QED BY <4>1, <4>2, ClaimsStep
    <3>. QED BY <2>3, <3>1, <3>2, <3>3 DEF Named
  <2>4. \A e \in Events : rows'[e].state = "absent" => rows'[e] = Absent
    BY <2>2 DEF IdsAreOwn, Kept, SameRow, Gone
  <2>5. ASSUME NEW e \in Events, NEW id \in Nat, Named(e, id)'
        PROVE  id # 0 /\ id <= arrivals' /\ \A f \in Events : Named(f, id)' => f = e
    BY <1>1, <2>3, <2>5 DEF IdsAreOwn
  <2>. QED BY <2>4, <2>5 DEF IdsAreOwn
<1>2. ASSUME NEW f \in Events, f \notin Present, rows' = [rows EXCEPT ![f] = Fresh(f)],
             arrivals' = arrivals + 1, UNCHANGED <<claims, selected>>
      PROVE  IdsAreOwn'
  <2>1. Fresh(f).id = arrivals + 1 /\ Fresh(f).state = "queued"
    BY DEF Fresh, Absent
  <2>2. rows'[f] = Fresh(f) /\ \A e \in Events : e # f => rows'[e] = rows[e]
    BY <1>2
  <2>3. ASSUME NEW e \in Events, NEW id \in Nat, Named(e, id)'
        PROVE  Named(e, id) \/ (e = f /\ id = arrivals + 1)
    BY <1>2, <2>1, <2>2, <2>3 DEF Named, Present
  <2>4. \A e \in Events : ~Named(e, arrivals + 1)
    <3>1. arrivals + 1 \in Nat /\ ~(arrivals + 1 <= arrivals)
      OBVIOUS
    <3>. QED BY <3>1 DEF IdsAreOwn
  <2>5. ASSUME NEW e \in Events, NEW id \in Nat, Named(e, id)'
        PROVE  id # 0 /\ id <= arrivals' /\ \A g \in Events : Named(g, id)' => g = e
    <3>1. CASE id = arrivals + 1
      BY <1>2, <2>3, <2>4, <2>5, <3>1
    <3>2. CASE id # arrivals + 1
      <4>1. Named(e, id) /\ \A g \in Events : Named(g, id)' => Named(g, id)
        BY <2>3, <2>5, <3>2
      <4>2. id # 0 /\ id <= arrivals /\ \A g \in Events : Named(g, id) => g = e
        BY <4>1 DEF IdsAreOwn
      <4>. QED BY <1>2, <4>1, <4>2
    <3>. QED BY <3>1, <3>2
  <2>6. \A e \in Events : rows'[e].state = "absent" => rows'[e] = Absent
    BY <2>1, <2>2 DEF IdsAreOwn
  <2>. QED BY <2>5, <2>6 DEF IdsAreOwn
<1>. QED BY <1>1, <1>2, ArrivalsStep

\* Two records of one worker with one id are of one event.
LEMMA HeadsAgree ==
  ASSUME TypeOK, IdsAreOwn, NEW w \in Workers, NEW c \in claims[w], NEW d \in claims[w],
         IsHead(w, c), IsHead(w, d)
  PROVE  c.event = d.event
<1>1. /\ c.event \in Events /\ d.event \in Events /\ c.id \in Nat /\ d.id \in Nat
  BY DEF TypeOK, ClaimRecord
<1>2. c.id = d.id
  BY <1>1 DEF IsHead
<1>3. Named(c.event, c.id) /\ Named(d.event, c.id)
  BY <1>2 DEF Named
<1>. QED BY <1>1, <1>3 DEF IdsAreOwn

\* Who is about to commit has begun with the head of its batch.
LEMMA CommitPositions ==
  ASSUME TypeOK, [Next]_vars, NEW w \in Workers, pc'[w] = "commit"
  PROVE  /\ claims'[w] = claims[w]
         /\ \/ pc[w] = "commit" /\ aux'[w] = aux[w]
            \/ \E c \in claims[w] : IsHead(w, c) /\ aux'[w].analysis = analyses[c.event]
<1>. USE DEF queueVars, workerVars
<1>. /\ claims \in [Workers -> SUBSET ClaimRecord] /\ pc \in [Workers -> Positions]
     /\ aux \in [Workers -> [analysis : Nat, permanent : BOOLEAN]]
  BY DEF TypeOK
<1>1. CASE \/ \E e \in Events : Enqueue(e) \/ BackoffElapses(e) \/ LeaseExpires(e)
           \/ MaintenanceStep \/ UNCHANGED vars
  BY <1>1 DEF Enqueue, BackoffElapses, LeaseExpires, MaintenanceStep, Maintenance, vars
<1>2. ASSUME NEW v \in Workers, ClaimSelect(v) \/ ClaimUpdate(v)
      PROVE  claims'[w] = claims[w] /\ pc[w] = "commit" /\ aux'[w] = aux[w]
  <2>1. CASE v = w
    BY <1>2, <2>1 DEF Idling, ClaimSelect, ClaimUpdate
  <2>2. CASE v # w
    BY <1>2, <2>2 DEF ClaimSelect, ClaimUpdate
  <2>. QED BY <2>1, <2>2
<1>3. ASSUME NEW v \in Workers, LoseBatch(v)
      PROVE  claims'[w] = claims[w] /\ pc[w] = "commit" /\ aux'[w] = aux[w]
  BY <1>3 DEF LoseBatch
<1>4. ASSUME NEW v \in Workers, NEW c \in claims[v], IsHead(v, c), HeadStep(v, c)
      PROVE  /\ claims'[w] = claims[w]
             /\ \/ pc[w] = "commit" /\ aux'[w] = aux[w]
                \/ \E d \in claims[w] : IsHead(w, d) /\ aux'[w].analysis = analyses[d.event]
  <2>1. CASE Advance(v, c)
    BY <2>1 DEF Advance
  <2>2. ASSUME NEW position \in {"failing", "post"}, NEW analysis, NEW permanent,
               Goto(v, position, analysis, permanent)
        PROVE  claims'[w] = claims[w] /\ pc[w] = "commit" /\ aux'[w] = aux[w]
    BY <2>2 DEF Goto
  <2>3. CASE SkipExempt(v, c) \/ CommitDuplicate(v, c) \/ FinishEvent(v, c) \/ MarkRetry(v, c)
    BY <2>1, <2>3 DEF SkipExempt, CommitDuplicate, FinishEvent, MarkRetry
  <2>4. CASE \/ IndexConflict(v, c) \/ CommitEffects(v, c)
             \/ \E permanent \in BOOLEAN : FailBeforeCommit(v, c, permanent) \/ FailAfterCommit(v, c, permanent)
    BY <2>2, <2>4 DEF IndexConflict, CommitEffects, FailBeforeCommit, FailAfterCommit
  <2>5. CASE BeginCommit(v, c)
    BY <1>4, <2>5 DEF BeginCommit, Goto
  <2>. QED BY <1>4, <2>3, <2>4, <2>5 DEF HeadStep
<1>. QED BY <1>1, <1>2, <1>3, <1>4 DEF Next, WorkerStep

\* A new row, and none.
LEMMA NewRow ==
  ASSUME NEW e
  PROVE  /\ Fresh(e).state = "queued" /\ Fresh(e).attempts = 0 /\ Fresh(e).link = 0
         /\ Fresh(e).id = arrivals + 1
         /\ Absent.state = "absent" /\ Absent.attempts = 0 /\ Absent.link = 0
  BY DEF Fresh, Absent

\* A row that a commit settles links to an analysis of its event.
LEMMA SettledLinks ==
  ASSUME RowInv, [Next]_vars, NEW e \in Events, Settled(e)
  PROVE  /\ rows'[e].link # 0 /\ rows'[e].link \in DOMAIN journal'
         /\ journal'[rows'[e].link] = e
<1>. TypeOK /\ LinksAreOwn
  BY DEF RowInv, CommitInv
<1>. journal \in Seq(Events)
  BY DEF TypeOK
<1>0. PICK w \in Workers : \E c \in claims[w] :
        /\ IsHead(w, c) /\ c.event = e
        /\ \/ CommitEffects(w, c) /\ rows'[e].link = Len(journal) + 1
           \/ CommitDuplicate(w, c) /\ rows'[e].link = aux[w].analysis
  BY DEF Settled
<1>1. PICK c \in claims[w] :
        /\ IsHead(w, c) /\ c.event = e
        /\ \/ CommitEffects(w, c) /\ rows'[e].link = Len(journal) + 1
           \/ CommitDuplicate(w, c) /\ rows'[e].link = aux[w].analysis
  BY <1>0
<1>2. CASE CommitEffects(w, c) /\ rows'[e].link = Len(journal) + 1
  <2>1. journal' = Append(journal, e)
    BY <1>1, <1>2, CommitAppends
  <2>. QED BY <1>2, <2>1
<1>3. CASE CommitDuplicate(w, c) /\ rows'[e].link = aux[w].analysis
  <2>1. aux[w].analysis # 0 /\ journal' = journal
    BY <1>3 DEF CommitDuplicate, effectVars
  <2>2. aux[w].analysis \in DOMAIN journal /\ journal[aux[w].analysis] = e
    BY <1>1, <1>3, <2>1 DEF LinksAreOwn, CommitDuplicate
  <2>. QED BY <1>3, <2>1, <2>2
<1>. QED BY <1>1, <1>2, <1>3

LEMMA ProcessedStep ==
  ASSUME RowInv, [Next]_vars
  PROVE  ProcessedIsHandled'
<1>. TypeOK /\ IdsAreOwn /\ LinksAreOwn /\ ProcessedIsHandled
  BY DEF RowInv, CommitInv
<1>1. SUFFICES ASSUME NEW e \in Events, rows'[e].state = "processed"
               PROVE  IF rows'[e].link = 0 THEN e \in exempted'
                      ELSE rows'[e].link \in DOMAIN journal' /\ journal'[rows'[e].link] = e
  BY DEF ProcessedIsHandled
<1>2. CASE Kept(e)
  BY <1>1, <1>2, HistoryGrows DEF Kept, ProcessedIsHandled
<1>3. CASE Exempted(e)
  BY <1>3, HistoryGrows DEF Exempted, LinksAreOwn
<1>4. CASE Settled(e)
  BY <1>4, SettledLinks
<1>5. CASE Moved(e) \/ Gone(e) \/ New(e)
  BY <1>1, <1>5, NewRow DEF Moved, Gone, New
<1>. QED BY <1>2, <1>3, <1>4, <1>5, RowSteps DEF RowStep

LEMMA LinksStep ==
  ASSUME RowInv, [Next]_vars
  PROVE  LinksAreOwn'
<1>. TypeOK /\ MemoryIsComplete /\ IdsAreOwn /\ LinksAreOwn
  BY DEF RowInv, CommitInv
<1>. journal \in Seq(Events) /\ analyses \in [Events -> Nat]
  BY DEF TypeOK
<1>1. ASSUME NEW e \in Events, analyses[e] # 0
      PROVE  analyses[e] \in DOMAIN journal /\ journal[analyses[e]] = e
  BY <1>1 DEF MemoryIsComplete, LinksAreOwn
<1>2. ASSUME NEW e \in Events, analyses'[e] # 0 PROVE journal'[analyses'[e]] = e
  <2>1. CASE analyses'[e] = analyses[e]
    BY <1>1, <1>2, <2>1, HistoryGrows
  <2>2. ASSUME NEW w \in Workers, NEW c \in claims[w], CommitEffects(w, c), c.event = e
        PROVE  journal'[analyses'[e]] = e
    <3>1. journal' = Append(journal, e) /\ analyses'[e] = Len(journal) + 1
      BY <2>2, CommitAppends
    <3>. QED BY <3>1
  <2>3. ASSUME NEW w \in Workers, NEW c \in claims[w], CommitEffects(w, c), c.event # e
        PROVE  analyses'[e] = analyses[e]
    BY <2>3, CommitAppends
  <2>4. ASSUME NEW w \in Workers, NEW c \in claims[w], FinishEvent(w, c)
        PROVE  analyses'[e] = analyses[e]
    BY <2>4, FinishAnnounces
  <2>5. CASE MaintenanceStep
    BY <1>2, <2>1, <2>5, MaintenanceForgets
  <2>. QED BY <2>1, <2>2, <2>3, <2>4, <2>5, QuietSteps DEF Quiet
<1>3. ASSUME NEW e \in Events, rows'[e].link # 0
      PROVE  rows'[e].link \in DOMAIN journal' /\ journal'[rows'[e].link] = e
  <2>1. CASE Kept(e) \/ Moved(e) \/ Exempted(e)
    <3>1. rows'[e].link = rows[e].link
      BY <2>1 DEF Kept, Moved, Exempted
    <3>. QED BY <1>3, <3>1, HistoryGrows DEF LinksAreOwn
  <2>2. CASE Settled(e)
    BY <2>2, SettledLinks
  <2>3. CASE Gone(e) \/ New(e)
    BY <1>3, <2>3, NewRow DEF Gone, New
  <2>. QED BY <2>1, <2>2, <2>3, RowSteps DEF RowStep
<1>4. ASSUME NEW w \in Workers, pc'[w] = "commit", aux'[w].analysis # 0
      PROVE  /\ aux'[w].analysis \in DOMAIN journal'
             /\ \A c \in claims'[w] : IsHead(w, c)' => journal'[aux'[w].analysis] = c.event
  <2>1. claims'[w] = claims[w]
    BY <1>4, CommitPositions
  <2>2. \A c : IsHead(w, c)' => IsHead(w, c)
    BY <2>1 DEF IsHead
  <2>3. CASE pc[w] = "commit" /\ aux'[w] = aux[w]
    <3>1. /\ aux[w].analysis \in DOMAIN journal
          /\ \A c \in claims[w] : IsHead(w, c) => journal[aux[w].analysis] = c.event
      BY <1>4, <2>3 DEF LinksAreOwn
    <3>. QED BY <2>1, <2>2, <2>3, <3>1, HistoryGrows
  <2>4. ASSUME NEW c \in claims[w], IsHead(w, c), aux'[w].analysis = analyses[c.event]
        PROVE  /\ aux'[w].analysis \in DOMAIN journal'
               /\ \A d \in claims'[w] : IsHead(w, d)' => journal'[aux'[w].analysis] = d.event
    <3>1. c.event \in Events
      BY DEF TypeOK, ClaimRecord
    <3>2. analyses[c.event] \in DOMAIN journal /\ journal[analyses[c.event]] = c.event
      BY <1>1, <1>4, <2>4, <3>1
    <3>3. analyses[c.event] \in DOMAIN journal' /\ journal'[analyses[c.event]] = c.event
      BY <3>2, HistoryGrows
    <3>4. \A d \in claims'[w] : IsHead(w, d)' => d.event = c.event
      BY <2>1, <2>2, <2>4, HeadsAgree
    <3>. QED BY <2>4, <3>3, <3>4
  <2>. QED BY <1>4, <2>3, <2>4, CommitPositions
<1>. QED BY <1>2, <1>3, <1>4 DEF LinksAreOwn

LEMMA RowStepInv ==
  ASSUME RowInv, [Next]_vars
  PROVE  RowInv'
<1>1. CommitInv'
  BY NextTypeOK, NextMemory, NextEffectsOnce, NextPending DEF RowInv, CommitInv
<1>2. IdsAreOwn'
  BY NamesStep DEF RowInv, CommitInv
<1>. QED BY <1>1, <1>2, LinksStep, ProcessedStep DEF RowInv

LEMMA RowInit == Init => RowInv
<1>. SUFFICES ASSUME Init PROVE RowInv
  OBVIOUS
<1>1. CommitInv
  <2>1. MemoryIsComplete /\ EffectsOnce /\ PostIsPending
    BY DEF Init, MemoryIsComplete, EffectsOnce, PostIsPending
  <2>. QED BY <2>1, InitTypeOK DEF CommitInv
<1>2. IdsAreOwn
  BY DEF Init, IdsAreOwn, Named, Present, Absent
<1>3. LinksAreOwn /\ ProcessedIsHandled
  BY DEF Init, LinksAreOwn, ProcessedIsHandled, Absent
<1>. QED BY <1>1, <1>2, <1>3 DEF RowInv

\* Whoever overtakes whom, a row that reads 'processed'
\* links to an analysis of its own event or was exempted.
THEOREM ProcessedHandled == Spec => []ProcessedIsHandled
<1>1. RowInv /\ [Next]_vars => RowInv'
  BY RowStepInv
<1>2. RowInv => ProcessedIsHandled
  BY DEF RowInv
<1>. QED BY <1>1, <1>2, RowInit, PTL DEF Spec

-----------------------------------------------------------------------------
(* Holders and tries *)

LEMMA BudgetTypes ==
  ASSUME TypeOK, NEW e \in Events, Budgeted(e)
  PROVE  /\ lost[e] \in Nat /\ rows[e] \in Row /\ rows[e].attempts \in Nat
         /\ Over(rows[e].attempts) \in Nat /\ Out(e) \in {0, 1}
         /\ Revivers(e) \subseteq Holders(e) /\ IsFiniteSet(Revivers(e))
         /\ Cardinality(Holders(e)) \in Nat /\ Cardinality(Revivers(e)) \in Nat
<1>1. lost[e] \in Nat /\ rows[e] \in Row /\ rows[e].attempts \in Nat
  BY DEF TypeOK, Row
<1>2. Over(rows[e].attempts) \in Nat /\ Out(e) \in {0, 1}
  BY <1>1, IngestAssumption DEF Over, Out
<1>3. Revivers(e) \subseteq Holders(e)
  BY DEF Revivers, Holders, Holds
<1>4. IsFiniteSet(Revivers(e)) /\ Cardinality(Holders(e)) \in Nat /\ Cardinality(Revivers(e)) \in Nat
  BY <1>3, FS_Subset, FS_CardinalityType DEF Budgeted
<1>. QED BY <1>1, <1>2, <1>3, <1>4

\* The holders of the next state, counted.
LEMMA BudgetCounts ==
  ASSUME NEW H, NEW K, NEW H1, NEW K1, IsFiniteSet(H), K \subseteq H, K1 \subseteq H1
  PROVE  /\ H1 \subseteq H => IsFiniteSet(H1) /\ Cardinality(H1) <= Cardinality(H)
         /\ K1 \subseteq K => Cardinality(K1) <= Cardinality(K)
         /\ K1 \subseteq H => Cardinality(K1) <= Cardinality(H)
         /\ \A w : H1 \subseteq H \cup {w} => IsFiniteSet(H1) /\ Cardinality(H1) <= Cardinality(H) + 1
         /\ \A w : K1 \subseteq K \cup {w} => Cardinality(K1) <= Cardinality(K) + 1
         /\ \A w \in H : H1 \subseteq H \ {w} => IsFiniteSet(H1) /\ Cardinality(H1) <= Cardinality(H) - 1
         /\ \A w \in K : K1 \subseteq K \ {w} => Cardinality(K1) <= Cardinality(K) - 1
<1>1. ASSUME NEW S, NEW T, IsFiniteSet(S)
      PROVE  /\ T \subseteq S => IsFiniteSet(T) /\ Cardinality(T) <= Cardinality(S)
             /\ \A w : T \subseteq S \cup {w} => IsFiniteSet(T) /\ Cardinality(T) <= Cardinality(S) + 1
             /\ \A w \in S : T \subseteq S \ {w} => IsFiniteSet(T) /\ Cardinality(T) <= Cardinality(S) - 1
  <2>1. T \subseteq S => IsFiniteSet(T) /\ Cardinality(T) <= Cardinality(S)
    BY <1>1, FS_Subset
  <2>2. ASSUME NEW w, T \subseteq S \cup {w}
        PROVE  IsFiniteSet(T) /\ Cardinality(T) <= Cardinality(S) + 1
    <3>1. IsFiniteSet(S \cup {w}) /\ Cardinality(S \cup {w}) <= Cardinality(S) + 1
          /\ Cardinality(S) \in Nat
      <4>1. /\ IsFiniteSet(S \cup {w})
            /\ Cardinality(S \cup {w}) =
                 IF w \in S THEN Cardinality(S) ELSE Cardinality(S) + 1
        BY <1>1, FS_AddElement
      <4>2. Cardinality(S) \in Nat
        BY <1>1, FS_CardinalityType
      <4>. QED BY <4>1, <4>2
    <3>2. IsFiniteSet(T) /\ Cardinality(T) <= Cardinality(S \cup {w})
      BY <2>2, <3>1, FS_Subset
    <3>3. Cardinality(T) \in Nat /\ Cardinality(S \cup {w}) \in Nat
      BY <3>1, <3>2, FS_CardinalityType
    <3>. QED BY <3>1, <3>2, <3>3
  <2>3. ASSUME NEW w \in S, T \subseteq S \ {w}
        PROVE  IsFiniteSet(T) /\ Cardinality(T) <= Cardinality(S) - 1
    <3>1. IsFiniteSet(S \ {w}) /\ Cardinality(S \ {w}) = Cardinality(S) - 1
      BY <1>1, FS_RemoveElement
    <3>2. IsFiniteSet(T) /\ Cardinality(T) <= Cardinality(S \ {w})
      BY <2>3, <3>1, FS_Subset
    <3>. QED BY <3>1, <3>2
  <2>. QED BY <2>1, <2>2, <2>3
<1>2. IsFiniteSet(K)
  BY FS_Subset
<1>3. /\ H1 \subseteq H => IsFiniteSet(H1) /\ Cardinality(H1) <= Cardinality(H)
      /\ K1 \subseteq H => Cardinality(K1) <= Cardinality(H)
      /\ \A w : H1 \subseteq H \cup {w} => IsFiniteSet(H1) /\ Cardinality(H1) <= Cardinality(H) + 1
      /\ \A w \in H : H1 \subseteq H \ {w} => IsFiniteSet(H1) /\ Cardinality(H1) <= Cardinality(H) - 1
  BY <1>1
<1>4. /\ K1 \subseteq K => Cardinality(K1) <= Cardinality(K)
      /\ \A w : K1 \subseteq K \cup {w} => Cardinality(K1) <= Cardinality(K) + 1
      /\ \A w \in K : K1 \subseteq K \ {w} => Cardinality(K1) <= Cardinality(K) - 1
  BY <1>1, <1>2
<1>. QED BY <1>3, <1>4

\* No worker holds e anew.
NoneAdded(e) == \A w \in Workers : \A c \in claims'[w] : c.event = e => c \in claims[w]

\* The row keeps its id and its attempts, no lease is lost, and it enters no
\* queue: fewer holders are never too many.
LEMMA BudgetShrinks ==
  ASSUME TypeOK, TypeOK', NEW e \in Events, Budgeted(e), NoneAdded(e),
         rows'[e].id = rows[e].id, rows'[e].attempts = rows[e].attempts, lost'[e] = lost[e],
         rows'[e].state \in {"queued", "absent"} => rows[e].state \in {"queued", "absent"}
  PROVE  Budgeted(e)' /\ Holders(e)' \subseteq Holders(e)
<1>1. Holders(e)' \subseteq Holders(e)
  BY DEF NoneAdded, Holders, Holds
<1>2. Revivers(e)' \subseteq Revivers(e)
  BY DEF NoneAdded, Revivers
<1>3. Revivers(e)' \subseteq Holders(e)'
  BY DEF Revivers, Holders, Holds
<1>4. /\ IsFiniteSet(Holders(e)') /\ Cardinality(Holders(e)') <= Cardinality(Holders(e))
      /\ Cardinality(Revivers(e)') <= Cardinality(Revivers(e))
  BY <1>1, <1>2, <1>3, BudgetTypes, BudgetCounts DEF Budgeted
<1>5. Cardinality(Holders(e)') \in Nat /\ Cardinality(Revivers(e)') \in Nat
  BY <1>3, <1>4, FS_Subset, FS_CardinalityType
<1>6. Out(e)' \in {0, 1} /\ Out(e) <= Out(e)'
  BY DEF Out
<1>7. Cardinality(Holders(e)') <= lost'[e] + Out(e)'
  BY <1>4, <1>5, <1>6, BudgetTypes DEF Budgeted
<1>8. Over(rows'[e].attempts) + Cardinality(Revivers(e)') <= lost'[e] + Out(e)'
  BY <1>4, <1>5, <1>6, BudgetTypes DEF Budgeted
<1>. QED BY <1>1, <1>4, <1>7, <1>8 DEF Budgeted

\* A row enters the table, or leaves it, under its holders.
LEMMA BudgetReplaced ==
  ASSUME TypeOK, TypeOK', NEW e \in Events, Budgeted(e), NoneAdded(e),
         rows'[e].state \in {"queued", "absent"}, rows'[e].attempts = 0,
         lost'[e] >= lost[e] + Out(e), lost'[e] \in Nat
  PROVE  Budgeted(e)'
<1>1. Holders(e)' \subseteq Holders(e)
  BY DEF NoneAdded, Holders, Holds
<1>2. Revivers(e)' \subseteq Holders(e)'
  BY DEF Revivers, Holders, Holds
<1>3. /\ IsFiniteSet(Holders(e)') /\ Cardinality(Holders(e)') <= Cardinality(Holders(e))
      /\ Cardinality(Revivers(e)') <= Cardinality(Holders(e))
  BY <1>1, <1>2, BudgetTypes, BudgetCounts DEF Budgeted
<1>4. Cardinality(Holders(e)') \in Nat /\ Cardinality(Revivers(e)') \in Nat
  BY <1>2, <1>3, FS_Subset, FS_CardinalityType
<1>5. Out(e)' = 0 /\ Over(rows'[e].attempts) = 0
  BY IngestAssumption DEF Out, Over
<1>. QED BY <1>3, <1>4, <1>5, BudgetTypes DEF Budgeted

\* A lease that ran out: the row is free again, and one loss older.
LEMMA BudgetReclaimed ==
  ASSUME TypeOK, TypeOK', NEW e \in Events, Budgeted(e), NoneAdded(e),
         rows[e].state = "processing", rows'[e].id = rows[e].id,
         rows'[e].attempts = rows[e].attempts, lost'[e] = lost[e] + 1
  PROVE  Budgeted(e)'
<1>1. Holders(e)' \subseteq Holders(e)
  BY DEF NoneAdded, Holders, Holds
<1>2. Revivers(e)' \subseteq Revivers(e)
  BY DEF NoneAdded, Revivers
<1>3. Revivers(e)' \subseteq Holders(e)'
  BY DEF Revivers, Holders, Holds
<1>4. /\ IsFiniteSet(Holders(e)') /\ Cardinality(Holders(e)') <= Cardinality(Holders(e))
      /\ Cardinality(Revivers(e)') <= Cardinality(Revivers(e))
  BY <1>1, <1>2, <1>3, BudgetTypes, BudgetCounts DEF Budgeted
<1>5. Cardinality(Holders(e)') \in Nat /\ Cardinality(Revivers(e)') \in Nat
  BY <1>3, <1>4, FS_Subset, FS_CardinalityType
<1>6. Out(e)' \in {0, 1} /\ Out(e) = 1
  BY DEF Out
<1>7. Cardinality(Holders(e)') <= lost'[e] + Out(e)'
  BY <1>4, <1>5, <1>6, BudgetTypes DEF Budgeted
<1>8. Over(rows'[e].attempts) + Cardinality(Revivers(e)') <= lost'[e] + Out(e)'
  BY <1>4, <1>5, <1>6, BudgetTypes DEF Budgeted
<1>. QED BY <1>4, <1>7, <1>8 DEF Budgeted

\* A claim gives the row one holder and one try more; the try counts only
\* beyond the budget, and the holder can send the row back only within it.
LEMMA BudgetClaimed ==
  ASSUME TypeOK, TypeOK', NEW e \in Events, Budgeted(e), NEW w \in Workers,
         \A v \in Workers : v # w => claims'[v] = claims[v],
         \A c \in claims'[w] : c.event = e => c = RecordOf(e),
         rows'[e] = Claimed(rows[e]), lost'[e] = lost[e] + Out(e)
  PROVE  Budgeted(e)'
<1>. DEFINE a == rows[e].attempts
<1>1. /\ rows'[e].id = rows[e].id /\ rows'[e].attempts = a + 1 /\ rows'[e].state = "processing"
      /\ rows[e] \in Row /\ a \in Nat
  <2>1. rows[e] \in Row /\ a \in Nat
    BY BudgetTypes
  <2>2. Claimed(rows[e]).id = rows[e].id /\ Claimed(rows[e]).attempts = a + 1
        /\ Claimed(rows[e]).state = "processing"
    BY <2>1 DEF Claimed, Row
  <2>. QED BY <2>1, <2>2
<1>2. RecordOf(e).event = e /\ RecordOf(e).id = rows[e].id /\ RecordOf(e).attempts = a + 1
  BY DEF RecordOf
<1>3. Holders(e)' \subseteq Holders(e) \cup {w}
  BY DEF Holders, Holds
<1>4. Revivers(e)' \subseteq Revivers(e) \cup {w}
  BY <1>1 DEF Revivers
<1>5. ~(a + 1 < MaxAttempts) => Revivers(e)' \subseteq Revivers(e)
  BY <1>1, <1>2 DEF Revivers
<1>6. Revivers(e)' \subseteq Holders(e)'
  BY DEF Revivers, Holders, Holds
<1>7. /\ IsFiniteSet(Holders(e)') /\ Cardinality(Holders(e)') <= Cardinality(Holders(e)) + 1
      /\ Cardinality(Revivers(e)') <= Cardinality(Revivers(e)) + 1
      /\ ~(a + 1 < MaxAttempts) => Cardinality(Revivers(e)') <= Cardinality(Revivers(e))
  <2>. DEFINE H == Holders(e)
              K == Revivers(e)
              H1 == Holders(e)'
              K1 == Revivers(e)'
  <2>1. IsFiniteSet(H) /\ K \subseteq H /\ K1 \subseteq H1 /\ H1 \subseteq H \cup {w}
        /\ K1 \subseteq K \cup {w} /\ (~(a + 1 < MaxAttempts) => K1 \subseteq K)
    BY <1>3, <1>4, <1>5, <1>6, BudgetTypes DEF Budgeted
  <2>. HIDE DEF H, K, H1, K1
  <2>2. /\ IsFiniteSet(H1) /\ Cardinality(H1) <= Cardinality(H) + 1
        /\ Cardinality(K1) <= Cardinality(K) + 1
        /\ K1 \subseteq K => Cardinality(K1) <= Cardinality(K)
    BY <2>1, BudgetCounts
  <2>. QED BY <2>1, <2>2 DEF H, K, H1, K1
<1>8. Cardinality(Holders(e)') \in Nat /\ Cardinality(Revivers(e)') \in Nat
  BY <1>6, <1>7, FS_Subset, FS_CardinalityType
<1>9. Out(e)' = 1 /\ lost'[e] \in Nat /\ lost[e] \in Nat /\ Out(e) \in {0, 1}
  BY <1>1, BudgetTypes DEF Out, TypeOK
<1>10. lost'[e] = lost[e] + Out(e)
  OBVIOUS
<1>11. Cardinality(Holders(e)') <= lost'[e] + Out(e)'
  BY <1>7, <1>8, <1>9, <1>10, BudgetTypes DEF Budgeted
<1>12. IF a + 1 < MaxAttempts THEN Over(a + 1) = Over(a) ELSE Over(a + 1) = Over(a) + 1
  BY <1>1, IngestAssumption DEF Over
<1>. HIDE DEF a
<1>13. Over(a) \in Nat /\ Over(a) + Cardinality(Revivers(e)) <= lost[e] + Out(e)
       /\ Cardinality(Revivers(e)) \in Nat
  BY BudgetTypes DEF Budgeted, a
<1>14. Over(a + 1) + Cardinality(Revivers(e)') <= lost'[e] + Out(e)'
  <2>1. CASE a + 1 < MaxAttempts
    BY <1>7, <1>8, <1>9, <1>10, <1>12, <1>13, <2>1
  <2>2. CASE ~(a + 1 < MaxAttempts)
    BY <1>7, <1>8, <1>9, <1>10, <1>12, <1>13, <2>2
  <2>. QED BY <2>1, <2>2
<1>. QED BY <1>1, <1>7, <1>11, <1>14 DEF Budgeted

\* A holder that sends the row back holds it no longer.
LEMMA BudgetRequeued ==
  ASSUME TypeOK, TypeOK', NEW e \in Events, Budgeted(e), NoneAdded(e), NEW w \in Workers,
         NEW c \in claims[w], c.event = e, c.attempts < MaxAttempts,
         \A d \in claims'[w] : d.event # e,
         rows'[e].id = rows[e].id, rows'[e].attempts = rows[e].attempts, lost'[e] = lost[e]
  PROVE  Budgeted(e)'
<1>1. w \in Holders(e) /\ w \in Revivers(e)
  BY DEF Holders, Holds, Revivers
<1>2. Holders(e)' \subseteq Holders(e) \ {w}
  BY DEF NoneAdded, Holders, Holds
<1>3. Revivers(e)' \subseteq Revivers(e) \ {w}
  BY DEF NoneAdded, Revivers
<1>4. Revivers(e)' \subseteq Holders(e)'
  BY DEF Revivers, Holders, Holds
<1>5. /\ IsFiniteSet(Holders(e)') /\ Cardinality(Holders(e)') <= Cardinality(Holders(e)) - 1
      /\ Cardinality(Revivers(e)') <= Cardinality(Revivers(e)) - 1
  BY <1>1, <1>2, <1>3, <1>4, BudgetTypes, BudgetCounts DEF Budgeted
<1>6. Cardinality(Holders(e)') \in Nat /\ Cardinality(Revivers(e)') \in Nat
  BY <1>4, <1>5, FS_Subset, FS_CardinalityType
<1>7. Out(e)' \in {0, 1}
  BY DEF Out
<1>8. Cardinality(Holders(e)') <= lost'[e] + Out(e)'
  BY <1>5, <1>6, <1>7, BudgetTypes DEF Budgeted
<1>9. Over(rows'[e].attempts) + Cardinality(Revivers(e)') <= lost'[e] + Out(e)'
  BY <1>5, <1>6, <1>7, BudgetTypes DEF Budgeted
<1>. QED BY <1>5, <1>8, <1>9 DEF Budgeted

LEMMA BatchStep ==
  ASSUME TypeOK, BatchesAreSets, [Next]_vars
  PROVE  BatchesAreSets'
<1>1. SUFFICES ASSUME NEW w \in Workers
               PROVE  /\ \A c, d \in claims'[w] : c.event = d.event => c = d
                      /\ \A c \in claims'[w], s \in selected'[w] : c.event # s.event
  BY DEF BatchesAreSets
<1>2. CASE claims'[w] \subseteq claims[w] /\ selected'[w] = selected[w]
  BY <1>2 DEF BatchesAreSets
<1>3. CASE ClaimSelect(w)
  <2>1. PICK chosen \in SUBSET Events :
          /\ claims' = [claims EXCEPT ![w] = {RecordOf(e) : e \in chosen \cap Expired}]
          /\ selected' = [selected EXCEPT
                            ![w] = {[event |-> e, id |-> rows[e].id] : e \in chosen \ Expired}]
    BY <1>3 DEF ClaimSelect
  <2>2. /\ claims'[w] = {RecordOf(e) : e \in chosen \cap Expired}
        /\ selected'[w] = {[event |-> e, id |-> rows[e].id] : e \in chosen \ Expired}
    BY <2>1 DEF TypeOK
  <2>3. \A c \in claims'[w] : c = RecordOf(c.event) /\ c.event \in Expired
    BY <2>2 DEF RecordOf
  <2>4. \A s \in selected'[w] : s.event \notin Expired
    BY <2>2
  <2>. QED BY <2>3, <2>4
<1>4. CASE ClaimUpdate(w)
  <2>. DEFINE taken == {e \in Events : [event |-> e, id |-> rows[e].id] \in selected[w]}
  <2>1. claims'[w] = claims[w] \cup {RecordOf(e) : e \in taken} /\ selected'[w] = {}
    BY <1>4 DEF ClaimUpdate, TypeOK
  <2>2. \A c \in claims[w] : c.event \notin taken
    BY DEF BatchesAreSets
  <2>. HIDE DEF taken
  <2>3. \A c \in {RecordOf(e) : e \in taken} : c = RecordOf(c.event) /\ c.event \in taken
    BY DEF RecordOf
  <2>. QED BY <2>1, <2>2, <2>3 DEF BatchesAreSets
<1>. QED BY <1>2, <1>3, <1>4, ClaimsStep

\* Steps that touch the row of e in nothing that matters here.
LEMMA RestHolds ==
  ASSUME TypeOK, TypeOK', NEW e \in Events, Budgeted(e), ExemptIsLetGo(e), NoneAdded(e),
         rows'[e].id = rows[e].id, rows'[e].attempts = rows[e].attempts, lost'[e] = lost[e],
         rows'[e].state = rows[e].state, rows'[e].link = rows[e].link
  PROVE  Budgeted(e)' /\ ExemptIsLetGo(e)'
  BY BudgetShrinks DEF ExemptIsLetGo

\* The claim's first statements, as they are for one row.
LEMMA SelectHolds ==
  ASSUME TypeOK, TypeOK', NEW w \in Workers, ClaimSelect(w), NEW e \in Events,
         Budgeted(e), ExemptIsLetGo(e)
  PROVE  Budgeted(e)' /\ ExemptIsLetGo(e)'
<1>1. PICK chosen \in SUBSET Events :
        /\ rows' = [f \in Events |->
                      CASE f \in Expired \cap chosen -> Claimed(rows[f])
                        [] f \in Expired \ chosen -> Reclaimed(rows[f])
                        [] OTHER -> rows[f]]
        /\ claims' = [claims EXCEPT ![w] = {RecordOf(f) : f \in chosen \cap Expired}]
  BY DEF ClaimSelect
<1>2. lost'[e] = IF e \in Expired THEN lost[e] + 1 ELSE lost[e]
  BY DEF ClaimSelect, LoseLeases
<1>3. /\ claims'[w] = {RecordOf(f) : f \in chosen \cap Expired} /\ claims[w] = {}
      /\ \A v \in Workers : v # w => claims'[v] = claims[v]
  BY <1>1 DEF ClaimSelect, Idling, TypeOK
<1>4. rows[e] \in Row
  BY DEF TypeOK
<1>5. CASE e \in Expired \cap chosen
  <2>1. rows'[e] = Claimed(rows[e])
    BY <1>1, <1>5
  <2>2. \A c \in claims'[w] : c.event = e => c = RecordOf(e)
    BY <1>3 DEF RecordOf
  <2>3. lost'[e] = lost[e] + Out(e)
    BY <1>2, <1>5 DEF Expired, Out
  <2>4. rows'[e].state = "processing"
    BY <1>4, <2>1 DEF Claimed, Row
  <2>. QED BY <1>3, <2>1, <2>2, <2>3, <2>4, BudgetClaimed DEF ExemptIsLetGo
<1>6. CASE e \notin Expired \cap chosen
  <2>1. NoneAdded(e)
    BY <1>3, <1>6 DEF NoneAdded, RecordOf
  <2>2. CASE e \in Expired
    <3>1. rows'[e] = Reclaimed(rows[e])
      BY <1>1, <1>6, <2>2
    <3>2. /\ rows'[e].id = rows[e].id /\ rows'[e].attempts = rows[e].attempts
          /\ rows'[e].state = "queued"
      BY <1>4, <3>1 DEF Reclaimed, Row
    <3>3. rows[e].state = "processing" /\ lost'[e] = lost[e] + 1
      BY <1>2, <2>2 DEF Expired
    <3>. QED BY <2>1, <3>2, <3>3, BudgetReclaimed DEF ExemptIsLetGo
  <2>3. CASE e \notin Expired
    <3>1. rows'[e] = rows[e] /\ lost'[e] = lost[e]
      BY <1>1, <1>2, <2>3
    <3>. QED BY <2>1, <3>1, RestHolds
  <2>. QED BY <2>2, <2>3
<1>. QED BY <1>5, <1>6

\* The claim's last statement: it stamps rows it read as queued, whatever they
\* are now.
LEMMA UpdateHolds ==
  ASSUME TypeOK, TypeOK', IdsAreOwn, BatchesAreSets, NEW w \in Workers, ClaimUpdate(w),
         NEW e \in Events, Budgeted(e), ExemptIsLetGo(e)
  PROVE  Budgeted(e)' /\ ExemptIsLetGo(e)'
<1>. DEFINE taken == {f \in Events : [event |-> f, id |-> rows[f].id] \in selected[w]}
<1>1. /\ rows'[e] = IF e \in taken THEN Claimed(rows[e]) ELSE rows[e]
      /\ lost'[e] = IF e \in taken \ Queued THEN lost[e] + 1 ELSE lost[e]
      /\ claims'[w] = claims[w] \cup {RecordOf(f) : f \in taken}
      /\ \A v \in Workers : v # w => claims'[v] = claims[v]
  BY DEF ClaimUpdate, TypeOK
<1>2. rows[e] \in Row /\ lost[e] \in Nat
  BY DEF TypeOK
<1>3. \A c \in claims[w] : c.event \notin taken
  BY DEF BatchesAreSets
<1>4. e \in taken => rows[e].state # "absent"
  <2>1. SUFFICES ASSUME e \in taken, rows[e].state = "absent" PROVE FALSE
    OBVIOUS
  <2>2. rows[e].id = 0
    BY <2>1 DEF IdsAreOwn, Absent
  <2>. QED BY <2>1, <2>2 DEF IdsAreOwn, Named
<1>. HIDE DEF taken
<1>5. \A c \in {RecordOf(f) : f \in taken} : c = RecordOf(c.event) /\ c.event \in taken
  BY DEF RecordOf
<1>6. CASE e \in taken
  <2>1. rows'[e] = Claimed(rows[e])
    BY <1>1, <1>6
  <2>2. \A c \in claims'[w] : c.event = e => c = RecordOf(e)
    BY <1>1, <1>3, <1>5, <1>6
  <2>3. lost'[e] = lost[e] + Out(e)
    BY <1>1, <1>2, <1>4, <1>6 DEF Queued, Out
  <2>4. rows'[e].state = "processing"
    BY <1>2, <2>1 DEF Claimed, Row
  <2>. QED BY <1>1, <2>1, <2>2, <2>3, <2>4, BudgetClaimed DEF ExemptIsLetGo
<1>7. CASE e \notin taken
  <2>1. NoneAdded(e)
    BY <1>1, <1>5, <1>7 DEF NoneAdded
  <2>2. rows'[e] = rows[e] /\ lost'[e] = lost[e]
    BY <1>1, <1>7
  <2>. QED BY <2>1, <2>2, RestHolds
<1>. QED BY <1>6, <1>7

LEMMA AtMostOne ==
  ASSUME NEW S, IsFiniteSet(S), Cardinality(S) <= 1, NEW v \in S, NEW w \in S
  PROVE  v = w
<1>1. SUFFICES ASSUME v # w PROVE FALSE
  OBVIOUS
<1>2. IsFiniteSet(S \ {v}) /\ Cardinality(S \ {v}) = Cardinality(S) - 1 /\ Cardinality(S) \in Nat
  BY FS_RemoveElement, FS_CardinalityType
<1>3. Cardinality(S \ {v}) \in Nat
  BY <1>2, FS_CardinalityType
<1>4. Cardinality(S \ {v}) = 0
  BY <1>2, <1>3
<1>5. S \ {v} = {}
  BY <1>2, <1>4, FS_EmptySet
<1>. QED BY <1>1, <1>5

\* What a worker that is done with the head of its batch holds no longer.
LEMMA HeadClaims ==
  ASSUME TypeOK, BatchesAreSets, NEW w \in Workers, NEW c \in claims[w], HeadStep(w, c)
  PROVE  /\ \A e \in Events : NoneAdded(e)
         /\ SkipExempt(w, c) \/ MarkRetry(w, c) =>
              \A d \in claims'[w] : d.event # c.event
         /\ lost' = lost
<1>. claims \in [Workers -> SUBSET ClaimRecord]
  BY DEF TypeOK
<1>1. Advance(w, c) \/ (UNCHANGED claims)
  BY DEF HeadStep, SkipExempt, BeginCommit, CommitEffects, CommitDuplicate, IndexConflict,
         FinishEvent, MarkRetry, FailBeforeCommit, FailAfterCommit, Goto
<1>2. \A e \in Events : NoneAdded(e)
  BY <1>1 DEF Advance, NoneAdded
<1>3. ASSUME SkipExempt(w, c) \/ MarkRetry(w, c)
      PROVE  \A d \in claims'[w] : d.event # c.event
  <2>1. claims'[w] = claims[w] \ {c}
    BY <1>3 DEF SkipExempt, MarkRetry, Advance
  <2>. QED BY <2>1 DEF BatchesAreSets
<1>4. lost' = lost
  BY DEF HeadStep, SkipExempt, BeginCommit, CommitEffects, CommitDuplicate, IndexConflict,
         FinishEvent, MarkRetry, FailBeforeCommit, FailAfterCommit
<1>. QED BY <1>2, <1>3, <1>4

LEMMA HeadHolds ==
  ASSUME HoldInv, TypeOK', [Next]_vars, NEW w \in Workers, NEW c \in claims[w], IsHead(w, c),
         HeadStep(w, c), NEW e \in Events
  PROVE  Budgeted(e)' /\ ExemptIsLetGo(e)'
<1>. TypeOK /\ BatchesAreSets /\ RowInv /\ Budgeted(e) /\ ExemptIsLetGo(e)
  BY DEF HoldInv, RowInv, CommitInv
<1>. NoneAdded(e) /\ lost'[e] = lost[e]
  BY HeadClaims
<1>. rows[e] \in Row /\ claims[w] \in SUBSET ClaimRecord
  BY DEF TypeOK
<1>. c.event \in Events /\ c.attempts \in Nat
  BY DEF ClaimRecord
<1>1. CASE MarkRetry(w, c)
  <2>. DEFINE dead == aux[w].permanent \/ c.attempts >= MaxAttempts
  <2>1. rows' = [rows EXCEPT ![c.event] = Retried(@, dead)] /\ dead \in BOOLEAN
    BY <1>1 DEF MarkRetry
  <2>. HIDE DEF dead
  <2>2. CASE e # c.event \/ rows[e].state = "absent"
    <3>1. rows'[e] = rows[e]
      BY <2>1, <2>2 DEF TypeOK, Retried
    <3>. QED BY <3>1, RestHolds
  <2>3. CASE e = c.event /\ rows[e].state # "absent"
    <3>1. rows'[e] = Retried(rows[e], dead)
      BY <2>1, <2>3 DEF TypeOK
    <3>2. /\ rows'[e].id = rows[e].id /\ rows'[e].attempts = rows[e].attempts
          /\ rows'[e].state = IF dead THEN "failed" ELSE "queued"
      <4>1. rows'[e] = [rows[e] EXCEPT !.state = IF dead THEN "failed" ELSE "queued",
                                       !.leased = FALSE, !.due = FALSE]
        BY <2>3, <3>1 DEF Retried
      <4>. DEFINE state == IF dead THEN "failed" ELSE "queued"
      <4>. HIDE DEF state
      <4>2. rows'[e] = [rows[e] EXCEPT !.state = state, !.leased = FALSE, !.due = FALSE]
        BY <4>1 DEF state
      <4>3. /\ rows'[e].id = rows[e].id /\ rows'[e].attempts = rows[e].attempts
            /\ rows'[e].state = state
        BY <4>2 DEF Row
      <4>. QED BY <4>3 DEF state
    <3>3. ExemptIsLetGo(e)'
      BY <3>2 DEF ExemptIsLetGo
    <3>4. CASE dead
      BY <3>2, <3>3, <3>4, BudgetShrinks
    <3>5. CASE ~dead
      <4>1. c.attempts < MaxAttempts
        BY <3>5, IngestAssumption DEF dead
      <4>2. \A d \in claims'[w] : d.event # e
        BY <1>1, <2>3, HeadClaims
      <4>. QED BY <2>3, <3>2, <3>3, <4>1, <4>2, BudgetRequeued
    <3>. QED BY <3>4, <3>5
  <2>. QED BY <2>2, <2>3
<1>2. CASE SkipExempt(w, c)
  <2>1. rows' = [rows EXCEPT ![c.event] = Skipped(@)]
    BY <1>2 DEF SkipExempt
  <2>2. CASE e # c.event \/ rows[e].state = "absent"
    <3>1. rows'[e] = rows[e]
      BY <2>1, <2>2 DEF TypeOK, Skipped
    <3>. QED BY <3>1, RestHolds
  <2>3. CASE e = c.event /\ rows[e].state # "absent"
    <3>1. rows'[e] = Skipped(rows[e])
      BY <2>1, <2>3 DEF TypeOK
    <3>2. /\ rows'[e].id = rows[e].id /\ rows'[e].attempts = rows[e].attempts
          /\ rows'[e].state = "processed"
      BY <2>3, <3>1 DEF Skipped, Row
    <3>3. Budgeted(e)' /\ Holders(e)' \subseteq Holders(e)
      BY <3>2, BudgetShrinks
    <3>4. lost[e] = 0 => Holders(e)' = {}
      <4>1. SUFFICES ASSUME lost[e] = 0, NEW v \in Workers, v \in Holders(e)' PROVE FALSE
        BY DEF Holders
      <4>2. v \in Holders(e) /\ w \in Holders(e)
        BY <2>3, <3>3, <4>1 DEF Holders, Holds
      <4>3. v # w
        BY <1>2, <2>3, <4>1, HeadClaims DEF Holders, Holds
      <4>4. IsFiniteSet(Holders(e)) /\ Cardinality(Holders(e)) \in Nat /\ Cardinality(Holders(e)) <= 1
        BY <4>1, BudgetTypes DEF Budgeted
      <4>. QED BY <4>2, <4>3, <4>4, AtMostOne
    <3>. QED BY <3>3, <3>4 DEF ExemptIsLetGo
  <2>. QED BY <2>2, <2>3
<1>3. CASE CommitEffects(w, c) \/ CommitDuplicate(w, c)
  <2>1. CASE Kept(e)
    BY <2>1, RestHolds DEF Kept
  <2>2. CASE ~Kept(e)
    <3>1. PICK l \in Nat : rows' = [rows EXCEPT ![c.event] = Processed(@, l)]
      <4>1. Len(journal) + 1 \in Nat /\ aux[w].analysis \in Nat
        <5>1. Len(journal) + 1 \in Nat
          BY DEF TypeOK
        <5>2. analyses[c.event] \in Nat /\ aux[w].analysis \in Nat
          BY DEF TypeOK
        <5>. QED BY <5>1, <5>2
      <4>2. CASE CommitEffects(w, c)
        BY <4>1, <4>2 DEF CommitEffects
      <4>3. CASE CommitDuplicate(w, c)
        BY <4>1, <4>3 DEF CommitDuplicate
      <4>. QED BY <1>3, <4>2, <4>3
    <3>2. e = c.event /\ rows[e].state # "absent"
      BY <2>2, <3>1 DEF Kept, TypeOK, Processed
    <3>3. rows'[e] = Processed(rows[e], l)
      BY <3>1, <3>2 DEF TypeOK
    <3>4. /\ rows'[e].id = rows[e].id /\ rows'[e].attempts = rows[e].attempts
          /\ rows'[e].state = "processed" /\ rows'[e].link = l
      BY <3>2, <3>3 DEF Processed, Row
    <3>5. rows'[e].link # 0
      <4>1. CASE CommitEffects(w, c)
        <5>1. rows'[e] = Processed(rows[e], Len(journal) + 1) /\ Len(journal) \in Nat
          BY <3>2, <4>1 DEF CommitEffects, TypeOK
        <5>2. rows'[e].link = Len(journal) + 1
          BY <3>2, <5>1 DEF Processed, Row
        <5>. QED BY <5>1, <5>2
      <4>2. CASE CommitDuplicate(w, c)
        <5>1. rows'[e] = Processed(rows[e], aux[w].analysis) /\ aux[w].analysis # 0
          BY <3>2, <4>2 DEF CommitDuplicate, TypeOK
        <5>2. rows'[e].link = aux[w].analysis
          BY <3>2, <5>1 DEF Processed, Row
        <5>. QED BY <5>1, <5>2
      <4>. QED BY <1>3, <4>1, <4>2
    <3>6. Budgeted(e)'
      BY <3>4, BudgetShrinks
    <3>. QED BY <3>5, <3>6 DEF ExemptIsLetGo
  <2>. QED BY <2>1, <2>2
<1>4. CASE \/ BeginCommit(w, c) \/ IndexConflict(w, c) \/ FinishEvent(w, c)
           \/ \E permanent \in BOOLEAN :
                FailBeforeCommit(w, c, permanent) \/ FailAfterCommit(w, c, permanent)
  <2>1. rows'[e] = rows[e]
    BY <1>4 DEF BeginCommit, IndexConflict, FinishEvent, FailBeforeCommit, FailAfterCommit, queueVars
  <2>. QED BY <2>1, RestHolds
<1>. QED BY <1>1, <1>2, <1>3, <1>4 DEF HeadStep

LEMMA HoldStep ==
  ASSUME HoldInv, [Next]_vars
  PROVE  HoldInv'
<1>. TypeOK /\ BatchesAreSets /\ RowInv
  BY DEF HoldInv, RowInv, CommitInv
<1>1. RowInv' /\ BatchesAreSets' /\ TypeOK'
  BY RowStepInv, BatchStep DEF RowInv, CommitInv
<1>2. SUFFICES ASSUME NEW e \in Events PROVE Budgeted(e)' /\ ExemptIsLetGo(e)'
  BY <1>1 DEF HoldInv
<1>. Budgeted(e) /\ ExemptIsLetGo(e) /\ rows[e] \in Row /\ lost[e] \in Nat
  BY DEF HoldInv, TypeOK
<1>3. ASSUME NEW f \in Events, Enqueue(f) PROVE Budgeted(e)' /\ ExemptIsLetGo(e)'
  <2>1. NoneAdded(e) /\ lost'[e] = lost[e]
    BY <1>3 DEF Enqueue, workerVars, NoneAdded
  <2>2. CASE rows'[e] = rows[e]
    BY <1>1, <2>1, <2>2, RestHolds
  <2>3. CASE rows'[e] # rows[e]
    <3>1. rows[e].state = "absent" /\ rows'[e] = Fresh(e)
      BY <1>3, <2>3 DEF Enqueue, queueVars, Present, TypeOK
    <3>2. Out(e) = 0 /\ rows'[e].state = "queued" /\ rows'[e].attempts = 0
      BY <3>1, NewRow DEF Out
    <3>3. Budgeted(e)'
      BY <1>1, <2>1, <3>2, BudgetReplaced
    <3>. QED BY <3>2, <3>3 DEF ExemptIsLetGo
  <2>. QED BY <2>2, <2>3
<1>4. ASSUME NEW f \in Events, BackoffElapses(f) \/ LeaseExpires(f)
      PROVE  Budgeted(e)' /\ ExemptIsLetGo(e)'
  <2>1. NoneAdded(e) /\ lost'[e] = lost[e]
    BY <1>4 DEF BackoffElapses, LeaseExpires, workerVars, NoneAdded
  <2>2. \/ rows'[e] = rows[e]
        \/ rows'[e] = [rows[e] EXCEPT !.due = TRUE] \/ rows'[e] = [rows[e] EXCEPT !.leased = FALSE]
    BY <1>4 DEF BackoffElapses, LeaseExpires, TypeOK
  <2>3. /\ rows'[e].id = rows[e].id /\ rows'[e].attempts = rows[e].attempts
        /\ rows'[e].state = rows[e].state /\ rows'[e].link = rows[e].link
    BY <2>2 DEF Row
  <2>. QED BY <1>1, <2>1, <2>3, RestHolds
<1>5. ASSUME NEW w \in Workers, WorkerStep(w) PROVE Budgeted(e)' /\ ExemptIsLetGo(e)'
  <2>1. CASE ClaimSelect(w)
    BY <1>1, <2>1, SelectHolds
  <2>2. CASE ClaimUpdate(w)
    BY <1>1, <2>2, UpdateHolds DEF RowInv
  <2>3. ASSUME NEW c \in claims[w], IsHead(w, c), HeadStep(w, c)
        PROVE  Budgeted(e)' /\ ExemptIsLetGo(e)'
    BY <1>1, <2>3, HeadHolds
  <2>. QED BY <1>5, <2>1, <2>2, <2>3 DEF WorkerStep
<1>6. CASE (\E w \in Workers : LoseBatch(w)) \/ UNCHANGED vars
  <2>1. NoneAdded(e) /\ lost'[e] = lost[e] /\ rows'[e] = rows[e]
    BY <1>6 DEF LoseBatch, vars, queueVars, workerVars, NoneAdded, TypeOK
  <2>. QED BY <1>1, <2>1, RestHolds
<1>7. ASSUME NEW R \in SUBSET Present, NEW A \in SUBSET {f \in Events : analyses[f] # 0},
             Maintenance(R, A)
      PROVE  Budgeted(e)' /\ ExemptIsLetGo(e)'
  <2>1. NoneAdded(e)
    BY <1>7 DEF Maintenance, workerVars, NoneAdded
  <2>2. CASE e \in R
    <3>1. rows'[e] = Absent /\ lost'[e] = lost[e] + 1
      BY <1>7, <2>2 DEF Maintenance
    <3>2. rows'[e].state = "absent" /\ rows'[e].attempts = 0
          /\ lost'[e] >= lost[e] + Out(e) /\ lost'[e] \in Nat
      BY <3>1 DEF Absent, Out
    <3>3. Budgeted(e)'
      BY <1>1, <2>1, <3>2, BudgetReplaced
    <3>. QED BY <3>2, <3>3 DEF ExemptIsLetGo
  <2>3. CASE e \notin R
    <3>1. rows'[e] = rows[e] /\ lost'[e] = lost[e]
      BY <1>7, <2>3 DEF Maintenance
    <3>. QED BY <1>1, <2>1, <3>1, RestHolds
  <2>. QED BY <2>2, <2>3
<1>. QED BY <1>3, <1>4, <1>5, <1>6, <1>7 DEF Next, MaintenanceStep

LEMMA HoldInvHolds == Spec => []HoldInv
<1>1. Init => HoldInv
  <2>. SUFFICES ASSUME Init PROVE BatchesAreSets /\ \A e \in Events : Budgeted(e) /\ ExemptIsLetGo(e)
    BY RowInit DEF HoldInv
  <2>1. BatchesAreSets
    BY DEF Init, BatchesAreSets
  <2>2. ASSUME NEW e \in Events PROVE Budgeted(e) /\ ExemptIsLetGo(e)
    <3>1. Holders(e) = {} /\ Revivers(e) = {}
      BY DEF Init, Holders, Holds, Revivers
    <3>2. rows[e].attempts = 0 /\ rows[e].state = "absent" /\ lost[e] = 0
      BY DEF Init, Absent
    <3>3. Over(0) = 0 /\ Out(e) = 0
      BY <3>2, IngestAssumption DEF Over, Out
    <3>. QED BY <3>1, <3>2, <3>3, FS_EmptySet DEF Budgeted, ExemptIsLetGo
  <2>. QED BY <2>1, <2>2
<1>2. HoldInv /\ [Next]_vars => HoldInv'
  BY HoldStep
<1>. QED BY <1>1, <1>2, PTL DEF Spec

\* For any number of workers and bounds: what a row says of its event is so;
\* two workers hold a row only when a lease or the row was lost or a claim
\* stamped it from an outdated reading; and each of these buys one try beyond
\* the budget, no more (store.py:2189).
THEOREM RowsSound == Spec => []RowsAreSound
<1>1. ASSUME HoldInv PROVE RowsAreSound
  <2>1. ProcessedIsHandled /\ TypeOK
    BY <1>1 DEF HoldInv, RowInv, CommitInv
  <2>2. ASSUME NEW e \in Events PROVE Budgeted(e) /\ lost[e] \in Nat
    BY <1>1, <2>1 DEF HoldInv, TypeOK
  <2>3. ExclusiveHold
    <3>1. SUFFICES ASSUME NEW e \in Events, NEW v \in Workers, NEW w \in Workers, v # w,
                          Holds(v, e), Holds(w, e), lost[e] = 0
                   PROVE  FALSE
      BY <2>2 DEF ExclusiveHold
    <3>2. IsFiniteSet(Holders(e)) /\ Cardinality(Holders(e)) <= 1
      BY <2>1, <2>2, <3>1, BudgetTypes DEF Budgeted
    <3>3. v \in Holders(e) /\ w \in Holders(e)
      BY <3>1 DEF Holders
    <3>. QED BY <3>1, <3>2, <3>3, AtMostOne
  <2>4. AttemptBudget
    <3>1. SUFFICES ASSUME NEW e \in Events PROVE rows[e].attempts <= MaxAttempts + lost[e]
      BY DEF AttemptBudget
    <3>2. Over(rows[e].attempts) <= lost[e] + 1 /\ rows[e].attempts \in Nat /\ lost[e] \in Nat
      BY <2>1, <2>2, BudgetTypes DEF Budgeted
    <3>. QED BY <3>2, IngestAssumption DEF Over
  <2>. QED BY <2>1, <2>3, <2>4 DEF RowsAreSound
<1>. QED BY <1>1, HoldInvHolds, PTL

\* A settled row is sent back only by a worker that committed its effects,
\* outlived its lease or claimed it from an outdated reading (store.py:2239).
THEOREM ReopenedAfterEffects == Spec => ReopenedOnlyAfterEffects
<1>1. ASSUME HoldInv, [Next]_vars, NEW e \in Events, rows[e].state = "processed",
             rows'[e].state \in {"queued", "failed"}
      PROVE  rows[e].link # 0 \/ lost[e] > 0
  <2>. TypeOK /\ BatchesAreSets
    BY <1>1 DEF HoldInv, RowInv, CommitInv
  <2>. rows[e] \in Row /\ lost[e] \in Nat /\ rows \in [Events -> Row]
    BY DEF TypeOK
  <2>1. PICK w \in Workers : \E c \in claims[w] : c.event = e
    <3>1. ASSUME NEW f \in Events, Enqueue(f) \/ BackoffElapses(f) \/ LeaseExpires(f) PROVE FALSE
      <4>1. rows'[e] = rows[e]
        BY <1>1, <3>1 DEF Enqueue, BackoffElapses, LeaseExpires, queueVars, Present
      <4>. QED BY <1>1, <4>1
    <3>2. ASSUME NEW w \in Workers, ClaimSelect(w) PROVE FALSE
      <4>1. rows'[e] = rows[e]
        BY <1>1, <3>2 DEF ClaimSelect, Expired
      <4>. QED BY <1>1, <4>1
    <3>3. ASSUME NEW w \in Workers, ClaimUpdate(w) PROVE FALSE
      <4>1. rows'[e] = rows[e] \/ rows'[e] = Claimed(rows[e])
        BY <3>3 DEF ClaimUpdate
      <4>2. Claimed(rows[e]).state = "processing"
        BY DEF Claimed, Row
      <4>. QED BY <1>1, <4>1, <4>2
    <3>4. CASE (\E w \in Workers : LoseBatch(w)) \/ UNCHANGED vars
      BY <1>1, <3>4 DEF LoseBatch, vars, queueVars
    <3>5. CASE MaintenanceStep
      <4>1. rows'[e] = rows[e] \/ rows'[e] = Absent
        BY <3>5 DEF MaintenanceStep, Maintenance
      <4>. QED BY <1>1, <4>1 DEF Absent
    <3>6. ASSUME NEW w \in Workers, NEW c \in claims[w], HeadStep(w, c), c.event # e PROVE FALSE
      <4>1. c.event \in Events
        BY DEF TypeOK, ClaimRecord
      <4>2. rows'[e] = rows[e]
        BY <3>6, <4>1 DEF HeadStep, SkipExempt, BeginCommit, CommitEffects, CommitDuplicate,
              IndexConflict, FinishEvent, MarkRetry, FailBeforeCommit, FailAfterCommit, queueVars
      <4>. QED BY <1>1, <4>2
    <3>. QED BY <1>1, <3>1, <3>2, <3>3, <3>4, <3>5, <3>6 DEF Next, WorkerStep
  <2>2. Holders(e) # {}
    BY <2>1 DEF Holders, Holds
  <2>. QED BY <1>1, <2>2 DEF HoldInv, ExemptIsLetGo
<1>2. HoldInv /\ [Next]_vars =>
        [\A e \in Events :
           rows[e].state = "processed" /\ rows'[e].state \in {"queued", "failed"}
             => rows[e].link # 0 \/ lost[e] > 0]_vars
  BY <1>1
<1>. QED BY <1>2, HoldInvHolds, PTL DEF Spec, ReopenedOnlyAfterEffects
=============================================================================
