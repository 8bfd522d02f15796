--------------------------- MODULE Decision_proofs ---------------------------
(***************************************************************************)
(* Proofs about Decision, for any number of workers, users, devices and     *)
(* administrators, any signals and any settings.                            *)
(*                                                                         *)
(* OverrideDecides speaks of the commit only.  What makes it so is said of   *)
(* every position of an event that nobody touched: the override it began     *)
(* under still stands, and it comes to the cache only when none does         *)
(* (ReadsInv).  The other properties rest on what a bundle says of itself,   *)
(* also after it was a row of the cache: BundleInv.                          *)
(***************************************************************************)
EXTENDS Decision, TLAPS

Positions == {"idle", "override", "pattern", "cache", "evaluate",
              "devices", "register", "commit"}

\* The fields of a worker; the bundle may be any value.
Shaped(x) ==
  x \in [pc : Positions, began : Decisions \cup {Absent}, touched : BOOLEAN,
         user : Users \cup {Absent}, device : Devices \cup {NoDevice}, tagged : BOOLEAN,
         rules : {x.rules}, live : BOOLEAN, signal : {x.signal}, bundle : {x.bundle},
         under : {x.under}]

ShapeInv ==
  /\ override \in [decision : Decisions \cup {Absent}, expired : BOOLEAN]
  /\ pattern \in Decisions \cup {Absent}
  /\ worker = [w \in Workers |-> worker[w]]
  /\ \A w \in Workers : Shaped(worker[w])

\* Where an event is that nobody touched since it began, and what it knows.
ReadsRight(x) ==
  /\ x.pc \in {"override", "pattern", "cache", "evaluate"} => ~x.live
  /\ x.pc \in {"devices", "register"} => x.device # NoDevice /\ x.live
  /\ ~x.touched =>
       /\ x.pc # "idle" => x.began = Standing
       /\ x.pc = "pattern" => InForce = Absent
       /\ x.pc = "cache" => Standing = Absent
       /\ x.pc = "commit" /\ x.device = NoDevice =>
            /\ x.live /\ x.began # Absent =>
                 x.bundle.source = "manual_override" /\ x.bundle.verdict = x.began
            /\ x.live /\ x.began = Absent => x.bundle.source = "rule_engine"
            /\ ~x.live => x.began = Absent

ReadsInv == ShapeInv /\ \A w \in Workers : ReadsRight(worker[w])

-----------------------------------------------------------------------------
(* What the steps do to the workers *)

\* A step of one worker leaves the others where they are.
LEMMA MoveOne ==
  ASSUME ShapeInv, NEW w \in Workers, NEW from, NEW x, Move(w, from, x)
  PROVE  /\ worker[w].pc = from
         /\ worker'[w] = x
         /\ \A v \in Workers : v # w => worker'[v] = worker[v]
         /\ worker' = [v \in Workers |-> worker'[v]]
  BY DEF ShapeInv, Move

\* A step that leaves the overrides alone leaves what stands.
LEMMA StandingSame ==
  ASSUME UNCHANGED <<override, pattern>>
  PROVE  InForce' = InForce /\ Standing' = Standing
  BY DEF InForce, Standing

\* An event marked as touched promises no more than the shape of its position.
LEMMA TouchedReads ==
  ASSUME ReadsInv, worker' = Touched, NEW v \in Workers
  PROVE  /\ worker' = [w \in Workers |-> worker'[w]]
         /\ Shaped(worker'[v]) /\ ReadsRight(worker[v])'
<1>. DEFINE x == worker[v]
            y == [x EXCEPT !.touched = x.pc # "idle"]
<1>1. worker'[v] = y /\ worker' = [w \in Workers |-> worker'[w]]
  BY DEF Touched
<1>2. Shaped(x) /\ ReadsRight(x)
  BY DEF ReadsInv, ShapeInv
<1>3. /\ y.pc = x.pc /\ y.live = x.live /\ y.device = x.device /\ y.began = x.began
      /\ y.touched = (x.pc # "idle")
      /\ y.user = x.user /\ y.tagged = x.tagged /\ y.rules = x.rules /\ y.signal = x.signal
      /\ y.bundle = x.bundle /\ y.under = x.under
  BY <1>2 DEF Shaped
<1>4. Shaped(y)
  BY <1>2, <1>3 DEF Shaped, Positions
<1>5. ReadsRight(worker[v])'
  BY <1>1, <1>2, <1>3 DEF ReadsRight
<1>. QED BY <1>1, <1>4, <1>5

\* What it takes for a step of one worker to keep ReadsInv.
LEMMA MoveReads ==
  ASSUME ReadsInv, UNCHANGED <<override, pattern>>,
         NEW w \in Workers, NEW from, NEW x, Move(w, from, x), Shaped(x), ReadsRight(x)
  PROVE  ReadsInv'
<1>. ShapeInv /\ \A v \in Workers : Shaped(worker[v]) /\ ReadsRight(worker[v])
  BY DEF ReadsInv, ShapeInv
<1>1. /\ worker'[w] = x
      /\ \A v \in Workers : v # w => worker'[v] = worker[v]
      /\ worker' = [v \in Workers |-> worker'[v]]
  BY MoveOne
<1>2. InForce' = InForce /\ Standing' = Standing
  BY StandingSame
<1>3. ASSUME NEW v \in Workers PROVE Shaped(worker'[v]) /\ ReadsRight(worker[v])'
  <2>1. Shaped(worker'[v])
    BY <1>1
  <2>2. ReadsRight(worker[v])'
    <3>1. CASE v = w
      BY <3>1, <1>1, <1>2 DEF ReadsRight
    <3>2. CASE v # w
      BY <3>2, <1>1, <1>2 DEF ReadsRight
    <3>. QED BY <3>1, <3>2
  <2>. QED BY <2>1, <2>2
<1>4. ShapeInv'
  BY <1>1, <1>3 DEF ShapeInv
<1>. QED BY <1>3, <1>4 DEF ReadsInv

-----------------------------------------------------------------------------
(* What a bundle says of itself *)

\* Only a confident HOME is punitive; where the rule is strict, only an
\* eligible one.
Founded(b, rule) ==
  /\ b.punitive => b.verdict = "HOME" /\ b.band = "HIGH_HOME"
  /\ rule.strict /\ b.punitive => Eligible(b)

LEMMA BundleSays ==
  ASSUME NEW source, NEW outcome, NEW score, NEW reasons, NEW blocked, NEW rule
  PROVE  LET b == Bundle(source, outcome, score, reasons, blocked, rule) IN
         /\ b.source = source /\ b.verdict = outcome.verdict /\ b.band = outcome.band
         /\ b.score = score /\ b.reasons = reasons /\ b.blocked = blocked
         /\ Founded(b, rule)
<1>. DEFINE b0 == [source |-> source, verdict |-> outcome.verdict, band |-> outcome.band,
                   score |-> score, reasons |-> reasons, blocked |-> blocked,
                   punitive |-> FALSE]
            b == Bundle(source, outcome, score, reasons, blocked, rule)
<1>1. b = [b0 EXCEPT !.punitive = Punitive(b0, rule)]
  BY DEF Bundle
<1>2. /\ b.source = source /\ b.verdict = outcome.verdict /\ b.band = outcome.band
      /\ b.score = score /\ b.reasons = reasons /\ b.blocked = blocked
      /\ b.punitive = Punitive(b0, rule)
  BY <1>1
<1>3. Eligible(b) <=> Eligible(b0)
  BY <1>2 DEF Eligible
<1>4. Eligible(b0) => b0.verdict = "HOME" /\ b0.band = "HIGH_HOME"
  BY DEF Eligible
<1>5. Founded(b, rule)
  BY <1>2, <1>3, <1>4 DEF Founded, Punitive
<1>. QED BY <1>2, <1>5

LEMMA OverriddenSays ==
  ASSUME NEW decision \in Decisions, NEW rule
  PROVE  LET b == Overridden(decision, rule) IN
         /\ b.source = "manual_override" /\ b.verdict = decision /\ Founded(b, rule)
<1>. DEFINE reason == Reason("manual_override", "manual_override", 0, "hard",
                             IF decision \in Directions THEN decision ELSE "NEUTRAL")
            outcome == CASE decision = "MOBILE" -> Outcome("MOBILE", "HIGH_MOBILE")
                         [] decision = "HOME"   -> Outcome("HOME", "HIGH_HOME")
                         [] OTHER               -> Outcome("SKIP", "SKIP")
<1>1. Overridden(decision, rule) = Bundle("manual_override", outcome, 0, {reason}, FALSE, rule)
  BY DEF Overridden
<1>2. outcome.verdict = decision
  BY DEF Outcome, Decisions
<1>. HIDE DEF reason, outcome
<1>3. \E score, reasons, blocked :
        Overridden(decision, rule)
          = Bundle("manual_override", outcome, score, reasons, blocked, rule)
  BY <1>1
<1>. QED BY <1>2, <1>3, BundleSays

\* The networks that end an evaluation at once, and what they are weighed by.
HardBlocked(s) == s.datacenter \/ s.asn = "pure_home"
Blockers(s) ==
  ProviderReasons(s) \cup IF s.datacenter THEN {Datacenter} ELSE Only(PureHome, s.asn = "pure_home")

LEMMA WeighedBlocked ==
  ASSUME NEW s, NEW tagged, NEW counts, NEW immune, NEW rule, HardBlocked(s)
  PROVE  Weighed(s, tagged, counts, immune, rule)
           = Bundle("rule_engine", Outcome("HOME", "HIGH_HOME"), Score(Blockers(s)),
                    Blockers(s), FALSE, rule)
  BY DEF Weighed, HardBlocked, Blockers

LEMMA BlockedSays ==
  ASSUME NEW s, NEW tagged, NEW counts, NEW immune, NEW rule, HardBlocked(s)
  PROVE  LET b == Weighed(s, tagged, counts, immune, rule) IN
         b.verdict = "HOME" /\ b.band = "HIGH_HOME" /\ b.score = Score(Blockers(s))
<1>1. \E reasons, blocked :
        Weighed(s, tagged, counts, immune, rule)
          = Bundle("rule_engine", Outcome("HOME", "HIGH_HOME"), Score(Blockers(s)),
                   reasons, blocked, rule)
  BY WeighedBlocked
<1>2. Outcome("HOME", "HIGH_HOME").verdict = "HOME" /\ Outcome("HOME", "HIGH_HOME").band = "HIGH_HOME"
  BY DEF Outcome
<1>. QED BY <1>1, <1>2, BundleSays

LEMMA WeighedSays ==
  ASSUME NEW s, NEW tagged, NEW counts, NEW immune, NEW rule
  PROVE  LET b == Weighed(s, tagged, counts, immune, rule) IN
         b.source = "rule_engine" /\ Founded(b, rule)
<1>1. \E outcome, score, reasons, blocked :
        Weighed(s, tagged, counts, immune, rule)
          = Bundle("rule_engine", outcome, score, reasons, blocked, rule)
  <2>1. CASE HardBlocked(s)
    BY <2>1, WeighedBlocked
  <2>2. CASE ~HardBlocked(s)
    <3>1. \E outcome, reasons : Weighed(s, tagged, counts, immune, rule)
                                  = Concluded(s, reasons, outcome, rule)
      BY <2>2, Zenon DEF Weighed, HardBlocked
    <3>. QED BY <3>1 DEF Concluded
  <2>. QED BY <2>1, <2>2
<1>2. PICK outcome, score, reasons, blocked :
        Weighed(s, tagged, counts, immune, rule)
          = Bundle("rule_engine", outcome, score, reasons, blocked, rule)
  BY <1>1
<1>. QED BY <1>2, BundleSays

LEMMA CheckedSays ==
  ASSUME NEW b, NEW known, NEW rule
  PROVE  /\ HwidChecked(b, known, rule).source = b.source
         /\ Founded(HwidChecked(b, known, rule), rule)
  BY BundleSays DEF HwidChecked

-----------------------------------------------------------------------------
(* OverrideDecides *)

\* The first half of an event: it begins, and reads the override, the pattern
\* and the cache, each in a transaction of its own.
LEMMA ReadingKeepsReads ==
  ASSUME ReadsInv, NEW w \in Workers,
         \/ \E u \in Users, d \in Devices \cup {NoDevice}, t \in Tags : Begin(w, u, d, t)
         \/ ReadOverride(w) \/ ReadPattern(w) \/ ReadCache(w)
  PROVE  ReadsInv'
<1>. DEFINE x == worker[w]
<1>. Shaped(x) /\ ReadsRight(x) /\ ShapeInv
  BY DEF ReadsInv, ShapeInv
<1>1. ASSUME NEW u \in Users, NEW d \in Devices \cup {NoDevice}, NEW t \in Tags, Begin(w, u, d, t)
      PROVE  ReadsInv'
  <2>. DEFINE y == [Idle EXCEPT !.pc = "override", !.user = u, !.device = d, !.tagged = t,
                                !.rules = rules, !.began = Standing]
  <2>1. Move(w, "idle", y) /\ UNCHANGED <<override, pattern>>
    BY <1>1 DEF Begin, stores
  <2>2. Standing \in Decisions \cup {Absent} /\ t \in BOOLEAN
    BY DecisionAssumption DEF ShapeInv, Standing, InForce
  <2>3. /\ y.pc = "override" /\ y.user = u /\ y.device = d /\ y.tagged = t /\ y.rules = rules
        /\ y.began = Standing /\ y.touched = FALSE /\ y.live = FALSE
        /\ y.signal = NoSignal /\ y.bundle = NoBundle /\ y.under = NoRules
    BY DEF Idle
  <2>4. Shaped(y)
    BY <2>2, <2>3 DEF Shaped, Positions, Idle
  <2>5. ReadsRight(y)
    BY <2>3 DEF ReadsRight
  <2>. HIDE DEF y
  <2>. QED BY <2>1, <2>4, <2>5, MoveReads
<1>2. CASE ReadOverride(w)
  <2>. DEFINE y == [x EXCEPT !.pc = IF InForce # Absent THEN "evaluate" ELSE "pattern"]
  <2>1. Move(w, "override", y) /\ UNCHANGED <<override, pattern>> /\ x.pc = "override"
    BY <1>2 DEF ReadOverride, Move, workerFrame, stores
  <2>2. /\ y.pc = (IF InForce # Absent THEN "evaluate" ELSE "pattern")
        /\ y.device = x.device /\ y.began = x.began /\ y.touched = x.touched /\ y.live = x.live
        /\ y.rules = x.rules /\ y.signal = x.signal /\ y.bundle = x.bundle /\ y.under = x.under
    BY DEF Shaped
  <2>3. Shaped(y)
    BY <2>2 DEF Shaped, Positions
  <2>4. ReadsRight(y)
    BY <2>1, <2>2 DEF ReadsRight
  <2>. HIDE DEF y
  <2>. QED BY <2>1, <2>3, <2>4, MoveReads
<1>3. CASE ReadPattern(w)
  <2>. DEFINE y == [x EXCEPT !.pc = IF pattern # Absent THEN "evaluate" ELSE "cache"]
  <2>1. Move(w, "pattern", y) /\ UNCHANGED <<override, pattern>> /\ x.pc = "pattern"
    BY <1>3 DEF ReadPattern, Move, workerFrame, stores
  <2>2. /\ y.pc = (IF pattern # Absent THEN "evaluate" ELSE "cache")
        /\ y.device = x.device /\ y.began = x.began /\ y.touched = x.touched /\ y.live = x.live
        /\ y.rules = x.rules /\ y.signal = x.signal /\ y.bundle = x.bundle /\ y.under = x.under
    BY DEF Shaped
  <2>3. Shaped(y)
    BY <2>2 DEF Shaped, Positions
  <2>4. ReadsRight(y)
    BY <2>1, <2>2 DEF ReadsRight, Standing
  <2>. HIDE DEF y
  <2>. QED BY <2>1, <2>3, <2>4, MoveReads
<1>4. CASE ReadCache(w)
  <2>. DEFINE y == IF cache.present /\ ~cache.expired
                     THEN [x EXCEPT !.pc = "commit", !.bundle = cache.bundle,
                                    !.under = cache.under]
                     ELSE [x EXCEPT !.pc = "evaluate"]
  <2>1. Move(w, "cache", y) /\ UNCHANGED <<override, pattern>> /\ x.pc = "cache"
    BY <1>4 DEF ReadCache, Move, workerFrame, stores
  <2>2. /\ y.pc \in {"commit", "evaluate"}
        /\ y.device = x.device /\ y.began = x.began /\ y.touched = x.touched /\ y.live = x.live
        /\ y.rules = x.rules /\ y.signal = x.signal
    BY DEF Shaped
  <2>3. Shaped(y)
    BY <2>2 DEF Shaped, Positions
  <2>4. ReadsRight(y)
    BY <2>1, <2>2 DEF ReadsRight
  <2>. HIDE DEF y
  <2>. QED BY <2>1, <2>3, <2>4, MoveReads
<1>. QED BY <1>1, <1>2, <1>3, <1>4

\* The second half: the analysis, the devices, the commit, or a failure.
LEMMA DecidingKeepsReads ==
  ASSUME ReadsInv, NEW w \in Workers,
         \/ \E s \in Signals : Evaluate(w, s)
         \/ \E answered \in BOOLEAN : LookUpDevices(w, answered)
         \/ RegisterDevice(w) \/ RegisterFails(w) \/ Commit(w) \/ Fail(w)
  PROVE  ReadsInv'
<1>. DEFINE x == worker[w]
<1>. Shaped(x) /\ ReadsRight(x) /\ ShapeInv
  BY DEF ReadsInv, ShapeInv
<1>1. ASSUME NEW s \in Signals, Evaluate(w, s) PROVE ReadsInv'
  <2>. DEFINE b == IF Standing # Absent THEN Overridden(Standing, x.rules)
                   ELSE Weighed(s, x.tagged, evidence, Immune, x.rules)
              y == [x EXCEPT !.pc = IF x.device = NoDevice THEN "commit" ELSE "devices",
                             !.live = TRUE, !.signal = s, !.bundle = b, !.under = x.rules]
  <2>1. Move(w, "evaluate", y) /\ UNCHANGED <<override, pattern>> /\ x.pc = "evaluate"
    BY <1>1 DEF Evaluate, Move, workerFrame, stores
  <2>2. Standing \in Decisions \cup {Absent}
    BY DEF ShapeInv, Standing, InForce
  <2>3. /\ Standing # Absent => b.source = "manual_override" /\ b.verdict = Standing
        /\ Standing = Absent => b.source = "rule_engine"
    BY <2>2, OverriddenSays, WeighedSays
  <2>. HIDE DEF b
  <2>4. /\ y.pc = (IF x.device = NoDevice THEN "commit" ELSE "devices")
        /\ y.device = x.device /\ y.began = x.began /\ y.touched = x.touched /\ y.live = TRUE
        /\ y.rules = x.rules /\ y.signal = s /\ y.bundle = b
    BY DEF Shaped
  <2>5. Shaped(y)
    BY <2>4 DEF Shaped, Positions
  <2>6. ReadsRight(y)
    BY <2>1, <2>3, <2>4 DEF ReadsRight
  <2>. HIDE DEF y
  <2>. QED BY <2>1, <2>5, <2>6, MoveReads
<1>2. ASSUME NEW y, NEW from \in {"devices", "register"}, NEW next \in {"register", "commit"}, NEW b,
             Move(w, from, y), UNCHANGED <<override, pattern>>,
             y = [x EXCEPT !.pc = next, !.bundle = b]
      PROVE  ReadsInv'
  <2>1. x.pc \in {"devices", "register"}
    BY <1>2 DEF Move
  <2>2. /\ y.pc = next /\ y.device = x.device /\ y.began = x.began /\ y.touched = x.touched
        /\ y.live = x.live /\ y.rules = x.rules /\ y.signal = x.signal /\ y.bundle = b
    BY <1>2 DEF Shaped
  <2>3. Shaped(y)
    BY <1>2, <2>2 DEF Shaped, Positions
  <2>4. ReadsRight(y)
    BY <2>1, <2>2 DEF ReadsRight
  <2>. QED BY <1>2, <2>3, <2>4, MoveReads
<1>3. \A known : Checked(w, known)
                   = [x EXCEPT !.pc = "commit", !.bundle = HwidChecked(x.bundle, known, x.rules)]
  BY DEF Checked, Shaped
<1>4. \A next : [x EXCEPT !.pc = next] = [x EXCEPT !.pc = next, !.bundle = x.bundle]
  BY DEF Shaped
<1>5. ASSUME NEW answered \in BOOLEAN, LookUpDevices(w, answered) PROVE ReadsInv'
  BY <1>2, <1>3, <1>4, <1>5 DEF LookUpDevices, workerFrame, stores
<1>6. CASE RegisterDevice(w)
  BY <1>2, <1>3, <1>6 DEF RegisterDevice, stores
<1>7. CASE RegisterFails(w)
  BY <1>2, <1>4, <1>7 DEF RegisterFails, workerFrame, stores
<1>8. CASE Commit(w) \/ Fail(w)
  <2>1. Shaped(Idle) /\ ReadsRight(Idle)
    BY DEF Idle, Shaped, Positions, ReadsRight
  <2>2. Move(w, x.pc, Idle) /\ UNCHANGED <<override, pattern>>
    BY <1>8 DEF Commit, Fail, Move, workerFrame, stores
  <2>. QED BY <2>1, <2>2, MoveReads
<1>. QED BY <1>1, <1>5, <1>6, <1>7, <1>8

LEMMA AdminKeepsReads ==
  ASSUME ReadsInv, AdminStep
  PROVE  ReadsInv'
<1>. ShapeInv
  BY DEF ReadsInv
<1>1. CASE \/ \E decision \in Decisions : SetOverride(decision)
           \/ DeleteOverride \/ OverrideExpires
           \/ \E decision \in Decisions \cup {Absent} : SetPattern(decision)
  <2>1. worker' = Touched
    BY <1>1 DEF SetOverride, DeleteOverride, OverrideExpires, SetPattern
  <2>2. /\ override' \in [decision : Decisions \cup {Absent}, expired : BOOLEAN]
        /\ pattern' \in Decisions \cup {Absent}
    <3>1. [override EXCEPT !.expired = TRUE] \in [decision : Decisions \cup {Absent}, expired : BOOLEAN]
      BY DEF ShapeInv
    <3>2. \A decision \in Decisions \cup {Absent} :
            [decision |-> decision, expired |-> FALSE]
              \in [decision : Decisions \cup {Absent}, expired : BOOLEAN]
      OBVIOUS
    <3>3. override' \in [decision : Decisions \cup {Absent}, expired : BOOLEAN]
      BY <1>1, <3>1, <3>2 DEF SetOverride, DeleteOverride, OverrideExpires, SetPattern, ShapeInv
    <3>4. pattern' \in Decisions \cup {Absent}
      BY <1>1 DEF SetOverride, DeleteOverride, OverrideExpires, SetPattern, ShapeInv
    <3>. QED BY <3>3, <3>4
  <2>3. worker' = [w \in Workers |-> worker'[w]]
    BY <2>1 DEF Touched
  <2>. QED BY <2>1, <2>2, <2>3, TouchedReads DEF ReadsInv, ShapeInv
<1>2. CASE \/ CacheExpires \/ DeleteCache
           \/ \E verdict \in Directions : PatchCache(verdict)
           \/ \E revised \in RuleSets : ReviseRules(revised)
           \/ TrackersAge
  <2>1. UNCHANGED <<override, pattern, worker>>
    BY <1>2 DEF CacheExpires, DeleteCache, PatchCache, ReviseRules, TrackersAge, cacheFrame, stores
  <2>. QED BY <2>1 DEF ReadsInv, ShapeInv, Shaped, ReadsRight, Standing, InForce
<1>. QED BY <1>1, <1>2 DEF AdminStep

LEMMA ReadsStep ==
  ASSUME ReadsInv, [Next]_vars
  PROVE  ReadsInv'
<1>1. ASSUME NEW w \in Workers, WorkerStep(w) PROVE ReadsInv'
  BY <1>1, ReadingKeepsReads, DecidingKeepsReads DEF WorkerStep
<1>2. CASE UNCHANGED vars
  BY <1>2 DEF vars, ReadsInv, ShapeInv, Shaped, ReadsRight, Standing, InForce
<1>. QED BY <1>1, <1>2, AdminKeepsReads DEF Next

LEMMA ReadsInit == Init => ReadsInv
<1>1. Shaped(Idle)
  BY DEF Shaped, Positions, Idle
<1>. SUFFICES ASSUME Init PROVE ReadsInv
  OBVIOUS
<1>2. /\ override = [decision |-> Absent, expired |-> FALSE]
      /\ pattern = Absent /\ worker = [w \in Workers |-> Idle]
  BY DEF Init
<1>3. ShapeInv
  BY <1>1, <1>2 DEF ShapeInv
<1>4. ASSUME NEW w \in Workers PROVE ReadsRight(worker[w])
  BY <1>2 DEF ReadsRight, Idle
<1>. QED BY <1>3, <1>4 DEF ReadsInv

LEMMA ReadsHold == Spec => []ReadsInv
  BY ReadsInit, ReadsStep, PTL DEF Spec

\* An event without a device that nobody touched is decided by the override it
\* began under, and by none other, whatever administrators, expiries and other
\* events did to the rest of the state between its reads.
THEOREM OverrideDecided == Spec => []OverrideDecides
<1>1. ReadsInv => OverrideDecides
  BY DEF ReadsInv, ShapeInv, ReadsRight, OverrideDecides, Decided
<1>. QED BY <1>1, ReadsHold, PTL

-----------------------------------------------------------------------------
(* What becomes of an event's bundle *)

Same(x, y) == y.rules = x.rules /\ y.live = x.live /\ y.signal = x.signal

Under(x, y) == y.under = x.under

Ends(x, y) == y = Idle

Reads(x, y) ==
  /\ y.pc \in {"override", "pattern", "cache", "evaluate"}
  /\ x.pc # "idle" => y.rules = x.rules
  /\ x.pc = "idle" => y.rules = rules

Recalls(x, y) ==
  /\ x.pc = "cache" /\ y.pc = "commit" /\ Same(x, y)
  /\ cache.present /\ y.bundle = cache.bundle /\ y.under = cache.under

Evaluates(x, y) ==
  /\ x.pc = "evaluate" /\ y.pc \in {"devices", "commit"} /\ y.rules = x.rules
  /\ y.under = x.rules
  /\ \/ Standing # Absent /\ y.bundle = Overridden(Standing, x.rules)
     \/ y.bundle = Weighed(y.signal, x.tagged, evidence, Immune, x.rules)

Checks(x, y) ==
  /\ x.pc \in {"devices", "register"} /\ y.pc = "commit" /\ Same(x, y) /\ Under(x, y)
  /\ \E known : y.bundle = HwidChecked(x.bundle, known, x.rules)

Passes(x, y) ==
  /\ x.pc \in {"devices", "register"} /\ y.pc \in {"register", "commit"} /\ Same(x, y)
  /\ Under(x, y) /\ y.bundle = x.bundle

Turns(x, y) ==
  Ends(x, y) \/ Reads(x, y) \/ Recalls(x, y) \/ Evaluates(x, y) \/ Checks(x, y) \/ Passes(x, y)

CacheShaped(c) ==
  c \in [present : BOOLEAN, expired : BOOLEAN, status : {c.status}, bundle : {c.bundle},
        under : {c.under}]

\* A step of a worker is one of these turns, and writes the cache at most with
\* the bundle it commits.
LEMMA WorkerTurns ==
  ASSUME ShapeInv, NEW w \in Workers, WorkerStep(w)
  PROVE  /\ Turns(worker[w], worker'[w])
         /\ \A v \in Workers : v # w => worker'[v] = worker[v]
         /\ rules' = rules
         /\ \/ cache' = cache
            \/ /\ worker[w].pc = "commit"
               /\ CacheShaped(cache') /\ cache'.bundle = worker[w].bundle
               /\ cache'.under = worker[w].under
<1>. DEFINE x == worker[w]
            y == worker'[w]
<1>. Shaped(x)
  BY DEF ShapeInv
<1>1. ASSUME NEW u \in Users, NEW d \in Devices \cup {NoDevice}, NEW t \in Tags, Begin(w, u, d, t)
      PROVE  Reads(x, y)
  <2>1. y = [Idle EXCEPT !.pc = "override", !.user = u, !.device = d, !.tagged = t,
                         !.rules = rules, !.began = Standing] /\ x.pc = "idle"
    BY <1>1, MoveOne DEF Begin
  <2>2. y.pc = "override" /\ y.rules = rules
    BY <2>1 DEF Idle
  <2>. QED BY <2>1, <2>2 DEF Reads
<1>2. ASSUME ReadOverride(w) PROVE Turns(x, y)
  <2>1. y = [x EXCEPT !.pc = IF InForce # Absent THEN "evaluate" ELSE "pattern"] /\ x.pc = "override"
    BY <1>2, MoveOne DEF ReadOverride
  <2>2. y.pc \in {"evaluate", "pattern"} /\ y.rules = x.rules
    BY <2>1 DEF Shaped
  <2>. HIDE DEF y
  <2>. QED BY <2>1, <2>2 DEF Turns, Reads
<1>3. ASSUME ReadPattern(w) PROVE Turns(x, y)
  <2>1. y = [x EXCEPT !.pc = IF pattern # Absent THEN "evaluate" ELSE "cache"] /\ x.pc = "pattern"
    BY <1>3, MoveOne DEF ReadPattern
  <2>2. y.pc \in {"evaluate", "cache"} /\ y.rules = x.rules
    BY <2>1 DEF Shaped
  <2>. HIDE DEF y
  <2>. QED BY <2>1, <2>2 DEF Turns, Reads
<1>4. ASSUME ReadCache(w) PROVE Turns(x, y)
  <2>1. CASE cache.present /\ ~cache.expired
    <3>1. y = [x EXCEPT !.pc = "commit", !.bundle = cache.bundle, !.under = cache.under]
          /\ x.pc = "cache"
      BY <1>4, <2>1, MoveOne DEF ReadCache
    <3>2. y.pc = "commit" /\ Same(x, y) /\ y.bundle = cache.bundle /\ y.under = cache.under
      BY <3>1 DEF Same, Shaped
    <3>. HIDE DEF y
    <3>. QED BY <2>1, <3>1, <3>2 DEF Turns, Recalls
  <2>2. CASE ~(cache.present /\ ~cache.expired)
    <3>1. y = [x EXCEPT !.pc = "evaluate"] /\ x.pc = "cache"
      BY <1>4, <2>2, MoveOne DEF ReadCache
    <3>2. y.pc = "evaluate" /\ y.rules = x.rules
      BY <3>1 DEF Shaped
    <3>. HIDE DEF y
    <3>. QED BY <3>1, <3>2 DEF Turns, Reads
  <2>. QED BY <2>1, <2>2
<1>5. ASSUME NEW s \in Signals, Evaluate(w, s) PROVE Evaluates(x, y)
  <2>. DEFINE b == IF Standing # Absent THEN Overridden(Standing, x.rules)
                   ELSE Weighed(s, x.tagged, evidence, Immune, x.rules)
  <2>1. y = [x EXCEPT !.pc = IF x.device = NoDevice THEN "commit" ELSE "devices",
                      !.live = TRUE, !.signal = s, !.bundle = b, !.under = x.rules]
        /\ x.pc = "evaluate"
    BY <1>5, MoveOne DEF Evaluate
  <2>2. \/ b = Overridden(Standing, x.rules) /\ Standing # Absent
        \/ b = Weighed(s, x.tagged, evidence, Immune, x.rules)
    BY Zenon
  <2>. HIDE DEF b
  <2>3. y.pc \in {"devices", "commit"} /\ y.signal = s /\ y.bundle = b /\ y.rules = x.rules
        /\ y.under = x.rules
    BY <2>1 DEF Shaped
  <2>. HIDE DEF y
  <2>. QED BY <2>1, <2>2, <2>3 DEF Evaluates
<1>6. ASSUME NEW from \in {"devices", "register"}, NEW known, Move(w, from, Checked(w, known))
      PROVE  Checks(x, y)
  <2>1. y = [x EXCEPT !.pc = "commit", !.bundle = HwidChecked(x.bundle, known, x.rules)]
        /\ x.pc \in {"devices", "register"}
    BY <1>6, MoveOne DEF Checked, Shaped
  <2>2. y.pc = "commit" /\ Same(x, y) /\ Under(x, y)
        /\ y.bundle = HwidChecked(x.bundle, known, x.rules)
    BY <2>1 DEF Shaped, Same, Under
  <2>. HIDE DEF y
  <2>. QED BY <2>1, <2>2 DEF Checks
<1>7. ASSUME NEW from \in {"devices", "register"}, NEW next \in {"register", "commit"},
             Move(w, from, [x EXCEPT !.pc = next])
      PROVE  Passes(x, y)
  <2>1. y = [x EXCEPT !.pc = next] /\ x.pc \in {"devices", "register"}
    BY <1>7, MoveOne
  <2>2. y.pc = next /\ Same(x, y) /\ Under(x, y) /\ y.bundle = x.bundle
    BY <2>1 DEF Shaped, Same, Under
  <2>. HIDE DEF y
  <2>. QED BY <2>1, <2>2 DEF Passes
<1>8. ASSUME NEW answered \in BOOLEAN, LookUpDevices(w, answered) PROVE Turns(x, y)
  <2>. DEFINE devices == IF answered THEN registered[x.user] ELSE {}
  <2>1. CASE devices # {}
    <3>1. Move(w, "devices", Checked(w, x.device \in devices))
      BY <1>8, <2>1 DEF LookUpDevices
    <3>. QED BY <1>6, <3>1 DEF Turns
  <2>2. CASE devices = {}
    <3>1. Move(w, "devices", [x EXCEPT !.pc = "register"])
      BY <1>8, <2>2 DEF LookUpDevices
    <3>. QED BY <1>7, <3>1 DEF Turns
  <2>. QED BY <2>1, <2>2
<1>9. ASSUME RegisterDevice(w) \/ RegisterFails(w) PROVE Turns(x, y)
  <2>1. CASE RegisterDevice(w)
    <3>1. Move(w, "register", Checked(w, TRUE))
      BY <2>1 DEF RegisterDevice
    <3>. QED BY <1>6, <3>1 DEF Turns
  <2>2. CASE RegisterFails(w)
    <3>1. Move(w, "register", [x EXCEPT !.pc = "commit"])
      BY <2>2 DEF RegisterFails
    <3>. QED BY <1>7, <3>1 DEF Turns
  <2>. QED BY <1>9, <2>1, <2>2
<1>10. ASSUME Commit(w) \/ Fail(w) PROVE Turns(x, y)
  BY <1>10, MoveOne DEF Commit, Fail, Turns, Ends, ShapeInv
<1>11. Turns(x, y)
  BY <1>1, <1>2, <1>3, <1>4, <1>5, <1>8, <1>9, <1>10 DEF WorkerStep, Turns
<1>12. \A v \in Workers : v # w => worker'[v] = worker[v]
  BY DEF WorkerStep, Begin, ReadOverride, ReadPattern, ReadCache, Evaluate, LookUpDevices,
         RegisterDevice, RegisterFails, Commit, Fail, Move, ShapeInv
<1>13. rules' = rules
  BY DEF WorkerStep, Begin, ReadOverride, ReadPattern, ReadCache, Evaluate, LookUpDevices,
         RegisterDevice, RegisterFails, Commit, Fail, workerFrame
<1>14. \/ cache' = cache
       \/ /\ x.pc = "commit" /\ CacheShaped(cache') /\ cache'.bundle = x.bundle
          /\ cache'.under = x.under
  <2>1. CASE Commit(w)
    <3>1. x.pc = "commit"
      BY <2>1 DEF Commit, Move
    <3>2. cache' = IF x.live THEN [present |-> TRUE, expired |-> FALSE, status |-> x.bundle.verdict,
                                   bundle |-> x.bundle, under |-> x.under] ELSE cache
      BY <2>1, Zenon DEF Commit
    <3>. QED BY <3>1, <3>2 DEF CacheShaped
  <2>2. ASSUME NEW s \in Signals, Evaluate(w, s) PROVE cache' = cache
    BY <2>2 DEF Evaluate, workerFrame, stores
  <2>3. ASSUME NEW answered, LookUpDevices(w, answered) PROVE cache' = cache
    BY <2>3 DEF LookUpDevices, workerFrame, stores
  <2>4. CASE ReadOverride(w) \/ ReadPattern(w) \/ ReadCache(w) \/ RegisterDevice(w)
             \/ RegisterFails(w) \/ Fail(w)
    BY <2>4 DEF ReadOverride, ReadPattern, ReadCache, RegisterDevice, RegisterFails, Fail,
                workerFrame, stores
  <2>5. ASSUME NEW u, NEW d, NEW t, Begin(w, u, d, t) PROVE cache' = cache
    BY <2>5 DEF Begin, stores
  <2>. QED BY <2>1, <2>2, <2>3, <2>4, <2>5 DEF WorkerStep
<1>. QED BY <1>11, <1>12, <1>13, <1>14

-----------------------------------------------------------------------------
(* What a committed bundle vouches for *)

\* A decision in hand is founded under the rules it was scored under, which
\* are those of this event unless it was taken from the cache; and so is a row
\* of the cache, which may outlive them.
Kept(x) ==
  x.pc \in {"devices", "register", "commit"} =>
    Founded(x.bundle, x.under) /\ (x.live => x.under = x.rules)

BundleInv ==
  /\ ReadsInv
  /\ \A w \in Workers : Kept(worker[w])
  /\ CacheShaped(cache) /\ (cache.present => Founded(cache.bundle, cache.under))

LEMMA TurnKeeps ==
  ASSUME BundleInv, NEW w \in Workers, NEW y, Turns(worker[w], y)
  PROVE  Kept(y)
<1>. DEFINE x == worker[w]
<1>. Kept(x) /\ ReadsRight(x) /\ Shaped(x) /\ ShapeInv
  BY DEF BundleInv, ReadsInv, ShapeInv
<1>1. CASE Ends(x, y)
  BY <1>1 DEF Ends, Idle, Kept
<1>2. CASE Reads(x, y)
  BY <1>2 DEF Reads, Kept
<1>3. CASE Recalls(x, y)
  BY <1>3 DEF Recalls, Same, Kept, BundleInv, ReadsRight
<1>4. CASE Evaluates(x, y)
  <2>1. Standing \in Decisions \cup {Absent}
    BY DEF ShapeInv, Standing, InForce
  <2>2. Founded(y.bundle, x.rules)
    BY <1>4, <2>1, OverriddenSays, WeighedSays DEF Evaluates
  <2>. QED BY <1>4, <2>2 DEF Evaluates, Kept
<1>5. CASE Checks(x, y)
  <2>1. Founded(y.bundle, x.rules)
    BY <1>5, CheckedSays DEF Checks
  <2>2. x.live
    BY <1>5 DEF Checks, ReadsRight
  <2>. QED BY <1>5, <2>1, <2>2 DEF Checks, Same, Under, Kept
<1>6. CASE Passes(x, y)
  BY <1>6 DEF Passes, Same, Under, Kept
<1>. QED BY <1>1, <1>2, <1>3, <1>4, <1>5, <1>6 DEF Turns

LEMMA BundleStep ==
  ASSUME BundleInv, [Next]_vars
  PROVE  BundleInv'
<1>. ReadsInv /\ ShapeInv /\ ReadsInv' /\ \A w \in Workers : Shaped(worker[w]) /\ Kept(worker[w])
  BY ReadsStep DEF BundleInv, ReadsInv, ShapeInv
<1>1. ASSUME NEW w \in Workers, WorkerStep(w) PROVE BundleInv'
  <2>1. /\ Turns(worker[w], worker'[w]) /\ rules' = rules
        /\ \A v \in Workers : v # w => worker'[v] = worker[v]
        /\ \/ cache' = cache
           \/ /\ worker[w].pc = "commit" /\ CacheShaped(cache') /\ cache'.bundle = worker[w].bundle
              /\ cache'.under = worker[w].under
    BY <1>1, WorkerTurns
  <2>2. Kept(worker'[w])
    BY <2>1, TurnKeeps
  <2>3. ASSUME NEW v \in Workers PROVE Kept(worker'[v])
    BY <2>1, <2>2
  <2>4. CacheShaped(cache') /\ (cache'.present => Founded(cache'.bundle, cache'.under))
    BY <2>1 DEF BundleInv, Kept
  <2>5. \A v \in Workers : Kept(worker[v])'
    BY <2>3 DEF Kept
  <2>. QED BY <2>1, <2>4, <2>5 DEF BundleInv
<1>2. CASE AdminStep
  <2>2. \/ worker' = worker \/ worker' = Touched
    BY <1>2 DEF AdminStep, SetOverride, DeleteOverride, OverrideExpires, SetPattern, CacheExpires,
                DeleteCache, PatchCache, ReviseRules, TrackersAge, overrideFrame, cacheFrame
  <2>3. ASSUME NEW w \in Workers PROVE Kept(worker[w])'
    <3>1. CASE worker' = worker
      BY <3>1 DEF Kept
    <3>2. CASE worker' = Touched
      <4>. DEFINE y == [worker[w] EXCEPT !.touched = worker[w].pc # "idle"]
      <4>1. worker'[w] = y
        BY <3>2 DEF Touched
      <4>2. /\ y.pc = worker[w].pc /\ y.rules = worker[w].rules /\ y.live = worker[w].live
            /\ y.bundle = worker[w].bundle /\ y.under = worker[w].under
        BY DEF Shaped
      <4>. QED BY <4>1, <4>2 DEF Kept
    <3>. QED BY <2>2, <3>1, <3>2
  <2>4. (CacheShaped(cache) /\ (cache.present => Founded(cache.bundle, cache.under)))'
    <3>1. \/ cache' = cache \/ cache' = NoRow
          \/ cache' = [cache EXCEPT !.expired = TRUE]
          \/ \E verdict \in Directions : cache' = [cache EXCEPT !.status = verdict]
      BY <1>2 DEF AdminStep, SetOverride, DeleteOverride, OverrideExpires, SetPattern, CacheExpires,
                  DeleteCache, PatchCache, ReviseRules, TrackersAge, overrideFrame, stores
    <3>2. CacheShaped(NoRow) /\ ~NoRow.present
      BY DEF CacheShaped, NoRow
    <3>3. CacheShaped(cache) /\ (cache.present => Founded(cache.bundle, cache.under))
      BY DEF BundleInv
    <3>4. ASSUME cache' = [cache EXCEPT !.expired = TRUE]
          PROVE  /\ CacheShaped(cache') /\ cache'.present = cache.present
                 /\ cache'.bundle = cache.bundle /\ cache'.under = cache.under
      BY <3>3, <3>4 DEF CacheShaped
    <3>5. ASSUME NEW verdict, cache' = [cache EXCEPT !.status = verdict]
          PROVE  /\ CacheShaped(cache') /\ cache'.present = cache.present
                 /\ cache'.bundle = cache.bundle /\ cache'.under = cache.under
      BY <3>3, <3>5 DEF CacheShaped
    <3>. QED BY <3>1, <3>2, <3>3, <3>4, <3>5 DEF Founded
  <2>. QED BY <2>3, <2>4 DEF BundleInv
<1>3. CASE UNCHANGED vars
  BY <1>3 DEF vars, stores, BundleInv, Kept
<1>. QED BY <1>1, <1>2, <1>3 DEF Next

LEMMA BundlesHold == Spec => []BundleInv
<1>1. Init => BundleInv
  <2>. SUFFICES ASSUME Init PROVE BundleInv
    OBVIOUS
  <2>1. \A w \in Workers : Kept(worker[w])
    BY DEF Init, Kept, Idle
  <2>2. CacheShaped(cache) /\ ~cache.present
    BY DEF Init, CacheShaped, NoRow
  <2>. QED BY ReadsInit, <2>1, <2>2 DEF BundleInv, Init
<1>. QED BY <1>1, BundleStep, PTL DEF Spec

\* Whatever rules, caches and devices an event met, a decision that leads to
\* sanctions opens a case for a moderator.
THEOREM SanctionsReviewed == Spec => []SanctionsAreReviewed
<1>1. ASSUME BundleInv PROVE SanctionsAreReviewed
  <2>1. SUFFICES ASSUME NEW w \in DOMAIN worker, Decided(w), worker[w].bundle.punitive
                 PROVE  ReviewReason(worker[w].bundle) # "none"
    BY DEF SanctionsAreReviewed
  <2>2. w \in Workers
    BY <1>1 DEF BundleInv, ReadsInv, ShapeInv
  <2>3. worker[w].bundle.verdict = "HOME" /\ worker[w].bundle.band = "HIGH_HOME"
    BY <1>1, <2>1, <2>2 DEF BundleInv, Kept, Decided, Founded
  <2>4. CASE worker[w].bundle.blocked
    BY <2>4 DEF ReviewReason
  <2>5. CASE ~worker[w].bundle.blocked
    BY <2>1, <2>3, <2>5 DEF ReviewReason
  <2>. QED BY <2>4, <2>5
<1>. QED BY <1>1, BundlesHold, PTL

\* However often the owners switch the rule for strong cases on and off, a
\* decision that leads to sanctions is backed by hard or several-sourced HOME
\* evidence that no guardrail blocked, or was scored by an event that began
\* while the rule was off: also one that other events left in the cache, and
\* one that was derived again after the device check.
THEOREM StrictlyProtected == Spec => []StrictRulesProtect
<1>1. ASSUME BundleInv PROVE StrictRulesProtect
  <2>1. SUFFICES ASSUME NEW w \in DOMAIN worker, Decided(w), worker[w].bundle.punitive,
                        worker[w].under.strict
                 PROVE  Eligible(worker[w].bundle)
    BY DEF StrictRulesProtect
  <2>2. w \in Workers
    BY <1>1 DEF BundleInv, ReadsInv, ShapeInv
  <2>. QED BY <1>1, <2>1, <2>2 DEF BundleInv, Kept, Decided, Founded
<1>. QED BY <1>1, BundlesHold, PTL

\* A decision made by this event keeps to the strict rule of its batch
\* whatever other rules were ever in force: only the cache carries a decision
\* past the rules it was made under.
THEOREM LiveDecisionsProtected ==
  Spec => [](\A w \in Workers :
               Decided(w) /\ worker[w].live /\ worker[w].rules.strict /\ worker[w].bundle.punitive
                 => Eligible(worker[w].bundle))
<1>1. BundleInv => \A w \in Workers :
        Decided(w) /\ worker[w].live /\ worker[w].rules.strict /\ worker[w].bundle.punitive
          => Eligible(worker[w].bundle)
  BY DEF BundleInv, Kept, Decided, Founded
<1>. QED BY <1>1, BundlesHold, PTL

-----------------------------------------------------------------------------
(* HardBlockersHold: the score of the few reasons of a blocked network *)

\* The recursion behind Score: g sums the weights of the subsets of R.
Sums(g, R) ==
  g = [s \in SUBSET R |-> IF s = {} THEN 0
                          ELSE LET x == CHOOSE x \in s : TRUE IN x.weight + g[s \ {x}]]

\* Score is read off some such function, if there is one.
LEMMA ScoreIsASum ==
  ASSUME NEW R, NEW f, Sums(f, R)
  PROVE  \E g : Sums(g, R) /\ Score(R) = g[R]
<1>. DEFINE g == CHOOSE g : Sums(g, R)
<1>1. Sums(g, R)
  BY Zenon
<1>2. Score(R) = g[R]
  BY DEF Score, MapThenSumSet, MapThenFoldSet, Sums
<1>. QED BY <1>1, <1>2

LEMMA ScoreOfNone == Score({}) = 0
<1>. DEFINE f == [s \in SUBSET {} |-> 0]
<1>1. Sums(f, {})
  BY DEF Sums
<1>2. PICK g : Sums(g, {}) /\ Score({}) = g[{}]
  BY <1>1, ScoreIsASum
<1>. QED BY <1>2 DEF Sums

\* Two reasons at most: a and b may be one.
LEMMA ScoreOfTwo ==
  ASSUME NEW a, NEW b, a.weight \in Int, b.weight \in Int
  PROVE  Score({a, b}) = IF a = b THEN a.weight ELSE a.weight + b.weight
<1>. DEFINE R == {a, b}
            f == [s \in SUBSET R |->
                    (IF a \in s THEN a.weight ELSE 0) + (IF b \in s /\ b # a THEN b.weight ELSE 0)]
<1>1. ASSUME NEW s \in SUBSET R, s # {}, NEW x \in s
      PROVE  f[s] = x.weight + f[s \ {x}]
  <2>1. s \ {x} \in SUBSET R /\ x \in R
    OBVIOUS
  <2>2. CASE x = a
    BY <1>1, <2>1, <2>2
  <2>3. CASE x = b /\ x # a
    BY <1>1, <2>1, <2>3
  <2>. QED BY <1>1, <2>2, <2>3
<1>2. ASSUME NEW s \in SUBSET R
      PROVE  f[s] = IF s = {} THEN 0 ELSE LET x == CHOOSE x \in s : TRUE IN x.weight + f[s \ {x}]
  <2>1. CASE s = {}
    BY <2>1
  <2>2. CASE s # {}
    <3>. DEFINE x == CHOOSE x \in s : TRUE
    <3>1. x \in s
      BY <2>2
    <3>. HIDE DEF x, f
    <3>2. f[s] = x.weight + f[s \ {x}]
      BY <1>1, <2>2, <3>1
    <3>. QED BY <2>2, <3>2 DEF x
  <2>. QED BY <2>1, <2>2
<1>3. f = [s \in SUBSET R |-> f[s]]
  OBVIOUS
<1>. HIDE DEF f, R
<1>4. Sums(f, R)
  BY <1>2, <1>3 DEF Sums
<1>5. PICK g : Sums(g, R) /\ Score(R) = g[R]
  BY <1>4, ScoreIsASum
<1>6. ASSUME NEW s \in SUBSET R
      PROVE  g[s] = IF s = {} THEN 0 ELSE LET x == CHOOSE x \in s : TRUE IN x.weight + g[s \ {x}]
  BY <1>5 DEF Sums
<1>7. g[{}] = 0
  BY <1>6
<1>8. ASSUME NEW c \in R PROVE g[{c}] = c.weight
  <2>1. {c} \in SUBSET R /\ {c} # {}
    OBVIOUS
  <2>2. (CHOOSE x \in {c} : TRUE) = c
    OBVIOUS
  <2>3. {c} \ {c} = {}
    OBVIOUS
  <2>4. c.weight \in Int
    BY DEF R
  <2>5. g[{c}] = c.weight + g[{}]
    BY <1>6, <2>1, <2>2, <2>3
  <2>. QED BY <1>7, <2>4, <2>5
<1>9. CASE a = b
  BY <1>5, <1>8, <1>9 DEF R
<1>10. CASE a # b
  <2>. DEFINE x == CHOOSE x \in R : TRUE
  <2>1. x \in R /\ R \in SUBSET R /\ R # {}
    BY DEF R
  <2>. HIDE DEF x
  <2>2. g[R] = x.weight + g[R \ {x}]
    BY <1>6, <2>1 DEF x
  <2>3. CASE x = a
    <3>1. R \ {x} = {b}
      BY <2>3, <1>10 DEF R
    <3>2. g[R] = a.weight + b.weight
      BY <1>8, <2>2, <2>3, <3>1 DEF R
    <3>. QED BY <1>5, <1>10, <3>2 DEF R
  <2>4. CASE x = b
    <3>1. R \ {x} = {a}
      BY <2>4, <1>10 DEF R
    <3>2. g[R] = b.weight + a.weight
      BY <1>8, <2>2, <2>4, <3>1 DEF R
    <3>. QED BY <1>5, <1>10, <3>2 DEF R
  <2>. QED BY <2>1, <2>3, <2>4 DEF R
<1>. QED BY <1>9, <1>10

\* What provider markers add, and what a recognised or surplus device adds,
\* cannot lift a blocked network over the thresholds.  The defaults have
\* -100 + 18 + 30 against -30.
Markers == {0, Settings.provider_mobile_marker_bonus, Settings.provider_home_marker_penalty}
BlockerWeights == {-100, Settings.pure_home_asn_penalty}
BlockedScores == {b + m : b \in BlockerWeights, m \in Markers}

BlockersPrevail ==
  /\ Markers \cup BlockerWeights \subseteq Int
  /\ {Settings.hwid_match_bonus, Settings.hwid_sharing_penalty} \subseteq Int
  /\ {Settings.threshold_probable_home, Settings.threshold_home,
      Settings.threshold_probable_mobile, Settings.threshold_mobile} \subseteq Int
  /\ \A score \in BlockedScores, d \in {Settings.hwid_match_bonus, Settings.hwid_sharing_penalty} :
       score + d <= -Settings.threshold_probable_home
  /\ -Settings.threshold_probable_home < Settings.threshold_probable_mobile
  /\ -Settings.threshold_probable_home < Settings.threshold_mobile

\* A blocked network is weighed by its blocker and at most one marker.
LEMMA BlockersWeigh ==
  ASSUME BlockersPrevail, NEW s, HardBlocked(s)
  PROVE  Score(Blockers(s)) \in BlockedScores
<1>. DEFINE blocker == IF s.datacenter THEN Datacenter ELSE PureHome
<1>1. Blockers(s) = ProviderReasons(s) \cup {blocker}
  BY DEF HardBlocked, Blockers, Only
<1>2. blocker.weight \in BlockerWeights /\ blocker.weight \in Int
      /\ blocker.code \in {"datacenter", "pure_home_asn"}
  BY DEF BlockersPrevail, BlockerWeights, Datacenter, PureHome, Reason
<1>. HIDE DEF blocker
<1>3. ProviderReasons(s) = {} \/ \E p : /\ ProviderReasons(s) = {p}
                                        /\ p.weight \in Markers /\ p.weight \in Int
                                        /\ p.code \notin {"datacenter", "pure_home_asn"}
  <2>1. CASE s.provider = "none"
    BY <2>1 DEF ProviderReasons
  <2>2. CASE s.provider # "none"
    <3>. DEFINE p ==
           CASE ServiceHint(s) = "mobile" ->
                  Reason("provider_mobile_marker", "provider_profile",
                         Settings.provider_mobile_marker_bonus, "soft", "MOBILE")
             [] ServiceHint(s) = "home" ->
                  Reason("provider_home_marker", "provider_profile",
                         Settings.provider_home_marker_penalty, "soft", "HOME")
             [] ServiceHint(s) = "conflict" ->
                  Reason("provider_conflict", "provider_profile", 0, "soft", "NEUTRAL")
             [] OTHER ->
                  Reason("provider_marker_missing", "provider_profile", 0, "soft", "NEUTRAL")
    <3>1. ProviderReasons(s) = {p}
      BY <2>2 DEF ProviderReasons
    <3>2. /\ p.weight \in Markers
          /\ p.code \in {"provider_mobile_marker", "provider_home_marker", "provider_conflict",
                         "provider_marker_missing"}
      BY DEF Reason, Markers
    <3>. HIDE DEF p
    <3>. QED BY <3>1, <3>2 DEF BlockersPrevail
  <2>. QED BY <2>1, <2>2
<1>4. CASE ProviderReasons(s) = {}
  <2>1. Score({blocker, blocker}) = blocker.weight
    BY <1>2, ScoreOfTwo
  <2>2. Blockers(s) = {blocker, blocker}
    BY <1>1, <1>4
  <2>3. blocker.weight = blocker.weight + 0 /\ 0 \in Markers
    BY <1>2 DEF Markers
  <2>. QED BY <1>2, <2>1, <2>2, <2>3 DEF BlockedScores
<1>5. ASSUME NEW p, ProviderReasons(s) = {p}, p.weight \in Markers, p.weight \in Int,
             p.code \notin {"datacenter", "pure_home_asn"}
      PROVE  Score(Blockers(s)) \in BlockedScores
  <2>1. Blockers(s) = {blocker, p} /\ blocker # p
    BY <1>1, <1>2, <1>5
  <2>2. Score({blocker, p}) = blocker.weight + p.weight
    BY <1>2, <1>5, <2>1, ScoreOfTwo
  <2>. QED BY <1>2, <1>5, <2>1, <2>2 DEF BlockedScores
<1>. QED BY <1>3, <1>4, <1>5

\* The device check adds one weight and derives the verdict again.
LEMMA CheckedBlocked ==
  ASSUME BlockersPrevail, NEW b, NEW known, NEW rule,
         b.score \in BlockedScores, b.verdict = "HOME"
  PROVE  LET c == HwidChecked(b, known, rule) IN c.verdict = "HOME" /\ c.band = "HIGH_HOME"
<1>. DEFINE bonus == Reason("hwid_match_bonus", "hwid_check", Settings.hwid_match_bonus,
                            "soft", "MOBILE")
            penalty == Reason("sharing_hwid_limit_exceeded", "hwid_check",
                              Settings.hwid_sharing_penalty, "hard", "HOME")
            reason == IF known THEN {bonus} ELSE {penalty}
            score == b.score + Score(reason)
<1>1. HwidChecked(b, known, rule)
        = Bundle(b.source, Derived(score), score, b.reasons \cup reason, b.blocked, rule)
  BY DEF HwidChecked, Only
<1>2. bonus.weight = Settings.hwid_match_bonus /\ penalty.weight = Settings.hwid_sharing_penalty
  BY DEF Reason
<1>. HIDE DEF bonus, penalty
<1>3. Score(reason) \in {Settings.hwid_match_bonus, Settings.hwid_sharing_penalty}
  <2>1. Score({bonus, bonus}) = bonus.weight /\ Score({penalty, penalty}) = penalty.weight
    BY <1>2, ScoreOfTwo DEF BlockersPrevail
  <2>2. {bonus, bonus} = {bonus} /\ {penalty, penalty} = {penalty}
    OBVIOUS
  <2>. QED BY <1>2, <2>1, <2>2
<1>. HIDE DEF reason
<1>4. score <= -Settings.threshold_probable_home /\ score \in Int
  <2>1. b.score \in Int
    BY DEF BlockedScores, BlockersPrevail
  <2>. QED BY <1>3, <2>1 DEF BlockersPrevail
<1>. HIDE DEF score
<1>5. Derived(score) = Outcome("HOME", "HIGH_HOME")
  <2>1. score < Settings.threshold_mobile /\ score < Settings.threshold_probable_mobile
        /\ ~(score >= Settings.threshold_mobile) /\ ~(score >= Settings.threshold_probable_mobile)
    BY <1>4 DEF BlockersPrevail
  <2>2. -Settings.threshold_probable_home \in Int /\ ~(score > -Settings.threshold_probable_home)
    BY <1>4 DEF BlockersPrevail
  <2>. QED BY <1>4, <2>1, <2>2 DEF Derived
<1>6. \E source, total, reasons, blocked :
        HwidChecked(b, known, rule)
          = Bundle(source, Outcome("HOME", "HIGH_HOME"), total, reasons, blocked, rule)
  BY <1>1, <1>5
<1>7. Outcome("HOME", "HIGH_HOME").verdict = "HOME" /\ Outcome("HOME", "HIGH_HOME").band = "HIGH_HOME"
  BY DEF Outcome
<1>. QED BY <1>6, <1>7, BundleSays

\* What a blocked network is decided, before and after its devices are known.
HardKept(x) ==
  x.live /\ HardBlocked(x.signal) /\ x.bundle.source = "rule_engine" =>
    /\ x.pc \in {"devices", "register", "commit"} =>
         x.bundle.verdict = "HOME" /\ x.bundle.band = "HIGH_HOME"
    /\ x.pc \in {"devices", "register"} => x.bundle.score \in BlockedScores

HardInv == ReadsInv /\ \A w \in Workers : HardKept(worker[w])

LEMMA TurnKeepsHard ==
  ASSUME BlockersPrevail, HardInv, NEW w \in Workers, NEW y, Turns(worker[w], y)
  PROVE  HardKept(y)
<1>. DEFINE x == worker[w]
<1>. HardKept(x) /\ ReadsRight(x) /\ ShapeInv
  BY DEF HardInv, ReadsInv
<1>. SUFFICES ASSUME y.live, HardBlocked(y.signal), y.bundle.source = "rule_engine",
                     y.pc \in {"devices", "register", "commit"}
              PROVE  /\ y.bundle.verdict = "HOME" /\ y.bundle.band = "HIGH_HOME"
                     /\ y.pc \in {"devices", "register"} => y.bundle.score \in BlockedScores
  BY DEF HardKept
<1>1. ~Ends(x, y) /\ ~Reads(x, y) /\ ~Recalls(x, y)
  <2>1. ~Ends(x, y)
    BY DEF Ends, Idle
  <2>2. ~Reads(x, y)
    BY DEF Reads
  <2>3. ~Recalls(x, y)
    BY DEF Recalls, Same, ReadsRight
  <2>. QED BY <2>1, <2>2, <2>3
<1>2. CASE Evaluates(x, y)
  <2>1. Standing # Absent => Standing \in Decisions
    BY DEF ShapeInv, Standing, InForce
  <2>2. y.bundle = Weighed(y.signal, x.tagged, evidence, Immune, x.rules)
    BY <1>2, <2>1, OverriddenSays DEF Evaluates
  <2>3. /\ y.bundle.verdict = "HOME" /\ y.bundle.band = "HIGH_HOME"
        /\ y.bundle.score = Score(Blockers(y.signal))
    BY <2>2, BlockedSays
  <2>. QED BY <2>3, BlockersWeigh
<1>3. CASE Checks(x, y)
  <2>1. PICK known : y.bundle = HwidChecked(x.bundle, known, x.rules)
    BY <1>3 DEF Checks
  <2>2. x.bundle.source = "rule_engine"
    BY <2>1, CheckedSays
  <2>3. x.bundle.verdict = "HOME" /\ x.bundle.score \in BlockedScores
    BY <1>3, <2>2 DEF Checks, Same, HardKept
  <2>4. y.bundle.verdict = "HOME" /\ y.bundle.band = "HIGH_HOME"
    BY <2>1, <2>3, CheckedBlocked
  <2>. QED BY <1>3, <2>4 DEF Checks
<1>4. CASE Passes(x, y)
  BY <1>4 DEF Passes, Same, HardKept
<1>. QED BY <1>1, <1>2, <1>3, <1>4 DEF Turns

LEMMA HardStep ==
  ASSUME BlockersPrevail, HardInv, [Next]_vars
  PROVE  HardInv'
<1>. ReadsInv /\ ShapeInv /\ ReadsInv' /\ \A w \in Workers : Shaped(worker[w]) /\ HardKept(worker[w])
  BY ReadsStep DEF HardInv, ReadsInv, ShapeInv
<1>1. ASSUME NEW w \in Workers, WorkerStep(w) PROVE HardInv'
  <2>1. Turns(worker[w], worker'[w]) /\ \A v \in Workers : v # w => worker'[v] = worker[v]
    BY <1>1, WorkerTurns
  <2>2. HardKept(worker'[w])
    BY <2>1, TurnKeepsHard
  <2>3. ASSUME NEW v \in Workers PROVE HardKept(worker'[v])
    BY <2>1, <2>2
  <2>. QED BY <2>3 DEF HardInv, HardKept, HardBlocked
<1>2. CASE AdminStep \/ UNCHANGED vars
  <2>1. worker' = worker \/ worker' = Touched
    BY <1>2 DEF AdminStep, SetOverride, DeleteOverride, OverrideExpires, SetPattern, CacheExpires,
                DeleteCache, PatchCache, ReviseRules, TrackersAge, overrideFrame, cacheFrame, vars
  <2>2. ASSUME NEW w \in Workers PROVE HardKept(worker[w])'
    <3>1. CASE worker' = worker
      BY <3>1 DEF HardKept, HardBlocked, BlockedScores, BlockerWeights, Markers
    <3>2. CASE worker' = Touched
      <4>. DEFINE y == [worker[w] EXCEPT !.touched = worker[w].pc # "idle"]
      <4>1. worker'[w] = y
        BY <3>2 DEF Touched
      <4>2. /\ y.pc = worker[w].pc /\ y.live = worker[w].live /\ y.signal = worker[w].signal
            /\ y.bundle = worker[w].bundle
        BY DEF Shaped
      <4>. HIDE DEF y
      <4>3. HardKept(y)
        BY <4>2 DEF HardKept
      <4>. QED BY <4>1, <4>3 DEF HardKept, HardBlocked
    <3>. QED BY <2>1, <3>1, <3>2
  <2>. QED BY <2>2 DEF HardInv
<1>. QED BY <1>1, <1>2 DEF Next

\* For any signals and any weights under which no bonus outweighs a blocker: a
\* datacenter or pure HOME network is decided HOME with high confidence, also
\* after a recognised device earned its bonus.
THEOREM HardBlockersWin ==
  ASSUME BlockersPrevail
  PROVE  Spec => []HardBlockersHold
<1>1. Init => HardInv
  <2>. SUFFICES ASSUME Init PROVE HardInv
    OBVIOUS
  <2>1. ASSUME NEW w \in Workers PROVE HardKept(worker[w])
    BY DEF Init, HardKept, Idle
  <2>. QED BY ReadsInit, <2>1 DEF HardInv
<1>2. HardInv /\ [Next]_vars => HardInv'
  BY HardStep
<1>3. HardInv => HardBlockersHold
  <2>1. SUFFICES ASSUME HardInv, NEW w \in DOMAIN worker, LiveScore(w), HardBlocked(worker[w].signal)
                 PROVE  worker[w].bundle.verdict = "HOME" /\ worker[w].bundle.band = "HIGH_HOME"
    BY DEF HardBlockersHold, HardBlocked
  <2>2. w \in Workers
    BY <2>1 DEF HardInv, ReadsInv, ShapeInv
  <2>. QED BY <2>1, <2>2 DEF HardInv, HardKept, LiveScore, Decided
<1>. QED BY <1>1, <1>2, <1>3, PTL DEF Spec
=============================================================================
