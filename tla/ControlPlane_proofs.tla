------------------------ MODULE ControlPlane_proofs ------------------------
(***************************************************************************)
(* Theorems about LiveRules, for any number of requests, owners and lists,   *)
(* and about ControlPlane, which adds the modules on the nodes to them.      *)
(*                                                                         *)
(* What the theorems of the first part say of the panel's own copies holds  *)
(* of the modules too, which fetch their rules through the same cache and    *)
(* keep them across failures of the panel: the second part.                 *)
(***************************************************************************)
EXTENDS ControlPlane, TLAPS

-----------------------------------------------------------------------------
(* The live rules by themselves: RulesSpec *)

(* Type correctness *)

LEMMA JobTypes ==
  ASSUME NEW op \in Ops
  PROVE  Job(op) \in Request
  BY DEF Job, Request, Steps, Versions, Untouched, NoCache

\* A request that has a step to take is not idle.
LEMMA BusyIsRequest ==
  ASSUME RulesTypeOK, NEW c \in Callers, job[c].pc # "idle"
  PROVE  job[c] \in Request
  BY DEF RulesTypeOK, Idle

LEMMA TypeStep ==
  ASSUME RulesTypeOK, [NextRules]_rulesVars
  PROVE  RulesTypeOK'
<1>. USE LiveRulesAssumption
<1>1. CASE UNCHANGED rulesVars
  BY <1>1 DEF RulesTypeOK, rulesVars
<1>2. ASSUME NEW c \in Callers, Loading(c)
      PROVE  RulesTypeOK'
  <2>1. job[c] \in Request
    BY <1>2, BusyIsRequest DEF Loading, LoadCached, LoadMeta, LoadFile, FillCache, At
  <2>2. CASE LoadCached(c)
    BY <2>1, <2>2 DEF LoadCached, RulesTypeOK, Request, Ops, Steps
  <2>3. CASE LoadMeta(c)
    BY <2>1, <2>3 DEF LoadMeta, RulesTypeOK, Request, Ops, Steps
  <2>4. CASE LoadFile(c)
    BY <2>1, <2>4 DEF LoadFile, RulesTypeOK, Request, Ops, Steps
  <2>5. CASE FillCache(c)
    BY <2>1, <2>5 DEF FillCache, RulesTypeOK, Request, Ops, Steps, NoCache
  <2>. QED BY <1>2, <2>2, <2>3, <2>4, <2>5 DEF Loading
<1>3. ASSUME NEW o \in Owners, OpenPage(o)
      PROVE  RulesTypeOK'
  <2>1. Job("view") \in Request
    BY JobTypes DEF Ops
  <2>. QED BY <1>3, <2>1 DEF OpenPage, Ask, RulesTypeOK
<1>4. ASSUME NEW o \in Owners, NEW op \in {"form", "list"}, NEW l \in Lists, Submit(o, op, l)
      PROVE  RulesTypeOK'
  <2>1. Job(op) \in Request /\ edits + 1 \in Nat
    BY JobTypes DEF Ops, RulesTypeOK
  <2>2. \A j \in Request : [j EXCEPT !.list = l, !.edit = edits + 1] \in Request
    BY <2>1 DEF Request
  <2>3. [Job(op) EXCEPT !.list = l, !.edit = edits + 1] \in Request
    BY <2>1, <2>2
  <2>. QED BY <1>4, <2>3 DEF Submit, RulesTypeOK
<1>5. ASSUME NEW o \in Owners, RereadFile(o)
      PROVE  RulesTypeOK'
  <2>. DEFINE j == Job("sync")
  <2>1. j \in Request
    BY JobTypes DEF Ops
  <2>. HIDE DEF j
  <2>2. [j EXCEPT !.pc = "rewrite", !.lists = file.lists, !.revision = file.revision] \in Request
    BY <2>1 DEF Request, Steps, RulesTypeOK
  <2>. QED BY <1>5, <2>2 DEF RereadFile, RulesTypeOK, j
<1>6. ASSUME NEW o \in Owners, Continue(o)
      PROVE  RulesTypeOK'
  <2>1. job[o] \in Request
    BY <1>6, BusyIsRequest DEF Continue, ShowPage, TakeList, Refuse, Publish, CacheRules, CacheTime,
                                RewriteFile, EndSync, Finish, At
  <2>2. CASE ShowPage(o)
    BY <2>1, <2>2 DEF ShowPage, RulesTypeOK, Request, Ops, Steps, RuleSet
  <2>3. CASE TakeList(o)
    <3>. DEFINE j == Job("patch")
    <3>1. j \in Request
      BY JobTypes DEF Ops
    <3>. HIDE DEF j
    <3>2. [j EXCEPT !.list = job[o].list, !.edit = job[o].edit] \in Request
      BY <2>1, <3>1 DEF Request
    <3>. QED BY <2>3, <3>2 DEF TakeList, RulesTypeOK, j
  <2>4. CASE Refuse(o) \/ EndSync(o)
    BY <2>4 DEF Refuse, EndSync, RulesTypeOK
  <2>5. CASE Publish(o)
    <3>. DEFINE revision == NextRevision(o)
                lists == [job[o].lists EXCEPT ![job[o].list] = job[o].edit]
    <3>1. revision \in Nat
      BY <2>1 DEF Request, NextRevision
    <3>2. lists \in Versions
      <4>1. job[o].lists \in Versions /\ job[o].edit \in Nat
        BY <2>1 DEF Request
      <4>. QED BY <4>1 DEF Versions
    <3>. HIDE DEF revision, lists
    <3>3. file' \in [lists : Versions, revision : Nat, mtime : Nat] /\ published' \subseteq RuleSet
      BY SMTT(30), <2>5, <3>1, <3>2 DEF Publish, RulesTypeOK, RuleSet, revision, lists
    <3>4. job' \in [Callers -> Request \cup {Idle}]
      <4>1. job' = [job EXCEPT ![o].pc = "cache", ![o].lists = lists, ![o].revision = revision]
        BY <2>5 DEF Publish, revision, lists
      <4>. QED BY <2>1, <3>1, <3>2, <4>1 DEF RulesTypeOK, Request, Ops, Steps
    <3>. QED BY <2>5, <3>3, <3>4 DEF Publish, RulesTypeOK
  <2>6. CASE CacheRules(o)
    BY <2>1, <2>6 DEF CacheRules, RulesTypeOK, Request, Steps
  <2>9. CASE CacheTime(o)
    BY <2>1, <2>9 DEF CacheTime, RulesTypeOK, Request, Steps
  <2>7. CASE RewriteFile(o)
    BY <2>1, <2>7, JobTypes DEF RewriteFile, RulesTypeOK, Request, Ops, Steps
  <2>8. ASSUME NEW written \in BOOLEAN, Finish(o, written)
        PROVE  RulesTypeOK'
    BY <2>1, <2>8 DEF Finish, RulesTypeOK, Request, Ops, Steps, RuleSet
  <2>. QED BY <1>6, <2>2, <2>3, <2>4, <2>5, <2>6, <2>7, <2>8, <2>9 DEF Continue
<1>7. ASSUME NEW restored \in BOOLEAN, Restart(restored)
      PROVE  RulesTypeOK'
  BY <1>7 DEF Restart, RulesTypeOK, NoCache
<1>. QED BY <1>1, <1>2, <1>3, <1>4, <1>5, <1>6, <1>7 DEF NextRules, SubmitForm, SubmitList

LEMMA InitTypes == InitRules => RulesTypeOK
<1>1. Untouched \in Versions
  BY DEF Untouched, Versions
<1>2. [revision |-> 1, lists |-> Untouched] \in RuleSet
  BY <1>1 DEF RuleSet
<1>3. InitRules => /\ file \in [lists : Versions, revision : Nat, mtime : Nat]
                   /\ cache \in [lists : Versions, revision : Nat, mtime : Nat]
  BY <1>1 DEF InitRules, NoCache
<1>4. InitRules => page \in [Owners -> RuleSet] /\ published \subseteq RuleSet
  BY <1>2 DEF InitRules
<1>5. InitRules => job \in [Callers -> Request \cup {Idle}]
  BY DEF InitRules
<1>6. InitRules => edits \in 0..MaxEdits /\ faults \in 0..MaxFaults
  BY LiveRulesAssumption DEF InitRules
<1>7. InitRules => clashed \in BOOLEAN
  BY DEF InitRules
<1>. QED BY <1>3, <1>4, <1>5, <1>6, <1>7 DEF RulesTypeOK

\* The state has the types RulesTypeOK names.
THEOREM RulesTypes == RulesSpec => []RulesTypeOK
<1>1. RulesTypeOK /\ [NextRules]_rulesVars => RulesTypeOK'
  BY TypeStep
<1>. QED BY <1>1, InitTypes, PTL DEF RulesSpec

-----------------------------------------------------------------------------
(* One revision, one set of rules.  While no two requests have met in a      *)
(* window, whatever a request has read is a published pair of revision and   *)
(* rules, the file's revision is the last one, and a request that is going   *)
(* to write holds what the file holds.                                      *)

Pair(x) == [revision |-> x.revision, lists |-> x.lists]

Writes(c) == job[c].op \in {"form", "patch"}

\* What the copy of the rules in memory has to do with the file.
CacheHolds ==
  /\ Pair(cache) \in published
  /\ cache.mtime <= file.mtime
  /\ cache.mtime = file.mtime => Pair(cache) = Pair(file)

FileHolds ==
  /\ file.mtime # NoCache
  /\ Pair(file) \in published
  /\ \A p \in published : p.revision <= file.revision
  /\ OneRuleSet(published)

\* What a request has read, at each of its steps.
MetaHolds(c) == At(c, "meta") =>
  /\ job[c].lists = cache.lists
  /\ Writes(c) => Pair(cache) = Pair(file)
FillHolds(c) == At(c, "fill") =>
  /\ Pair(job[c]) \in published
  /\ job[c].mtime <= file.mtime
  /\ job[c].mtime = file.mtime \/ Writes(c) => Pair(job[c]) = Pair(file)
LoadedHolds(c) == At(c, "loaded") =>
  /\ Pair(job[c]) \in published
  /\ Writes(c) => Pair(job[c]) = Pair(file)
WrittenHolds(c) ==
  /\ At(c, "cache") \/ At(c, "mtime") => Pair(job[c]) = Pair(file)
  /\ At(c, "mtime") => Pair(cache) = Pair(file)
KeptHolds(c) == At(c, "rewrite") \/ At(c, "mirror") => Pair(job[c]) \in published

JobHolds(c) == MetaHolds(c) /\ FillHolds(c) /\ LoadedHolds(c) /\ WrittenHolds(c) /\ KeptHolds(c)

Consistent ==
  /\ FileHolds /\ CacheHolds
  /\ \A o \in Owners : page[o] \in published
  /\ \A c \in Callers : JobHolds(c)

IInv == RulesTypeOK /\ (~clashed => Consistent)

\* Once requests have met, that is never forgotten.
LEMMA ClashStays ==
  ASSUME RulesTypeOK, [NextRules]_rulesVars, clashed
  PROVE  clashed'
  BY DEF RulesTypeOK, NextRules, rulesVars, Loading, LoadCached, LoadMeta, LoadFile, FillCache, OpenPage,
         RereadFile, Continue, ShowPage, TakeList, Refuse, Publish, CacheRules, CacheTime, RewriteFile,
         EndSync, Finish, SubmitForm, SubmitList, Submit, Restart

\* A step that only moves one request is checked at that request.
LEMMA OneMoves ==
  ASSUME Consistent, RulesTypeOK, NEW c \in Callers, UNCHANGED <<file, cache, published>>,
         \A d \in Callers \ {c} : job'[d] = job[d],
         \A o \in Owners : page'[o] \in published,
         JobHolds(c)'
  PROVE  Consistent'
<1>1. FileHolds' /\ CacheHolds'
  BY DEF Consistent, FileHolds, CacheHolds, Pair, OneRuleSet
<1>2. ASSUME NEW d \in Callers \ {c}
      PROVE  JobHolds(d)'
  <2>1. job'[d] = job[d] /\ JobHolds(d)
    BY DEF Consistent
  <2>. QED BY <2>1 DEF JobHolds, MetaHolds, FillHolds, LoadedHolds, WrittenHolds, KeptHolds, Pair, At, Writes
<1>. QED BY <1>1, <1>2 DEF Consistent

LEMMA LoadingKeepsConsistent ==
  ASSUME Consistent, RulesTypeOK, NEW c \in Callers, Loading(c), ~clashed'
  PROVE  Consistent'
<1>1. job[c] \in Request
  BY BusyIsRequest DEF Loading, LoadCached, LoadMeta, LoadFile, FillCache, At
<1>. USE DEF At
<1>2. CASE LoadCached(c)
  <2>1. /\ job' = [job EXCEPT ![c] = [job[c] EXCEPT !.pc = "meta", !.lists = cache.lists]]
        /\ UNCHANGED <<file, cache, page, published>>
        /\ cache.mtime = file.mtime
    BY <1>2 DEF LoadCached, CacheIsFresh
  <2>2. /\ job'[c].pc = "meta" /\ job'[c].lists = cache.lists
        /\ \A d \in Callers \ {c} : job'[d] = job[d]
    BY <2>1, <1>1 DEF RulesTypeOK, Request
  <2>3. Pair(cache) = Pair(file)
    BY <2>1 DEF Consistent, CacheHolds
  <2>4. JobHolds(c)'
    BY <2>1, <2>2, <2>3 DEF JobHolds, MetaHolds, FillHolds, LoadedHolds, WrittenHolds, KeptHolds, Pair
  <2>. QED BY <2>1, <2>2, <2>4, OneMoves DEF Consistent
<1>3. CASE LoadMeta(c)
  <2>1. /\ job' = [job EXCEPT ![c] = [job[c] EXCEPT !.pc = "loaded", !.revision = cache.revision]]
        /\ UNCHANGED <<file, cache, page, published>>
        /\ job[c].pc = "meta"
    BY <1>3 DEF LoadMeta
  <2>2. /\ job'[c].pc = "loaded" /\ job'[c].revision = cache.revision /\ job'[c].op = job[c].op
        /\ job'[c].lists = job[c].lists
        /\ \A d \in Callers \ {c} : job'[d] = job[d]
    BY <2>1, <1>1 DEF RulesTypeOK, Request
  <2>3. MetaHolds(c) /\ Pair(cache) \in published
    BY DEF Consistent, JobHolds, CacheHolds
  <2>4. Pair(job'[c]) = Pair(cache)
    BY <2>1, <2>2, <2>3 DEF MetaHolds, Pair
  <2>5. LoadedHolds(c)'
    BY <2>1, <2>2, <2>3, <2>4 DEF LoadedHolds, MetaHolds, Writes, Pair
  <2>6. JobHolds(c)'
    BY <2>2, <2>5 DEF JobHolds, MetaHolds, FillHolds, WrittenHolds, KeptHolds
  <2>. QED BY <2>1, <2>2, <2>6, OneMoves DEF Consistent
<1>4. CASE LoadFile(c)
  <2>1. /\ job' = [job EXCEPT ![c] = [job[c] EXCEPT !.pc = "fill", !.lists = file.lists,
                                     !.revision = file.revision, !.mtime = file.mtime]]
        /\ UNCHANGED <<file, cache, page, published>>
    BY <1>4 DEF LoadFile
  <2>2. /\ job'[c].pc = "fill" /\ job'[c].mtime = file.mtime
        /\ job'[c].revision = file.revision /\ job'[c].lists = file.lists
        /\ \A d \in Callers \ {c} : job'[d] = job[d]
    BY <2>1, <1>1 DEF RulesTypeOK, Request
  <2>3. Pair(job'[c]) = Pair(file)
    BY <2>2 DEF Pair
  <2>4. file.mtime \in Nat /\ Pair(file) \in published
    BY DEF RulesTypeOK, Consistent, FileHolds
  <2>5. FillHolds(c)'
    BY <2>1, <2>2, <2>3, <2>4 DEF FillHolds, Pair
  <2>6. JobHolds(c)'
    BY <2>2, <2>5 DEF JobHolds, MetaHolds, LoadedHolds, WrittenHolds, KeptHolds
  <2>. QED BY <2>1, <2>2, <2>6, OneMoves DEF Consistent
<1>5. CASE FillCache(c)
  <2>1. /\ job' = [job EXCEPT ![c] = [job[c] EXCEPT !.pc = "loaded", !.mtime = NoCache]]
        /\ cache' = [lists |-> job[c].lists, revision |-> job[c].revision, mtime |-> job[c].mtime]
        /\ UNCHANGED <<file, page, published>>
        /\ job[c].pc = "fill"
        /\ ~Tears(job[c].revision)
        /\ job[c].mtime = file.mtime \/ \A d \in Callers : ~At(d, "mtime")
    BY <1>5 DEF FillCache
  <2>2. /\ job'[c].pc = "loaded" /\ job'[c].op = job[c].op
        /\ job'[c].revision = job[c].revision /\ job'[c].lists = job[c].lists
        /\ \A d \in Callers \ {c} : job'[d] = job[d]
    BY <2>1, <1>1 DEF RulesTypeOK, Request
  <2>3. FillHolds(c)
    BY DEF Consistent, JobHolds
  <2>4. Pair(cache') = Pair(job[c]) /\ Pair(job'[c]) = Pair(job[c]) /\ Pair(file)' = Pair(file)
    BY <2>1, <2>2 DEF Pair
  <2>5. CacheHolds'
    BY <2>1, <2>3, <2>4 DEF CacheHolds, FillHolds
  <2>6. JobHolds(c)'
    BY <2>1, <2>2, <2>3, <2>4 DEF JobHolds, MetaHolds, LoadedHolds, FillHolds, WrittenHolds, KeptHolds, Writes
  <2>7. ASSUME NEW d \in Callers \ {c}
        PROVE  JobHolds(d)'
    <3>1. job'[d] = job[d] /\ JobHolds(d)
      BY <2>2 DEF Consistent
    <3>2. CASE job[d].pc = "meta"
      <4>1. job[c].revision = cache.revision
        BY <2>1, <3>2 DEF Tears
      <4>2. Pair(cache) \in published /\ Pair(job[c]) \in published /\ OneRuleSet(published)
        BY <2>1, <2>3 DEF Consistent, CacheHolds, FileHolds, FillHolds
      <4>3. Pair(cache') = Pair(cache) /\ cache'.lists = cache.lists
        BY <2>1, <4>1, <4>2 DEF Pair, OneRuleSet
      <4>. QED BY <2>4, <3>1, <3>2, <4>3
               DEF JobHolds, MetaHolds, LoadedHolds, FillHolds, WrittenHolds, KeptHolds, Writes
    <3>3. CASE job[d].pc = "mtime"
      <4>1. Pair(cache') = Pair(file)
        BY <2>1, <2>3, <2>4, <3>3 DEF FillHolds
      <4>. QED BY <2>4, <3>1, <3>3, <4>1 DEF JobHolds, MetaHolds, LoadedHolds, FillHolds, WrittenHolds, KeptHolds
    <3>4. CASE job[d].pc # "meta" /\ job[d].pc # "mtime"
      BY <2>1, <2>4, <3>1, <3>4
      DEF JobHolds, MetaHolds, LoadedHolds, FillHolds, WrittenHolds, KeptHolds, Writes, Pair
    <3>. QED BY <3>2, <3>3, <3>4
  <2>8. FileHolds' /\ \A o \in Owners : page'[o] \in published'
    BY <2>1 DEF Consistent, FileHolds, OneRuleSet, Pair
  <2>. QED BY <2>5, <2>6, <2>7, <2>8 DEF Consistent
<1>. QED BY <1>2, <1>3, <1>4, <1>5 DEF Loading

\* A request that owners began goes on, other than by publishing.
LEMMA ContinueKeepsConsistent ==
  ASSUME Consistent, RulesTypeOK, NEW o \in Owners, Continue(o), ~Publish(o), ~clashed'
  PROVE  Consistent'
<1>1. o \in Callers /\ job[o] \in Request
  BY BusyIsRequest, LiveRulesAssumption
  DEF Continue, ShowPage, TakeList, Refuse, CacheRules, CacheTime, RewriteFile, EndSync, Finish, At
<1>. USE DEF At
<1>2. CASE ShowPage(o)
  <2>1. /\ UNCHANGED <<file, cache, published>>
        /\ \A d \in Callers \ {o} : job'[d] = job[d]
        /\ job'[o] = Idle
        /\ page' = [page EXCEPT ![o] = Pair(job[o])]
        /\ job[o].pc = "loaded"
    BY <1>1, <1>2 DEF ShowPage, RulesTypeOK, Pair
  <2>2. Pair(job[o]) \in published
    BY <1>1, <2>1 DEF Consistent, JobHolds, LoadedHolds
  <2>3. \A p \in Owners : page'[p] \in published'
    BY <2>1, <2>2 DEF Consistent, RulesTypeOK
  <2>4. JobHolds(o)'
    BY <2>1 DEF JobHolds, MetaHolds, FillHolds, LoadedHolds, WrittenHolds, KeptHolds, Idle
  <2>. QED BY <1>1, <2>1, <2>3, <2>4, OneMoves
<1>3. CASE TakeList(o)
  <2>1. /\ UNCHANGED <<file, cache, page, published>>
        /\ \A d \in Callers \ {o} : job'[d] = job[d]
        /\ job'[o].pc = "load"
    BY <1>1, <1>3 DEF TakeList, RulesTypeOK, Job
  <2>2. JobHolds(o)'
    BY <2>1 DEF JobHolds, MetaHolds, FillHolds, LoadedHolds, WrittenHolds, KeptHolds
  <2>. QED BY <1>1, <2>1, <2>2, OneMoves DEF Consistent
<1>4. CASE Refuse(o) \/ EndSync(o)
  <2>1. /\ UNCHANGED <<file, cache, page, published>>
        /\ \A d \in Callers \ {o} : job'[d] = job[d]
        /\ job'[o] = Idle
    BY <1>1, <1>4 DEF Refuse, EndSync, RulesTypeOK
  <2>2. JobHolds(o)'
    BY <2>1 DEF JobHolds, MetaHolds, FillHolds, LoadedHolds, WrittenHolds, KeptHolds, Idle
  <2>. QED BY <1>1, <2>1, <2>2, OneMoves DEF Consistent
<1>5. CASE CacheRules(o)
  <2>1. /\ UNCHANGED <<file, page, published>>
        /\ cache' = [cache EXCEPT !.lists = job[o].lists, !.revision = job[o].revision]
        /\ job' = [job EXCEPT ![o] = [job[o] EXCEPT !.pc = "mtime"]]
        /\ job[o].pc = "cache"
        /\ ~Tears(job[o].revision)
    BY <1>5 DEF CacheRules
  <2>2. /\ job'[o].pc = "mtime" /\ job'[o].lists = job[o].lists /\ job'[o].revision = job[o].revision
        /\ \A d \in Callers \ {o} : job'[d] = job[d]
    BY <1>1, <2>1 DEF RulesTypeOK, Request
  <2>3. Pair(job[o]) = Pair(file)
    BY <1>1, <2>1 DEF Consistent, JobHolds, WrittenHolds
  <2>4. /\ Pair(cache') = Pair(file) /\ Pair(job'[o]) = Pair(file) /\ Pair(file)' = Pair(file)
        /\ cache'.mtime = cache.mtime
    BY <2>1, <2>2, <2>3 DEF Pair, RulesTypeOK
  <2>5. CacheHolds' /\ FileHolds' /\ \A p \in Owners : page'[p] \in published'
    BY <2>1, <2>4 DEF CacheHolds, FileHolds, Consistent, OneRuleSet, Pair
  <2>6. JobHolds(o)'
    BY <2>1, <2>2, <2>4 DEF JobHolds, MetaHolds, FillHolds, LoadedHolds, WrittenHolds, KeptHolds
  <2>7. ASSUME NEW d \in Callers \ {o}
        PROVE  JobHolds(d)'
    <3>1. job'[d] = job[d] /\ JobHolds(d)
      BY <2>2 DEF Consistent
    <3>2. CASE job[d].pc = "meta"
      <4>1. job[o].revision = cache.revision
        BY <2>1, <3>2 DEF Tears
      <4>2. Pair(cache) \in published /\ Pair(job[o]) \in published /\ OneRuleSet(published)
        BY <2>3 DEF Consistent, CacheHolds, FileHolds
      <4>3. cache'.lists = cache.lists
        BY <2>1, <4>1, <4>2 DEF Pair, OneRuleSet, RulesTypeOK
      <4>. QED BY <2>4, <3>1, <3>2, <4>3
               DEF JobHolds, MetaHolds, LoadedHolds, FillHolds, WrittenHolds, KeptHolds, Writes
    <3>3. CASE job[d].pc # "meta"
      BY <2>1, <2>4, <3>1, <3>3
      DEF JobHolds, MetaHolds, LoadedHolds, FillHolds, WrittenHolds, KeptHolds, Writes, Pair
    <3>. QED BY <3>2, <3>3
  <2>. QED BY <2>5, <2>6, <2>7 DEF Consistent
<1>6. CASE CacheTime(o)
  <2>1. /\ UNCHANGED <<file, page, published>>
        /\ cache' = [cache EXCEPT !.mtime = file.mtime]
        /\ job' = [job EXCEPT ![o] = [job[o] EXCEPT !.pc = "mirror"]]
        /\ job[o].pc = "mtime"
    BY <1>6 DEF CacheTime
  <2>2. /\ job'[o].pc = "mirror" /\ job'[o].lists = job[o].lists /\ job'[o].revision = job[o].revision
        /\ \A d \in Callers \ {o} : job'[d] = job[d]
    BY <1>1, <2>1 DEF RulesTypeOK, Request
  <2>3. Pair(job[o]) = Pair(file) /\ Pair(cache) = Pair(file)
    BY <1>1, <2>1 DEF Consistent, JobHolds, WrittenHolds
  <2>4. /\ Pair(cache') = Pair(file) /\ Pair(job'[o]) = Pair(file) /\ Pair(file)' = Pair(file)
        /\ cache'.mtime = file.mtime /\ cache'.lists = cache.lists
    BY <2>1, <2>2, <2>3 DEF Pair, RulesTypeOK
  <2>5. CacheHolds' /\ FileHolds' /\ \A p \in Owners : page'[p] \in published'
    BY <2>1, <2>4 DEF CacheHolds, FileHolds, Consistent, OneRuleSet, Pair, RulesTypeOK
  <2>6. JobHolds(o)'
    BY <2>1, <2>2, <2>4
    DEF JobHolds, MetaHolds, FillHolds, LoadedHolds, WrittenHolds, KeptHolds, Consistent, FileHolds
  <2>7. ASSUME NEW d \in Callers \ {o}
        PROVE  JobHolds(d)'
    <3>1. job'[d] = job[d] /\ JobHolds(d)
      BY <2>2 DEF Consistent
    <3>. QED BY <2>1, <2>4, <3>1
             DEF JobHolds, MetaHolds, LoadedHolds, FillHolds, WrittenHolds, KeptHolds, Writes, Pair
  <2>. QED BY <2>5, <2>6, <2>7 DEF Consistent
<1>7. CASE RewriteFile(o)
  <2>1. /\ UNCHANGED <<cache, page, published>>
        /\ file' = [lists |-> job[o].lists, revision |-> job[o].revision, mtime |-> file.mtime + 1]
        /\ \A d \in Callers \ {o} : job'[d] = job[d]
        /\ job'[o].pc = "load"
        /\ job[o].pc = "rewrite"
        /\ file.revision = job[o].revision
    BY <1>1, <1>7 DEF RewriteFile, RulesTypeOK, Job
  <2>2. Pair(job[o]) \in published /\ Pair(file) \in published /\ OneRuleSet(published)
    BY <1>1, <2>1 DEF Consistent, JobHolds, KeptHolds, FileHolds
  <2>3. Pair(file') = Pair(file) /\ file'.mtime = file.mtime + 1 /\ file'.revision = file.revision
    BY <2>1, <2>2 DEF Pair, OneRuleSet
  <2>4. file.mtime \in Nat /\ cache.mtime \in Nat /\ cache.mtime <= file.mtime
    BY DEF RulesTypeOK, Consistent, CacheHolds
  <2>5. CacheHolds' /\ FileHolds' /\ \A p \in Owners : page'[p] \in published'
    BY <2>1, <2>3, <2>4 DEF CacheHolds, FileHolds, Consistent, OneRuleSet, Pair, NoCache
  <2>6. JobHolds(o)'
    BY <2>1 DEF JobHolds, MetaHolds, FillHolds, LoadedHolds, WrittenHolds, KeptHolds
  <2>7. ASSUME NEW d \in Callers \ {o}
        PROVE  JobHolds(d)'
    <3>1. job'[d] = job[d] /\ JobHolds(d)
      BY <2>1 DEF Consistent
    <3>2. job[d].pc = "fill" => job[d] \in Request
      BY BusyIsRequest
    <3>3. job[d].pc = "fill" => job[d].mtime \in Nat
      BY <3>2 DEF Request
    <3>. QED BY <2>1, <2>3, <2>4, <3>1, <3>3
             DEF JobHolds, MetaHolds, LoadedHolds, FillHolds, WrittenHolds, KeptHolds, Writes, Pair
  <2>. QED BY <2>5, <2>6, <2>7 DEF Consistent
<1>8. ASSUME NEW written \in BOOLEAN, Finish(o, written)
      PROVE  Consistent'
  <2>1. /\ UNCHANGED <<file, cache, published>>
        /\ \A d \in Callers \ {o} : job'[d] = job[d]
        /\ job'[o] = Idle
        /\ page' = [page EXCEPT ![o] = Pair(job[o])] \/ page' = page
        /\ job[o].pc = "mirror"
    BY <1>1, <1>8 DEF Finish, RulesTypeOK, Pair
  <2>2. Pair(job[o]) \in published
    BY <1>1, <2>1 DEF Consistent, JobHolds, KeptHolds
  <2>3. \A p \in Owners : page'[p] \in published'
    BY <2>1, <2>2 DEF Consistent, RulesTypeOK
  <2>4. JobHolds(o)'
    BY <2>1 DEF JobHolds, MetaHolds, FillHolds, LoadedHolds, WrittenHolds, KeptHolds, Idle
  <2>. QED BY <1>1, <2>1, <2>3, <2>4, OneMoves
<1>. QED BY <1>2, <1>3, <1>4, <1>5, <1>6, <1>7, <1>8 DEF Continue

\* No other request is between loading the rules and finishing with the
\* cache, so nobody is left holding the rules that are replaced to write them.
LEMMA PublishKeepsConsistent ==
  ASSUME Consistent, RulesTypeOK, NEW o \in Owners, Publish(o), ~clashed'
  PROVE  Consistent'
<1>1. o \in Callers /\ job[o] \in Request
  BY BusyIsRequest, LiveRulesAssumption DEF Publish, At
<1>. DEFINE revision == NextRevision(o)
            lists == [job[o].lists EXCEPT ![job[o].list] = job[o].edit]
            new == [revision |-> revision, lists |-> lists]
<1>2. /\ UNCHANGED <<cache, page>>
      /\ file' = [lists |-> lists, revision |-> revision, mtime |-> file.mtime + 1]
      /\ job' = [job EXCEPT ![o] = [job[o] EXCEPT !.pc = "cache", !.lists = lists, !.revision = revision]]
      /\ published' = published \cup {new}
      /\ job[o].pc = "loaded" /\ Writes(o)
      /\ \A d \in Callers \ {o} : ~Writing(d)
  BY DEF Publish, At, Writes
<1>3. revision = job[o].revision + 1
  BY DEF NextRevision
<1>4. Pair(job[o]) = Pair(file)
  BY <1>1, <1>2 DEF Consistent, JobHolds, LoadedHolds, At
<1>5. file.revision \in Nat /\ revision = file.revision + 1
  BY <1>3, <1>4 DEF Pair, RulesTypeOK
<1>. HIDE DEF revision, lists
<1>6. /\ job'[o].pc = "cache" /\ job'[o].lists = lists /\ job'[o].revision = revision
      /\ \A d \in Callers \ {o} : job'[d] = job[d]
  BY <1>1, <1>2 DEF RulesTypeOK, Request
<1>7. Pair(file') = new /\ Pair(job'[o]) = new /\ file'.mtime = file.mtime + 1 /\ Pair(file)' = Pair(file')
  BY <1>2, <1>6 DEF Pair
<1>8. \A p \in published : p.revision < new.revision
  <2>1. \A p \in published : p.revision \in Nat /\ p.revision <= file.revision
    BY DEF Consistent, FileHolds, RulesTypeOK, RuleSet
  <2>. QED BY <2>1, <1>5
<1>9. OneRuleSet(published')
  <2>1. \A p \in published : p.revision # new.revision
    <3>1. \A p \in published : p.revision \in Nat
      BY DEF RulesTypeOK, RuleSet
    <3>. QED BY <1>5, <1>8, <3>1
  <2>. HIDE DEF new
  <2>. QED BY <1>2, <2>1 DEF Consistent, FileHolds, OneRuleSet
<1>10. file.mtime \in Nat /\ cache.mtime \in Nat /\ cache.mtime <= file.mtime
  BY DEF RulesTypeOK, Consistent, CacheHolds
<1>11. FileHolds'
  <2>1. \A p \in published' : p.revision <= file'.revision
    <3>1. \A p \in published : p.revision \in Nat /\ p.revision <= file.revision
      BY DEF Consistent, FileHolds, RulesTypeOK, RuleSet
    <3>. QED BY <1>2, <1>5, <3>1
  <2>. QED BY <1>2, <1>7, <1>9, <1>10, <2>1 DEF FileHolds, Pair, NoCache
<1>12. CacheHolds' /\ \A p \in Owners : page'[p] \in published'
  BY <1>2, <1>7, <1>10 DEF CacheHolds, Consistent, Pair
<1>13. JobHolds(o)'
  BY <1>6, <1>7 DEF JobHolds, MetaHolds, FillHolds, LoadedHolds, WrittenHolds, KeptHolds, At, Pair
<1>14. ASSUME NEW d \in Callers \ {o}
       PROVE  JobHolds(d)'
  <2>1. job'[d] = job[d] /\ JobHolds(d)
    BY <1>6 DEF Consistent
  <2>2. ~Writing(d)
    BY <1>2
  <2>3. job[d].pc = "fill" => job[d] \in Request
    BY BusyIsRequest
  <2>4. job[d].pc = "fill" => job[d].mtime \in Nat
    BY <2>3 DEF Request
  <2>5. MetaHolds(d)' /\ LoadedHolds(d)' /\ WrittenHolds(d)' /\ KeptHolds(d)'
    BY <1>2, <2>1, <2>2 DEF JobHolds, MetaHolds, LoadedHolds, WrittenHolds, KeptHolds, Writes, Writing, At, Pair
  <2>6. FillHolds(d)'
    <3>1. CASE job[d].pc = "fill"
      <4>1. job[d].mtime <= file.mtime /\ Pair(job[d]) \in published /\ ~Writes(d)
        BY <2>1, <2>2, <3>1 DEF JobHolds, FillHolds, At, Writes, Writing
      <4>2. job[d].mtime <= file'.mtime /\ job[d].mtime # file'.mtime
        BY <1>7, <1>10, <2>4, <3>1, <4>1
      <4>. QED BY <1>2, <2>1, <4>1, <4>2 DEF FillHolds, Writes, Pair
    <3>2. CASE job[d].pc # "fill"
      BY <2>1, <3>2 DEF FillHolds, At
    <3>. QED BY <3>1, <3>2
  <2>. QED BY <2>5, <2>6 DEF JobHolds
<1>. QED BY <1>11, <1>12, <1>13, <1>14 DEF Consistent

LEMMA StepKeepsConsistent ==
  ASSUME IInv, [NextRules]_rulesVars
  PROVE  IInv'
<1>1. RulesTypeOK /\ RulesTypeOK'
  BY TypeStep DEF IInv
<1>. SUFFICES ASSUME ~clashed'
              PROVE  Consistent'
  BY <1>1 DEF IInv
<1>2. ~clashed
  BY <1>1, ClashStays
<1>3. Consistent
  BY <1>2 DEF IInv
<1>. USE DEF At
<1>4. CASE UNCHANGED rulesVars
  BY <1>3, <1>4
  DEF rulesVars, Consistent, FileHolds, CacheHolds, JobHolds, MetaHolds, FillHolds, LoadedHolds, WrittenHolds,
      KeptHolds, Writes, Pair, OneRuleSet
<1>5. ASSUME NEW c \in Callers, Loading(c)
      PROVE  Consistent'
  BY <1>1, <1>3, <1>5, LoadingKeepsConsistent
<1>6. ASSUME NEW o \in Owners, OpenPage(o) \/ RereadFile(o) \/ \E op \in {"form", "list"}, l \in Lists : Submit(o, op, l)
      PROVE  Consistent'
  <2>1. o \in Callers
    BY LiveRulesAssumption
  <2>2. /\ UNCHANGED <<file, cache, page, published>>
        /\ \A d \in Callers \ {o} : job'[d] = job[d]
        /\ job'[o].pc = "load" \/ (job'[o].pc = "rewrite" /\ Pair(job'[o]) = Pair(file))
    <3>1. CASE OpenPage(o)
      BY <1>1, <2>1, <3>1 DEF OpenPage, Ask, Job, RulesTypeOK
    <3>2. CASE RereadFile(o)
      <4>1. UNCHANGED <<file, cache, page, published>> /\ \A d \in Callers \ {o} : job'[d] = job[d]
        BY <1>1, <2>1, <3>2 DEF RereadFile, RulesTypeOK
      <4>2. job'[o] = [Job("sync") EXCEPT !.pc = "rewrite", !.lists = file.lists, !.revision = file.revision]
        BY <1>1, <2>1, <3>2 DEF RereadFile, RulesTypeOK
      <4>3. /\ job'[o].pc = "rewrite" /\ job'[o].lists = file.lists /\ job'[o].revision = file.revision
        BY <4>2 DEF Job
      <4>. QED BY <4>1, <4>3 DEF Pair
    <3>3. ASSUME NEW op \in {"form", "list"}, NEW l \in Lists, Submit(o, op, l)
          PROVE  /\ UNCHANGED <<file, cache, page, published>>
                 /\ \A d \in Callers \ {o} : job'[d] = job[d]
                 /\ job'[o].pc = "load"
      BY <1>1, <2>1, <3>3 DEF Submit, Job, RulesTypeOK
    <3>. QED BY <1>6, <3>1, <3>2, <3>3
  <2>3. JobHolds(o)'
    BY <1>3, <2>2 DEF JobHolds, MetaHolds, FillHolds, LoadedHolds, WrittenHolds, KeptHolds, Consistent, FileHolds, Pair
  <2>. QED BY <1>1, <1>3, <2>1, <2>2, <2>3, OneMoves DEF Consistent
<1>7. ASSUME NEW o \in Owners, Continue(o)
      PROVE  Consistent'
  BY <1>1, <1>3, <1>7, ContinueKeepsConsistent, PublishKeepsConsistent
<1>8. ASSUME NEW restored \in BOOLEAN, Restart(restored)
      PROVE  Consistent'
  <2>1. /\ UNCHANGED <<page, published>>
        /\ \A c \in Callers : job'[c] = Idle
        /\ cache' = [cache EXCEPT !.mtime = NoCache]
        /\ file' = [file EXCEPT !.mtime = IF restored THEN @ + 1 ELSE @]
    BY <1>8 DEF Restart
  <2>2. /\ Pair(file') = Pair(file) /\ Pair(cache') = Pair(cache)
        /\ file'.revision = file.revision /\ cache'.mtime = 0 /\ file'.mtime \in Nat \ {0}
    BY <1>1, <1>3, <2>1 DEF Pair, NoCache, RulesTypeOK, Consistent, FileHolds
  <2>3. FileHolds'
    BY <1>3, <2>1, <2>2 DEF Consistent, FileHolds, NoCache, OneRuleSet, Pair
  <2>4. CacheHolds'
    BY <1>3, <2>1, <2>2 DEF Consistent, CacheHolds, Pair
  <2>. QED BY <1>3, <2>1, <2>3, <2>4
           DEF Consistent, JobHolds, MetaHolds, FillHolds, LoadedHolds, WrittenHolds, KeptHolds, Idle
<1>. QED BY <1>4, <1>5, <1>6, <1>7, <1>8 DEF NextRules, SubmitForm, SubmitList

LEMMA InitHolds == InitRules => IInv
<1>. SUFFICES ASSUME InitRules PROVE IInv
  OBVIOUS
<1>1. RulesTypeOK
  BY InitTypes
<1>2. FileHolds
  BY DEF InitRules, FileHolds, Pair, OneRuleSet, NoCache
<1>3. CacheHolds
  BY DEF InitRules, CacheHolds, Pair, NoCache
<1>4. \A c \in Callers : JobHolds(c)
  BY DEF InitRules, JobHolds, MetaHolds, FillHolds, LoadedHolds, WrittenHolds, KeptHolds, Idle, At
<1>5. \A o \in Owners : page[o] \in published
  BY DEF InitRules
<1>. QED BY <1>1, <1>2, <1>3, <1>4, <1>5 DEF IInv, Consistent

LEMMA InvariantHolds == RulesSpec => []IInv
<1>1. IInv /\ [NextRules]_rulesVars => IInv'
  BY StepKeepsConsistent
<1>. QED BY <1>1, InitHolds, PTL DEF RulesSpec

\* For any number of requests, a revision names one set of rules in the file,
\* in memory and on every page, unless two requests met in a window.
THEOREM OneRevisionOneRuleSet == RulesSpec => []RevisionNamesRules
<1>1. IInv => RevisionNamesRules
  <2>. SUFFICES ASSUME IInv, ~clashed PROVE OneRuleSet(Copies)
    BY DEF RevisionNamesRules
  <2>1. Consistent
    BY DEF IInv
  <2>2. Copies \subseteq published
    BY <2>1 DEF Consistent, Copies, FileHolds, CacheHolds, Pair
  <2>. QED BY <2>1, <2>2 DEF Consistent, FileHolds, OneRuleSet
<1>. QED BY <1>1, InvariantHolds, PTL

\* For any number of requests, a form that is accepted replaces the rules its
\* owner saw.
THEOREM FormsReplaceWhatTheySaw == RulesSpec => FormsSeeWhatTheyReplace
<1>1. ASSUME IInv, [NextRules]_rulesVars, NEW o \in Owners,
             Publish(o), job[o].op = "form", ~clashed'
      PROVE  page[o].lists = file.lists
  <2>1. RulesTypeOK /\ o \in Callers
    BY <1>1, LiveRulesAssumption DEF IInv
  <2>2. Consistent
    BY <1>1, <2>1, ClashStays DEF IInv
  <2>3. Pair(job[o]) = Pair(file) /\ page[o] \in published /\ Pair(file) \in published
    BY <1>1, <2>1, <2>2 DEF Consistent, JobHolds, LoadedHolds, FileHolds, At, Writes, Publish
  <2>4. page[o].revision = job[o].revision
    BY <1>1 DEF Publish, Expected
  <2>. QED BY <2>2, <2>3, <2>4 DEF Consistent, FileHolds, OneRuleSet, Pair
<1>2. IInv /\ [NextRules]_rulesVars =>
        [\A o \in Owners :
          Publish(o) /\ job[o].op = "form" /\ ~clashed' => page[o].lists = file.lists]_rulesVars
  BY <1>1
<1>. QED BY <1>2, InvariantHolds, PTL DEF RulesSpec, FormsSeeWhatTheyReplace

-----------------------------------------------------------------------------
(* With the modules: Spec *)

(* Type correctness *)

Row == [registered : BOOLEAN, enabled : BOOLEAN, applied : Nat, control : Nat]
Agent == [revision : Nat, lists : Versions, control : Nat]

RegistryTypeOK ==
  /\ row \in [Modules -> Row]
  /\ agent \in [Modules -> Agent]
  /\ tokens \in Nat /\ changes \in Nat

\* A module's request is at its first steps one to load the rules.
LEMMA StartTypes ==
  ASSUME RulesTypeOK, NEW m \in Callers, NEW pc \in Steps, NEW control \in Nat
  PROVE  /\ Start(m, pc, control) \in [Callers -> Request \cup {Idle}]
         /\ Start(m, pc, control)[m].pc = pc
         /\ Start(m, pc, control)[m].control = control
         /\ \A c \in Callers \ {m} : Start(m, pc, control)[c] = job[c]
<1>. DEFINE j == Job("module")
<1>1. j \in Request
  BY JobTypes DEF Ops
<1>. DEFINE new == [j EXCEPT !.pc = pc, !.control = control]
<1>. HIDE DEF j
<1>2. new \in Request /\ new.pc = pc /\ new.control = control
  BY <1>1 DEF Request
<1>3. Start(m, pc, control) = [job EXCEPT ![m] = new]
  BY DEF Start, j
<1>. HIDE DEF new
<1>. QED BY <1>2, <1>3 DEF RulesTypeOK

\* The requests of modules are among the callers of the live rules.
LEMMA ModulesCall == Modules \subseteq Callers
BY ControlPlaneAssumption

\* A module's request begins, or merges the metadata and goes on to load.
LEMMA RequestTypes ==
  ASSUME RulesTypeOK, RegistryTypeOK, NEW m \in Modules,
         ReadMetadata(m) \/ WriteMetadata(m) \/ FetchConfig(m)
  PROVE  /\ RulesTypeOK' /\ RegistryTypeOK'
         /\ job'[m].pc \in {"merge", "load"}
         /\ \A c \in Callers \ {m} : job'[c] = job[c]
<1>1. m \in Callers /\ row[m] \in Row /\ agent[m] \in Agent
  BY ModulesCall DEF RegistryTypeOK
<1>2. row[m].control \in Nat /\ agent[m].revision \in Nat
  BY <1>1 DEF Row, Agent
<1>3. \E pc \in {"merge", "load"} : \E control \in Nat : job' = Start(m, pc, control)
  <2>1. CASE WriteMetadata(m)
    <3>1. job[m] \in Request
      BY <1>1, <2>1, BusyIsRequest DEF WriteMetadata, At
    <3>2. Merged(m) \in Nat
      BY <3>1 DEF Request, Merged
    <3>. QED BY <2>1, <3>2 DEF WriteMetadata
  <2>. QED BY <1>2, <2>1 DEF ReadMetadata, FetchConfig
<1>4. PICK pc \in {"merge", "load"}, control \in Nat : job' = Start(m, pc, control)
  BY <1>3
<1>5. /\ job' \in [Callers -> Request \cup {Idle}] /\ job'[m].pc = pc
      /\ \A c \in Callers \ {m} : job'[c] = job[c]
  BY <1>1, <1>4, StartTypes DEF Steps
<1>6. RulesTypeOK'
  BY <1>5 DEF RulesTypeOK, ReadMetadata, WriteMetadata, FetchConfig
<1>7. RegistryTypeOK'
  <2>1. CASE WriteMetadata(m)
    <3>. DEFINE new == [row[m] EXCEPT !.control = Merged(m), !.applied = agent[m].revision]
    <3>1. job[m] \in Request
      BY <1>1, <2>1, BusyIsRequest DEF WriteMetadata, At
    <3>2. Merged(m) \in Nat
      BY <3>1 DEF Request, Merged
    <3>3. new \in Row
      BY <1>1, <1>2, <3>2 DEF Row
    <3>4. row' = [row EXCEPT ![m] = new]
      BY <2>1 DEF WriteMetadata, RegistryTypeOK
    <3>. HIDE DEF new
    <3>. QED BY <2>1, <3>3, <3>4 DEF RegistryTypeOK, WriteMetadata
  <2>. QED BY <2>1 DEF RegistryTypeOK, ReadMetadata, FetchConfig, registryVars
<1>. QED BY <1>5, <1>6, <1>7

\* The row of a module changes while nothing happens to the live rules.
LEMMA RowTypes ==
  ASSUME RulesTypeOK, RegistryTypeOK, NEW m \in Modules,
         \/ Heartbeat(m) \/ CreateModule(m) \/ EditModule(m)
         \/ ToggleModule(m) \/ RequestRestart(m)
  PROVE  RegistryTypeOK' /\ UNCHANGED <<rulesVars, agent>>
<1>1. /\ row \in [Modules -> Row] /\ row[m] \in Row /\ agent[m] \in Agent
      /\ tokens + 1 \in Nat /\ changes + 1 \in Nat
  BY DEF RegistryTypeOK
<1>2. agent[m].revision \in Nat
  BY <1>1 DEF Agent
<1>3. CASE Heartbeat(m)
  <2>1. [row[m] EXCEPT !.applied = agent[m].revision] \in Row
    BY <1>1, <1>2 DEF Row
  <2>. QED BY <1>1, <1>3, <2>1 DEF Heartbeat, RegistryTypeOK
<1>4. CASE CreateModule(m)
  <2>1. [Unregistered EXCEPT !.registered = TRUE, !.enabled = TRUE] \in Row
    BY DEF Row, Unregistered
  <2>. QED BY <1>1, <1>4, <2>1 DEF CreateModule, RegistryTypeOK
<1>5. CASE EditModule(m)
  <2>1. [row[m] EXCEPT !.control = 0] \in Row
    BY <1>1 DEF Row
  <2>. QED BY <1>1, <1>5, <2>1 DEF EditModule, RegistryTypeOK
<1>6. CASE ToggleModule(m)
  <2>1. [row[m] EXCEPT !.enabled = ~row[m].enabled] \in Row
    BY <1>1 DEF Row
  <2>2. row' = [row EXCEPT ![m] = [row[m] EXCEPT !.enabled = ~row[m].enabled]]
    BY <1>1, <1>6 DEF ToggleModule
  <2>. QED BY <1>1, <1>6, <2>1, <2>2 DEF ToggleModule, RegistryTypeOK
<1>7. CASE RequestRestart(m)
  <2>1. [row[m] EXCEPT !.control = tokens + 1] \in Row
    BY <1>1 DEF Row
  <2>. QED BY <1>1, <1>7, <2>1 DEF RequestRestart, RegistryTypeOK
<1>. QED BY <1>3, <1>4, <1>5, <1>6, <1>7

\* The module takes what its request loaded.
LEMMA DeliverTypes ==
  ASSUME RulesTypeOK, RegistryTypeOK, NEW m \in Modules, Deliver(m)
  PROVE  /\ RulesTypeOK' /\ RegistryTypeOK'
         /\ agent'[m].revision = job[m].revision /\ agent'[m].lists = job[m].lists
         /\ \A n \in Modules \ {m} : agent'[n] = agent[n]
         /\ job'[m] = Idle /\ \A c \in Callers \ {m} : job'[c] = job[c]
         /\ UNCHANGED <<file, cache, page, published, clashed>>
<1>. DEFINE new == [revision |-> job[m].revision, lists |-> job[m].lists,
                    control |-> IF ControlSent(m) = 0 THEN agent[m].control ELSE ControlSent(m)]
<1>1. m \in Callers /\ agent[m] \in Agent
  BY ModulesCall DEF RegistryTypeOK
<1>2. job[m] \in Request
  BY <1>1, BusyIsRequest DEF Deliver, At
<1>3. new \in Agent
  BY <1>1, <1>2 DEF Agent, Request, ControlSent
<1>4. agent' = [agent EXCEPT ![m] = new] /\ new.revision = job[m].revision /\ new.lists = job[m].lists
  BY DEF Deliver
<1>. HIDE DEF new
<1>5. job' = [job EXCEPT ![m] = Idle]
  BY DEF Deliver
<1>6. RulesTypeOK'
  BY <1>5 DEF Deliver, RulesTypeOK
<1>7. RegistryTypeOK'
  BY <1>3, <1>4 DEF Deliver, RegistryTypeOK
<1>. QED BY <1>1, <1>4, <1>5, <1>6, <1>7 DEF Deliver, RulesTypeOK, RegistryTypeOK

LEMMA RebootTypes ==
  ASSUME RulesTypeOK, RegistryTypeOK, NEW m \in Modules, Reboot(m)
  PROVE  /\ RulesTypeOK' /\ RegistryTypeOK'
         /\ agent'[m].revision = 0 /\ \A n \in Modules \ {m} : agent'[n] = agent[n]
         /\ UNCHANGED <<file, cache, job, page, published, clashed>>
<1>. DEFINE new == [agent[m] EXCEPT !.revision = 0, !.lists = Untouched]
<1>1. agent \in [Modules -> Agent] /\ agent[m] \in Agent /\ Untouched \in Versions
  BY DEF RegistryTypeOK, Untouched, Versions
<1>2. new \in Agent /\ new.revision = 0
  BY <1>1 DEF Agent
<1>3. agent' = [agent EXCEPT ![m] = new]
  <2>1. agent' = [agent EXCEPT ![m].revision = 0, ![m].lists = Untouched]
    BY DEF Reboot
  <2>. QED BY <1>1, <2>1
<1>. HIDE DEF new
<1>4. faults + 1 \in 0..MaxFaults /\ faults' = faults + 1
  BY LiveRulesAssumption DEF Reboot, RulesTypeOK
<1>5. RulesTypeOK'
  BY <1>4 DEF Reboot, RulesTypeOK
<1>6. RegistryTypeOK'
  BY <1>1, <1>2, <1>3 DEF Reboot, RegistryTypeOK
<1>. QED BY <1>1, <1>2, <1>3, <1>5, <1>6 DEF Reboot

-----------------------------------------------------------------------------
(* The rules a module applies.  A module keeps a published pair of revision  *)
(* and rules; the panel's requests and those of other modules leave it so.   *)

AgentsHold == \A m \in Modules : agent[m].revision # 0 => Pair(agent[m]) \in published

PlaneInv == IInv /\ RegistryTypeOK /\ (~clashed => AgentsHold)

\* What was published under a revision stays on record.
LEMMA PublishedStays ==
  ASSUME [NextRules]_rulesVars
  PROVE  published \subseteq published'
BY DEF NextRules, rulesVars, Loading, LoadCached, LoadMeta, LoadFile, FillCache, OpenPage,
       RereadFile, Continue, ShowPage, TakeList, Refuse, Publish, CacheRules, CacheTime, RewriteFile,
       EndSync, Finish, SubmitForm, SubmitList, Submit, Restart

\* A step of the live rules, or none, leaves the modules with what they have.
LEMMA RulesKeepPlane ==
  ASSUME PlaneInv, [NextRules]_rulesVars, UNCHANGED agent, RegistryTypeOK'
  PROVE  PlaneInv'
<1>1. IInv'
  BY StepKeepsConsistent DEF PlaneInv
<1>2. ASSUME ~clashed' PROVE AgentsHold'
  <2>1. ~clashed
    BY <1>2, ClashStays DEF PlaneInv, IInv
  <2>. QED BY <2>1, PublishedStays DEF PlaneInv, AgentsHold, Pair
<1>. QED BY <1>1, <1>2 DEF PlaneInv

\* A module's own requests publish nothing and fill no cache: what they load
\* is loaded by the steps every request takes.
LEMMA RequestKeepsPlane ==
  ASSUME PlaneInv, NEW m \in Modules, ReadMetadata(m) \/ WriteMetadata(m) \/ FetchConfig(m)
  PROVE  PlaneInv'
<1>0. RulesTypeOK /\ RegistryTypeOK /\ m \in Callers
  BY ModulesCall DEF PlaneInv, IInv
<1>1. /\ RulesTypeOK' /\ RegistryTypeOK' /\ job'[m].pc \in {"merge", "load"}
      /\ \A c \in Callers \ {m} : job'[c] = job[c]
  BY <1>0, RequestTypes
<1>2. UNCHANGED <<file, cache, page, published, clashed, agent>>
  BY DEF ReadMetadata, WriteMetadata, FetchConfig, registryVars
<1>3. ASSUME ~clashed' PROVE Consistent' /\ AgentsHold'
  <2>1. Consistent /\ AgentsHold
    BY <1>2, <1>3 DEF PlaneInv, IInv
  <2>2. JobHolds(m)'
    BY <1>1 DEF JobHolds, MetaHolds, FillHolds, LoadedHolds, WrittenHolds, KeptHolds, At
  <2>3. Consistent'
    BY <1>0, <1>1, <1>2, <2>1, <2>2, OneMoves DEF Consistent
  <2>. QED BY <1>2, <2>1, <2>3 DEF AgentsHold, Pair
<1>. QED BY <1>1, <1>3 DEF PlaneInv, IInv

\* What a request has loaded is a published pair (LoadedHolds), and so is
\* what the module has then.
LEMMA DeliverKeepsPlane ==
  ASSUME PlaneInv, NEW m \in Modules, Deliver(m)
  PROVE  PlaneInv'
<1>0. RulesTypeOK /\ RegistryTypeOK /\ m \in Callers
  BY ModulesCall DEF PlaneInv, IInv
<1>1. /\ RulesTypeOK' /\ RegistryTypeOK'
      /\ agent'[m].revision = job[m].revision /\ agent'[m].lists = job[m].lists
      /\ \A n \in Modules \ {m} : agent'[n] = agent[n]
      /\ job'[m] = Idle /\ \A c \in Callers \ {m} : job'[c] = job[c]
      /\ UNCHANGED <<file, cache, page, published, clashed>>
  BY <1>0, DeliverTypes
<1>2. ASSUME ~clashed' PROVE Consistent' /\ AgentsHold'
  <2>1. Consistent /\ AgentsHold
    BY <1>1, <1>2 DEF PlaneInv, IInv
  <2>2. JobHolds(m)'
    BY <1>1 DEF JobHolds, MetaHolds, FillHolds, LoadedHolds, WrittenHolds, KeptHolds, At, Idle
  <2>3. Consistent'
    BY <1>0, <1>1, <2>1, <2>2, OneMoves DEF Consistent
  <2>4. Pair(job[m]) \in published
    BY <1>0, <2>1 DEF Consistent, JobHolds, LoadedHolds, Deliver
  <2>5. Pair(agent'[m]) = Pair(job[m])
    BY <1>1 DEF Pair
  <2>6. AgentsHold'
    BY <1>1, <2>1, <2>4, <2>5 DEF AgentsHold, Pair
  <2>. QED BY <2>3, <2>6
<1>. QED BY <1>1, <1>2 DEF PlaneInv, IInv

LEMMA RebootKeepsPlane ==
  ASSUME PlaneInv, NEW m \in Modules, Reboot(m)
  PROVE  PlaneInv'
<1>1. /\ RulesTypeOK' /\ RegistryTypeOK'
      /\ agent'[m].revision = 0 /\ \A n \in Modules \ {m} : agent'[n] = agent[n]
      /\ UNCHANGED <<file, cache, job, page, published, clashed>>
  BY RebootTypes DEF PlaneInv, IInv
<1>2. ASSUME ~clashed' PROVE Consistent' /\ AgentsHold'
  <2>1. Consistent /\ AgentsHold
    BY <1>1, <1>2 DEF PlaneInv, IInv
  <2>2. Consistent'
    BY <1>1, <2>1 DEF Consistent, FileHolds, CacheHolds, JobHolds, MetaHolds, FillHolds, LoadedHolds,
                      WrittenHolds, KeptHolds, Writes, Pair, OneRuleSet, At
  <2>3. AgentsHold'
    BY <1>1, <2>1 DEF AgentsHold, Pair
  <2>. QED BY <2>2, <2>3
<1>. QED BY <1>1, <1>2 DEF PlaneInv, IInv

LEMMA PlaneStep == PlaneInv /\ [Next]_vars => PlaneInv'
<1>. SUFFICES ASSUME PlaneInv, [Next]_vars
              PROVE  PlaneInv'
  OBVIOUS
<1>0. RulesTypeOK /\ RegistryTypeOK
  BY DEF PlaneInv, IInv
<1>1. CASE (NextRules /\ UNCHANGED registryVars) \/ UNCHANGED vars
  <2>1. [NextRules]_rulesVars /\ UNCHANGED registryVars
    BY <1>1 DEF vars
  <2>2. RegistryTypeOK' /\ UNCHANGED agent
    BY <1>0, <2>1 DEF registryVars, RegistryTypeOK
  <2>. QED BY <2>1, <2>2, RulesKeepPlane
<1>2. ASSUME NEW m \in Modules,
             \/ Heartbeat(m) \/ CreateModule(m) \/ EditModule(m)
             \/ ToggleModule(m) \/ RequestRestart(m)
      PROVE  PlaneInv'
  <2>1. RegistryTypeOK' /\ UNCHANGED <<rulesVars, agent>>
    BY <1>0, <1>2, RowTypes
  <2>. QED BY <2>1, RulesKeepPlane
<1>3. ASSUME NEW m \in Modules,
             ReadMetadata(m) \/ WriteMetadata(m) \/ FetchConfig(m) \/ Deliver(m) \/ Reboot(m)
      PROVE  PlaneInv'
  BY <1>3, RequestKeepsPlane, DeliverKeepsPlane, RebootKeepsPlane
<1>. QED BY <1>1, <1>2, <1>3 DEF Next

LEMMA PlaneInit == Init => PlaneInv
<1>. SUFFICES ASSUME Init PROVE PlaneInv
  OBVIOUS
<1>1. IInv
  BY InitHolds DEF Init
<1>2. row \in [Modules -> Row]
  <2>. DEFINE listed == [Unregistered EXCEPT !.registered = TRUE, !.enabled = TRUE]
  <2>1. Unregistered \in Row /\ listed \in Row
    BY DEF Unregistered, Row
  <2>2. row \in [Modules -> {Unregistered, listed}]
    BY DEF Init
  <2>. HIDE DEF listed
  <2>. QED BY <2>1, <2>2
<1>3. NewAgent \in Agent /\ NewAgent.revision = 0
  BY DEF NewAgent, Agent, Untouched, Versions
<1>4. RegistryTypeOK /\ AgentsHold
  BY <1>2, <1>3 DEF Init, RegistryTypeOK, AgentsHold
<1>. QED BY <1>1, <1>4 DEF PlaneInv

LEMMA PlaneHolds == Spec => []PlaneInv
BY PlaneInit, PlaneStep, PTL DEF Spec

\* The registry, the modules and the requests have the types named above.
THEOREM PlaneTypes == Spec => [](RulesTypeOK /\ RegistryTypeOK)
<1>1. PlaneInv => RulesTypeOK /\ RegistryTypeOK
  BY DEF PlaneInv, IInv
<1>. QED BY <1>1, PlaneHolds, PTL

\* What a module applies under a revision are the rules that were published
\* under it, for any number of modules and owners, through restarts of the
\* panel and of the nodes, unless two requests met in a window.
THEOREM ModulesApplyPublishedRules == Spec => []ModulesApplyTheirRevision
<1>. DEFINE Applied == {[revision |-> agent[m].revision, lists |-> agent[m].lists] :
                          m \in {n \in Modules : agent[n].revision # 0}}
<1>1. PlaneInv => ModulesApplyTheirRevision
  <2>. SUFFICES ASSUME PlaneInv, ~clashed PROVE OneRuleSet(Copies \cup Applied)
    BY DEF ModulesApplyTheirRevision
  <2>1. Consistent /\ AgentsHold
    BY DEF PlaneInv, IInv
  <2>2. Copies \subseteq published
    BY <2>1 DEF Consistent, Copies, FileHolds, CacheHolds, Pair
  <2>3. Applied \subseteq published
    BY <2>1 DEF AgentsHold, Pair
  <2>. QED BY <2>1, <2>2, <2>3 DEF Consistent, FileHolds, OneRuleSet
<1>. QED BY <1>1, PlaneHolds, PTL

\* A form that is accepted replaces the rules its owner saw, also with
\* modules registering, reporting and fetching in between.
THEOREM FormsReplaceWhatTheySawWithModules == Spec => FormsSeeWhatTheyReplace
<1>1. ASSUME PlaneInv, NEW o \in Owners, Publish(o), job[o].op = "form", ~clashed'
      PROVE  page[o].lists = file.lists
  <2>1. o \in Callers /\ ~clashed
    BY <1>1, LiveRulesAssumption DEF Publish
  <2>2. Consistent
    BY <1>1, <2>1 DEF PlaneInv, IInv
  <2>3. Pair(job[o]) = Pair(file) /\ page[o] \in published /\ Pair(file) \in published
    BY <1>1, <2>1, <2>2 DEF Consistent, JobHolds, LoadedHolds, FileHolds, At, Writes, Publish
  <2>4. page[o].revision = job[o].revision
    BY <1>1 DEF Publish, Expected
  <2>. QED BY <2>2, <2>3, <2>4 DEF Consistent, FileHolds, OneRuleSet, Pair
<1>2. PlaneInv => [\A o \in Owners :
         Publish(o) /\ job[o].op = "form" /\ ~clashed' => page[o].lists = file.lists]_rulesVars
  BY <1>1
<1>. QED BY <1>2, PlaneHolds, PTL DEF FormsSeeWhatTheyReplace

-----------------------------------------------------------------------------
(* Restart requests.  A token in a row, or in the hands of a registration    *)
(* that has read the row, was given out; a row that is not registered has    *)
(* none.                                                                    *)

Merging(m) == job[m].pc = "merge"

TokensKnown ==
  \A m \in Modules :
    /\ row[m].control <= tokens
    /\ ~row[m].registered => row[m].control = 0
    /\ Merging(m) => row[m].registered /\ job[m].control <= tokens

\* No step of the live rules brings a request to where it merges metadata.
LEMMA NoneMerges ==
  ASSUME RulesTypeOK, NextRules, NEW c \in Callers, job'[c].pc = "merge"
  PROVE  job'[c] = job[c]
<1>0. DOMAIN job = Callers /\ Owners \subseteq Callers
  BY LiveRulesAssumption DEF RulesTypeOK
<1>1. ASSUME NEW d \in Callers, Loading(d)
      PROVE  job'[c] = job[c]
  <2>1. job[d] \in Request
    BY <1>1, BusyIsRequest DEF Loading, LoadCached, LoadMeta, LoadFile, FillCache, At
  <2>2. \A e \in Callers \ {d} : job'[e] = job[e]
    BY <1>0, <1>1 DEF Loading, LoadCached, LoadMeta, LoadFile, FillCache
  <2>3. job'[d].pc \in {"meta", "loaded", "fill"}
    <3>1. CASE LoadCached(d)
      BY <1>0, <2>1, <3>1 DEF LoadCached, Request
    <3>2. CASE LoadMeta(d)
      BY <1>0, <2>1, <3>2 DEF LoadMeta, Request
    <3>3. CASE LoadFile(d)
      BY <1>0, <2>1, <3>3 DEF LoadFile, Request
    <3>4. CASE FillCache(d)
      BY <1>0, <2>1, <3>4 DEF FillCache, Request
    <3>. QED BY <1>1, <3>1, <3>2, <3>3, <3>4 DEF Loading
  <2>. QED BY <2>2, <2>3
<1>2. ASSUME NEW o \in Owners, Continue(o)
      PROVE  job'[c] = job[c]
  <2>1. o \in Callers /\ job[o] \in Request
    BY <1>0, <1>2, BusyIsRequest DEF Continue, ShowPage, TakeList, Refuse, Publish, CacheRules,
                                     CacheTime, RewriteFile, EndSync, Finish, At
  <2>2. \A e \in Callers \ {o} : job'[e] = job[e]
    BY <1>0, <1>2, <2>1 DEF Continue, ShowPage, TakeList, Refuse, Publish, CacheRules, CacheTime,
                            RewriteFile, EndSync, Finish
  <2>3. job'[o].pc # "merge"
    <3>1. CASE \/ ShowPage(o) \/ Refuse(o) \/ EndSync(o)
               \/ \E written \in BOOLEAN : Finish(o, written)
      BY <1>0, <2>1, <3>1 DEF ShowPage, Refuse, EndSync, Finish, Idle
    <3>2. TakeList(o) => job'[o].pc = "load"
      BY <1>0, <2>1 DEF TakeList, Job
    <3>5. RewriteFile(o) => job'[o].pc = "load"
      BY <1>0, <2>1 DEF RewriteFile, Job
    <3>3. CASE Publish(o)
      BY <1>0, <2>1, <3>3 DEF Publish, Request
    <3>4. CASE CacheRules(o) \/ CacheTime(o)
      BY <1>0, <2>1, <3>4 DEF CacheRules, CacheTime, Request
    <3>. QED BY <1>2, <3>1, <3>2, <3>3, <3>4, <3>5 DEF Continue
  <2>. QED BY <2>2, <2>3
<1>3. ASSUME NEW o \in Owners, OpenPage(o) \/ RereadFile(o) \/ \E op \in {"form", "list"} : \E l \in Lists : Submit(o, op, l)
      PROVE  job'[c] = job[c]
  <2>1. o \in Callers
    BY <1>0
  <2>2. \A e \in Callers \ {o} : job'[e] = job[e]
    BY <1>0, <1>3, <2>1 DEF OpenPage, Ask, RereadFile, Submit
  <2>3. job'[o].pc \in {"load", "rewrite"}
    <3>1. OpenPage(o) => job'[o].pc = "load"
      BY <1>0, <2>1 DEF OpenPage, Ask, Job
    <3>2. RereadFile(o) => job'[o].pc = "rewrite"
      BY <1>0, <2>1 DEF RereadFile, Job
    <3>3. ASSUME NEW op, NEW l, Submit(o, op, l)
          PROVE  job'[o].pc = "load"
      BY <1>0, <2>1, <3>3 DEF Submit, Job
    <3>. QED BY <1>3, <3>1, <3>2, <3>3
  <2>. QED BY <2>2, <2>3
<1>4. ASSUME NEW restored \in BOOLEAN, Restart(restored)
      PROVE  FALSE
  BY <1>4 DEF Restart, Idle
<1>. QED BY <1>1, <1>2, <1>3, <1>4 DEF NextRules, SubmitForm, SubmitList

\* A request of a module merges what it read from a registered row.
LEMMA TokensStep ==
  ASSUME RulesTypeOK, RegistryTypeOK, RegistryTypeOK', TokensKnown, [Next]_vars
  PROVE  TokensKnown'
<1>0. /\ Modules \subseteq Callers /\ job \in [Callers -> Request \cup {Idle}]
      /\ row \in [Modules -> Row] /\ tokens \in Nat /\ tokens' \in Nat
      /\ \A m \in Modules : row[m].control \in Nat /\ row'[m].control \in Nat
  <2>1. \A m \in Modules : row[m] \in Row /\ row'[m] \in Row
    BY DEF RegistryTypeOK
  <2>. QED BY <2>1, ModulesCall DEF RulesTypeOK, RegistryTypeOK, Row
<1>1. CASE NextRules /\ UNCHANGED registryVars
  <2>1. \A m \in Modules : Merging(m)' => job'[m] = job[m]
    BY <1>0, <1>1, NoneMerges DEF Merging
  <2>. QED BY <1>1, <2>1 DEF TokensKnown, Merging, registryVars
<1>2. CASE UNCHANGED vars
  BY <1>2 DEF vars, rulesVars, registryVars, TokensKnown, Merging
<1>3. ASSUME NEW m \in Modules, ReadMetadata(m) \/ WriteMetadata(m) \/ FetchConfig(m)
      PROVE  TokensKnown'
  <2>1. m \in Callers /\ tokens' = tokens /\ \A n \in Modules \ {m} : row'[n] = row[n]
    BY <1>0, <1>3 DEF ReadMetadata, WriteMetadata, FetchConfig, registryVars
  <2>2. \A n \in Modules \ {m} : job'[n] = job[n]
    BY <1>0, <1>3, RequestTypes
  <2>3. CASE ReadMetadata(m)
    <3>1. row[m].registered /\ job' = Start(m, "merge", row[m].control) /\ row' = row
      BY <2>3 DEF ReadMetadata, registryVars
    <3>2. job'[m].control = row[m].control
      BY <1>0, <2>1, <3>1, StartTypes DEF Steps
    <3>. QED BY <2>1, <2>2, <3>1, <3>2 DEF TokensKnown, Merging
  <2>4. CASE WriteMetadata(m)
    <3>1. /\ Merging(m) /\ job' = Start(m, "load", Merged(m)) /\ job[m] \in Request
          /\ row' = [row EXCEPT ![m].control = Merged(m), ![m].applied = agent[m].revision]
      BY <2>1, <2>4, BusyIsRequest DEF WriteMetadata, Merging, At
    <3>2. job'[m].pc = "load"
      <4>1. Merged(m) \in Nat
        BY <3>1 DEF Merged, Request
      <4>. QED BY <2>1, <3>1, <4>1, StartTypes DEF Steps
    <3>3. row'[m].control = job[m].control /\ row'[m].registered = row[m].registered
      <4>1. row' = [row EXCEPT ![m] = [row[m] EXCEPT !.control = Merged(m),
                                                     !.applied = agent[m].revision]]
        BY <1>0, <3>1
      <4>2. row[m] \in Row
        BY <1>0
      <4>. QED BY <1>0, <4>1, <4>2 DEF Merged, Row
    <3>4. row[m].registered /\ job[m].control <= tokens
      BY <3>1 DEF TokensKnown
    <3>5. row'[m].control <= tokens /\ row'[m].registered
      BY <3>3, <3>4
    <3>6. ~Merging(m)'
      BY <3>2 DEF Merging
    <3>7. ASSUME NEW n \in Modules
          PROVE  /\ row'[n].control <= tokens
                 /\ ~row'[n].registered => row'[n].control = 0
                 /\ Merging(n)' => row'[n].registered /\ job'[n].control <= tokens
      <4>1. CASE n = m
        BY <3>5, <3>6, <4>1
      <4>2. CASE n # m
        <5>1. row'[n] = row[n] /\ job'[n] = job[n]
          BY <2>1, <2>2, <4>2
        <5>. QED BY <5>1 DEF TokensKnown, Merging
      <4>. QED BY <4>1, <4>2
    <3>. QED BY <2>1, <3>7 DEF TokensKnown
  <2>5. CASE FetchConfig(m)
    <3>1. job' = Start(m, "load", row[m].control) /\ row' = row
      BY <2>5 DEF FetchConfig, registryVars
    <3>2. job'[m].pc = "load"
      BY <1>0, <2>1, <3>1, StartTypes DEF Steps
    <3>. QED BY <2>1, <2>2, <3>1, <3>2 DEF TokensKnown, Merging
  <2>. QED BY <1>3, <2>3, <2>4, <2>5
<1>4. ASSUME NEW m \in Modules, Deliver(m) \/ Reboot(m)
      PROVE  TokensKnown'
  <2>1. row' = row /\ tokens' = tokens
    BY <1>4 DEF Deliver, Reboot
  <2>2. \A c \in Callers : job'[c] = job[c] \/ job'[c] = Idle
    BY <1>0, <1>4 DEF Deliver, Reboot
  <2>. QED BY <1>0, <2>1, <2>2 DEF TokensKnown, Merging, Idle
<1>5. ASSUME NEW m \in Modules,
             \/ Heartbeat(m) \/ CreateModule(m) \/ EditModule(m)
             \/ ToggleModule(m) \/ RequestRestart(m)
      PROVE  TokensKnown'
  <2>1. job' = job
    BY <1>5, RowTypes DEF rulesVars
  <2>2. \A n \in Modules \ {m} : row'[n] = row[n]
    BY <1>0, <1>5 DEF Heartbeat, CreateModule, EditModule, ToggleModule, RequestRestart
  <2>3. tokens <= tokens'
    BY <1>0, <1>5 DEF Heartbeat, CreateModule, EditModule, ToggleModule, RequestRestart, rulesVars
  <2>4. /\ row'[m].control \in {row[m].control, 0} \/ row'[m].control = tokens'
        /\ row[m].registered => row'[m].registered
        /\ ~row'[m].registered => row'[m].control \in {row[m].control, 0}
    <3>1. row[m] \in Row
      BY <1>0
    <3>2. Heartbeat(m) \/ ToggleModule(m) => /\ row'[m].control = row[m].control
                                            /\ row'[m].registered = row[m].registered
      BY <1>0, <3>1 DEF Heartbeat, ToggleModule, Row
    <3>3. CreateModule(m) => row'[m].control = 0 /\ row'[m].registered
      BY <1>0 DEF CreateModule, Unregistered
    <3>4. EditModule(m) => row'[m].control = 0 /\ row'[m].registered = row[m].registered
      <4>1. ASSUME EditModule(m) PROVE row' = [row EXCEPT ![m].control = 0]
        BY <4>1 DEF EditModule
      <4>2. m \in DOMAIN row /\ DOMAIN row[m] = {"registered", "enabled", "applied", "control"}
        BY <1>0, <3>1 DEF RegistryTypeOK, Row
      <4>. QED BY <4>1, <4>2
    <3>5. RequestRestart(m) => /\ row'[m].control = tokens' /\ row'[m].registered
      BY <1>0, <3>1 DEF RequestRestart, Row
    <3>. QED BY <1>5, <3>2, <3>3, <3>4, <3>5
  <2>5. \A n \in Modules \ {m} : row'[n].control <= tokens'
    BY <1>0, <2>2, <2>3 DEF TokensKnown
  <2>6. row'[m].control <= tokens'
    BY <1>0, <2>3, <2>4 DEF TokensKnown
  <2>7. ASSUME NEW n \in Modules, Merging(n)'
        PROVE  row'[n].registered /\ job'[n].control <= tokens'
    <3>1. job[n] \in Request
      BY <1>0, <2>1, <2>7, BusyIsRequest DEF Merging
    <3>2. row[n].registered /\ job[n].control \in Nat /\ job[n].control <= tokens
      BY <2>1, <2>7, <3>1 DEF TokensKnown, Merging, Request
    <3>. QED BY <1>0, <2>1, <2>2, <2>3, <2>4, <3>2
  <2>8. \A n \in Modules : ~row'[n].registered => row'[n].control = 0
    BY <2>2, <2>4 DEF TokensKnown
  <2>. QED BY <2>5, <2>6, <2>7, <2>8 DEF TokensKnown
<1>. QED BY <1>1, <1>2, <1>3, <1>4, <1>5 DEF Next

LEMMA TokensHold == Spec => []TokensKnown
<1>1. Init => TokensKnown
  <2>. SUFFICES ASSUME Init PROVE TokensKnown
    OBVIOUS
  <2>. DEFINE listed == [Unregistered EXCEPT !.registered = TRUE, !.enabled = TRUE]
  <2>1. Unregistered.control = 0 /\ listed.control = 0
    BY DEF Unregistered
  <2>2. row \in [Modules -> {Unregistered, listed}] /\ tokens = 0
    BY DEF Init
  <2>3. \A m \in Modules : ~Merging(m)
    BY ModulesCall DEF Init, InitRules, Merging, Idle
  <2>. HIDE DEF listed
  <2>4. \A m \in Modules : row[m].control = 0
    BY <2>1, <2>2
  <2>. QED BY <2>2, <2>3, <2>4 DEF TokensKnown
<1>2. PlaneInv => RulesTypeOK /\ RegistryTypeOK
  BY DEF PlaneInv, IInv
<1>. QED BY <1>1, <1>2, TokensStep, PlaneHolds, PTL DEF Spec

\* A restart that was requested leaves the row only for a newer one, or when
\* an owner edits the module, or when a registration had read the metadata
\* before it: for any number of requests and modules.
THEOREM RestartsStay == Spec => RequestsSurvive
<1>1. ASSUME PlaneInv, TokensKnown, [Next]_vars, NEW m \in Modules,
             row[m].control # 0, row'[m].control # row[m].control
      PROVE  \/ row'[m].control > row[m].control
             \/ changes' # changes
             \/ job[m].pc = "merge" /\ job[m].control # row[m].control
  <2>0. /\ row \in [Modules -> Row] /\ tokens \in Nat /\ changes \in Nat
        /\ row[m] \in Row /\ row[m].control \in Nat /\ row[m].control <= tokens
    <3>1. row \in [Modules -> Row] /\ tokens \in Nat /\ changes \in Nat /\ row[m] \in Row
      BY <1>1 DEF PlaneInv, RegistryTypeOK
    <3>2. row[m].control \in Nat
      BY <3>1 DEF Row
    <3>. QED BY <1>1, <3>1, <3>2 DEF TokensKnown
  <2>1. CASE UNCHANGED row
    BY <1>1, <2>1
  <2>2. ASSUME NEW n \in Modules, WriteMetadata(n)
        PROVE  n = m /\ row'[m].control = job[m].control /\ job[m].pc = "merge"
    <3>1. row' = [row EXCEPT ![n] = [row[n] EXCEPT !.control = job[n].control,
                                                   !.applied = agent[n].revision]]
      <4>1. row' = [row EXCEPT ![n].control = job[n].control, ![n].applied = agent[n].revision]
        BY <2>2 DEF WriteMetadata, Merged
      <4>. QED BY <2>0, <4>1
    <3>2. n = m
      BY <1>1, <2>0, <3>1
    <3>3. row'[m].control = job[m].control
      BY <2>0, <3>1, <3>2 DEF Row
    <3>. QED BY <2>2, <3>2, <3>3 DEF WriteMetadata, At
  <2>3. ASSUME NEW n \in Modules, Heartbeat(n) \/ ToggleModule(n) \/ CreateModule(n)
        PROVE  row'[m].control = row[m].control
    <3>1. CASE n # m
      BY <2>0, <2>3, <3>1 DEF Heartbeat, ToggleModule, CreateModule
    <3>2. CASE n = m
      <4>1. ~CreateModule(m)
        BY <1>1 DEF CreateModule, TokensKnown
      <4>. QED BY <2>0, <2>3, <3>2, <4>1 DEF Heartbeat, ToggleModule, Row
    <3>. QED BY <3>1, <3>2
  <2>4. ASSUME NEW n \in Modules, EditModule(n)
        PROVE  changes' # changes
    BY <2>0, <2>4 DEF EditModule
  <2>5. ASSUME NEW n \in Modules, RequestRestart(n)
        PROVE  row'[m].control = tokens + 1
    <3>1. n = m
      BY <1>1, <2>0, <2>5 DEF RequestRestart
    <3>. QED BY <2>0, <2>5, <3>1 DEF RequestRestart, Row
  <2>6. (NextRules /\ UNCHANGED registryVars) \/ UNCHANGED vars => UNCHANGED row
    BY DEF vars, registryVars
  <2>7. \A n \in Modules : ReadMetadata(n) \/ FetchConfig(n) \/ Deliver(n) \/ Reboot(n) => UNCHANGED row
    BY DEF ReadMetadata, FetchConfig, Deliver, Reboot, registryVars
  <2>. QED BY <1>1, <2>0, <2>1, <2>2, <2>3, <2>4, <2>5, <2>6, <2>7 DEF Next
<1>2. PlaneInv /\ TokensKnown /\ [Next]_vars =>
        [\A m \in Modules :
           row[m].control # 0 /\ row'[m].control # row[m].control
             => \/ row'[m].control > row[m].control
                \/ changes' # changes
                \/ job[m].pc = "merge" /\ job[m].control # row[m].control]_vars
  BY <1>1
<1>. QED BY <1>2, PlaneHolds, TokensHold, PTL DEF Spec, RequestsSurvive
=============================================================================
