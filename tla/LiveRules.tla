------------------------------ MODULE LiveRules ------------------------------
(***************************************************************************)
(* The live rules: one JSON file with a revision, a copy of it in the       *)
(* memory of the API process, and the requests that read and write both.    *)
(* The endpoints are synchronous, so requests run in threads and nothing    *)
(* excludes one from the other between two steps.                           *)
(*                                                                         *)
(* The rules are lists (exempt_ids, provider_profiles, ...); a list is the  *)
(* number of the edit that wrote it.  The file's settings are left out: no  *)
(* revision guards them.  Writing the shared .tmp file and renaming it is   *)
(* one step, as is parsing the file.                                        *)
(***************************************************************************)
EXTENDS Integers, FiniteSets

CONSTANTS
  Callers,             \* the requests that can be in progress at once
  Owners,              \* those of them that come from an owner's browser
  Lists,               \* the editable lists
  MaxEdits, MaxFaults  \* bounds: edits of the rules; rewrites and restarts

ASSUME LiveRulesAssumption ==
  /\ Owners \subseteq Callers
  /\ MaxEdits \in Nat /\ MaxFaults \in Nat

VARIABLES
  file,        \* config.json: the lists, _meta.revision, the file's mtime
  cache,       \* _rules_cache, _rules_cache_meta and _rules_cache_mtime
  job,         \* what each request has read and is about to do
  page,        \* the revision and lists an owner's settings page shows
  edits, faults,       \* how much of each bound is used
  published,   \* history: the lists written to the file under each revision
  clashed      \* history: two requests met in one of the windows of Clash

rulesVars == <<file, cache, job, page, edits, faults, published, clashed>>

NoCache == 0
Untouched == [l \in Lists |-> 0]

Idle == [op |-> "none", pc |-> "idle"]
Job(op) == [op |-> op, pc |-> "load", list |-> "none", edit |-> 0,
             lists |-> Untouched, revision |-> 0, mtime |-> NoCache, control |-> 0]

InitRules ==
  /\ file = [lists |-> Untouched, revision |-> 1, mtime |-> 1]
  /\ cache = [lists |-> Untouched, revision |-> 1, mtime |-> NoCache]
  /\ job = [c \in Callers |-> Idle]
  /\ page = [o \in Owners |-> [revision |-> 1, lists |-> Untouched]]
  /\ edits = 0 /\ faults = 0
  /\ published = {[revision |-> 1, lists |-> Untouched]}
  /\ clashed = FALSE

-----------------------------------------------------------------------------
(* Loading *)

At(c, pc) == job[c].pc = pc

\* The cache is taken when the file is as old as it was: the rules are
\* copied first, then the meta data.
CacheIsFresh == cache.mtime = file.mtime

LoadCached(c) ==
  /\ At(c, "load") /\ CacheIsFresh
  /\ job' = [job EXCEPT ![c].pc = "meta", ![c].lists = cache.lists]
  /\ UNCHANGED <<file, cache, page, edits, faults, published, clashed>>

LoadMeta(c) ==
  /\ At(c, "meta")
  /\ job' = [job EXCEPT ![c].pc = "loaded", ![c].revision = cache.revision]
  /\ UNCHANGED <<file, cache, page, edits, faults, published, clashed>>

LoadFile(c) ==
  /\ At(c, "load") /\ ~CacheIsFresh
  /\ job' = [job EXCEPT ![c].pc = "fill", ![c].lists = file.lists,
                        ![c].revision = file.revision, ![c].mtime = file.mtime]
  /\ UNCHANGED <<file, cache, page, edits, faults, published, clashed>>

\* The cache gets another revision while a reader has copied its rules and not
\* yet its revision.
Tears(revision) == revision # cache.revision /\ \E d \in Callers : At(d, "meta")

\* A reader that fills the cache while a writer is between setting the rules
\* and setting the time leaves old rules behind under the new time.
FillCache(c) ==
  /\ At(c, "fill")
  /\ cache' = [lists |-> job[c].lists, revision |-> job[c].revision, mtime |-> job[c].mtime]
  /\ job' = [job EXCEPT ![c].pc = "loaded", ![c].mtime = NoCache]
  /\ clashed' = (clashed \/ Tears(job[c].revision)
                       \/ (job[c].mtime # file.mtime /\ \E d \in Callers : At(d, "mtime")))
  /\ UNCHANGED <<file, page, edits, faults, published>>

Loading(c) == LoadCached(c) \/ LoadMeta(c) \/ LoadFile(c) \/ FillCache(c)

-----------------------------------------------------------------------------
(* The requests of owners *)

Ask(c, op) == job[c] = Idle /\ job' = [job EXCEPT ![c] = Job(op)]

\* The settings page is opened.
OpenPage(o) ==
  /\ Ask(o, "view")
  /\ UNCHANGED <<file, cache, page, edits, faults, published, clashed>>

ShowPage(o) ==
  /\ At(o, "loaded") /\ job[o].op = "view"
  /\ page' = [page EXCEPT ![o] = [revision |-> job[o].revision, lists |-> job[o].lists]]
  /\ job' = [job EXCEPT ![o] = Idle]
  /\ UNCHANGED <<file, cache, edits, faults, published, clashed>>

Submit(o, op, l) ==
  /\ edits < MaxEdits
  /\ job[o] = Idle
  /\ job' = [job EXCEPT ![o] = [Job(op) EXCEPT !.list = l, !.edit = edits + 1]]
  /\ edits' = edits + 1
  /\ UNCHANGED <<file, cache, page, faults, published, clashed>>

\* An owner submits the page: detection or access settings.
SubmitForm(o, l) == Submit(o, "form", l)

\* An owner switches an exemption of a user, or accepts a suggested profile:
\* the request reads the list itself and expects no revision.
SubmitList(o, l) == Submit(o, "list", l)

\* update_live_rules loads the rules once more.
TakeList(o) ==
  /\ At(o, "loaded") /\ job[o].op = "list"
  /\ job' = [job EXCEPT ![o] = [Job("patch") EXCEPT !.list = job[o].list, !.edit = job[o].edit]]
  /\ UNCHANGED <<file, cache, page, edits, faults, published, clashed>>

\* A form is checked against the revision its page showed.  Mutant: it is not.
ExpectedByAll(o) == TRUE
Expected(o) == job[o].op = "form" => page[o].revision = job[o].revision

\* "Live rules revision conflict"
Refuse(o) ==
  /\ At(o, "loaded") /\ job[o].op = "form" /\ ~Expected(o)
  /\ job' = [job EXCEPT ![o] = Idle]
  /\ UNCHANGED <<file, cache, page, edits, faults, published, clashed>>

\* A writer that has loaded the rules and not yet finished with the cache.
Writing(c) ==
  \/ At(c, "cache") \/ At(c, "mtime")
  \/ job[c].op \in {"form", "patch"} /\ (At(c, "meta") \/ At(c, "fill") \/ At(c, "loaded"))

\* Mutant: only a form gets a new revision.
NextRevisionOfForm(o) == IF job[o].op = "form" THEN job[o].revision + 1 ELSE job[o].revision
NextRevision(o) == job[o].revision + 1

\* The file is written over what the request loaded, under the next revision.
Publish(o) ==
  /\ At(o, "loaded") /\ job[o].op \in {"form", "patch"} /\ Expected(o)
  /\ LET revision == NextRevision(o)
         lists == [job[o].lists EXCEPT ![job[o].list] = job[o].edit] IN
     /\ file' = [lists |-> lists, revision |-> revision, mtime |-> file.mtime + 1]
     /\ job' = [job EXCEPT ![o].pc = "cache", ![o].lists = lists, ![o].revision = revision]
     /\ published' = published \cup {[revision |-> revision, lists |-> lists]}
  /\ clashed' = (clashed \/ \E d \in Callers \ {o} : Writing(d))
  /\ UNCHANGED <<cache, page, edits, faults>>

\* Mutant: the new time is set with the rules the cache already has.
CacheRulesNot(o) ==
  /\ At(o, "cache")
  /\ cache' = [cache EXCEPT !.mtime = file.mtime]
  /\ job' = [job EXCEPT ![o].pc = "mirror"]
  /\ UNCHANGED <<file, page, edits, faults, published, clashed>>

CacheRules(o) ==
  /\ At(o, "cache")
  /\ cache' = [cache EXCEPT !.lists = job[o].lists, !.revision = job[o].revision]
  /\ job' = [job EXCEPT ![o].pc = "mtime"]
  /\ clashed' = (clashed \/ Tears(job[o].revision))
  /\ UNCHANGED <<file, page, edits, faults, published>>

CacheTime(o) ==
  /\ At(o, "mtime")
  /\ cache' = [cache EXCEPT !.mtime = file.mtime]
  /\ job' = [job EXCEPT ![o].pc = "mirror"]
  /\ UNCHANGED <<file, page, edits, faults, published, clashed>>

\* The row of live_rules and the audit, which no request here reads, are
\* written last in a transaction that may fail: the request then fails with
\* its rules published.
Finish(o, written) ==
  /\ At(o, "mirror")
  /\ page' = IF written /\ job[o].op = "form"
             THEN [page EXCEPT ![o] = [revision |-> job[o].revision, lists |-> job[o].lists]]
             ELSE page
  /\ job' = [job EXCEPT ![o] = Idle]
  /\ UNCHANGED <<file, cache, edits, faults, published, clashed>>

\* write_runtime_settings reads the file again and writes it around the lists
\* and the revision it read; it then loads the rules for sync_runtime_config.
RereadFile(o) ==
  /\ job[o] = Idle /\ faults < MaxFaults
  /\ job' = [job EXCEPT ![o] = [Job("sync") EXCEPT !.pc = "rewrite", !.lists = file.lists, !.revision = file.revision]]
  /\ faults' = faults + 1
  /\ UNCHANGED <<file, cache, page, edits, published, clashed>>

RewriteFile(o) ==
  /\ At(o, "rewrite")
  /\ file' = [lists |-> job[o].lists, revision |-> job[o].revision, mtime |-> file.mtime + 1]
  /\ job' = [job EXCEPT ![o] = Job("sync")]
  /\ clashed' = (clashed \/ file.revision # job[o].revision)
  /\ UNCHANGED <<cache, page, edits, faults, published>>

EndSync(o) ==
  /\ At(o, "loaded") /\ job[o].op = "sync"
  /\ job' = [job EXCEPT ![o] = Idle]
  /\ UNCHANGED <<file, cache, page, edits, faults, published, clashed>>

\* The process stops and starts: the requests and the cache are gone, and
\* restore_and_sync_settings may have written the file.
Restart(restored) ==
  /\ faults < MaxFaults /\ faults' = faults + 1
  /\ job' = [c \in Callers |-> Idle]
  /\ cache' = [cache EXCEPT !.mtime = NoCache]
  /\ file' = [file EXCEPT !.mtime = IF restored THEN @ + 1 ELSE @]
  /\ UNCHANGED <<page, edits, published, clashed>>

Continue(o) ==
  \/ ShowPage(o) \/ TakeList(o) \/ Refuse(o) \/ Publish(o) \/ CacheRules(o) \/ CacheTime(o)
  \/ RewriteFile(o) \/ EndSync(o)
  \/ \E written \in BOOLEAN : Finish(o, written)

NextRules ==
  \/ \E c \in Callers : Loading(c)
  \/ \E o \in Owners :
       \/ OpenPage(o) \/ RereadFile(o) \/ Continue(o)
       \/ \E l \in Lists : SubmitForm(o, l) \/ SubmitList(o, l)
  \/ \E restored \in BOOLEAN : Restart(restored)

RulesSpec == InitRules /\ [][NextRules]_rulesVars

-----------------------------------------------------------------------------
(* Properties *)

Versions == [Lists -> Nat]
\* A module's request, and its step "merge", are those of ControlPlane.
Ops == {"view", "form", "list", "patch", "sync", "module"}
Steps == {"load", "meta", "fill", "loaded", "cache", "mtime", "mirror", "rewrite", "merge"}
Request == [op : Ops, pc : Steps, list : Lists \cup {"none"}, edit : Nat,
            lists : Versions, revision : Nat, mtime : Nat, control : Nat]
RuleSet == [revision : Nat, lists : Versions]

RulesTypeOK ==
  /\ file \in [lists : Versions, revision : Nat, mtime : Nat]
  /\ cache \in [lists : Versions, revision : Nat, mtime : Nat]
  /\ job \in [Callers -> Request \cup {Idle}]
  /\ page \in [Owners -> RuleSet]
  /\ edits \in 0..MaxEdits /\ faults \in 0..MaxFaults
  /\ published \subseteq RuleSet
  /\ clashed \in BOOLEAN

Copies == published \cup {[revision |-> c.revision, lists |-> c.lists] : c \in {file, cache}}
                    \cup {page[o] : o \in Owners}

OneRuleSet(copies) == \A x, y \in copies : x.revision = y.revision => x.lists = y.lists

\* A revision names one set of rules, in the file, in the cache and on every
\* page, through failed audits, rewrites for the runtime settings and
\* restarts, unless two requests met in one of four windows: two writers
\* that both loaded; a rewrite that read the file before an edit; a reader
\* between the rules and the revision of the cache; a reader filling the
\* cache before a writer has set its time.
RevisionNamesRules == ~clashed => OneRuleSet(Copies)

\* A form replaces only what its owner has seen, however old the page, even
\* when a process restarted in between.
FormsSeeWhatTheyReplace ==
  [][\A o \in Owners :
       Publish(o) /\ job[o].op = "form" /\ ~clashed' => page[o].lists = file.lists]_rulesVars
=============================================================================
