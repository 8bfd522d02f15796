---------------------------- MODULE ControlPlane ----------------------------
(***************************************************************************)
(* The modules on the nodes and the panel that tells them what to do: the    *)
(* registry's rows, the requests by which a module registers, reports and    *)
(* fetches its configuration, and the owners' requests about it, over the    *)
(* live rules.  A module makes one request at a time.  What it does with an  *)
(* answer is not in this repository: it applies a configuration it gets and  *)
(* restarts on a token it has not seen.                                      *)
(*                                                                         *)
(* A request that changes the metadata of a row reads it and writes it back  *)
(* in two statements, with nothing between them on either backend.  Health,  *)
(* version and last_seen_at are left out: only the consoles read them.       *)
(***************************************************************************)
EXTENDS LiveRules

CONSTANTS
  Modules,
  MaxTokens, MaxChanges    \* bounds: restart requests; edits and switches

ASSUME ControlPlaneAssumption ==
  /\ Callers = Owners \cup Modules /\ Owners \cap Modules = {}
  /\ MaxTokens \in Nat /\ MaxChanges \in Nat

VARIABLES
  row,         \* modules: registered, enabled, config_revision_applied, and
               \* the restart token in metadata.module_control
  agent,       \* the module itself: its configuration, the last token it saw
  tokens, changes      \* how much of each bound is used

registryVars == <<row, agent, tokens, changes>>
vars == <<rulesVars, registryVars>>

Unregistered == [registered |-> FALSE, enabled |-> FALSE, applied |-> 0, control |-> 0]
NewAgent == [revision |-> 0, lists |-> Untouched, control |-> 0]

\* A module is in the registry from before, or will be created.
Init ==
  /\ InitRules
  /\ row \in [Modules -> {Unregistered, [Unregistered EXCEPT !.registered = TRUE, !.enabled = TRUE]}]
  /\ agent = [m \in Modules |-> NewAgent]
  /\ tokens = 0 /\ changes = 0

Start(c, pc, control) == [job EXCEPT ![c] = [Job("module") EXCEPT !.pc = pc, !.control = control]]

-----------------------------------------------------------------------------
(* The module protocol *)

\* authenticate_module refuses a module that is not registered or disabled.
Authentic(m) == job[m] = Idle /\ row[m].registered /\ row[m].enabled

\* register_module reads the metadata; being disabled does not matter to it.
ReadMetadata(m) ==
  /\ job[m] = Idle /\ row[m].registered
  /\ job' = Start(m, "merge", row[m].control)
  /\ UNCHANGED <<file, cache, page, edits, faults, published, clashed, registryVars>>

\* What the module sends is laid over what was stored.
Merged(m) == job[m].control

\* It is written with the revision the module reports; then the configuration
\* is loaded for the answer.
WriteMetadata(m) ==
  /\ At(m, "merge")
  /\ row' = [row EXCEPT ![m].control = Merged(m), ![m].applied = agent[m].revision]
  /\ job' = Start(m, "load", Merged(m))
  /\ UNCHANGED <<file, cache, page, edits, faults, published, clashed, agent, tokens, changes>>

\* A heartbeat writes the revision the module reports.  Its answer names the
\* revision of the live rules, which a module that fetches its configuration
\* anyway has no use for: it is left out.
Heartbeat(m) ==
  /\ Authentic(m)
  /\ row' = [row EXCEPT ![m].applied = agent[m].revision]
  /\ UNCHANGED <<rulesVars, agent, tokens, changes>>

\* The row read at authentication is the one the answer is made from.
FetchConfig(m) ==
  /\ Authentic(m)
  /\ job' = Start(m, "load", row[m].control)
  /\ UNCHANGED <<file, cache, page, edits, faults, published, clashed, registryVars>>

\* module_control is in the answer when it has a token.  Mutant: it is there
\* only with a new revision.
ControlSentWithRules(m) == IF job[m].revision # agent[m].revision THEN job[m].control ELSE 0
ControlSent(m) == job[m].control

Deliver(m) ==
  /\ At(m, "loaded") /\ job[m].op = "module"
  /\ agent' = [agent EXCEPT ![m] =
                 [revision |-> job[m].revision, lists |-> job[m].lists,
                  control |-> IF ControlSent(m) = 0 THEN agent[m].control ELSE ControlSent(m)]]
  /\ job' = [job EXCEPT ![m] = Idle]
  /\ UNCHANGED <<file, cache, page, edits, faults, published, clashed, row, tokens, changes>>

\* The node stops: the module starts without a configuration.
Reboot(m) ==
  /\ job[m] = Idle /\ faults < MaxFaults /\ faults' = faults + 1
  /\ agent' = [agent EXCEPT ![m].revision = 0, ![m].lists = Untouched]
  /\ UNCHANGED <<file, cache, job, page, edits, published, clashed, row, tokens, changes>>

-----------------------------------------------------------------------------
(* The owners' requests about a module *)

CreateModule(m) ==
  /\ ~row[m].registered
  /\ row' = [row EXCEPT ![m] = [Unregistered EXCEPT !.registered = TRUE, !.enabled = TRUE]]
  /\ UNCHANGED <<rulesVars, agent, tokens, changes>>

\* update_managed_module replaces the metadata by what the form has: a name
\* and inbound tags.
EditModule(m) ==
  /\ row[m].registered /\ changes < MaxChanges /\ changes' = changes + 1
  /\ row' = [row EXCEPT ![m].control = 0]
  /\ UNCHANGED <<rulesVars, agent, tokens>>

ToggleModule(m) ==
  /\ row[m].registered /\ changes < MaxChanges /\ changes' = changes + 1
  /\ row' = [row EXCEPT ![m].enabled = ~@]
  /\ UNCHANGED <<rulesVars, agent, tokens>>

\* request_module_restart puts a new token into the metadata it has read; of
\* what it writes back only the token matters here, so it is one step.
RequestRestart(m) ==
  /\ row[m].registered /\ tokens < MaxTokens /\ tokens' = tokens + 1
  /\ row' = [row EXCEPT ![m].control = tokens + 1]
  /\ UNCHANGED <<rulesVars, agent, changes>>

Next ==
  \/ NextRules /\ UNCHANGED registryVars
  \/ \E m \in Modules :
       \/ ReadMetadata(m) \/ WriteMetadata(m) \/ Heartbeat(m)
       \/ FetchConfig(m) \/ Deliver(m) \/ Reboot(m)
       \/ CreateModule(m) \/ EditModule(m) \/ ToggleModule(m) \/ RequestRestart(m)

\* A request that was accepted goes on.  A module keeps polling: its own loop,
\* outside this repository, fetches and reports again and again, whatever else
\* it asks for in between.
Fairness ==
  /\ \A o \in Owners : WF_vars((Loading(o) \/ Continue(o)) /\ UNCHANGED registryVars)
  /\ \A m \in Modules : /\ WF_vars(Loading(m) /\ UNCHANGED registryVars)
                        /\ WF_vars(WriteMetadata(m) \/ Deliver(m))
                        /\ SF_vars(FetchConfig(m))
                        /\ SF_vars(Heartbeat(m))

Spec == Init /\ [][Next]_vars /\ Fairness

-----------------------------------------------------------------------------
(* Properties *)

\* What a module applies under a revision are the rules that were published
\* under it, unless two requests met in one of the windows.
ModulesApplyTheirRevision ==
  ~clashed => OneRuleSet(Copies \cup {[revision |-> agent[m].revision, lists |-> agent[m].lists] :
                                        m \in {n \in Modules : agent[n].revision # 0}})

\* Once the owners stop editing, every enabled module comes to apply the rules
\* in the file and the registry to show their revision ("modules are not on
\* the latest config revision" goes away), across failures of the panel and
\* of the node.
ModulesConverge ==
  <>[](clashed \/ \A m \in Modules : row[m].registered /\ row[m].enabled =>
         /\ agent[m].revision = file.revision /\ agent[m].lists = file.lists
         /\ row[m].applied = file.revision)

\* A requested restart leaves the row only for a newer one, or when an owner
\* edits the module, or when a registration read the metadata before it.
RequestsSurvive ==
  [][\A m \in Modules :
       row[m].control # 0 /\ row'[m].control # row[m].control
         => \/ row'[m].control > row[m].control
            \/ changes' # changes
            \/ job[m].pc = "merge" /\ job[m].control # row[m].control]_vars

\* A restart that was requested survives in the row and reaches the module,
\* even one that already has the latest revision, unless the row is edited or
\* disabled first.
RestartArrives ==
  /\ RequestsSurvive
  /\ \A m \in Modules, k \in 1..MaxTokens :
       (row[m].control = k) ~> (agent[m].control = k \/ row[m].control # k \/ ~row[m].enabled)
=============================================================================
