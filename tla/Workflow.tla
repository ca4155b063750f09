------------------------------ MODULE Workflow ------------------------------
(***************************************************************************)
(* The thread of one accepted workflow: _run_workflow and its helpers in   *)
(* service.py.  It starts with the run queued (start_workflow has saved    *)
(* the row, the key and the first event, see RunService.tla) and drives    *)
(* the components of the plan one after the other: vm, the wait for the    *)
(* new nodes to accept TCP/22, node-init, and as many of local-rke2,       *)
(* rancher and downstream as the plan names, then the reference manual.    *)
(*                                                                         *)
(* Only this thread writes the run's row, so reading it and writing it     *)
(* back is one step; the row and the event that reports it are two         *)
(* transactions, and the process may stop or the second may fail between   *)
(* them.  Nodes come up, and go down again, at any time.                   *)
(***************************************************************************)
EXTENDS Naturals, Sequences, FiniteSets

CONSTANTS
  Scopes,      \* the workflow scopes to explore, prefixes of ComponentOrder
  Manuals,     \* the manual settings and audit results to explore, see Manual
  Nodes,       \* the nodes of the configuration
  WaitRounds,  \* the most rounds of probes that fit before the readiness deadline
  MaxFlaps,    \* bound on nodes going up or down
  MaxFaults,   \* bound on store calls, renderings and probes that raise
  MaxCrashes   \* bound on stops of the process

ComponentOrder == <<"vm", "node-init", "local-rke2", "rancher", "downstream">>
Components == {ComponentOrder[i] : i \in 1..5}
WorkflowScopes == {SubSeq(ComponentOrder, 1, n) : n \in 2..5}

\* deliverables.installation_manual and .require_audit_pass of the configuration,
\* and whether the audit of the manual this plan renders to has findings.
Manual == [setting: {"true", "ask", "false"}, requireAudit: BOOLEAN, findings: BOOLEAN]

ASSUME WorkflowAssumption ==
  /\ Scopes \subseteq WorkflowScopes
  /\ Manuals \subseteq Manual
  /\ IsFiniteSet(Nodes) /\ Nodes # {}
  /\ WaitRounds \in Nat \ {0} /\ MaxFlaps \in Nat /\ MaxFaults \in Nat /\ MaxCrashes \in Nat

VARIABLES
  scope,     \* the plan's target_components
  manual,    \* see Manual; fixed by the configuration and the plan
  run,       \* the run's state
  component, \* component_states: the state of each component
  runbook,   \* the runbook field of the run
  draft,     \* the runbook field the thread is about to save
  events,    \* run_events of the run: <<type, component>>
  pc,        \* what the thread does next
  stage,     \* the index in scope it does it for
  executed,  \* history: the components execute() was entered for, in order
  up,        \* the nodes that accept TCP/22 now
  answered,  \* the nodes that passed their check in the current round of probes
  round,     \* rounds of probes begun since the wait started
  expired,   \* the plan's twenty-four hours are over
  written,   \* the manual file is on disk
  flaps, faults, crashes

vars == <<scope, manual, run, component, runbook, draft, events, pc, stage, executed, up,
          answered, round, expired, written, flaps, faults, crashes>>
config == <<scope, manual>>
report == <<draft, written>>
row == <<run, component, runbook>>
probes == <<answered, round>>
environment == <<up, expired, flaps>>
limits == <<faults, crashes>>

Terminal == {"SUCCEEDED", "FAILED"}
NoRunbook == [rendered |-> FALSE, error |-> "none"]

Current == scope[stage]
Scope == {scope[i] : i \in DOMAIN scope}
Go(step) == pc' = step
Log(type, c) == events' = Append(events, <<type, c>>)

-----------------------------------------------------------------------------
(* The row.                                                                *)

\* _initial_workflow_states: the first component is queued, the others blocked.
InitialStates(s) ==
  [c \in {s[i] : i \in DOMAIN s} |-> IF c = s[1] THEN "QUEUED" ELSE "BLOCKED"]

\* _set_workflow_component: the component takes the state and the run is RUNNING.
SetComponent(c, state) ==
  /\ component' = [component EXCEPT ![c] = state]
  /\ run' = "RUNNING"
  /\ UNCHANGED runbook

\* Bug: what comes after the failed component stays blocked.
FinishFailureAlone(c) ==
  /\ component' = [component EXCEPT ![c] = "FAILED"]
  /\ run' = "FAILED"
  /\ UNCHANGED runbook

\* Bug: what has succeeded is skipped too.
FinishFailureSkipsAll(c) ==
  /\ component' = [d \in DOMAIN component |-> IF d = c THEN "FAILED" ELSE "SKIPPED"]
  /\ run' = "FAILED"
  /\ UNCHANGED runbook

\* _finish_workflow_failure: what has not started is skipped.
FinishFailure(c) ==
  /\ component' = [d \in DOMAIN component |->
       IF d = c THEN "FAILED"
       ELSE IF component[d] \in {"BLOCKED", "WAITING"} THEN "SKIPPED" ELSE component[d]]
  /\ run' = "FAILED"
  /\ UNCHANGED runbook

-----------------------------------------------------------------------------
(* The stages.                                                             *)

\* The component of the stage is persisted as running, and its event follows.
StageStarts ==
  /\ pc = "start" /\ Go("log_start")
  /\ SetComponent(Current, "RUNNING")
  /\ UNCHANGED <<config, events, stage, executed, environment, probes, report, limits>>

LogStart ==
  /\ pc = "log_start" /\ Go("execute")
  /\ Log("STARTED", Current)
  /\ UNCHANGED <<config, row, stage, executed, environment, probes, report, limits>>

Execute ==
  /\ pc = "execute" /\ Go("executing")
  /\ executed' = Append(executed, Current)
  /\ UNCHANGED <<config, row, events, stage, environment, probes, report, limits>>

\* Bug: a failed component is tried again.
ExecuteEndsOrRetries ==
  /\ pc = "executing"
  /\ Go("succeeded") \/ Go("failed") \/ Go("execute")
  /\ UNCHANGED <<config, row, events, stage, executed, environment, probes, report, limits>>

\* execute() of the component's executor returns or raises.
ExecuteEnds ==
  /\ pc = "executing"
  /\ Go("succeeded") \/ Go("failed")
  /\ UNCHANGED <<config, row, events, stage, executed, environment, probes, report, limits>>

StageSucceeds ==
  /\ pc = "succeeded" /\ Go("log_success")
  /\ SetComponent(Current, "SUCCEEDED")
  /\ UNCHANGED <<config, events, stage, executed, environment, probes, report, limits>>

\* Bug: the last component is taken for done one stage early.
LogSuccessEndsEarly ==
  /\ pc = "log_success"
  /\ Log("SUCCEEDED", Current)
  /\ IF stage >= Len(scope) - 1
     THEN Go("finish") /\ UNCHANGED stage
     ELSE /\ stage' = stage + 1
          /\ IF scope[stage + 1] = "node-init" THEN Go("wait") ELSE Go("start")
  /\ UNCHANGED <<config, row, executed, environment, probes, report, limits>>

\* The event, and then the next component: node-init waits for its nodes first.
LogSuccess ==
  /\ pc = "log_success"
  /\ Log("SUCCEEDED", Current)
  /\ IF stage = Len(scope)
     THEN Go("finish") /\ UNCHANGED stage
     ELSE /\ stage' = stage + 1
          /\ IF scope[stage + 1] = "node-init" THEN Go("wait") ELSE Go("start")
  /\ UNCHANGED <<config, row, executed, environment, probes, report, limits>>

\* The row of the failed component; everything after it is given up.
StageFails ==
  /\ pc = "failed" /\ Go("log_failure")
  /\ FinishFailure(Current)
  /\ UNCHANGED <<config, events, stage, executed, environment, probes, report, limits>>

\* Bug: the loop goes on after a failure.
LogFailureGoesOn ==
  /\ pc = "log_failure"
  /\ Log("FAILED", Current)
  /\ IF stage = Len(scope) THEN Go("done") /\ UNCHANGED stage
                          ELSE Go("start") /\ stage' = stage + 1
  /\ UNCHANGED <<config, row, executed, environment, probes, report, limits>>

LogFailure ==
  /\ pc = "log_failure" /\ Go("done")
  /\ Log("FAILED", Current)
  /\ UNCHANGED <<config, row, stage, executed, environment, probes, report, limits>>

-----------------------------------------------------------------------------
(* The wait for the nodes: rounds of TCP/22 probes until one round passes  *)
(* for every node, or the deadline is over at the end of a round.          *)

WaitStarts ==
  /\ pc = "wait" /\ Go("log_wait")
  /\ SetComponent(Current, "WAITING")
  /\ UNCHANGED <<config, events, stage, executed, environment, probes, report, limits>>

LogWait ==
  /\ pc = "log_wait" /\ Go("probe")
  /\ Log("WAITING", Current)
  /\ round' = 1 /\ answered' = {}
  /\ UNCHANGED <<config, row, stage, executed, environment, report, limits>>

\* One probe after the other, each at its own moment.
ProbeAnswers(n) ==
  /\ pc = "probe" /\ n \in up \ answered
  /\ answered' = answered \cup {n}
  /\ UNCHANGED <<config, row, events, pc, stage, executed, environment, round, report, limits>>

\* Bug: the first node that answers ends the wait.
RoundPassesWithOne ==
  /\ pc = "probe" /\ answered # {}
  /\ Go("start")
  /\ UNCHANGED <<config, row, events, stage, executed, environment, probes, report, limits>>

RoundPasses ==
  /\ pc = "probe" /\ answered = Nodes
  /\ Go("start")
  /\ UNCHANGED <<config, row, events, stage, executed, environment, probes, report, limits>>

\* Bug: the deadline is computed again for each round.
RoundFailsForever ==
  /\ pc = "probe" /\ Nodes \ (up \cup answered) # {}
  /\ round' = IF round < WaitRounds THEN round + 1 ELSE 1
  /\ answered' = {}
  /\ UNCHANGED <<config, row, events, pc, stage, executed, environment, report, limits>>

\* A probe found its node down.  Rounds take as long as their probes, so the
\* deadline may be over after any round; a round that passes is not held to it.
RoundFails ==
  /\ pc = "probe" /\ Nodes \ (up \cup answered) # {}
  /\ \/ Go("failed") /\ UNCHANGED probes
     \/ /\ round < WaitRounds
        /\ round' = round + 1 /\ answered' = {}
        /\ UNCHANGED pc
  /\ UNCHANGED <<config, row, events, stage, executed, environment, report, limits>>

-----------------------------------------------------------------------------
(* The end of a workflow that succeeded.                                   *)

\* render_runbook refuses an expired plan; it writes the file before it reports
\* the findings of the audit, and is ok only without any.
RenderState == IF expired THEN "EXPIRED"
               ELSE IF manual.findings THEN "RENDERED_WITH_FINDINGS" ELSE "RENDERED"

RenderedRunbook ==
  IF manual.setting # "true" THEN NoRunbook
  ELSE IF RenderState # "RENDERED" THEN [rendered |-> FALSE, error |-> RenderState]
  ELSE [rendered |-> TRUE, error |-> "none"]

\* audit_passed: nothing found, or nothing demanded.
AuditPassed == ~manual.findings \/ ~manual.requireAudit

\* Bug: the events of the end come before the row.
RenderThenLog ==
  /\ pc = "finish" /\ Go("log_workflow")
  /\ draft' = RenderedRunbook
  /\ written' = (manual.setting = "true" /\ RenderState # "EXPIRED")
  /\ UNCHANGED <<config, row, events, stage, executed, environment, probes, limits>>

Render ==
  /\ pc = "finish" /\ Go("save_success")
  /\ draft' = RenderedRunbook
  /\ written' = (manual.setting = "true" /\ RenderState # "EXPIRED")
  /\ UNCHANGED <<config, row, events, stage, executed, environment, probes, limits>>

\* update_run writes the final state and the runbook field together.
SaveSuccess ==
  /\ pc = "save_success" /\ Go("log_workflow")
  /\ run' = "SUCCEEDED" /\ runbook' = draft
  /\ UNCHANGED <<config, component, events, stage, executed, environment, probes, report, limits>>

LogWorkflow ==
  /\ pc = "log_workflow"
  /\ Log("WORKFLOW_SUCCEEDED", "workflow")
  /\ IF runbook.rendered THEN Go("log_runbook") ELSE Go("done")
  /\ UNCHANGED <<config, row, stage, executed, environment, probes, report, limits>>

LogRunbook ==
  /\ pc = "log_runbook" /\ Go("done")
  /\ Log(IF AuditPassed THEN "RUNBOOK_RENDERED" ELSE "RUNBOOK_AUDIT_FAILED", "workflow")
  /\ UNCHANGED <<config, row, stage, executed, environment, probes, report, limits>>

-----------------------------------------------------------------------------
(* Failures and the environment.                                           *)

StoreSteps == {"start", "log_start", "succeeded", "log_success", "failed", "log_failure",
               "wait", "log_wait", "finish", "save_success", "log_workflow", "log_runbook"}

\* A store call or the rendering raises outside every try: the thread ends there.
\* A probe that raises something else than OSError is caught and fails the stage.
Raises ==
  /\ faults < MaxFaults /\ faults' = faults + 1
  /\ \/ pc \in StoreSteps /\ Go("dead")
     \/ pc = "probe" /\ Go("failed")
  /\ UNCHANGED <<config, row, events, stage, executed, environment, probes, report, crashes>>

\* The process stops; nothing resumes the thread.
Crash ==
  /\ crashes < MaxCrashes /\ crashes' = crashes + 1
  /\ pc \notin {"done", "dead"} /\ Go("dead")
  /\ UNCHANGED <<config, row, events, stage, executed, environment, probes, report, faults>>

\* A node finishes booting, or goes down again.
NodeFlaps(n) ==
  /\ flaps < MaxFlaps /\ flaps' = flaps + 1
  /\ up' = IF n \in up THEN up \ {n} ELSE up \cup {n}
  /\ UNCHANGED <<config, row, events, pc, stage, executed, probes, expired, report, limits>>

PlanExpires ==
  /\ ~expired /\ expired' = TRUE
  /\ UNCHANGED <<config, row, events, pc, stage, executed, up, flaps, probes, report, limits>>

Init ==
  /\ scope \in Scopes /\ manual \in Manuals
  /\ run = "QUEUED" /\ component = InitialStates(scope) /\ runbook = NoRunbook /\ draft = NoRunbook
  /\ events = <<<<"QUEUED", "workflow">>>>
  /\ pc = "start" /\ stage = 1 /\ executed = <<>>
  /\ up = {} /\ answered = {} /\ round = 0
  /\ expired = FALSE /\ written = FALSE
  /\ flaps = 0 /\ faults = 0 /\ crashes = 0

ThreadStep ==
  \/ StageStarts \/ LogStart \/ Execute \/ ExecuteEnds
  \/ StageSucceeds \/ LogSuccess \/ StageFails \/ LogFailure
  \/ WaitStarts \/ LogWait \/ (\E n \in Nodes : ProbeAnswers(n)) \/ RoundPasses \/ RoundFails
  \/ Render \/ SaveSuccess \/ LogWorkflow \/ LogRunbook

\* A thread that is over stays over.
Over == pc \in {"done", "dead"} /\ UNCHANGED vars

Next ==
  \/ ThreadStep
  \/ Raises
  \/ Crash
  \/ \E n \in Nodes : NodeFlaps(n)
  \/ PlanExpires
  \/ Over

Spec == Init /\ [][Next]_vars

\* The thread is scheduled and execute() returns (the assumption of RunService.tla).
FairSpec == Spec /\ WF_vars(ThreadStep)

-----------------------------------------------------------------------------
(* Properties.                                                             *)

\* The history of a workflow that failed reads off its components: one failed,
\* everything before it succeeded, everything after it was skipped, nothing is
\* left waiting or running (service.py:1179-1219).
FailureAccounted ==
  run = "FAILED" =>
    \E i \in DOMAIN scope :
      /\ component[scope[i]] = "FAILED"
      /\ \A j \in 1..(i - 1) : component[scope[j]] = "SUCCEEDED"
      /\ \A j \in (i + 1)..Len(scope) : component[scope[j]] = "SKIPPED"

\* A component is executed after all the components before it in the plan have
\* persisted their success, and never twice (service.py:914-1067).
ExecutedInOrder ==
  /\ Len(executed) <= Len(scope) /\ executed = SubSeq(scope, 1, Len(executed))
  /\ \A i \in 1..(Len(executed) - 1) : component[scope[i]] = "SUCCEEDED"

\* A workflow is reported successful only when every component of the plan was
\* executed and has persisted its success (service.py:1068-1072).
SuccessComplete ==
  run = "SUCCEEDED" => executed = scope /\ \A c \in Scope : component[c] = "SUCCEEDED"

\* node-init is executed only after one round in which every node answered.  The
\* nodes answer one after the other: they need not have been up together.
NodesAnsweredFirst ==
  (\E i \in DOMAIN executed : executed[i] = "node-init") => answered = Nodes

\* Events report what the row already says: a component's end, the workflow's end,
\* and a manual that is on disk and passed its audit (service.py:1173-1177, 1072-1103).
EventsBackedByRow ==
  \A i \in DOMAIN events :
    LET type == events[i][1]
        c == events[i][2]
    IN /\ c # "workflow" /\ type \in Terminal => component[c] = type
       /\ type = "WORKFLOW_SUCCEEDED" => run = "SUCCEEDED"
       /\ type = "RUNBOOK_RENDERED" => runbook.rendered /\ written /\ ~manual.findings

Rank(state) ==
  IF state \in {"QUEUED", "BLOCKED"} THEN 0
  ELSE IF state = "WAITING" THEN 1
  ELSE IF state = "RUNNING" THEN 2 ELSE 3

\* Neither the run nor a component goes back, and an end is kept.
MovesForward ==
  [][/\ run \in Terminal => run' = run
     /\ run' # "QUEUED" \/ run = "QUEUED"
     /\ \A c \in DOMAIN component :
          component'[c] = component[c] \/ Rank(component'[c]) > Rank(component[c])]_vars

\* The pipeline a client approved: Pipeline.tla.
Succeeded == {c \in Scope : component[c] = "SUCCEEDED"}
Running == {c \in Scope : component[c] = "RUNNING"}
Verdict == IF run \in Terminal THEN run ELSE "OPEN"
Approved == INSTANCE Pipeline WITH
  order <- scope, done <- Succeeded, active <- Running, verdict <- Verdict

\* With races, faults and stops, a workflow does nothing the pipeline may not do.
ImplementsPipeline == Approved!Spec

\* Unless a store call raises or the process stops, the workflow reaches its verdict:
\* in particular the wait for the nodes ends, whether they come up or not.
ReachesVerdict == <>(run \in Terminal \/ faults > 0 \/ crashes > 0)

\* The README: the setting "true" renders and audits the manual "and records the
\* artifact path and audit findings on the run" (README.md:19-23).
ManualIsRecorded ==
  run = "SUCCEEDED" /\ written => runbook.rendered
=============================================================================
