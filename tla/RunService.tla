----------------------------- MODULE RunService -----------------------------
(***************************************************************************)
(* The mutating half of the MCP service: start_run and start_workflow      *)
(* (service.py), the tables runs, idempotency_keys and run_events they     *)
(* write (storage.py), and the background thread each accepted run gets    *)
(* (executor.py).                                                          *)
(*                                                                         *)
(* Tool calls are served by several worker threads, and every store call   *)
(* opens its own SQLite connection and commits on its own, so one store    *)
(* call is one step and calls interleave between any two of them.  The     *)
(* process may stop at any step (compose.yaml restarts it); threads die    *)
(* with it, rows stay.  Nothing at start-up looks at the rows again.       *)
(*                                                                         *)
(* The rows of plans, preflights and validated_configs are never updated   *)
(* or deleted by the code, so they are constants here; a row that appears  *)
(* later is one no call has named yet.  Planning.tla models how they come  *)
(* about.  Of a workflow's thread this module keeps what it does to the    *)
(* run as a whole; Workflow.tla models its stages.                         *)
(***************************************************************************)
EXTENDS Naturals, Sequences, FiniteSets

CONSTANTS
  Handlers,    \* worker threads that serve tool calls
  Keys,        \* idempotency keys
  Requests,    \* the argument tuples clients send, see Request
  RunIds,      \* run ids the process can draw (bounds the runs created)
  Plans,       \* ids in table plans
  PlanOf,      \* the row of each plan, see PlanRow
  Preflights,  \* ids in table preflights
  PreflightOf, \* the row of each preflight, see PreflightRow
  Digests,     \* configuration digests
  Configs,     \* the digests get_config returns a configuration for
  None,        \* no row, no id
  MaxTime,     \* bound on the clock
  MaxFaults,   \* bound on store calls and thread starts that raise
  MaxCrashes   \* bound on stops of the process

ComponentOrder == <<"vm", "node-init", "local-rke2", "rancher", "downstream">>
Components == {ComponentOrder[i] : i \in 1..5}
SingleScopes == {<<c>> : c \in Components}
WorkflowScopes == {SubSeq(ComponentOrder, 1, n) : n \in 2..5}

Tools == {"start_run", "start_workflow"}

\* What the five arguments and the tool's name amount to.  The approval text
\* is "APPROVE ... " and the plan's id, so it is that id; None is any other text.
Request == [tool: Tools, plan: Plans \cup {None}, digest: Digests,
            preflight: Preflights \cup {None}, approval: Plans \cup {None}]

PlanRow == [digest: Digests, scope: Seq(Components), expires: Nat]
PreflightRow == [plan: Plans, digest: Digests, state: {"PASSED", "FAILED"},
                 expires: Nat]

ASSUME ConstantsAssumption ==
  /\ Requests \subseteq Request
  /\ PlanOf \in [Plans -> PlanRow]
  /\ PreflightOf \in [Preflights -> PreflightRow]
  /\ Configs \subseteq Digests
  /\ None \notin Plans \cup Preflights \cup RunIds \cup Keys \cup Requests
  /\ None \notin [req: Requests, run: RunIds]
  /\ MaxTime \in Nat /\ MaxFaults \in Nat /\ MaxCrashes \in Nat

VARIABLES
  now,        \* the clock that plan and preflight expiry is compared with
  status,     \* table runs: the run's state, "ABSENT" without a row
  origin,     \* the key, request and arrival time a row was created for
  keys,       \* table idempotency_keys
  events,     \* table run_events, per run
  call,       \* the tool call each worker thread is serving
  acked,      \* history: the (key, request, run) of every ok reply
  job,        \* where the run's background thread is
  source,     \* the run whose artifact the thread's configuration names
  executions, \* history: how often execute() was entered for the run
  outcome,    \* history: how the run's execute() ended
  faults,
  crashes

vars == <<now, status, origin, keys, events, call, acked, job, source,
          executions, outcome, faults, crashes>>

rows == <<status, origin, keys, events>>
threads == <<job, executions, outcome>>
limits == <<faults, crashes>>

Terminal == {"SUCCEEDED", "FAILED"}
States == {"ABSENT", "QUEUED", "RUNNING"} \cup Terminal
EventTypes == {"QUEUED", "STARTED", "SUCCEEDED", "FAILED"}
Origins == [key: Keys, req: Requests, asked: Nat]
Codes == {"NONE", "OK", "EXCEPTION", "IDEMPOTENCY_CONFLICT", "INTERNAL_ERROR",
          "NOT_FOUND", "CONFIG_MISMATCH", "EXPIRED", "UNSUPPORTED_SCOPE",
          "APPROVAL_REQUIRED", "PREFLIGHT_MISMATCH", "PREFLIGHT_REQUIRED",
          "EXECUTION_BACKEND_UNAVAILABLE", "ARTIFACT_REQUIRED"}
CallPositions == {"idle", "lookup", "replay", "plan", "preflight", "artifact",
                  "save_run", "save_key", "append_event", "submit"}
JobPositions == {"none", "starting", "log_started", "ready", "executing",
                 "succeeded", "failed", "log_end", "done", "dead"}

\* A worker thread between two calls; code is the state of its last reply.
Idle(code) == [pc |-> "idle", for |-> None, run |-> None, source |-> None, code |-> code]
Calls == [pc: CallPositions, for: Origins \cup {None}, run: RunIds \cup {None},
          source: RunIds \cup {None}, code: Codes]

\* execute() needs an artifact of an earlier run only in these single-component runs.
ArtifactNeeded(scope) ==
  IF scope = <<"rancher">> THEN {"local-rke2"}
  ELSE IF scope = <<"downstream">> THEN {"rancher"} ELSE {}

ScopeOf(r) == PlanOf[origin[r].req.plan].scope
DigestOf(r) == origin[r].req.digest
HasRow(r) == status[r] # "ABSENT"
IsWorkflow(r) == origin[r].req.tool = "start_workflow"

-----------------------------------------------------------------------------
(* Admission: what start_run and start_workflow check, in their order.     *)

\* Bug: the last moment is let in.
ExpiredLate(expires, t) == expires < t

\* The comparison of an expires_at with the clock, as both admissions make it.
Expired(expires, t) == expires <= t

PlanRefusal(q, t) ==
  IF q.plan \notin Plans THEN "NOT_FOUND"
  ELSE IF PlanOf[q.plan].digest # q.digest THEN "CONFIG_MISMATCH"
  ELSE IF Expired(PlanOf[q.plan].expires, t) THEN "EXPIRED"
  ELSE "OK"

\* Bug: any PASSED preflight of the same configuration does.
PreflightRefusalAnyPlan(q, t) ==
  IF q.preflight \notin Preflights THEN "NOT_FOUND"
  ELSE LET f == PreflightOf[q.preflight] IN
       IF f.digest # q.digest THEN "PREFLIGHT_MISMATCH"
       ELSE IF f.state # "PASSED" \/ Expired(f.expires, t) THEN "PREFLIGHT_REQUIRED"
       ELSE "OK"

PreflightRefusal(q, t) ==
  IF q.preflight \notin Preflights THEN "NOT_FOUND"
  ELSE LET f == PreflightOf[q.preflight] IN
       IF f.plan # q.plan \/ f.digest # q.digest THEN "PREFLIGHT_MISMATCH"
       ELSE IF f.state # "PASSED" \/ Expired(f.expires, t) THEN "PREFLIGHT_REQUIRED"
       ELSE "OK"

ApprovalRefusal(q, scopes) ==
  IF PlanOf[q.plan].scope \notin scopes THEN "UNSUPPORTED_SCOPE"
  ELSE IF q.approval # q.plan THEN "APPROVAL_REQUIRED"
  ELSE "OK"

ReadyRefusal(ready) == IF ready THEN "OK" ELSE "EXECUTION_BACKEND_UNAVAILABLE"
ConfigRefusal(q) == IF q.digest \in Configs THEN "OK" ELSE "NOT_FOUND"

\* The first check of the sequence that refuses decides the reply.
First(codes) ==
  IF \E i \in DOMAIN codes : codes[i] # "OK"
  THEN codes[CHOOSE i \in DOMAIN codes :
               codes[i] # "OK" /\ \A j \in 1..(i - 1) : codes[j] = "OK"]
  ELSE "OK"

\* start_run reads the plan and checks everything about it before the preflight;
\* start_workflow leaves scope and approval until the preflight has been checked.
RunPlanCheck(q, t) ==
  IF PlanRefusal(q, t) # "OK" THEN PlanRefusal(q, t)
  ELSE ApprovalRefusal(q, SingleScopes)
RunPreflightCheck(q, t, ready) ==
  First(<<PreflightRefusal(q, t), ReadyRefusal(ready), ConfigRefusal(q)>>)
WorkflowPlanCheck(q, t) == PlanRefusal(q, t)
WorkflowPreflightCheck(q, t, ready) ==
  First(<<PreflightRefusal(q, t), ConfigRefusal(q),
          ApprovalRefusal(q, WorkflowScopes), ReadyRefusal(ready)>>)

-----------------------------------------------------------------------------
(* Tool calls.                                                             *)

At(h, p) == call[h].pc = p
\* The call goes on at p, with the run it has drawn and the artifact it has found.
Proceed(h, p, r, s) ==
  call' = [call EXCEPT ![h] =
             [pc |-> p, for |-> call[h].for, run |-> r, source |-> s, code |-> "NONE"]]
GoTo(h, p) == Proceed(h, p, call[h].run, call[h].source)
ReplyError(h, code) == call' = [call EXCEPT ![h] = Idle(code)] /\ UNCHANGED acked
ReplyRun(h, r) ==
  /\ call' = [call EXCEPT ![h] = Idle("OK")]
  /\ acked' = acked \cup {[key |-> call[h].for.key, req |-> call[h].for.req, run |-> r]}

\* Bound of the model: a call is taken only while run ids are left for every call
\* that may still create a row.  A call whose key has a row creates none.
Unsaved == {"lookup", "plan", "preflight", "artifact", "save_run"}
RunIdLeft(k) ==
  \/ keys[k] # None
  \/ Cardinality({h \in Handlers : call[h].pc \in Unsaved})
       < Cardinality({r \in RunIds : ~HasRow(r)})

\* A client calls the tool; the worker thread enters the handler.
Receive(h, k, q) ==
  /\ At(h, "idle") /\ RunIdLeft(k)
  /\ call' = [call EXCEPT ![h] = [pc |-> "lookup",
                                  for |-> [key |-> k, req |-> q, asked |-> now],
                                  run |-> None, source |-> None, code |-> "NONE"]]
  /\ UNCHANGED <<now, rows, acked, threads, source, limits>>

\* get_idempotency_key, and the comparison of the request fingerprints.
GetIdempotencyKey(h) ==
  /\ At(h, "lookup")
  /\ LET found == keys[call[h].for.key] IN
       \/ found = None /\ GoTo(h, "plan") /\ UNCHANGED acked
       \/ /\ found # None /\ found.req # call[h].for.req
          /\ ReplyError(h, "IDEMPOTENCY_CONFLICT")
       \/ /\ found # None /\ found.req = call[h].for.req
          /\ Proceed(h, "replay", found.run, None)
          /\ UNCHANGED acked
  /\ UNCHANGED <<now, rows, threads, source, limits>>

\* Bug: a replay that finds the run still queued submits it again.
ReplayRunResubmits(h) ==
  /\ At(h, "replay") /\ HasRow(call[h].run)
  /\ IF status[call[h].run] = "QUEUED"
     THEN GoTo(h, "submit") /\ UNCHANGED acked
     ELSE ReplyRun(h, call[h].run)
  /\ UNCHANGED <<now, rows, threads, source, limits>>

\* The replay reads the run the key names and replies with it.
ReplayRun(h) ==
  /\ At(h, "replay")
  /\ IF HasRow(call[h].run)
     THEN ReplyRun(h, call[h].run)
     ELSE ReplyError(h, "INTERNAL_ERROR")
  /\ UNCHANGED <<now, rows, threads, source, limits>>

ValidatePlan(h) ==
  /\ At(h, "plan")
  /\ LET q == call[h].for.req
         code == IF q.tool = "start_run" THEN RunPlanCheck(q, now)
                                         ELSE WorkflowPlanCheck(q, now)
     IN IF code = "OK" THEN GoTo(h, "preflight") /\ UNCHANGED acked
                       ELSE ReplyError(h, code)
  /\ UNCHANGED <<now, rows, threads, source, limits>>

\* Executors are ready while known_hosts is mounted and the assets are there.
ValidatePreflight(h) ==
  /\ At(h, "preflight")
  /\ \E ready \in BOOLEAN :
       LET q == call[h].for.req
           code == IF q.tool = "start_run" THEN RunPreflightCheck(q, now, ready)
                                           ELSE WorkflowPreflightCheck(q, now, ready)
       IN IF code # "OK" THEN ReplyError(h, code)
          ELSE /\ IF ArtifactNeeded(PlanOf[q.plan].scope) = {}
                  THEN GoTo(h, "save_run") ELSE GoTo(h, "artifact")
               /\ UNCHANGED acked
  /\ UNCHANGED <<now, rows, threads, source, limits>>

\* The runs latest_succeeded_component_run may return.  Which of them is the
\* newest is the subject of ArtifactLookup.tla; here it is any of them.
SucceededRuns(d, component) ==
  {r \in RunIds : /\ status[r] = "SUCCEEDED" /\ DigestOf(r) = d
                  /\ \E i \in DOMAIN ScopeOf(r) : ScopeOf(r)[i] = component}

\* Bug: the state of the run is not looked at.
FindArtifactOfAnyRun(h) ==
  /\ At(h, "artifact")
  /\ \E s \in RunIds :
       /\ HasRow(s) /\ DigestOf(s) = call[h].for.req.digest
       /\ Proceed(h, "save_run", None, s)
  /\ UNCHANGED <<now, rows, acked, threads, source, limits>>

FindArtifact(h) ==
  /\ At(h, "artifact")
  /\ \E component \in ArtifactNeeded(PlanOf[call[h].for.req.plan].scope) :
       LET found == SucceededRuns(call[h].for.req.digest, component) IN
       \/ found = {} /\ ReplyError(h, "ARTIFACT_REQUIRED")
       \/ \E s \in found :
            /\ Proceed(h, "save_run", None, s)
            /\ UNCHANGED acked
  /\ UNCHANGED <<now, rows, threads, source, limits>>

\* Bug: the row of the run is left for after the key.
SaveRunLate(h) ==
  /\ At(h, "save_run")
  /\ \E r \in RunIds : ~HasRow(r) /\ Proceed(h, "save_key", r, call[h].source)
  /\ UNCHANGED <<now, rows, acked, threads, source, limits>>

\* A fresh run id (a time stamp and twelve random digits), then INSERT INTO runs.
SaveRun(h) ==
  /\ At(h, "save_run")
  /\ \E r \in RunIds :
       /\ ~HasRow(r)
       /\ status' = [status EXCEPT ![r] = "QUEUED"]
       /\ origin' = [origin EXCEPT ![r] = call[h].for]
       /\ Proceed(h, "save_key", r, call[h].source)
  /\ UNCHANGED <<now, keys, events, acked, threads, source, limits>>

\* Bug: INSERT OR REPLACE, the last of two racing calls wins.
SaveIdempotencyKeyReplaces(h) ==
  /\ At(h, "save_key")
  /\ LET o == call[h].for IN
       keys' = [keys EXCEPT ![o.key] = [req |-> o.req, run |-> call[h].run]]
  /\ GoTo(h, "append_event")
  /\ UNCHANGED <<now, status, origin, events, acked, threads, source, limits>>

\* INSERT INTO idempotency_keys: the key is the primary key, so a second row for
\* it raises IntegrityError, which no handler catches.
SaveIdempotencyKey(h) ==
  /\ At(h, "save_key")
  /\ LET o == call[h].for IN
       \/ /\ keys[o.key] = None
          /\ keys' = [keys EXCEPT ![o.key] = [req |-> o.req, run |-> call[h].run]]
          /\ GoTo(h, "append_event") /\ UNCHANGED acked
       \/ keys[o.key] # None /\ ReplyError(h, "EXCEPTION") /\ UNCHANGED keys
  /\ UNCHANGED <<now, status, origin, events, threads, source, limits>>

AppendQueuedEvent(h) ==
  /\ At(h, "append_event")
  /\ events' = [events EXCEPT ![call[h].run] = Append(@, "QUEUED")]
  /\ GoTo(h, "submit")
  /\ UNCHANGED <<now, status, origin, keys, acked, threads, source, limits>>

\* Bug: a pool of one thread that drops what it has no room for.
SubmitWhenIdle(h) ==
  /\ At(h, "submit")
  /\ job' = IF \E r \in RunIds : job[r] \notin {"none", "done", "dead"}
            THEN job ELSE [job EXCEPT ![call[h].run] = "starting"]
  /\ source' = [source EXCEPT ![call[h].run] = call[h].source]
  /\ ReplyRun(h, call[h].run)
  /\ UNCHANGED <<now, rows, executions, outcome, limits>>

\* submit() starts the run's thread with the configuration; the call returns.
Submit(h) ==
  /\ At(h, "submit")
  /\ job' = [job EXCEPT ![call[h].run] = "starting"]
  /\ source' = [source EXCEPT ![call[h].run] = call[h].source]
  /\ ReplyRun(h, call[h].run)
  /\ UNCHANGED <<now, rows, executions, outcome, limits>>

\* A store call raises (the database stays locked for ten seconds, the disk is
\* full), or the thread cannot be started: the tool call ends with the exception.
CallRaises(h) ==
  /\ ~At(h, "idle") /\ faults < MaxFaults
  /\ faults' = faults + 1
  /\ ReplyError(h, "EXCEPTION")
  /\ UNCHANGED <<now, rows, threads, source, crashes>>

-----------------------------------------------------------------------------
(* The run's thread: _run_and_report of the executors for start_run, and    *)
(* _run_workflow, seen from outside its stages, for start_workflow.         *)

JobAt(r, p) == job[r] = p
JobTo(r, p) == job' = [job EXCEPT ![r] = p]

\* _mark_component_run_started persists the start of a run that is still queued;
\* _set_workflow_component does so for a workflow's first component regardless.
MarkStarted(r) ==
  /\ JobAt(r, "starting")
  /\ IF IsWorkflow(r) \/ status[r] = "QUEUED"
     THEN status' = [status EXCEPT ![r] = "RUNNING"] /\ JobTo(r, "log_started")
     ELSE JobTo(r, "ready") /\ UNCHANGED status
  /\ UNCHANGED <<now, origin, keys, events, call, acked, source, executions, outcome, limits>>

LogStarted(r) ==
  /\ JobAt(r, "log_started")
  /\ events' = [events EXCEPT ![r] = Append(@, "STARTED")]
  /\ JobTo(r, "ready")
  /\ UNCHANGED <<now, status, origin, keys, call, acked, source, executions, outcome, limits>>

BeginExecute(r) ==
  /\ JobAt(r, "ready")
  /\ executions' = [executions EXCEPT ![r] = @ + 1]
  /\ JobTo(r, "executing")
  /\ UNCHANGED <<now, rows, call, acked, source, outcome, limits>>

\* The remote runner ends with exit status 0, or execute() raises.
EndExecute(r) ==
  /\ JobAt(r, "executing")
  /\ \E result \in {"succeeded", "failed"} :
       /\ outcome' = [outcome EXCEPT ![r] = result]
       /\ JobTo(r, result)
  /\ UNCHANGED <<now, rows, call, acked, source, executions, limits>>

\* Bug: the event is appended before the row is updated.
CompleteEventFirst(r) ==
  /\ \/ JobAt(r, "succeeded") /\ events' = [events EXCEPT ![r] = Append(@, "SUCCEEDED")]
     \/ JobAt(r, "failed") /\ events' = [events EXCEPT ![r] = Append(@, "FAILED")]
  /\ JobTo(r, "log_end")
  /\ UNCHANGED <<now, status, origin, keys, call, acked, source, executions, outcome, limits>>

\* on_complete: the run takes its final state ...
Complete(r) ==
  /\ \/ JobAt(r, "succeeded") /\ status' = [status EXCEPT ![r] = "SUCCEEDED"]
     \/ JobAt(r, "failed") /\ status' = [status EXCEPT ![r] = "FAILED"]
  /\ JobTo(r, "log_end")
  /\ UNCHANGED <<now, origin, keys, events, call, acked, source, executions, outcome, limits>>

\* Bug: the event carries the executor's word for the end instead of the run's state.
LogEndOutcome(r) ==
  /\ JobAt(r, "log_end")
  /\ events' = [events EXCEPT ![r] = Append(@, outcome[r])]
  /\ JobTo(r, "done")
  /\ UNCHANGED <<now, status, origin, keys, call, acked, source, executions, outcome, limits>>

\* ... and then the event that names it.
LogEnd(r) ==
  /\ JobAt(r, "log_end")
  /\ events' = [events EXCEPT ![r] = Append(@, status[r])]
  /\ JobTo(r, "done")
  /\ UNCHANGED <<now, status, origin, keys, call, acked, source, executions, outcome, limits>>

\* Bug: on_complete sits in the try block, so a report that raises is reported again.
JobRaisesReportsTwice(r) ==
  /\ faults < MaxFaults /\ faults' = faults + 1
  /\ job[r] \in {"starting", "log_started", "succeeded", "log_end"}
  /\ JobTo(r, "failed")
  /\ UNCHANGED <<now, rows, call, acked, source, executions, outcome, crashes>>

\* A store call of the thread raises.  Before execute(), a component run's thread
\* reports failure; anywhere else the exception ends the thread.
JobRaises(r) ==
  /\ faults < MaxFaults /\ faults' = faults + 1
  /\ \/ /\ job[r] \in {"starting", "log_started"}
        /\ JobTo(r, IF IsWorkflow(r) THEN "dead" ELSE "failed")
     \/ /\ \/ job[r] \in {"succeeded", "failed", "log_end"}
           \/ JobAt(r, "executing") /\ IsWorkflow(r)
        /\ JobTo(r, "dead")
  /\ UNCHANGED <<now, rows, call, acked, source, executions, outcome, crashes>>

-----------------------------------------------------------------------------
(* The environment.                                                        *)

Tick ==
  /\ now < MaxTime /\ now' = now + 1
  /\ UNCHANGED <<rows, call, acked, threads, source, limits>>

\* Bug: a start-up routine that puts interrupted runs back into the queue.
CrashRequeues ==
  /\ crashes < MaxCrashes /\ crashes' = crashes + 1
  /\ call' = [h \in Handlers |-> Idle("NONE")]
  /\ job' = [r \in RunIds |-> IF job[r] \in {"none", "done"} THEN job[r] ELSE "dead"]
  /\ status' = [r \in RunIds |-> IF status[r] = "RUNNING" THEN "QUEUED" ELSE status[r]]
  /\ UNCHANGED <<now, origin, keys, events, acked, source, executions, outcome, faults>>

\* The process stops and is started again: calls and daemon threads are gone.
Crash ==
  /\ crashes < MaxCrashes /\ crashes' = crashes + 1
  /\ call' = [h \in Handlers |-> Idle("NONE")]
  /\ job' = [r \in RunIds |-> IF job[r] \in {"none", "done"} THEN job[r] ELSE "dead"]
  /\ UNCHANGED <<now, rows, acked, source, executions, outcome, faults>>

Init ==
  /\ now = 0
  /\ status = [r \in RunIds |-> "ABSENT"]
  /\ origin = [r \in RunIds |-> None]
  /\ keys = [k \in Keys |-> None]
  /\ events = [r \in RunIds |-> <<>>]
  /\ call = [h \in Handlers |-> Idle("NONE")]
  /\ acked = {}
  /\ job = [r \in RunIds |-> "none"]
  /\ source = [r \in RunIds |-> None]
  /\ executions = [r \in RunIds |-> 0]
  /\ outcome = [r \in RunIds |-> "none"]
  /\ faults = 0 /\ crashes = 0

CallStep(h) ==
  \/ GetIdempotencyKey(h) \/ ReplayRun(h) \/ ValidatePlan(h) \/ ValidatePreflight(h)
  \/ FindArtifact(h) \/ SaveRun(h) \/ SaveIdempotencyKey(h)
  \/ AppendQueuedEvent(h) \/ Submit(h)

JobStep(r) ==
  \/ MarkStarted(r) \/ LogStarted(r) \/ BeginExecute(r) \/ EndExecute(r)
  \/ Complete(r) \/ LogEnd(r)

Next ==
  \/ \E h \in Handlers, k \in Keys, q \in Requests : Receive(h, k, q)
  \/ \E h \in Handlers : CallStep(h) \/ CallRaises(h)
  \/ \E r \in RunIds : JobStep(r) \/ JobRaises(r)
  \/ Tick
  \/ Crash

Spec == Init /\ [][Next]_vars

\* Worker and background threads are scheduled.  For EndExecute it is assumed that
\* the remote runner ends and that the SSH transport reports it: the code waits for
\* the exit status without a time limit (executor.py:167).
Fairness ==
  /\ \A h \in Handlers : WF_vars(CallStep(h))
  /\ \A r \in RunIds : WF_vars(JobStep(r))

FairSpec == Spec /\ Fairness

-----------------------------------------------------------------------------
(* Properties.                                                             *)

\* Every variable stays within the values the code can give it.
TypeOK ==
  /\ now \in 0..MaxTime
  /\ status \in [RunIds -> States]
  /\ origin \in [RunIds -> Origins \cup {None}]
  /\ keys \in [Keys -> [req: Requests, run: RunIds] \cup {None}]
  /\ events \in [RunIds -> Seq(EventTypes)]
  /\ call \in [Handlers -> Calls]
  /\ acked \subseteq [key: Keys, req: Requests, run: RunIds]
  /\ job \in [RunIds -> JobPositions]
  /\ source \in [RunIds -> RunIds \cup {None}]
  /\ executions \in [RunIds -> Nat]
  /\ outcome \in [RunIds -> {"none", "succeeded", "failed"}]
  /\ faults \in 0..MaxFaults /\ crashes \in 0..MaxCrashes

\* Ok replies to one key name one run and answer one request, whichever calls raced
\* and however often the process restarted (service.py:475-500, 591-620).
RepliesAgree ==
  \A a, b \in acked : a.key = b.key => a = b

\* Among all the runs ever created under one key, at most one is ever handed to
\* the control host, and only once: rows a lost race or a crash left behind are
\* never executed (service.py:785-801).
OneExecutionPerKey ==
  /\ \A r \in RunIds : executions[r] <= 1
  /\ \A r, s \in RunIds :
       executions[r] > 0 /\ executions[s] > 0 /\ origin[r].key = origin[s].key => r = s

\* A row of idempotency_keys names a run that exists and that was created for this
\* very key and request.  SQLite does not enforce the foreign key of the schema
\* here; the order of the two inserts must (service.py:785-786).
KeyNamesItsRun ==
  \A k \in Keys : keys[k] # None =>
    LET r == keys[k].run IN
    HasRow(r) /\ origin[r].key = k /\ origin[r].req = keys[k].req

\* Whatever has a row was approved: the plan's own approval text, the plan's
\* digest, a PASSED preflight of that plan and digest, and a scope the tool takes.
RunsAreApproved ==
  \A r \in RunIds : HasRow(r) =>
    LET q == origin[r].req
        f == PreflightOf[q.preflight]
    IN /\ q.approval = q.plan /\ PlanOf[q.plan].digest = q.digest /\ q.digest \in Configs
       /\ f.state = "PASSED" /\ f.plan = q.plan /\ f.digest = q.digest
       /\ PlanOf[q.plan].scope \in IF q.tool = "start_run" THEN SingleScopes ELSE WorkflowScopes

\* No call that arrives once its plan or preflight has expired creates a run.
\* (A run may still start after the expiry: the clock is read once, on admission.)
NoLateAdmission ==
  \A r \in RunIds : HasRow(r) =>
    /\ origin[r].asked < PlanOf[origin[r].req.plan].expires
    /\ origin[r].asked < PreflightOf[origin[r].req.preflight].expires

\* A run whose execution reuses an artifact names a run of the same configuration
\* that succeeded with the component it needs, and goes on having succeeded.
ArtifactIsThere ==
  \A r \in RunIds : executions[r] > 0 =>
    \A component \in ArtifactNeeded(ScopeOf(r)) :
      source[r] # None /\ source[r] \in SucceededRuns(DigestOf(r), component)

\* The state of a run tells how its execution ended: success is reported only after
\* execute() returned, and a run whose execution succeeded is never reported failed,
\* also when a store call of the report raises (executor.py:115-122).
StateTellsOutcome ==
  \A r \in RunIds :
    /\ status[r] = "SUCCEEDED" => outcome[r] = "succeeded"
    /\ status[r] = "FAILED" => outcome[r] # "succeeded"

\* A reader of the event stream is never ahead of the run: the log of a run is
\* QUEUED, STARTED and its end, each at most once and in this order, and what it
\* says has already been written to the row.
EventsFollowState ==
  \A r \in RunIds :
    /\ events[r] # <<>> => events[r][1] = "QUEUED"
    /\ \A i \in DOMAIN events[r] :
         /\ events[r][i] \in Terminal => status[r] = events[r][i] /\ i = Len(events[r])
         /\ events[r][i] = "QUEUED" => i = 1
         /\ events[r][i] = "STARTED" => i = 2 /\ status[r] # "QUEUED"

\* A run that has ended stays as it is, and no run goes back to the queue.
EndIsFinal ==
  [][\A r \in RunIds :
       /\ status[r] \in Terminal => status'[r] = status[r]
       /\ HasRow(r) => status'[r] # "QUEUED" \/ status[r] = "QUEUED"]_vars

\* Unless a store call raises or the process stops, a run the client was told of
\* comes to an end.
AckedRunsEnd ==
  \A r \in RunIds : (\E a \in acked : a.run = r)
                      ~> (status[r] \in Terminal \/ faults > 0 \/ crashes > 0)

\* What a client relies on, without the calls, threads and faults: RunContract.tla.
Contract == INSTANCE RunContract WITH
  owner <- [r \in RunIds |-> IF HasRow(r) THEN origin[r].key ELSE None],
  bound <- [k \in Keys |-> IF keys[k] = None THEN None ELSE keys[k].run],
  begun <- executions

\* Every behaviour of the service, with its races, faults and restarts, is one the
\* contract allows.
ImplementsContract == Contract!Spec

\* The contract: the same key with the same request returns the same run_id
\* (server-contract/README.md:57).  So a call must not end in an exception of its
\* own making while its key is bound to the very request it carries.
SameRequestSameRun ==
  [][\A h \in Handlers :
       (call'[h].code = "EXCEPTION" /\ call[h].for # None /\ faults' = faults)
         => (keys[call[h].for.key] # None => keys[call[h].for.key].req # call[h].for.req)]_vars
=============================================================================
