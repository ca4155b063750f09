# Rancher RKE2 MCP server: TLA+ models and proofs

The repository holds an MCP server that plans, checks and carries out the
installation of a Rancher/RKE2 platform, and an editor plugin that is one of its
clients. The server is small, and hard in the way such servers are: tool calls
are served concurrently, every store call is a transaction of its own, each
accepted run gets a daemon thread that lives as long as the process does, and
clients repeat calls whose answers they lost. This directory models that server,
the tables, threads and clock it depends on, the control host it drives, and what two
of its runners do there to the cache, the servers and the Rancher they share.

Below, `service.py` and the other short names are files of
`src/rancher-rke2-mcp-server/src/rancher_rke2_mcp/`.

## The system

| component | state it keeps | operations | talks to |
|---|---|---|---|
| run service, `service.py:462-806` | tables `runs`, `idempotency_keys`, `run_events` (`storage.py`) | `start_run`, `start_workflow`, `get_run` | reads plans, preflights, configurations; starts a thread per run |
| executor threads, `executor.py` | one daemon thread per run; nothing persistent | `submit`, `_run_and_report`, `_run` (SSH upload, remote runner, exit status) | calls back into the run service (`on_started`, `on_complete`); control host over SSH |
| workflow thread, `service.py:914-1219` | `component_states` and `runbook` of its run | stages, readiness wait, skipping of dependants, manual | executors in turn, TCP probes, `render_runbook`, event stream |
| planning, `service.py:196-302` | tables `validated_configs`, `plans` | `validate_config`, `build_plan`, `get_plan` | |
| preflight, `service.py:304-406`, `preflight.py` | table `preflights` | `preflight_plan`, `get_preflight` | Secrets, control host, nodes, vSphere, registry, proxy |
| event stream, `storage.py:260-296` | table `run_events` | `append_run_event`, `get_run_events` | polled by clients |
| artifact lookup, `storage.py:192-222` | none, reads `runs` | `latest_succeeded_component_run` | called on admission |
| runbook, `runbook.py` | a file per plan | `render_runbook` | workflow thread, client |
| validation, secrets, auth, redaction, tool registration | none | filters on one call | |
| runner scripts, `assets/*/*-runner.sh` | containers, terraform state and logs on the control host | one shell entry point per component | started by executors over SSH |
| local RKE2, `assets/local-rke2` | one artifact cache with its manifest; RKE2, `config.yaml` and service of each server | download, verification, role per server | download site, nodes |
| downstream, `assets/downstream` | token checkpoint and terraform state per run; `server-url`, clusters and tokens in Rancher; agents on the nodes | token, cluster, registration in batches, count | Rancher, nodes |
| other caches and playbooks: chart, enterprise and provider caches, node-init, rancher | cache directories and manifests | one script or role each | registries, nodes |
| plugin hooks | one status file of the last audit | `pre_mcp_mutation`, `post_mcp_audit`, `verify_completion` | the editor's agent |

What is hard in it:

* **Races of equal calls.** The key is looked up in one transaction
  (`service.py:591`) and inserted in another (`service.py:786`), with the row of
  the run in between.
* **Crashes.** `compose.yaml` restarts the process. Rows stay, threads do not,
  and nothing at start-up looks at the rows.
* **Partial failure.** Run, key, event and thread of a call are four steps; the
  state of a run and the event about it are two transactions; a report may raise
  after `execute()` has succeeded.
* **Retries** with a key whose first call is still at any of its steps.
* **Clocks.** Expiry is compared once, in several copies of the code; a
  preflight takes minutes; `created_at` is text whose form varies.
* **Waiting** for nodes that come and go while they are probed in turn, for an exit
  status without a limit, and for services that start only when a later node is there.
* **Shared places.** Runs share a container name, a cache directory with one `.part`
  name per file, the servers of a cluster and one Rancher, and nothing keeps them apart.

`PROJECT.json` lists these hazards line by line, with the properties about them.

## The modules

| module | models | checked by |
|---|---|---|
| `RunService` | both mutating tools call by call, the tables they write, the thread of each run, faults and restarts | `run_service_*` |
| `RunContract` | what a client may rely on: keys, runs and executions only | refined by `RunService` |
| `RunServiceProofs` | type correctness of `RunService`, its safety, that it implements `RunContract`, what it admits, and that nothing it started is dropped | TLAPS |
| `Workflow` | `_run_workflow` with its helpers, the readiness wait and the manual | `workflow_*` |
| `Pipeline` | the ordered pipeline a client approved | refined by `Workflow` |
| `WorkflowProofs` | the invariants of `Workflow`, that it implements `Pipeline`, that its thread is one run of `RunContract` and has finitely many steps | TLAPS |
| `Planning` | tables of configurations, plans and preflights, preflights that take time | `planning_tables` |
| `PlanningProofs` | what the rows of the tables hold and how long they are good | TLAPS |
| `EventCursor` | paging through the event table while runs append | `event_cursor_paging` |
| `EventCursorProofs` | that pages join up to the events of the run, and each poll advances | TLAPS |
| `ArtifactLookup` | the lookup over a table others write, and the order of time texts | `artifact_lookup_newest` |
| `ArtifactLookupProofs` | what the lookup does promise where "newest" is refuted | TLAPS |
| `ControlHost` | `_run` of the five executors, the SSH connection, and the runner scripts on a control host they share | `control_host` |
| `ControlHostProofs` | the inductive invariant of `ControlHost`, its safety, and that executions run out of steps | TLAPS |
| `Rke2Artifacts` | the artifact cache of the control host and the script that fills it | through `LocalRke2` |
| `LocalRke2` | the role that installs and joins the servers one by one from that cache | `local_rke2` |
| `LocalRke2Proofs` | the inductive invariant of both and its safety | TLAPS |
| `RancherToken` | `server-url` and the API token with its checkpoint | through `Downstream` |
| `Downstream` | cluster, registration in batches and the count, of runs that share nodes and a Rancher | `downstream*` |
| `DownstreamProofs` | the inductive invariant of both and its safety | TLAPS |

The `MC*` modules give the constants values for TLC.

**How they fit.** `Planning` fills the tables that `RunService` takes as constants: rows
of `plans`, `preflights` and `validated_configs` are never updated or deleted, so a row
that appears during a behaviour is the same as a row no call has named yet, and only the
comparison with the clock varies. `RunService` keeps of a workflow what its thread does
to the run as a whole; `Workflow` opens that thread and takes a queued run as its
initial state. `RunService.FindArtifact` picks any run the lookup may return; which one
that is is the subject of `ArtifactLookup`. The step from `BeginExecute` to `EndExecute`
(in `Workflow`, from `Execute` to `ExecuteEnds`) is what `ControlHost` opens: its
`thread` ends in `succeeded` or `raised`, which are the two outcomes there. `LocalRke2`
opens the commands `artifacts` and `playbook` of the local-rke2 script of `ControlHost`,
and `Downstream` the token, cluster, registration and playbook commands of the
downstream script; what interrupts a script there is `Cut` here. `EventCursor` reads
what `AppendQueuedEvent`, `LogStarted`, `LogEnd` and the `Log*` steps of `Workflow`
append.

### RunService and the code

`call[h]` is what worker thread `h` is serving: `pc` names the store call it is
about to make, `for` the arguments and arrival time, `run` and `source` the local
variables. One action is the code between two store calls, so calls interleave at
every transaction border and nowhere else. The two tools share their shape and
differ in the order of their checks; `RunPlanCheck`/`RunPreflightCheck` and
`WorkflowPlanCheck`/`WorkflowPreflightCheck` keep both orders, and the code each
refusal replies with. `SaveIdempotencyKey` has the branch in which the primary key
is taken: SQLite raises, no handler catches, the row of the run stays. `job[r]` is
the position of the run's thread; `JobRaises` distinguishes a component run, whose
thread reports a failure of `on_started` as a failed run (`executor.py:106-122`),
from a workflow, whose thread ends with the exception. `_mark_component_run_started`
and `_complete_component_run` read the row and write it back: since a run's row is
written only by the run's own thread once it exists, the pair is one step. The
variables `acked`, `executions`, `outcome` and `origin` are history for the
properties; `origin[r].asked` is the arrival time of the creating call.

Concurrency of tool calls rests on the server library: synchronous tools of the
MCP server run on worker threads. `Handlers` is their number; with one handler the
races disappear and everything proved still holds.

### Workflow and the code

`pc` and `stage` are the position in `_run_workflow`: the loop over the components
is unrolled in the code as five near copies and is one set of actions here. A probe
round is a step per node, because each TCP probe has its own moment: a round passes
when every node answered in that round. The deadline is looked at between rounds
only, so `RoundFails` may end the wait after any round and must after
`WaitRounds`. `Render` models `render_runbook` by when it refuses, what it reports
and when the file is written. An expired plan does not fail the run, it leaves the
run without a manual.

### Planning, EventCursor, ArtifactLookup and the code

`NormalizeComponents` is given the names after they were stripped and lowercased, and
`Selected` is its comprehension over the component order.
`Probe` performs one check at its own moment; `Listed` and `Skips` say which checks
a plan has and which are deferred. A preflight that raises or is cut off leaves no
row. `EventCursor` keeps integers where the code does (`PageLimit` of a limit
below one; SQLite takes a negative limit as none); `ORDER BY event_id` is `Ascending`, the
k-th smallest id at position k, and what a reader pages through is a set of ids in that
order. `ArtifactLookup` compares
`created_at` the way SQLite does: as texts, one of which may lack its decimals.

### ControlHost and the code

`thread`, `link`, `sent` and `status` are the server's side of an execution: the
position in `_run`, the connection, how much of the bundle was put, the exit status
`recv_exit_status` has returned. `phase` and `at` are the runner's: how the script
stands and at which command it is. The scripts are tuples of their commands, because
`set -e` makes a script the list of its commands up to the first that fails; a command
with an effect on something shared has an action of its own (`Inspect`, `Start`,
`Remove`, `Recheck`, `Create`, `Probe`, `Ping`, `AddressesFree`, `CloneMachine`,
`Verify`), the others end well (`CommandEnds`) or not (`CommandFails`). `unread` is the output in the
channel, in units: `run-logged.sh` copies everything a command writes to it, and once
`Window` units are there the command waits (`CommandStalls`), because the executors
read only after the exit status has come. `container` is what has the
configured name: whose it is, by its label, and whether it runs. Removing it ends what
runs inside (`EndsInside`): a script that was cut is over, one that is still there sees
its command fail, or is between two commands and goes on.

Others use docker on the same host at any time (`OthersAct`): they remove what has the
name, ours included, and run or create a container of their own when it is free. A runner
reads the label once (`Inspect`, `vm-runner.sh:29`). `docker start`, `docker rm -f`, the
second inspect and every `docker exec` go by the name alone, so a container of others
that takes the name after that check is started, removed or entered, and the model has
these behaviours. `OthersOnlyIfFreed` says how far they go: it takes a name that was free
at or after the check of the very run that does it, which the history `freed` records.

A connection that is lost cuts the script at its next write, and leaves a
`terraform apply` that is writing nothing at work (`CloneMachine` in phase `cut`).
`machines[a]` are the machines at an address by the run that made them, others
included; two runs are two directories, two terraform states, two sets of machines, and
a machine answers pings unless its address is in `Silent`. Others make machines at the
addresses in `Strangers`. `taken` is history.

Host keys, Secrets, the connection, an upload and a read may raise (`Raises`), and a
connection may be lost (`LoseLink`); both count as faults.

### LocalRke2 and the code

`at[r]` is the position of run `r` in `prepare-rke2-artifacts.sh` and then in the role
`local_rke2`; the playbook is `serial: 1`, so `host[r]` is the one server it is at. The
cache is one directory for all runs, and its file names carry no version: `part` and
`cached` hold a file by the release in it, by who still writes it, and by whether a
writer died on it. A descriptor stays with its file when another run renames it, so
`Move` may put a file in place that somebody is still writing, and a file two runs wrote
different releases into is `Mixed`. `Verifies` is what the two `sha256sum` checks and the
one inside `install.sh` have in common. `RenderConfig` gives each server the token of
this run, whatever it had; `Install` and `StartServer` do nothing where RKE2 is
installed and the service runs. The role compares versions by looking for the approved
name in what `rke2 --version` says (`main.yml:129`, `272`): `Shows` holds for the release
itself and for one whose name contains it (`PartOf`), as `+rke2r10` contains `+rke2r1`. A
run that succeeded may therefore have installed such a release where another run filled
the cache meanwhile, and `InstalledAsApproved` promises no more than the role looks at.
That the pods of etcd and Cilium run before the nodes are counted is RKE2's affair: where
they do not, the task fails like any other command, which is `Cut`. External are RKE2 (`ComesUp`: what a server does with
the token and `server:` it is given) and systemd (`ServiceRetries`). The instances hold
every order of configuration the program allows in which the servers are the same:
removing a server from the list is not modelled.

### Downstream and the code

`RancherToken` is `prepare-rancher-api-token.py` request by request: another run may
change `server-url` between its reading, setting and confirming. The checkpoint is two
files, and one without the other is refused. The terraform state is in the directory of
the run, which `recorded` says; names are Rancher's, which `owner` says. The playbook
takes the first control plane with the first worker, then one node at a time; within a
batch ansible's linear strategy finishes a task for all hosts before the next, and drops
a host that fails (`dropped`). External is Rancher: it brings nodes up once their cluster
has both roles (`BecomesActive`), and it does so within the ten minutes of the retries,
which is why `ServiceMissing` waits while a node is `Pending`. The last play
waits until both the nodes and the Ready nodes kubectl lists are as many as the
configuration has (`Counted`); a node that is registered and not Ready may be listed or
not.

A run ends in one of three ways short of success. It is `failed` when it finds by its own
checks that it cannot go on, `cut` when a request or command fails or the run is
interrupted, and `killed` when the runner dies with its host. Only a killed runner leaves
the `.dependency.env` it needs: in the other cases its EXIT trap has removed it, and a
runner without it ends at once (`downstream-runner.sh:19-21`). So only a killed run can
be started again in its directory (`Again`), which is where its checkpoints are used.
`alongside[r]` is history: the runs that have been under way at the same time as `r`.

## What the runs check

Bounds are in the `.cfg` files. In all of them each interesting case needs two
actors or two values, and the third only where an order among others matters.

| run | instance | question |
|---|---|---|
| `run_service_core` | 2 threads, 2 keys, both tools, 2 runs, one fault, one stop | one key is one run, executed once; rows, events and outcomes agree; the service implements `RunContract` |
| `run_service_admission` | 1 thread, 2 keys, 18 requests right and wrong, 2 runs, clock 0..1, fairness | nothing unapproved, expired or without its artifact is admitted, and a run the client was told of ends |
| `run_service_contract` | 2 threads, 1 key | finding 1 below |
| `workflow_thread` | all four scopes, 12 manual settings, 2 nodes, 2 rounds, 3 flaps, one fault, one stop, fairness | safety of the thread, refinement of `Pipeline`, and the verdict is reached |
| `workflow_manual` | two scopes | finding 2 |
| `event_cursor_paging` | 2 runs, 2 readers, limits -1, 0, 1 and above the page, 6 events, fairness | no gap, no duplicate, everything is read |
| `artifact_lookup_newest` | 3 runs, 2 ticks in a second | finding 3 |
| `planning_tables` | 1 plan, 2 preflights, lists in and out of order, one flap, clock 0..2 | plans are runnable and as asked; PASSED means answered; a current preflight has a current plan |
| `control_host` | a vm execution that wants 2 addresses and replaces the container under a node-init execution, window 1, one fault, strangers' machines at one of the addresses, containers of others at any time, fairness | a success is real; a failure is, unless something was lost; no machine is made where one answered; a container of others is met only if the name was free after the check; a thread ends, unless its runner has filled the channel |
| `local_rke2` | 2 runs, 3 servers, 2 releases, 2 first servers, online and offline, 2 faults, one name of a release part of the other | what a success installed shows the approved release, its servers are one cluster, and an undisturbed rerun does not fail |
| `downstream` | 2 runs, 5 nodes, 5 configurations with 2 names, 2 addresses of Rancher and nodes that change cluster and role, 3 faults | the count of the first node tells whose the nodes are; a run that cannot go on has met others or what a kill left half done; `server-url` is kept but between runs side by side |
| `downstream_nodes` | 2 runs, the same nodes under 2 names, no fault | finding 4 |

Two threads are enough for the races, since a race is between the two calls that
hold one key; two runs are one for each of them, and with two keys also one for
each key. One fault and one stop are placed at every step, and their combination
is covered; what a second of the same kind could add is what the proofs are for.
The admission run has one thread because admission reads only rows no other call
changes, and two runs because a rancher run needs the run that made its artifact; its
proofs cover any number of both. Symmetry is used among runs, keys, threads and digests
that the initial states and the requests do not tell apart, and never together with
fairness.

On the control host two executions are one to disturb and one to be disturbed; the
proofs cover more of them and the components the instance leaves out. The scripts
differ only in their commands, and the two executors that look at the status before they
read (`ChecksFirst`) are represented by node-init. Two vm executions that want the same
address are covered by the proofs only. Strangers make machines at one of the two
addresses, so that one may be taken while the other is not; containers of others come and
go at every step and without a bound.

Two runs of local RKE2 are enough for a run that downloads into what another has moved
into place, and two faults for a run cut short and a server that goes down behind it;
three servers are the number the code requires. Three faults downstream are a kill, a restart and another kill. Five nodes are two control
planes and three workers: a batch of each kind, and nodes to exchange.

`CHECK_DEADLOCK FALSE` is set where a service may stop: all run ids of the bound are
used, no call is open and no thread is left.

### Fairness

`RunService`: weak fairness of each worker thread and each run's thread: the operating
system schedules them and SQLite's lock is granted or raises after its ten seconds.
`EndExecute` is included, which assumes that the remote runner ends and that the
transport reports it; the code itself waits for the exit status without a limit
(`executor.py:167`), and `EndsUnlessStalled` of `ControlHost` says when that is enough.
Nothing is assumed of clients, clock, faults or stops, and the liveness properties ask
for an end only in behaviours without a fault or stop, because the code has no recovery:
a run interrupted by a restart stays `RUNNING`. `Workflow`: weak fairness of the thread
as a whole; no fairness of nodes. `ControlHost`: weak fairness of each thread and of
each script as a whole, so that a command ends well or not at some time and a lost
connection is noticed, which for TCP means that the peer or the kernel reports it; none
of faults and strangers. A script that was cut is owed nothing. `EventCursor`: each
reader goes on polling with some limit of its own, whatever else it asks for.
`LocalRke2`, `Downstream` and `Planning` state no fairness. Their waits all have retries
that run out, so what could go wrong is not that a run waits for ever but that it fails
where it should not: `RerunSucceeds` and `FailsForAReason` are invariants about that.

### Findings

1. **Equal calls that race** (`SameRequestSameRun`). Two calls with one key and one
   request that both find no row each save a run; the second insert into
   `idempotency_keys` raises, so one client gets an exception where the server
   contract (`server-contract/README.md:57`) promises the run id, and a `QUEUED` row
   stays that nothing will execute. The safety half of the promise holds: ok replies
   agree and only one run is executed (`RepliesAgree`, `OneExecutionPerKey`).
2. **A manual with findings is not recorded** (`ManualIsRecorded`). With findings
   `render_runbook` is not ok although the file is written, so the run gets neither
   path nor findings, and `WORKFLOW_RUNBOOK_AUDIT_FAILED` and `require_audit_pass`
   have no effect; the README of the server promises both.
3. **The newest run** (`ReturnsNewest`). Times are compared as texts, and a time
   whose microsecond is zero is written without decimals and sorts last in its second.
   The docstring (`storage.py:195`) says newest.
4. **Nodes of another cluster** (`RegistersEveryNode`). The registration is skipped on a
   node that has an agent configuration, whichever cluster it belongs to, and the last
   task counts the Ready nodes where the first control plane is. A run for a new cluster
   name over registered nodes succeeds, leaves an empty cluster in Rancher and names it
   in its checkpoint; `executor.py:757` says the run registers every custom node.
   `FirstNodeDecides` is what does hold: if the first control plane is in the new
   cluster, so are all nodes.

## What is proved

Eight modules hold the proofs, one each about `RunService`, `Workflow`, `Planning`,
`EventCursor`, `ArtifactLookup`, `ControlHost`, `LocalRke2` and `Downstream`. They hold
for every value of the constants: any number of threads, keys, requests, plans, runs,
ticks, faults and stops; any number of executions of any components on one control host;
any servers, nodes, releases and configurations. TLC evaluates the assumptions on the
constants on every run; the ones the proofs lean on say that `None` is no run and no row,
that the sets of servers, nodes and addresses are finite, and that a configuration names
each of its servers or nodes once, no node both as control plane and as worker
(`models.py:213-237` refuses duplicates). `PlanningAssumption` says the same of the nodes
a preflight checks, and that none of them has the name of another check. `ArtifactLookup`
is the only module with a run that must fail and none that must pass, so what its theorems
need of the constants, that a clock counts in some fraction of a second and the table of
runs is finite, is a hypothesis of theirs (`Bounds`).

**RunService.** `RunServiceProofs` proves `TypeOK` (`TypeCorrect`) from `TypeInv`, which
adds what types alone do not say: a call that is not idle has its arguments, one past
its insert or its lookup has a run, and a thread about to append the event of an end has
written that end, without which the event could be any state of the row.

It proves `RepliesAgree`, `OneExecutionPerKey`,
`KeyNamesItsRun` and `StateTellsOutcome` from one inductive invariant `Inv`. None of
the four is inductive by itself: a call between its insert and its submission has
changed nothing they mention, and so has a thread between the end of `execute()` and
the report. `Inv` says what is true there:

* `CallsOwn`: a run that is saved and not submitted is the one call's that created
  it, has no thread yet, and is the run its key names once the key is inserted. So
  no two calls submit one run, and the loser of a race cannot submit at all.
* `KeysBind`: keys name runs of theirs, replays and ok replies say what the key says.
  It is preserved because the insert requires that the key has no row.
* `RunsProgress`: a run with a thread is the one its key names, and the position of
  the thread fixes its row, how often it was executed and with what outcome. Two
  executed runs of one key are therefore both the run the key names.

`EventsFollowState` takes one more invariant, `LogsOK`: the position of a call or a
thread fixes the whole event sequence of its run (none, queued, started, and an end), so
that each append is to a known sequence.

`RunsAreApproved`, `NoLateAdmission` and `ArtifactIsThere` take `AdmissionInv`: what a
call has checked it keeps with it, although the checks are several steps apart and
interleave with everything else; the clock has not gone back since it arrived; and a run
that has succeeded stays one, so that the artifact found on admission is there when the
thread runs. That `First` of the refusals is `OK` only if each of them is, is a lemma for
each of its two lengths.

That the service implements `RunContract` (`ServiceImplementsContract`) is proved step by
step from `Inv`: `SaveRun` is
`Create`, a successful `SaveIdempotencyKey` is `Bind`, `MarkStarted` is `Start`,
`BeginExecute` is `Begin`, `Complete` is `Succeed` or `Fail`, everything else,
raises and stops included, is a stutter. `EndsAreFinal` proves `EndIsFinal`.

Of `AckedRunsEnd` two halves are proved, and fairness alone is left to TLC.
`CallsAndThreadsRunOut` gives each call under way and each run's thread a number of
steps left, which each of its own steps lowers, raises included, and nobody else's
raises; so a call that is scheduled replies and a thread that is scheduled ends.
`NothingIsDropped` says what those steps lead to: as long as no store call raises and
the process does not stop, a run that a key names or a client was told of has ended, or
has a thread under way, or is in the hands of a call between its key and its submission.
Such a state cannot stand still except at an end. That a thread that is done has written
an end is in `RunsProgress`; that nobody is done before there is a thread is what `Kept`
adds.

**Workflow.** `WorkflowProofs` proves `FailureAccounted`, `ExecutedInOrder`,
`SuccessComplete` and `NodesAnsweredFirst` from `Inv`, whose parts are `Standing`
(position and stage fix what each component is: succeeded before the stage, blocked
after it), `Executions` (what was executed are the first components of the scope, all
but the last succeeded) and `Endings`. The four are about runs that have ended and say
nothing about a run on its way, which is why they are not inductive. `EventsBackedByRow`
takes `ManualOK`: what the thread is about to record of a manual is true of the file it
has written. `MovesForward` is proved step by step, and `WorkflowImplementsPipeline`
maps `StageStarts` to `Begin`, `StageSucceeds` to `Finish`, `StageFails` to `Fail` and
`SaveSuccess` to `Succeed`.

`WorkflowIsOneRun` closes the gap between `Workflow` and `RunService`, which keeps only
one run of a workflow, one `execute()` long. `Workflow` refines `RunContract` with a
single key and run: the thread starts a queued run once, hands it to the control host
with its first component, and ends it once, whatever its stages do in between. It takes
`Unstarted`: a run still in the queue is before its first stage. So what `RunService`
proves of the row of a workflow holds with the thread that `Workflow` describes.
`ThreadsRunOut` is the step half of `ReachesVerdict`: the steps a thread has left are at
most `38 + WaitSteps`, by the stages, the rounds of the wait and the nodes of each; every
step of the thread lowers them, and nodes that come and go do not add any.

**ControlHost.** `ControlHostProofs` proves `TypeOK`, `SuccessIsReal`,
`NeverOntoAnswering` and `OthersOnlyIfFreed` of `ControlHost` from `Inv` (`HostInvariant`). What
it takes beyond the properties is that positions tell the past: `ThreadsFollow` says
that a thread past `exec_command` has uploaded everything and that a status received is
the status of the script; `ScriptsFollow` that a vm script past its address check has a
clear answer from every address it wants, one past its count has all machines in its
state, and one past its first command has our container in front of it or had the name
free since then (in `freed`), which is what `OthersOnlyIfFreed` needs of the commands
that go by the name; `MachinesFollow` that machines are
made only where nothing answered, and that what terraform records exists. The lemma
`Scripts` says where in the five scripts the commands are, and the count of
`verify-vm-state.py` implies the set by finiteness of the addresses
(`ControlHostAssumption`). `FailureIsReal` takes `Undisturbed`: without a fault, a
thread that failed saw the status of a script that did.

The step halves of `EndsUnlessStalled` are `ExecutionsAlwaysRunOut` and
`NobodyWaitsForNothing`. The first counts what is left: of a thread its positions, the
parts of its bundle and the status to come, of a script its commands, the addresses to
ping and the machines to make. Each step lowers its own count and no step anywhere
raises one, not even the removal of a container under a working script. The second says
why a thread with steps left can take one: its connection is there or known to be gone,
and the runner it waits for is at work, has ended, or stands before a full channel. The
last is the one exception `EndsUnlessStalled` makes, and the proof needs no other. It
takes `Paired`: only a script without connection is cut, and only one at the window
stalls.

**LocalRke2.** `LocalRke2Proofs` proves `TypeOK`, `InstalledAsApproved` and
`SuccessIsOneCluster` from `TypeOK`, `Provided`, `WrongIsCaught` and `OneCluster`. That
the release shows the approved one does not follow from the check of the manifest, because
the cache may change hands before the copy. It follows from `WrongIsCaught`: a run that
installed a release that does not show the approved one is at that very server and about
to compare its version.
`OneCluster` is inductive because a server that is in a cluster stays there, whatever
configuration later runs write, and the count on the last server is the whole order by
finiteness.

`LocalRke2Proofs` also proves `RerunSucceeds` (`RerunAlwaysSucceeds`) from `RerunInv`: as
long as nothing is disturbed, runs, cache and servers are `Quiet`. One run is under way
at most (`OneByOne`); what it fetched, copied and configured is its own (`Fetched`,
`Delivered`); and it either finds all servers in one cluster and leaves them alone
(`Keeping`), or has the servers before its position in a cluster of its own while those
behind it are empty (`Installing`). So the first server is up and holds the right token
when the next one joins it, the count is right, and the next run finds `LeftInOrder`. An
order names each server once, which is why no server is installed twice and none is left
out.

**Downstream.** `DownstreamProofs` proves `FirstNodeDecides` and `UrlIsKept` from
`KeepsToItsNodes` (a run registers its own nodes only, so a cluster of its name has no
others and the count is decided by its own) and `UrlIsStable`. The latter needs
`Acquainted`: runs under way know each other by `alongside`; a run about to set the
address finds it unset or has somebody alongside, and a run that has the address is next
to every run that may still overwrite it. With `UrlIsSet`, that the setting is never
emptied, an address is replaced only by a run alongside that asked for another.

`DownstreamProofs` also proves `FailsForAReason` (`FailsOnlyForAReason`) from
`ReasonInv`. A run fails where it waits, and what it waits for was made by earlier steps
of its own and by Rancher, so the invariant follows both: a run past `server-url` has the
address it wants unless another set one (`UrlIsAgreed`), has given its nodes the roles of
its configuration (`RolesAreGiven`), and a run nobody is in the way of has registered and
seen active every batch before its position (`Proceeds`). None of this is restricted to
undisturbed runs. What a kill leaves half done, a token without its description or a
cluster terraform does not know, stays so (`HalfDoneStays`) and is the second reason of
the property; only without a fault does a run make its cluster once (`MakesOnce`).
The lemma `BatchesCover` says why that is enough: the first batch has a control plane,
and a worker if there is any, so Rancher starts a service for each node of it.

**Planning.** `PlanningProofs` proves `CurrentPreflightHasCurrentPlan` and `ExpiryIsFinal`
from `Inv` (`TablesInvariant`): rows are written once, the digest and the expiry of a
preflight, under way or stored, are those of its plan's row, and the clock does not go
back.

`PlansAreRunnable`, `PlannedAsAsked` and `PassedMeansAnswered` are about what is in the
rows (`RowsInvariant`). `PlansInv` says that a plan is what `build_plan` makes of the
list it was asked for; the lemma about
`NormalizeComponents` says what that is: of each
list the components named in it, each once and in the order of the program, or nothing
if a name is unknown. `ChecksInv` follows a preflight while it probes: its answers are
to the first checks of its plan's list, in their order, and one is `SKIPPED` exactly
where the plan defers the check. A preflight is saved only when the list is through, so
a PASSED one has no check that was left out, and nothing that could fail is hidden among
the skipped. Nothing is assumed of the moments of the probes.

**EventCursor.** `EventCursorProofs` proves `NoGapNoDuplicate` from `CursorInvariant`:
what a reader was given is exactly the events of its run up to its cursor, in their
order. One poll takes the events behind the cursor, or the first few of them, and the
events up to the new cursor are the old ones with the page behind them; that is
arithmetic about how many ids lie below an id (`Rank`), and it needs that ids are given
once and grow. Appends of whichever run lie behind every cursor, so they disturb none.
`PollsAdvance` is the step half of `EveryEventIsRead`: a poll with any limit, zero and
negative ones too, gives an event if there is one, and no more than a page at a time.

**ArtifactLookup.** Finding 3 refutes "newest"; `ArtifactLookupProofs` says what is true
instead. `LookupFindsUsable`: the lookup finds a run whenever there is a usable one, and
only usable ones; a workflow that is still running is never among them.
`LookupStaysFound`: what later runs do does not take that away.
`LookupNewestButOnTheSecond`: an older run is returned only if it was created on a full
second and the newer one later in that second, so the finding goes no further than that.
Usable is a question of the rows (`TableInvariant`: a run that succeeded has all
components of its target); that something is last is one of the order of texts, which is
total and transitive although it is not that of the times, and of the table being
finite.

Only model-checked:

* liveness under fairness (`AckedRunsEnd`, `ReachesVerdict`, `EveryEventIsRead`,
  `EndsUnlessStalled`), which the prover cannot treat. Of each the step half is proved, as
  said above: that steps run out, or that each gets nearer, and that nothing on the way
  has nowhere to go. What TLC adds is that fairness of the schedulers turns this into an end;
* the violated properties of the findings, which are false.

## Not modelled, and why

* The chart, enterprise and provider caches. They work like the RKE2 cache with a
  checkpoint in front. A chart manifest that is half written stops every later run until
  somebody removes it (`prepare-rancher-chart.sh`); that is one early return.
* What the node-init and rancher playbooks do to a node: declarative roles and helm.
  Their place in the scripts and the container they run in is in `ControlHost`. A handler
  that restarts the load balancer is lost if a play fails between its notice and its end.
* Servers that change between local-rke2 runs. A first server that is replaced while the
  others stay is refused or not by what RKE2 does, which the repository does not say.
* `verify-inventory.py`: it compares files the executor wrote in the same upload.
* Two vm runs that pinged one free address before either made a machine there: no lock
  exists and no document promises one. `NeverOntoAnswering` says what holds, and its
  proof covers such runs.
* A PASSED preflight stays good after a later one of the same plan FAILED
  (`service.py:341`): each is a row of its own, and no document says otherwise.
* Contents: configurations, component plans, runbook text, redaction. A configuration
  is valid or not, a manual has findings or not.
* `auth.py`, `secrets.py`, `server.py`: stateless.
* Hooks of the plugin: advice to the agent; the server decides again for itself
  (plugin `README.md:143-144`).
* `cancel`: the service has no such operation.

## Plan

What is left, in this order:

1. Waits of `LocalRke2` and `Downstream`: a measure for each, as `ExecutionsRunOut` is for
   `ControlHost`.
2. The five scripts of `ControlHost` against the modules that open their commands: that a
   run of `LocalRke2` and one of `Downstream` do to a script what `ControlHost` lets it do.
3. The enterprise and provider caches with their checkpoints, next to `Rke2Artifacts`.
4. Node-init and rancher playbooks in the manner of `LocalRke2`: handlers that are
   lost, certificates that are issued twice.
5. `AuditStatus`: the status file shared by the plugin's hooks.
