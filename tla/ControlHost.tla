---------------------------- MODULE ControlHost ----------------------------
(***************************************************************************)
(* What an executor does between on_started and on_complete (_run and its  *)
(* four siblings in executor.py): upload a bundle to the control host over *)
(* SSH, start the runner script of the component there, wait for its exit  *)
(* status; and what the runners do there to what they share, the control   *)
(* container and the machines at the addresses of the configuration.       *)
(*                                                                         *)
(* Executions are independent of each other in the server, so several may  *)
(* drive one control host at a time.  A connection may be lost at any      *)
(* moment: the thread then gives up, and the remote side goes on.  The     *)
(* status is awaited before the output is read, so a runner that writes    *)
(* more than the window of the channel takes waits for a reader for ever.  *)
(* Playbooks and providers are commands that end well or not.              *)
(***************************************************************************)
EXTENDS Naturals, Sequences, FiniteSets

CONSTANTS
  Runs,       \* executions
  Component,  \* the component of each
  Strategy,   \* its container strategy: "create", "reuse", "reuse-or-create"
  Addresses,  \* addresses of machines
  Wanted,     \* the addresses a run wants machines at
  Silent,     \* addresses whose machines do not answer a ping
  Strangers,  \* addresses at which others make machines
  Window,     \* what the channel takes unread, in units
  MaxFaults,  \* bound on lost connections and raises
  None

Components == {"vm", "node-init", "local-rke2", "rancher", "downstream"}

\* What the executors upload before they start the runner, in order.
VmBundle == <<"assets", "versions.tf", "tfvars", "vm-input", "runtime-env", "dependency-env">>
NodeInitBundle == <<"assets", "dependency-env", "inventory">>
LocalRke2Bundle == <<"assets", "dependency-env", "inventory", "group-vars">>
RancherBundle == <<"assets", "dependency-env", "inventory", "group-vars", "password">>
DownstreamBundle == <<"assets", "dependency-env", "password", "versions.tf", "tfvars",
                      "inventory", "group-vars">>
Bundle(r) ==
  IF Component[r] = "vm" THEN VmBundle ELSE
  IF Component[r] = "node-init" THEN NodeInitBundle ELSE
  IF Component[r] = "local-rke2" THEN LocalRke2Bundle ELSE
  IF Component[r] = "rancher" THEN RancherBundle ELSE DownstreamBundle

\* The commands of the runners, in order; "set -e" ends them at the first that fails.
VmScript == <<"inspect", "start", "recheck", "create", "probe", "dependencies", "provider",
              "addresses", "init", "apply", "verify", "outputs">>
NodeInitScript == <<"inspect", "start", "probe", "dependencies", "playbook", "checkpoint">>
LocalRke2Script == <<"inspect", "start", "probe", "dependencies", "artifacts", "inventory",
                     "playbook", "checkpoint">>
RancherScript == <<"inspect", "start", "probe", "dependencies", "playbook", "load-balancer",
                   "checkpoint">>
DownstreamScript == <<"inspect", "start", "probe", "certificate", "dependencies", "provider",
                      "token", "init", "cluster", "registration", "playbook", "logs", "checkpoint">>
Script(r) ==
  IF Component[r] = "vm" THEN VmScript ELSE
  IF Component[r] = "node-init" THEN NodeInitScript ELSE
  IF Component[r] = "local-rke2" THEN LocalRke2Script ELSE
  IF Component[r] = "rancher" THEN RancherScript ELSE DownstreamScript

\* Commands with an action of their own below; the others just end.
Special == {"inspect", "start", "recheck", "create", "probe", "addresses", "apply", "verify"}

\* The executors that look at the status before they read the output.
ChecksFirst == {"node-init", "local-rke2"}

ASSUME ControlHostAssumption ==
  /\ Component \in [Runs -> Components]
  /\ Strategy \in [Runs -> {"create", "reuse", "reuse-or-create"}]
  /\ Wanted \in [Runs -> SUBSET Addresses] /\ IsFiniteSet(Addresses) /\ Silent \subseteq Addresses
  /\ Strangers \subseteq Addresses
  /\ Window \in Nat \ {0} /\ MaxFaults \in Nat
  /\ None \notin {"zero", "failed"} /\ "other" \notin Runs

VARIABLES
  thread,    \* position of the thread of each execution
  link,      \* its SSH connection
  sent,      \* how much of the bundle is on the control host
  status,    \* the exit status the client has received, None before
  phase,     \* the runner script: how it stands
  at,        \* and which command it is at
  unread,    \* units of its output in the channel
  clear,     \* addresses that did not answer its ping
  tfstate,   \* machines in the terraform state of its directory
  container, \* what has the name of the control container: whose it is, and whether it is running
  machines,  \* the machines at each address, by the run that made them
  faults,    \* faults so far
  taken,     \* history: addresses in use when the runner was started
  freed      \* history: runs for which nothing had that name, at or after their check of the label

ssh == <<thread, link, sent, status>>
script == <<phase, at>>
vm == <<clear, tfstate>>
vars == <<thread, link, sent, status, phase, at, unread, clear, tfstate, container, machines, faults, taken, freed>>

NoContainer == [owner |-> "none", up |-> FALSE]
Containers == [owner: {"ours", "other"}, up: BOOLEAN] \cup {NoContainer}

Init ==
  /\ thread = [r \in Runs |-> "queued"] /\ link = [r \in Runs |-> "none"]
  /\ sent = [r \in Runs |-> 0] /\ status = [r \in Runs |-> None]
  /\ phase = [r \in Runs |-> "idle"] /\ at = [r \in Runs |-> 1]
  /\ unread = [r \in Runs |-> 0]
  /\ clear = [r \in Runs |-> {}] /\ tfstate = [r \in Runs |-> {}]
  /\ container \in Containers
  /\ machines = [a \in Addresses |-> {}]
  /\ faults = 0 /\ taken = [r \in Runs |-> {}] /\ freed = {}

-----------------------------------------------------------------------------
(* The thread *)

Ends(r, result) ==
  /\ thread' = [thread EXCEPT ![r] = result]
  /\ link' = [link EXCEPT ![r] = "closed"]

Connect(r) ==
  /\ thread[r] = "queued"
  /\ thread' = [thread EXCEPT ![r] = "connected"]
  /\ link' = [link EXCEPT ![r] = "up"]
  /\ UNCHANGED <<sent, status, script, unread, vm, container, machines, faults, taken, freed>>

\* sftp.put and _put_text: one part of the bundle.
Upload(r) ==
  /\ thread[r] = "connected" /\ link[r] = "up" /\ sent[r] < Len(Bundle(r))
  /\ sent' = [sent EXCEPT ![r] = @ + 1]
  /\ UNCHANGED <<thread, link, status, script, unread, vm, container, machines, faults, taken, freed>>

\* exec_command starts the runner.
ExecCommand(r) ==
  /\ thread[r] = "connected" /\ link[r] = "up" /\ sent[r] = Len(Bundle(r))
  /\ thread' = [thread EXCEPT ![r] = "waiting"]
  /\ phase' = [phase EXCEPT ![r] = "running"]
  /\ taken' = [taken EXCEPT ![r] = {a \in Addresses : machines[a] # {}}]
  /\ UNCHANGED <<link, sent, status, at, unread, vm, container, machines, faults, freed>>

\* The exit status of the script travels to the client.
StatusArrives(r) ==
  /\ link[r] = "up" /\ status[r] = None /\ phase[r] \in {"zero", "failed"}
  /\ status' = [status EXCEPT ![r] = phase[r]]
  /\ UNCHANGED <<thread, link, sent, script, unread, vm, container, machines, faults, taken, freed>>

\* recv_exit_status returns with the status of the script.
ReceiveStatus(r) ==
  /\ thread[r] = "waiting" /\ status[r] # None
  /\ IF status[r] = "failed" /\ Component[r] \in ChecksFirst
     THEN Ends(r, "raised")
     ELSE thread' = [thread EXCEPT ![r] = "reading"] /\ UNCHANGED link
  /\ UNCHANGED <<sent, status, script, unread, vm, container, machines, faults, taken, freed>>

\* Bug: the read has a time limit that a long output exceeds.
ReadOutputInTime(r) ==
  /\ thread[r] = "reading"
  /\ Ends(r, IF status[r] = "zero" /\ unread[r] < Window THEN "succeeded" ELSE "raised")
  /\ unread' = [unread EXCEPT ![r] = 0]
  /\ UNCHANGED <<sent, status, script, vm, container, machines, faults, taken, freed>>

\* The output is read up to its end, the status decides, the client is closed.
ReadOutput(r) ==
  /\ thread[r] = "reading"
  /\ Ends(r, IF status[r] = "zero" THEN "succeeded" ELSE "raised")
  /\ unread' = [unread EXCEPT ![r] = 0]
  /\ UNCHANGED <<sent, status, script, vm, container, machines, faults, taken, freed>>

\* Bug: only uploads notice that the connection is gone.
LossIsSeenByUploads(r) ==
  /\ thread[r] = "connected" /\ link[r] = "lost"
  /\ Ends(r, "raised")
  /\ UNCHANGED <<sent, status, script, unread, vm, container, machines, faults, taken, freed>>

\* An upload raises, or recv_exit_status returns -1, because the connection is gone.
LossIsSeen(r) ==
  /\ thread[r] \in {"connected", "waiting"} /\ link[r] = "lost" /\ status[r] = None
  /\ Ends(r, "raised")
  /\ UNCHANGED <<sent, status, script, unread, vm, container, machines, faults, taken, freed>>

\* Host keys, Secrets, connecting, an upload or a read may raise.
Raises(r) ==
  /\ faults < MaxFaults /\ thread[r] \in {"queued", "connected", "reading"}
  /\ Ends(r, "raised")
  /\ faults' = faults + 1
  /\ UNCHANGED <<sent, status, script, unread, vm, container, machines, taken, freed>>

LoseLink(r) ==
  /\ faults < MaxFaults /\ link[r] = "up"
  /\ link' = [link EXCEPT ![r] = "lost"]
  /\ faults' = faults + 1
  /\ UNCHANGED <<thread, sent, status, script, unread, vm, container, machines, taken, freed>>

-----------------------------------------------------------------------------
(* The runner script *)

Command(r) == Script(r)[at[r]]
At(r, c) == phase[r] = "running" /\ Command(r) = c

\* The script goes on with the n-th next command, or is at its end.
GoOn(r, n) ==
  /\ at' = [at EXCEPT ![r] = @ + n]
  /\ phase' = [phase EXCEPT ![r] = IF at[r] + n > Len(Script(r)) THEN "zero" ELSE "running"]

\* Bug: nothing holds a command back when the channel is full.
WritesOn(r) ==
  \E k \in 0..1 : unread' = [unread EXCEPT ![r] = @ + k]

\* run-logged.sh copies what a command writes to the channel, at most one unit each.
Writes(r) ==
  \E k \in 0..1 : /\ k = 1 => link[r] = "up" /\ unread[r] < Window
                  /\ unread' = [unread EXCEPT ![r] = @ + k]

\* A command exits with an error: by its own checks, or because something is missing.
CommandFails(r) ==
  /\ phase[r] = "running"
  /\ phase' = [phase EXCEPT ![r] = "failed"]
  /\ UNCHANGED <<ssh, at, unread, vm, container, machines, faults, taken, freed>>

\* A command with more output than the channel takes waits for a reader.
CommandStalls(r) ==
  /\ phase[r] = "running" /\ link[r] = "up" /\ unread[r] = Window
  /\ phase' = [phase EXCEPT ![r] = "stalled"]
  /\ UNCHANGED <<ssh, at, unread, vm, container, machines, faults, taken, freed>>

\* Without a connection the script ends at its next write; its command may go on.
ScriptCut(r) ==
  /\ phase[r] \in {"running", "stalled"} /\ link[r] # "up"
  /\ phase' = [phase EXCEPT ![r] = "cut"]
  /\ UNCHANGED <<ssh, at, unread, vm, container, machines, faults, taken, freed>>

\* Bug: the label of the container is not looked at.
InspectName(r) ==
  /\ At(r, "inspect")
  /\ \/ container = NoContainer /\ Component[r] = "vm" /\ GoOn(r, 2) /\ freed' = freed \cup {r}
     \/ container # NoContainer /\ GoOn(r, 1) /\ UNCHANGED freed
  /\ UNCHANGED <<ssh, unread, vm, container, machines, faults, taken>>

\* docker container inspect, and the label of what it finds.  Only the vm runner goes on
\* when it finds nothing, no runner goes on with somebody else's container.
Inspect(r) ==
  /\ At(r, "inspect")
  /\ \/ container = NoContainer /\ Component[r] = "vm" /\ GoOn(r, 2) /\ freed' = freed \cup {r}
     \/ container.owner = "ours" /\ GoOn(r, 1) /\ UNCHANGED freed
  /\ UNCHANGED <<ssh, unread, vm, container, machines, faults, taken>>

Replaces(r) == Component[r] = "vm" /\ Strategy[r] = "create"

\* docker start || true: of whatever has the name by now.
Start(r) ==
  /\ At(r, "start") /\ ~Replaces(r)
  /\ container' \in {container} \cup (IF container = NoContainer THEN {} ELSE {[container EXCEPT !.up = TRUE]})
  /\ GoOn(r, 1)
  /\ UNCHANGED <<ssh, unread, vm, machines, faults, taken, freed>>

\* The scripts whose current command runs, or may run, inside the container.
OnTheHost == {"inspect", "start", "recheck", "create", "logs"}
Inside(q) == Command(q) \notin OnTheHost

\* A container that stops or goes ends what runs inside for certain; a script that is
\* still there to see it fails, or is between two commands and goes on.
EndsInside ==
  phase' = [q \in Runs |-> IF phase[q] \in {"stalled", "cut"} /\ Inside(q) THEN "failed" ELSE phase[q]]
Frees == container' = NoContainer /\ freed' = freed \cup {q \in Runs : at[q] > 1}

\* docker rm -f: whatever has the name by now goes, and with it every command inside.
Remove(r) ==
  /\ At(r, "start") /\ Replaces(r)
  /\ Frees /\ EndsInside
  /\ at' = [at EXCEPT ![r] = @ + 1]
  /\ UNCHANGED <<ssh, unread, vm, machines, faults, taken>>

\* The second inspect: a container is there, whoever's, or the strategy allows to create one.
Recheck(r) ==
  /\ At(r, "recheck")
  /\ IF container # NoContainer THEN GoOn(r, 2) ELSE Strategy[r] # "reuse" /\ GoOn(r, 1)
  /\ UNCHANGED <<ssh, unread, vm, container, machines, faults, taken, freed>>

\* docker run, which fails when the name is taken by now.
Create(r) ==
  /\ At(r, "create") /\ container = NoContainer
  /\ container' = [owner |-> "ours", up |-> TRUE]
  /\ GoOn(r, 1)
  /\ UNCHANGED <<ssh, unread, vm, machines, faults, taken, freed>>

\* What has the name runs and its mounts are writable: its label is not looked at again.
Probe(r) ==
  /\ At(r, "probe") /\ container.up
  /\ GoOn(r, 1)
  /\ UNCHANGED <<ssh, unread, vm, container, machines, faults, taken, freed>>

\* Any other command ends well, which takes the container if it runs inside.
CommandEnds(r) ==
  /\ phase[r] = "running" /\ Command(r) \notin Special /\ (container.up \/ ~Inside(r))
  /\ GoOn(r, 1) /\ Writes(r)
  /\ UNCHANGED <<ssh, vm, container, machines, faults, taken, freed>>

\* Bug: the check looks at one address only.
PingFirst(r, a) ==
  /\ At(r, "addresses") /\ container.up /\ clear[r] = {} /\ a \in Wanted[r]
  /\ machines[a] = {} \/ a \in Silent
  /\ clear' = [clear EXCEPT ![r] = Wanted[r]]
  /\ UNCHANGED <<ssh, script, unread, tfstate, container, machines, faults, taken, freed>>

\* check-ip-conflicts.py pings the addresses one after the other.
Ping(r, a) ==
  /\ At(r, "addresses") /\ container.up /\ a \in Wanted[r] \ clear[r]
  /\ machines[a] = {} \/ a \in Silent
  /\ clear' = [clear EXCEPT ![r] = @ \cup {a}]
  /\ UNCHANGED <<ssh, script, unread, tfstate, container, machines, faults, taken, freed>>

\* None of them has answered.
AddressesFree(r) ==
  /\ At(r, "addresses") /\ clear[r] = Wanted[r]
  /\ GoOn(r, 1) /\ Writes(r)
  /\ UNCHANGED <<ssh, vm, container, machines, faults, taken, freed>>

\* terraform apply clones a machine and records it, also after its script was cut.
CloneMachine(r, a) ==
  /\ phase[r] \in {"running", "cut"} /\ Command(r) = "apply" /\ container.up
  /\ a \in Wanted[r] \ tfstate[r] /\ r \notin machines[a]
  /\ machines' = [machines EXCEPT ![a] = @ \cup {r}]
  /\ tfstate' = [tfstate EXCEPT ![r] = @ \cup {a}]
  /\ UNCHANGED <<ssh, script, unread, clear, container, faults, taken, freed>>

\* Terraform dies between a clone and its record.
CloneIsLost(r, a) ==
  /\ phase[r] = "running" /\ Command(r) = "apply" /\ container.up
  /\ a \in Wanted[r] \ tfstate[r] /\ r \notin machines[a]
  /\ machines' = [machines EXCEPT ![a] = @ \cup {r}]
  /\ phase' = [phase EXCEPT ![r] = "failed"]
  /\ UNCHANGED <<ssh, at, unread, vm, container, faults, taken, freed>>

\* terraform apply ends well, whatever its directory made it do.
ApplyEnds(r) ==
  /\ At(r, "apply") /\ container.up
  /\ GoOn(r, 1) /\ Writes(r)
  /\ UNCHANGED <<ssh, vm, container, machines, faults, taken, freed>>

\* Bug: an empty state only is an error.
VerifyNonEmpty(r) ==
  /\ At(r, "verify") /\ container.up /\ tfstate[r] # {}
  /\ GoOn(r, 1) /\ Writes(r)
  /\ UNCHANGED <<ssh, vm, container, machines, faults, taken, freed>>

\* verify-vm-state.py counts the machines in the state.
Verify(r) ==
  /\ At(r, "verify") /\ container.up /\ Cardinality(tfstate[r]) = Cardinality(Wanted[r])
  /\ GoOn(r, 1) /\ Writes(r)
  /\ UNCHANGED <<ssh, vm, container, machines, faults, taken, freed>>

\* Machines of others come up at any time.
MachineAppears(a) ==
  /\ machines' = [machines EXCEPT ![a] = @ \cup {"other"}] /\ machines' # machines
  /\ UNCHANGED <<ssh, script, unread, vm, container, faults, taken, freed>>

\* Others remove what has the name, or run or create a container of their own under it.
OthersAct ==
  /\ \/ container # NoContainer /\ Frees
     \/ container = NoContainer /\ UNCHANGED freed
        /\ \E up \in BOOLEAN : container' = [owner |-> "other", up |-> up]
  /\ IF container.up THEN EndsInside ELSE UNCHANGED phase
  /\ UNCHANGED <<ssh, at, unread, vm, machines, faults, taken>>

-----------------------------------------------------------------------------
ThreadStep(r) ==
  \/ Connect(r) \/ Upload(r) \/ ExecCommand(r) \/ StatusArrives(r) \/ ReceiveStatus(r)
  \/ ReadOutput(r) \/ LossIsSeen(r)
Apply(r) == \E a \in Addresses : CloneMachine(r, a) \/ CloneIsLost(r, a)
ScriptStep(r) ==
  \/ CommandFails(r) \/ CommandStalls(r) \/ Inspect(r) \/ Start(r) \/ Remove(r) \/ Recheck(r)
  \/ Create(r) \/ Probe(r) \/ CommandEnds(r) \/ AddressesFree(r) \/ ApplyEnds(r) \/ Verify(r)
  \/ Apply(r) \/ \E a \in Addresses : Ping(r, a)
Fault(r) == Raises(r) \/ LoseLink(r)
Next ==
  \/ \E r \in Runs : ThreadStep(r) \/ ScriptStep(r) \/ ScriptCut(r) \/ Fault(r)
  \/ \E a \in Strangers : MachineAppears(a)
  \/ OthersAct
Spec == Init /\ [][Next]_vars
FairSpec == Spec /\ \A r \in Runs : WF_vars(ThreadStep(r)) /\ WF_vars(ScriptStep(r))

-----------------------------------------------------------------------------
TypeOK ==
  /\ thread \in [Runs -> {"queued", "connected", "waiting", "reading", "succeeded", "raised"}]
  /\ link \in [Runs -> {"none", "up", "lost", "closed"}]
  /\ sent \in [Runs -> Nat] /\ at \in [Runs -> Nat]
  /\ \A r \in Runs : sent[r] \in 0..Len(Bundle(r)) /\ at[r] \in 1..(Len(Script(r)) + 1)
  /\ status \in [Runs -> {None, "zero", "failed"}]
  /\ phase \in [Runs -> {"idle", "running", "stalled", "zero", "failed", "cut"}]
  /\ unread \in [Runs -> 0..Window]
  /\ clear \in [Runs -> SUBSET Addresses] /\ tfstate \in [Runs -> SUBSET Addresses]
  /\ container \in Containers
  /\ machines \in [Addresses -> SUBSET (Runs \cup {"other"})]
  /\ faults \in 0..MaxFaults /\ taken \in [Runs -> SUBSET Addresses] /\ freed \subseteq Runs

(* An execution that succeeds has run its script to the end, and a vm execution has *)
(* made every machine its configuration wants: no lost connection, cut script,      *)
(* removed container or empty apply is taken for a success.                         *)
SuccessIsReal ==
  \A r \in Runs : thread[r] = "succeeded" =>
    /\ phase[r] = "zero" /\ sent[r] = Len(Bundle(r))
    /\ Component[r] = "vm" => \A a \in Wanted[r] : a \in tfstate[r] /\ r \in machines[a]

(* As long as no connection is lost and nothing raises, an execution that is *)
(* reported as failed has failed on the control host.                        *)
FailureIsReal ==
  faults = 0 => \A r \in Runs : thread[r] = "raised" => phase[r] = "failed"

(* A run never makes a machine at an address that was in use and answering when its   *)
(* runner started: by another run, by one whose connection was lost, or by a stranger. *)
NeverOntoAnswering ==
  \A r \in Runs, a \in Addresses : a \in taken[r] \ Silent => r \notin machines[a]

(* The label protects as long as the container it is on keeps the name: a script that *)
(* starts, removes or gets anywhere in a container of others passed its check of the  *)
(* label, and the name was free at or after that check.                               *)
OthersOnlyIfFreed ==
  [][\A r \in Runs : container.owner = "other" /\ ScriptStep(r) /\ r \notin freed =>
       UNCHANGED <<container, at, vm, machines>>]_vars

(* An execution ends, unless its runner has filled the window of the channel before *)
(* anybody reads it.                                                                *)
EndsUnlessStalled ==
  \A r \in Runs : <>[](thread[r] \in {"succeeded", "raised"} \/ phase[r] = "stalled")
=============================================================================
