---------------------------- MODULE Downstream ----------------------------
(***************************************************************************)
(* Downstream runs: an API token (RancherToken), a cluster by terraform,   *)
(* its registration command, and the playbook that registers the nodes:    *)
(* the first control plane and the first worker together, the others one   *)
(* after the other, and a last look at the cluster from its first node.    *)
(*                                                                         *)
(* Rancher and ansible are external.  Rancher brings nodes up once a       *)
(* cluster has a control plane and a worker, and a name belongs to one     *)
(* cluster; each run creates at most one, so the run names it.  Ansible    *)
(* takes the hosts of a batch through a task before the next task, drops a *)
(* host that fails, and stops when a batch has none left.                  *)
(***************************************************************************)
EXTENDS RancherToken

CONSTANTS Nodes

VARIABLES
  owner,    \* the run whose cluster has a name
  recorded, \* whether terraform's state knows the cluster of a run
  play,     \* the batch of nodes a run is at
  todo,     \* the nodes of the batch that have not done the current task
  dropped,  \* the nodes that failed
  attached, \* the cluster a node is registered with, and its role there
  active,   \* whether its RKE2 service is active and the node Ready
  alongside \* the runs that have been under way at the same time as a run (history)

progress == <<play, todo, dropped>>
clusters == <<owner, recorded, attached, active>>
vars == <<rancher, at, faults, progress, clusters, alongside>>

Memberships == [cluster : Runs, role : {"controlplane", "worker"}]

Members(s) == {s[i] : i \in 1..Len(s)}

\* A configuration that names a host twice is refused (models.py:213-237).
ASSUME ConfigsAssumption ==
  /\ IsFiniteSet(Nodes)
  /\ \A c \in Configs : /\ c.cps \in Seq(Nodes) /\ c.workers \in Seq(Nodes)
                        /\ Len(c.cps) > 0 /\ Len(c.workers) > 0
                        /\ Members(c.cps) \cap Members(c.workers) = {}
                        /\ c.url # None
  /\ None \notin Memberships /\ None \notin Runs

First(r) == config[r].cps[1]
Wanted(r) == Members(config[r].cps) \cup Members(config[r].workers)
RoleOf(r, n) == IF n \in Members(config[r].cps) THEN "controlplane" ELSE "worker"

\* One set of nodes for each batch of the playbook, in order.
OneByOne(s) == [i \in 1..Len(s) - 1 |-> {s[i + 1]}]
\* Bug: the first worker is registered after the first control plane.
FirstAlone(r) ==
  <<{First(r)}, {config[r].workers[1]}>> \o OneByOne(config[r].cps) \o OneByOne(config[r].workers)

Batches(r) ==
  <<{First(r), config[r].workers[1]}>> \o OneByOne(config[r].cps) \o OneByOne(config[r].workers)

Init ==
  /\ TokenInit
  /\ owner = [n \in {c.name : c \in Configs} |-> None]
  /\ recorded = [r \in Runs |-> FALSE]
  /\ play = [r \in Runs |-> 1] /\ todo = [r \in Runs |-> {}] /\ dropped = [r \in Runs |-> {}]
  /\ attached = [n \in Nodes |-> None] /\ active = [n \in Nodes |-> FALSE]
  /\ alongside = [r \in Runs |-> {}]

\* The runner starts, next to those of other runs.
Meets(r) ==
  LET others == {q \in Runs : Busy(q)} IN
  alongside' = [q \in Runs |-> IF q = r THEN alongside[q] \cup others
                               ELSE IF q \in others THEN alongside[q] \cup {r}
                               ELSE alongside[q]]
Begin(r) ==
  /\ at[r] = "idle"
  /\ Goto(r, "ping")
  /\ Meets(r)
  /\ UNCHANGED <<rancher, faults, progress, clusters>>

\* Somebody starts the runner again, in the directory of a run that was killed: one that
\* failed or was cut has removed the .dependency.env it would need.
Again(r) ==
  /\ at[r] = "killed" /\ faults < MaxFaults
  /\ Goto(r, "ping")
  /\ faults' = faults + 1
  /\ Meets(r)
  /\ UNCHANGED <<rancher, progress, clusters>>

\* terraform apply: a cluster its state knows is left alone, a name that is taken an error.
Apply(r) ==
  LET name == config[r].name IN
  /\ at[r] = "apply"
  /\ IF recorded[r] THEN Goto(r, "save") /\ owner' = owner
     ELSE IF owner[name] = None THEN Goto(r, "record") /\ owner' = [owner EXCEPT ![name] = r]
     ELSE Goto(r, "failed") /\ owner' = owner
  /\ UNCHANGED <<rancher, faults, progress, recorded, attached, active, alongside>>
Record(r) ==
  /\ at[r] = "record"
  /\ recorded' = [recorded EXCEPT ![r] = TRUE]
  /\ Goto(r, "save")
  /\ UNCHANGED <<rancher, faults, progress, owner, attached, active, alongside>>

\* The registration command is saved, and the playbook begins with its first batch.
SaveCommand(r) ==
  /\ at[r] = "save"
  /\ Goto(r, "register")
  /\ play' = [play EXCEPT ![r] = 1]
  /\ todo' = [todo EXCEPT ![r] = Batches(r)[1]]
  /\ dropped' = [dropped EXCEPT ![r] = {}]
  /\ UNCHANGED <<rancher, faults, clusters, alongside>>

\* A node that has an agent configuration is not registered again, whosever it is.
Register(r, n) ==
  /\ at[r] = "register" /\ n \in todo[r]
  /\ attached' = [attached EXCEPT ![n] =
       IF @ = None THEN [cluster |-> r, role |-> RoleOf(r, n)] ELSE @]
  /\ todo' = [todo EXCEPT ![r] = @ \ {n}]
  /\ UNCHANGED <<rancher, at, faults, play, dropped, owner, recorded, active, alongside>>
AllRegistered(r) ==
  /\ at[r] = "register" /\ todo[r] = {}
  /\ Goto(r, "service")
  /\ todo' = [todo EXCEPT ![r] = Batches(r)[play[r]]]
  /\ UNCHANGED <<rancher, faults, play, dropped, clusters, alongside>>

\* Rancher brings up the nodes of a cluster that has both roles.
In(c) == {n \in Nodes : attached[n] # None /\ attached[n].cluster = c}
Complete(c) == {attached[n].role : n \in In(c)} = {"controlplane", "worker"}
Pending(n) == attached[n] # None /\ ~active[n] /\ Complete(attached[n].cluster)
BecomesActive(n) ==
  /\ Pending(n)
  /\ active' = [active EXCEPT ![n] = TRUE]
  /\ UNCHANGED <<rancher, at, faults, progress, owner, recorded, attached, alongside>>

\* The service of the role becomes active, or the retries are used up: Rancher needs less
\* than these ten minutes for a node it is going to bring up.
ServiceActive(r, n) ==
  /\ at[r] = "service" /\ n \in todo[r]
  /\ active[n] /\ attached[n].role = RoleOf(r, n)
  /\ todo' = [todo EXCEPT ![r] = @ \ {n}]
  /\ UNCHANGED <<rancher, at, faults, play, dropped, clusters, alongside>>
ServiceMissing(r, n) ==
  /\ at[r] = "service" /\ n \in todo[r]
  /\ ~Pending(n) /\ (active[n] => attached[n].role # RoleOf(r, n))
  /\ todo' = [todo EXCEPT ![r] = @ \ {n}]
  /\ dropped' = [dropped EXCEPT ![r] = @ \cup {n}]
  /\ UNCHANGED <<rancher, at, faults, play, clusters, alongside>>

\* A batch without a node left ends the playbook, the last one leads to the verification,
\* from a first node that has not failed.
BatchEnds(r) ==
  /\ at[r] = "service" /\ todo[r] = {}
  /\ LET more == play[r] < Len(Batches(r)) IN
     IF Batches(r)[play[r]] \subseteq dropped[r] \/ (~more /\ First(r) \in dropped[r])
     THEN Goto(r, "failed") /\ UNCHANGED progress
     ELSE IF ~more THEN Goto(r, "verify") /\ UNCHANGED progress
     ELSE /\ play' = [play EXCEPT ![r] = @ + 1]
          /\ todo' = [todo EXCEPT ![r] = Batches(r)[play[r] + 1]]
          /\ Goto(r, "register") /\ dropped' = dropped
  /\ UNCHANGED <<rancher, faults, clusters, alongside>>

\* Nodes and Ready nodes are counted where the first node belongs, and both must be as
\* many as the configuration has.  What is listed there are the Ready nodes and some of
\* those that are registered.  A node that was dropped makes the playbook fail all the same.
Ready(r) == {n \in In(attached[First(r)].cluster) : active[n]}
\* Bug: the nodes are not counted.
TrustNodes(r) ==
  /\ at[r] = "verify"
  /\ Goto(r, IF dropped[r] = {} THEN "succeeded" ELSE "failed")
  /\ UNCHANGED <<rancher, faults, progress, clusters, alongside>>

Counted(r, listed) ==
  /\ Cardinality(listed) = Cardinality(Wanted(r))
  /\ Cardinality(Ready(r)) = Cardinality(Wanted(r))
VerifyNodes(r) ==
  /\ at[r] = "verify"
  /\ \E listed \in SUBSET In(attached[First(r)].cluster) :
       /\ Ready(r) \subseteq listed
       /\ Counted(r, listed) \/ \A n \in In(attached[First(r)].cluster) : ~Pending(n)
       /\ Goto(r, IF Counted(r, listed) /\ dropped[r] = {} THEN "succeeded" ELSE "failed")
  /\ UNCHANGED <<rancher, faults, progress, clusters, alongside>>

Token(r) == PreparesToken(r) /\ UNCHANGED <<progress, clusters, alongside>>
Playbook(r) ==
  \/ \E n \in Nodes : Register(r, n) \/ ServiceActive(r, n) \/ ServiceMissing(r, n)
  \/ AllRegistered(r) \/ BatchEnds(r) \/ VerifyNodes(r)
Next ==
  \/ \E r \in Runs : Begin(r) \/ Again(r) \/ Token(r) \/ Apply(r) \/ Record(r) \/ SaveCommand(r)
                     \/ Playbook(r)
  \/ \E n \in Nodes : BecomesActive(n)
Spec == Init /\ [][Next]_vars
-----------------------------------------------------------------------------
\* A run that succeeded with its first control plane in its own cluster has all its nodes
\* there, although the registration skips every node that was registered before, with
\* whatever cluster (role downstream_register, `creates:`).
FirstNodeDecides ==
  \A r \in Runs : at[r] = "succeeded" /\ attached[First(r)].cluster = r =>
    \A n \in Wanted(r) : attached[n] # None /\ attached[n].cluster = r

\* A run finds that it cannot go on only where others have been (another server-url, one
\* a run next to it asked for, a name that is taken, a node of another cluster) or where a
\* kill has left it half done: a token without its description, a cluster terraform does
\* not know.  In particular no run waits in vain for a service Rancher starts only when a
\* node that comes later is registered, and whatever else a run that was killed and
\* started again has left is no obstacle to it.
overlap == \E r \in Runs : alongside[r] # {}
OthersWereThere(r) ==
  \/ url \notin {None, config[r].url}
  \/ overlap /\ \E q \in Runs : config[q].url # config[r].url
  \/ owner[config[r].name] \notin {None, r}
  \/ \E n \in Wanted(r) : attached[n] # None /\ attached[n].cluster # r
LeftHalfDone(r) ==
  faults > 0 /\ (kept[r] = "key" \/ (owner[config[r].name] = r /\ ~recorded[r]))
FailsForAReason ==
  \A r \in Runs : at[r] = "failed" => OthersWereThere(r) \/ LeftHalfDone(r)

\* The server-url a run has found or set is the setting from then on, unless a run that
\* was under way next to it asked for another one: ensure_server_url reads and writes it
\* in requests of their own, so of two runs that find none the later one overwrites what
\* the earlier one has confirmed.  A run that comes afterwards never does.
UrlIsKept ==
  \A r \in Runs :
    at[r] \notin {"idle", "ping", "read", "put", "confirm", "failed", "cut", "killed"} =>
      url = config[r].url \/ \E q \in alongside[r] : config[q].url # config[r].url

\* executor.py:757: the run "registers every custom node" of the configuration with the
\* cluster it makes.  A run that succeeded, without a fault and not next to another, has
\* its nodes in its cluster.
RegistersEveryNode ==
  faults = 0 => \A r \in Runs : at[r] = "succeeded" /\ alongside[r] = {} =>
    \A n \in Wanted(r) : attached[n].cluster = r
=============================================================================
