----------------------------- MODULE LocalRke2 -----------------------------
(***************************************************************************)
(* Runs of local-rke2 on one control host: the artifacts are prepared      *)
(* (Rke2Artifacts), then the playbook takes one server after the other     *)
(* (serial: 1) through the role local_rke2, and ends at the first that     *)
(* fails.  Nothing keeps two runs apart, and a run may follow one that     *)
(* was cut short.                                                          *)
(*                                                                         *)
(* What a server does with its configuration is RKE2 itself and external:  *)
(* without a `server:` line it founds a cluster with the token it is       *)
(* given, with one it joins that server if the tokens agree, and once it   *)
(* is a member it comes up again only with the token of its cluster.  A    *)
(* cluster is named by its token, a token by the run that generated it.    *)
(***************************************************************************)
EXTENDS Rke2Artifacts

CONSTANTS
  Servers,
  PartOf     \* pairs of releases, the name of the first a part of the other's

VARIABLES
  host,    \* the position in its order of the server a run is working on
  absent,  \* whether it found no RKE2 there
  remote,  \* the files copied to each server
  bin,     \* the RKE2 installed there, and by which run
  conf,    \* its config.yaml
  wanted,  \* whether its service is enabled and started
  member,  \* the cluster it belongs to
  up,      \* whether it answers
  overlap  \* two runs have been under way at a time

artifacts == <<config, file, part, cached, manifest>>
servers == <<host, absent, remote, bin, conf, wanted, member, up>>
vars == <<artifacts, at, faults, servers, overlap>>

\* The server list names each server once (models.py:213-237); there are three.
ASSUME ConfigsAssumption ==
  /\ IsFiniteSet(Servers) /\ Servers # {}
  /\ \A c \in Configs : c.order \in Seq(Servers) /\ Len(c.order) = Cardinality(Servers)
  /\ \A c \in Configs, s \in Servers : \E i \in 1..Len(c.order) :
       \A j \in 1..Len(c.order) : c.order[j] = s <=> j = i
  /\ MaxFaults \in Nat

\* RKE2 shows the release asked for: its name is a part of what `rke2 --version` says, as
\* +rke2r1 is of +rke2r10.
Shows(installed, asked) == installed = asked \/ <<asked, installed>> \in PartOf

Order(r) == config[r].order
Server(r) == Order(r)[host[r]]
Busy(r) == at[r] \notin {"idle", "failed", "succeeded"}

\* The servers are new: no RKE2, no configuration.
Init ==
  /\ ArtifactsInit
  /\ host = [r \in Runs |-> 1] /\ absent = [r \in Runs |-> FALSE]
  /\ remote = [s \in Servers |-> [f \in Files |-> None]]
  /\ bin = [s \in Servers |-> None] /\ conf = [s \in Servers |-> None]
  /\ wanted = [s \in Servers |-> FALSE] /\ up = [s \in Servers |-> FALSE]
  /\ member = [s \in Servers |-> None]
  /\ overlap = FALSE

\* The runner starts.
Begin(r) ==
  /\ at[r] = "idle"
  /\ Goto(r, "prepare")
  /\ overlap' = (overlap \/ \E q \in Runs : Busy(q))
  /\ UNCHANGED <<artifacts, faults, servers>>

\* The manifest is the approved one and the checksum still holds.
CheckArtifacts(r) ==
  /\ at[r] = "artifacts"
  /\ Goto(r, IF manifest = Asked(r) /\ Verifies(cached["binary"], cached["checksum"])
             THEN "inspect" ELSE "failed")
  /\ UNCHANGED <<artifacts, faults, servers, overlap>>

\* An RKE2 of another version is left alone; what was absent is remembered.
InspectExisting(r) ==
  /\ at[r] = "inspect"
  /\ absent' = [absent EXCEPT ![r] = bin[Server(r)] = None]
  /\ Goto(r, IF bin[Server(r)] = None \/ Shows(bin[Server(r)].version, Version(r))
             THEN "copyBinary" ELSE "failed")
  /\ UNCHANGED <<artifacts, faults, host, remote, bin, conf, wanted, member, up, overlap>>

\* The files are copied one after the other, as they are in the cache by then.
Transfer(r, f, pos, next) ==
  /\ at[r] = pos
  /\ remote' = [remote EXCEPT ![Server(r)][f] =
       File(cached[f].version, {}, cached[f].torn \/ cached[f].writers # {})]
  /\ Goto(r, next)
  /\ UNCHANGED <<artifacts, faults, host, absent, bin, conf, wanted, member, up, overlap>>
TransferBinary(r) == Transfer(r, "binary", "copyBinary", "copyChecksum")
TransferChecksum(r) == Transfer(r, "checksum", "copyChecksum", "configure")

\* config.yaml is written whatever was there, with the token of this run.
RenderConfig(r) ==
  /\ at[r] = "configure"
  /\ conf' = [conf EXCEPT ![Server(r)] =
       [token |-> r, server |-> IF host[r] = 1 THEN None ELSE Order(r)[1]]]
  /\ Goto(r, "install")
  /\ UNCHANGED <<artifacts, faults, host, absent, remote, bin, wanted, member, up, overlap>>

\* install.sh unpacks the archive if its checksum is right; only where RKE2 was absent.
Install(r) ==
  /\ at[r] = "install"
  /\ LET s == Server(r) IN
     IF ~absent[r] THEN Goto(r, "start") /\ bin' = bin
     ELSE IF Verifies(remote[s]["binary"], remote[s]["checksum"])
     THEN /\ bin' = [bin EXCEPT ![s] = [version |-> remote[s]["binary"].version, by |-> r]]
          /\ Goto(r, "start")
     ELSE Goto(r, "failed") /\ bin' = bin
  /\ UNCHANGED <<artifacts, faults, host, absent, remote, conf, wanted, member, up, overlap>>

\* Whether a server that starts now comes up, and with which cluster.
ComesUp(s) ==
  /\ bin[s] # None
  /\ IF member[s] # None THEN member[s] = conf[s].token ELSE
     LET first == conf[s].server IN first # None => up[first] /\ member[first] = conf[s].token
Comes(s) ==
  /\ up' = [up EXCEPT ![s] = TRUE]
  /\ member' = [member EXCEPT ![s] = conf[s].token]

\* state: started does nothing to a service that runs, or is being tried again and again.
\* Bug: state: restarted, so that a rerun brings its own configuration into effect.
RestartServer(r) ==
  /\ at[r] = "start"
  /\ wanted' = [wanted EXCEPT ![Server(r)] = TRUE]
  /\ IF ComesUp(Server(r))
     THEN Goto(r, "ready") /\ Comes(Server(r))
     ELSE Goto(r, "failed") /\ up' = [up EXCEPT ![Server(r)] = FALSE] /\ member' = member
  /\ UNCHANGED <<artifacts, faults, host, absent, remote, bin, conf, overlap>>

StartServer(r) ==
  /\ at[r] = "start"
  /\ wanted' = [wanted EXCEPT ![Server(r)] = TRUE]
  /\ IF wanted[Server(r)] THEN Goto(r, "ready") /\ UNCHANGED <<up, member>>
     ELSE IF ComesUp(Server(r)) THEN Goto(r, "ready") /\ Comes(Server(r))
     ELSE Goto(r, "failed") /\ UNCHANGED <<up, member>>
  /\ UNCHANGED <<artifacts, faults, host, absent, remote, bin, conf, overlap>>

\* The API answers within its retries and RKE2 shows the approved version, or the server
\* fails.  The next one follows, and behind the last the count.
\* Bug: the run goes on to a server behind the last.
ReadyForever(r) ==
  /\ at[r] = "ready"
  /\ IF ~up[Server(r)] \/ ~Shows(bin[Server(r)].version, Version(r))
     THEN Goto(r, "failed") /\ host' = host
     ELSE host' = [host EXCEPT ![r] = @ + 1] /\ Goto(r, "artifacts")
  /\ UNCHANGED <<artifacts, faults, absent, remote, bin, conf, wanted, member, up, overlap>>

\* Bug: the version that was installed is not looked at.
ReadyWithoutVersion(r) ==
  /\ at[r] = "ready"
  /\ IF ~up[Server(r)] THEN Goto(r, "failed") /\ host' = host
     ELSE IF host[r] = Len(Order(r)) THEN Goto(r, "count") /\ host' = host
     ELSE host' = [host EXCEPT ![r] = @ + 1] /\ Goto(r, "artifacts")
  /\ UNCHANGED <<artifacts, faults, absent, remote, bin, conf, wanted, member, up, overlap>>

ServerReady(r) ==
  /\ at[r] = "ready"
  /\ IF ~up[Server(r)] \/ ~Shows(bin[Server(r)].version, Version(r))
     THEN Goto(r, "failed") /\ host' = host
     ELSE IF host[r] = Len(Order(r)) THEN Goto(r, "count") /\ host' = host
     ELSE host' = [host EXCEPT ![r] = @ + 1] /\ Goto(r, "artifacts")
  /\ UNCHANGED <<artifacts, faults, absent, remote, bin, conf, wanted, member, up, overlap>>

\* The last server is asked how many nodes of its cluster are Ready; the answer may come
\* to be right while the run is asking.  That the pods of etcd and Cilium run by then is up
\* to RKE2: where they do not, the task that looks at them fails like any other (Cut).
ReadyNodes(s) == {n \in Servers : member[n] = member[s] /\ up[n]}
\* Bug: the count is not taken.
CountNothing(r) ==
  /\ at[r] = "count"
  /\ Goto(r, "succeeded")
  /\ UNCHANGED <<artifacts, faults, servers, overlap>>

CountServers(r) ==
  /\ at[r] = "count"
  /\ Goto(r, IF Cardinality(ReadyNodes(Server(r))) = Len(Order(r)) THEN "succeeded" ELSE "failed")
  /\ UNCHANGED <<artifacts, faults, servers, overlap>>

\* systemd starts a service that is wanted again until it comes up.
ServiceRetries(s) ==
  /\ wanted[s] /\ ~up[s] /\ ComesUp(s)
  /\ Comes(s)
  /\ UNCHANGED <<artifacts, at, faults, host, absent, remote, bin, conf, wanted, overlap>>

\* A server goes down; whether it comes up again its configuration decides.
GoesDown(s) ==
  /\ up[s] /\ faults < MaxFaults
  /\ up' = [up EXCEPT ![s] = FALSE]
  /\ faults' = faults + 1
  /\ UNCHANGED <<artifacts, at, host, absent, remote, bin, conf, wanted, member, overlap>>

Prepares(r) == Fetches(r) /\ UNCHANGED <<servers, overlap>>
Role(r) ==
  \/ CheckArtifacts(r) \/ InspectExisting(r) \/ TransferBinary(r) \/ TransferChecksum(r)
  \/ RenderConfig(r) \/ Install(r) \/ StartServer(r) \/ ServerReady(r) \/ CountServers(r)
RunStep(r) == Begin(r) \/ Prepares(r) \/ Role(r)
Next ==
  \/ \E r \in Runs : RunStep(r)
  \/ \E s \in Servers : ServiceRetries(s) \/ GoesDown(s)
Spec == Init /\ [][Next]_vars
-----------------------------------------------------------------------------
Positions == {"idle", "prepare", "fetch", "write", "move", "verify", "manifest", "artifacts",
  "inspect", "copyBinary", "copyChecksum", "configure", "install", "start", "ready", "count",
  "failed", "succeeded"}
Releases == {c.version : c \in Configs}
FileRecords == [version : Releases \cup {Mixed}, writers : SUBSET Runs, torn : BOOLEAN]
FileType == {None} \cup FileRecords
Installs == [version : Releases, by : Runs]
Settings == [token : Runs, server : {None} \cup Servers]

ASSUME NoneAssumption ==
  /\ None \notin FileRecords \cup Installs \cup Settings \cup Runs
  /\ None \notin Servers /\ Mixed \notin Releases

\* Every variable stays within its values.
TypeOK ==
  /\ config \in [Runs -> Configs] /\ at \in [Runs -> Positions]
  /\ file \in [Runs -> Files] /\ part \in [Files -> FileType] /\ cached \in [Files -> FileType]
  /\ manifest \in {None} \cup {<<c.version, c.mode>> : c \in Configs}
  /\ faults \in 0..MaxFaults /\ overlap \in BOOLEAN
  /\ host \in [Runs -> Nat] /\ \A r \in Runs : host[r] \in 1..Len(Order(r))
  /\ absent \in [Runs -> BOOLEAN] /\ remote \in [Servers -> [Files -> FileType]]
  /\ bin \in [Servers -> {None} \cup Installs]
  /\ conf \in [Servers -> {None} \cup Settings]
  /\ wanted \in [Servers -> BOOLEAN] /\ member \in [Servers -> {None} \cup Runs]
  /\ up \in [Servers -> BOOLEAN]

\* What a run that succeeded has installed shows the release that was approved for it,
\* although the cache it was copied from may have changed hands between the check of
\* the manifest and the copy (role local_rke2, "Transfer the approved binary").
InstalledAsApproved ==
  \A r \in Runs : at[r] = "succeeded" =>
    \A s \in Servers : bin[s] # None /\ bin[s].by = r => Shows(bin[s].version, Version(r))

\* A run that succeeded has left its servers in one cluster, whatever runs with other
\* tokens and another first server did to them ("Require three Ready servers").
SuccessIsOneCluster ==
  \A r \in Runs : at[r] = "succeeded" =>
    \E t \in Runs : \A i \in 1..Len(Order(r)) : member[Order(r)[i]] = t

\* Without a fault, and one after the other, runs of one release never fail: a rerun
\* neither reinstalls nor restarts what an earlier run has brought up, although it gives
\* every server a token that is not the one of its cluster.
RerunSucceeds ==
  faults = 0 /\ ~overlap /\ (\A r, q \in Runs : Asked(r) = <<Version(q), "online">>)
    => \A r \in Runs : at[r] # "failed"
=============================================================================
