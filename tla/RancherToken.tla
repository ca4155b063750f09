--------------------------- MODULE RancherToken ---------------------------
(***************************************************************************)
(* prepare-rancher-api-token.py, which every downstream run starts before  *)
(* terraform: Rancher answers, its server-url is the approved one or is    *)
(* set for the first time, and one API token is issued, tried and kept in  *)
(* the directory of the run as two files.  All runs talk to one Rancher,   *)
(* in several requests each.                                               *)
(***************************************************************************)
EXTENDS Naturals, Sequences, FiniteSets

CONSTANTS
  Runs,      \* downstream runs
  Configs,   \* what a run may ask for: records with name, url, cps and workers
  MaxFaults, \* bound on runs cut short and killed runners started again
  None       \* no url, no cluster

VARIABLES
  config,    \* the configuration of each run
  at,        \* its position
  url,       \* Rancher's setting server-url
  issued,    \* API tokens issued to each run
  kept,      \* what is in its directory: "nothing", "key", "both"
  faults     \* faults so far

rancher == <<config, url, issued, kept>>

\* A new directory for every run, and a Rancher somebody may have been using.
TokenInit ==
  /\ config \in [Runs -> Configs]
  /\ at = [r \in Runs |-> "idle"]
  /\ url \in {None} \cup {c.url : c \in Configs}
  /\ issued = [r \in Runs |-> 0] /\ kept = [r \in Runs |-> "nothing"]
  /\ faults = 0

Goto(r, p) == at' = [at EXCEPT ![r] = p]
Busy(r) == at[r] \notin {"idle", "failed", "cut", "killed", "succeeded"}

\* One file without the other is an error; with both the token is used again.
CheckCheckpoint(r) ==
  /\ at[r] = "ping"
  /\ Goto(r, IF kept[r] = "key" THEN "failed" ELSE "read")
  /\ UNCHANGED <<rancher, faults>>

\* What follows ensure_server_url.
AfterUrl(r) == IF kept[r] = "nothing" THEN "create" ELSE "apply"

\* Bug: a server-url of others is taken for an empty one.
ReadAnyUrl(r) ==
  /\ at[r] = "read"
  /\ Goto(r, IF url = config[r].url THEN AfterUrl(r) ELSE "put")
  /\ UNCHANGED <<rancher, faults>>

\* Another server-url than the approved one is refused, none at all is set.
ReadServerUrl(r) ==
  /\ at[r] = "read"
  /\ Goto(r, IF url = None THEN "put"
             ELSE IF url = config[r].url THEN AfterUrl(r) ELSE "failed")
  /\ UNCHANGED <<rancher, faults>>

PutServerUrl(r) ==
  /\ at[r] = "put"
  /\ url' = config[r].url
  /\ Goto(r, "confirm")
  /\ UNCHANGED <<config, issued, kept, faults>>

ConfirmServerUrl(r) ==
  /\ at[r] = "confirm"
  /\ Goto(r, IF url = config[r].url THEN AfterUrl(r) ELSE "failed")
  /\ UNCHANGED <<rancher, faults>>

\* The token is issued and tried, then written, then described.
CreateApiToken(r) ==
  /\ at[r] = "create"
  /\ issued' = [issued EXCEPT ![r] = @ + 1]
  /\ Goto(r, "write")
  /\ UNCHANGED <<config, url, kept, faults>>
WriteToken(r) ==
  /\ at[r] = "write"
  /\ kept' = [kept EXCEPT ![r] = "key"]
  /\ Goto(r, "describe")
  /\ UNCHANGED <<config, url, issued, faults>>
WriteMetadata(r) ==
  /\ at[r] = "describe"
  /\ kept' = [kept EXCEPT ![r] = "both"]
  /\ Goto(r, "apply")
  /\ UNCHANGED <<config, url, issued, faults>>

\* A request or a command fails, or the run is interrupted; a runner that is killed
\* outright, with its host, does not get to its EXIT trap.  A run that finds by itself
\* that it cannot go on is "failed".
Cut(r) ==
  /\ Busy(r) /\ faults < MaxFaults
  /\ Goto(r, "cut") \/ Goto(r, "killed")
  /\ faults' = faults + 1
  /\ UNCHANGED rancher

PreparesToken(r) ==
  \/ CheckCheckpoint(r) \/ ReadServerUrl(r) \/ PutServerUrl(r) \/ ConfirmServerUrl(r)
  \/ CreateApiToken(r) \/ WriteToken(r) \/ WriteMetadata(r) \/ Cut(r)
=============================================================================
