--------------------------- MODULE Rke2Artifacts ---------------------------
(***************************************************************************)
(* The directory of RKE2 artifacts on the control host, and the script     *)
(* prepare-rke2-artifacts.sh that every local-rke2 run starts on it.       *)
(*                                                                         *)
(* The directory is one for all runs, its file names carry no version, and *)
(* a download goes through one ".part" file per name.  A file is written   *)
(* through a descriptor that stays with it when it is renamed, so a run    *)
(* may still be writing what another has already moved into place.  Two    *)
(* files matter, the binary archive and the checksums it is verified with: *)
(* the installer is a third download with nothing to compare it with, and  *)
(* image archives are treated like the binary.                             *)
(***************************************************************************)
EXTENDS Naturals, Sequences, FiniteSets

CONSTANTS
  Runs,      \* local-rke2 runs on one control host
  Configs,   \* what a run may ask for: records with version, mode and order
  MaxFaults, \* bound on runs cut short and servers that do not come up again
  None,      \* no file, no server
  Mixed      \* the version of a file two runs wrote different releases into

VARIABLES
  config,    \* the configuration of each run
  at,        \* its position
  file,      \* the file it is fetching
  part,      \* the .part file of each name
  cached,    \* the file in place
  manifest,  \* the version and mode the manifest names
  faults     \* faults so far

Files == {"binary", "checksum"}
Version(r) == config[r].version
Asked(r) == <<config[r].version, config[r].mode>>

\* A file: the release in it, who still writes it, and whether a writer died on it.
File(v, W, t) == [version |-> v, writers |-> W, torn |-> t]
Whole(f) == f # None /\ f.writers = {} /\ ~f.torn /\ f.version # Mixed
Verifies(b, c) == Whole(b) /\ Whole(c) /\ b.version = c.version

\* What the cache holds at first: nothing, or what somebody put there.
ArtifactsInit ==
  /\ config \in [Runs -> Configs]
  /\ at = [r \in Runs |-> "idle"] /\ file = [r \in Runs |-> "binary"]
  /\ part = [f \in Files |-> None]
  /\ \E v \in {None} \cup {c.version : c \in Configs} :
       /\ cached = [f \in Files |-> IF v = None THEN None ELSE File(v, {}, FALSE)]
       /\ manifest = None
  /\ faults = 0

Goto(r, p) == at' = [at EXCEPT ![r] = p]

\* The script begins: online it downloads, offline the files have to be there.
Prepare(r) ==
  /\ at[r] = "prepare"
  /\ Goto(r, IF config[r].mode = "online" THEN "fetch"
             ELSE IF \E f \in Files : cached[f] = None THEN "failed" ELSE "verify")
  /\ UNCHANGED <<config, file, part, cached, manifest, faults>>

\* curl opens the .part file and empties it, whoever writes it.
Opened(f, r) ==
  IF f = None THEN File(Version(r), {r}, FALSE) ELSE
  IF f.writers = {} THEN File(Version(r), {r}, FALSE)
  ELSE File(IF f.version = Version(r) THEN f.version ELSE Mixed, f.writers \cup {r}, f.torn)
Open(r) ==
  /\ at[r] = "fetch"
  /\ part' = [part EXCEPT ![file[r]] = Opened(@, r)]
  /\ Goto(r, "write")
  /\ UNCHANGED <<config, file, cached, manifest, faults>>

\* A writer lets go of its file, wherever that is by now.
LetGo(f, r, t) == IF f = None THEN f ELSE
                  IF r \in f.writers THEN File(f.version, f.writers \ {r}, f.torn \/ t) ELSE f
LetsGo(r, t) ==
  /\ part' = [f \in Files |-> LetGo(part[f], r, t)]
  /\ cached' = [f \in Files |-> LetGo(cached[f], r, t)]
Write(r) ==
  /\ at[r] = "write"
  /\ LetsGo(r, FALSE)
  /\ Goto(r, "move")
  /\ UNCHANGED <<config, file, manifest, faults>>

\* mv -f of the .part file, which another run may have moved already.
Move(r) ==
  /\ at[r] = "move"
  /\ IF part[file[r]] = None
     THEN Goto(r, "failed") /\ UNCHANGED <<file, part, cached>>
     ELSE /\ cached' = [cached EXCEPT ![file[r]] = part[file[r]]]
          /\ part' = [part EXCEPT ![file[r]] = None]
          /\ file' = [file EXCEPT ![r] = "checksum"]
          /\ Goto(r, IF file[r] = "binary" THEN "fetch" ELSE "verify")
  /\ UNCHANGED <<config, manifest, faults>>

\* verify_release_file: the sum of the binary is the one the checksums name.
VerifyReleaseFile(r) ==
  /\ at[r] = "verify"
  /\ Goto(r, IF Verifies(cached["binary"], cached["checksum"]) THEN "manifest" ELSE "failed")
  /\ UNCHANGED <<config, file, part, cached, manifest, faults>>

\* The manifest names what was asked for.
WriteManifest(r) ==
  /\ at[r] = "manifest"
  /\ manifest' = Asked(r)
  /\ Goto(r, "artifacts")
  /\ UNCHANGED <<config, file, part, cached, faults>>

\* A run ends in the middle: a command fails, the container or the connection goes.
\* What it was writing stays, and may be good if another run has written it to its end.
Cut(r) ==
  /\ at[r] \notin {"idle", "failed", "succeeded"} /\ faults < MaxFaults
  /\ \E t \in BOOLEAN : LetsGo(r, t)
  /\ Goto(r, "failed")
  /\ faults' = faults + 1
  /\ UNCHANGED <<config, file, manifest>>

Fetches(r) ==
  Prepare(r) \/ Open(r) \/ Write(r) \/ Move(r) \/ VerifyReleaseFile(r) \/ WriteManifest(r) \/ Cut(r)
=============================================================================
