--------------------------- MODULE ArtifactLookup ---------------------------
(***************************************************************************)
(* The artifact a rancher or downstream run reuses: the lookup of          *)
(* latest_succeeded_component_run (storage.py) over a table of runs that   *)
(* other threads are still writing.                                        *)
(*                                                                         *)
(* The lookup reads all runs of a configuration in one SELECT, newest      *)
(* created_at first, and takes the first that succeeded with the           *)
(* component.  created_at is text: an ISO time with six decimals, and with *)
(* none at all when the microsecond is zero, so the order is that of the   *)
(* texts.  A workflow persists the success of its components one by one    *)
(* and its own at the end; a component run persists both at once.          *)
(***************************************************************************)
EXTENDS Naturals, FiniteSets

CONSTANTS
  RunIds,      \* run ids
  Digests,     \* configuration digests
  Targets,     \* the target_components to explore, see Scopes
  MaxTime,     \* bound on the clock, in units of a fraction of a second
  TicksPerSec, \* how many units make a second
  None

ComponentOrder == <<"vm", "node-init", "local-rke2", "rancher", "downstream">>
Components == {ComponentOrder[i] : i \in 1..5}
Prefix(n) == {ComponentOrder[i] : i \in 1..n}

\* Single components, and workflows (start_workflow takes no others).
Scopes == {{c} : c \in Components} \cup {Prefix(n) : n \in 2..5}

VARIABLES
  now,  \* the clock, in units
  runs  \* table runs

vars == <<now, runs>>

HasRow(r) == runs[r] # None

Second(t) == t \div TicksPerSec
Fraction(t) == t % TicksPerSec

\* _iso: a text without decimals ends in "Z", which sorts after the "." of one with.
TextBefore(s, t) ==
  \/ Second(s) < Second(t)
  \/ Second(s) = Second(t) /\ Fraction(s) # 0 /\ (Fraction(t) = 0 \/ Fraction(s) < Fraction(t))

\* The runs the lookup accepts.
Matches(d, c) ==
  {r \in RunIds : /\ HasRow(r) /\ runs[r].digest = d /\ runs[r].state = "SUCCEEDED"
                  /\ c \in runs[r].target /\ c \in runs[r].succeeded}

\* The first match, created_at texts descending; SQLite leaves open in which order
\* rows with equal texts come.  The empty set stands for None.
LatestSucceededComponentRun(d, c) ==
  {r \in Matches(d, c) :
     \A s \in Matches(d, c) : ~TextBefore(runs[r].created, runs[s].created)}

-----------------------------------------------------------------------------

\* save_run of start_run or start_workflow (the run is not told from a queued one).
Create(r, d, target) ==
  /\ ~HasRow(r)
  /\ runs' = [runs EXCEPT ![r] = [digest |-> d, target |-> target, created |-> now,
                                  state |-> "RUNNING", succeeded |-> {}]]
  /\ UNCHANGED now

Open(r) == HasRow(r) /\ runs[r].state = "RUNNING"

\* _set_workflow_component: the next component of a workflow succeeded.
ComponentSucceeds(r) ==
  /\ Open(r) /\ Cardinality(runs[r].target) > 1 /\ runs[r].succeeded # runs[r].target
  /\ runs' = [runs EXCEPT ![r].succeeded = Prefix(Cardinality(@) + 1)]
  /\ UNCHANGED now

\* The last step of _run_workflow that writes the row, or _complete_component_run.
RunSucceeds(r) ==
  /\ Open(r)
  /\ Cardinality(runs[r].target) > 1 => runs[r].succeeded = runs[r].target
  /\ runs' = [runs EXCEPT ![r].state = "SUCCEEDED", ![r].succeeded = runs[r].target]
  /\ UNCHANGED now

RunFails(r) ==
  /\ Open(r) /\ runs[r].succeeded # runs[r].target
  /\ runs' = [runs EXCEPT ![r].state = "FAILED"]
  /\ UNCHANGED now

Tick == now < MaxTime /\ now' = now + 1 /\ UNCHANGED runs

Init == now = 0 /\ runs = [r \in RunIds |-> None]

Next ==
  \/ \E r \in RunIds :
       \/ \E d \in Digests, target \in Targets : Create(r, d, target)
       \/ ComponentSucceeds(r) \/ RunSucceeds(r) \/ RunFails(r)
  \/ Tick

Spec == Init /\ [][Next]_vars

-----------------------------------------------------------------------------

\* The runs that are over and had the component among their targets.
Usable(d, c) ==
  {r \in RunIds : /\ HasRow(r) /\ runs[r].digest = d /\ c \in runs[r].target
                  /\ runs[r].state = "SUCCEEDED"}

\* The docstring: "the newest successful run containing the component"
\* (storage.py:195), so no usable run was created later than the one returned.
ReturnsNewest ==
  \A d \in Digests, c \in Components :
    \A r \in LatestSucceededComponentRun(d, c), s \in Usable(d, c) :
      runs[s].created <= runs[r].created
=============================================================================
