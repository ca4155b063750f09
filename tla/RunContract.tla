---------------------------- MODULE RunContract ----------------------------
(***************************************************************************)
(* What the service promises about runs and idempotency keys, without the  *)
(* calls, transactions and threads it takes (those are in RunService.tla). *)
(*                                                                         *)
(* A key is bound at most once and for good, to a run created under it.    *)
(* Only the bound run of a key is ever started or handed to the control    *)
(* host, and that happens once.  A run moves from the queue to its end and *)
(* never back, and succeeds only after it was executed.  A run that was    *)
(* created and not bound stays in the queue for ever.                      *)
(***************************************************************************)
EXTENDS Naturals

CONSTANTS Keys, RunIds, None

VARIABLES
  status,  \* the state of each run
  owner,   \* the key each run was created under
  bound,   \* the run each key names
  begun    \* how often the run was handed to the control host

vars == <<status, owner, bound, begun>>

Bound(r) == owner[r] \in Keys /\ bound[owner[r]] = r

Create(r, k) ==
  /\ status[r] = "ABSENT"
  /\ status' = [status EXCEPT ![r] = "QUEUED"]
  /\ owner' = [owner EXCEPT ![r] = k]
  /\ UNCHANGED <<bound, begun>>

Bind(r, k) ==
  /\ bound[k] = None /\ owner[r] = k /\ status[r] = "QUEUED"
  /\ bound' = [bound EXCEPT ![k] = r]
  /\ UNCHANGED <<status, owner, begun>>

Start(r) ==
  /\ Bound(r) /\ status[r] = "QUEUED"
  /\ status' = [status EXCEPT ![r] = "RUNNING"]
  /\ UNCHANGED <<owner, bound, begun>>

Begin(r) ==
  /\ Bound(r) /\ status[r] = "RUNNING" /\ begun[r] = 0
  /\ begun' = [begun EXCEPT ![r] = 1]
  /\ UNCHANGED <<status, owner, bound>>

Succeed(r) ==
  /\ status[r] = "RUNNING" /\ begun[r] = 1
  /\ status' = [status EXCEPT ![r] = "SUCCEEDED"]
  /\ UNCHANGED <<owner, bound, begun>>

Fail(r) ==
  /\ Bound(r) /\ status[r] \in {"QUEUED", "RUNNING"}
  /\ status' = [status EXCEPT ![r] = "FAILED"]
  /\ UNCHANGED <<owner, bound, begun>>

Init ==
  /\ status = [r \in RunIds |-> "ABSENT"]
  /\ owner = [r \in RunIds |-> None]
  /\ bound = [k \in Keys |-> None]
  /\ begun = [r \in RunIds |-> 0]

Next ==
  \E r \in RunIds :
    \/ \E k \in Keys : Create(r, k) \/ Bind(r, k)
    \/ Start(r) \/ Begin(r) \/ Succeed(r) \/ Fail(r)

Spec == Init /\ [][Next]_vars
=============================================================================
