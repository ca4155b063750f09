------------------------------ MODULE Pipeline ------------------------------
(***************************************************************************)
(* What an approved workflow is to its client: components run one at a     *)
(* time, in the order of the plan, each after the one before it succeeded; *)
(* the first failure ends the run, and the run succeeds when the last      *)
(* component has.  Workflow.tla is the thread that carries this out.       *)
(***************************************************************************)
EXTENDS Naturals, Sequences

VARIABLES
  order,   \* the components of the plan
  done,    \* those that succeeded
  active,  \* the one that is running, if any
  verdict  \* of the run

vars == <<order, done, active, verdict>>

First(n) == {order[i] : i \in 1..n}
All == First(Len(order))

Begin ==
  /\ verdict = "OPEN" /\ active = {}
  /\ \E i \in DOMAIN order : done = First(i - 1) /\ active' = {order[i]}
  /\ UNCHANGED <<order, done, verdict>>

Finish ==
  /\ active # {}
  /\ done' = done \cup active /\ active' = {}
  /\ UNCHANGED <<order, verdict>>

Fail ==
  /\ verdict = "OPEN" /\ done # All
  /\ verdict' = "FAILED" /\ active' = {}
  /\ UNCHANGED <<order, done>>

Succeed ==
  /\ verdict = "OPEN" /\ done = All
  /\ verdict' = "SUCCEEDED"
  /\ UNCHANGED <<order, done, active>>

Init == done = {} /\ active = {} /\ verdict = "OPEN"

Next == Begin \/ Finish \/ Fail \/ Succeed

Spec == Init /\ [][Next]_vars
=============================================================================
