--------------------------- MODULE WorkflowProofs ---------------------------
(***************************************************************************)
(* The safety of Workflow.tla, and that it implements Pipeline.tla, for    *)
(* any set of nodes, any bound on the wait for them and any number of      *)
(* faults and stops.                                                       *)
(*                                                                         *)
(* The argument: until the thread ends, its position and its stage fix     *)
(* what every component of the plan is: succeeded before the stage,        *)
(* blocked after it.  What the thread leaves when it ends is what it had   *)
(* written before, so it is enough that each write keeps the properties.   *)
(*                                                                         *)
(* That the thread ends needs fairness and stays with TLC; that it has     *)
(* only so many steps to take is a number that each of them decreases.     *)
(***************************************************************************)
EXTENDS Workflow, SequenceTheorems, FiniteSetTheorems, TLAPS

States == {"QUEUED", "BLOCKED", "WAITING", "RUNNING", "SUCCEEDED", "FAILED", "SKIPPED"}
EventTypes == {"QUEUED", "STARTED", "WAITING", "SUCCEEDED", "FAILED", "WORKFLOW_SUCCEEDED",
               "RUNBOOK_RENDERED", "RUNBOOK_AUDIT_FAILED"}
Steps == StoreSteps \cup {"execute", "executing", "probe", "done", "dead"}

TypeOK ==
  /\ scope \in WorkflowScopes
  /\ run \in {"QUEUED", "RUNNING", "SUCCEEDED", "FAILED"}
  /\ component \in [Scope -> States]
  /\ pc \in Steps /\ stage \in 1..Len(scope)
  /\ executed \in Seq(Components)
  /\ answered \subseteq Nodes

Before == \A j \in 1..(stage - 1) : component[scope[j]] = "SUCCEEDED"
After == \A j \in (stage + 1)..Len(scope) : component[scope[j]] = "BLOCKED"

\* Where the thread may be while the run is open, and what it has been executed then.
Preparing == {"start", "log_start", "execute", "wait", "log_wait", "probe"}
Performed == {"executing", "succeeded", "log_success", "finish", "save_success"}
Reporting == {"log_workflow", "log_runbook"}

\* What the position of the thread says of the component of its stage.
Standing ==
  /\ pc \in Preparing \cup Performed \cup {"failed"} => run \notin Terminal /\ Before /\ After
  /\ pc \in Preparing => Len(executed) = stage - 1
  /\ pc \in Performed => Len(executed) = stage
  /\ pc = "failed" => Len(executed) \in {stage - 1, stage}
  /\ pc = "start" => component[Current] \in {"QUEUED", "BLOCKED", "WAITING"}
  /\ pc = "wait" => component[Current] = "BLOCKED"
  /\ pc \in {"wait", "log_wait", "probe"} => stage = 2
  /\ pc \in {"log_wait", "probe"} => component[Current] = "WAITING"
  /\ pc \in {"log_start", "execute", "executing", "succeeded"} => component[Current] = "RUNNING"
  /\ pc = "failed" => component[Current] \in {"WAITING", "RUNNING"}
  /\ pc \in {"log_success", "finish", "save_success"} => component[Current] = "SUCCEEDED"
  /\ pc \in {"finish", "save_success"} => stage = Len(scope)
  /\ pc = "log_failure" => run = "FAILED" /\ component[Current] = "FAILED"
  /\ pc \in Reporting => run = "SUCCEEDED"
  /\ pc \in {"start", "log_start", "execute"} /\ stage > 1 => answered = Nodes

\* The executions so far, by their number.
Executions ==
  /\ Len(executed) <= Len(scope)
  /\ \A i \in 1..Len(executed) : executed[i] = scope[i]
  /\ \A i \in 1..(Len(executed) - 1) : component[scope[i]] = "SUCCEEDED"
  /\ Len(executed) > 1 => answered = Nodes

\* What the end of a run says of its components.
Endings ==
  /\ FailureAccounted
  /\ run = "SUCCEEDED" => /\ Len(executed) = Len(scope)
                          /\ \A j \in 1..Len(scope) : component[scope[j]] = "SUCCEEDED"

Inv == TypeOK /\ Standing /\ Executions /\ Endings

-----------------------------------------------------------------------------
\* A plan names different components, node-init as the second.
LEMMA ScopeFacts ==
  ASSUME NEW s \in WorkflowScopes
  PROVE  /\ s \in Seq(Components) /\ Len(s) \in 2..5 /\ s[1] = "vm" /\ s[2] = "node-init"
         /\ DOMAIN s = 1..Len(s)
         /\ \A i, j \in 1..Len(s) : s[i] = s[j] => i = j
<1>1. PICK n \in 2..5 : s = SubSeq(ComponentOrder, 1, n)
  BY DEF WorkflowScopes
<1>2. \A i \in 1..5 : ComponentOrder[i] \in Components
  BY DEF Components
<1>3. s \in Seq(Components) /\ Len(s) = n /\ \A i \in 1..n : s[i] = ComponentOrder[i]
  BY <1>1, <1>2, SubSeqProperties
<1>4. \A i, j \in 1..5 : ComponentOrder[i] = ComponentOrder[j] => i = j
  BY DEF ComponentOrder
<1>5. ComponentOrder[1] = "vm" /\ ComponentOrder[2] = "node-init"
  BY DEF ComponentOrder
<1> QED BY <1>1, <1>3, <1>4, <1>5

\* A state set for the component of the stage leaves the others alone.
LEMMA SetOne ==
  ASSUME TypeOK, NEW state \in States, component' = [component EXCEPT ![Current] = state],
         UNCHANGED scope
  PROVE  /\ component' \in [Scope -> States] /\ component'[Current] = state
         /\ \A j \in 1..Len(scope) : j # stage => component'[scope[j]] = component[scope[j]]
<1>1. /\ DOMAIN scope = 1..Len(scope) /\ stage \in 1..Len(scope)
      /\ \A i, j \in 1..Len(scope) : scope[i] = scope[j] => i = j
  BY ScopeFacts DEF TypeOK
<1>2. Current \in Scope /\ \A j \in 1..Len(scope) : scope[j] \in Scope
  BY <1>1 DEF Current, Scope
<1> QED BY <1>1, <1>2 DEF TypeOK, Current, Scope

LEMMA InitInv == Init => Inv
<1> SUFFICES ASSUME Init PROVE Inv
  OBVIOUS
<1>1. scope \in WorkflowScopes
  BY WorkflowAssumption DEF Init
<1>2. /\ scope \in Seq(Components) /\ Len(scope) \in 2..5 /\ DOMAIN scope = 1..Len(scope)
      /\ \A i, j \in 1..Len(scope) : scope[i] = scope[j] => i = j
  BY <1>1, ScopeFacts
<1>3. \A j \in 1..Len(scope) :
        component[scope[j]] = IF j = 1 THEN "QUEUED" ELSE "BLOCKED"
  BY <1>2 DEF Init, InitialStates
<1>4. component \in [Scope -> States]
  BY DEF Init, InitialStates, Scope, States
<1>5. TypeOK
  BY <1>1, <1>2, <1>4 DEF Init, TypeOK, Steps, StoreSteps
<1>6. Standing /\ Executions /\ Endings
  BY <1>2, <1>3 DEF Init, Standing, Executions, Endings, FailureAccounted, Before, After, Current,
                    Preparing, Performed, Reporting, Terminal
<1> QED BY <1>5, <1>6 DEF Inv

\* The facts the steps are proved from.
LEMMA StageFacts ==
  ASSUME TypeOK
  PROVE  /\ scope \in Seq(Components) /\ Len(scope) \in 2..5 /\ DOMAIN scope = 1..Len(scope)
         /\ scope[1] = "vm" /\ scope[2] = "node-init"
         /\ \A i, j \in 1..Len(scope) : scope[i] = scope[j] => i = j
         /\ stage \in 1..Len(scope) /\ Current = scope[stage] /\ Current \in Scope
         /\ executed \in Seq(Components) /\ Len(executed) \in Nat
         /\ \A j \in 1..Len(scope) : component[scope[j]] \in States
<1>1. scope \in WorkflowScopes /\ stage \in 1..Len(scope)
  BY DEF TypeOK
<1>2. /\ scope \in Seq(Components) /\ Len(scope) \in 2..5 /\ DOMAIN scope = 1..Len(scope)
      /\ scope[1] = "vm" /\ scope[2] = "node-init"
      /\ \A i, j \in 1..Len(scope) : scope[i] = scope[j] => i = j
  BY <1>1, ScopeFacts
<1>3. \A j \in 1..Len(scope) : scope[j] \in Scope
  BY <1>2 DEF Scope
<1> QED BY <1>1, <1>2, <1>3 DEF TypeOK, Current

\* A step that writes the state of one component and nothing else of the row.
LEMMA SetComponentInv ==
  ASSUME Inv, StageStarts \/ StageSucceeds \/ WaitStarts
  PROVE  Inv'
<1> USE StageFacts DEF Inv, Go, config, environment, probes, report, limits
<1>1. UNCHANGED <<scope, executed, stage, answered>> /\ run' = "RUNNING"
  BY DEF StageStarts, StageSucceeds, WaitStarts, SetComponent
<1>2. PICK state \in States : /\ component' = [component EXCEPT ![Current] = state]
                              /\ StageStarts => state = "RUNNING"
                              /\ StageSucceeds => state = "SUCCEEDED"
                              /\ WaitStarts => state = "WAITING"
  BY DEF StageStarts, StageSucceeds, WaitStarts, SetComponent, States
<1>3. /\ component' \in [Scope -> States] /\ component'[Current] = state
      /\ \A j \in 1..Len(scope) : j # stage => component'[scope[j]] = component[scope[j]]
  BY <1>1, <1>2, SetOne
<1>4. pc \in {"start", "wait", "succeeded"} /\ pc' \in {"log_start", "log_success", "log_wait"}
  BY DEF StageStarts, StageSucceeds, WaitStarts
<1>5. TypeOK'
  BY <1>1, <1>3, <1>4 DEF TypeOK, Steps, StoreSteps, Scope
<1>6. Before' /\ After'
  BY <1>1, <1>3, <1>4 DEF Standing, Before, After, Preparing, Performed
<1>7. Standing'
  <2>1. Current' = Current
    BY <1>1 DEF Current
  <2>2. CASE StageStarts
    <3>0. state = "RUNNING"
      BY <1>2, <2>2
    <3>1. pc = "start" /\ pc' = "log_start"
      BY <2>2 DEF StageStarts
    <3>2. Len(executed) = stage - 1 /\ (stage > 1 => answered = Nodes)
      BY <3>1 DEF Standing, Preparing
    <3> QED BY <1>1, <1>3, <1>6, <2>1, <3>0, <3>1, <3>2
            DEF Standing, Preparing, Performed, Reporting, Terminal
  <2>3. CASE StageSucceeds
    <3>0. state = "SUCCEEDED"
      BY <1>2, <2>3
    <3>1. pc = "succeeded" /\ pc' = "log_success"
      BY <2>3 DEF StageSucceeds
    <3>2. Len(executed) = stage
      BY <3>1 DEF Standing, Performed
    <3> QED BY <1>1, <1>3, <1>6, <2>1, <3>0, <3>1, <3>2
            DEF Standing, Preparing, Performed, Reporting, Terminal
  <2>4. CASE WaitStarts
    <3>0. state = "WAITING"
      BY <1>2, <2>4
    <3>1. pc = "wait" /\ pc' = "log_wait"
      BY <2>4 DEF WaitStarts
    <3>2. Len(executed) = stage - 1 /\ stage = 2
      BY <3>1 DEF Standing, Preparing
    <3> QED BY <1>1, <1>3, <1>6, <2>1, <3>0, <3>1, <3>2
            DEF Standing, Preparing, Performed, Reporting, Terminal
  <2> QED BY <1>4, <2>2, <2>3, <2>4
<1>8. Executions'
  <2>1. Len(executed) \in {stage - 1, stage}
    BY <1>4 DEF Standing, Preparing, Performed
  <2>2. \A i \in 1..(Len(executed) - 1) : i # stage /\ i \in 1..Len(scope)
    BY <2>1
  <2> QED BY <1>1, <1>3, <2>2 DEF Executions
<1>9. Endings'
  BY <1>1 DEF Endings, FailureAccounted
<1> QED BY <1>5, <1>7, <1>8, <1>9

\* A step that leaves row and history alone and goes on with the same stage.
LEMMA GoInv ==
  ASSUME Inv, LogStart \/ ExecuteEnds \/ LogFailure \/ RoundPasses \/ Render \/ LogWorkflow
              \/ LogRunbook \/ Raises \/ Crash
  PROVE  Inv'
<1> USE StageFacts DEF Inv, Go, config, environment, probes, report, limits, row
<1>1. UNCHANGED <<scope, run, component, executed, stage, answered>>
  BY DEF LogStart, ExecuteEnds, LogFailure, RoundPasses, Render, LogWorkflow, LogRunbook, Raises,
         Crash
<1>2. Current' = Current /\ Before' = Before /\ After' = After
  BY <1>1 DEF Current, Before, After
<1>3. TypeOK'
  BY <1>1 DEF TypeOK, Steps, StoreSteps, Scope, LogStart, ExecuteEnds, LogFailure, RoundPasses,
              Render, LogWorkflow, LogRunbook, Raises, Crash
<1>4. Executions' /\ Endings'
  BY <1>1 DEF Executions, Endings, FailureAccounted
<1>5. Standing'
  <2> USE <1>1, <1>2 DEF Standing, Preparing, Performed, Reporting, Terminal
  <2>1. CASE LogStart
    BY <2>1 DEF LogStart
  <2>2. CASE ExecuteEnds
    BY <2>2 DEF ExecuteEnds
  <2>3. CASE LogFailure \/ LogRunbook \/ Crash
    BY <2>3 DEF LogFailure, LogRunbook, Crash
  <2>4. CASE RoundPasses
    BY <2>4 DEF RoundPasses
  <2>5. CASE Render
    BY <2>5 DEF Render
  <2>6. CASE LogWorkflow
    BY <2>6 DEF LogWorkflow
  <2>7. CASE Raises
    BY <2>7 DEF Raises
  <2> QED BY <2>1, <2>2, <2>3, <2>4, <2>5, <2>6, <2>7
<1> QED BY <1>3, <1>4, <1>5

\* The wait for the nodes.
LEMMA ProbeInv ==
  ASSUME Inv, LogWait \/ (\E n \in Nodes : ProbeAnswers(n)) \/ RoundFails
  PROVE  Inv'
<1> USE StageFacts DEF Inv, Go, config, environment, probes, report, limits, row
<1>1. /\ UNCHANGED <<scope, run, component, executed, stage>>
      /\ pc \in {"log_wait", "probe"} /\ pc' \in {"probe", "failed"}
  BY DEF LogWait, ProbeAnswers, RoundFails
<1>2. Current' = Current /\ Before' = Before /\ After' = After
  BY <1>1 DEF Current, Before, After
<1>3. TypeOK'
  <2>1. answered' \subseteq Nodes
    BY DEF TypeOK, LogWait, ProbeAnswers, RoundFails
  <2> QED BY <1>1, <2>1 DEF TypeOK, Steps, StoreSteps, Scope
<1>4. Len(executed) = 1
  <2>1. Len(executed) = stage - 1
    BY <1>1 DEF Standing, Preparing
  <2>2. stage = 2
    BY <1>1 DEF Standing
  <2> QED BY <2>1, <2>2
<1>5. Executions' /\ Endings'
  BY <1>1, <1>4 DEF Executions, Endings, FailureAccounted
<1>6. Standing'
  BY <1>1, <1>2, <1>4 DEF Standing, Preparing, Performed, Reporting, Terminal
<1> QED BY <1>3, <1>5, <1>6

\* The executor of the stage's component is entered.
LEMMA ExecuteInv ==
  ASSUME Inv, Execute
  PROVE  Inv'
<1> USE StageFacts DEF Inv, Go, config, environment, probes, report, limits, row
<1>1. /\ UNCHANGED <<scope, run, component, stage, answered>> /\ pc = "execute" /\ pc' = "executing"
      /\ executed' = Append(executed, Current)
  BY DEF Execute
<1>2. Len(executed) = stage - 1 /\ (stage > 1 => answered = Nodes)
      /\ \A j \in 1..(stage - 1) : component[scope[j]] = "SUCCEEDED"
  BY <1>1 DEF Standing, Preparing, Before
<1>3. Current \in Components
  BY DEF TypeOK
<1>4. /\ executed' \in Seq(Components) /\ Len(executed') = stage /\ executed'[stage] = scope[stage]
      /\ \A i \in 1..(stage - 1) : executed'[i] = executed[i]
  BY <1>1, <1>2, <1>3, AppendProperties
<1>5. Current' = Current /\ Before' = Before /\ After' = After
  BY <1>1 DEF Current, Before, After
<1>6. TypeOK'
  BY <1>1, <1>4 DEF TypeOK, Steps, StoreSteps, Scope
<1>7. Executions'
  BY <1>1, <1>2, <1>4 DEF Executions
<1>8. Endings'
  BY <1>1 DEF Endings, FailureAccounted, Standing, Preparing, Terminal
<1>9. Standing'
  BY <1>1, <1>4, <1>5 DEF Standing, Preparing, Performed, Reporting, Terminal
<1> QED BY <1>6, <1>7, <1>8, <1>9

\* The next stage, or the end of the last.
LEMMA LogSuccessInv ==
  ASSUME Inv, LogSuccess
  PROVE  Inv'
<1> USE StageFacts DEF Inv, Go, config, environment, probes, report, limits, row
<1>1. UNCHANGED <<scope, run, component, executed, answered>> /\ pc = "log_success"
  BY DEF LogSuccess
<1>2. /\ \/ stage = Len(scope) /\ pc' = "finish" /\ stage' = stage
         \/ /\ stage < Len(scope) /\ stage' = stage + 1
            /\ pc' = IF stage + 1 = 2 THEN "wait" ELSE "start"
  BY DEF LogSuccess
<1>3. TypeOK'
  BY <1>1, <1>2 DEF TypeOK, Steps, StoreSteps, Scope
<1>4. Executions' /\ Endings'
  BY <1>1 DEF Executions, Endings, FailureAccounted
<1>5. /\ Len(executed) = stage /\ run \notin Terminal /\ component[scope[stage]] = "SUCCEEDED"
      /\ \A j \in 1..(stage - 1) : component[scope[j]] = "SUCCEEDED"
      /\ \A j \in (stage + 1)..Len(scope) : component[scope[j]] = "BLOCKED"
      /\ stage > 1 => answered = Nodes
  BY <1>1 DEF Standing, Performed, Before, After, Executions
<1>6. Before' /\ After'
  BY <1>1, <1>2, <1>5 DEF Before, After
<1>7. Current' = scope[stage']
  BY <1>1 DEF Current
<1>8. Standing'
  BY <1>1, <1>2, <1>5, <1>6, <1>7 DEF Standing, Preparing, Performed, Reporting, Terminal
<1> QED BY <1>3, <1>4, <1>8

\* The row of a failure: what is before the stage has succeeded, what is after is skipped.
LEMMA StageFailsInv ==
  ASSUME Inv, StageFails
  PROVE  Inv'
<1> USE StageFacts DEF Inv, Go, config, environment, probes, report, limits, row
<1>1. /\ UNCHANGED <<scope, executed, stage, answered>> /\ pc = "failed" /\ pc' = "log_failure"
      /\ run' = "FAILED"
      /\ component' = [d \in DOMAIN component |->
           IF d = Current THEN "FAILED"
           ELSE IF component[d] \in {"BLOCKED", "WAITING"} THEN "SKIPPED" ELSE component[d]]
  BY DEF StageFails, FinishFailure
<1>2. component \in [Scope -> States] /\ Scope' = Scope
  BY <1>1 DEF TypeOK, Scope
<1>3. component' \in [Scope -> States]
  BY <1>1, <1>2 DEF States
<1>4. \A j \in 1..Len(scope) : scope[j] \in Scope
  BY DEF Scope
<1>5. /\ Len(executed) \in {stage - 1, stage}
      /\ \A j \in 1..(stage - 1) : component[scope[j]] = "SUCCEEDED"
      /\ \A j \in (stage + 1)..Len(scope) : component[scope[j]] = "BLOCKED"
  BY <1>1 DEF Standing, Before, After
<1>6. /\ component'[scope[stage]] = "FAILED"
      /\ \A j \in 1..(stage - 1) : component'[scope[j]] = "SUCCEEDED"
      /\ \A j \in (stage + 1)..Len(scope) : component'[scope[j]] = "SKIPPED"
  BY <1>1, <1>2, <1>4, <1>5
<1>7. TypeOK'
  BY <1>1, <1>2, <1>3 DEF TypeOK, Steps, StoreSteps
<1>8. Executions'
  BY <1>1, <1>5, <1>6 DEF Executions
<1>9. Endings'
  <2>1. stage \in DOMAIN scope
    OBVIOUS
  <2>2. \E i \in DOMAIN scope :
          /\ component'[scope[i]] = "FAILED"
          /\ \A j \in 1..(i - 1) : component'[scope[j]] = "SUCCEEDED"
          /\ \A j \in (i + 1)..Len(scope) : component'[scope[j]] = "SKIPPED"
    BY <1>1, <1>6, <2>1
  <2>3. scope' = scope /\ run' = "FAILED"
    BY <1>1
  <2>4. FailureAccounted'
    BY <2>2, <2>3 DEF FailureAccounted
  <2> QED BY <2>3, <2>4 DEF Endings
<1>10. Standing'
  BY <1>1, <1>6 DEF Standing, Preparing, Performed, Reporting, Current
<1> QED BY <1>7, <1>8, <1>9, <1>10

\* The row of a success.
LEMMA SaveSuccessInv ==
  ASSUME Inv, SaveSuccess
  PROVE  Inv'
<1> USE StageFacts DEF Inv, Go, config, environment, probes, report, limits, row
<1>1. /\ UNCHANGED <<scope, component, executed, stage, answered>> /\ pc = "save_success"
      /\ pc' = "log_workflow" /\ run' = "SUCCEEDED"
  BY DEF SaveSuccess
<1>2. /\ stage = Len(scope) /\ Len(executed) = stage /\ component[scope[stage]] = "SUCCEEDED"
      /\ \A j \in 1..(stage - 1) : component[scope[j]] = "SUCCEEDED"
  BY <1>1 DEF Standing, Performed, Before
<1>3. TypeOK'
  BY <1>1 DEF TypeOK, Steps, StoreSteps, Scope
<1>4. Executions' /\ Endings'
  BY <1>1, <1>2 DEF Executions, Endings, FailureAccounted
<1>5. Standing'
  BY <1>1 DEF Standing, Preparing, Performed, Reporting
<1> QED BY <1>3, <1>4, <1>5

LEMMA NextInv == Inv /\ [Next]_vars => Inv'
<1> SUFFICES ASSUME Inv, [Next]_vars PROVE Inv'
  OBVIOUS
<1>1. CASE UNCHANGED <<scope, run, component, pc, stage, executed, answered>>
  BY <1>1 DEF Inv, TypeOK, Standing, Executions, Endings, FailureAccounted, Before, After, Current,
              Scope
<1>2. CASE (\E n \in Nodes : NodeFlaps(n)) \/ PlanExpires \/ Over \/ UNCHANGED vars
  BY <1>1, <1>2 DEF NodeFlaps, PlanExpires, Over, vars, config, row, probes
<1> QED BY <1>2, SetComponentInv, GoInv, ProbeInv, ExecuteInv, LogSuccessInv, StageFailsInv,
           SaveSuccessInv DEF Next, ThreadStep

\* The inductive invariant.
THEOREM WorkflowInvariant == Spec => []Inv
<1> QED BY InitInv, NextInv, PTL DEF Spec

\* However a workflow fails, its components tell where: everything before succeeded,
\* everything after is skipped (service.py:1179-1219).
THEOREM FailuresAreAccounted == Spec => []FailureAccounted
<1>1. Inv => FailureAccounted
  BY DEF Inv, Endings
<1> QED BY <1>1, WorkflowInvariant, PTL

\* No component is executed twice, out of the plan's order, or before all those before
\* it have persisted their success (service.py:914-1067).
THEOREM AlwaysExecutedInOrder == Spec => []ExecutedInOrder
<1>1. Inv => ExecutedInOrder
  <2> SUFFICES ASSUME Inv PROVE ExecutedInOrder
    OBVIOUS
  <2>1. /\ scope \in Seq(Components) /\ executed \in Seq(Components) /\ Len(executed) \in Nat
        /\ Len(executed) <= Len(scope) /\ DOMAIN scope = 1..Len(scope)
        /\ \A i \in 1..Len(executed) : executed[i] = scope[i]
        /\ \A i \in 1..(Len(executed) - 1) : component[scope[i]] = "SUCCEEDED"
    BY StageFacts DEF Inv, Executions
  <2>2. \A i \in 1..Len(executed) : scope[i] \in Components
    BY <2>1
  <2> DEFINE s == SubSeq(scope, 1, Len(executed))
  <2>3. /\ s \in Seq(Components) /\ Len(s) = Len(executed)
        /\ \A i \in 1..Len(executed) : s[i] = scope[i]
    BY <2>1, <2>2, SubSeqProperties
  <2> HIDE DEF s
  <2>4. executed = s
    BY <2>1, <2>3, SeqEqual
  <2> QED BY <2>1, <2>4 DEF ExecutedInOrder, s
<1> QED BY <1>1, WorkflowInvariant, PTL

\* A workflow that reports success has executed every component of its plan
\* (service.py:1068-1072).
THEOREM SuccessIsComplete == Spec => []SuccessComplete
<1>1. Inv => SuccessComplete
  <2> SUFFICES ASSUME Inv, run = "SUCCEEDED"
               PROVE  executed = scope /\ \A c \in Scope : component[c] = "SUCCEEDED"
    BY DEF SuccessComplete
  <2>1. /\ scope \in Seq(Components) /\ executed \in Seq(Components)
        /\ Len(executed) = Len(scope) /\ DOMAIN scope = 1..Len(scope)
        /\ \A i \in 1..Len(executed) : executed[i] = scope[i]
        /\ \A j \in 1..Len(scope) : component[scope[j]] = "SUCCEEDED"
    BY StageFacts DEF Inv, Executions, Endings
  <2>2. executed = scope
    BY <2>1, SeqEqual
  <2> QED BY <2>1, <2>2 DEF Scope
<1> QED BY <1>1, WorkflowInvariant, PTL

\* However the nodes go up and down, node-init is never executed without a round in
\* which each of them has answered (service.py:874-912).
THEOREM NodesAlwaysAnswerFirst == Spec => []NodesAnsweredFirst
<1>1. Inv => NodesAnsweredFirst
  <2> SUFFICES ASSUME Inv, NEW i \in DOMAIN executed, executed[i] = "node-init"
               PROVE  answered = Nodes
    BY DEF NodesAnsweredFirst
  <2>1. /\ executed \in Seq(Components) /\ Len(executed) \in Nat /\ scope[1] = "vm"
        /\ \A j \in 1..Len(executed) : executed[j] = scope[j]
        /\ Len(executed) > 1 => answered = Nodes
    BY StageFacts DEF Inv, Executions
  <2>2. i \in 1..Len(executed)
    BY <2>1
  <2>3. i # 1
    BY <2>1, <2>2
  <2> QED BY <2>1, <2>2, <2>3
<1> QED BY <1>1, WorkflowInvariant, PTL

-----------------------------------------------------------------------------
\* A step keeps an ended run, and moves each component forward.
Forward ==
  /\ run \in Terminal => run' = run
  /\ run' # "QUEUED" \/ run = "QUEUED"
  /\ \A c \in DOMAIN component :
       component'[c] = component[c] \/ Rank(component'[c]) > Rank(component[c])

LEMMA StepForward ==
  ASSUME Inv, [Next]_vars
  PROVE  Forward
<1> USE DEF Inv, Go, config, environment, probes, report, limits, row
<1>1. component \in [Scope -> States] /\ Current \in Scope
  BY StageFacts DEF TypeOK
<1>2. ASSUME StageStarts \/ StageSucceeds \/ WaitStarts
      PROVE  Forward
  <2>1. PICK state \in States : /\ component' = [component EXCEPT ![Current] = state]
                                /\ state = "WAITING" => component[Current] = "BLOCKED"
                                /\ state = "RUNNING" => component[Current] \in {"QUEUED", "BLOCKED", "WAITING"}
                                /\ state = "SUCCEEDED" => component[Current] = "RUNNING"
                                /\ state \in {"WAITING", "RUNNING", "SUCCEEDED"}
    BY <1>2 DEF StageStarts, StageSucceeds, WaitStarts, SetComponent, States, Standing
  <2>2. Rank(state) > Rank(component[Current])
    BY <2>1 DEF Rank
  <2>3. \A c \in Scope : component'[c] = IF c = Current THEN state ELSE component[c]
    BY <1>1, <2>1
  <2>4. run \notin Terminal /\ run' = "RUNNING"
    BY <1>2 DEF StageStarts, StageSucceeds, WaitStarts, SetComponent, Standing, Preparing, Performed
  <2> QED BY <1>1, <2>2, <2>3, <2>4 DEF Forward
<1>3. CASE StageFails
  <2>1. /\ run \notin Terminal /\ run' = "FAILED" /\ component[Current] \in {"WAITING", "RUNNING"}
        /\ \A c \in Scope : component'[c] =
             IF c = Current THEN "FAILED"
             ELSE IF component[c] \in {"BLOCKED", "WAITING"} THEN "SKIPPED" ELSE component[c]
    BY <1>1, <1>3 DEF StageFails, FinishFailure, Standing
  <2>2. \A c \in Scope : component'[c] = component[c] \/ Rank(component'[c]) > Rank(component[c])
    BY <2>1 DEF Rank
  <2> QED BY <1>1, <2>1, <2>2 DEF Forward
<1>4. CASE SaveSuccess
  BY <1>4 DEF SaveSuccess, Standing, Performed, Forward
<1>5. CASE UNCHANGED <<run, component>>
  BY <1>5 DEF Forward
<1> QED BY <1>2, <1>3, <1>4, <1>5
    DEF Next, ThreadStep, LogStart, Execute, ExecuteEnds, LogSuccess, LogFailure, LogWait,
        ProbeAnswers, RoundPasses, RoundFails, Render, LogWorkflow, LogRunbook, Raises, Crash,
        NodeFlaps, PlanExpires, Over, vars

\* Neither the run nor a component ever goes back, and an end is kept.
THEOREM AlwaysForward == Spec => MovesForward
<1>1. Inv /\ [Next]_vars => [Forward]_vars
  BY StepForward
<1> QED BY <1>1, WorkflowInvariant, PTL DEF Spec, MovesForward, Forward

-----------------------------------------------------------------------------
(* The events and the row they report.                                     *)

Names == Scope \cup {"workflow"}

Backed(e) ==
  /\ e[2] # "workflow" /\ e[1] \in Terminal => component[e[2]] = e[1]
  /\ e[1] = "WORKFLOW_SUCCEEDED" => run = "SUCCEEDED"
  /\ e[1] = "RUNBOOK_RENDERED" => runbook.rendered /\ written /\ ~manual.findings

\* A manual that the row or the next write of it calls rendered is there and clean.
ManualOK ==
  /\ pc = "save_success" /\ draft.rendered => written /\ ~manual.findings
  /\ runbook.rendered => /\ written /\ ~manual.findings
                         /\ pc \in Reporting \cup {"done", "dead"}
  /\ pc = "log_runbook" => runbook.rendered

EventsOK ==
  /\ events \in Seq(EventTypes \X Names)
  /\ \A i \in 1..Len(events) : Backed(events[i])
  /\ ManualOK

\* A state a step moves forward to is the same one, or was not an end.
LEMMA EndIsKept ==
  ASSUME Inv, Forward, NEW c \in Scope, component[c] \in Terminal
  PROVE  component'[c] = component[c]
<1>1. Rank(component[c]) = 3
  BY DEF Rank, Terminal
<1>2. ~(Rank(component'[c]) > 3)
  BY DEF Rank
<1>3. c \in DOMAIN component
  BY DEF Inv, TypeOK
<1> QED BY <1>1, <1>2, <1>3 DEF Forward

\* A manual is rendered into the row at one step only.
LEMMA ManualStep ==
  ASSUME Inv, ManualOK, [Next]_vars
  PROVE  /\ ManualOK'
         /\ runbook.rendered => UNCHANGED <<written, manual>> /\ runbook'.rendered
<1> USE DEF ManualOK, Reporting, Go, config, environment, probes, report, limits, row
<1>1. CASE Render
  <2>1. pc = "finish" /\ pc' = "save_success" /\ UNCHANGED <<manual, runbook>>
    BY <1>1 DEF Render
  <2>2. draft' = RenderedRunbook
        /\ written' = (manual.setting = "true" /\ RenderState # "EXPIRED")
    BY <1>1 DEF Render
  <2>3. draft'.rendered => written' /\ ~manual.findings
    BY <2>2 DEF RenderedRunbook, RenderState, NoRunbook
  <2> QED BY <2>1, <2>3
<1>2. CASE SaveSuccess
  BY <1>2 DEF SaveSuccess
<1>3. CASE LogWorkflow
  BY <1>3 DEF LogWorkflow
<1>4. CASE LogRunbook
  BY <1>4 DEF LogRunbook
<1>5. CASE Raises \/ Crash
  BY <1>5 DEF Raises, Crash, StoreSteps
<1>6. CASE UNCHANGED <<pc, draft, runbook, written, manual>>
  BY <1>6
<1>7. ASSUME UNCHANGED <<draft, runbook, written, manual>>, pc \notin Reporting \cup {"done", "dead"},
             pc' \notin {"save_success", "log_runbook"}
      PROVE  ManualOK' /\ (runbook.rendered => UNCHANGED <<written, manual>> /\ runbook'.rendered)
  BY <1>7
<1>8. CASE StageStarts \/ LogStart \/ Execute \/ ExecuteEnds \/ StageSucceeds \/ LogSuccess
           \/ StageFails \/ LogFailure \/ WaitStarts \/ LogWait \/ RoundPasses \/ RoundFails
  BY <1>7, <1>8 DEF StageStarts, LogStart, Execute, ExecuteEnds, StageSucceeds, LogSuccess,
     StageFails, LogFailure, WaitStarts, LogWait, RoundPasses, RoundFails, SetComponent,
     FinishFailure
<1> QED BY <1>1, <1>2, <1>3, <1>4, <1>5, <1>6, <1>8
        DEF Next, ThreadStep, ProbeAnswers, NodeFlaps, PlanExpires, Over, vars

\* What an event reports stays so.
LEMMA BackedStep ==
  ASSUME Inv, ManualOK, [Next]_vars, NEW e \in EventTypes \X Names, Backed(e)
  PROVE  Backed(e)'
<1>1. Forward
  BY StepForward
<1>2. e[2] # "workflow" /\ e[1] \in Terminal => component'[e[2]] = e[1]
  BY <1>1, EndIsKept DEF Backed, Names
<1>3. e[1] = "WORKFLOW_SUCCEEDED" => run' = "SUCCEEDED"
  BY <1>1 DEF Backed, Forward, Terminal
<1>4. e[1] = "RUNBOOK_RENDERED" => runbook'.rendered /\ written' /\ ~manual'.findings
  BY ManualStep DEF Backed
<1> QED BY <1>2, <1>3, <1>4 DEF Backed

\* What a step reports is so, and it reports one thing at most.
LEMMA AppendStep ==
  ASSUME Inv, ManualOK, [Next]_vars, UNCHANGED events => FALSE
  PROVE  \E type \in EventTypes, c \in Names :
           events' = Append(events, <<type, c>>) /\ Backed(<<type, c>>)'
<1> USE DEF Log, Go, config, environment, probes, report, limits, row
<1>1. Current \in Scope
  BY StageFacts DEF Inv
<1>2. CASE LogStart \/ LogWait
  <2>1. PICK type \in {"STARTED", "WAITING"} : events' = Append(events, <<type, Current>>)
    BY <1>2 DEF LogStart, LogWait
  <2> QED BY <1>1, <2>1 DEF Backed, Names, EventTypes, Terminal
<1>3. CASE LogSuccess \/ LogFailure
  <2>1. PICK type \in {"SUCCEEDED", "FAILED"} :
          /\ events' = Append(events, <<type, Current>>) /\ component[Current] = type
          /\ component' = component
    BY <1>3 DEF LogSuccess, LogFailure, Inv, Standing
  <2>2. PICK c \in Scope : c = Current
    BY <1>1
  <2>3. Backed(<<type, c>>)'
    BY <2>1, <2>2 DEF Backed
  <2> QED BY <2>1, <2>2, <2>3 DEF Names, EventTypes
<1>4. CASE LogWorkflow
  <2>1. events' = Append(events, <<"WORKFLOW_SUCCEEDED", "workflow">>) /\ run' = "SUCCEEDED"
    BY <1>4 DEF LogWorkflow, Inv, Standing, Reporting
  <2>2. Backed(<<"WORKFLOW_SUCCEEDED", "workflow">>)'
    BY <2>1 DEF Backed
  <2> QED BY <2>1, <2>2 DEF Names, EventTypes
<1>5. CASE LogRunbook
  <2>1. PICK type \in {"RUNBOOK_RENDERED", "RUNBOOK_AUDIT_FAILED"} :
          events' = Append(events, <<type, "workflow">>)
    BY <1>5 DEF LogRunbook
  <2>2. runbook'.rendered /\ written' /\ ~manual'.findings
    BY <1>5 DEF LogRunbook, ManualOK
  <2>3. Backed(<<type, "workflow">>)'
    BY <2>1, <2>2 DEF Backed
  <2> QED BY <2>1, <2>3 DEF Names, EventTypes
<1> QED BY <1>2, <1>3, <1>4, <1>5
    DEF Next, ThreadStep, StageStarts, Execute, ExecuteEnds, StageSucceeds, StageFails, WaitStarts,
        ProbeAnswers, RoundPasses, RoundFails, Render, SaveSuccess, Raises, Crash, NodeFlaps,
        PlanExpires, Over, vars

LEMMA EventsStep ==
  ASSUME Inv, EventsOK, [Next]_vars
  PROVE  EventsOK'
<1>1. ManualOK' /\ Names' = Names
  <2>1. scope' = scope
    BY DEF Next, ThreadStep, StageStarts, LogStart, Execute, ExecuteEnds, StageSucceeds, LogSuccess,
       StageFails, LogFailure, WaitStarts, LogWait, ProbeAnswers, RoundPasses, RoundFails, Render,
       SaveSuccess, LogWorkflow, LogRunbook, Raises, Crash, NodeFlaps, PlanExpires, Over, vars, config
  <2> QED BY <2>1, ManualStep DEF EventsOK, Names, Scope
<1>2. /\ events \in Seq(EventTypes \X Names)
      /\ \A i \in 1..Len(events) : events[i] \in EventTypes \X Names
      /\ \A e \in EventTypes \X Names :
           (\E i \in 1..Len(events) : events[i] = e) => Backed(e)'
  BY BackedStep DEF EventsOK
<1>3. CASE UNCHANGED events
  BY <1>1, <1>2, <1>3 DEF EventsOK, Backed
<1>4. ASSUME NEW type \in EventTypes, NEW c \in Names, events' = Append(events, <<type, c>>),
             Backed(<<type, c>>)'
      PROVE  EventsOK'
  <2>1. PICK e \in EventTypes \X Names : e = <<type, c>>
    OBVIOUS
  <2>2. /\ events' \in Seq(EventTypes \X Names) /\ Len(events') = Len(events) + 1
        /\ \A i \in 1..Len(events) : events'[i] = events[i]
        /\ events'[Len(events) + 1] = e
    BY <1>2, <1>4, <2>1, AppendProperties
  <2>3. Backed(e)'
    BY <1>4, <2>1 DEF Backed
  <2>4. \A i \in 1..Len(events') : Backed(events[i])'
    BY <1>2, <2>2, <2>3 DEF Backed
  <2> QED BY <1>1, <2>2, <2>4 DEF EventsOK
<1> QED BY <1>3, <1>4, AppendStep DEF EventsOK

\* An event that reports an end, or a clean manual, is never ahead of the row or of the
\* file, whatever raises or stops between the two writes (service.py:1072-1103).
THEOREM EventsAlwaysBacked == Spec => []EventsBackedByRow
<1>1. Init => EventsOK
  <2>1. <<"QUEUED", "workflow">> \in EventTypes \X {"workflow"}
    BY DEF EventTypes
  <2> QED BY <2>1 DEF Init, EventsOK, ManualOK, Backed, Names, NoRunbook, Terminal, Reporting
<1>2. Inv /\ EventsOK /\ [Next]_vars => EventsOK'
  BY EventsStep
<1>3. EventsOK => EventsBackedByRow
  BY DEF EventsOK, EventsBackedByRow, Backed
<1> QED BY <1>1, <1>2, <1>3, WorkflowInvariant, PTL DEF Spec

-----------------------------------------------------------------------------
(* The pipeline a client approved.                                         *)

\* How far the pipeline is while the run is open.
LEMMA PipelineStands ==
  ASSUME Inv
  PROVE  /\ pc \in {"start", "wait", "log_start", "execute", "executing", "succeeded", "failed"} =>
              /\ Succeeded = {scope[j] : j \in 1..(stage - 1)}
              /\ Running = IF component[Current] = "RUNNING" THEN {Current} ELSE {}
         /\ pc = "save_success" => Succeeded = {scope[j] : j \in 1..Len(scope)}
<1> USE StageFacts DEF Inv
<1>1. Scope = {scope[j] : j \in 1..Len(scope)}
  BY DEF Scope
<1>2. ASSUME pc \in {"start", "wait", "log_start", "execute", "executing", "succeeded", "failed"}
      PROVE  /\ Succeeded = {scope[j] : j \in 1..(stage - 1)}
             /\ Running = IF component[Current] = "RUNNING" THEN {Current} ELSE {}
  <2>1. /\ \A j \in 1..(stage - 1) : component[scope[j]] = "SUCCEEDED"
        /\ \A j \in (stage + 1)..Len(scope) : component[scope[j]] = "BLOCKED"
        /\ component[scope[stage]] # "SUCCEEDED"
    BY <1>2 DEF Standing, Preparing, Performed, Before, After
  <2>2. Succeeded = {scope[j] : j \in 1..(stage - 1)}
    BY <1>1, <2>1 DEF Succeeded
  <2>3. \A c \in Scope : component[c] = "RUNNING" => c = Current
    BY <1>1, <2>1
  <2>4. Running = IF component[Current] = "RUNNING" THEN {Current} ELSE {}
    BY <2>3 DEF Running
  <2> QED BY <2>2, <2>4
<1>3. ASSUME pc = "save_success"
      PROVE  Succeeded = {scope[j] : j \in 1..Len(scope)}
  <2>1. \A j \in 1..Len(scope) : component[scope[j]] = "SUCCEEDED"
    BY <1>3 DEF Standing, Performed, Before
  <2> QED BY <1>1, <2>1 DEF Succeeded
<1> QED BY <1>2, <1>3

\* A component that takes a state, seen from the pipeline.
LEMMA PipelineSets ==
  ASSUME Inv, NEW state \in States, component' = [component EXCEPT ![Current] = state],
         UNCHANGED scope
  PROVE  /\ Succeeded' = IF state = "SUCCEEDED" THEN Succeeded \cup {Current}
                                                ELSE Succeeded \ {Current}
         /\ Running' = IF state = "RUNNING" THEN Running \cup {Current} ELSE Running \ {Current}
<1>1. Current \in Scope /\ component \in [Scope -> States] /\ Scope' = Scope
  BY StageFacts DEF Inv, TypeOK, Scope
<1> QED BY <1>1 DEF Succeeded, Running

LEMMA StepRefines ==
  ASSUME Inv, [Next]_vars
  PROVE  [Approved!Next]_(Approved!vars)
<1> USE DEF Go, config, environment, probes, report, limits, row
<1>1. CASE UNCHANGED <<scope, run, component>>
  BY <1>1 DEF Approved!vars, Scope, Succeeded, Running, Verdict
<1>2. CASE StageStarts
  <2>1. /\ pc = "start" /\ run \notin Terminal /\ run' = "RUNNING" /\ UNCHANGED scope
        /\ component' = [component EXCEPT ![Current] = "RUNNING"]
        /\ component[Current] \notin {"RUNNING", "SUCCEEDED"}
    BY <1>2 DEF StageStarts, SetComponent, Inv, Standing, Preparing
  <2>2. Succeeded = {scope[j] : j \in 1..(stage - 1)} /\ Running = {}
    BY <2>1, PipelineStands
  <2>3. Succeeded' = Succeeded /\ Running' = {Current}
    BY <2>1, <2>2, PipelineSets DEF States, Succeeded
  <2>4. Verdict = "OPEN" /\ Verdict' = "OPEN"
    BY <2>1 DEF Verdict, Terminal
  <2>5. stage \in DOMAIN scope /\ Current = scope[stage]
    BY StageFacts DEF Inv
  <2>6. Approved!Begin
    BY <2>1, <2>2, <2>3, <2>4, <2>5
       DEF Approved!Begin, Approved!First
  <2> QED BY <2>6 DEF Approved!Next
<1>3. CASE StageSucceeds
  <2>1. /\ pc = "succeeded" /\ run \notin Terminal /\ run' = "RUNNING" /\ UNCHANGED scope
        /\ component' = [component EXCEPT ![Current] = "SUCCEEDED"]
        /\ component[Current] = "RUNNING"
    BY <1>3 DEF StageSucceeds, SetComponent, Inv, Standing, Performed
  <2>2. Running = {Current}
    BY <2>1, PipelineStands
  <2>3. Succeeded' = Succeeded \cup Running /\ Running' = {}
    BY <2>1, <2>2, PipelineSets DEF States
  <2>4. Verdict' = Verdict
    BY <2>1 DEF Verdict, Terminal
  <2>5. Approved!Finish
    BY <2>1, <2>2, <2>3, <2>4 DEF Approved!Finish
  <2> QED BY <2>5 DEF Approved!Next
<1>4. CASE WaitStarts
  <2>1. /\ pc = "wait" /\ run \notin Terminal /\ run' = "RUNNING" /\ UNCHANGED scope
        /\ component' = [component EXCEPT ![Current] = "WAITING"]
        /\ component[Current] \notin {"RUNNING", "SUCCEEDED"}
    BY <1>4 DEF WaitStarts, SetComponent, Inv, Standing, Preparing
  <2>2. Succeeded' = Succeeded /\ Running' = Running
    BY <2>1, PipelineSets DEF States, Succeeded, Running
  <2>3. Verdict' = Verdict
    BY <2>1 DEF Verdict, Terminal
  <2> QED BY <2>1, <2>2, <2>3 DEF Approved!vars
<1>5. CASE StageFails
  <2>1. /\ pc = "failed" /\ run \notin Terminal /\ run' = "FAILED" /\ UNCHANGED scope
        /\ component[Current] # "SUCCEEDED"
    BY <1>5 DEF StageFails, FinishFailure, Inv, Standing
  <2>2. /\ component \in [Scope -> States] /\ Scope' = Scope
        /\ component' = [d \in DOMAIN component |->
             IF d = Current THEN "FAILED"
             ELSE IF component[d] \in {"BLOCKED", "WAITING"} THEN "SKIPPED" ELSE component[d]]
    BY <1>5 DEF StageFails, FinishFailure, Inv, TypeOK, Scope
  <2>3. Running \subseteq {Current}
    BY <2>1, PipelineStands
  <2>4. Succeeded' = Succeeded /\ Running' = {}
    BY <2>1, <2>2, <2>3 DEF Succeeded, Running
  <2>5. Verdict = "OPEN" /\ Verdict' = "FAILED"
    BY <2>1 DEF Verdict, Terminal
  <2>6. Current \in {scope[j] : j \in 1..Len(scope)} /\ Current \notin Succeeded
    BY <2>1, StageFacts DEF Inv, Succeeded
  <2>7. Approved!Fail
    BY <2>1, <2>4, <2>5, <2>6 DEF Approved!Fail, Approved!All, Approved!First
  <2> QED BY <2>7 DEF Approved!Next
<1>6. CASE SaveSuccess
  <2>1. /\ pc = "save_success" /\ run \notin Terminal /\ run' = "SUCCEEDED"
        /\ UNCHANGED <<scope, component>>
    BY <1>6 DEF SaveSuccess, Inv, Standing, Performed
  <2>2. Succeeded = {scope[j] : j \in 1..Len(scope)}
    BY <2>1, PipelineStands
  <2>3. Succeeded' = Succeeded /\ Running' = Running
    BY <2>1 DEF Succeeded, Running, Scope
  <2>4. Verdict = "OPEN" /\ Verdict' = "SUCCEEDED"
    BY <2>1 DEF Verdict, Terminal
  <2>5. Approved!Succeed
    BY <2>1, <2>2, <2>3, <2>4 DEF Approved!Succeed, Approved!All, Approved!First
  <2> QED BY <2>5 DEF Approved!Next
<1> QED BY <1>1, <1>2, <1>3, <1>4, <1>5, <1>6
    DEF Next, ThreadStep, LogStart, Execute, ExecuteEnds, LogSuccess, LogFailure, LogWait,
        ProbeAnswers, RoundPasses, RoundFails, Render, LogWorkflow, LogRunbook, Raises, Crash,
        NodeFlaps, PlanExpires, Over, vars

\* With races of the nodes, faults and stops, a workflow does nothing the pipeline its
\* client approved may not do.
THEOREM WorkflowImplementsPipeline == Spec => ImplementsPipeline
<1>1. Init => Approved!Init
  <2> SUFFICES ASSUME Init PROVE Approved!Init
    OBVIOUS
  <2>1. \A c \in Scope : component[c] \in {"QUEUED", "BLOCKED"}
    BY DEF Init, InitialStates, Scope
  <2>2. run \notin Terminal
    BY DEF Init, Terminal
  <2> QED BY <2>1, <2>2 DEF Approved!Init, Succeeded, Running, Verdict
<1>2. Inv /\ [Next]_vars => [Approved!Next]_(Approved!vars)
  BY StepRefines
<1> QED BY <1>1, <1>2, WorkflowInvariant, PTL DEF Spec, ImplementsPipeline, Approved!Spec

-----------------------------------------------------------------------------
\* How many steps of the thread a position leaves, at most, before the thread ends or
\* its stage does.
StepsOf ==
  [done |-> 0, dead |-> 0, log_failure |-> 1, log_runbook |-> 1, failed |-> 2,
   log_workflow |-> 2, save_success |-> 3, finish |-> 4, log_success |-> 5, succeeded |-> 6,
   executing |-> 7, execute |-> 8, log_start |-> 9, start |-> 10, probe |-> 11,
   log_wait |-> 11, wait |-> 11]

\* The probes of a round and its end, and the wait from its first step on.
RoundSteps == Cardinality(Nodes) + 1
WaitSteps == WaitRounds * RoundSteps + 1

\* What the wait for the nodes still takes, at most.
WaitLeft ==
  IF stage = 1 \/ pc = "wait" THEN WaitSteps
  ELSE IF pc = "log_wait" THEN WaitRounds * RoundSteps
  ELSE IF pc = "probe"
       THEN (WaitRounds - round) * RoundSteps + (Cardinality(Nodes) - Cardinality(answered))
       ELSE 0

StepsLeft ==
  IF pc \in {"done", "dead"} THEN 0
  ELSE StepsOf[pc] + 7 * (Len(scope) - stage) + WaitLeft

\* The thread takes a bounded number of steps, whatever the nodes do and whatever
\* raises, and nothing gives it more.
ThreadRunsOut ==
  /\ [](StepsLeft \in 0..(38 + WaitSteps))
  /\ [][/\ ThreadStep \/ Raises \/ Crash => StepsLeft' < StepsLeft
        /\ StepsLeft' <= StepsLeft]_vars

\* The rounds are counted up to the deadline.
RoundsOK == round \in 0..WaitRounds /\ (pc = "probe" => round # 0)

LEMMA StepsOfIs ==
  /\ StepsOf["done"] = 0 /\ StepsOf["dead"] = 0 /\ StepsOf["log_failure"] = 1
  /\ StepsOf["log_runbook"] = 1 /\ StepsOf["failed"] = 2 /\ StepsOf["log_workflow"] = 2
  /\ StepsOf["save_success"] = 3 /\ StepsOf["finish"] = 4 /\ StepsOf["log_success"] = 5
  /\ StepsOf["succeeded"] = 6 /\ StepsOf["executing"] = 7 /\ StepsOf["execute"] = 8
  /\ StepsOf["log_start"] = 9 /\ StepsOf["start"] = 10 /\ StepsOf["probe"] = 11
  /\ StepsOf["log_wait"] = 11 /\ StepsOf["wait"] = 11
BY DEF StepsOf

LEMMA StepsOfType ==
  ASSUME NEW p \in Steps
  PROVE  StepsOf[p] \in 0..11 /\ (p \notin {"done", "dead"} => StepsOf[p] > 0)
BY StepsOfIs DEF Steps, StoreSteps

LEMMA WaitNumbers ==
  /\ Cardinality(Nodes) \in Nat /\ RoundSteps \in Nat /\ RoundSteps = Cardinality(Nodes) + 1
  /\ WaitRounds \in Nat /\ WaitRounds * RoundSteps \in Nat /\ WaitSteps = WaitRounds * RoundSteps + 1
<1>1. Cardinality(Nodes) \in Nat
  BY WorkflowAssumption, FS_CardinalityType
<1>2. RoundSteps \in Nat /\ WaitRounds \in Nat
  BY <1>1, WorkflowAssumption DEF RoundSteps
<1> QED BY <1>1, <1>2 DEF RoundSteps, WaitSteps

\* The nodes that answered are some of the nodes.
LEMMA AnsweredNumber ==
  ASSUME NEW A \in SUBSET Nodes
  PROVE  /\ IsFiniteSet(A) /\ Cardinality(A) \in Nat /\ Cardinality(A) <= Cardinality(Nodes)
<1>1. IsFiniteSet(A) /\ Cardinality(A) <= Cardinality(Nodes)
  BY WorkflowAssumption, FS_Subset
<1> QED BY <1>1, FS_CardinalityType

\* The rounds after this one take as many probes each.
LEMMA RoundNumbers ==
  ASSUME NEW n \in 0..WaitRounds
  PROVE  /\ (WaitRounds - n) * RoundSteps \in Nat
         /\ (WaitRounds - n) * RoundSteps <= WaitRounds * RoundSteps
         /\ n # 0 => (WaitRounds - n) * RoundSteps + RoundSteps <= WaitRounds * RoundSteps
         /\ n < WaitRounds =>
              (WaitRounds - (n + 1)) * RoundSteps + RoundSteps = (WaitRounds - n) * RoundSteps
<1> DEFINE P == RoundSteps
           W == WaitRounds
<1>1. P \in Nat /\ W \in Nat /\ n \in Nat /\ n <= W
  BY WaitNumbers
<1> HIDE DEF P, W
<1>2. (W - n) * P = W * P - n * P /\ n * P \in Nat /\ W * P \in Nat
  BY <1>1
<1>3. (W - n) \in Nat
  BY <1>1
<1>4. (W - n) * P \in Nat
  BY <1>1, <1>3
<1>5. n # 0 => n * P >= P
  BY <1>1
<1>6. (W - (n + 1)) * P = W * P - n * P - P
  BY <1>1
<1> QED BY <1>1, <1>2, <1>4, <1>5, <1>6 DEF P, W

LEMMA LeftType ==
  ASSUME Inv, RoundsOK
  PROVE  /\ WaitLeft \in Nat /\ WaitLeft <= WaitSteps
         /\ StepsLeft \in 0..(38 + WaitSteps)
         /\ pc \notin {"done", "dead"} => StepsLeft > 0
<1>1. WaitLeft \in Nat /\ WaitLeft <= WaitSteps
  <2>1. answered \in SUBSET Nodes
    BY DEF Inv, TypeOK
  <2>2. Cardinality(Nodes) - Cardinality(answered) \in Nat
        /\ Cardinality(Nodes) - Cardinality(answered) < RoundSteps
    BY <2>1, AnsweredNumber, WaitNumbers
  <2>3. CASE stage = 1 \/ pc \in {"wait", "log_wait"}
    BY <2>3, WaitNumbers DEF WaitLeft
  <2>4. CASE ~(stage = 1 \/ pc \in {"wait", "log_wait", "probe"})
    BY <2>4, WaitNumbers DEF WaitLeft
  <2>5. CASE stage # 1 /\ pc = "probe"
    <3>1. /\ (WaitRounds - round) * RoundSteps \in Nat
          /\ (WaitRounds - round) * RoundSteps + RoundSteps <= WaitRounds * RoundSteps
      BY <2>5, RoundNumbers DEF RoundsOK
    <3>2. WaitLeft = (WaitRounds - round) * RoundSteps + (Cardinality(Nodes) - Cardinality(answered))
      BY <2>5 DEF WaitLeft
    <3> QED BY <2>2, <3>1, <3>2, WaitNumbers
  <2> QED BY <2>3, <2>4, <2>5
<1>2. pc \in Steps /\ stage \in 1..Len(scope) /\ Len(scope) \in 2..5
  BY StageFacts DEF Inv, TypeOK
<1>3. StepsOf[pc] \in 0..11 /\ (pc \notin {"done", "dead"} => StepsOf[pc] > 0)
  BY <1>2, StepsOfType
<1>4. StepsOf[pc] = 11 => stage = 2
  BY <1>2, StepsOfIs DEF Inv, Standing, Steps, StoreSteps
<1>5. WaitSteps \in Nat
  BY WaitNumbers
<1>6. CASE pc \in {"done", "dead"}
  BY <1>5, <1>6, <1>1 DEF StepsLeft
<1>7. CASE pc \notin {"done", "dead"}
  <2> DEFINE rest == Len(scope) - stage
             own == StepsOf[pc]
  <2>1. rest \in 0..4 /\ (stage = 2 => rest <= 3)
    <3>1. \A n \in 2..5 : \A m \in 1..n : n - m \in 0..4 /\ (m = 2 => n - m <= 3)
      OBVIOUS
    <3> QED BY <1>2, <3>1
  <2>2. own \in 0..11 /\ own > 0 /\ (own = 11 => stage = 2)
    BY <1>3, <1>4, <1>7
  <2>3. StepsLeft = own + 7 * rest + WaitLeft
    BY <1>7 DEF StepsLeft
  <2> HIDE DEF rest, own
  <2>4. own + 7 * rest \in 1..38
    BY <2>1, <2>2
  <2> QED BY <1>1, <1>5, <1>7, <2>1, <2>2, <2>3, <2>4
<1> QED BY <1>1, <1>6, <1>7

LeftOK == WaitLeft \in Nat /\ StepsLeft \in Nat /\ (pc \notin {"done", "dead"} => StepsLeft > 0)

\* A step of the thread to a position of the same stage with fewer steps left.
LEMMA FewerSteps ==
  ASSUME Inv, Inv', LeftOK, LeftOK', pc \notin {"done", "dead"}, scope' = scope, stage' = stage,
         StepsOf[pc'] < StepsOf[pc], WaitLeft' <= WaitLeft
  PROVE  StepsLeft' < StepsLeft
<1> DEFINE rest == Len(scope) - stage
           w == WaitLeft'
<1>1. rest \in Nat
  <2>1. stage \in 1..Len(scope) /\ Len(scope) \in 2..5
    BY StageFacts DEF Inv, TypeOK
  <2> QED BY <2>1
<1>2. pc \in Steps /\ pc' \in Steps
  BY DEF Inv, TypeOK
<1>3. StepsOf[pc] \in Nat /\ StepsOf[pc'] \in Nat
  BY <1>2, StepsOfType
<1>4. WaitLeft \in Nat /\ StepsLeft > 0 /\ w \in Nat
  BY DEF LeftOK
<1>5. StepsLeft = StepsOf[pc] + 7 * rest + WaitLeft
  BY DEF StepsLeft
<1>6. StepsLeft' = IF pc' \in {"done", "dead"} THEN 0 ELSE StepsOf[pc'] + 7 * rest + w
  BY DEF StepsLeft
<1> HIDE DEF rest
<1> QED BY <1>1, <1>3, <1>4, <1>5, <1>6

\* A step of the thread that ends it.
LEMMA NoSteps ==
  ASSUME LeftOK, pc \notin {"done", "dead"}, pc' \in {"done", "dead"}
  PROVE  StepsLeft' < StepsLeft
BY DEF LeftOK, StepsLeft

\* Outside the wait only the stage tells whether the wait is still to come.
LEMMA SameWait ==
  ASSUME pc' \notin {"wait", "log_wait", "probe"}, stage' = stage, LeftOK
  PROVE  WaitLeft' <= WaitLeft
<1>1. CASE stage = 1
  BY <1>1, WaitNumbers DEF WaitLeft, LeftOK, WaitSteps, RoundSteps
<1>2. CASE stage # 1
  BY <1>2 DEF WaitLeft, LeftOK
<1> QED BY <1>1, <1>2

LEMMA PlainSteps ==
  ASSUME Inv, Inv', LeftOK, LeftOK',
         \/ StageStarts \/ LogStart \/ Execute \/ ExecuteEnds \/ StageSucceeds \/ StageFails
         \/ LogFailure \/ RoundPasses \/ Render \/ SaveSuccess \/ LogWorkflow \/ LogRunbook
         \/ Raises \/ Crash
  PROVE  StepsLeft' < StepsLeft
<1>1. /\ stage' = stage /\ scope' = scope
      /\ pc \notin {"done", "dead"} /\ pc' \notin {"wait", "log_wait", "probe"}
      /\ pc' \in {"done", "dead"} \/ StepsOf[pc'] < StepsOf[pc]
  <2> USE StepsOfIs DEF Go, config
  <2>1. CASE StageStarts \/ LogStart \/ Execute \/ ExecuteEnds
    BY <2>1 DEF StageStarts, LogStart, Execute, ExecuteEnds
  <2>2. CASE StageSucceeds \/ StageFails \/ LogFailure \/ RoundPasses
    BY <2>2 DEF StageSucceeds, StageFails, LogFailure, RoundPasses
  <2>3. CASE Render \/ SaveSuccess \/ LogWorkflow \/ LogRunbook
    BY <2>3 DEF Render, SaveSuccess, LogWorkflow, LogRunbook
  <2>4. CASE Raises
    BY <2>4 DEF Raises, StoreSteps
  <2>5. CASE Crash
    BY <2>5 DEF Crash
  <2> QED BY <2>1, <2>2, <2>3, <2>4, <2>5
<1> QED BY <1>1, SameWait, FewerSteps, NoSteps

\* The next stage, and the steps of the wait if it comes first.
LEMMA NextStageSteps ==
  ASSUME Inv, Inv', LeftOK, LeftOK', LogSuccess
  PROVE  StepsLeft' < StepsLeft
<1>1. /\ stage \in 1..Len(scope) /\ Len(scope) \in 2..5 /\ DOMAIN scope = 1..Len(scope)
      /\ scope[2] = "node-init" /\ \A i, j \in 1..Len(scope) : scope[i] = scope[j] => i = j
  BY StageFacts DEF Inv
<1>2. pc = "log_success" /\ scope' = scope
  BY DEF LogSuccess, config
<1>3. CASE stage = Len(scope)
  <2>1. stage' = stage /\ pc' = "finish"
    BY <1>3 DEF LogSuccess, Go
  <2> QED BY <1>2, <2>1, StepsOfIs, SameWait, FewerSteps
<1>4. CASE stage # Len(scope)
  <2>1. stage' = stage + 1 /\ stage + 1 \in 1..Len(scope)
    <3>1. stage' = stage + 1
      BY <1>4 DEF LogSuccess
    <3>2. \A k \in 2..5 : \A m \in 1..k : m # k => m + 1 \in 1..k
      OBVIOUS
    <3> QED BY <1>1, <1>4, <3>1, <3>2
  <2>2. scope[stage + 1] = "node-init" <=> stage = 1
    BY <1>1, <2>1
  <2>3. pc' = IF stage = 1 THEN "wait" ELSE "start"
    BY <1>4, <2>2 DEF LogSuccess, Go
  <2>4. WaitLeft' = WaitLeft
    BY <1>1, <1>2, <2>1, <2>3 DEF WaitLeft
  <2> DEFINE rest == Len(scope) - stage
  <2>5. rest \in Nat /\ Len(scope) - stage' = rest - 1
    BY <1>1, <2>1
  <2>6. StepsLeft = 5 + 7 * rest + WaitLeft
    BY <1>2, StepsOfIs DEF StepsLeft
  <2>7. StepsLeft' = (IF stage = 1 THEN 11 ELSE 10) + 7 * (rest - 1) + WaitLeft
    BY <1>2, <2>3, <2>4, <2>5, StepsOfIs DEF StepsLeft
  <2>8. WaitLeft \in Nat
    BY DEF LeftOK
  <2> HIDE DEF rest
  <2> QED BY <2>5, <2>6, <2>7, <2>8
<1> QED BY <1>3, <1>4

\* The steps of the wait.
LEMMA WaitingSteps ==
  ASSUME Inv, Inv', LeftOK, LeftOK', RoundsOK,
         WaitStarts \/ LogWait \/ (\E n \in Nodes : ProbeAnswers(n)) \/ RoundFails
  PROVE  StepsLeft' < StepsLeft
<1> DEFINE rest == Len(scope) - stage
<1>1. /\ stage' = stage /\ scope' = scope
      /\ pc \in {"wait", "log_wait", "probe"}
  BY DEF WaitStarts, LogWait, ProbeAnswers, RoundFails, config
<1>2. stage = 2
  BY <1>1 DEF Inv, Standing
<1>3. ASSUME pc' \in {"log_wait", "probe"}, WaitLeft' < WaitLeft PROVE StepsLeft' < StepsLeft
  <2>1. rest \in Nat
    <3>1. stage \in 1..Len(scope) /\ Len(scope) \in 2..5
      BY StageFacts DEF Inv, TypeOK
    <3> QED BY <3>1
  <2>2. StepsLeft = 11 + 7 * rest + WaitLeft
    BY <1>1, StepsOfIs DEF StepsLeft
  <2>3. StepsLeft' = 11 + 7 * rest + WaitLeft'
    BY <1>1, <1>3, StepsOfIs DEF StepsLeft
  <2>4. WaitLeft \in Nat /\ WaitLeft' \in Nat
    BY DEF LeftOK
  <2>5. \A r, a, b \in Nat : a < b => 11 + 7 * r + a < 11 + 7 * r + b
    OBVIOUS
  <2> HIDE DEF rest
  <2> QED BY <1>3, <2>1, <2>2, <2>3, <2>4, <2>5
<1>4. answered \in SUBSET Nodes
  BY DEF Inv, TypeOK
<1>5. CASE WaitStarts
  <2>1. pc = "wait" /\ pc' = "log_wait"
    BY <1>5 DEF WaitStarts, Go
  <2>2. WaitLeft' < WaitLeft
    BY <1>1, <1>2, <2>1, WaitNumbers DEF WaitLeft
  <2> QED BY <1>3, <2>1, <2>2
<1>6. CASE LogWait
  <2>1. pc = "log_wait" /\ pc' = "probe" /\ round' = 1 /\ answered' = {}
    BY <1>6 DEF LogWait, Go
  <2>2. Cardinality(answered') = 0
    BY <2>1, FS_EmptySet
  <2>3. WaitLeft = WaitRounds * RoundSteps
    BY <1>2, <2>1 DEF WaitLeft
  <2>4. WaitLeft' = (WaitRounds - 1) * RoundSteps + Cardinality(Nodes)
    BY <1>1, <1>2, <2>1, <2>2, WaitNumbers DEF WaitLeft
  <2>5. (WaitRounds - 1) * RoundSteps + RoundSteps <= WaitRounds * RoundSteps
        /\ (WaitRounds - 1) * RoundSteps \in Nat
    BY RoundNumbers, WorkflowAssumption
  <2>6. WaitLeft' < WaitLeft
    BY <2>3, <2>4, <2>5, WaitNumbers
  <2> QED BY <1>3, <2>1, <2>6
<1>7. ASSUME NEW n \in Nodes, ProbeAnswers(n) PROVE StepsLeft' < StepsLeft
  <2>1. /\ pc = "probe" /\ pc' = "probe" /\ round' = round
        /\ n \notin answered /\ answered' = answered \cup {n}
    BY <1>7 DEF ProbeAnswers
  <2>2. IsFiniteSet(answered) /\ Cardinality(answered) \in Nat /\ Cardinality(Nodes) \in Nat
    BY <1>4, AnsweredNumber, WaitNumbers
  <2>3. Cardinality(answered') = Cardinality(answered) + 1
    BY <2>1, <2>2, FS_AddElement
  <2> DEFINE later == (WaitRounds - round) * RoundSteps
  <2>4. later \in Nat
    BY RoundNumbers DEF RoundsOK
  <2>5. WaitLeft = later + (Cardinality(Nodes) - Cardinality(answered))
    BY <1>2, <2>1 DEF WaitLeft
  <2>6. WaitLeft' = later + (Cardinality(Nodes) - (Cardinality(answered) + 1))
    BY <1>1, <1>2, <2>1, <2>3 DEF WaitLeft
  <2> HIDE DEF later
  <2>7. WaitLeft' < WaitLeft
    BY <2>2, <2>4, <2>5, <2>6
  <2> QED BY <1>3, <2>1, <2>7
<1>8. CASE RoundFails
  <2>1. pc = "probe"
    BY <1>8 DEF RoundFails
  <2>2. CASE pc' = "failed"
    BY <1>1, <2>1, <2>2, StepsOfIs, SameWait, FewerSteps
  <2>3. CASE pc' # "failed"
    <3>1. pc' = "probe" /\ round' = round + 1 /\ answered' = {} /\ round < WaitRounds
      BY <1>8, <2>1, <2>3 DEF RoundFails, Go
    <3>2. Cardinality(answered') = 0
      BY <3>1, FS_EmptySet
    <3>3. Cardinality(answered) \in Nat /\ Cardinality(answered) <= Cardinality(Nodes)
      BY <1>4, AnsweredNumber
    <3> DEFINE later == (WaitRounds - round) * RoundSteps
               less == (WaitRounds - (round + 1)) * RoundSteps
    <3>4. WaitLeft = later + (Cardinality(Nodes) - Cardinality(answered))
      BY <1>2, <2>1 DEF WaitLeft
    <3>5. WaitLeft' = less + Cardinality(Nodes)
      BY <1>1, <1>2, <3>1, <3>2, WaitNumbers DEF WaitLeft
    <3>6. later \in Nat /\ less + RoundSteps = later
      BY <3>1, RoundNumbers DEF RoundsOK
    <3> HIDE DEF later
    <3>7. less = later - RoundSteps
      <4>1. less \in Int
        BY WorkflowAssumption, WaitNumbers DEF RoundsOK
      <4> HIDE DEF less
      <4> QED BY <3>6, <4>1, WaitNumbers
    <3> HIDE DEF less
    <3>8. WaitLeft' < WaitLeft
      BY <3>3, <3>4, <3>5, <3>6, <3>7, WaitNumbers
    <3> QED BY <1>3, <3>1, <3>8
  <2> QED BY <2>2, <2>3
<1> QED BY <1>5, <1>6, <1>7, <1>8

LEMMA NextRoundsOK ==
  ASSUME RoundsOK, [Next]_vars
  PROVE  RoundsOK'
<1>1. CASE UNCHANGED round /\ pc' # "probe"
  BY <1>1 DEF RoundsOK
<1>2. CASE UNCHANGED <<round, pc>>
  BY <1>2 DEF RoundsOK
<1>3. CASE StageStarts \/ LogStart \/ Execute \/ ExecuteEnds \/ StageSucceeds \/ StageFails
             \/ LogFailure \/ RoundPasses \/ Render \/ SaveSuccess \/ LogWorkflow \/ LogRunbook
  BY <1>1, <1>3 DEF StageStarts, LogStart, Execute, ExecuteEnds, StageSucceeds, StageFails,
       LogFailure, RoundPasses, Render, SaveSuccess, LogWorkflow, LogRunbook, Go, probes
<1>4. CASE Raises \/ Crash \/ LogSuccess \/ WaitStarts
  BY <1>1, <1>4 DEF Raises, Crash, LogSuccess, WaitStarts, Go, probes
<1>5. CASE LogWait
  BY <1>5, WorkflowAssumption DEF LogWait, RoundsOK
<1>6. CASE \E n \in Nodes : ProbeAnswers(n) \/ NodeFlaps(n)
  BY <1>2, <1>6 DEF ProbeAnswers, NodeFlaps, probes
<1>7. CASE RoundFails
  BY <1>7, WorkflowAssumption DEF RoundFails, RoundsOK, Go, probes
<1>8. CASE PlanExpires \/ Over \/ UNCHANGED vars
  BY <1>2, <1>8 DEF PlanExpires, Over, vars, probes
<1> QED BY <1>3, <1>4, <1>5, <1>6, <1>7, <1>8 DEF Next, ThreadStep

\* Every step of the thread is one fewer to go, so with its fairness it ends: the wait for
\* the nodes too, whether they come up, go down or do not answer (service.py:1105-1151).
THEOREM ThreadsRunOut == Spec => ThreadRunsOut
<1> DEFINE Fewer == /\ ThreadStep \/ Raises \/ Crash => StepsLeft' < StepsLeft
                    /\ StepsLeft' <= StepsLeft
           Bounded == StepsLeft \in 0..(38 + WaitSteps)
<1>1. Spec => [](Inv /\ RoundsOK)
  <2>1. Init => RoundsOK
    BY WorkflowAssumption DEF Init, RoundsOK
  <2>2. Inv /\ RoundsOK /\ [Next]_vars => RoundsOK'
    BY NextRoundsOK
  <2> QED BY <2>1, <2>2, WorkflowInvariant, PTL DEF Spec
<1>2. Inv /\ RoundsOK => Bounded /\ LeftOK
  <2> SUFFICES ASSUME Inv, RoundsOK PROVE Bounded /\ LeftOK
    OBVIOUS
  <2>1. Bounded /\ WaitLeft \in Nat /\ (pc \notin {"done", "dead"} => StepsLeft > 0)
    BY LeftType
  <2>2. StepsLeft \in Nat
    BY <2>1, WaitNumbers
  <2> QED BY <2>1, <2>2 DEF LeftOK
<1>3. (Inv /\ RoundsOK /\ LeftOK) /\ (Inv /\ LeftOK)' /\ [Next]_vars => [Fewer]_vars
  <2> SUFFICES ASSUME Inv, RoundsOK, LeftOK, Inv', LeftOK', [Next]_vars PROVE Fewer
    OBVIOUS
  <2>1. StepsLeft \in Nat /\ StepsLeft' \in Nat
    BY DEF LeftOK
  <2>2. ThreadStep \/ Raises \/ Crash => StepsLeft' < StepsLeft
    BY PlainSteps, NextStageSteps, WaitingSteps DEF ThreadStep
  <2>3. CASE (\E n \in Nodes : NodeFlaps(n)) \/ PlanExpires \/ Over \/ UNCHANGED vars
    <3>1. UNCHANGED <<pc, stage, scope, round, answered>>
      BY <2>3 DEF NodeFlaps, PlanExpires, Over, vars, config, probes
    <3>2. StepsLeft' = StepsLeft
      BY <3>1 DEF StepsLeft, WaitLeft
    <3> QED BY <2>1, <2>2, <3>2
  <2> QED BY <2>1, <2>2, <2>3 DEF Next
<1> HIDE DEF Fewer, Bounded
<1>4. Spec => []Bounded
  BY <1>1, <1>2, PTL
<1>5. Spec => [][Fewer]_vars
  BY <1>1, <1>2, <1>3, PTL DEF Spec
<1> QED BY <1>4, <1>5 DEF ThreadRunsOut, Fewer, Bounded

-----------------------------------------------------------------------------
(* What RunService.tla keeps of a workflow.                                *)

\* The run as the service sees it: queued under its key, and handed to the control host
\* with its first component.
AsRun == INSTANCE RunContract WITH
  Keys <- {0}, RunIds <- {0}, None <- 1,
  status <- [r \in {0} |-> run],
  owner <- [r \in {0} |-> 0],
  bound <- [k \in {0} |-> 0],
  begun <- [r \in {0} |-> IF executed = <<>> THEN 0 ELSE 1]

\* The thread of a workflow, with all its stages, starts from a queued run and does to
\* it what the contract lets a run's thread do: start it, begin it, end it.
IsOneRun == run = "QUEUED" /\ executed = <<>> /\ [][AsRun!Next]_(AsRun!vars)

\* A run in the queue is one whose first component has not been persisted as running.
Unstarted == run = "QUEUED" => stage = 1 /\ pc \in {"start", "dead"}

LEMMA NextUnstarted ==
  ASSUME Unstarted, [Next]_vars
  PROVE  Unstarted'
<1> USE DEF Unstarted, Go, config, row, probes
<1>1. CASE StageStarts \/ StageSucceeds \/ WaitStarts \/ StageFails \/ SaveSuccess
  BY <1>1 DEF StageStarts, StageSucceeds, WaitStarts, StageFails, SaveSuccess, SetComponent,
              FinishFailure
<1>2. CASE LogStart \/ Execute \/ ExecuteEnds \/ LogSuccess \/ LogFailure
  BY <1>2 DEF LogStart, Execute, ExecuteEnds, LogSuccess, LogFailure
<1>3. CASE LogWait \/ (\E n \in Nodes : ProbeAnswers(n)) \/ RoundPasses \/ RoundFails
  BY <1>3 DEF LogWait, ProbeAnswers, RoundPasses, RoundFails
<1>4. CASE Render \/ LogWorkflow \/ LogRunbook
  BY <1>4 DEF Render, LogWorkflow, LogRunbook
<1>5. CASE Raises \/ Crash
  BY <1>5 DEF Raises, Crash
<1>6. CASE (\E n \in Nodes : NodeFlaps(n)) \/ PlanExpires \/ Over \/ UNCHANGED vars
  BY <1>6 DEF NodeFlaps, PlanExpires, Over, vars
<1> QED BY <1>1, <1>2, <1>3, <1>4, <1>5, <1>6 DEF Next, ThreadStep

LEMMA StepIsOneRuns ==
  ASSUME Inv, Unstarted, [Next]_vars
  PROVE  [AsRun!Next]_(AsRun!vars)
<1>1. AsRun!Bound(0)
  BY DEF AsRun!Bound
<1>2. CASE UNCHANGED <<run, executed>>
  BY <1>2 DEF AsRun!vars
<1>3. CASE StageStarts \/ StageSucceeds \/ WaitStarts
  <2>1. run' = "RUNNING" /\ run \in {"QUEUED", "RUNNING"} /\ UNCHANGED executed
    BY <1>3 DEF StageStarts, StageSucceeds, WaitStarts, SetComponent, Inv, TypeOK, Standing,
                Preparing, Performed, Terminal
  <2>2. CASE run = "RUNNING"
    BY <1>2, <2>1, <2>2
  <2>3. CASE run = "QUEUED"
    <3>1. AsRun!Start(0)
      BY <1>1, <2>1, <2>3 DEF AsRun!Start
    <3> QED BY <3>1 DEF AsRun!Next
  <2> QED BY <2>1, <2>2, <2>3
<1>4. CASE Execute
  <2>1. pc = "execute" /\ UNCHANGED run /\ executed' = Append(executed, Current)
    BY <1>4 DEF Execute, row
  <2>2. run = "RUNNING"
    BY <2>1 DEF Inv, TypeOK, Standing, Preparing, Terminal, Unstarted
  <2>3. executed' # <<>>
    BY <2>1, StageFacts DEF Inv, TypeOK
  <2>4. CASE executed = <<>>
    <3>1. AsRun!Begin(0)
      BY <1>1, <2>1, <2>2, <2>3, <2>4 DEF AsRun!Begin
    <3> QED BY <3>1 DEF AsRun!Next
  <2>5. CASE executed # <<>>
    BY <2>1, <2>3, <2>5 DEF AsRun!vars
  <2> QED BY <2>4, <2>5
<1>5. CASE StageFails
  <2>1. run' = "FAILED" /\ run \in {"QUEUED", "RUNNING"} /\ UNCHANGED executed
    BY <1>5 DEF StageFails, FinishFailure, Inv, TypeOK, Standing, Terminal
  <2>2. AsRun!Fail(0)
    BY <1>1, <2>1 DEF AsRun!Fail
  <2> QED BY <2>2 DEF AsRun!Next
<1>6. CASE SaveSuccess
  <2>1. pc = "save_success" /\ run' = "SUCCEEDED" /\ UNCHANGED executed
    BY <1>6 DEF SaveSuccess
  <2>2. run = "RUNNING"
    BY <2>1 DEF Inv, TypeOK, Standing, Performed, Terminal, Unstarted
  <2>3. executed # <<>>
    <3>1. Len(executed) = stage /\ stage \in 1..Len(scope) /\ Len(scope) \in 2..5
      BY <2>1, StageFacts DEF Inv, TypeOK, Standing, Performed
    <3>2. Len(executed) # 0
      BY <3>1
    <3> QED BY <3>2
  <2>4. AsRun!Succeed(0)
    BY <1>1, <2>1, <2>2, <2>3 DEF AsRun!Succeed
  <2> QED BY <2>4 DEF AsRun!Next
<1> QED BY <1>2, <1>3, <1>4, <1>5, <1>6
    DEF Next, ThreadStep, LogStart, ExecuteEnds, LogSuccess, LogFailure, LogWait, ProbeAnswers,
        RoundPasses, RoundFails, Render, LogWorkflow, LogRunbook, Raises, Crash, NodeFlaps,
        PlanExpires, Over, vars, row

\* So what RunContract.tla promises of a run holds of a workflow carried out stage by
\* stage, and not only of its abstraction in RunService.tla.
THEOREM WorkflowIsOneRun == Spec => IsOneRun
<1>1. Init => Unstarted /\ run = "QUEUED" /\ executed = <<>>
  BY DEF Init, Unstarted
<1>2. Unstarted /\ [Next]_vars => Unstarted'
  BY NextUnstarted
<1>3. Inv /\ Unstarted /\ [Next]_vars => [AsRun!Next]_(AsRun!vars)
  BY StepIsOneRuns
<1> QED BY <1>1, <1>2, <1>3, WorkflowInvariant, PTL DEF Spec, IsOneRun
=============================================================================
