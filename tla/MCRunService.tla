---------------------------- MODULE MCRunService ----------------------------
(* Instances of RunService for TLC: the plans, preflights and requests of  *)
(* the runs.                                                               *)
EXTENDS RunService, TLC

CONSTANTS h1, h2, k1, k2, r1, r2, none,
          vmPlan, localPlan, rancherPlan, flowPlan, partPlan,
          vmOk, vmBad, localOk, rancherOk, flowOk, d1, d2

\* Five plans: three single components, a workflow, and a scope no tool takes.
MCPlans == {vmPlan, localPlan, rancherPlan, flowPlan, partPlan}
MCPlanOf == [p \in MCPlans |->
  [digest  |-> d1,
   scope   |-> CASE p = vmPlan      -> <<"vm">>
                 [] p = localPlan   -> <<"local-rke2">>
                 [] p = rancherPlan -> <<"rancher">>
                 [] p = flowPlan    -> <<"vm", "node-init", "local-rke2">>
                 [] p = partPlan    -> <<"vm", "rancher">>,
   expires |-> IF p \in {vmPlan, flowPlan} THEN 1 ELSE 2]]

MCPreflights == {vmOk, vmBad, localOk, rancherOk, flowOk}
MCPreflightOf == [f \in MCPreflights |->
  LET p == CASE f \in {vmOk, vmBad} -> vmPlan [] f = localOk -> localPlan
             [] f = rancherOk -> rancherPlan  [] f = flowOk -> flowPlan
  IN [plan |-> p, digest |-> d1, expires |-> MCPlanOf[p].expires,
      state |-> IF f = vmBad THEN "FAILED" ELSE "PASSED"]]

Ask(tool, p, d, f, approval) ==
  [tool |-> tool, plan |-> p, digest |-> d, preflight |-> f, approval |-> approval]

StartVm == Ask("start_run", vmPlan, d1, vmOk, vmPlan)
StartFlow == Ask("start_workflow", flowPlan, d1, flowOk, flowPlan)
StartLocal == Ask("start_run", localPlan, d1, localOk, localPlan)
StartRancher == Ask("start_run", rancherPlan, d1, rancherOk, rancherPlan)

OneRequest == {StartVm}
RaceRequests == {StartVm, StartFlow}
ArtifactRequests == {StartLocal, StartFlow, StartRancher}

\* Every way to get an argument wrong, next to the two right calls.
WrongRequests ==
  RaceRequests \cup
  {Ask("start_run", none, d1, vmOk, vmPlan),
   Ask("start_run", vmPlan, d2, vmOk, vmPlan),
   Ask("start_run", vmPlan, d1, none, vmPlan),
   Ask("start_run", vmPlan, d1, vmBad, vmPlan),
   Ask("start_run", vmPlan, d1, localOk, vmPlan),
   Ask("start_run", vmPlan, d1, vmOk, none),
   Ask("start_run", vmPlan, d1, vmOk, flowPlan),
   Ask("start_run", flowPlan, d1, flowOk, flowPlan),
   Ask("start_workflow", none, d1, flowOk, flowPlan),
   Ask("start_workflow", flowPlan, d2, flowOk, flowPlan),
   Ask("start_workflow", flowPlan, d1, vmOk, flowPlan),
   Ask("start_workflow", flowPlan, d1, flowOk, vmPlan),
   Ask("start_workflow", vmPlan, d1, vmOk, vmPlan),
   Ask("start_workflow", partPlan, d1, none, partPlan)}

AllRequests == WrongRequests \cup ArtifactRequests

TwoRuns == Permutations({r1, r2}) \cup Permutations({h1, h2}) \cup Permutations({k1, k2})
=============================================================================
