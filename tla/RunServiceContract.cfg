CONSTANTS
  h1 = h1  h2 = h2  k1 = k1  k2 = k2  r1 = r1  r2 = r2  none = none
  vmPlan = vmPlan  localPlan = localPlan  rancherPlan = rancherPlan
  flowPlan = flowPlan  partPlan = partPlan
  vmOk = vmOk  vmBad = vmBad  localOk = localOk  rancherOk = rancherOk  flowOk = flowOk
  d1 = d1  d2 = d2
  Handlers = {h1, h2}
  Keys = {k1}
  Requests <- OneRequest
  RunIds = {r1, r2}
  Plans <- MCPlans
  PlanOf <- MCPlanOf
  Preflights <- MCPreflights
  PreflightOf <- MCPreflightOf
  Digests = {d1, d2}
  Configs = {d1}
  None = none
  MaxTime = 0
  MaxFaults = 0
  MaxCrashes = 0
SPECIFICATION Spec
PROPERTY SameRequestSameRun
