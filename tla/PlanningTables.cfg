CONSTANTS
  d1 = d1  d2 = d2  p1 = p1  p2 = p2  f1 = f1  f2 = f2  n1 = n1  n2 = n2  none = none
  Digests = {d1, d2}
  HasProxy = {d1}
  Requested <- MCRequested
  PlanIds = {p1}
  PreflightIds = {f1, f2}
  Nodes <- MCNodes
  MaxTime = 2
  MaxFlaps = 1
  TTL = 1
  None = none
SPECIFICATION Spec
INVARIANTS PlansAreRunnable PlannedAsAsked PassedMeansAnswered CurrentPreflightHasCurrentPlan
PROPERTIES ExpiryIsFinal
