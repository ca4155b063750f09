CONSTANTS
  n1 = n1  n2 = n2
  Nodes = {n1, n2}
  Scopes <- AllScopes
  Manuals <- AllManuals
  WaitRounds = 2
  MaxFlaps = 3
  MaxFaults = 1
  MaxCrashes = 1
SPECIFICATION FairSpec
INVARIANTS FailureAccounted ExecutedInOrder SuccessComplete NodesAnsweredFirst EventsBackedByRow
PROPERTIES MovesForward ImplementsPipeline ReachesVerdict
