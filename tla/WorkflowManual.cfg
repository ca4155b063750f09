CONSTANTS
  n1 = n1  n2 = n2
  Nodes = {n1, n2}
  Scopes <- ShortScopes
  Manuals <- AllManuals
  WaitRounds = 1
  MaxFlaps = 2
  MaxFaults = 0
  MaxCrashes = 0
SPECIFICATION Spec
INVARIANT ManualIsRecorded
