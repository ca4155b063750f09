CONSTANTS
  da = da  db = db  c1 = c1  c2 = c2  w1 = w1  w2 = w2  w3 = w3
  east = east  west = west  u1 = u1  u2 = u2
  Runs = {da, db}
  Nodes = {c1, c2, w1, w2, w3}
  Configs <- MCConfigs
  MaxFaults = 3
  None = None
SPECIFICATION Spec
SYMMETRY MCSymmetry
INVARIANT FirstNodeDecides
INVARIANT FailsForAReason
INVARIANT UrlIsKept
CHECK_DEADLOCK FALSE
