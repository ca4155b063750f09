CONSTANTS
  da = da  db = db  c1 = c1  c2 = c2  w1 = w1  w2 = w2  w3 = w3
  east = east  west = west  u1 = u1  u2 = u2
  Runs = {da, db}
  Nodes = {c1, w1, w2}
  Configs <- MCRenamed
  MaxFaults = 0
  None = None
SPECIFICATION Spec
INVARIANT RegistersEveryNode
CHECK_DEADLOCK FALSE
