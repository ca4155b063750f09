CONSTANTS
  ra = ra  rb = rb  rc = rc  d1 = d1  d2 = d2  none = none
  RunIds = {ra, rb, rc}
  Digests = {d1}
  Targets <- MCTargets
  MaxTime = 1
  TicksPerSec = 2
  None = none
SPECIFICATION Spec
CHECK_DEADLOCK FALSE
INVARIANTS ReturnsNewest
