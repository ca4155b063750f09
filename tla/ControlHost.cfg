CONSTANTS
  ra = ra  rb = rb  m1 = m1  m2 = m2  none = none
  Runs = {ra, rb}
  Component <- MCComponent
  Strategy <- MCStrategy
  Addresses = {m1, m2}
  Wanted <- MCWanted
  Silent = {}
  Strangers = {m1}
  Window = 1
  MaxFaults = 1
  None = none
SPECIFICATION FairSpec
CHECK_DEADLOCK FALSE
INVARIANTS TypeOK SuccessIsReal FailureIsReal NeverOntoAnswering
PROPERTIES OthersOnlyIfFreed EndsUnlessStalled
