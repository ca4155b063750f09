CONSTANTS
  ra = ra  rb = rb  c1 = c1  c2 = c2  none = none
  Runs = {ra, rb}
  Readers = {c1, c2}
  ReaderRun <- MCReaderRun
  PageSize = 2
  None = none
  Limits <- MCLimits
  MaxEvents = 6
SPECIFICATION FairSpec
INVARIANTS NoGapNoDuplicate
PROPERTIES EveryEventIsRead
