--------------------------- MODULE MCEventCursor ---------------------------
EXTENDS EventCursor, TLC

CONSTANTS ra, rb, c1, c2, none

\* One reader of each run.
MCReaderRun == [c \in {c1, c2} |-> IF c = c1 THEN ra ELSE rb]
\* Below, at and above the borders 1 and PageSize = 2.
MCLimits == {-1, 0, 1, 3}

\* Ascending holds the ids of the set, each once, and in order.
ASSUME AscendingSorts ==
  \A ids \in SUBSET (1..6) :
    /\ ToSet(Ascending(ids)) = ids /\ Len(Ascending(ids)) = Cardinality(ids)
    /\ \A k \in 1..Cardinality(ids) - 1 : Ascending(ids)[k] < Ascending(ids)[k + 1]
=============================================================================
