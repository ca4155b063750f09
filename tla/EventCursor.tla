---------------------------- MODULE EventCursor ----------------------------
(***************************************************************************)
(* Reading the event stream of a run page by page: get_run_events of       *)
(* service.py over append_run_event and get_run_events of storage.py.      *)
(*                                                                         *)
(* All runs share one table with an autoincrement id, the cursor is the    *)
(* id, and each append is a transaction of its own; SQLite admits one      *)
(* writer at a time, so ids become visible in order.  Readers poll while   *)
(* runs append.  A request changes nothing on the server: a reply that is  *)
(* lost leaves the reader with the cursor it had.                          *)
(***************************************************************************)
EXTENDS Integers, Sequences, FiniteSets, SequencesExt

CONSTANTS
  Runs,      \* runs with a row
  Readers,   \* clients that poll
  ReaderRun, \* the run each reader follows
  Limits,    \* the limit arguments readers pass, any integers
  PageSize,  \* the largest page (100 in the code)
  MaxEvents, \* bound on the events appended
  None

ASSUME CursorAssumption ==
  /\ ReaderRun \in [Readers -> Runs]
  /\ Limits \subseteq Int /\ Limits # {}
  /\ PageSize \in Nat \ {0} /\ MaxEvents \in Nat /\ None \notin Nat

VARIABLES
  log,    \* table run_events: the run of the event with each id
  cursor, \* the cursor each reader passes next
  seen    \* history: the event ids each reader was given, in order

vars == <<log, cursor, seen>>

\* Bug: no lower bound.
PageLimitUpperOnly(limit) == IF limit > PageSize THEN PageSize ELSE limit

\* max(1, min(limit, 100))
PageLimit(limit) ==
  IF limit > PageSize THEN PageSize ELSE IF limit < 1 THEN 1 ELSE limit

\* int(after_cursor or "0")
After(c) == IF c = None THEN 0 ELSE c

\* ORDER BY event_id ASC: the k-th is the one that k ids reach up to.
Rank(ids, i) == Cardinality({j \in ids : j <= i})
Ascending(ids) == [k \in 1..Cardinality(ids) |-> CHOOSE i \in ids : Rank(ids, i) = k]

\* The ids of a run's events, in order.
EventsOf(r) == Ascending({i \in DOMAIN log : log[i] = r})

\* Bug: the cursor is taken for the next event instead of the last one read.
PageFromCursor(r, after, limit) ==
  LET later == {i \in DOMAIN log : log[i] = r /\ i >= after}
  IN IF limit < 0 \/ Cardinality(later) <= limit THEN Ascending(later)
     ELSE SubSeq(Ascending(later), 1, limit)

\* SELECT ... WHERE run_id = ? AND event_id > ? ORDER BY event_id ASC LIMIT ?
\* (a negative LIMIT is none at all in SQLite).
Page(r, after, limit) ==
  LET later == {i \in DOMAIN log : log[i] = r /\ i > after}
  IN IF limit < 0 \/ Cardinality(later) <= limit THEN Ascending(later)
     ELSE SubSeq(Ascending(later), 1, limit)

\* events[-1]["cursor"] if events else after_cursor
NextCursor(events, after) == IF events = <<>> THEN after ELSE Last(events)

AppendRunEvent(r) ==
  /\ Len(log) < MaxEvents
  /\ log' = Append(log, r)
  /\ UNCHANGED <<cursor, seen>>

\* (An after_cursor that is no number is refused and changes nothing.)
GetRunEvents(c, limit) ==
  LET events == Page(ReaderRun[c], After(cursor[c]), PageLimit(limit)) IN
  /\ seen' = [seen EXCEPT ![c] = @ \o events]
  /\ cursor' = [cursor EXCEPT ![c] = NextCursor(events, @)]
  /\ UNCHANGED log

Init ==
  /\ log = <<>>
  /\ cursor = [c \in Readers |-> None] /\ seen = [c \in Readers |-> <<>>]

Next ==
  \/ \E r \in Runs : AppendRunEvent(r)
  \/ \E c \in Readers, limit \in Limits : GetRunEvents(c, limit)

Spec == Init /\ [][Next]_vars

\* Each reader keeps polling with some limit of its own, whatever else it asks for.
FairSpec ==
  Spec /\ \A c \in Readers : \E limit \in Limits : WF_vars(GetRunEvents(c, limit))

-----------------------------------------------------------------------------

\* What a reader has been given is the beginning of its run's events: nothing left
\* out at a page border, nothing twice, nothing of another run, whatever was
\* appended between two pages and whatever limit was asked for (service.py:1301-1323).
NoGapNoDuplicate ==
  \A c \in Readers : IsPrefix(seen[c], EventsOf(ReaderRun[c]))

\* A reader that keeps polling is given every event of its run, also when it asks for
\* pages of zero events or fewer (service.py:1302).
EveryEventIsRead ==
  \A c \in Readers : \A i \in 1..MaxEvents :
    (i \in DOMAIN log /\ log[i] = ReaderRun[c]) ~> Contains(seen[c], i)
=============================================================================
