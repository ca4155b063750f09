------------------------- MODULE EventCursorProofs -------------------------
(***************************************************************************)
(* No reader of the event stream misses an event or is given one twice,    *)
(* proved for any number of runs, readers, events and limits.              *)
(*                                                                         *)
(* The argument: what a reader was given is a prefix of its run's events   *)
(* and its cursor is the last of them.  The ids above the k-th id of a set *)
(* are ranked as in the set, less k, so a page goes on where the last one  *)
(* ended; and an id above all others changes no rank, so an append only    *)
(* makes the list longer.                                                  *)
(***************************************************************************)
EXTENDS EventCursor, FiniteSetTheorems, TLAPS

-----------------------------------------------------------------------------
(* Sets of ids in ascending order.                                         *)

IdSet(ids) == ids \subseteq Nat /\ IsFiniteSet(ids)

LEMMA RankType ==
  ASSUME NEW ids, IdSet(ids), NEW i \in Nat
  PROVE  /\ IsFiniteSet({j \in ids : j <= i}) /\ Cardinality(ids) \in Nat
         /\ Rank(ids, i) \in Nat /\ Rank(ids, i) <= Cardinality(ids)
         /\ i \in ids => Rank(ids, i) \in 1..Cardinality(ids)
<1> DEFINE T == {j \in ids : j <= i}
<1>1. T \in SUBSET ids /\ IsFiniteSet(ids)
  BY DEF IdSet
<1>2. IsFiniteSet(T) /\ Cardinality(T) <= Cardinality(ids)
  BY <1>1, FS_Subset
<1>3. Cardinality(T) \in Nat /\ Cardinality(ids) \in Nat
  BY <1>1, <1>2, FS_CardinalityType
<1>4. i \in ids => i \in T
  OBVIOUS
<1>5. i \in ids => Cardinality(T) # 0
  BY <1>2, <1>4, FS_EmptySet
<1> QED BY <1>2, <1>3, <1>5 DEF Rank

\* A larger id has a larger rank.
LEMMA RankGrows ==
  ASSUME NEW ids, IdSet(ids), NEW i \in ids, NEW k \in ids, i < k
  PROVE  Rank(ids, i) < Rank(ids, k)
<1> DEFINE S == {j \in ids : j <= i}
           T == {j \in ids : j <= k}
<1>1. i \in Nat /\ k \in Nat /\ \A j \in ids : j \in Nat
  BY DEF IdSet
<1>2. IsFiniteSet(T)
  BY <1>1, RankType
<1>3. S \in SUBSET T /\ k \in T /\ k \notin S
  <2>1. \A j \in ids : j <= i => j <= k
    BY <1>1
  <2>2. k <= k /\ ~(k <= i)
    BY <1>1
  <2> QED BY <2>1, <2>2
<1>4. Cardinality(S) <= Cardinality(T) /\ Cardinality(S) # Cardinality(T)
  BY <1>2, <1>3, FS_Subset
<1>5. Rank(ids, i) \in Nat /\ Rank(ids, k) \in Nat
  BY <1>1, RankType
<1> QED BY <1>4, <1>5 DEF Rank

\* Every rank up to the number of ids is taken, by one id.
LEMMA RankOnto ==
  ASSUME NEW ids, IdSet(ids), NEW n \in 1..Cardinality(ids)
  PROVE  \E i \in ids : Rank(ids, i) = n
<1> DEFINE R == 1..Cardinality(ids)
           f == [i \in ids |-> Rank(ids, i)]
<1>1. IsFiniteSet(ids) /\ Cardinality(ids) \in Nat
  BY FS_CardinalityType DEF IdSet
<1>2. f \in [ids -> R]
  BY RankType DEF IdSet
<1>3. \A i, k \in ids : f[i] = f[k] => i = k
  <2> SUFFICES ASSUME NEW i \in ids, NEW k \in ids, i # k PROVE f[i] # f[k]
    OBVIOUS
  <2>1. i \in Nat /\ k \in Nat
    BY DEF IdSet
  <2>2. Rank(ids, i) \in Nat /\ Rank(ids, k) \in Nat
    BY <2>1, RankType
  <2>3. i < k \/ k < i
    BY <2>1
  <2> QED BY <2>2, <2>3, RankGrows
<1>4. f \in Injection(ids, R)
  BY <1>2, <1>3 DEF Injection, IsInjective
<1>5. IsFiniteSet(R) /\ Cardinality(R) = Cardinality(ids)
  BY <1>1, FS_Interval
<1>6. f \in Surjection(ids, R)
  BY <1>4, <1>5, FS_Injection
<1>7. \E i \in ids : f[i] = n
  BY <1>6 DEF Surjection
<1> QED BY <1>7

\* The list of the ids in ascending order: the k-th has rank k.
LEMMA AscendingFacts ==
  ASSUME NEW ids, IdSet(ids)
  PROVE  /\ Ascending(ids) \in Seq(Nat) /\ Len(Ascending(ids)) = Cardinality(ids)
         /\ Cardinality(ids) \in Nat
         /\ \A k \in 1..Cardinality(ids) : /\ Ascending(ids)[k] \in ids
                                           /\ Rank(ids, Ascending(ids)[k]) = k
         /\ \A i \in ids : Ascending(ids)[Rank(ids, i)] = i
<1> DEFINE n == Cardinality(ids)
           s == Ascending(ids)
<1>1. n \in Nat
  BY FS_CardinalityType DEF IdSet
<1>2. \A k \in 1..n : s[k] \in ids /\ Rank(ids, s[k]) = k
  <2> SUFFICES ASSUME NEW k \in 1..n PROVE s[k] \in ids /\ Rank(ids, s[k]) = k
    OBVIOUS
  <2>1. s[k] = CHOOSE i \in ids : Rank(ids, i) = k
    BY DEF Ascending
  <2>2. \E i \in ids : Rank(ids, i) = k
    BY RankOnto
  <2> QED BY <2>1, <2>2
<1>3. DOMAIN s = 1..n /\ s = [k \in 1..n |-> s[k]]
  BY DEF Ascending
<1> HIDE DEF n, s
<1>4. s \in Seq(Nat) /\ Len(s) = n
  <2>1. \A k \in 1..n : s[k] \in Nat
    BY <1>2 DEF IdSet
  <2> QED BY <1>1, <1>3, <2>1
<1>5. ASSUME NEW i \in ids PROVE s[Rank(ids, i)] = i
  <2> DEFINE k == Rank(ids, i)
  <2>1. i \in Nat /\ k \in 1..n
    BY RankType DEF IdSet, n
  <2>2. s[k] \in ids /\ Rank(ids, s[k]) = k
    BY <1>2, <2>1
  <2>3. s[k] \in Nat
    BY <2>2 DEF IdSet
  <2>4. ~(s[k] < i) /\ ~(i < s[k])
    <3>1. Rank(ids, i) = k /\ k \in Nat
      BY <2>1, <1>1
    <3> HIDE DEF k
    <3> QED BY <2>2, <3>1, RankGrows
  <2> HIDE DEF k
  <2>5. s[k] = i
    BY <2>1, <2>3, <2>4
  <2> QED BY <2>5 DEF k
<1> QED BY <1>1, <1>2, <1>4, <1>5 DEF n, s

\* An id above all of the set leaves the ranks, and so the list, as they are.
LEMMA AscendingGrows ==
  ASSUME NEW ids, IdSet(ids), NEW m \in Nat, \A i \in ids : i < m
  PROVE  LET more == ids \cup {m} IN
         /\ IdSet(more) /\ Cardinality(more) = Cardinality(ids) + 1
         /\ \A k \in 1..Cardinality(ids) : Ascending(more)[k] = Ascending(ids)[k]
<1> DEFINE more == ids \cup {m}
<1>1. m \notin ids
  BY DEF IdSet
<1>2. IdSet(more) /\ Cardinality(more) = Cardinality(ids) + 1
  BY <1>1, FS_AddElement DEF IdSet
<1>3. ASSUME NEW k \in 1..Cardinality(ids) PROVE Ascending(more)[k] = Ascending(ids)[k]
  <2> DEFINE i == Ascending(ids)[k]
  <2>1. i \in ids /\ Rank(ids, i) = k
    BY AscendingFacts
  <2>2. i \in Nat /\ i < m
    BY <2>1 DEF IdSet
  <2> HIDE DEF i
  <2>3. {j \in more : j <= i} = {j \in ids : j <= i}
    BY <2>2
  <2>4. Rank(more, i) = k
    BY <2>1, <2>3 DEF Rank
  <2>5. Ascending(more)[Rank(more, i)] = i
    BY <1>2, <2>1, AscendingFacts
  <2> QED BY <2>4, <2>5 DEF i
<1> QED BY <1>2, <1>3

\* The ids above the k-th one are those after it in the list.
LEMMA AscendingAfter ==
  ASSUME NEW ids, IdSet(ids), NEW k \in 0..Cardinality(ids), NEW a \in Nat,
         Rank(ids, a) = k
  PROVE  LET later == {i \in ids : i > a} IN
         /\ IdSet(later) /\ Cardinality(ids) = k + Cardinality(later)
         /\ \A j \in 1..Cardinality(later) : Ascending(later)[j] = Ascending(ids)[k + j]
<1> DEFINE later == {i \in ids : i > a}
           upTo == {i \in ids : i <= a}
<1>0. \A i \in ids : i \in Nat
  BY DEF IdSet
<1>1. IdSet(later) /\ IsFiniteSet(upTo) /\ Cardinality(upTo) = k
  <2>1. later \in SUBSET ids /\ upTo \in SUBSET ids /\ IsFiniteSet(ids)
    BY DEF IdSet
  <2>2. IsFiniteSet(later) /\ IsFiniteSet(upTo)
    BY <2>1, FS_Subset
  <2> QED BY <2>2 DEF IdSet, Rank
<1>2. Cardinality(later) \in Nat /\ k \in Nat
  BY <1>1, FS_CardinalityType DEF IdSet
<1>3. ASSUME NEW T, T \subseteq later, IsFiniteSet(T)
      PROVE  Cardinality(upTo \cup T) = k + Cardinality(T)
  <2>1. upTo \cap T = {}
    BY <1>0, <1>3
  <2>2. Cardinality(upTo \cap T) = 0
    BY <2>1, FS_EmptySet
  <2>3. Cardinality(upTo \cup T) = Cardinality(upTo) + Cardinality(T) - Cardinality(upTo \cap T)
    BY <1>1, <1>3, FS_Union
  <2>4. Cardinality(T) \in Nat
    BY <1>3, FS_CardinalityType
  <2> HIDE DEF upTo
  <2> QED BY <1>1, <1>2, <2>2, <2>3, <2>4
<1>4. Cardinality(ids) = k + Cardinality(later)
  <2>1. upTo \cup later = ids
    BY <1>0
  <2>2. later \subseteq later /\ IsFiniteSet(later)
    BY <1>1 DEF IdSet
  <2> HIDE DEF upTo, later
  <2> QED BY <1>3, <2>1, <2>2
<1>5. ASSUME NEW j \in 1..Cardinality(later) PROVE Ascending(later)[j] = Ascending(ids)[k + j]
  <2> DEFINE i == Ascending(later)[j]
             T == {l \in later : l <= i}
  <2>1. i \in later /\ Rank(later, i) = j
    BY <1>1, AscendingFacts
  <2> HIDE DEF i
  <2>2. i \in ids /\ i \in Nat /\ i > a
    BY <2>1 DEF IdSet
  <2>3. {l \in ids : l <= i} = upTo \cup T
    <3>1. \A l \in ids : l <= i <=> l <= a \/ (l > a /\ l <= i)
      BY <1>0, <2>2
    <3> QED BY <3>1
  <2>4. T \subseteq later /\ IsFiniteSet(T) /\ Cardinality(T) = j
    BY <1>1, <2>1, <2>2, RankType DEF Rank
  <2>5. Cardinality(upTo \cup T) = k + j
    BY <1>3, <2>4
  <2>6. Rank(ids, i) = k + j
    BY <2>3, <2>5 DEF Rank
  <2>7. Ascending(ids)[Rank(ids, i)] = i
    BY <2>2, AscendingFacts
  <2> QED BY <2>6, <2>7 DEF i
<1> QED BY <1>1, <1>4, <1>5

-----------------------------------------------------------------------------
(* The invariant.                                                          *)

IdsOf(r) == {i \in DOMAIN log : log[i] = r}

\* What a reader was given begins the events of its run, and its cursor is the last.
Begun(c) ==
  LET events == EventsOf(ReaderRun[c]) IN
  /\ seen[c] \in Seq(Nat) /\ Len(seen[c]) <= Len(events)
  /\ \A k \in 1..Len(seen[c]) : seen[c][k] = events[k]
  /\ cursor[c] = IF Len(seen[c]) = 0 THEN None ELSE seen[c][Len(seen[c])]

Inv ==
  /\ log \in Seq(Runs)
  /\ DOMAIN cursor = Readers /\ DOMAIN seen = Readers
  /\ \A c \in Readers : Begun(c)

LEMMA IdsOfIsIdSet ==
  ASSUME log \in Seq(Runs), NEW r
  PROVE  IdSet(IdsOf(r)) /\ \A i \in IdsOf(r) : i > 0 /\ i <= Len(log)
<1>1. Len(log) \in Nat /\ DOMAIN log = 1..Len(log)
  OBVIOUS
<1>2. IdsOf(r) \in SUBSET (1..Len(log))
  BY <1>1 DEF IdsOf
<1>3. IsFiniteSet(1..Len(log))
  BY <1>1, FS_Interval
<1>4. IsFiniteSet(IdsOf(r))
  BY <1>2, <1>3, FS_Subset
<1>5. \A i \in 1..Len(log) : i \in Nat /\ i > 0 /\ i <= Len(log)
  BY <1>1
<1> QED BY <1>2, <1>4, <1>5 DEF IdSet

LEMMA EventsOfFacts ==
  ASSUME log \in Seq(Runs), NEW r
  PROVE  /\ EventsOf(r) = Ascending(IdsOf(r)) /\ EventsOf(r) \in Seq(Nat)
         /\ Len(EventsOf(r)) = Cardinality(IdsOf(r))
<1>1. IdSet(IdsOf(r))
  BY IdsOfIsIdSet
<1>2. EventsOf(r) = Ascending(IdsOf(r))
  BY DEF EventsOf, IdsOf
<1>3. Ascending(IdsOf(r)) \in Seq(Nat) /\ Len(Ascending(IdsOf(r))) = Cardinality(IdsOf(r))
  BY <1>1, AscendingFacts
<1> QED BY <1>2, <1>3

LEMMA InitInv == Init => Inv
<1> SUFFICES ASSUME Init PROVE Inv
  OBVIOUS
<1>1. /\ log = << >> /\ DOMAIN cursor = Readers /\ DOMAIN seen = Readers
      /\ \A c \in Readers : cursor[c] = None /\ seen[c] = << >>
  BY DEF Init
<1>2. log \in Seq(Runs)
  BY <1>1
<1>3. ASSUME NEW c \in Readers PROVE Begun(c)
  <2>1. EventsOf(ReaderRun[c]) \in Seq(Nat)
    BY <1>2, EventsOfFacts
  <2>2. Len(EventsOf(ReaderRun[c])) \in Nat
    BY <2>1
  <2>3. << >> \in Seq(Nat) /\ Len(<< >>) = 0
    OBVIOUS
  <2>4. seen[c] = << >> /\ cursor[c] = None
    BY <1>1
  <2>5. seen[c] \in Seq(Nat) /\ Len(seen[c]) = 0
    BY <2>3, <2>4
  <2> QED BY <2>2, <2>4, <2>5 DEF Begun
<1> QED BY <1>1, <1>2, <1>3 DEF Inv

\* An append only makes the list of a run longer.
LEMMA EventsGrow ==
  ASSUME log \in Seq(Runs), NEW r \in Runs, NEW q \in Runs, log' = Append(log, q)
  PROVE  /\ Len(EventsOf(r)) <= Len(EventsOf(r)')
         /\ \A k \in 1..Len(EventsOf(r)) : EventsOf(r)'[k] = EventsOf(r)[k]
<1> DEFINE ids == IdsOf(r)
           n == Len(log) + 1
<1>1. log' \in Seq(Runs)
  OBVIOUS
<1>2. /\ n \in Nat /\ DOMAIN log' = DOMAIN log \cup {n} /\ n \notin DOMAIN log
      /\ log'[n] = q /\ \A i \in DOMAIN log : log'[i] = log[i]
  OBVIOUS
<1>3. IdsOf(r)' = IF q = r THEN ids \cup {n} ELSE ids
  BY <1>2 DEF IdsOf
<1>4. IdSet(ids) /\ \A i \in ids : i > 0 /\ i <= Len(log)
  BY IdsOfIsIdSet
<1>5. \A i \in ids : i < n
  BY <1>2, <1>4 DEF IdSet
<1>6. EventsOf(r) = Ascending(ids) /\ Len(EventsOf(r)) = Cardinality(ids)
  BY EventsOfFacts
<1>7. EventsOf(r)' = Ascending(IdsOf(r)') /\ Len(EventsOf(r)') = Cardinality(IdsOf(r)')
  <2>1. EventsOf(r)' = Ascending(IdsOf(r)')
    BY DEF EventsOf, IdsOf
  <2>2. IdSet(IdsOf(r)')
    <3>1. CASE q = r
      <4>1. IdSet(ids \cup {n})
        BY <1>2, <1>4, <1>5, AscendingGrows
      <4> QED BY <1>3, <3>1, <4>1
    <3>2. CASE q # r
      BY <1>3, <1>4, <3>2
    <3> QED BY <3>1, <3>2
  <2> QED BY <2>1, <2>2, AscendingFacts
<1>8. Cardinality(ids) \in Nat
  BY <1>4, AscendingFacts
<1>9. CASE q = r
  <2>1. /\ Cardinality(ids \cup {n}) = Cardinality(ids) + 1
        /\ \A k \in 1..Cardinality(ids) : Ascending(ids \cup {n})[k] = Ascending(ids)[k]
    BY <1>2, <1>4, <1>5, AscendingGrows
  <2>2. EventsOf(r)' = Ascending(ids \cup {n}) /\ Len(EventsOf(r)') = Cardinality(ids) + 1
    BY <1>3, <1>7, <1>9, <2>1
  <2> HIDE DEF ids, n
  <2>3. Len(EventsOf(r)) <= Len(EventsOf(r)')
    BY <1>6, <1>8, <2>2
  <2>4. ASSUME NEW k \in 1..Len(EventsOf(r)) PROVE EventsOf(r)'[k] = EventsOf(r)[k]
    BY <1>6, <2>1, <2>2, <2>4
  <2> QED BY <2>3, <2>4
<1>10. CASE q # r
  <2> HIDE DEF ids, n
  <2> QED BY <1>3, <1>6, <1>7, <1>8, <1>10
<1> QED BY <1>9, <1>10

\* A limit is brought between 1 and the largest page.
LEMMA PageLimitFacts ==
  ASSUME NEW limit \in Limits
  PROVE  PageLimit(limit) \in Nat \ {0} /\ PageLimit(limit) <= PageSize
BY CursorAssumption DEF PageLimit

\* The events after the k-th, as many as the page takes.
LEMMA PageFacts ==
  ASSUME log \in Seq(Runs), NEW r, NEW k \in 0..Cardinality(IdsOf(r)), NEW a \in Nat,
         Rank(IdsOf(r), a) = k, NEW limit \in Nat
  PROVE  /\ Page(r, a, limit) \in Seq(Nat)
         /\ k + Len(Page(r, a, limit)) <= Len(EventsOf(r))
         /\ \A j \in 1..Len(Page(r, a, limit)) : Page(r, a, limit)[j] = EventsOf(r)[k + j]
         /\ Len(Page(r, a, limit)) \in Nat /\ Len(Page(r, a, limit)) <= limit
         /\ k < Len(EventsOf(r)) /\ limit # 0 => Len(Page(r, a, limit)) > 0
<1> DEFINE ids == IdsOf(r)
           later == {i \in ids : i > a}
           page == Page(r, a, limit)
<1>1. IdSet(ids)
  BY IdsOfIsIdSet
<1>2. /\ IdSet(later) /\ Cardinality(ids) = k + Cardinality(later)
      /\ \A j \in 1..Cardinality(later) : Ascending(later)[j] = Ascending(ids)[k + j]
  BY <1>1, AscendingAfter
<1>3. /\ Ascending(later) \in Seq(Nat) /\ Len(Ascending(later)) = Cardinality(later)
      /\ Cardinality(later) \in Nat
  BY <1>2, AscendingFacts
<1>4. page = IF limit < 0 \/ Cardinality(later) <= limit THEN Ascending(later)
             ELSE SubSeq(Ascending(later), 1, limit)
  <2>1. later = {i \in DOMAIN log : log[i] = r /\ i > a}
    BY DEF IdsOf
  <2> QED BY <2>1 DEF Page
<1> HIDE DEF later, page
<1>5. /\ page \in Seq(Nat) /\ Len(page) \in Nat /\ Len(page) <= Cardinality(later)
      /\ \A j \in 1..Len(page) : page[j] = Ascending(later)[j]
      /\ Len(page) = IF Cardinality(later) <= limit THEN Cardinality(later) ELSE limit
  <2> DEFINE s == Ascending(later)
  <2>1. s \in Seq(Nat) /\ Len(s) = Cardinality(later)
    BY <1>3
  <2> HIDE DEF s
  <2>2. CASE Cardinality(later) <= limit
    <3>1. page = s
      BY <1>4, <2>2 DEF s
    <3> QED BY <1>3, <2>1, <2>2, <3>1 DEF s
  <2>3. CASE ~(Cardinality(later) <= limit)
    <3>1. page = SubSeq(s, 1, limit)
      BY <1>4, <2>3 DEF s
    <3>2. limit <= Len(s)
      BY <1>3, <2>1, <2>3
    <3>3. SubSeq(s, 1, limit) \in Seq(Nat) /\ Len(SubSeq(s, 1, limit)) = limit
          /\ \A j \in 1..limit : SubSeq(s, 1, limit)[j] = s[j]
      BY <2>1, <3>2
    <3> QED BY <1>3, <2>1, <3>1, <3>2, <3>3 DEF s
  <2> QED BY <2>2, <2>3
<1>6. EventsOf(r) = Ascending(ids) /\ Len(EventsOf(r)) = Cardinality(ids)
  BY EventsOfFacts
<1> HIDE DEF ids
<1>7. k \in Nat
  OBVIOUS
<1>8. k + Len(page) <= Len(EventsOf(r))
  BY <1>2, <1>3, <1>5, <1>6, <1>7
<1>9. ASSUME NEW j \in 1..Len(page) PROVE page[j] = EventsOf(r)[k + j]
  <2>1. j \in 1..Cardinality(later)
    BY <1>3, <1>5
  <2> QED BY <1>2, <1>5, <1>6, <2>1
<1>10. k < Len(EventsOf(r)) => Cardinality(later) > 0
  BY <1>2, <1>3, <1>6, <1>7
<1>11. Len(page) <= limit /\ (k < Len(EventsOf(r)) /\ limit # 0 => Len(page) > 0)
  BY <1>3, <1>5, <1>10
<1> QED BY <1>5, <1>8, <1>9, <1>11 DEF page

\* The cursor of a reader stands after as many events as it was given.
LEMMA CursorRank ==
  ASSUME Inv, NEW c \in Readers
  PROVE  LET ids == IdsOf(ReaderRun[c]) IN
         /\ Len(seen[c]) \in 0..Cardinality(ids)
         /\ After(cursor[c]) \in Nat
         /\ Rank(ids, After(cursor[c])) = Len(seen[c])
<1> DEFINE r == ReaderRun[c]
           ids == IdsOf(r)
           k == Len(seen[c])
<1>1. log \in Seq(Runs) /\ Begun(c)
  BY DEF Inv
<1>2. IdSet(ids) /\ \A i \in ids : i > 0
  BY <1>1, IdsOfIsIdSet
<1>3. EventsOf(r) = Ascending(ids) /\ Len(EventsOf(r)) = Cardinality(ids)
  BY <1>1, EventsOfFacts
<1>4. k \in Nat /\ Cardinality(ids) \in Nat /\ k <= Cardinality(ids)
  BY <1>1, <1>2, <1>3, AscendingFacts DEF Begun
<1>5. CASE k = 0
  <2>1. cursor[c] = None
    BY <1>1, <1>5 DEF Begun
  <2>2. After(cursor[c]) = 0
    BY <2>1 DEF After
  <2>3. {i \in ids : i <= 0} = {}
    BY <1>2 DEF IdSet
  <2>4. Rank(ids, 0) = 0
    BY <2>3, FS_EmptySet DEF Rank
  <2> QED BY <1>4, <1>5, <2>2, <2>4
<1>6. CASE k # 0
  <2>1. cursor[c] = seen[c][k] /\ k \in 1..k
    BY <1>1, <1>4, <1>6 DEF Begun
  <2>2. seen[c][k] = Ascending(ids)[k]
    BY <1>1, <1>3, <2>1 DEF Begun
  <2>3. k \in 1..Cardinality(ids)
    BY <1>4, <1>6
  <2> HIDE DEF k
  <2>4. Ascending(ids)[k] \in ids /\ Rank(ids, Ascending(ids)[k]) = k
    BY <1>2, <2>3, AscendingFacts
  <2> HIDE DEF ids
  <2>5. cursor[c] \in Nat /\ Rank(ids, cursor[c]) = k
    BY <1>2, <2>1, <2>2, <2>4 DEF IdSet
  <2>6. After(cursor[c]) = cursor[c]
    BY <2>5, CursorAssumption DEF After
  <2> QED BY <1>4, <2>5, <2>6 DEF k, ids
<1> QED BY <1>5, <1>6

LEMMA NextInv ==
  ASSUME Inv, [Next]_vars
  PROVE  Inv'
<1>1. ASSUME NEW q \in Runs, AppendRunEvent(q) PROVE Inv'
  <2>1. log \in Seq(Runs) /\ log' = Append(log, q) /\ cursor' = cursor /\ seen' = seen
    BY <1>1 DEF AppendRunEvent, Inv
  <2>2. log' \in Seq(Runs)
    BY <2>1
  <2>3. ASSUME NEW c \in Readers PROVE Begun(c)'
    <3> DEFINE r == ReaderRun[c]
               n == Len(seen[c])
    <3>1. r \in Runs
      BY CursorAssumption
    <3>2. /\ Len(EventsOf(r)) <= Len(EventsOf(r)')
          /\ \A k \in 1..Len(EventsOf(r)) : EventsOf(r)'[k] = EventsOf(r)[k]
      BY <2>1, <3>1, EventsGrow
    <3>3. /\ seen[c] \in Seq(Nat) /\ n <= Len(EventsOf(r))
          /\ \A k \in 1..n : seen[c][k] = EventsOf(r)[k]
          /\ cursor[c] = IF n = 0 THEN None ELSE seen[c][n]
      BY DEF Inv, Begun
    <3>4. EventsOf(r) \in Seq(Nat)
      BY <2>1, EventsOfFacts
    <3>5. n \in Nat /\ Len(EventsOf(r)) \in Nat
      BY <3>3, <3>4
    <3>6. EventsOf(r)' = Ascending(IdsOf(r)') /\ IdSet(IdsOf(r)')
      <4>1. ASSUME NEW x, x = IdsOf(r)', NEW m, m = Len(log) + 1 PROVE IdSet(x)
        <5>1. x \subseteq 1..m
          <6>1. DOMAIN log' = 1..m
            BY <2>1, <4>1
          <6> QED BY <4>1, <6>1 DEF IdsOf
        <5>2. m \in Int /\ IsFiniteSet(1..m)
          BY <2>1, <4>1, FS_Interval
        <5>3. IsFiniteSet(x)
          BY <5>1, <5>2, FS_Subset
        <5>4. x \subseteq Nat
          BY <5>1
        <5> QED BY <5>3, <5>4 DEF IdSet
      <4> QED BY <4>1 DEF EventsOf, IdsOf
    <3>7. Len(EventsOf(r)') \in Nat
      BY <3>6, AscendingFacts
    <3>8. n <= Len(EventsOf(r)')
      BY <3>2, <3>3, <3>5, <3>7
    <3>9. ASSUME NEW k \in 1..n PROVE seen[c][k] = EventsOf(r)'[k]
      BY <3>2, <3>3, <3>5, <3>9
    <3> HIDE DEF n
    <3>10. /\ seen'[c] \in Seq(Nat) /\ Len(seen'[c]) = n
           /\ cursor'[c] = IF n = 0 THEN None ELSE seen'[c][n]
           /\ \A k \in 1..n : seen'[c][k] = EventsOf(r)'[k]
      BY <2>1, <3>3, <3>9 DEF n
    <3> QED BY <3>8, <3>10 DEF Begun
  <2> QED BY <2>1, <2>2, <2>3 DEF Inv
<1>2. ASSUME NEW c \in Readers, NEW limit \in Limits, GetRunEvents(c, limit) PROVE Inv'
  <2> DEFINE r == ReaderRun[c]
             k == Len(seen[c])
             page == Page(r, After(cursor[c]), PageLimit(limit))
             more == seen[c] \o page
  <2>1. /\ seen' = [seen EXCEPT ![c] = more]
        /\ cursor' = [cursor EXCEPT ![c] = NextCursor(page, cursor[c])]
        /\ log' = log
    BY <1>2 DEF GetRunEvents
  <2>2. /\ k \in 0..Cardinality(IdsOf(r)) /\ After(cursor[c]) \in Nat
        /\ Rank(IdsOf(r), After(cursor[c])) = k
    BY CursorRank
  <2>3. PageLimit(limit) \in Nat
    BY PageLimitFacts
  <2>4. /\ page \in Seq(Nat) /\ k + Len(page) <= Len(EventsOf(r))
        /\ \A j \in 1..Len(page) : page[j] = EventsOf(r)[k + j]
    BY <2>2, <2>3, PageFacts DEF Inv
  <2>5. /\ seen[c] \in Seq(Nat)
        /\ \A i \in 1..k : seen[c][i] = EventsOf(r)[i]
        /\ cursor[c] = IF k = 0 THEN None ELSE seen[c][k]
    BY DEF Inv, Begun
  <2>6. EventsOf(r)' = EventsOf(r)
    BY <2>1 DEF EventsOf
  <2> HIDE DEF page
  <2>7. /\ more \in Seq(Nat) /\ Len(more) = k + Len(page)
        /\ k \in Nat /\ Len(page) \in Nat
        /\ \A i \in 1..k : more[i] = seen[c][i]
        /\ \A j \in 1..Len(page) : more[k + j] = page[j]
    <3> DEFINE s == seen[c]
    <3>1. s \in Seq(Nat) /\ page \in Seq(Nat)
      BY <2>4, <2>5
    <3> HIDE DEF s
    <3>2. /\ s \o page \in Seq(Nat) /\ Len(s \o page) = Len(s) + Len(page)
          /\ Len(s) \in Nat /\ Len(page) \in Nat
          /\ \A i \in 1..Len(s) : (s \o page)[i] = s[i]
          /\ \A j \in 1..Len(page) : (s \o page)[Len(s) + j] = page[j]
      BY <3>1
    <3> QED BY <3>2 DEF s
  <2> HIDE DEF k, more
  <2>8. ASSUME NEW i \in 1..Len(more) PROVE more[i] = EventsOf(r)[i]
    <3>1. CASE i \in 1..k
      BY <2>5, <2>7, <3>1
    <3>2. CASE i \notin 1..k
      <4>1. i - k \in 1..Len(page) /\ i = k + (i - k)
        BY <2>7, <3>2
      <4> QED BY <2>4, <2>7, <4>1
    <3> QED BY <3>1, <3>2
  <2>9. NextCursor(page, cursor[c]) = IF Len(more) = 0 THEN None ELSE more[Len(more)]
    <3>1. CASE page = << >>
      <4>1. Len(page) = 0
        BY <3>1
      <4>2. NextCursor(page, cursor[c]) = cursor[c] /\ Len(more) = k
        BY <2>7, <3>1, <4>1 DEF NextCursor
      <4>3. k # 0 => k \in 1..k
        BY <2>7
      <4> QED BY <2>5, <2>7, <4>2, <4>3
    <3>2. CASE page # << >>
      <4>1. Len(page) \in 1..Len(page)
        BY <2>4, <3>2
      <4>2. NextCursor(page, cursor[c]) = page[Len(page)]
        BY <3>2 DEF NextCursor, Last
      <4>3. more[k + Len(page)] = page[Len(page)]
        BY <2>7, <4>1
      <4> QED BY <2>7, <4>1, <4>2, <4>3
    <3> QED BY <3>1, <3>2
  <2>10. seen'[c] = more /\ cursor'[c] = NextCursor(page, cursor[c])
    BY <2>1 DEF Inv
  <2>11. Begun(c)'
    BY <2>4, <2>6, <2>7, <2>8, <2>9, <2>10 DEF Begun
  <2>12. ASSUME NEW d \in Readers, d # c PROVE Begun(d)'
    <3>1. seen'[d] = seen[d] /\ cursor'[d] = cursor[d] /\ EventsOf(ReaderRun[d])' = EventsOf(ReaderRun[d])
      BY <2>1, <2>12 DEF Inv, EventsOf
    <3>2. Begun(d)
      BY DEF Inv
    <3> QED BY <3>1, <3>2 DEF Begun
  <2>13. DOMAIN seen' = Readers /\ DOMAIN cursor' = Readers /\ log' \in Seq(Runs)
    BY <2>1 DEF Inv
  <2> QED BY <2>11, <2>12, <2>13 DEF Inv
<1>3. CASE UNCHANGED vars
  <2>1. log' = log /\ cursor' = cursor /\ seen' = seen
    BY <1>3 DEF vars
  <2>2. ASSUME NEW c \in Readers PROVE Begun(c)'
    <3>1. EventsOf(ReaderRun[c])' = EventsOf(ReaderRun[c]) /\ Begun(c)
      BY <2>1 DEF EventsOf, Inv
    <3> QED BY <2>1, <3>1 DEF Begun
  <2> QED BY <2>1, <2>2 DEF Inv
<1> QED BY <1>1, <1>2, <1>3 DEF Next

\* The inductive invariant of the stream.
THEOREM CursorInvariant == Spec => []Inv
<1>1. Inv /\ [Next]_vars => Inv'
  BY NextInv
<1> QED BY <1>1, InitInv, PTL DEF Spec

\* Nothing is left out at a page border, nothing comes twice and nothing of another
\* run, whatever is appended between two pages and whatever the limits
\* (service.py:1292-1325, storage.py:260-296).
THEOREM NothingMissedNothingTwice == Spec => []NoGapNoDuplicate
<1>1. Inv => NoGapNoDuplicate
  <2> SUFFICES ASSUME Inv, NEW c \in Readers
               PROVE  IsPrefix(seen[c], EventsOf(ReaderRun[c]))
    BY DEF NoGapNoDuplicate
  <2> DEFINE s == seen[c]
             e == EventsOf(ReaderRun[c])
  <2>1. s \in Seq(Nat) /\ Len(s) <= Len(e) /\ \A k \in 1..Len(s) : s[k] = e[k]
    BY DEF Inv, Begun
  <2>2. e \in Seq(Nat)
    BY EventsOfFacts DEF Inv
  <2> HIDE DEF s, e
  <2>3. Len(s) \in Nat /\ Len(e) \in Nat
    BY <2>1, <2>2
  <2>4. /\ SubSeq(s, 1, Len(s)) = [k \in 1..Len(s) |-> s[k]]
        /\ SubSeq(e, 1, Len(s)) = [k \in 1..Len(s) |-> e[k]]
    BY <2>1, <2>2, <2>3
  <2>5. SubSeq(s, 1, Len(s)) = SubSeq(e, 1, Len(s))
    BY <2>1, <2>4
  <2> QED BY <2>1, <2>5 DEF IsPrefix, s, e
<1> QED BY <1>1, CursorInvariant, PTL

\* A poll with any limit, zero or below it too, gives its reader an event when there is
\* one more, and never more than the largest page.
EveryPollAdvances ==
  [][\A c \in Readers, limit \in Limits : GetRunEvents(c, limit) =>
       /\ Len(seen[c]) < Len(EventsOf(ReaderRun[c])) => Len(seen'[c]) > Len(seen[c])
       /\ Len(seen'[c]) <= Len(seen[c]) + PageSize]_vars

\* So a reader that polls on reads on to the end, page by page (service.py:1302).
THEOREM PollsAdvance == Spec => EveryPollAdvances
<1> DEFINE Advances == \A c \in Readers, limit \in Limits : GetRunEvents(c, limit) =>
             /\ Len(seen[c]) < Len(EventsOf(ReaderRun[c])) => Len(seen'[c]) > Len(seen[c])
             /\ Len(seen'[c]) <= Len(seen[c]) + PageSize
<1>1. Inv /\ [Next]_vars => [Advances]_vars
  <2> SUFFICES ASSUME Inv, NEW c \in Readers, NEW limit \in Limits, GetRunEvents(c, limit)
               PROVE  /\ Len(seen[c]) < Len(EventsOf(ReaderRun[c])) => Len(seen'[c]) > Len(seen[c])
                      /\ Len(seen'[c]) <= Len(seen[c]) + PageSize
    OBVIOUS
  <2> DEFINE r == ReaderRun[c]
             k == Len(seen[c])
             l == PageLimit(limit)
             page == Page(r, After(cursor[c]), l)
  <2>1. seen'[c] = seen[c] \o page
    BY DEF GetRunEvents, Inv
  <2>2. /\ k \in 0..Cardinality(IdsOf(r)) /\ After(cursor[c]) \in Nat
        /\ Rank(IdsOf(r), After(cursor[c])) = k
    BY CursorRank
  <2>3. l \in Nat \ {0} /\ l <= PageSize
    BY PageLimitFacts
  <2> HIDE DEF l
  <2>4. /\ page \in Seq(Nat) /\ Len(page) \in Nat /\ Len(page) <= l
        /\ k < Len(EventsOf(r)) => Len(page) > 0
    BY <2>2, <2>3, PageFacts DEF Inv
  <2>5. seen[c] \in Seq(Nat)
    BY DEF Inv, Begun
  <2> HIDE DEF page
  <2>6. Len(seen[c] \o page) = k + Len(page) /\ k \in Nat
    BY <2>4, <2>5
  <2>7. PageSize \in Nat
    BY CursorAssumption
  <2> HIDE DEF k
  <2>8. k < Len(EventsOf(r)) => k + Len(page) > k
    BY <2>4, <2>6
  <2>9. k + Len(page) <= k + PageSize
    BY <2>3, <2>4, <2>6, <2>7
  <2> QED BY <2>1, <2>6, <2>8, <2>9 DEF k
<1> QED BY <1>1, CursorInvariant, PTL DEF Spec, EveryPollAdvances
=============================================================================
