------------------------ MODULE ArtifactLookupProofs ------------------------
(***************************************************************************)
(* What the lookup of ArtifactLookup.tla does give, where the newest run   *)
(* that its docstring promises is refuted: a usable run whenever there is  *)
(* one, and an older one only when that was created on a full second and   *)
(* the newer one within it.  Proved for any finite number of runs, any     *)
(* targets and any resolution of the clock.                                *)
(*                                                                         *)
(* The argument: a run that is over has all its components, so the lookup  *)
(* accepts exactly the usable runs; their texts are ordered, if not by     *)
(* time, so among finitely many there is one that none comes after.        *)
(***************************************************************************)
EXTENDS ArtifactLookup, Integers, FiniteSetTheorems, WellFoundedInduction, TLAPS

\* A clock counts in some fraction of a second, and the table of runs is finite.
Bounds == TicksPerSec \in Nat \ {0} /\ IsFiniteSet(RunIds)

\* Times are those of the clock, and a run that succeeded has all its components.
Inv ==
  /\ now \in Nat /\ DOMAIN runs = RunIds
  /\ \A r \in RunIds : HasRow(r) =>
       /\ DOMAIN runs[r] = {"digest", "target", "created", "state", "succeeded"}
       /\ runs[r].created \in Nat
       /\ runs[r].state = "SUCCEEDED" => runs[r].succeeded = runs[r].target

\* The lookup returns a run that can be used, whenever there is one.
FindsUsable ==
  \A d \in Digests, c \in Components :
    /\ LatestSucceededComponentRun(d, c) \subseteq Usable(d, c)
    /\ Usable(d, c) # {} => LatestSucceededComponentRun(d, c) # {}

\* It returns an older run only when that was created on a full second and the newer
\* one later in the same second.
OlderOnlyOnTheSecond ==
  \A d \in Digests, c \in Components :
    \A r \in LatestSucceededComponentRun(d, c), s \in Usable(d, c) :
      runs[r].created < runs[s].created =>
        /\ Second(runs[r].created) = Second(runs[s].created)
        /\ Fraction(runs[r].created) = 0

\* What was found once is found again: an artifact is never lost to later runs.
FoundStaysFound ==
  [][\A d \in Digests, c \in Components :
       LatestSucceededComponentRun(d, c) # {} => LatestSucceededComponentRun(d, c)' # {}]_vars

-----------------------------------------------------------------------------
(* The order of the texts.                                                 *)

\* Seconds and fractions make up the time.
LEMMA TimeParts ==
  ASSUME Bounds, NEW t \in Nat
  PROVE  /\ Second(t) \in Nat /\ Fraction(t) \in Nat /\ Fraction(t) < TicksPerSec
         /\ t = TicksPerSec * Second(t) + Fraction(t)
BY DEF Bounds, Second, Fraction

\* No text comes before itself, and before is transitive.
LEMMA TextsOrdered ==
  ASSUME Bounds, NEW t \in Nat, NEW u \in Nat, NEW v \in Nat
  PROVE  /\ ~TextBefore(t, t)
         /\ TextBefore(t, u) /\ TextBefore(u, v) => TextBefore(t, v)
<1>1. /\ Second(t) \in Nat /\ Second(u) \in Nat /\ Second(v) \in Nat
      /\ Fraction(t) \in Nat /\ Fraction(u) \in Nat /\ Fraction(v) \in Nat
  BY TimeParts
<1> QED BY <1>1 DEF TextBefore

\* Texts are ordered as times are, but for a full second, which comes last in its second.
LEMMA TextsFollowTimes ==
  ASSUME Bounds, NEW t \in Nat, NEW u \in Nat, t < u, ~TextBefore(t, u)
  PROVE  Second(t) = Second(u) /\ Fraction(t) = 0
<1> DEFINE T == TicksPerSec
           a == Second(t)
           b == Second(u)
<1>1. /\ a \in Nat /\ b \in Nat /\ Fraction(t) \in Nat /\ Fraction(u) \in Nat
      /\ Fraction(t) < T /\ t = T * a + Fraction(t) /\ u = T * b + Fraction(u) /\ Fraction(u) < T
  BY TimeParts
<1>2. T \in Nat
  BY DEF Bounds
<1>3. ~(a < b)
  BY DEF TextBefore
<1>4. ~(b < a)
  <2> SUFFICES ASSUME b < a PROVE FALSE
    OBVIOUS
  <2>1. a \in Nat /\ b + 1 <= a
    BY <1>1
  <2> HIDE DEF a, b, T
  <2>2. T * (b + 1) <= T * a /\ T * (b + 1) = T * b + T /\ T * b \in Nat /\ T * a \in Nat
    BY <1>1, <1>2, <2>1
  <2> QED BY <1>1, <1>2, <2>2
<1>5. a = b
  BY <1>1, <1>3, <1>4
<1>6. Fraction(t) < Fraction(u)
  <2>1. T * a \in Nat
    BY <1>1, <1>2
  <2> QED BY <1>1, <1>5, <2>1
<1> QED BY <1>1, <1>5, <1>6 DEF TextBefore

\* Among finitely many runs there is one whose text none comes after.
LEMMA SomeIsLast ==
  ASSUME Bounds, NEW M \in SUBSET RunIds, M # {}, \A r \in M : runs[r].created \in Nat
  PROVE  \E r \in M : \A s \in M : ~TextBefore(runs[r].created, runs[s].created)
<1> DEFINE After(r) == {s \in M : TextBefore(runs[r].created, runs[s].created)}
           S == FiniteSubsetsOf(M)
           R == StrictSubsetOrdering(M)
           U == {After(r) : r \in M}
<1>1. IsFiniteSet(M)
  BY FS_Subset DEF Bounds
<1>2. U \subseteq S
  <2> SUFFICES ASSUME NEW r \in M PROVE After(r) \in S
    OBVIOUS
  <2>1. After(r) \in SUBSET M
    OBVIOUS
  <2>2. IsFiniteSet(After(r))
    BY <1>1, <2>1, FS_Subset
  <2> QED BY <2>1, <2>2 DEF FiniteSubsetsOf
<1>3. IsWellFoundedOn(R, S)
  BY FS_StrictSubsetOrderingWellFounded
<1>4. \E x \in U : \A y \in U : ~(<<y, x>> \in R)
  <2>1. U # {}
    OBVIOUS
  <2> HIDE DEF R, S, U
  <2> QED BY <1>2, <1>3, <2>1, WFMin
<1>5. PICK r \in M : \A s \in M : ~(<<After(s), After(r)>> \in R)
  BY <1>4
<1>6. SUFFICES ASSUME NEW s \in M, TextBefore(runs[r].created, runs[s].created) PROVE FALSE
  OBVIOUS
<1>7. s \in After(r) /\ s \notin After(s)
  BY <1>6, TextsOrdered
<1>8. After(s) \subseteq After(r)
  BY <1>6, TextsOrdered
<1>9. After(s) \in SUBSET M /\ After(r) \in SUBSET M /\ After(s) # After(r)
  BY <1>7
<1> HIDE DEF After
<1>10. <<After(s), After(r)>> \in R
  BY <1>8, <1>9 DEF StrictSubsetOrdering
<1> QED BY <1>5, <1>10

-----------------------------------------------------------------------------
(* The invariant.                                                          *)

LEMMA InitInv == Init => Inv
BY DEF Init, Inv, HasRow

\* A step keeps the invariant, and what succeeded stays as it is.
LEMMA NextInv ==
  ASSUME Inv, [Next]_vars
  PROVE  /\ Inv'
         /\ \A r \in RunIds : HasRow(r) /\ runs[r].state = "SUCCEEDED" => runs'[r] = runs[r]
<1> DEFINE Stays == \A r \in RunIds : HasRow(r) /\ runs[r].state = "SUCCEEDED" => runs'[r] = runs[r]
<1>1. ASSUME NEW r \in RunIds, NEW d \in Digests, NEW target \in Targets, Create(r, d, target)
      PROVE  Inv' /\ Stays
  <2> DEFINE row == [digest |-> d, target |-> target, created |-> now,
                     state |-> "RUNNING", succeeded |-> {}]
  <2>1. ~HasRow(r) /\ runs' = [runs EXCEPT ![r] = row] /\ now' = now
    BY <1>1 DEF Create
  <2>2. /\ DOMAIN row = {"digest", "target", "created", "state", "succeeded"}
        /\ row.created = now /\ row.state = "RUNNING"
    OBVIOUS
  <2> HIDE DEF row
  <2>3. DOMAIN runs' = RunIds /\ \A s \in RunIds : runs'[s] = IF s = r THEN row ELSE runs[s]
    BY <2>1 DEF Inv
  <2> QED BY <2>1, <2>2, <2>3 DEF Inv, HasRow
<1>2. ASSUME NEW r \in RunIds, NEW row, Open(r), runs' = [runs EXCEPT ![r] = row], now' = now,
             DOMAIN row = DOMAIN runs[r], row.created = runs[r].created,
             row.state = "SUCCEEDED" => row.succeeded = row.target
      PROVE  Inv' /\ Stays
  <2>1. DOMAIN runs' = RunIds /\ \A s \in RunIds : runs'[s] = IF s = r THEN row ELSE runs[s]
    BY <1>2 DEF Inv
  <2>2. HasRow(r) /\ runs[r].state # "SUCCEEDED"
    BY <1>2 DEF Open
  <2> QED BY <1>2, <2>1, <2>2 DEF Inv, HasRow
<1>3. ASSUME NEW r \in RunIds, ComponentSucceeds(r) PROVE Inv' /\ Stays
  <2> DEFINE row == [runs[r] EXCEPT !.succeeded = Prefix(Cardinality(@) + 1)]
  <2>1. Open(r) /\ runs' = [runs EXCEPT ![r] = row] /\ now' = now
    BY <1>3 DEF ComponentSucceeds
  <2>2. DOMAIN runs[r] = {"digest", "target", "created", "state", "succeeded"} /\ runs[r].state = "RUNNING"
    BY <2>1 DEF Inv, Open
  <2>3. DOMAIN row = DOMAIN runs[r] /\ row.created = runs[r].created /\ row.state = "RUNNING"
    BY <2>2
  <2> HIDE DEF row
  <2> QED BY <1>2, <2>1, <2>3
<1>4. ASSUME NEW r \in RunIds, RunSucceeds(r) PROVE Inv' /\ Stays
  <2> DEFINE row == [runs[r] EXCEPT !.state = "SUCCEEDED", !.succeeded = runs[r].target]
  <2>1. Open(r) /\ runs' = [runs EXCEPT ![r] = row] /\ now' = now
    BY <1>4 DEF RunSucceeds
  <2>2. DOMAIN runs[r] = {"digest", "target", "created", "state", "succeeded"}
    BY <2>1 DEF Inv, Open
  <2>3. /\ DOMAIN row = DOMAIN runs[r] /\ row.created = runs[r].created
        /\ row.succeeded = row.target
    BY <2>2
  <2> HIDE DEF row
  <2> QED BY <1>2, <2>1, <2>3
<1>5. ASSUME NEW r \in RunIds, RunFails(r) PROVE Inv' /\ Stays
  <2> DEFINE row == [runs[r] EXCEPT !.state = "FAILED"]
  <2>1. Open(r) /\ runs' = [runs EXCEPT ![r] = row] /\ now' = now
    BY <1>5 DEF RunFails
  <2>2. DOMAIN runs[r] = {"digest", "target", "created", "state", "succeeded"}
    BY <2>1 DEF Inv, Open
  <2>3. DOMAIN row = DOMAIN runs[r] /\ row.created = runs[r].created /\ row.state = "FAILED"
    BY <2>2
  <2> HIDE DEF row
  <2> QED BY <1>2, <2>1, <2>3
<1>6. CASE Tick
  BY <1>6 DEF Tick, Inv, HasRow
<1>7. CASE UNCHANGED vars
  BY <1>7 DEF vars, Inv, HasRow
<1> QED BY <1>1, <1>3, <1>4, <1>5, <1>6, <1>7 DEF Next

\* The lookup accepts the usable runs, and finds one of them.
LEMMA UsableAreMatches ==
  ASSUME Bounds, Inv, NEW d, NEW c
  PROVE  /\ Matches(d, c) = Usable(d, c)
         /\ LatestSucceededComponentRun(d, c) \subseteq Usable(d, c)
         /\ Usable(d, c) # {} => LatestSucceededComponentRun(d, c) # {}
<1>1. Matches(d, c) = Usable(d, c)
  BY DEF Inv, Matches, Usable
<1>2. Matches(d, c) \in SUBSET RunIds /\ \A r \in Matches(d, c) : runs[r].created \in Nat
  BY DEF Inv, Matches
<1>3. Matches(d, c) # {} =>
        \E r \in Matches(d, c) : \A s \in Matches(d, c) : ~TextBefore(runs[r].created, runs[s].created)
  BY <1>2, SomeIsLast
<1> QED BY <1>1, <1>3 DEF LatestSucceededComponentRun

\* The inductive invariant of the table of runs.
THEOREM TableInvariant == Spec => []Inv
<1>1. Inv /\ [Next]_vars => Inv'
  BY NextInv
<1> QED BY <1>1, InitInv, PTL DEF Spec

\* A usable artifact is found whenever there is one, and nothing else is
\* (storage.py:192-222).
THEOREM LookupFindsUsable ==
  ASSUME Bounds
  PROVE  Spec => []FindsUsable
<1>1. Inv => FindsUsable
  BY UsableAreMatches DEF FindsUsable
<1> QED BY <1>1, TableInvariant, PTL

\* The run returned is the newest, but for one created on a full second
\* (service.py:53-54, storage.py:195-207).
THEOREM LookupNewestButOnTheSecond ==
  ASSUME Bounds
  PROVE  Spec => []OlderOnlyOnTheSecond
<1>1. Inv => OlderOnlyOnTheSecond
  <2> SUFFICES ASSUME Inv, NEW d \in Digests, NEW c \in Components,
                      NEW r \in LatestSucceededComponentRun(d, c), NEW s \in Usable(d, c),
                      runs[r].created < runs[s].created
               PROVE  /\ Second(runs[r].created) = Second(runs[s].created)
                      /\ Fraction(runs[r].created) = 0
    BY DEF OlderOnlyOnTheSecond
  <2>1. r \in Usable(d, c) /\ s \in Matches(d, c)
    BY UsableAreMatches
  <2>2. runs[r].created \in Nat /\ runs[s].created \in Nat
    BY <2>1 DEF Inv, Usable
  <2>3. ~TextBefore(runs[r].created, runs[s].created)
    BY <2>1 DEF LatestSucceededComponentRun
  <2> QED BY <2>2, <2>3, TextsFollowTimes
<1> QED BY <1>1, TableInvariant, PTL

\* No later run takes an artifact away (storage.py:192-222).
THEOREM LookupStaysFound ==
  ASSUME Bounds
  PROVE  Spec => FoundStaysFound
<1> DEFINE Stays == \A d \in Digests, c \in Components :
             LatestSucceededComponentRun(d, c) # {} => LatestSucceededComponentRun(d, c)' # {}
<1>1. Inv /\ FindsUsable' /\ [Next]_vars => [Stays]_vars
  <2> SUFFICES ASSUME Inv, FindsUsable', [Next]_vars, NEW d \in Digests, NEW c \in Components,
                      LatestSucceededComponentRun(d, c) # {}
               PROVE  LatestSucceededComponentRun(d, c)' # {}
    OBVIOUS
  <2>1. PICK r \in RunIds : r \in Usable(d, c)
    BY UsableAreMatches DEF Usable
  <2>2. runs'[r] = runs[r]
    BY <2>1, NextInv DEF Usable
  <2>3. r \in Usable(d, c)'
    BY <2>1, <2>2 DEF Usable, HasRow
  <2> QED BY <2>3 DEF FindsUsable
<1> QED BY <1>1, TableInvariant, LookupFindsUsable, PTL DEF Spec, FoundStaysFound
=============================================================================
