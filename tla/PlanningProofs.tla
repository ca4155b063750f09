--------------------------- MODULE PlanningProofs ---------------------------
(***************************************************************************)
(* What holds of plans and preflights, proved for any number of both, any  *)
(* lists of components, any nodes and any length of the probes.            *)
(*                                                                         *)
(* The argument for their age: a row never changes, a preflight is of a    *)
(* plan that has its row since before the preflight began, and takes       *)
(* digest and expiry from it; so the clock alone decides, and it does not  *)
(* go back.  For their contents: a plan is what build_plan makes of its    *)
(* list, which the lemmas on lists of components describe once, and the    *)
(* answers of a preflight are to a prefix of its plan's list of checks,    *)
(* in which every check is once; so the answer to a check is the one       *)
(* status at its place.                                                    *)
(***************************************************************************)
EXTENDS Planning, TLAPS

\* A plan that a preflight names has its row, and a row of preflights says what it says.
Inv ==
  /\ now \in Nat
  /\ DOMAIN plans = PlanIds /\ DOMAIN preflights = PreflightIds /\ DOMAIN probing = PreflightIds
  /\ \A p \in PlanIds : plans[p] # None => plans[p].expires \in Nat
  /\ \A f \in PreflightIds :
       /\ probing[f] # None => probing[f].plan \in PlanIds /\ plans[probing[f].plan] # None
       /\ preflights[f] # None =>
            /\ preflights[f].plan \in PlanIds /\ plans[preflights[f].plan] # None
            /\ preflights[f].expires = plans[preflights[f].plan].expires
            /\ preflights[f].digest = plans[preflights[f].plan].digest
       /\ ~(preflights[f] # None /\ probing[f] # None)

\* Rows stay as they are, and the clock goes on.
RowsStay ==
  /\ now' \in Nat /\ now <= now'
  /\ \A p \in PlanIds : plans[p] # None => plans'[p] = plans[p]
  /\ \A f \in PreflightIds : preflights[f] # None => preflights'[f] = preflights[f]

LEMMA InitInv == Init => Inv
BY DEF Init, Inv

\* No action changes a row.
LEMMA NextRows ==
  ASSUME Inv, [Next]_vars
  PROVE  RowsStay
<1> USE DEF Inv, RowsStay
<1>1. ASSUME NEW d \in Digests, ValidateConfig(d) PROVE RowsStay
  BY <1>1 DEF ValidateConfig
<1>2. ASSUME NEW p \in PlanIds, NEW d \in Digests, NEW q \in Requested, BuildPlan(p, d, q)
      PROVE  RowsStay
  BY <1>2 DEF BuildPlan
<1>3. ASSUME NEW f \in PreflightIds, NEW p \in PlanIds, PreflightBegins(f, p) PROVE RowsStay
  BY <1>3 DEF PreflightBegins
<1>4. ASSUME NEW f \in PreflightIds, Probe(f) PROVE RowsStay
  BY <1>4 DEF Probe
<1>5. ASSUME NEW f \in PreflightIds, PreflightEnds(f) PROVE RowsStay
  BY <1>5 DEF PreflightEnds
<1>6. ASSUME NEW f \in PreflightIds, PreflightStops(f) PROVE RowsStay
  BY <1>6 DEF PreflightStops
<1>7. ASSUME NEW c \in Checks, Flap(c) PROVE RowsStay
  BY <1>7 DEF Flap
<1>8. CASE Tick
  BY <1>8 DEF Tick
<1>9. CASE UNCHANGED vars
  BY <1>9 DEF vars
<1> QED BY <1>1, <1>2, <1>3, <1>4, <1>5, <1>6, <1>7, <1>8, <1>9 DEF Next

LEMMA NextInv ==
  ASSUME Inv, [Next]_vars
  PROVE  Inv'
<1> USE DEF Inv
<1>1. ASSUME NEW d \in Digests, ValidateConfig(d) PROVE Inv'
  BY <1>1 DEF ValidateConfig
<1>2. ASSUME NEW p \in PlanIds, NEW d \in Digests, NEW q \in Requested, BuildPlan(p, d, q)
      PROVE  Inv'
  <2> DEFINE scope == NormalizeComponents(q)
             row == [digest |-> d, scope |-> scope, expires |-> now + TTL,
                     mode |-> ExecutionMode(scope), executable |-> Executable(scope),
                     asked |-> q]
  <2>1. /\ plans[p] = None /\ plans' = [plans EXCEPT ![p] = row]
        /\ UNCHANGED <<now, preflights, probing>>
    BY <1>2 DEF BuildPlan
  <2>2. row.expires \in Nat
    BY PlanningAssumption
  <2> HIDE DEF row
  <2>3. \A r \in PlanIds : r # p => plans'[r] = plans[r]
    BY <2>1
  <2>4. plans'[p] = row /\ DOMAIN plans' = PlanIds
    BY <2>1
  <2> QED BY <2>1, <2>2, <2>3, <2>4
<1>3. ASSUME NEW f \in PreflightIds, NEW p \in PlanIds, PreflightBegins(f, p) PROVE Inv'
  BY <1>3 DEF PreflightBegins
<1>4. ASSUME NEW f \in PreflightIds, Probe(f) PROVE Inv'
  BY <1>4 DEF Probe
<1>5. ASSUME NEW f \in PreflightIds, PreflightEnds(f) PROVE Inv'
  BY <1>5 DEF PreflightEnds
<1>6. ASSUME NEW f \in PreflightIds, PreflightStops(f) PROVE Inv'
  BY <1>6 DEF PreflightStops
<1>7. ASSUME NEW c \in Checks, Flap(c) PROVE Inv'
  BY <1>7 DEF Flap
<1>8. CASE Tick
  BY <1>8 DEF Tick
<1>9. CASE UNCHANGED vars
  BY <1>9 DEF vars
<1> QED BY <1>1, <1>2, <1>3, <1>4, <1>5, <1>6, <1>7, <1>8, <1>9 DEF Next

\* The inductive invariant of the tables.
THEOREM TablesInvariant == Spec => []Inv
<1>1. Inv /\ [Next]_vars => Inv'
  BY NextInv
<1> QED BY <1>1, InitInv, PTL DEF Spec

\* A preflight that still counts stands for a plan that still counts and for its
\* configuration (service.py:304-382).
THEOREM CurrentForCurrent == Spec => []CurrentPreflightHasCurrentPlan
<1>1. Inv => CurrentPreflightHasCurrentPlan
  <2> SUFFICES ASSUME Inv, NEW f \in PreflightIds, preflights[f] # None, PreflightState(f) = "PASSED"
               PROVE  /\ PlanState(preflights[f].plan) = "PLANNED"
                      /\ preflights[f].digest = plans[preflights[f].plan].digest
    BY DEF CurrentPreflightHasCurrentPlan
  <2>1. ~(preflights[f].expires <= now)
    BY DEF PreflightState
  <2> QED BY <2>1 DEF Inv, PlanState
<1> QED BY <1>1, TablesInvariant, PTL

\* What a step does to the states that are replied.
Aged ==
  /\ \A p \in PlanIds : plans[p] # None /\ PlanState(p) = "EXPIRED" => PlanState(p)' = "EXPIRED"
  /\ \A f \in PreflightIds : preflights[f] # None =>
       PreflightState(f)' \in {PreflightState(f), "EXPIRED"}

\* Only the expiry takes a verdict back, and for good (service.py:291-302, 368-382).
THEOREM ExpiryStays == Spec => ExpiryIsFinal
<1>1. Inv /\ [Next]_vars => [Aged]_vars
  <2> SUFFICES ASSUME Inv, [Next]_vars PROVE Aged
    OBVIOUS
  <2>1. RowsStay
    BY NextRows
  <2>2. \A p \in PlanIds : plans[p] # None /\ PlanState(p) = "EXPIRED" => PlanState(p)' = "EXPIRED"
    BY <2>1 DEF Inv, RowsStay, PlanState
  <2>3. \A f \in PreflightIds : preflights[f] # None =>
          PreflightState(f)' \in {PreflightState(f), "EXPIRED"}
    BY <2>1 DEF Inv, RowsStay, PreflightState
  <2> QED BY <2>2, <2>3 DEF Aged
<1> QED BY <1>1, TablesInvariant, PTL DEF Spec, ExpiryIsFinal, Aged

-----------------------------------------------------------------------------
(* Lists of components.                                                    *)

LEMMA Positions ==
  /\ Position("vm") = 1 /\ Position("node-init") = 2 /\ Position("local-rke2") = 3
  /\ Position("rancher") = 4 /\ Position("downstream") = 5
<1>1. /\ ComponentOrder[1] = "vm" /\ ComponentOrder[2] = "node-init"
      /\ ComponentOrder[3] = "local-rke2" /\ ComponentOrder[4] = "rancher"
      /\ ComponentOrder[5] = "downstream"
  BY DEF ComponentOrder
<1>2. \A i \in 1..5 : i = 1 \/ i = 2 \/ i = 3 \/ i = 4 \/ i = 5
  OBVIOUS
<1> QED BY <1>1, <1>2 DEF Position

LEMMA OrderPositions == \A i \in 1..5 : Position(ComponentOrder[i]) = i
BY Positions DEF ComponentOrder

LEMMA ComponentsAre ==
  /\ Components = {"vm", "node-init", "local-rke2", "rancher", "downstream"}
  /\ \A c \in Components : Position(c) \in 1..5 /\ ComponentOrder[Position(c)] = c
<1>1. \A i \in 1..5 : i = 1 \/ i = 2 \/ i = 3 \/ i = 4 \/ i = 5
  OBVIOUS
<1>2. Components = {"vm", "node-init", "local-rke2", "rancher", "downstream"}
  BY <1>1 DEF Components, ComponentOrder
<1> QED BY <1>2, Positions DEF ComponentOrder

\* Appending a component that comes after all of a list keeps the list in order.
LEMMA ExtendOrdered ==
  ASSUME NEW s \in Seq(Components), Ordered(s), NEW c \in Components, NEW b \in BOOLEAN,
         NEW lo \in 0..4, lo < Position(c), \A i \in DOMAIN s : Position(s[i]) <= lo
  PROVE  LET t == s \o When(b, c) IN
         /\ t \in Seq(Components) /\ Ordered(t)
         /\ \A i \in DOMAIN t : Position(t[i]) <= Position(c)
         /\ ToSet(t) = ToSet(s) \cup (IF b THEN {c} ELSE {})
<1>1. CASE b
  <2> DEFINE t == s \o <<c>>
  <2>1. /\ t \in Seq(Components) /\ Len(t) = Len(s) + 1 /\ t[Len(s) + 1] = c
        /\ \A i \in DOMAIN s : t[i] = s[i]
        /\ DOMAIN t = 1..(Len(s)+1) /\ DOMAIN s = 1..Len(s) /\ Len(s) \in Nat
    OBVIOUS
  <2> HIDE DEF t
  <2>2. \A i \in DOMAIN t : i \in DOMAIN s \/ i = Len(s) + 1
    BY <2>1
  <2>3. ToSet(t) = ToSet(s) \cup {c}
    BY <2>1, <2>2 DEF ToSet
  <2>4. \A i \in DOMAIN s : Position(s[i]) \in 1..5
    BY ComponentsAre
  <2>4a. Position(c) \in 1..5
    BY ComponentsAre
  <2>5. \A i \in DOMAIN t : Position(t[i]) <= Position(c)
    BY <2>1, <2>2, <2>4, <2>4a
  <2>6. Ordered(t)
    <3> SUFFICES ASSUME NEW i \in DOMAIN t, NEW j \in DOMAIN t, i < j PROVE Position(t[i]) < Position(t[j])
      BY DEF Ordered
    <3>1. i \in DOMAIN s
      BY <2>1, <2>2
    <3>2. CASE j \in DOMAIN s
      BY <2>1, <3>1, <3>2 DEF Ordered
    <3>3. CASE j = Len(s) + 1
      BY <2>1, <2>4, <2>4a, <3>1, <3>3
    <3> QED BY <2>2, <3>2, <3>3
  <2> QED BY <1>1, <2>1, <2>3, <2>5, <2>6 DEF When, t
<1>2. CASE ~b
  <2>1. When(b, c) = <<>>
    BY <1>2 DEF When
  <2>2. s \o <<>> = s
    OBVIOUS
  <2>3. \A i \in DOMAIN s : Position(s[i]) \in 1..5
    BY ComponentsAre
  <2>4. Position(c) \in 1..5
    BY ComponentsAre
  <2> QED BY <1>2, <2>1, <2>2, <2>3, <2>4
<1> QED BY <1>1, <1>2

\* The list holds those of the first n components that are in T, in order.
Upto(s, T, n) ==
  /\ s \in Seq(Components) /\ Ordered(s)
  /\ ToSet(s) = {c \in T : Position(c) <= n}

LEMMA ExtendUpto ==
  ASSUME NEW T \in SUBSET Components, NEW s, NEW n \in 0..4, NEW c \in Components,
         Position(c) = n + 1, Upto(s, T, n)
  PROVE  Upto(s \o When(c \in T, c), T, n + 1)
<1>1. s \in Seq(Components) /\ Ordered(s) /\ ToSet(s) = {d \in T : Position(d) <= n}
  BY DEF Upto
<1>2. \A i \in DOMAIN s : Position(s[i]) <= n
  BY <1>1 DEF ToSet
<1> DEFINE t == s \o When(c \in T, c)
<1>3. /\ t \in Seq(Components) /\ Ordered(t)
      /\ ToSet(t) = ToSet(s) \cup (IF c \in T THEN {c} ELSE {})
  <2> DEFINE b == c \in T
  <2>1. b \in BOOLEAN /\ n < Position(c)
    OBVIOUS
  <2> HIDE DEF b
  <2>2. LET u == s \o When(b, c) IN
        /\ u \in Seq(Components) /\ Ordered(u)
        /\ ToSet(u) = ToSet(s) \cup (IF b THEN {c} ELSE {})
    BY <1>1, <1>2, <2>1, ExtendOrdered
  <2> QED BY <2>2 DEF b
<1>4. \A d \in T : Position(d) <= n + 1 <=> Position(d) <= n \/ d = c
  BY ComponentsAre
<1> HIDE DEF t
<1>5. ToSet(t) = {d \in T : Position(d) <= n + 1}
  BY <1>1, <1>3, <1>4
<1> QED BY <1>3, <1>5 DEF Upto, t

\* What the list comprehension of _normalize_components gives.
LEMMA SelectedFacts ==
  ASSUME NEW T \in SUBSET Components
  PROVE  /\ Selected(T) \in Seq(Components) /\ Ordered(Selected(T)) /\ ToSet(Selected(T)) = T
<1> DEFINE s0 == << >>
           s1 == s0 \o When("vm" \in T, "vm")
           s2 == s1 \o When("node-init" \in T, "node-init")
           s3 == s2 \o When("local-rke2" \in T, "local-rke2")
           s4 == s3 \o When("rancher" \in T, "rancher")
           s5 == s4 \o When("downstream" \in T, "downstream")
<1>0. /\ "vm" \in Components /\ "node-init" \in Components /\ "local-rke2" \in Components
      /\ "rancher" \in Components /\ "downstream" \in Components
  BY ComponentsAre
<1>range. \A c \in T : Position(c) \in Int /\ 1 <= Position(c) /\ Position(c) <= 5
  BY ComponentsAre
<1>1. Upto(s0, T, 0)
  <2>1. s0 \in Seq(Components) /\ Ordered(s0) /\ ToSet(s0) = {}
    BY DEF Ordered, ToSet
  <2>2. {c \in T : Position(c) <= 0} = {}
    BY <1>range
  <2> QED BY <2>1, <2>2 DEF Upto
<1> HIDE DEF s0
<1>2. Upto(s1, T, 1)
  BY <1>0, <1>1, 0 + 1 = 1, Positions, ExtendUpto
<1> HIDE DEF s1
<1>3. Upto(s2, T, 2)
  BY <1>0, <1>2, 1 + 1 = 2, Positions, ExtendUpto
<1> HIDE DEF s2
<1>4. Upto(s3, T, 3)
  BY <1>0, <1>3, 2 + 1 = 3, Positions, ExtendUpto
<1> HIDE DEF s3
<1>5. Upto(s4, T, 4)
  BY <1>0, <1>4, 3 + 1 = 4, Positions, ExtendUpto
<1> HIDE DEF s4
<1>6. Upto(s5, T, 5)
  BY <1>0, <1>5, 4 + 1 = 5, Positions, ExtendUpto
<1>7. s5 = Selected(T)
  BY DEF s0, s1, s2, s3, s4, Selected, When
<1> HIDE DEF s5
<1>8. {c \in T : Position(c) <= 5} = T
  BY <1>range
<1> QED BY <1>6, <1>7, <1>8 DEF Upto

\* COMPONENT_ORDER as a list of its own.
LEMMA OrderFacts ==
  /\ ComponentOrder \in Seq(Components) /\ Len(ComponentOrder) = 5
  /\ Ordered(ComponentOrder) /\ ToSet(ComponentOrder) = Components
<1>1. ComponentOrder \in Seq(Components) /\ Len(ComponentOrder) = 5 /\ DOMAIN ComponentOrder = 1..5
  BY ComponentsAre DEF ComponentOrder
<1>2. Ordered(ComponentOrder)
  BY <1>1, OrderPositions DEF Ordered
<1>3. ToSet(ComponentOrder) = Components
  BY <1>1 DEF ToSet, Components
<1> QED BY <1>1, <1>2, <1>3

\* What _normalize_components promises of a list it does not refuse.
LEMMA NormalizedFacts ==
  ASSUME NEW q \in Seq(Components \cup {"all", "other"}), NormalizeComponents(q) # << >>
  PROVE  LET s == NormalizeComponents(q) IN
         /\ s \in Seq(Components) /\ Ordered(s)
         /\ ToSet(s) = IF q = <<"all">> THEN Components ELSE ToSet(q)
<1>1. CASE Contains(q, "all")
  <2>1. Len(q) = 1 /\ NormalizeComponents(q) = ComponentOrder
    BY <1>1 DEF NormalizeComponents
  <2>2. q = <<"all">>
    BY <1>1, <2>1 DEF Contains
  <2> QED BY <2>1, <2>2, OrderFacts
<1>2. CASE ~Contains(q, "all")
  <2>1. ToSet(q) \subseteq Components /\ NormalizeComponents(q) = Selected(ToSet(q))
    BY <1>2 DEF NormalizeComponents
  <2>2. q # <<"all">>
    BY <1>2 DEF Contains
  <2> QED BY <2>1, <2>2, SelectedFacts
<1> QED BY <1>1, <1>2

\* The scopes of a workflow are those whose components are the first so many.
LEMMA ChainIsWorkflow ==
  ASSUME NEW s \in Seq(Components)
  PROVE  /\ s \in Workflows <=> Len(s) > 1 /\ \A i \in DOMAIN s : Position(s[i]) = i
         /\ s \in {<<c>> : c \in Components} <=> Len(s) = 1
<1>1. ASSUME s \in Workflows PROVE Len(s) > 1 /\ \A i \in DOMAIN s : Position(s[i]) = i
  <2>1. PICK n \in 2..5 : s = SubSeq(ComponentOrder, 1, n)
    BY <1>1 DEF Workflows
  <2>2. Len(s) = n /\ \A i \in 1..n : s[i] = ComponentOrder[i]
    BY <2>1, OrderFacts
  <2> QED BY <2>2, OrderPositions
<1>2. ASSUME Len(s) > 1, \A i \in DOMAIN s : Position(s[i]) = i PROVE s \in Workflows
  <2>1. Len(s) \in DOMAIN s /\ Len(s) \in Nat /\ DOMAIN s = 1..Len(s)
    BY <1>2
  <2>2. \A i \in DOMAIN s : s[i] \in Components
    OBVIOUS
  <2>3. Len(s) <= 5 /\ \A i \in DOMAIN s : s[i] = ComponentOrder[i]
    BY <1>2, <2>1, <2>2, ComponentsAre
  <2>4. s = SubSeq(ComponentOrder, 1, Len(s))
    BY <1>2, <2>1, <2>3, OrderFacts
  <2> QED BY <1>2, <2>1, <2>3, <2>4 DEF Workflows
<1>3. s \in {<<c>> : c \in Components} <=> Len(s) = 1
  <2>1. ASSUME Len(s) = 1 PROVE s = <<s[1]>> /\ s[1] \in Components
    BY <2>1
  <2> QED BY <2>1
<1> QED BY <1>1, <1>2, <1>3

-----------------------------------------------------------------------------
(* Lists of checks.                                                        *)

\* The list t holds each of the checks T once.
Distinct(t, T) ==
  t \in Seq(Checks) /\ IsInjective(t) /\ ToSet(t) = T

LEMMA ConcatDistinct ==
  ASSUME NEW s, NEW t, NEW S, NEW T, Distinct(s, S), Distinct(t, T), S \cap T = {}
  PROVE  Distinct(s \o t, S \cup T)
<1> DEFINE u == s \o t
<1>1. /\ s \in Seq(Checks) /\ DOMAIN s = 1..Len(s) /\ Len(s) \in Nat
      /\ t \in Seq(Checks) /\ DOMAIN t = 1..Len(t) /\ Len(t) \in Nat
  BY DEF Distinct
<1>2. /\ u \in Seq(Checks) /\ DOMAIN u = 1..(Len(s) + Len(t))
      /\ \A i \in DOMAIN s : u[i] = s[i]
      /\ \A i \in DOMAIN t : u[Len(s) + i] = t[i]
  BY <1>1
<1> HIDE DEF u
<1>3. \A i \in DOMAIN u : i \in DOMAIN s \/ \E k \in DOMAIN t : i = Len(s) + k
  <2> SUFFICES ASSUME NEW i \in DOMAIN u, i \notin DOMAIN s PROVE \E k \in DOMAIN t : i = Len(s) + k
    OBVIOUS
  <2>1. i - Len(s) \in DOMAIN t /\ i = Len(s) + (i - Len(s))
    BY <1>1, <1>2
  <2> QED BY <2>1
<1>4. \A k \in DOMAIN t : Len(s) + k \in DOMAIN u
  BY <1>1, <1>2
<1>5. DOMAIN s \subseteq DOMAIN u
  BY <1>1, <1>2
<1>6. ToSet(u) = S \cup T
  <2>1. ToSet(s) = S /\ ToSet(t) = T
    BY DEF Distinct
  <2> QED BY <1>2, <1>3, <1>4, <1>5, <2>1 DEF ToSet
<1>7. IsInjective(u)
  <2> SUFFICES ASSUME NEW i \in DOMAIN u, NEW j \in DOMAIN u, u[i] = u[j] PROVE i = j
    BY DEF IsInjective
  <2>1. \A a \in DOMAIN s : u[a] \in S
    BY <1>2 DEF Distinct, ToSet
  <2>2. \A k \in DOMAIN t : u[Len(s) + k] \in T
    BY <1>2 DEF Distinct, ToSet
  <2>3. CASE i \in DOMAIN s /\ j \in DOMAIN s
    BY <1>2, <2>3 DEF Distinct, IsInjective
  <2>4. CASE i \in DOMAIN s /\ j \notin DOMAIN s
    BY <1>3, <2>1, <2>2, <2>4
  <2>5. CASE i \notin DOMAIN s /\ j \in DOMAIN s
    BY <1>3, <2>1, <2>2, <2>5
  <2>6. CASE i \notin DOMAIN s /\ j \notin DOMAIN s
    <3>1. PICK k \in DOMAIN t : i = Len(s) + k
      BY <1>3, <2>6
    <3>2. PICK l \in DOMAIN t : j = Len(s) + l
      BY <1>3, <2>6
    <3>3. t[k] = t[l]
      BY <1>2, <3>1, <3>2
    <3>4. k = l
      BY <3>3 DEF Distinct, IsInjective
    <3> QED BY <3>1, <3>2, <3>4
  <2> QED BY <2>3, <2>4, <2>5, <2>6
<1> QED BY <1>2, <1>6, <1>7 DEF Distinct, u

LEMMA WhenDistinct ==
  ASSUME NEW c \in Checks, NEW b \in BOOLEAN
  PROVE  Distinct(When(b, c), IF b THEN {c} ELSE {})
<1>1. CASE b
  <2>1. <<c>> \in Seq(Checks) /\ IsInjective(<<c>>)
    BY DEF IsInjective
  <2>2. ToSet(<<c>>) = {c}
    BY DEF ToSet
  <2> QED BY <1>1, <2>1, <2>2 DEF Distinct, When
<1>2. CASE ~b
  <2>1. << >> \in Seq(Checks) /\ IsInjective(<< >>) /\ ToSet(<< >>) = {}
    BY DEF IsInjective, ToSet
  <2> QED BY <1>2, <2>1 DEF Distinct, When
<1> QED BY <1>1, <1>2

\* A list names each check that it has once: all but known_hosts and rancher_lb,
\* and these for vm and downstream.
LEMMA ListedFacts ==
  ASSUME NEW plan
  PROVE  Distinct(Listed(plan),
           (Checks \ {"known_hosts", "rancher_lb"})
             \cup (IF Contains(plan.scope, "vm") THEN {"known_hosts"} ELSE {})
             \cup (IF Contains(plan.scope, "downstream") THEN {"rancher_lb"} ELSE {}))
<1> DEFINE vm == Contains(plan.scope, "vm")
           down == Contains(plan.scope, "downstream")
           V == IF vm THEN {"known_hosts"} ELSE {}
           D == IF down THEN {"rancher_lb"} ELSE {}
           N == ToSet(Nodes)
           a1 == <<"secrets">>
           a2 == a1 \o When(vm, "known_hosts")
           a3 == a2 \o <<"control_host">>
           a4 == a3 \o Nodes
           a5 == a4 \o <<"vsphere", "registry">>
           a6 == a5 \o When(down, "rancher_lb")
           a7 == a6 \o <<"proxy">>
<1>1. vm \in BOOLEAN /\ down \in BOOLEAN
  BY DEF Contains
<1>2. Listed(plan) = a7
  BY DEF Listed
<1> HIDE DEF vm, down
<1>3. \A c \in FixedChecks : c \in Checks /\ c \notin N
  BY PlanningAssumption DEF Checks
<1>4. Distinct(a1, {"secrets"}) /\ Distinct(<<"control_host">>, {"control_host"})
        /\ Distinct(<<"proxy">>, {"proxy"})
  BY <1>3, WhenDistinct DEF When, FixedChecks
<1>5. Distinct(<<"vsphere", "registry">>, {"vsphere", "registry"})
  <2>1. <<"vsphere", "registry">> \in Seq(Checks) /\ IsInjective(<<"vsphere", "registry">>)
    BY <1>3 DEF IsInjective, FixedChecks
  <2>2. ToSet(<<"vsphere", "registry">>) = {"vsphere", "registry"}
    BY DEF ToSet
  <2> QED BY <2>1, <2>2 DEF Distinct
<1>6. Distinct(When(vm, "known_hosts"), V) /\ Distinct(When(down, "rancher_lb"), D)
  BY <1>1, <1>3, WhenDistinct DEF FixedChecks
<1>7. Distinct(Nodes, N)
  BY PlanningAssumption DEF Distinct, Checks
<1> HIDE DEF N
<1>8. Distinct(a2, {"secrets"} \cup V)
  BY <1>4, <1>6, ConcatDistinct
<1> HIDE DEF a1, a2
<1>9. Distinct(a3, {"secrets"} \cup V \cup {"control_host"})
  BY <1>4, <1>8, ConcatDistinct
<1> HIDE DEF a3
<1>10. Distinct(a4, {"secrets"} \cup V \cup {"control_host"} \cup N)
  BY <1>3, <1>7, <1>9, ConcatDistinct DEF FixedChecks
<1> HIDE DEF a4
<1>11. Distinct(a5, {"secrets"} \cup V \cup {"control_host"} \cup N \cup {"vsphere", "registry"})
  BY <1>3, <1>5, <1>10, ConcatDistinct DEF FixedChecks
<1> HIDE DEF a5
<1>12. Distinct(a6, {"secrets"} \cup V \cup {"control_host"} \cup N \cup {"vsphere", "registry"} \cup D)
  BY <1>3, <1>6, <1>11, ConcatDistinct DEF FixedChecks
<1> HIDE DEF a6
<1>13. Distinct(a7, {"secrets"} \cup V \cup {"control_host"} \cup N \cup {"vsphere", "registry"}
                      \cup D \cup {"proxy"})
  BY <1>3, <1>4, <1>12, ConcatDistinct DEF FixedChecks
<1>14. {"secrets"} \cup V \cup {"control_host"} \cup N \cup {"vsphere", "registry"} \cup D \cup {"proxy"}
        = (Checks \ {"known_hosts", "rancher_lb"}) \cup V \cup D
  BY <1>3 DEF Checks, FixedChecks, N
<1> HIDE DEF a7, V, D
<1>15. Distinct(Listed(plan), (Checks \ {"known_hosts", "rancher_lb"}) \cup V \cup D)
  BY <1>2, <1>13, <1>14
<1> QED BY <1>15 DEF V, D, vm, down

-----------------------------------------------------------------------------
(* The invariants of the rows, and what they imply.                        *)

\* A plan is what build_plan makes of the list it was asked for.
PlanRow(row) ==
  /\ row.asked \in Requested /\ row.scope = NormalizeComponents(row.asked) /\ row.scope # << >>
  /\ row.mode = ExecutionMode(row.scope) /\ row.executable = Executable(row.scope)

PlansInv ==
  \A p \in PlanIds : plans[p] # None => PlanRow(plans[p]) /\ plans[p].digest \in configs

Answers == [name : Checks, status : {"SKIPPED", "PASSED", "FAILED"}]

\* The answers are to the first checks of the plan's list, and one is deferred exactly
\* when the plan defers the check.
Answered(plan, checks) ==
  /\ checks \in Seq(Answers) /\ Len(checks) <= Len(Listed(plan))
  /\ \A i \in 1..Len(checks) :
       /\ checks[i].name = Listed(plan)[i]
       /\ checks[i].status = "SKIPPED" <=> Skips(plan, checks[i].name)

\* What is collected and what is saved answers the list of the plan so far, or whole.
ChecksInv ==
  \A f \in PreflightIds :
    /\ probing[f] # None => /\ "checks" \in DOMAIN probing[f]
                            /\ Answered(plans[probing[f].plan], probing[f].checks)
    /\ preflights[f] # None =>
         LET plan == plans[preflights[f].plan] IN
         /\ Answered(plan, preflights[f].checks)
         /\ Len(preflights[f].checks) = Len(Listed(plan))
         /\ preflights[f].state = Verdict(preflights[f].checks)

LEMMA InitChecks == Init => PlansInv /\ ChecksInv
BY DEF Init, PlansInv, ChecksInv

\* Rows that are there keep what is said of them.
LEMMA NextPlansInv ==
  ASSUME Inv, PlansInv, [Next]_vars
  PROVE  PlansInv'
<1>1. ASSUME NEW p \in PlanIds, NEW d \in Digests, NEW q \in Requested, BuildPlan(p, d, q)
      PROVE  PlansInv'
  <2> DEFINE scope == NormalizeComponents(q)
             row == [digest |-> d, scope |-> scope, expires |-> now + TTL,
                     mode |-> ExecutionMode(scope), executable |-> Executable(scope),
                     asked |-> q]
  <2>1. /\ d \in configs /\ scope # << >>
        /\ plans' = [plans EXCEPT ![p] = row] /\ configs' = configs
    BY <1>1 DEF BuildPlan
  <2>2. PlanRow(row) /\ row.digest = d
    <3>1. /\ row.asked = q /\ row.scope = scope /\ row.mode = ExecutionMode(scope)
          /\ row.executable = Executable(scope) /\ row.digest = d
      BY Zenon
    <3> HIDE DEF row, scope
    <3>2. scope = NormalizeComponents(row.asked)
      BY <3>1 DEF scope
    <3> QED BY <2>1, <3>1, <3>2 DEF PlanRow
  <2> HIDE DEF row, scope
  <2>3. \A r \in PlanIds : plans'[r] = IF r = p THEN row ELSE plans[r]
    BY <2>1 DEF Inv
  <2> QED BY <2>1, <2>2, <2>3 DEF PlansInv
<1>2. ASSUME plans' = plans, configs \subseteq configs' PROVE PlansInv'
  BY <1>2 DEF PlansInv
<1>3. ASSUME NEW d \in Digests, ValidateConfig(d) PROVE PlansInv'
  BY <1>2, <1>3 DEF ValidateConfig
<1>4. ASSUME NEW f \in PreflightIds, NEW p \in PlanIds, PreflightBegins(f, p) PROVE PlansInv'
  BY <1>2, <1>4 DEF PreflightBegins
<1>5. ASSUME NEW f \in PreflightIds, Probe(f) \/ PreflightEnds(f) \/ PreflightStops(f) PROVE PlansInv'
  BY <1>2, <1>5 DEF Probe, PreflightEnds, PreflightStops
<1>6. ASSUME NEW c \in Checks, Flap(c) PROVE PlansInv'
  BY <1>2, <1>6 DEF Flap
<1>7. CASE Tick
  BY <1>2, <1>7 DEF Tick
<1>8. CASE UNCHANGED vars
  BY <1>2, <1>8 DEF vars
<1> QED BY <1>1, <1>3, <1>4, <1>5, <1>6, <1>7, <1>8 DEF Next

\* One more answer to the list.
LEMMA OneMoreAnswer ==
  ASSUME NEW plan, NEW checks, Answered(plan, checks), Len(checks) + 1 \in DOMAIN Listed(plan)
  PROVE  Answered(plan, Append(checks, Check(plan, Listed(plan)[Len(checks) + 1])))
<1> DEFINE n == Len(checks) + 1
           c == Listed(plan)[n]
           a == Check(plan, c)
           more == Append(checks, a)
<1>1. Listed(plan) \in Seq(Checks)
  BY ListedFacts DEF Distinct
<1>2. checks \in Seq(Answers)
  BY DEF Answered
<1>3. n \in 1..Len(Listed(plan)) /\ c \in Checks
  BY <1>1
<1>4. a \in Answers /\ a.name = c /\ (a.status = "SKIPPED" <=> Skips(plan, c))
  BY <1>3 DEF Check, Answers
<1> HIDE DEF a, c
<1>5. /\ more \in Seq(Answers) /\ Len(more) = n
      /\ \A i \in 1..Len(checks) : more[i] = checks[i]
      /\ more[n] = a
  BY <1>2, <1>4
<1>6. \A i \in 1..n : i \in 1..Len(checks) \/ i = n
  BY <1>2
<1> HIDE DEF more
<1>7. ASSUME NEW i \in 1..n
      PROVE  more[i].name = Listed(plan)[i] /\ (more[i].status = "SKIPPED" <=> Skips(plan, more[i].name))
  BY <1>4, <1>5, <1>6 DEF Answered, c
<1>8. Answered(plan, more)
  BY <1>1, <1>3, <1>5, <1>7 DEF Answered
<1> QED BY <1>8 DEF more, a, c

LEMMA NextChecksInv ==
  ASSUME Inv, ChecksInv, [Next]_vars
  PROVE  ChecksInv'
<1>1. RowsStay
  BY NextRows
<1>2. \A f \in PreflightIds :
        /\ probing[f] # None => plans'[probing[f].plan] = plans[probing[f].plan]
        /\ preflights[f] # None => /\ preflights'[f] = preflights[f]
                                   /\ plans'[preflights[f].plan] = plans[preflights[f].plan]
  BY <1>1 DEF RowsStay, Inv
<1>3. ASSUME probing' = probing, preflights' = preflights PROVE ChecksInv'
  BY <1>2, <1>3 DEF ChecksInv
<1>4. ASSUME NEW p \in PlanIds, NEW d \in Digests, NEW q \in Requested, BuildPlan(p, d, q)
      PROVE  ChecksInv'
  BY <1>3, <1>4 DEF BuildPlan
<1>5. ASSUME NEW f \in PreflightIds, NEW p \in PlanIds, PreflightBegins(f, p) PROVE ChecksInv'
  <2> DEFINE row == [plan |-> p, checks |-> << >>]
  <2>1. probing' = [probing EXCEPT ![f] = row] /\ preflights' = preflights /\ plans' = plans
    BY <1>5 DEF PreflightBegins
  <2>2. Answered(plans[p], << >>)
    <3>1. Listed(plans[p]) \in Seq(Checks)
      BY ListedFacts DEF Distinct
    <3>2. << >> \in Seq(Answers) /\ Len(<< >>) = 0 /\ 0 <= Len(Listed(plans[p]))
      BY <3>1
    <3> QED BY <3>2 DEF Answered
  <2>3. row.plan = p /\ row.checks = << >> /\ "checks" \in DOMAIN row
    OBVIOUS
  <2> HIDE DEF row
  <2>4. \A g \in PreflightIds : probing'[g] = IF g = f THEN row ELSE probing[g]
    BY <2>1 DEF Inv
  <2> QED BY <2>1, <2>2, <2>3, <2>4 DEF ChecksInv
<1>6. ASSUME NEW f \in PreflightIds, Probe(f) PROVE ChecksInv'
  <2> DEFINE p == probing[f].plan
             plan == plans[p]
             checks == probing[f].checks
             more == Append(checks, Check(plan, Listed(plan)[Len(checks) + 1]))
             row == [probing[f] EXCEPT !.checks = more]
  <2>1. /\ probing[f] # None /\ Len(checks) + 1 \in DOMAIN Listed(plan)
        /\ probing' = [probing EXCEPT ![f].checks = more]
        /\ preflights' = preflights /\ plans' = plans
    BY <1>6 DEF Probe
  <2>2. Answered(plan, more)
    <3>1. Answered(plan, checks)
      BY <2>1 DEF ChecksInv
    <3> QED BY <2>1, <3>1, OneMoreAnswer
  <2>3. \A g \in PreflightIds : g # f => probing'[g] = probing[g]
    BY <2>1 DEF Inv
  <2>4. probing'[f] = row
    BY <2>1 DEF Inv
  <2>5. probing'[f].plan = p /\ DOMAIN probing'[f] = DOMAIN probing[f]
    BY <2>4
  <2>6. "checks" \in DOMAIN probing[f] /\ probing'[f].checks = more
    BY <2>1, <2>4 DEF ChecksInv
  <2> QED BY <2>1, <2>2, <2>3, <2>5, <2>6 DEF ChecksInv
<1>7. ASSUME NEW f \in PreflightIds, PreflightEnds(f) PROVE ChecksInv'
  <2> DEFINE p == probing[f].plan
             checks == probing[f].checks
             row == [plan |-> p, digest |-> plans[p].digest, expires |-> plans[p].expires,
                     state |-> Verdict(checks), checks |-> checks]
  <2>1. /\ probing[f] # None /\ Len(checks) = Len(Listed(plans[p]))
        /\ preflights' = [preflights EXCEPT ![f] = row]
        /\ probing' = [probing EXCEPT ![f] = None] /\ plans' = plans
    BY <1>7 DEF PreflightEnds
  <2>2. row.plan = p /\ row.state = Verdict(checks) /\ row.checks = checks
    OBVIOUS
  <2>3. Answered(plans[p], checks)
    BY <2>1 DEF ChecksInv
  <2> HIDE DEF row
  <2>4. \A g \in PreflightIds : /\ preflights'[g] = IF g = f THEN row ELSE preflights[g]
                                /\ probing'[g] = IF g = f THEN None ELSE probing[g]
    BY <2>1 DEF Inv
  <2> QED BY <2>1, <2>2, <2>3, <2>4 DEF ChecksInv
<1>8. ASSUME NEW f \in PreflightIds, PreflightStops(f) PROVE ChecksInv'
  <2>1. /\ \A g \in PreflightIds : probing'[g] = IF g = f THEN None ELSE probing[g]
        /\ preflights' = preflights /\ plans' = plans
    BY <1>8 DEF PreflightStops, Inv
  <2> QED BY <2>1 DEF ChecksInv
<1>9. ASSUME NEW d \in Digests, ValidateConfig(d) PROVE ChecksInv'
  BY <1>3, <1>9 DEF ValidateConfig
<1>10. ASSUME NEW c \in Checks, Flap(c) PROVE ChecksInv'
  BY <1>3, <1>10 DEF Flap
<1>11. CASE Tick
  BY <1>3, <1>11 DEF Tick
<1>12. CASE UNCHANGED vars
  BY <1>3, <1>12 DEF vars
<1> QED BY <1>4, <1>5, <1>6, <1>7, <1>8, <1>9, <1>10, <1>11, <1>12 DEF Next

\* The inductive invariant of plans and of the answers to their checks.
THEOREM RowsInvariant == Spec => [](Inv /\ PlansInv /\ ChecksInv)
<1>1. (Inv /\ PlansInv /\ ChecksInv) /\ [Next]_vars => (Inv /\ PlansInv /\ ChecksInv)'
  BY NextInv, NextPlansInv, NextChecksInv
<1> QED BY <1>1, InitInv, InitChecks, PTL DEF Spec

\* A plan runs its components in order and says truly whether, and how, it can be
\* executed (service.py:252-287, 1327-1339).
THEOREM PlansRunnable == Spec => []PlansAreRunnable
<1>1. PlansInv => PlansAreRunnable
  <2> SUFFICES ASSUME PlansInv, NEW p \in PlanIds, plans[p] # None
               PROVE  LET s == plans[p].scope
                          chain == \A i \in DOMAIN s : Position(s[i]) = i
                      IN /\ s # << >> /\ Ordered(s) /\ plans[p].digest \in configs
                         /\ plans[p].executable <=> Len(s) = 1 \/ chain
                         /\ plans[p].mode = "WORKFLOW" <=> Len(s) > 1 /\ chain
    BY DEF PlansAreRunnable
  <2> DEFINE s == plans[p].scope
             chain == \A i \in DOMAIN s : Position(s[i]) = i
  <2>1. /\ plans[p].asked \in Seq(Components \cup {"all", "other"})
        /\ s = NormalizeComponents(plans[p].asked) /\ s # << >>
        /\ plans[p].mode = ExecutionMode(s) /\ plans[p].executable = Executable(s)
        /\ plans[p].digest \in configs
    BY PlanningAssumption DEF PlansInv, PlanRow
  <2>2. s \in Seq(Components) /\ Ordered(s)
    BY <2>1, NormalizedFacts
  <2> HIDE DEF s
  <2>3. /\ s \in Workflows <=> Len(s) > 1 /\ chain
        /\ s \in {<<c>> : c \in Components} <=> Len(s) = 1
    BY <2>2, ChainIsWorkflow
  <2>4. Len(s) = 1 \/ Len(s) > 1
    <3>1. s \in Seq(Components) /\ s # << >>
      BY <2>1, <2>2
    <3>2. Len(s) \in Nat /\ Len(s) # 0
      BY <3>1
    <3>3. \A n \in Nat : n # 0 => n = 1 \/ n > 1
      OBVIOUS
    <3> QED BY <3>2, <3>3
  <2>5. Executable(s) <=> Len(s) = 1 \/ chain
    BY <2>3, <2>4 DEF Executable
  <2>6. ExecutionMode(s) = "WORKFLOW" <=> Len(s) > 1 /\ chain
    BY <2>3 DEF ExecutionMode
  <2> QED BY <2>1, <2>2, <2>5, <2>6 DEF s
<1> QED BY <1>1, RowsInvariant, PTL

\* A plan holds the components that were asked for (service.py:1327-1339).
THEOREM PlansHoldWhatWasAsked == Spec => []PlannedAsAsked
<1>1. PlansInv => PlannedAsAsked
  <2> SUFFICES ASSUME PlansInv, NEW p \in PlanIds, plans[p] # None
               PROVE  ToSet(plans[p].scope) =
                        IF plans[p].asked = <<"all">> THEN Components ELSE ToSet(plans[p].asked)
    BY DEF PlannedAsAsked
  <2>1. /\ plans[p].asked \in Seq(Components \cup {"all", "other"})
        /\ plans[p].scope = NormalizeComponents(plans[p].asked) /\ plans[p].scope # << >>
    BY PlanningAssumption DEF PlansInv, PlanRow
  <2> QED BY <2>1, NormalizedFacts
<1> QED BY <1>1, RowsInvariant, PTL

\* What a plan needs is what its preflight lists and does not defer.
LEMMA NeedsFacts ==
  ASSUME NEW plan, plan.scope \in Seq(Components)
  PROVE  Needs(plan) = {c \in ToSet(Listed(plan)) : ~Skips(plan, c)}
<1> DEFINE vm == Contains(plan.scope, "vm")
           down == Contains(plan.scope, "downstream")
           L == (Checks \ {"known_hosts", "rancher_lb"})
                  \cup (IF vm THEN {"known_hosts"} ELSE {})
                  \cup (IF down THEN {"rancher_lb"} ELSE {})
<1>1. ToSet(Listed(plan)) = L
  BY ListedFacts DEF Distinct
<1>2. ("vm" \in ToSet(plan.scope) <=> vm) /\ ("downstream" \in ToSet(plan.scope) <=> down)
  BY DEF ToSet, Contains
<1>3. \A c : Skips(plan, c) <=> \/ vm /\ (c \in ToSet(Nodes) \/ c = "rancher_lb")
                                \/ c = "proxy" /\ plan.digest \notin HasProxy
  BY DEF Skips
<1>4. \A c \in ToSet(Nodes) : c \notin FixedChecks
  BY PlanningAssumption
<1> HIDE DEF vm, down
<1>5. \A c : c \in Needs(plan) <=> c \in L /\ ~Skips(plan, c)
  BY <1>2, <1>3, <1>4 DEF Needs, Checks, FixedChecks
<1> QED BY <1>1, <1>5

\* A preflight passes on the answers of the checks that its plan needs, and on no others
\* (preflight.py:127-208, service.py:341-344).
THEOREM PassedIsAnswered == Spec => []PassedMeansAnswered
<1>1. Inv /\ PlansInv /\ ChecksInv => PassedMeansAnswered
  <2> SUFFICES ASSUME Inv, PlansInv, ChecksInv, NEW f \in PreflightIds, preflights[f] # None
               PROVE  LET checks == preflights[f].checks
                          Answer(c) == {checks[i].status : i \in {j \in DOMAIN checks : checks[j].name = c}}
                          needs == Needs(plans[preflights[f].plan])
                      IN /\ \A c \in needs : Answer(c) \in {{"PASSED"}, {"FAILED"}}
                         /\ preflights[f].state = "PASSED" <=> \A c \in needs : Answer(c) = {"PASSED"}
    BY DEF PassedMeansAnswered
  <2> DEFINE p == preflights[f].plan
             plan == plans[p]
             list == Listed(plan)
             checks == preflights[f].checks
             Answer(c) == {checks[i].status : i \in {j \in DOMAIN checks : checks[j].name = c}}
  <2>1. /\ p \in PlanIds /\ plan # None /\ Answered(plan, checks) /\ Len(checks) = Len(list)
        /\ preflights[f].state = Verdict(checks)
    BY DEF Inv, ChecksInv
  <2>2. plan.scope \in Seq(Components)
    BY <2>1, NormalizedFacts, PlanningAssumption DEF PlansInv, PlanRow
  <2>3. Needs(plan) = {c \in ToSet(list) : ~Skips(plan, c)}
    BY <2>2, NeedsFacts
  <2>4. list \in Seq(Checks) /\ IsInjective(list)
    BY ListedFacts DEF Distinct
  <2>5. checks \in Seq(Answers)
    BY <2>1 DEF Answered
  <2>6. DOMAIN checks = DOMAIN list
    BY <2>1, <2>4, <2>5
  <2>7. \A i \in DOMAIN checks : /\ checks[i].name = list[i]
                                 /\ checks[i].status \in {"SKIPPED", "PASSED", "FAILED"}
                                 /\ checks[i].status = "SKIPPED" <=> Skips(plan, list[i])
    <3> SUFFICES ASSUME NEW i \in DOMAIN checks
                 PROVE  /\ checks[i].name = list[i]
                        /\ checks[i].status \in {"SKIPPED", "PASSED", "FAILED"}
                        /\ checks[i].status = "SKIPPED" <=> Skips(plan, list[i])
      OBVIOUS
    <3>1. i \in 1..Len(checks) /\ checks[i] \in Answers
      BY <2>5
    <3> QED BY <2>1, <3>1 DEF Answered, Answers
  <2> HIDE DEF list, checks, plan
  <2>8. \A i \in DOMAIN checks : Answer(list[i]) = {checks[i].status}
    <3> SUFFICES ASSUME NEW i \in DOMAIN checks PROVE Answer(list[i]) = {checks[i].status}
      OBVIOUS
    <3>1. \A j \in DOMAIN checks : checks[j].name = list[i] <=> j = i
      BY <2>4, <2>6, <2>7 DEF IsInjective
    <3> QED BY <3>1
  <2> HIDE DEF Answer
  <2>9. \A c : c \in Needs(plan) <=> \E i \in DOMAIN checks : c = list[i] /\ checks[i].status # "SKIPPED"
    BY <2>3, <2>6, <2>7 DEF ToSet
  <2>10. \A c \in Needs(plan) : Answer(c) \in {{"PASSED"}, {"FAILED"}}
    BY <2>7, <2>8, <2>9
  <2>11. Verdict(checks) = "PASSED" <=> \A i \in DOMAIN checks : checks[i].status # "FAILED"
    BY DEF Verdict
  <2>12. (\A i \in DOMAIN checks : checks[i].status # "FAILED")
           <=> \A c \in Needs(plan) : Answer(c) = {"PASSED"}
    <3>1. ASSUME \A i \in DOMAIN checks : checks[i].status # "FAILED", NEW c \in Needs(plan)
          PROVE  Answer(c) = {"PASSED"}
      BY <2>7, <2>8, <2>9, <3>1
    <3>2. ASSUME \A c \in Needs(plan) : Answer(c) = {"PASSED"}, NEW i \in DOMAIN checks,
                 checks[i].status = "FAILED"
          PROVE  FALSE
      <4>1. list[i] \in Needs(plan)
        BY <2>9, <3>2
      <4>2. {"FAILED"} = {"PASSED"}
        BY <2>8, <3>2, <4>1
      <4> QED BY <4>2
    <3> QED BY <3>1, <3>2
  <2> QED BY <2>1, <2>10, <2>11, <2>12 DEF Answer, checks, plan
<1> QED BY <1>1, RowsInvariant, PTL
=============================================================================
