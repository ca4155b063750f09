-------------------------- MODULE DownstreamProofs --------------------------
(***************************************************************************)
(* Safety of Downstream, for any number of runs, nodes, names, addresses   *)
(* and faults.                                                             *)
(***************************************************************************)
EXTENDS Downstream, FiniteSetTheorems, SequenceTheorems, TLAPS

Positions == {"idle", "ping", "read", "put", "confirm", "create", "write", "describe", "apply",
  "record", "save", "register", "service", "verify", "failed", "cut", "killed",
  "succeeded"}

\* What of the types the proofs need.
TypeOK ==
  /\ config \in [Runs -> Configs] /\ at \in [Runs -> Positions]
  /\ todo \in [Runs -> SUBSET Nodes] /\ play \in [Runs -> Nat]
  /\ attached \in [Nodes -> {None} \cup Memberships]
  /\ alongside \in [Runs -> SUBSET Runs]

\* A run works on its own nodes only, so its cluster has no others.
KeepsToItsNodes ==
  \A r \in Runs :
    /\ todo[r] \subseteq Wanted(r) /\ play[r] \in 1..Len(Batches(r))
    /\ \A n \in Nodes : attached[n] # None /\ attached[n].cluster = r => n \in Wanted(r)

\* Runs that are busy at the same time know of each other.  A run that has found the
\* server-url unset was under way next to whoever has set it since.
Past(r) == at[r] \notin {"idle", "ping", "read", "put", "failed", "cut", "killed"}
Acquainted ==
  /\ \A r, q \in Runs : Busy(r) /\ Busy(q) => r = q \/ q \in alongside[r]
  /\ \A r \in Runs : at[r] = "put" => url = None \/ alongside[r] # {}
  /\ \A r, p \in Runs : at[r] = "put" /\ Past(p) => r \in alongside[p]
UrlIsSet == \A r \in Runs : Past(r) => url # None
UrlIsStable == Acquainted /\ UrlIsSet /\ UrlIsKept

Inv == TypeOK /\ KeepsToItsNodes /\ FirstNodeDecides /\ UrlIsStable

-----------------------------------------------------------------------------
\* The members of a sequence behind its first, one by one.
LEMMA OneByOneType ==
  ASSUME NEW S, NEW s \in Seq(S), Len(s) > 0
  PROVE  OneByOne(s) \in Seq(SUBSET Members(s))
<1>1. Len(s) - 1 \in Nat
  OBVIOUS
<1>2. \A i \in 1..Len(s) - 1 : {s[i + 1]} \in SUBSET Members(s)
  BY DEF Members
<1> QED BY <1>1, <1>2 DEF OneByOne

\* Every batch of the playbook is a set of nodes of the configuration.
LEMMA BatchesType ==
  ASSUME TypeOK, NEW r \in Runs
  PROVE  /\ Batches(r) \in Seq(SUBSET Wanted(r)) /\ Len(Batches(r)) \in Nat \ {0}
         /\ \A i \in 1..Len(Batches(r)) : Batches(r)[i] \subseteq Wanted(r)
         /\ Wanted(r) \subseteq Nodes /\ First(r) \in Wanted(r)
<1> DEFINE cps == config[r].cps
           workers == config[r].workers
<1>1. /\ cps \in Seq(Nodes) /\ Len(cps) > 0 /\ workers \in Seq(Nodes) /\ Len(workers) > 0
  BY ConfigsAssumption DEF TypeOK
<1>2. Members(cps) \subseteq Wanted(r) /\ Members(workers) \subseteq Wanted(r)
  BY DEF Wanted
<1>3. Wanted(r) \subseteq Nodes
  BY <1>1 DEF Wanted, Members
<1>4. cps[1] \in Members(cps) /\ workers[1] \in Members(workers)
  BY <1>1 DEF Members
<1>5. OneByOne(cps) \in Seq(SUBSET Members(cps)) /\ OneByOne(workers) \in Seq(SUBSET Members(workers))
  BY <1>1, OneByOneType
<1>6. <<{cps[1], workers[1]}>> \in Seq(SUBSET Wanted(r))
  BY <1>2, <1>4
<1>7. OneByOne(cps) \in Seq(SUBSET Wanted(r)) /\ OneByOne(workers) \in Seq(SUBSET Wanted(r))
  BY <1>2, <1>5
<1> DEFINE pair == <<{cps[1], workers[1]}>>
           a == OneByOne(cps)
           b == OneByOne(workers)
<1>8. Batches(r) = (pair \o a) \o b /\ Len(pair) = 1
  BY DEF Batches, First
<1> HIDE DEF pair, a, b
<1>9. pair \o a \in Seq(SUBSET Wanted(r)) /\ Len(pair \o a) = 1 + Len(a)
  BY <1>6, <1>7, <1>8, ConcatProperties DEF pair, a
<1>10. Batches(r) \in Seq(SUBSET Wanted(r)) /\ Len(Batches(r)) = 1 + Len(a) + Len(b)
  <2> DEFINE c == pair \o a
  <2>1. b \in Seq(SUBSET Wanted(r))
    BY <1>7 DEF b
  <2> HIDE DEF c
  <2>2. c \in Seq(SUBSET Wanted(r)) /\ Len(c) = 1 + Len(a) /\ Batches(r) = c \o b
    BY <1>8, <1>9 DEF c
  <2>3. c \o b \in Seq(SUBSET Wanted(r)) /\ Len(c \o b) = Len(c) + Len(b)
    BY <2>1, <2>2, ConcatProperties
  <2> QED BY <2>2, <2>3
<1>11. Len(a) \in Nat /\ Len(b) \in Nat
  BY <1>7 DEF a, b
<1>12. Len(Batches(r)) \in Nat \ {0}
  BY <1>10, <1>11
<1>13. \A i \in 1..Len(Batches(r)) : Batches(r)[i] \in SUBSET Wanted(r)
  BY <1>10
<1> QED BY <1>2, <1>3, <1>4, <1>10, <1>12, <1>13 DEF First


\* What a configuration wants is fixed with it.
LEMMA Fixed ==
  ASSUME config' = config, NEW r \in Runs
  PROVE  Batches(r)' = Batches(r) /\ Wanted(r)' = Wanted(r) /\ First(r)' = First(r)
BY DEF Batches, Wanted, First

\* The next batch is one of the nodes the run wants.
LEMMA NextBatch ==
  ASSUME Inv, NEW r \in Runs, SaveCommand(r) \/ AllRegistered(r) \/ BatchEnds(r)
  PROVE  /\ \E S \in SUBSET Wanted(r) : todo' = [todo EXCEPT ![r] = S]
         /\ \E i \in 1..Len(Batches(r)) : play' = [play EXCEPT ![r] = i]
         /\ UNCHANGED <<config, attached, alongside>>
         /\ Wanted(r) \subseteq Nodes
<1>0. TypeOK
  BY DEF Inv
<1>1. /\ Len(Batches(r)) \in Nat \ {0} /\ Wanted(r) \subseteq Nodes
      /\ \A i \in 1..Len(Batches(r)) : Batches(r)[i] \in SUBSET Wanted(r)
  BY <1>0, BatchesType
<1>2. /\ play[r] \in 1..Len(Batches(r)) /\ play \in [Runs -> Nat]
      /\ todo[r] \in SUBSET Wanted(r) /\ todo \in [Runs -> SUBSET Nodes]
  BY DEF Inv, KeepsToItsNodes, TypeOK
<1>3. UNCHANGED <<config, attached, alongside>>
  BY DEF SaveCommand, AllRegistered, BatchEnds, rancher, clusters
<1>4. \/ todo' = todo /\ play' = play
      \/ todo' = [todo EXCEPT ![r] = Batches(r)[play[r]]] /\ play' = play
      \/ todo' = [todo EXCEPT ![r] = Batches(r)[1]] /\ play' = [play EXCEPT ![r] = 1]
      \/ /\ play[r] < Len(Batches(r))
         /\ todo' = [todo EXCEPT ![r] = Batches(r)[play[r] + 1]]
         /\ play' = [play EXCEPT ![r] = play[r] + 1]
  BY DEF SaveCommand, AllRegistered, BatchEnds, progress
<1>5. todo = [todo EXCEPT ![r] = todo[r]] /\ play = [play EXCEPT ![r] = play[r]]
  BY <1>2
<1>6. 1 \in 1..Len(Batches(r)) /\ (play[r] < Len(Batches(r)) => play[r] + 1 \in 1..Len(Batches(r)))
  BY <1>1, <1>2
<1>7. \E i \in 1..Len(Batches(r)) : play' = [play EXCEPT ![r] = i]
  BY <1>2, <1>4, <1>5, <1>6
<1>8. \E S \in SUBSET Wanted(r) : todo' = [todo EXCEPT ![r] = S]
  BY <1>1, <1>2, <1>4, <1>5, <1>6
<1> QED BY <1>1, <1>3, <1>7, <1>8

\* A registration changes one node that was free.
LEMMA Registered ==
  ASSUME TypeOK, NEW r \in Runs, NEW n \in Nodes, Register(r, n)
  PROVE  /\ attached' \in [Nodes -> {None} \cup Memberships]
         /\ attached'[n] # None
         /\ attached[n] = None => attached'[n].cluster = r
         /\ \A m \in Nodes : m # n \/ attached[m] # None => attached'[m] = attached[m]
<1> DEFINE new == [cluster |-> r, role |-> RoleOf(r, n)]
<1>1. new \in Memberships /\ new.cluster = r
  BY DEF Memberships, RoleOf
<1>2. new # None
  BY <1>1, ConfigsAssumption
<1>3. attached' = [attached EXCEPT ![n] = IF attached[n] = None THEN new ELSE attached[n]]
  BY DEF Register
<1> HIDE DEF new
<1> QED BY <1>1, <1>2, <1>3 DEF TypeOK

\* Every action keeps the variables within their values.
LEMMA TypeStep ==
  ASSUME Inv, Next
  PROVE  TypeOK'
<1> USE DEF Inv
<1>1. ASSUME NEW r \in Runs, Begin(r)
      PROVE  TypeOK'
  BY <1>1 DEF Begin, Meets, TypeOK, Positions, Goto, AfterUrl, rancher, progress, clusters
<1>2. ASSUME NEW r \in Runs, Again(r)
      PROVE  TypeOK'
  BY <1>2 DEF Again, Meets, TypeOK, Positions, Goto, AfterUrl, rancher, progress, clusters
<1>3. ASSUME NEW r \in Runs, CheckCheckpoint(r), UNCHANGED <<progress, clusters, alongside>>
      PROVE  TypeOK'
  BY <1>3 DEF CheckCheckpoint, TypeOK, Positions, Goto, AfterUrl, rancher, progress, clusters
<1>4. ASSUME NEW r \in Runs, ReadServerUrl(r), UNCHANGED <<progress, clusters, alongside>>
      PROVE  TypeOK'
  BY <1>4 DEF ReadServerUrl, TypeOK, Positions, Goto, AfterUrl, rancher, progress, clusters
<1>5. ASSUME NEW r \in Runs, PutServerUrl(r), UNCHANGED <<progress, clusters, alongside>>
      PROVE  TypeOK'
  BY <1>5 DEF PutServerUrl, TypeOK, Positions, Goto, AfterUrl, rancher, progress, clusters
<1>6. ASSUME NEW r \in Runs, ConfirmServerUrl(r), UNCHANGED <<progress, clusters, alongside>>
      PROVE  TypeOK'
  BY <1>6 DEF ConfirmServerUrl, TypeOK, Positions, Goto, AfterUrl, rancher, progress, clusters
<1>7. ASSUME NEW r \in Runs, CreateApiToken(r), UNCHANGED <<progress, clusters, alongside>>
      PROVE  TypeOK'
  BY <1>7 DEF CreateApiToken, TypeOK, Positions, Goto, AfterUrl, rancher, progress, clusters
<1>8. ASSUME NEW r \in Runs, WriteToken(r), UNCHANGED <<progress, clusters, alongside>>
      PROVE  TypeOK'
  BY <1>8 DEF WriteToken, TypeOK, Positions, Goto, AfterUrl, rancher, progress, clusters
<1>9. ASSUME NEW r \in Runs, WriteMetadata(r), UNCHANGED <<progress, clusters, alongside>>
      PROVE  TypeOK'
  BY <1>9 DEF WriteMetadata, TypeOK, Positions, Goto, AfterUrl, rancher, progress, clusters
<1>10. ASSUME NEW r \in Runs, Cut(r), UNCHANGED <<progress, clusters, alongside>>
      PROVE  TypeOK'
  BY <1>10 DEF Cut, TypeOK, Positions, Goto, AfterUrl, rancher, progress, clusters
<1>11. ASSUME NEW r \in Runs, Apply(r)
      PROVE  TypeOK'
  BY <1>11 DEF Apply, TypeOK, Positions, Goto, AfterUrl, rancher, progress, clusters
<1>12. ASSUME NEW r \in Runs, Record(r)
      PROVE  TypeOK'
  BY <1>12 DEF Record, TypeOK, Positions, Goto, AfterUrl, rancher, progress, clusters
<1>13. ASSUME NEW r \in Runs, SaveCommand(r)
      PROVE  TypeOK'
  <2>1. /\ todo' \in [Runs -> SUBSET Nodes] /\ play' \in [Runs -> Nat]
        /\ UNCHANGED <<config, attached, alongside>>
    BY <1>13, NextBatch DEF TypeOK
  <2>2. \E p \in {"register"} : at' = [at EXCEPT ![r] = p]
    BY <1>13 DEF SaveCommand, Goto
  <2>3. at' \in [Runs -> Positions]
    BY <2>2 DEF TypeOK, Positions
  <2> QED BY <2>1, <2>3 DEF TypeOK
<1>14. ASSUME NEW r \in Runs, AllRegistered(r)
      PROVE  TypeOK'
  <2>1. /\ todo' \in [Runs -> SUBSET Nodes] /\ play' \in [Runs -> Nat]
        /\ UNCHANGED <<config, attached, alongside>>
    BY <1>14, NextBatch DEF TypeOK
  <2>2. \E p \in {"service"} : at' = [at EXCEPT ![r] = p]
    BY <1>14 DEF AllRegistered, Goto
  <2>3. at' \in [Runs -> Positions]
    BY <2>2 DEF TypeOK, Positions
  <2> QED BY <2>1, <2>3 DEF TypeOK
<1>15. ASSUME NEW r \in Runs, BatchEnds(r)
      PROVE  TypeOK'
  <2>1. /\ todo' \in [Runs -> SUBSET Nodes] /\ play' \in [Runs -> Nat]
        /\ UNCHANGED <<config, attached, alongside>>
    BY <1>15, NextBatch DEF TypeOK
  <2>2. \E p \in {"failed", "verify", "register"} : at' = [at EXCEPT ![r] = p]
    BY <1>15 DEF BatchEnds, Goto
  <2>3. at' \in [Runs -> Positions]
    BY <2>2 DEF TypeOK, Positions
  <2> QED BY <2>1, <2>3 DEF TypeOK
<1>16. ASSUME NEW r \in Runs, VerifyNodes(r)
      PROVE  TypeOK'
  BY <1>16 DEF VerifyNodes, TypeOK, Positions, Goto, AfterUrl, rancher, progress, clusters
<1>17. ASSUME NEW r \in Runs, NEW n \in Nodes, Register(r, n)
      PROVE  TypeOK'
  <2>1. attached' \in [Nodes -> {None} \cup Memberships]
    BY <1>17, Registered
  <2> QED BY <1>17, <2>1 DEF Register, TypeOK, rancher
<1>18. ASSUME NEW r \in Runs, NEW n \in Nodes, ServiceActive(r, n)
      PROVE  TypeOK'
  BY <1>18 DEF ServiceActive, TypeOK, Positions, Goto, AfterUrl, rancher, progress, clusters
<1>19. ASSUME NEW r \in Runs, NEW n \in Nodes, ServiceMissing(r, n)
      PROVE  TypeOK'
  BY <1>19 DEF ServiceMissing, TypeOK, Positions, Goto, AfterUrl, rancher, progress, clusters
<1>20. ASSUME NEW n \in Nodes, BecomesActive(n)
      PROVE  TypeOK'
  BY <1>20 DEF BecomesActive, TypeOK, Positions, Goto, AfterUrl, rancher, progress, clusters
<1> QED
  BY <1>1, <1>2, <1>3, <1>4, <1>5, <1>6, <1>7, <1>8, <1>9, <1>10, <1>11, <1>12, <1>13, <1>14, <1>15, <1>16, <1>17, <1>18, <1>19, <1>20 DEF Next, Token, PreparesToken, Playbook

\* No action lets a run work on nodes of others.
LEMMA NodesStep ==
  ASSUME Inv, Next
  PROVE  KeepsToItsNodes'
<1> USE DEF Inv
<1>1. ASSUME NEW r \in Runs, Begin(r)
      PROVE  KeepsToItsNodes'
  BY <1>1 DEF Begin, TypeOK, KeepsToItsNodes, Wanted, Batches, First, rancher, progress, clusters
<1>2. ASSUME NEW r \in Runs, Again(r)
      PROVE  KeepsToItsNodes'
  BY <1>2 DEF Again, TypeOK, KeepsToItsNodes, Wanted, Batches, First, rancher, progress, clusters
<1>3. ASSUME NEW r \in Runs, CheckCheckpoint(r), UNCHANGED <<progress, clusters, alongside>>
      PROVE  KeepsToItsNodes'
  BY <1>3 DEF CheckCheckpoint, TypeOK, KeepsToItsNodes, Wanted, Batches, First, rancher, progress, clusters
<1>4. ASSUME NEW r \in Runs, ReadServerUrl(r), UNCHANGED <<progress, clusters, alongside>>
      PROVE  KeepsToItsNodes'
  BY <1>4 DEF ReadServerUrl, TypeOK, KeepsToItsNodes, Wanted, Batches, First, rancher, progress, clusters
<1>5. ASSUME NEW r \in Runs, PutServerUrl(r), UNCHANGED <<progress, clusters, alongside>>
      PROVE  KeepsToItsNodes'
  BY <1>5 DEF PutServerUrl, TypeOK, KeepsToItsNodes, Wanted, Batches, First, rancher, progress, clusters
<1>6. ASSUME NEW r \in Runs, ConfirmServerUrl(r), UNCHANGED <<progress, clusters, alongside>>
      PROVE  KeepsToItsNodes'
  BY <1>6 DEF ConfirmServerUrl, TypeOK, KeepsToItsNodes, Wanted, Batches, First, rancher, progress, clusters
<1>7. ASSUME NEW r \in Runs, CreateApiToken(r), UNCHANGED <<progress, clusters, alongside>>
      PROVE  KeepsToItsNodes'
  BY <1>7 DEF CreateApiToken, TypeOK, KeepsToItsNodes, Wanted, Batches, First, rancher, progress, clusters
<1>8. ASSUME NEW r \in Runs, WriteToken(r), UNCHANGED <<progress, clusters, alongside>>
      PROVE  KeepsToItsNodes'
  BY <1>8 DEF WriteToken, TypeOK, KeepsToItsNodes, Wanted, Batches, First, rancher, progress, clusters
<1>9. ASSUME NEW r \in Runs, WriteMetadata(r), UNCHANGED <<progress, clusters, alongside>>
      PROVE  KeepsToItsNodes'
  BY <1>9 DEF WriteMetadata, TypeOK, KeepsToItsNodes, Wanted, Batches, First, rancher, progress, clusters
<1>10. ASSUME NEW r \in Runs, Cut(r), UNCHANGED <<progress, clusters, alongside>>
      PROVE  KeepsToItsNodes'
  BY <1>10 DEF Cut, TypeOK, KeepsToItsNodes, Wanted, Batches, First, rancher, progress, clusters
<1>11. ASSUME NEW r \in Runs, Apply(r)
      PROVE  KeepsToItsNodes'
  BY <1>11 DEF Apply, TypeOK, KeepsToItsNodes, Wanted, Batches, First, rancher, progress, clusters
<1>12. ASSUME NEW r \in Runs, Record(r)
      PROVE  KeepsToItsNodes'
  BY <1>12 DEF Record, TypeOK, KeepsToItsNodes, Wanted, Batches, First, rancher, progress, clusters
<1>13. ASSUME NEW r \in Runs, SaveCommand(r)
      PROVE  KeepsToItsNodes'
  <2>1. PICK S \in SUBSET Wanted(r) : todo' = [todo EXCEPT ![r] = S]
    BY <1>13, NextBatch
  <2>2. PICK i \in 1..Len(Batches(r)) : play' = [play EXCEPT ![r] = i]
    BY <1>13, NextBatch
  <2>3. UNCHANGED <<config, attached>>
    BY <1>13, NextBatch
  <2>4. \A q \in Runs : Batches(q)' = Batches(q) /\ Wanted(q)' = Wanted(q)
    BY <2>3, Fixed
  <2> QED BY <2>1, <2>2, <2>3, <2>4 DEF TypeOK, KeepsToItsNodes
<1>14. ASSUME NEW r \in Runs, AllRegistered(r)
      PROVE  KeepsToItsNodes'
  <2>1. PICK S \in SUBSET Wanted(r) : todo' = [todo EXCEPT ![r] = S]
    BY <1>14, NextBatch
  <2>2. PICK i \in 1..Len(Batches(r)) : play' = [play EXCEPT ![r] = i]
    BY <1>14, NextBatch
  <2>3. UNCHANGED <<config, attached>>
    BY <1>14, NextBatch
  <2>4. \A q \in Runs : Batches(q)' = Batches(q) /\ Wanted(q)' = Wanted(q)
    BY <2>3, Fixed
  <2> QED BY <2>1, <2>2, <2>3, <2>4 DEF TypeOK, KeepsToItsNodes
<1>15. ASSUME NEW r \in Runs, BatchEnds(r)
      PROVE  KeepsToItsNodes'
  <2>1. PICK S \in SUBSET Wanted(r) : todo' = [todo EXCEPT ![r] = S]
    BY <1>15, NextBatch
  <2>2. PICK i \in 1..Len(Batches(r)) : play' = [play EXCEPT ![r] = i]
    BY <1>15, NextBatch
  <2>3. UNCHANGED <<config, attached>>
    BY <1>15, NextBatch
  <2>4. \A q \in Runs : Batches(q)' = Batches(q) /\ Wanted(q)' = Wanted(q)
    BY <2>3, Fixed
  <2> QED BY <2>1, <2>2, <2>3, <2>4 DEF TypeOK, KeepsToItsNodes
<1>16. ASSUME NEW r \in Runs, VerifyNodes(r)
      PROVE  KeepsToItsNodes'
  BY <1>16 DEF VerifyNodes, TypeOK, KeepsToItsNodes, Wanted, Batches, First, rancher, progress, clusters
<1>17. ASSUME NEW r \in Runs, NEW n \in Nodes, Register(r, n)
      PROVE  KeepsToItsNodes'
  BY <1>17 DEF Register, TypeOK, KeepsToItsNodes, Wanted, Batches, First, rancher, progress, clusters
<1>18. ASSUME NEW r \in Runs, NEW n \in Nodes, ServiceActive(r, n)
      PROVE  KeepsToItsNodes'
  BY <1>18 DEF ServiceActive, TypeOK, KeepsToItsNodes, Wanted, Batches, First, rancher, progress, clusters
<1>19. ASSUME NEW r \in Runs, NEW n \in Nodes, ServiceMissing(r, n)
      PROVE  KeepsToItsNodes'
  BY <1>19 DEF ServiceMissing, TypeOK, KeepsToItsNodes, Wanted, Batches, First, rancher, progress, clusters
<1>20. ASSUME NEW n \in Nodes, BecomesActive(n)
      PROVE  KeepsToItsNodes'
  BY <1>20 DEF BecomesActive, TypeOK, KeepsToItsNodes, Wanted, Batches, First, rancher, progress, clusters
<1> QED
  BY <1>1, <1>2, <1>3, <1>4, <1>5, <1>6, <1>7, <1>8, <1>9, <1>10, <1>11, <1>12, <1>13, <1>14, <1>15, <1>16, <1>17, <1>18, <1>19, <1>20 DEF Next, Token, PreparesToken, Playbook

\* A run succeeds when its nodes are counted, and no action detaches a node.
LEMMA DecidedStep ==
  ASSUME Inv, Next
  PROVE  FirstNodeDecides'
<1> USE DEF Inv
<1>1. ASSUME NEW r \in Runs, Begin(r)
      PROVE  FirstNodeDecides'
  BY <1>1 DEF Begin, TypeOK, FirstNodeDecides, Wanted, First, Goto, AfterUrl, rancher, progress, clusters
<1>2. ASSUME NEW r \in Runs, Again(r)
      PROVE  FirstNodeDecides'
  BY <1>2 DEF Again, TypeOK, FirstNodeDecides, Wanted, First, Goto, AfterUrl, rancher, progress, clusters
<1>3. ASSUME NEW r \in Runs, CheckCheckpoint(r), UNCHANGED <<progress, clusters, alongside>>
      PROVE  FirstNodeDecides'
  BY <1>3 DEF CheckCheckpoint, TypeOK, FirstNodeDecides, Wanted, First, Goto, AfterUrl, rancher, progress, clusters
<1>4. ASSUME NEW r \in Runs, ReadServerUrl(r), UNCHANGED <<progress, clusters, alongside>>
      PROVE  FirstNodeDecides'
  BY <1>4 DEF ReadServerUrl, TypeOK, FirstNodeDecides, Wanted, First, Goto, AfterUrl, rancher, progress, clusters
<1>5. ASSUME NEW r \in Runs, PutServerUrl(r), UNCHANGED <<progress, clusters, alongside>>
      PROVE  FirstNodeDecides'
  BY <1>5 DEF PutServerUrl, TypeOK, FirstNodeDecides, Wanted, First, Goto, AfterUrl, rancher, progress, clusters
<1>6. ASSUME NEW r \in Runs, ConfirmServerUrl(r), UNCHANGED <<progress, clusters, alongside>>
      PROVE  FirstNodeDecides'
  BY <1>6 DEF ConfirmServerUrl, TypeOK, FirstNodeDecides, Wanted, First, Goto, AfterUrl, rancher, progress, clusters
<1>7. ASSUME NEW r \in Runs, CreateApiToken(r), UNCHANGED <<progress, clusters, alongside>>
      PROVE  FirstNodeDecides'
  BY <1>7 DEF CreateApiToken, TypeOK, FirstNodeDecides, Wanted, First, Goto, AfterUrl, rancher, progress, clusters
<1>8. ASSUME NEW r \in Runs, WriteToken(r), UNCHANGED <<progress, clusters, alongside>>
      PROVE  FirstNodeDecides'
  BY <1>8 DEF WriteToken, TypeOK, FirstNodeDecides, Wanted, First, Goto, AfterUrl, rancher, progress, clusters
<1>9. ASSUME NEW r \in Runs, WriteMetadata(r), UNCHANGED <<progress, clusters, alongside>>
      PROVE  FirstNodeDecides'
  BY <1>9 DEF WriteMetadata, TypeOK, FirstNodeDecides, Wanted, First, Goto, AfterUrl, rancher, progress, clusters
<1>10. ASSUME NEW r \in Runs, Cut(r), UNCHANGED <<progress, clusters, alongside>>
      PROVE  FirstNodeDecides'
  BY <1>10 DEF Cut, TypeOK, FirstNodeDecides, Wanted, First, Goto, AfterUrl, rancher, progress, clusters
<1>11. ASSUME NEW r \in Runs, Apply(r)
      PROVE  FirstNodeDecides'
  BY <1>11 DEF Apply, TypeOK, FirstNodeDecides, Wanted, First, Goto, AfterUrl, rancher, progress, clusters
<1>12. ASSUME NEW r \in Runs, Record(r)
      PROVE  FirstNodeDecides'
  BY <1>12 DEF Record, TypeOK, FirstNodeDecides, Wanted, First, Goto, AfterUrl, rancher, progress, clusters
<1>13. ASSUME NEW r \in Runs, SaveCommand(r)
      PROVE  FirstNodeDecides'
  BY <1>13 DEF SaveCommand, TypeOK, FirstNodeDecides, Wanted, First, Goto, AfterUrl, rancher, progress, clusters
<1>14. ASSUME NEW r \in Runs, AllRegistered(r)
      PROVE  FirstNodeDecides'
  BY <1>14 DEF AllRegistered, TypeOK, FirstNodeDecides, Wanted, First, Goto, AfterUrl, rancher, progress, clusters
<1>15. ASSUME NEW r \in Runs, BatchEnds(r)
      PROVE  FirstNodeDecides'
  BY <1>15 DEF BatchEnds, TypeOK, FirstNodeDecides, Wanted, First, Goto, AfterUrl, rancher, progress, clusters
<1>16. ASSUME NEW r \in Runs, VerifyNodes(r)
      PROVE  FirstNodeDecides'
  <2>1. /\ at' = [at EXCEPT ![r] = "succeeded"] \/ at' = [at EXCEPT ![r] = "failed"]
        /\ UNCHANGED <<config, attached>>
    BY <1>16 DEF VerifyNodes, Goto, rancher, clusters
  <2>2. ASSUME at'[r] = "succeeded", attached[First(r)].cluster = r, NEW n \in Wanted(r)
        PROVE  attached[n] # None /\ attached[n].cluster = r
    <3>1. Cardinality(Ready(r)) = Cardinality(Wanted(r))
      BY <1>16, <2>2 DEF VerifyNodes, Counted, Goto, TypeOK
    <3>2. Ready(r) \subseteq Wanted(r)
      BY <2>2 DEF Ready, In, KeepsToItsNodes
    <3>3. IsFiniteSet(Wanted(r))
      BY BatchesType, ConfigsAssumption, FS_Subset
    <3>4. Ready(r) = Wanted(r)
      BY <3>1, <3>2, <3>3, FS_Subset
    <3> QED BY <2>2, <3>4 DEF Ready, In
  <2>3. \A q \in Runs : Wanted(q)' = Wanted(q) /\ First(q)' = First(q)
    BY <2>1, Fixed
  <2> QED BY <2>1, <2>2, <2>3 DEF FirstNodeDecides, TypeOK
<1>17. ASSUME NEW r \in Runs, NEW n \in Nodes, Register(r, n)
      PROVE  FirstNodeDecides'
  BY <1>17 DEF Register, TypeOK, FirstNodeDecides, Wanted, First, Goto, AfterUrl, rancher, progress, clusters
<1>18. ASSUME NEW r \in Runs, NEW n \in Nodes, ServiceActive(r, n)
      PROVE  FirstNodeDecides'
  BY <1>18 DEF ServiceActive, TypeOK, FirstNodeDecides, Wanted, First, Goto, AfterUrl, rancher, progress, clusters
<1>19. ASSUME NEW r \in Runs, NEW n \in Nodes, ServiceMissing(r, n)
      PROVE  FirstNodeDecides'
  BY <1>19 DEF ServiceMissing, TypeOK, FirstNodeDecides, Wanted, First, Goto, AfterUrl, rancher, progress, clusters
<1>20. ASSUME NEW n \in Nodes, BecomesActive(n)
      PROVE  FirstNodeDecides'
  BY <1>20 DEF BecomesActive, TypeOK, FirstNodeDecides, Wanted, First, Goto, AfterUrl, rancher, progress, clusters
<1> QED
  BY <1>1, <1>2, <1>3, <1>4, <1>5, <1>6, <1>7, <1>8, <1>9, <1>10, <1>11, <1>12, <1>13, <1>14, <1>15, <1>16, <1>17, <1>18, <1>19, <1>20 DEF Next, Token, PreparesToken, Playbook

\* A run goes on to where its server-url allows, without changing it.
Leads(r, p) ==
  /\ p \notin {"idle", "ping"}
  /\ p = "put" => url = None
  /\ p \notin {"read", "put", "failed", "cut", "killed"} => Past(r) \/ url = config[r].url
  /\ p \notin {"read", "put", "confirm", "failed", "cut", "killed"} =>
       url = config[r].url \/ (Past(r) /\ at[r] # "confirm")
LEMMA UrlElsewhere ==
  ASSUME Inv, NEW r \in Runs, NEW p \in Positions, at' = [at EXCEPT ![r] = p], Busy(r), Leads(r, p),
         UNCHANGED <<url, config, alongside>>
  PROVE  UrlIsStable'
<1> USE DEF Inv
<1>0. \A q \in Runs : config[q].url # None
  BY ConfigsAssumption DEF TypeOK
<1>1. at'[r] = p /\ \A q \in Runs : q # r => at'[q] = at[q]
  BY DEF TypeOK
<1>2. \A q \in Runs : Past(q)' => url # None
  BY <1>0, <1>1 DEF UrlIsStable, UrlIsSet, Past, Leads
<1>3. UrlIsSet'
  BY <1>2 DEF UrlIsSet
<1>4. Acquainted'
  <2>1. \A q, o \in Runs : Busy(q)' /\ Busy(o)' => q = o \/ o \in alongside'[q]
    BY <1>1 DEF UrlIsStable, Acquainted, Busy
  <2>2. \A q \in Runs : at'[q] = "put" => url' = None \/ alongside'[q] # {}
    BY <1>1 DEF UrlIsStable, Acquainted, Leads
  <2>3. ASSUME NEW q \in Runs, NEW o \in Runs, at'[q] = "put", Past(o)'
        PROVE  q \in alongside'[o]
    <3>1. CASE q = r
      BY <3>1, <1>1, <1>2, <2>3 DEF Leads
    <3>2. CASE q # r /\ o # r
      BY <3>2, <1>1, <2>3 DEF UrlIsStable, Acquainted, Past
    <3>3. CASE q # r /\ o = r
      BY <3>3, <1>1, <2>3 DEF UrlIsStable, Acquainted, Busy
    <3> QED BY <3>1, <3>2, <3>3
  <2> QED BY <2>1, <2>2, <2>3 DEF Acquainted
<1>5. UrlIsKept'
  BY <1>1 DEF UrlIsStable, UrlIsKept, Leads, Past
<1> QED BY <1>3, <1>4, <1>5 DEF UrlIsStable

\* A run that starts gets to know those under way.
LEMMA UrlAtBeginning ==
  ASSUME Inv, NEW r \in Runs, at[r] \in {"idle", "killed"}, at' = [at EXCEPT ![r] = "ping"], Meets(r),
         UNCHANGED <<url, config>>
  PROVE  UrlIsStable'
<1> USE DEF Inv
<1>1. at'[r] = "ping" /\ \A q \in Runs : q # r => at'[q] = at[q]
  BY DEF TypeOK
<1>2. /\ \A q \in Runs : alongside[q] \subseteq alongside'[q]
      /\ \A q \in Runs : Busy(q) => q \in alongside'[r] /\ (q # r => r \in alongside'[q])
  BY DEF Meets, TypeOK
<1>3. UrlIsSet'
  BY <1>1 DEF UrlIsStable, UrlIsSet, Past
<1>4. Acquainted'
  <2>1. ASSUME NEW q \in Runs, NEW o \in Runs, Busy(q)', Busy(o)', q # o
        PROVE  o \in alongside'[q]
    <3>1. CASE q = r
      BY <3>1, <1>1, <1>2, <2>1 DEF Busy
    <3>2. CASE o = r
      BY <3>2, <1>1, <1>2, <2>1 DEF Busy
    <3>3. CASE q # r /\ o # r
      BY <3>3, <1>1, <1>2, <2>1 DEF UrlIsStable, Acquainted, Busy
    <3> QED BY <3>1, <3>2, <3>3
  <2>2. \A q \in Runs : at'[q] = "put" => url' = None \/ alongside'[q] # {}
    BY <1>1, <1>2 DEF UrlIsStable, Acquainted
  <2>3. \A q, o \in Runs : at'[q] = "put" /\ Past(o)' => q \in alongside'[o]
    BY <1>1, <1>2 DEF UrlIsStable, Acquainted, Past
  <2> QED BY <2>1, <2>2, <2>3 DEF Acquainted
<1>5. UrlIsKept'
  BY <1>1, <1>2 DEF UrlIsStable, UrlIsKept
<1> QED BY <1>3, <1>4, <1>5 DEF UrlIsStable

\* A run that puts the server-url is acquainted with every run it takes it from.
LEMMA UrlStep ==
  ASSUME Inv, Next
  PROVE  UrlIsStable'
<1> USE DEF Inv
<1>0. \A q \in Runs : config[q].url # None
  BY ConfigsAssumption DEF TypeOK
<1>1. ASSUME NEW r \in Runs, Begin(r)
      PROVE  UrlIsStable'
  <2>1. /\ at[r] \in {"idle", "killed"} /\ at' = [at EXCEPT ![r] = "ping"] /\ Meets(r)
        /\ UNCHANGED <<url, config>>
    BY <1>1 DEF Begin, Goto, rancher
  <2> QED BY <2>1, UrlAtBeginning
<1>2. ASSUME NEW r \in Runs, Again(r)
      PROVE  UrlIsStable'
  <2>1. /\ at[r] \in {"idle", "killed"} /\ at' = [at EXCEPT ![r] = "ping"] /\ Meets(r)
        /\ UNCHANGED <<url, config>>
    BY <1>2 DEF Again, Goto, rancher
  <2> QED BY <2>1, UrlAtBeginning
<1>3. ASSUME NEW r \in Runs, CheckCheckpoint(r), UNCHANGED <<progress, clusters, alongside>>
      PROVE  UrlIsStable'
  <2>1. UNCHANGED <<url, config, alongside>>
    BY <1>3 DEF CheckCheckpoint, rancher
  <2>2. PICK p \in Positions : at' = [at EXCEPT ![r] = p] /\ Busy(r) /\ Leads(r, p)
    BY <1>3 DEF CheckCheckpoint, Goto, AfterUrl, Busy, Leads, Past, Positions
  <2> QED BY <2>1, <2>2, UrlElsewhere
<1>4. ASSUME NEW r \in Runs, ReadServerUrl(r), UNCHANGED <<progress, clusters, alongside>>
      PROVE  UrlIsStable'
  <2>1. UNCHANGED <<url, config, alongside>>
    BY <1>4 DEF ReadServerUrl, rancher
  <2>2. PICK p \in Positions : at' = [at EXCEPT ![r] = p] /\ Busy(r) /\ Leads(r, p)
    BY <1>4 DEF ReadServerUrl, Goto, AfterUrl, Busy, Leads, Past, Positions
  <2> QED BY <2>1, <2>2, UrlElsewhere
<1>5. ASSUME NEW r \in Runs, PutServerUrl(r), UNCHANGED <<progress, clusters, alongside>>
      PROVE  UrlIsStable'
  <2>1. /\ at[r] = "put" /\ at' = [at EXCEPT ![r] = "confirm"] /\ url' = config[r].url
        /\ UNCHANGED <<config, alongside>>
    BY <1>5 DEF PutServerUrl, Goto
  <2>2. \A p \in Runs : p # r => at'[p] = at[p]
    BY <2>1 DEF TypeOK
  <2>3. at'[r] = "confirm"
    BY <2>1 DEF TypeOK
  <2>4. url' # None
    BY <1>0, <2>1
  <2>5. Acquainted'
    <3>1. \A p, q \in Runs : Busy(p)' /\ Busy(q)' => p = q \/ q \in alongside'[p]
      BY <2>1, <2>2, <2>3 DEF UrlIsStable, Acquainted, Busy
    <3>2. \A p \in Runs : at'[p] = "put" => alongside'[p] # {}
      BY <2>1, <2>2, <2>3 DEF UrlIsStable, Acquainted, Busy
    <3>3. \A q, p \in Runs : at'[q] = "put" /\ Past(p)' => q \in alongside'[p]
      BY <2>1, <2>2, <2>3 DEF UrlIsStable, Acquainted, Busy, Past
    <3> QED BY <3>1, <3>2, <3>3 DEF Acquainted
  <2>6. UrlIsSet'
    BY <2>4 DEF UrlIsSet
  <2>7. UrlIsKept'
    <3>1. \A p \in Runs : Past(p) => r \in alongside[p]
      BY <2>1 DEF UrlIsStable, Acquainted
    <3> QED BY <2>1, <2>2, <2>3, <3>1 DEF UrlIsKept, Past
  <2> QED BY <2>5, <2>6, <2>7 DEF UrlIsStable
<1>6. ASSUME NEW r \in Runs, ConfirmServerUrl(r), UNCHANGED <<progress, clusters, alongside>>
      PROVE  UrlIsStable'
  <2>1. UNCHANGED <<url, config, alongside>>
    BY <1>6 DEF ConfirmServerUrl, rancher
  <2>2. PICK p \in Positions : at' = [at EXCEPT ![r] = p] /\ Busy(r) /\ Leads(r, p)
    BY <1>6 DEF ConfirmServerUrl, Goto, AfterUrl, Busy, Leads, Past, Positions
  <2> QED BY <2>1, <2>2, UrlElsewhere
<1>7. ASSUME NEW r \in Runs, CreateApiToken(r), UNCHANGED <<progress, clusters, alongside>>
      PROVE  UrlIsStable'
  <2>1. UNCHANGED <<url, config, alongside>>
    BY <1>7 DEF CreateApiToken, rancher
  <2>2. PICK p \in Positions : at' = [at EXCEPT ![r] = p] /\ Busy(r) /\ Leads(r, p)
    BY <1>7 DEF CreateApiToken, Goto, AfterUrl, Busy, Leads, Past, Positions
  <2> QED BY <2>1, <2>2, UrlElsewhere
<1>8. ASSUME NEW r \in Runs, WriteToken(r), UNCHANGED <<progress, clusters, alongside>>
      PROVE  UrlIsStable'
  <2>1. UNCHANGED <<url, config, alongside>>
    BY <1>8 DEF WriteToken, rancher
  <2>2. PICK p \in Positions : at' = [at EXCEPT ![r] = p] /\ Busy(r) /\ Leads(r, p)
    BY <1>8 DEF WriteToken, Goto, AfterUrl, Busy, Leads, Past, Positions
  <2> QED BY <2>1, <2>2, UrlElsewhere
<1>9. ASSUME NEW r \in Runs, WriteMetadata(r), UNCHANGED <<progress, clusters, alongside>>
      PROVE  UrlIsStable'
  <2>1. UNCHANGED <<url, config, alongside>>
    BY <1>9 DEF WriteMetadata, rancher
  <2>2. PICK p \in Positions : at' = [at EXCEPT ![r] = p] /\ Busy(r) /\ Leads(r, p)
    BY <1>9 DEF WriteMetadata, Goto, AfterUrl, Busy, Leads, Past, Positions
  <2> QED BY <2>1, <2>2, UrlElsewhere
<1>10. ASSUME NEW r \in Runs, Cut(r), UNCHANGED <<progress, clusters, alongside>>
      PROVE  UrlIsStable'
  <2>1. UNCHANGED <<url, config, alongside>>
    BY <1>10 DEF Cut, rancher
  <2>2. PICK p \in Positions : at' = [at EXCEPT ![r] = p] /\ Busy(r) /\ Leads(r, p)
    BY <1>10 DEF Cut, Goto, AfterUrl, Busy, Leads, Past, Positions
  <2> QED BY <2>1, <2>2, UrlElsewhere
<1>11. ASSUME NEW r \in Runs, Apply(r)
      PROVE  UrlIsStable'
  <2>1. UNCHANGED <<url, config, alongside>>
    BY <1>11 DEF Apply, rancher
  <2>2. PICK p \in Positions : at' = [at EXCEPT ![r] = p] /\ Busy(r) /\ Leads(r, p)
    BY <1>11 DEF Apply, Goto, AfterUrl, Busy, Leads, Past, Positions
  <2> QED BY <2>1, <2>2, UrlElsewhere
<1>12. ASSUME NEW r \in Runs, Record(r)
      PROVE  UrlIsStable'
  <2>1. UNCHANGED <<url, config, alongside>>
    BY <1>12 DEF Record, rancher
  <2>2. PICK p \in Positions : at' = [at EXCEPT ![r] = p] /\ Busy(r) /\ Leads(r, p)
    BY <1>12 DEF Record, Goto, AfterUrl, Busy, Leads, Past, Positions
  <2> QED BY <2>1, <2>2, UrlElsewhere
<1>13. ASSUME NEW r \in Runs, SaveCommand(r)
      PROVE  UrlIsStable'
  <2>1. UNCHANGED <<url, config, alongside>>
    BY <1>13 DEF SaveCommand, rancher
  <2>2. PICK p \in Positions : at' = [at EXCEPT ![r] = p] /\ Busy(r) /\ Leads(r, p)
    BY <1>13 DEF SaveCommand, Goto, AfterUrl, Busy, Leads, Past, Positions
  <2> QED BY <2>1, <2>2, UrlElsewhere
<1>14. ASSUME NEW r \in Runs, AllRegistered(r)
      PROVE  UrlIsStable'
  <2>1. UNCHANGED <<url, config, alongside>>
    BY <1>14 DEF AllRegistered, rancher
  <2>2. PICK p \in Positions : at' = [at EXCEPT ![r] = p] /\ Busy(r) /\ Leads(r, p)
    BY <1>14 DEF AllRegistered, Goto, AfterUrl, Busy, Leads, Past, Positions
  <2> QED BY <2>1, <2>2, UrlElsewhere
<1>15. ASSUME NEW r \in Runs, BatchEnds(r)
      PROVE  UrlIsStable'
  <2>1. UNCHANGED <<url, config, alongside>>
    BY <1>15 DEF BatchEnds, rancher
  <2>2. PICK p \in Positions : at' = [at EXCEPT ![r] = p] /\ Busy(r) /\ Leads(r, p)
    BY <1>15 DEF BatchEnds, Goto, AfterUrl, Busy, Leads, Past, Positions
  <2> QED BY <2>1, <2>2, UrlElsewhere
<1>16. ASSUME NEW r \in Runs, VerifyNodes(r)
      PROVE  UrlIsStable'
  <2>1. UNCHANGED <<url, config, alongside>>
    BY <1>16 DEF VerifyNodes, rancher
  <2>2. PICK p \in Positions : at' = [at EXCEPT ![r] = p] /\ Busy(r) /\ Leads(r, p)
    BY <1>16 DEF VerifyNodes, Goto, AfterUrl, Busy, Leads, Past, Positions
  <2> QED BY <2>1, <2>2, UrlElsewhere
<1>17. ASSUME NEW r \in Runs, NEW n \in Nodes, Register(r, n)
      PROVE  UrlIsStable'
  BY <1>17 DEF Register, UrlIsStable, Acquainted, UrlIsSet, UrlIsKept, Busy, Past, rancher, progress, clusters
<1>18. ASSUME NEW r \in Runs, NEW n \in Nodes, ServiceActive(r, n)
      PROVE  UrlIsStable'
  BY <1>18 DEF ServiceActive, UrlIsStable, Acquainted, UrlIsSet, UrlIsKept, Busy, Past, rancher, progress, clusters
<1>19. ASSUME NEW r \in Runs, NEW n \in Nodes, ServiceMissing(r, n)
      PROVE  UrlIsStable'
  BY <1>19 DEF ServiceMissing, UrlIsStable, Acquainted, UrlIsSet, UrlIsKept, Busy, Past, rancher, progress, clusters
<1>20. ASSUME NEW n \in Nodes, BecomesActive(n)
      PROVE  UrlIsStable'
  BY <1>20 DEF BecomesActive, UrlIsStable, Acquainted, UrlIsSet, UrlIsKept, Busy, Past, rancher, progress, clusters
<1> QED
  BY <1>1, <1>2, <1>3, <1>4, <1>5, <1>6, <1>7, <1>8, <1>9, <1>10, <1>11, <1>12, <1>13, <1>14, <1>15, <1>16, <1>17, <1>18, <1>19, <1>20 DEF Next, Token, PreparesToken, Playbook

-----------------------------------------------------------------------------
LEMMA InitialInv ==
  ASSUME Init
  PROVE  Inv
<1>1. TypeOK
  BY DEF Init, TokenInit, TypeOK, Positions
<1>2. KeepsToItsNodes
  <2>1. \A r \in Runs : Len(Batches(r)) \in Nat \ {0}
    BY <1>1, BatchesType
  <2>2. \A r \in Runs : play[r] \in 1..Len(Batches(r))
    BY <2>1 DEF Init
  <2> QED BY <2>2 DEF Init, TokenInit, KeepsToItsNodes
<1>3. FirstNodeDecides /\ UrlIsStable
  BY DEF Init, TokenInit, FirstNodeDecides, UrlIsStable, Acquainted, UrlIsSet, UrlIsKept, Busy, Past
<1> QED BY <1>1, <1>2, <1>3 DEF Inv

LEMMA Stutter ==
  ASSUME Inv, UNCHANGED vars
  PROVE  Inv'
BY DEF Inv, vars, rancher, progress, clusters, TypeOK, KeepsToItsNodes, FirstNodeDecides,
       UrlIsStable, Acquainted, UrlIsSet, UrlIsKept, Busy, Past, Wanted, Batches, First

\* The inductive invariant, for every number of runs and nodes.
THEOREM DownstreamInvariant == Spec => []Inv
<1>1. Inv /\ [Next]_vars => Inv'
  BY TypeStep, NodesStep, DecidedStep, UrlStep, Stutter DEF Inv
<1> QED BY <1>1, InitialInv, PTL DEF Spec

\* A run that succeeded with its first control plane in its own cluster has all its nodes
\* there, for good (role downstream_register, "Verify the registered node count").
THEOREM FirstNodeAlwaysDecides == Spec => []FirstNodeDecides
<1>1. Inv => FirstNodeDecides
  BY DEF Inv
<1> QED BY <1>1, DownstreamInvariant, PTL

\* The server-url a run has found or set stays, but for what a run next to it asked for
\* (ensure_server_url).
THEOREM UrlIsAlwaysKept == Spec => []UrlIsKept
<1>1. Inv => UrlIsKept
  BY DEF Inv, UrlIsStable, UrlIsKept
<1> QED BY <1>1, DownstreamInvariant, PTL

-----------------------------------------------------------------------------
(* Why a run fails.                                                        *)

\* The rest of the types.
RestOK ==
  /\ dropped \in [Runs -> SUBSET Nodes] /\ active \in [Nodes -> BOOLEAN]
  /\ kept \in [Runs -> {"nothing", "key", "both"}]
  /\ owner \in [{c.name : c \in Configs} -> {None} \cup Runs]
  /\ recorded \in [Runs -> BOOLEAN] /\ faults \in Nat

\* A run finds the server-url it has set, unless one next to it wants another.
Agreed(r) == \A q \in Runs : config[q].url = config[r].url
UrlIsAgreed ==
  \A r \in Runs :
    /\ Agreed(r) /\ (\E q \in Runs : at[q] = "put") => url \in {None, config[r].url}
    /\ at[r] = "confirm" /\ (Agreed(r) \/ ~overlap) => url = config[r].url

\* A run that was not started again keeps a token and makes its cluster once.
BeforeToken == {"idle", "ping", "read", "put", "confirm", "create", "write"}
BeforeCluster == BeforeToken \cup {"describe", "apply"}
MakesOnce ==
  faults = 0 => \A r \in Runs :
    /\ at[r] \in BeforeToken => kept[r] = "nothing"
    /\ at[r] \in BeforeCluster => \A n \in DOMAIN owner : owner[n] # r

\* The nodes of a cluster have the roles its run gave them.
RolesAreGiven ==
  \A r \in Runs, n \in Nodes :
    attached[n] # None /\ attached[n].cluster = r => attached[n].role = RoleOf(r, n)

\* A run whose nodes are free drops none: those of earlier batches are active, those of
\* its batch are registered before it waits for them.
Free(r) == \A n \in Wanted(r) : attached[n] = None \/ attached[n].cluster = r
Active(n) == attached[n] # None /\ active[n]
Proceeds(r) ==
  /\ dropped[r] = {}
  /\ at[r] \in {"register", "service"} =>
       /\ todo[r] \subseteq Batches(r)[play[r]]
       /\ \A j \in 1..(play[r] - 1) : \A n \in Batches(r)[j] : Active(n)
  /\ at[r] = "register" => \A n \in Batches(r)[play[r]] \ todo[r] : attached[n] # None
  /\ at[r] = "service" => /\ \A n \in Batches(r)[play[r]] : attached[n] # None
                          /\ \A n \in Batches(r)[play[r]] \ todo[r] : Active(n)
  /\ at[r] = "verify" => \A n \in Wanted(r) : Active(n)
Unhindered == \A r \in Runs : Free(r) => Proceeds(r)

ReasonInv == RestOK /\ UrlIsAgreed /\ MakesOnce /\ RolesAreGiven /\ Unhindered /\ FailsForAReason

\* The elements of a sequence that is put together of three.
LEMMA JoinThree ==
  ASSUME NEW S, NEW p \in Seq(S), NEW a \in Seq(S), NEW b \in Seq(S), Len(p) = 1,
         NEW q, q = (p \o a) \o b
  PROVE  /\ Len(q) = 1 + Len(a) + Len(b)
         /\ q[1] = p[1]
         /\ \A i \in 1..Len(a) : q[i + 1] = a[i]
         /\ \A i \in 1..Len(b) : q[1 + Len(a) + i] = b[i]
<1> DEFINE c == p \o a
<1>1. /\ c \in Seq(S) /\ Len(c) = Len(p) + Len(a)
      /\ \A i \in 1..(Len(p) + Len(a)) : c[i] = IF i <= Len(p) THEN p[i] ELSE a[i - Len(p)]
  BY ConcatProperties
<1> HIDE DEF c
<1>2. /\ Len(q) = Len(c) + Len(b)
      /\ \A i \in 1..(Len(c) + Len(b)) : q[i] = IF i <= Len(c) THEN c[i] ELSE b[i - Len(c)]
  <2>1. c \in Seq(S) /\ q = c \o b
    BY <1>1 DEF c
  <2> QED BY <2>1, ConcatProperties
<1>3. Len(a) \in Nat /\ Len(b) \in Nat
  OBVIOUS
<1>4. c[1] = p[1] /\ \A i \in 1..Len(a) : c[i + 1] = a[i]
  BY <1>1, <1>3
<1>5. q[1] = p[1]
  BY <1>1, <1>2, <1>3, <1>4
<1>6. \A i \in 1..Len(a) : q[i + 1] = a[i]
  BY <1>1, <1>2, <1>3, <1>4
<1>7. \A i \in 1..Len(b) : q[1 + Len(a) + i] = b[i]
  BY <1>1, <1>2, <1>3
<1> QED BY <1>1, <1>2, <1>3, <1>5, <1>6, <1>7

\* No batch is empty, and every node the run wants is in one.
LEMMA BatchesCover ==
  ASSUME TypeOK, NEW r \in Runs
  PROVE  /\ \A i \in 1..Len(Batches(r)) : Batches(r)[i] # {}
         /\ \A n \in Wanted(r) : \E i \in 1..Len(Batches(r)) : n \in Batches(r)[i]
         /\ Batches(r)[1] = {First(r), config[r].workers[1]}
<1> DEFINE cps == config[r].cps
           workers == config[r].workers
           pair == <<{cps[1], workers[1]}>>
           a == OneByOne(cps)
           b == OneByOne(workers)
           S == SUBSET Nodes
<1>1. /\ cps \in Seq(Nodes) /\ Len(cps) > 0 /\ workers \in Seq(Nodes) /\ Len(workers) > 0
  BY ConfigsAssumption DEF TypeOK
<1>2. /\ a \in Seq(S) /\ Len(a) = Len(cps) - 1 /\ \A i \in 1..Len(a) : a[i] = {cps[i + 1]}
      /\ b \in Seq(S) /\ Len(b) = Len(workers) - 1 /\ \A i \in 1..Len(b) : b[i] = {workers[i + 1]}
  <2>1. a \in Seq(S) /\ Len(a) = Len(cps) - 1 /\ \A i \in 1..Len(a) : a[i] = {cps[i + 1]}
    BY <1>1 DEF OneByOne
  <2>2. b \in Seq(S) /\ Len(b) = Len(workers) - 1 /\ \A i \in 1..Len(b) : b[i] = {workers[i + 1]}
    BY <1>1 DEF OneByOne
  <2> QED BY <2>1, <2>2
<1>3. pair \in Seq(S) /\ Len(pair) = 1 /\ pair[1] = {cps[1], workers[1]}
  BY <1>1
<1>4. Batches(r) = (pair \o a) \o b
  BY DEF Batches, First
<1>5. First(r) = cps[1] /\ Wanted(r) = Members(cps) \cup Members(workers)
  BY DEF First, Wanted
<1>6. Len(cps) \in Nat /\ Len(workers) \in Nat
  BY <1>1
<1> HIDE DEF cps, workers, pair, a, b, S
<1> DEFINE B == Batches(r)
<1>7. /\ Len(B) = 1 + Len(a) + Len(b) /\ B[1] = pair[1]
      /\ \A i \in 1..Len(a) : B[i + 1] = a[i]
      /\ \A i \in 1..Len(b) : B[1 + Len(a) + i] = b[i]
  <2>1. pair \in Seq(S) /\ a \in Seq(S) /\ b \in Seq(S) /\ Len(pair) = 1
    BY <1>2, <1>3
  <2>2. B = (pair \o a) \o b
    BY <1>4
  <2> HIDE DEF B
  <2> QED BY <2>1, <2>2, JoinThree DEF pair, a, b, S
<1> HIDE DEF B
<1>8. /\ Len(B) = Len(cps) + Len(workers) - 1
      /\ B[1] = {cps[1], workers[1]}
      /\ \A i \in 2..Len(cps) : B[i] = {cps[i]}
      /\ \A i \in 2..Len(workers) : B[Len(cps) + i - 1] = {workers[i]}
  <2>1. \A i \in 2..Len(cps) : i - 1 \in 1..Len(a) /\ (i - 1) + 1 = i
    BY <1>2, <1>6
  <2>2. \A i \in 2..Len(workers) : /\ i - 1 \in 1..Len(b) /\ (i - 1) + 1 = i
                                   /\ 1 + Len(a) + (i - 1) = Len(cps) + i - 1
    BY <1>2, <1>6
  <2>3. ASSUME NEW i \in 2..Len(cps) PROVE B[i] = {cps[i]}
    <3>1. PICK k \in 1..Len(a) : k + 1 = i
      BY <2>1
    <3>2. B[k + 1] = a[k] /\ a[k] = {cps[k + 1]}
      BY <1>2, <1>7
    <3> QED BY <3>1, <3>2
  <2>4. ASSUME NEW i \in 2..Len(workers) PROVE B[Len(cps) + i - 1] = {workers[i]}
    <3>1. PICK k \in 1..Len(b) : k + 1 = i /\ 1 + Len(a) + k = Len(cps) + i - 1
      BY <2>2
    <3>2. B[1 + Len(a) + k] = b[k] /\ b[k] = {workers[k + 1]}
      BY <1>2, <1>7
    <3> QED BY <3>1, <3>2
  <2> QED BY <2>3, <2>4, <1>2, <1>3, <1>6, <1>7
<1>9. \A i \in 1..Len(B) : B[i] # {}
  <2> SUFFICES ASSUME NEW i \in 1..Len(B) PROVE B[i] # {}
    OBVIOUS
  <2>1. i = 1 \/ i \in 2..Len(cps) \/ (i - Len(cps) + 1 \in 2..Len(workers)
                                        /\ i = Len(cps) + (i - Len(cps) + 1) - 1)
    BY <1>1, <1>6, <1>8
  <2> QED BY <1>8, <2>1
<1>10. \A n \in Wanted(r) : \E i \in 1..Len(B) : n \in B[i]
  <2>1. \A i \in 1..Len(cps) : i \in 1..Len(B) /\ cps[i] \in B[i]
    BY <1>1, <1>6, <1>8
  <2>2. \A i \in 1..Len(workers) : \E j \in 1..Len(B) : workers[i] \in B[j]
    <3> SUFFICES ASSUME NEW i \in 1..Len(workers) PROVE \E j \in 1..Len(B) : workers[i] \in B[j]
      OBVIOUS
    <3>1. CASE i = 1
      BY <3>1, <1>1, <1>6, <1>8
    <3>2. CASE i \in 2..Len(workers)
      <4>1. Len(cps) + i - 1 \in 1..Len(B)
        BY <3>2, <1>1, <1>6, <1>8
      <4> QED BY <3>2, <4>1, <1>8
    <3> QED BY <3>1, <3>2, <1>6
  <2>3. \A n \in Wanted(r) : (\E i \in 1..Len(cps) : n = cps[i]) \/ \E i \in 1..Len(workers) : n = workers[i]
    BY <1>5 DEF Members
  <2> QED BY <2>1, <2>2, <2>3
<1> QED BY <1>5, <1>8, <1>9, <1>10 DEF B, cps, workers

\* What is given stays: configurations, marks, names, registrations and active nodes.
Grows ==
  /\ config' = config /\ \A m \in Runs : alongside[m] \subseteq alongside'[m]
  /\ \A m \in Nodes : attached[m] # None => attached'[m] = attached[m]
  /\ \A m \in Nodes : active[m] => active'[m]
  /\ \A x \in DOMAIN owner : owner[x] # None => owner'[x] = owner[x]

\* Every action keeps the other variables within their values.
LEMMA RestStep ==
  ASSUME Inv, RestOK, Next
  PROVE  RestOK'
<1> USE DEF Inv
<1>1. ASSUME NEW r \in Runs, Begin(r)
      PROVE  RestOK'
  BY <1>1 DEF Begin, TypeOK, RestOK, Goto, rancher, progress, clusters
<1>2. ASSUME NEW r \in Runs, Again(r)
      PROVE  RestOK'
  BY <1>2 DEF Again, TypeOK, RestOK, Goto, rancher, progress, clusters
<1>3. ASSUME NEW r \in Runs, CheckCheckpoint(r), UNCHANGED <<progress, clusters, alongside>>
      PROVE  RestOK'
  BY <1>3 DEF CheckCheckpoint, TypeOK, RestOK, Goto, rancher, progress, clusters
<1>4. ASSUME NEW r \in Runs, ReadServerUrl(r), UNCHANGED <<progress, clusters, alongside>>
      PROVE  RestOK'
  BY <1>4 DEF ReadServerUrl, TypeOK, RestOK, Goto, rancher, progress, clusters
<1>5. ASSUME NEW r \in Runs, PutServerUrl(r), UNCHANGED <<progress, clusters, alongside>>
      PROVE  RestOK'
  BY <1>5 DEF PutServerUrl, TypeOK, RestOK, Goto, rancher, progress, clusters
<1>6. ASSUME NEW r \in Runs, ConfirmServerUrl(r), UNCHANGED <<progress, clusters, alongside>>
      PROVE  RestOK'
  BY <1>6 DEF ConfirmServerUrl, TypeOK, RestOK, Goto, rancher, progress, clusters
<1>7. ASSUME NEW r \in Runs, CreateApiToken(r), UNCHANGED <<progress, clusters, alongside>>
      PROVE  RestOK'
  BY <1>7 DEF CreateApiToken, TypeOK, RestOK, Goto, rancher, progress, clusters
<1>8. ASSUME NEW r \in Runs, WriteToken(r), UNCHANGED <<progress, clusters, alongside>>
      PROVE  RestOK'
  BY <1>8 DEF WriteToken, TypeOK, RestOK, Goto, rancher, progress, clusters
<1>9. ASSUME NEW r \in Runs, WriteMetadata(r), UNCHANGED <<progress, clusters, alongside>>
      PROVE  RestOK'
  BY <1>9 DEF WriteMetadata, TypeOK, RestOK, Goto, rancher, progress, clusters
<1>10. ASSUME NEW r \in Runs, Cut(r), UNCHANGED <<progress, clusters, alongside>>
      PROVE  RestOK'
  BY <1>10 DEF Cut, TypeOK, RestOK, Goto, rancher, progress, clusters
<1>11. ASSUME NEW r \in Runs, Apply(r)
      PROVE  RestOK'
  BY <1>11 DEF Apply, TypeOK, RestOK, Goto, rancher, progress, clusters
<1>12. ASSUME NEW r \in Runs, Record(r)
      PROVE  RestOK'
  BY <1>12 DEF Record, TypeOK, RestOK, Goto, rancher, progress, clusters
<1>13. ASSUME NEW r \in Runs, SaveCommand(r)
      PROVE  RestOK'
  BY <1>13 DEF SaveCommand, TypeOK, RestOK, Goto, rancher, progress, clusters
<1>14. ASSUME NEW r \in Runs, AllRegistered(r)
      PROVE  RestOK'
  BY <1>14 DEF AllRegistered, TypeOK, RestOK, Goto, rancher, progress, clusters
<1>15. ASSUME NEW r \in Runs, BatchEnds(r)
      PROVE  RestOK'
  BY <1>15 DEF BatchEnds, TypeOK, RestOK, Goto, rancher, progress, clusters
<1>16. ASSUME NEW r \in Runs, VerifyNodes(r)
      PROVE  RestOK'
  BY <1>16 DEF VerifyNodes, TypeOK, RestOK, Goto, rancher, progress, clusters
<1>17. ASSUME NEW r \in Runs, NEW n \in Nodes, Register(r, n)
      PROVE  RestOK'
  BY <1>17 DEF Register, TypeOK, RestOK, Goto, rancher, progress, clusters
<1>18. ASSUME NEW r \in Runs, NEW n \in Nodes, ServiceActive(r, n)
      PROVE  RestOK'
  BY <1>18 DEF ServiceActive, TypeOK, RestOK, Goto, rancher, progress, clusters
<1>19. ASSUME NEW r \in Runs, NEW n \in Nodes, ServiceMissing(r, n)
      PROVE  RestOK'
  BY <1>19 DEF ServiceMissing, TypeOK, RestOK, Goto, rancher, progress, clusters
<1>20. ASSUME NEW n \in Nodes, BecomesActive(n)
      PROVE  RestOK'
  BY <1>20 DEF BecomesActive, TypeOK, RestOK, Goto, rancher, progress, clusters
<1> QED
  BY <1>1, <1>2, <1>3, <1>4, <1>5, <1>6, <1>7, <1>8, <1>9, <1>10, <1>11, <1>12, <1>13,
     <1>14, <1>15, <1>16, <1>17, <1>18, <1>19, <1>20 DEF Next, Token, PreparesToken,
     Playbook

\* No action takes back what is given.
LEMMA GrowsStep ==
  ASSUME Inv, RestOK, Next
  PROVE  Grows
<1> USE DEF Inv
<1>1. ASSUME NEW r \in Runs, Begin(r)
      PROVE  Grows
  BY <1>1 DEF Begin, Meets, TypeOK, RestOK, Grows, Goto, rancher, progress, clusters
<1>2. ASSUME NEW r \in Runs, Again(r)
      PROVE  Grows
  BY <1>2 DEF Again, Meets, TypeOK, RestOK, Grows, Goto, rancher, progress, clusters
<1>3. ASSUME NEW r \in Runs, CheckCheckpoint(r), UNCHANGED <<progress, clusters, alongside>>
      PROVE  Grows
  BY <1>3 DEF CheckCheckpoint, TypeOK, RestOK, Grows, Goto, rancher, progress, clusters
<1>4. ASSUME NEW r \in Runs, ReadServerUrl(r), UNCHANGED <<progress, clusters, alongside>>
      PROVE  Grows
  BY <1>4 DEF ReadServerUrl, TypeOK, RestOK, Grows, Goto, rancher, progress, clusters
<1>5. ASSUME NEW r \in Runs, PutServerUrl(r), UNCHANGED <<progress, clusters, alongside>>
      PROVE  Grows
  BY <1>5 DEF PutServerUrl, TypeOK, RestOK, Grows, Goto, rancher, progress, clusters
<1>6. ASSUME NEW r \in Runs, ConfirmServerUrl(r), UNCHANGED <<progress, clusters, alongside>>
      PROVE  Grows
  BY <1>6 DEF ConfirmServerUrl, TypeOK, RestOK, Grows, Goto, rancher, progress, clusters
<1>7. ASSUME NEW r \in Runs, CreateApiToken(r), UNCHANGED <<progress, clusters, alongside>>
      PROVE  Grows
  BY <1>7 DEF CreateApiToken, TypeOK, RestOK, Grows, Goto, rancher, progress, clusters
<1>8. ASSUME NEW r \in Runs, WriteToken(r), UNCHANGED <<progress, clusters, alongside>>
      PROVE  Grows
  BY <1>8 DEF WriteToken, TypeOK, RestOK, Grows, Goto, rancher, progress, clusters
<1>9. ASSUME NEW r \in Runs, WriteMetadata(r), UNCHANGED <<progress, clusters, alongside>>
      PROVE  Grows
  BY <1>9 DEF WriteMetadata, TypeOK, RestOK, Grows, Goto, rancher, progress, clusters
<1>10. ASSUME NEW r \in Runs, Cut(r), UNCHANGED <<progress, clusters, alongside>>
      PROVE  Grows
  BY <1>10 DEF Cut, TypeOK, RestOK, Grows, Goto, rancher, progress, clusters
<1>11. ASSUME NEW r \in Runs, Apply(r)
      PROVE  Grows
  BY <1>11 DEF Apply, TypeOK, RestOK, Grows, Goto, rancher, progress, clusters
<1>12. ASSUME NEW r \in Runs, Record(r)
      PROVE  Grows
  BY <1>12 DEF Record, TypeOK, RestOK, Grows, Goto, rancher, progress, clusters
<1>13. ASSUME NEW r \in Runs, SaveCommand(r)
      PROVE  Grows
  BY <1>13 DEF SaveCommand, TypeOK, RestOK, Grows, Goto, rancher, progress, clusters
<1>14. ASSUME NEW r \in Runs, AllRegistered(r)
      PROVE  Grows
  BY <1>14 DEF AllRegistered, TypeOK, RestOK, Grows, Goto, rancher, progress, clusters
<1>15. ASSUME NEW r \in Runs, BatchEnds(r)
      PROVE  Grows
  BY <1>15 DEF BatchEnds, TypeOK, RestOK, Grows, Goto, rancher, progress, clusters
<1>16. ASSUME NEW r \in Runs, VerifyNodes(r)
      PROVE  Grows
  BY <1>16 DEF VerifyNodes, TypeOK, RestOK, Grows, Goto, rancher, progress, clusters
<1>17. ASSUME NEW r \in Runs, NEW n \in Nodes, Register(r, n)
      PROVE  Grows
  BY <1>17 DEF Register, TypeOK, RestOK, Grows, Goto, rancher, progress, clusters
<1>18. ASSUME NEW r \in Runs, NEW n \in Nodes, ServiceActive(r, n)
      PROVE  Grows
  BY <1>18 DEF ServiceActive, TypeOK, RestOK, Grows, Goto, rancher, progress, clusters
<1>19. ASSUME NEW r \in Runs, NEW n \in Nodes, ServiceMissing(r, n)
      PROVE  Grows
  BY <1>19 DEF ServiceMissing, TypeOK, RestOK, Grows, Goto, rancher, progress, clusters
<1>20. ASSUME NEW n \in Nodes, BecomesActive(n)
      PROVE  Grows
  BY <1>20 DEF BecomesActive, TypeOK, RestOK, Grows, Goto, rancher, progress, clusters
<1> QED
  BY <1>1, <1>2, <1>3, <1>4, <1>5, <1>6, <1>7, <1>8, <1>9, <1>10, <1>11, <1>12, <1>13,
     <1>14, <1>15, <1>16, <1>17, <1>18, <1>19, <1>20 DEF Next, Token, PreparesToken,
     Playbook

LEMMA FaultsStay ==
  ASSUME RestOK, Next, faults' = 0
  PROVE  faults = 0
<1>1. faults' = faults \/ faults' = faults + 1
  BY DEF Next, Token, PreparesToken, Playbook, Begin, CheckCheckpoint, ReadServerUrl, PutServerUrl,
    ConfirmServerUrl, CreateApiToken, WriteToken, WriteMetadata, Cut, Again, Apply, Record,
    SaveCommand, AllRegistered, BatchEnds, VerifyNodes, Register, ServiceActive, ServiceMissing,
    BecomesActive
<1> QED BY <1>1 DEF RestOK

\* Only one action changes the server-url.
LEMMA UrlMoves ==
  ASSUME Inv, Next
  PROVE  \/ /\ url' = url
            /\ \A q \in Runs : /\ at'[q] = "confirm" => at[q] = "confirm"
                               /\ at'[q] = "put" => at[q] = "put" \/ url = None
         \/ \E q \in Runs : at[q] = "put" /\ at' = [at EXCEPT ![q] = "confirm"] /\ url' = config[q].url
BY DEF Inv, TypeOK, Next, Token, PreparesToken, Playbook, Begin, CheckCheckpoint, ReadServerUrl, PutServerUrl,
  ConfirmServerUrl, CreateApiToken, WriteToken, WriteMetadata, Cut, Again, Apply, Record,
  SaveCommand, AllRegistered, BatchEnds, VerifyNodes, Register, ServiceActive, ServiceMissing,
  BecomesActive, rancher, Goto, AfterUrl

\* What a run puts is what all that agree with it want.
LEMMA AgreedStep ==
  ASSUME Inv, UrlIsAgreed, Grows, Next
  PROVE  UrlIsAgreed'
<1>1. config' = config /\ (overlap => overlap')
  BY DEF Grows, overlap
<1>2. \A r \in Runs : Agreed(r)' = Agreed(r)
  BY <1>1 DEF Agreed
<1>3. CASE /\ url' = url
           /\ \A q \in Runs : /\ at'[q] = "confirm" => at[q] = "confirm"
                              /\ at'[q] = "put" => at[q] = "put" \/ url = None
  BY <1>1, <1>2, <1>3 DEF UrlIsAgreed
<1>4. ASSUME NEW q \in Runs, at[q] = "put", at' = [at EXCEPT ![q] = "confirm"], url' = config[q].url
      PROVE  UrlIsAgreed'
  <2>1. ASSUME NEW r \in Runs, Agreed(r)
        PROVE  url' = config[r].url
    BY <1>4, <2>1 DEF Agreed
  <2>2. ASSUME NEW r \in Runs, at'[r] = "confirm", r # q
        PROVE  overlap
    <3>1. at[r] = "confirm"
      BY <1>4, <2>2 DEF Inv, TypeOK
    <3>2. q \in alongside[r]
      BY <1>4, <2>2, <3>1 DEF Inv, UrlIsStable, Acquainted, Busy
    <3> QED BY <3>2 DEF overlap
  <2> QED BY <1>1, <1>2, <1>4, <2>1, <2>2 DEF UrlIsAgreed
<1> QED BY <1>3, <1>4, UrlMoves

\* Without a fault a run does nothing again.
LEMMA OnceStep ==
  ASSUME Inv, RestOK, MakesOnce, faults' = 0, faults = 0, Next
  PROVE  MakesOnce'
<1> USE DEF Inv
<1>1. ASSUME NEW r \in Runs, Begin(r)
      PROVE  MakesOnce'
  BY <1>1 DEF Begin, TypeOK, RestOK, MakesOnce, BeforeToken, BeforeCluster, Goto, AfterUrl, rancher, progress, clusters
<1>2. ASSUME NEW r \in Runs, Again(r)
      PROVE  MakesOnce'
  BY <1>2 DEF Again, TypeOK, RestOK, MakesOnce, BeforeToken, BeforeCluster, Goto, AfterUrl, rancher, progress, clusters
<1>3. ASSUME NEW r \in Runs, CheckCheckpoint(r), UNCHANGED <<progress, clusters, alongside>>
      PROVE  MakesOnce'
  BY <1>3 DEF CheckCheckpoint, TypeOK, RestOK, MakesOnce, BeforeToken, BeforeCluster, Goto, AfterUrl, rancher, progress, clusters
<1>4. ASSUME NEW r \in Runs, ReadServerUrl(r), UNCHANGED <<progress, clusters, alongside>>
      PROVE  MakesOnce'
  BY <1>4 DEF ReadServerUrl, TypeOK, RestOK, MakesOnce, BeforeToken, BeforeCluster, Goto, AfterUrl, rancher, progress, clusters
<1>5. ASSUME NEW r \in Runs, PutServerUrl(r), UNCHANGED <<progress, clusters, alongside>>
      PROVE  MakesOnce'
  BY <1>5 DEF PutServerUrl, TypeOK, RestOK, MakesOnce, BeforeToken, BeforeCluster, Goto, AfterUrl, rancher, progress, clusters
<1>6. ASSUME NEW r \in Runs, ConfirmServerUrl(r), UNCHANGED <<progress, clusters, alongside>>
      PROVE  MakesOnce'
  BY <1>6 DEF ConfirmServerUrl, TypeOK, RestOK, MakesOnce, BeforeToken, BeforeCluster, Goto, AfterUrl, rancher, progress, clusters
<1>7. ASSUME NEW r \in Runs, CreateApiToken(r), UNCHANGED <<progress, clusters, alongside>>
      PROVE  MakesOnce'
  BY <1>7 DEF CreateApiToken, TypeOK, RestOK, MakesOnce, BeforeToken, BeforeCluster, Goto, AfterUrl, rancher, progress, clusters
<1>8. ASSUME NEW r \in Runs, WriteToken(r), UNCHANGED <<progress, clusters, alongside>>
      PROVE  MakesOnce'
  BY <1>8 DEF WriteToken, TypeOK, RestOK, MakesOnce, BeforeToken, BeforeCluster, Goto, AfterUrl, rancher, progress, clusters
<1>9. ASSUME NEW r \in Runs, WriteMetadata(r), UNCHANGED <<progress, clusters, alongside>>
      PROVE  MakesOnce'
  BY <1>9 DEF WriteMetadata, TypeOK, RestOK, MakesOnce, BeforeToken, BeforeCluster, Goto, AfterUrl, rancher, progress, clusters
<1>10. ASSUME NEW r \in Runs, Cut(r), UNCHANGED <<progress, clusters, alongside>>
      PROVE  MakesOnce'
  BY <1>10 DEF Cut, TypeOK, RestOK, MakesOnce, BeforeToken, BeforeCluster, Goto, AfterUrl, rancher, progress, clusters
<1>11. ASSUME NEW r \in Runs, Apply(r)
      PROVE  MakesOnce'
  BY <1>11 DEF Apply, TypeOK, RestOK, MakesOnce, BeforeToken, BeforeCluster, Goto, AfterUrl, rancher, progress, clusters
<1>12. ASSUME NEW r \in Runs, Record(r)
      PROVE  MakesOnce'
  BY <1>12 DEF Record, TypeOK, RestOK, MakesOnce, BeforeToken, BeforeCluster, Goto, AfterUrl, rancher, progress, clusters
<1>13. ASSUME NEW r \in Runs, SaveCommand(r)
      PROVE  MakesOnce'
  BY <1>13 DEF SaveCommand, TypeOK, RestOK, MakesOnce, BeforeToken, BeforeCluster, Goto, AfterUrl, rancher, progress, clusters
<1>14. ASSUME NEW r \in Runs, AllRegistered(r)
      PROVE  MakesOnce'
  BY <1>14 DEF AllRegistered, TypeOK, RestOK, MakesOnce, BeforeToken, BeforeCluster, Goto, AfterUrl, rancher, progress, clusters
<1>15. ASSUME NEW r \in Runs, BatchEnds(r)
      PROVE  MakesOnce'
  BY <1>15 DEF BatchEnds, TypeOK, RestOK, MakesOnce, BeforeToken, BeforeCluster, Goto, AfterUrl, rancher, progress, clusters
<1>16. ASSUME NEW r \in Runs, VerifyNodes(r)
      PROVE  MakesOnce'
  BY <1>16 DEF VerifyNodes, TypeOK, RestOK, MakesOnce, BeforeToken, BeforeCluster, Goto, AfterUrl, rancher, progress, clusters
<1>17. ASSUME NEW r \in Runs, NEW n \in Nodes, Register(r, n)
      PROVE  MakesOnce'
  BY <1>17 DEF Register, TypeOK, RestOK, MakesOnce, BeforeToken, BeforeCluster, Goto, AfterUrl, rancher, progress, clusters
<1>18. ASSUME NEW r \in Runs, NEW n \in Nodes, ServiceActive(r, n)
      PROVE  MakesOnce'
  BY <1>18 DEF ServiceActive, TypeOK, RestOK, MakesOnce, BeforeToken, BeforeCluster, Goto, AfterUrl, rancher, progress, clusters
<1>19. ASSUME NEW r \in Runs, NEW n \in Nodes, ServiceMissing(r, n)
      PROVE  MakesOnce'
  BY <1>19 DEF ServiceMissing, TypeOK, RestOK, MakesOnce, BeforeToken, BeforeCluster, Goto, AfterUrl, rancher, progress, clusters
<1>20. ASSUME NEW n \in Nodes, BecomesActive(n)
      PROVE  MakesOnce'
  BY <1>20 DEF BecomesActive, TypeOK, RestOK, MakesOnce, BeforeToken, BeforeCluster, Goto, AfterUrl, rancher, progress, clusters
<1> QED
  BY <1>1, <1>2, <1>3, <1>4, <1>5, <1>6, <1>7, <1>8, <1>9, <1>10, <1>11, <1>12, <1>13,
     <1>14, <1>15, <1>16, <1>17, <1>18, <1>19, <1>20 DEF Next, Token, PreparesToken,
     Playbook

\* A registration gives the role of the configuration.
LEMMA RolesStep ==
  ASSUME Inv, RolesAreGiven, Next
  PROVE  RolesAreGiven'
<1> USE DEF Inv
<1>1. ASSUME NEW r \in Runs, Begin(r)
      PROVE  RolesAreGiven'
  BY <1>1 DEF Begin, TypeOK, RolesAreGiven, RoleOf, Goto, rancher, progress, clusters
<1>2. ASSUME NEW r \in Runs, Again(r)
      PROVE  RolesAreGiven'
  BY <1>2 DEF Again, TypeOK, RolesAreGiven, RoleOf, Goto, rancher, progress, clusters
<1>3. ASSUME NEW r \in Runs, CheckCheckpoint(r), UNCHANGED <<progress, clusters, alongside>>
      PROVE  RolesAreGiven'
  BY <1>3 DEF CheckCheckpoint, TypeOK, RolesAreGiven, RoleOf, Goto, rancher, progress, clusters
<1>4. ASSUME NEW r \in Runs, ReadServerUrl(r), UNCHANGED <<progress, clusters, alongside>>
      PROVE  RolesAreGiven'
  BY <1>4 DEF ReadServerUrl, TypeOK, RolesAreGiven, RoleOf, Goto, rancher, progress, clusters
<1>5. ASSUME NEW r \in Runs, PutServerUrl(r), UNCHANGED <<progress, clusters, alongside>>
      PROVE  RolesAreGiven'
  BY <1>5 DEF PutServerUrl, TypeOK, RolesAreGiven, RoleOf, Goto, rancher, progress, clusters
<1>6. ASSUME NEW r \in Runs, ConfirmServerUrl(r), UNCHANGED <<progress, clusters, alongside>>
      PROVE  RolesAreGiven'
  BY <1>6 DEF ConfirmServerUrl, TypeOK, RolesAreGiven, RoleOf, Goto, rancher, progress, clusters
<1>7. ASSUME NEW r \in Runs, CreateApiToken(r), UNCHANGED <<progress, clusters, alongside>>
      PROVE  RolesAreGiven'
  BY <1>7 DEF CreateApiToken, TypeOK, RolesAreGiven, RoleOf, Goto, rancher, progress, clusters
<1>8. ASSUME NEW r \in Runs, WriteToken(r), UNCHANGED <<progress, clusters, alongside>>
      PROVE  RolesAreGiven'
  BY <1>8 DEF WriteToken, TypeOK, RolesAreGiven, RoleOf, Goto, rancher, progress, clusters
<1>9. ASSUME NEW r \in Runs, WriteMetadata(r), UNCHANGED <<progress, clusters, alongside>>
      PROVE  RolesAreGiven'
  BY <1>9 DEF WriteMetadata, TypeOK, RolesAreGiven, RoleOf, Goto, rancher, progress, clusters
<1>10. ASSUME NEW r \in Runs, Cut(r), UNCHANGED <<progress, clusters, alongside>>
      PROVE  RolesAreGiven'
  BY <1>10 DEF Cut, TypeOK, RolesAreGiven, RoleOf, Goto, rancher, progress, clusters
<1>11. ASSUME NEW r \in Runs, Apply(r)
      PROVE  RolesAreGiven'
  BY <1>11 DEF Apply, TypeOK, RolesAreGiven, RoleOf, Goto, rancher, progress, clusters
<1>12. ASSUME NEW r \in Runs, Record(r)
      PROVE  RolesAreGiven'
  BY <1>12 DEF Record, TypeOK, RolesAreGiven, RoleOf, Goto, rancher, progress, clusters
<1>13. ASSUME NEW r \in Runs, SaveCommand(r)
      PROVE  RolesAreGiven'
  BY <1>13 DEF SaveCommand, TypeOK, RolesAreGiven, RoleOf, Goto, rancher, progress, clusters
<1>14. ASSUME NEW r \in Runs, AllRegistered(r)
      PROVE  RolesAreGiven'
  BY <1>14 DEF AllRegistered, TypeOK, RolesAreGiven, RoleOf, Goto, rancher, progress, clusters
<1>15. ASSUME NEW r \in Runs, BatchEnds(r)
      PROVE  RolesAreGiven'
  BY <1>15 DEF BatchEnds, TypeOK, RolesAreGiven, RoleOf, Goto, rancher, progress, clusters
<1>16. ASSUME NEW r \in Runs, VerifyNodes(r)
      PROVE  RolesAreGiven'
  BY <1>16 DEF VerifyNodes, TypeOK, RolesAreGiven, RoleOf, Goto, rancher, progress, clusters
<1>17. ASSUME NEW r \in Runs, NEW n \in Nodes, Register(r, n)
      PROVE  RolesAreGiven'
  BY <1>17 DEF Register, TypeOK, RolesAreGiven, RoleOf, Goto, rancher, progress, clusters
<1>18. ASSUME NEW r \in Runs, NEW n \in Nodes, ServiceActive(r, n)
      PROVE  RolesAreGiven'
  BY <1>18 DEF ServiceActive, TypeOK, RolesAreGiven, RoleOf, Goto, rancher, progress, clusters
<1>19. ASSUME NEW r \in Runs, NEW n \in Nodes, ServiceMissing(r, n)
      PROVE  RolesAreGiven'
  BY <1>19 DEF ServiceMissing, TypeOK, RolesAreGiven, RoleOf, Goto, rancher, progress, clusters
<1>20. ASSUME NEW n \in Nodes, BecomesActive(n)
      PROVE  RolesAreGiven'
  BY <1>20 DEF BecomesActive, TypeOK, RolesAreGiven, RoleOf, Goto, rancher, progress, clusters
<1> QED
  BY <1>1, <1>2, <1>3, <1>4, <1>5, <1>6, <1>7, <1>8, <1>9, <1>10, <1>11, <1>12, <1>13,
     <1>14, <1>15, <1>16, <1>17, <1>18, <1>19, <1>20 DEF Next, Token, PreparesToken,
     Playbook

\* A run that does not move on with its playbook loses nothing.
Playing == {"register", "service", "verify"}
Quiet(q) ==
  /\ todo'[q] = todo[q] /\ play'[q] = play[q] /\ dropped'[q] = dropped[q]
  /\ at'[q] = at[q] \/ at'[q] \notin Playing
AllProceed == \A q \in Runs : Free(q) => Proceeds(q)

\* What every action leaves of a free run, and of its batches.
LEMMA StaysFree ==
  ASSUME Inv, Grows, NEW q \in Runs
  PROVE  /\ Batches(q)' = Batches(q) /\ Wanted(q)' = Wanted(q) /\ play[q] \in 1..Len(Batches(q))
         /\ Wanted(q) \subseteq Nodes /\ todo[q] \subseteq Wanted(q)
         /\ \A i \in 1..Len(Batches(q)) : Batches(q)[i] \subseteq Wanted(q)
         /\ Len(Batches(q)) \in Nat \ {0}
         /\ Free(q)' => Free(q)
         /\ \A n \in Nodes : Active(n) => Active(n)'
<1>1. Batches(q)' = Batches(q) /\ Wanted(q)' = Wanted(q)
  BY Fixed DEF Grows
<1>2. /\ Len(Batches(q)) \in Nat \ {0} /\ Wanted(q) \subseteq Nodes
      /\ \A i \in 1..Len(Batches(q)) : Batches(q)[i] \subseteq Wanted(q)
  BY BatchesType DEF Inv
<1>3. play[q] \in 1..Len(Batches(q)) /\ todo[q] \subseteq Wanted(q)
  BY DEF Inv, KeepsToItsNodes
<1>4. \A n \in Nodes : Active(n) => Active(n)'
  BY DEF Active, Grows
<1>5. Free(q)' => Free(q)
  <2> SUFFICES ASSUME Free(q)', NEW n \in Wanted(q), attached[n] # None
               PROVE  attached[n].cluster = q
    BY DEF Free
  <2>1. n \in Nodes /\ attached'[n] = attached[n]
    BY <1>2 DEF Grows
  <2>2. attached'[n] = None \/ attached'[n].cluster = q
    BY <1>1 DEF Free
  <2> QED BY <2>1, <2>2
<1> QED BY <1>1, <1>2, <1>3, <1>4, <1>5

LEMMA Elsewhere ==
  ASSUME Inv, Grows, AllProceed, NEW q \in Runs, Quiet(q), Free(q)'
  PROVE  Proceeds(q)'
<1>1. Proceeds(q)
  BY StaysFree DEF AllProceed
<1>2. dropped'[q] = {}
  BY <1>1 DEF Proceeds, Quiet
<1>3. CASE at'[q] \notin Playing
  BY <1>2, <1>3 DEF Proceeds, Playing
<1>4. CASE at'[q] = at[q] /\ at[q] \in Playing
  <2> DEFINE B == Batches(q)
  <2>1. /\ Batches(q)' = B /\ Wanted(q)' = Wanted(q) /\ play'[q] = play[q] /\ todo'[q] = todo[q]
        /\ play[q] \in 1..Len(B) /\ Len(B) \in Nat
    BY StaysFree DEF Quiet
  <2>2. /\ \A n \in Wanted(q) : n \in Nodes
        /\ \A i \in 1..Len(B) : \A n \in B[i] : n \in Nodes
        /\ \A n \in Nodes : Active(n) => Active(n)'
        /\ \A n \in Nodes : attached[n] # None => attached'[n] # None
    BY StaysFree DEF Grows
  <2>3. \A j \in 1..(play[q] - 1) : j \in 1..Len(B)
    BY <2>1
  <2> HIDE DEF B
  <2>4. at[q] \in {"register", "service"} =>
          /\ todo[q] \subseteq B[play[q]]
          /\ \A j \in 1..(play[q] - 1) : \A n \in B[j] : Active(n)'
    BY <1>1, <2>2, <2>3 DEF Proceeds, B
  <2>5. at[q] = "register" => \A n \in B[play[q]] \ todo[q] : attached'[n] # None
    BY <1>1, <2>1, <2>2 DEF Proceeds, B
  <2>6. at[q] = "service" => /\ \A n \in B[play[q]] : attached'[n] # None
                             /\ \A n \in B[play[q]] \ todo[q] : Active(n)'
    BY <1>1, <2>1, <2>2 DEF Proceeds, B
  <2>7. at[q] = "verify" => \A n \in Wanted(q) : Active(n)'
    BY <1>1, <2>2 DEF Proceeds
  <2> QED BY <1>2, <1>4, <2>1, <2>4, <2>5, <2>6, <2>7 DEF Proceeds
<1> QED BY <1>3, <1>4 DEF Quiet

\* A free run waits for no service in vain: its cluster has both roles from the first batch.
LEMMA NoneMissing ==
  ASSUME Inv, RestOK, RolesAreGiven, NEW r \in Runs, NEW n \in Nodes, Free(r), Proceeds(r),
         ServiceMissing(r, n)
  PROVE  FALSE
<1> DEFINE f == First(r)
           w == config[r].workers[1]
<1>1. at[r] = "service" /\ n \in todo[r] /\ ~Pending(n) /\ (active[n] => attached[n].role # RoleOf(r, n))
  BY DEF ServiceMissing
<1>2. /\ Len(Batches(r)) \in Nat \ {0} /\ Wanted(r) \subseteq Nodes
      /\ \A i \in 1..Len(Batches(r)) : Batches(r)[i] \subseteq Wanted(r)
      /\ play[r] \in 1..Len(Batches(r)) /\ Batches(r)[1] = {f, w}
  BY BatchesType, BatchesCover DEF Inv, KeepsToItsNodes
<1>3. n \in Batches(r)[play[r]] /\ n \in Wanted(r)
  BY <1>1, <1>2 DEF Proceeds
<1>4. attached[n] # None /\ attached[n].cluster = r
  BY <1>1, <1>3 DEF Proceeds, Free
<1>5. attached[n].role = RoleOf(r, n) /\ ~active[n]
  BY <1>1, <1>4 DEF RolesAreGiven
<1>6. \A m \in {f, w} : m \in Nodes /\ attached[m] # None /\ attached[m].cluster = r
  <2>1. \A m \in {f, w} : m \in Wanted(r)
    BY <1>2
  <2>2. \A m \in {f, w} : attached[m] # None
    <3>1. CASE play[r] = 1
      BY <3>1, <1>1, <1>2 DEF Proceeds
    <3>2. CASE play[r] > 1
      <4>1. 1 \in 1..(play[r] - 1)
        BY <3>2, <1>2
      <4> QED BY <4>1, <1>1, <1>2 DEF Proceeds, Active
    <3> QED BY <3>1, <3>2, <1>2
  <2> QED BY <2>1, <2>2, <1>2 DEF Free
<1>7. RoleOf(r, f) = "controlplane" /\ RoleOf(r, w) = "worker"
  <2>1. /\ Len(config[r].cps) > 0 /\ Len(config[r].workers) > 0
        /\ config[r].cps \in Seq(Nodes) /\ config[r].workers \in Seq(Nodes)
        /\ Members(config[r].cps) \cap Members(config[r].workers) = {}
    BY ConfigsAssumption DEF Inv, TypeOK
  <2>2. f \in Members(config[r].cps) /\ w \in Members(config[r].workers)
    BY <2>1 DEF Members, First
  <2> QED BY <2>1, <2>2 DEF RoleOf
<1>8. attached[f].role = "controlplane" /\ attached[w].role = "worker"
  BY <1>6, <1>7 DEF RolesAreGiven
<1>9. f \in In(r) /\ w \in In(r)
  BY <1>6 DEF In
<1>10. \A m \in In(r) : attached[m].role \in {"controlplane", "worker"}
  BY DEF In, Inv, TypeOK, Memberships
<1>11. Complete(r)
  BY <1>8, <1>9, <1>10 DEF Complete
<1> QED BY <1>1, <1>4, <1>5, <1>11 DEF Pending

\* Nor does it fail between two batches.
LEMMA BatchEndsWell ==
  ASSUME Inv, RestOK, Grows, NEW r \in Runs, Free(r), Proceeds(r), BatchEnds(r)
  PROVE  at'[r] # "failed" /\ Proceeds(r)'
<1> DEFINE B == Batches(r)
           i == play[r]
<1>1. /\ Len(B) \in Nat \ {0} /\ Wanted(r) \subseteq Nodes /\ i \in 1..Len(B)
      /\ \A k \in 1..Len(B) : B[k] # {} /\ B[k] \subseteq Wanted(r)
      /\ \A n \in Wanted(r) : \E k \in 1..Len(B) : n \in B[k]
  BY BatchesType, BatchesCover DEF Inv, KeepsToItsNodes
<1>2. Batches(r)' = B /\ Wanted(r)' = Wanted(r) /\ \A n \in Nodes : Active(n) => Active(n)'
  BY StaysFree
<1> HIDE DEF B
<1>3. at[r] = "service" /\ todo[r] = {} /\ dropped[r] = {}
  BY DEF BatchEnds, Proceeds
<1>4. \A k \in 1..i : \A n \in B[k] : Active(n)
  <2>1. \A n \in B[i] : Active(n)
    BY <1>3 DEF Proceeds, B
  <2>2. \A k \in 1..(i - 1) : \A n \in B[k] : Active(n)
    BY <1>3 DEF Proceeds, B
  <2>3. \A k \in 1..i : k = i \/ k \in 1..(i - 1)
    BY <1>1
  <2> QED BY <2>1, <2>2, <2>3
<1>5. ~(B[i] \subseteq dropped[r] \/ (~(i < Len(B)) /\ First(r) \in dropped[r]))
  BY <1>1, <1>3
<1>6. CASE i < Len(B)
  <2>1. /\ play' = [play EXCEPT ![r] = i + 1] /\ todo' = [todo EXCEPT ![r] = B[i + 1]]
        /\ at' = [at EXCEPT ![r] = "register"] /\ dropped' = dropped
    BY <1>5, <1>6 DEF BatchEnds, Goto, B
  <2>2. /\ play'[r] = i + 1 /\ todo'[r] = B[i + 1] /\ at'[r] = "register" /\ dropped'[r] = {}
    BY <2>1, <1>3 DEF Inv, TypeOK
  <2>3. \A k \in 1..(play'[r] - 1) : \A n \in B[k] : Active(n)'
    <3>1. \A k \in 1..(play'[r] - 1) : k \in 1..i /\ k \in 1..Len(B)
      BY <1>1, <2>2
    <3> QED BY <3>1, <1>1, <1>2, <1>4
  <2> QED BY <1>2, <2>2, <2>3 DEF Proceeds
<1>7. CASE ~(i < Len(B))
  <2>1. at' = [at EXCEPT ![r] = "verify"] /\ dropped' = dropped
    BY <1>5, <1>7 DEF BatchEnds, Goto, progress, B
  <2>2. at'[r] = "verify" /\ dropped'[r] = {}
    BY <2>1, <1>3 DEF Inv, TypeOK
  <2>3. \A n \in Wanted(r) : Active(n)'
    <3>1. i = Len(B)
      BY <1>1, <1>7
    <3> QED BY <3>1, <1>1, <1>2, <1>4
  <2> QED BY <1>2, <2>2, <2>3 DEF Proceeds
<1> QED BY <1>6, <1>7

\* A free run goes through its batches.
LEMMA ProceedStep ==
  ASSUME Inv, RestOK, RolesAreGiven, Grows, AllProceed, Next
  PROVE  AllProceed'
<1>1. ASSUME NEW r \in Runs, Begin(r)
      PROVE  AllProceed'
  <2>1. \A q \in Runs : Quiet(q)
    BY <1>1 DEF Begin, Quiet, Playing, Inv, TypeOK, RestOK, Goto, AfterUrl, rancher, progress, clusters
  <2> QED BY <2>1, Elsewhere DEF AllProceed
<1>2. ASSUME NEW r \in Runs, Again(r)
      PROVE  AllProceed'
  <2>1. \A q \in Runs : Quiet(q)
    BY <1>2 DEF Again, Quiet, Playing, Inv, TypeOK, RestOK, Goto, AfterUrl, rancher, progress, clusters
  <2> QED BY <2>1, Elsewhere DEF AllProceed
<1>3. ASSUME NEW r \in Runs, CheckCheckpoint(r), UNCHANGED <<progress, clusters, alongside>>
      PROVE  AllProceed'
  <2>1. \A q \in Runs : Quiet(q)
    BY <1>3 DEF CheckCheckpoint, Quiet, Playing, Inv, TypeOK, RestOK, Goto, AfterUrl, rancher, progress, clusters
  <2> QED BY <2>1, Elsewhere DEF AllProceed
<1>4. ASSUME NEW r \in Runs, ReadServerUrl(r), UNCHANGED <<progress, clusters, alongside>>
      PROVE  AllProceed'
  <2>1. \A q \in Runs : Quiet(q)
    BY <1>4 DEF ReadServerUrl, Quiet, Playing, Inv, TypeOK, RestOK, Goto, AfterUrl, rancher, progress, clusters
  <2> QED BY <2>1, Elsewhere DEF AllProceed
<1>5. ASSUME NEW r \in Runs, PutServerUrl(r), UNCHANGED <<progress, clusters, alongside>>
      PROVE  AllProceed'
  <2>1. \A q \in Runs : Quiet(q)
    BY <1>5 DEF PutServerUrl, Quiet, Playing, Inv, TypeOK, RestOK, Goto, AfterUrl, rancher, progress, clusters
  <2> QED BY <2>1, Elsewhere DEF AllProceed
<1>6. ASSUME NEW r \in Runs, ConfirmServerUrl(r), UNCHANGED <<progress, clusters, alongside>>
      PROVE  AllProceed'
  <2>1. \A q \in Runs : Quiet(q)
    BY <1>6 DEF ConfirmServerUrl, Quiet, Playing, Inv, TypeOK, RestOK, Goto, AfterUrl, rancher, progress, clusters
  <2> QED BY <2>1, Elsewhere DEF AllProceed
<1>7. ASSUME NEW r \in Runs, CreateApiToken(r), UNCHANGED <<progress, clusters, alongside>>
      PROVE  AllProceed'
  <2>1. \A q \in Runs : Quiet(q)
    BY <1>7 DEF CreateApiToken, Quiet, Playing, Inv, TypeOK, RestOK, Goto, AfterUrl, rancher, progress, clusters
  <2> QED BY <2>1, Elsewhere DEF AllProceed
<1>8. ASSUME NEW r \in Runs, WriteToken(r), UNCHANGED <<progress, clusters, alongside>>
      PROVE  AllProceed'
  <2>1. \A q \in Runs : Quiet(q)
    BY <1>8 DEF WriteToken, Quiet, Playing, Inv, TypeOK, RestOK, Goto, AfterUrl, rancher, progress, clusters
  <2> QED BY <2>1, Elsewhere DEF AllProceed
<1>9. ASSUME NEW r \in Runs, WriteMetadata(r), UNCHANGED <<progress, clusters, alongside>>
      PROVE  AllProceed'
  <2>1. \A q \in Runs : Quiet(q)
    BY <1>9 DEF WriteMetadata, Quiet, Playing, Inv, TypeOK, RestOK, Goto, AfterUrl, rancher, progress, clusters
  <2> QED BY <2>1, Elsewhere DEF AllProceed
<1>10. ASSUME NEW r \in Runs, Cut(r), UNCHANGED <<progress, clusters, alongside>>
      PROVE  AllProceed'
  <2>1. \A q \in Runs : Quiet(q)
    BY <1>10 DEF Cut, Quiet, Playing, Inv, TypeOK, RestOK, Goto, AfterUrl, rancher, progress, clusters
  <2> QED BY <2>1, Elsewhere DEF AllProceed
<1>11. ASSUME NEW r \in Runs, Apply(r)
      PROVE  AllProceed'
  <2>1. \A q \in Runs : Quiet(q)
    BY <1>11 DEF Apply, Quiet, Playing, Inv, TypeOK, RestOK, Goto, AfterUrl, rancher, progress, clusters
  <2> QED BY <2>1, Elsewhere DEF AllProceed
<1>12. ASSUME NEW r \in Runs, Record(r)
      PROVE  AllProceed'
  <2>1. \A q \in Runs : Quiet(q)
    BY <1>12 DEF Record, Quiet, Playing, Inv, TypeOK, RestOK, Goto, AfterUrl, rancher, progress, clusters
  <2> QED BY <2>1, Elsewhere DEF AllProceed
<1>13. ASSUME NEW r \in Runs, SaveCommand(r)
      PROVE  AllProceed'
  <2>1. \A q \in Runs : q # r => Quiet(q)
    BY <1>13 DEF SaveCommand, Quiet, Playing, Inv, TypeOK, RestOK, Goto, rancher, progress, clusters
  <2>2. ASSUME Free(r)' PROVE Proceeds(r)'
    <3>1. Free(r) /\ Proceeds(r)
      BY <2>2, StaysFree DEF AllProceed
    <3> DEFINE B == Batches(r)
    <3>2. /\ Batches(r)' = B /\ Len(B) \in Nat \ {0} /\ Wanted(r) \subseteq Nodes
          /\ play[r] \in 1..Len(B) /\ \A k \in 1..Len(B) : B[k] \subseteq Nodes
          /\ \A m \in Nodes : Active(m) => Active(m)'
          /\ \A m \in Nodes : attached[m] # None => attached'[m] # None
          /\ \A k \in 1..(play[r] - 1) : k \in 1..Len(B)
      BY StaysFree DEF Grows
    <3>3. at'[r] = "register" /\ play'[r] = 1 /\ todo'[r] = B[1] /\ dropped'[r] = {}
      BY <1>13 DEF SaveCommand, Inv, TypeOK, RestOK, Goto
    <3> QED BY <3>2, <3>3 DEF Proceeds
  <2> QED BY <2>1, <2>2, Elsewhere DEF AllProceed
<1>14. ASSUME NEW r \in Runs, AllRegistered(r)
      PROVE  AllProceed'
  <2>1. \A q \in Runs : q # r => Quiet(q)
    BY <1>14 DEF AllRegistered, Quiet, Playing, Inv, TypeOK, RestOK, Goto, rancher, progress, clusters
  <2>2. ASSUME Free(r)' PROVE Proceeds(r)'
    <3>1. Free(r) /\ Proceeds(r)
      BY <2>2, StaysFree DEF AllProceed
    <3> DEFINE B == Batches(r)
    <3>2. /\ Batches(r)' = B /\ Len(B) \in Nat \ {0} /\ Wanted(r) \subseteq Nodes
          /\ play[r] \in 1..Len(B) /\ \A k \in 1..Len(B) : B[k] \subseteq Nodes
          /\ \A m \in Nodes : Active(m) => Active(m)'
          /\ \A m \in Nodes : attached[m] # None => attached'[m] # None
          /\ \A k \in 1..(play[r] - 1) : k \in 1..Len(B)
      BY StaysFree DEF Grows
    <3>3. /\ at'[r] = "service" /\ at[r] = "register" /\ play'[r] = play[r]
          /\ todo'[r] = B[play[r]] /\ todo[r] = {} /\ dropped'[r] = dropped[r]
      BY <1>14 DEF AllRegistered, Inv, TypeOK, Goto
    <3> HIDE DEF B
    <3>5. \A j \in 1..(play[r] - 1) : \A m \in B[j] : Active(m)'
      BY <3>1, <3>2, <3>3 DEF Proceeds, B
    <3>6. \A m \in B[play[r]] : attached'[m] # None
      BY <3>1, <3>2, <3>3 DEF Proceeds, B
    <3> QED BY <3>1, <3>2, <3>3, <3>5, <3>6 DEF Proceeds
  <2> QED BY <2>1, <2>2, Elsewhere DEF AllProceed
<1>15. ASSUME NEW r \in Runs, BatchEnds(r)
      PROVE  AllProceed'
  <2>1. \A q \in Runs : q # r => Quiet(q)
    BY <1>15 DEF BatchEnds, Quiet, Playing, Inv, TypeOK, RestOK, Goto, rancher, progress, clusters
  <2>2. ASSUME Free(r)' PROVE Proceeds(r)'
    <3>1. Free(r) /\ Proceeds(r)
      BY <2>2, StaysFree DEF AllProceed
    <3> DEFINE B == Batches(r)
    <3>2. /\ Batches(r)' = B /\ Len(B) \in Nat \ {0} /\ Wanted(r) \subseteq Nodes
          /\ play[r] \in 1..Len(B) /\ \A k \in 1..Len(B) : B[k] \subseteq Nodes
          /\ \A m \in Nodes : Active(m) => Active(m)'
          /\ \A m \in Nodes : attached[m] # None => attached'[m] # None
          /\ \A k \in 1..(play[r] - 1) : k \in 1..Len(B)
      BY StaysFree DEF Grows
    <3> QED BY <3>1, <1>15, BatchEndsWell
  <2> QED BY <2>1, <2>2, Elsewhere DEF AllProceed
<1>16. ASSUME NEW r \in Runs, VerifyNodes(r)
      PROVE  AllProceed'
  <2>1. \A q \in Runs : Quiet(q)
    BY <1>16 DEF VerifyNodes, Quiet, Playing, Inv, TypeOK, RestOK, Goto, AfterUrl, rancher, progress, clusters
  <2> QED BY <2>1, Elsewhere DEF AllProceed
<1>17. ASSUME NEW r \in Runs, NEW n \in Nodes, Register(r, n)
      PROVE  AllProceed'
  <2>1. \A q \in Runs : q # r => Quiet(q)
    BY <1>17 DEF Register, Quiet, Playing, Inv, TypeOK, RestOK, Goto, rancher, progress, clusters
  <2>2. ASSUME Free(r)' PROVE Proceeds(r)'
    <3>1. Free(r) /\ Proceeds(r)
      BY <2>2, StaysFree DEF AllProceed
    <3> DEFINE B == Batches(r)
    <3>2. /\ Batches(r)' = B /\ Len(B) \in Nat \ {0} /\ Wanted(r) \subseteq Nodes
          /\ play[r] \in 1..Len(B) /\ \A k \in 1..Len(B) : B[k] \subseteq Nodes
          /\ \A m \in Nodes : Active(m) => Active(m)'
          /\ \A m \in Nodes : attached[m] # None => attached'[m] # None
          /\ \A k \in 1..(play[r] - 1) : k \in 1..Len(B)
      BY StaysFree DEF Grows
    <3>3. /\ at'[r] = "register" /\ at[r] = "register" /\ play'[r] = play[r]
          /\ todo'[r] = todo[r] \ {n} /\ dropped'[r] = dropped[r]
      BY <1>17 DEF Register, Inv, TypeOK
    <3>4. attached'[n] # None
      BY <1>17, Registered DEF Inv
    <3> HIDE DEF B
    <3>5. /\ todo'[r] \subseteq B[play[r]]
          /\ \A j \in 1..(play[r] - 1) : \A m \in B[j] : Active(m)'
      BY <3>1, <3>2, <3>3 DEF Proceeds, B
    <3>6. \A m \in B[play[r]] \ todo'[r] : attached'[m] # None
      BY <3>1, <3>2, <3>3, <3>4 DEF Proceeds, B
    <3> QED BY <3>1, <3>2, <3>3, <3>5, <3>6 DEF Proceeds
  <2> QED BY <2>1, <2>2, Elsewhere DEF AllProceed
<1>18. ASSUME NEW r \in Runs, NEW n \in Nodes, ServiceActive(r, n)
      PROVE  AllProceed'
  <2>1. \A q \in Runs : q # r => Quiet(q)
    BY <1>18 DEF ServiceActive, Quiet, Playing, Inv, TypeOK, RestOK, Goto, rancher, progress, clusters
  <2>2. ASSUME Free(r)' PROVE Proceeds(r)'
    <3>1. Free(r) /\ Proceeds(r)
      BY <2>2, StaysFree DEF AllProceed
    <3> DEFINE B == Batches(r)
    <3>2. /\ Batches(r)' = B /\ Len(B) \in Nat \ {0} /\ Wanted(r) \subseteq Nodes
          /\ play[r] \in 1..Len(B) /\ \A k \in 1..Len(B) : B[k] \subseteq Nodes
          /\ \A m \in Nodes : Active(m) => Active(m)'
          /\ \A m \in Nodes : attached[m] # None => attached'[m] # None
          /\ \A k \in 1..(play[r] - 1) : k \in 1..Len(B)
      BY StaysFree DEF Grows
    <3>3. /\ at'[r] = "service" /\ at[r] = "service" /\ play'[r] = play[r] /\ active[n] /\ n \in todo[r]
          /\ todo'[r] = todo[r] \ {n} /\ dropped'[r] = dropped[r]
      BY <1>18 DEF ServiceActive, Inv, TypeOK
    <3> HIDE DEF B
    <3>4. /\ todo'[r] \subseteq B[play[r]] /\ n \in B[play[r]]
          /\ \A j \in 1..(play[r] - 1) : \A m \in B[j] : Active(m)'
          /\ \A m \in B[play[r]] : attached[m] # None
      BY <3>1, <3>2, <3>3 DEF Proceeds, B
    <3>5. Active(n)
      BY <3>3, <3>4 DEF Active
    <3>6. \A m \in B[play[r]] \ todo'[r] : Active(m)'
      BY <3>1, <3>2, <3>3, <3>5 DEF Proceeds, B
    <3> QED BY <3>1, <3>2, <3>3, <3>4, <3>6 DEF Proceeds
  <2> QED BY <2>1, <2>2, Elsewhere DEF AllProceed
<1>19. ASSUME NEW r \in Runs, NEW n \in Nodes, ServiceMissing(r, n)
      PROVE  AllProceed'
  <2>1. \A q \in Runs : q # r => Quiet(q)
    BY <1>19 DEF ServiceMissing, Quiet, Playing, Inv, TypeOK, RestOK, Goto, rancher, progress, clusters
  <2>2. ASSUME Free(r)' PROVE Proceeds(r)'
    <3>1. Free(r) /\ Proceeds(r)
      BY <2>2, StaysFree DEF AllProceed
    <3> DEFINE B == Batches(r)
    <3>2. /\ Batches(r)' = B /\ Len(B) \in Nat \ {0} /\ Wanted(r) \subseteq Nodes
          /\ play[r] \in 1..Len(B) /\ \A k \in 1..Len(B) : B[k] \subseteq Nodes
          /\ \A m \in Nodes : Active(m) => Active(m)'
          /\ \A m \in Nodes : attached[m] # None => attached'[m] # None
          /\ \A k \in 1..(play[r] - 1) : k \in 1..Len(B)
      BY StaysFree DEF Grows
    <3> QED BY <3>1, <1>19, NoneMissing
  <2> QED BY <2>1, <2>2, Elsewhere DEF AllProceed
<1>20. ASSUME NEW n \in Nodes, BecomesActive(n)
      PROVE  AllProceed'
  <2>1. \A q \in Runs : Quiet(q)
    BY <1>20 DEF BecomesActive, Quiet, Playing, Inv, TypeOK, RestOK, Goto, AfterUrl, rancher, progress, clusters
  <2> QED BY <2>1, Elsewhere DEF AllProceed
<1> QED
  BY <1>1, <1>2, <1>3, <1>4, <1>5, <1>6, <1>7, <1>8, <1>9, <1>10, <1>11, <1>12, <1>13,
     <1>14, <1>15, <1>16, <1>17, <1>18, <1>19, <1>20 DEF Next, Token, PreparesToken,
     Playbook

\* The last look counts the nodes of a free run.
LEMMA CountIsRight ==
  ASSUME Inv, RestOK, NEW r \in Runs, Free(r), Proceeds(r), VerifyNodes(r)
  PROVE  at'[r] = "succeeded"
<1>1. at[r] = "verify" /\ dropped[r] = {} /\ \A n \in Wanted(r) : Active(n)
  BY DEF VerifyNodes, Proceeds
<1>2. Wanted(r) \subseteq Nodes /\ First(r) \in Wanted(r)
  BY BatchesType DEF Inv
<1>3. \A n \in Wanted(r) : attached[n] # None /\ attached[n].cluster = r /\ active[n]
  BY <1>1 DEF Active, Free
<1>4. attached[First(r)].cluster = r
  BY <1>2, <1>3
<1>5. \A n \in Nodes : attached[n] # None /\ attached[n].cluster = r => n \in Wanted(r)
  BY DEF Inv, KeepsToItsNodes
<1>6. Ready(r) = Wanted(r)
  BY <1>2, <1>3, <1>4, <1>5 DEF Ready, In
<1>7. In(r) = Wanted(r)
  BY <1>2, <1>3, <1>5 DEF In
<1>8. \A listed \in SUBSET In(r) : Ready(r) \subseteq listed => Counted(r, listed)
  <2>1. \A listed \in SUBSET In(r) : Ready(r) \subseteq listed => listed = Wanted(r)
    BY <1>6, <1>7
  <2> QED BY <1>6, <2>1 DEF Counted
<1>9. at' = [at EXCEPT ![r] = "succeeded"]
  BY <1>1, <1>4, <1>8 DEF VerifyNodes, Goto
<1> QED BY <1>9 DEF Inv, TypeOK

\* Others that were there remain.
LEMMA OthersStay ==
  ASSUME Inv, RestOK, UrlIsAgreed, Grows, Next, NEW r \in Runs, OthersWereThere(r)
  PROVE  OthersWereThere(r)'
<1>1. config' = config /\ Wanted(r)' = Wanted(r) /\ Wanted(r) \subseteq Nodes
  BY StaysFree DEF Grows
<1>6. overlap => overlap'
  BY DEF Grows, overlap
<1>2. CASE url \notin {None, config[r].url}
  <2>1. CASE url' = url
    BY <1>1, <1>2, <2>1 DEF OthersWereThere
  <2>2. ASSUME NEW q \in Runs, at[q] = "put" PROVE OthersWereThere(r)'
    <3>1. ~Agreed(r)
      BY <1>2, <2>2 DEF UrlIsAgreed
    <3>2. overlap'
      BY <1>2, <1>6, <2>2 DEF Inv, UrlIsStable, Acquainted, overlap
    <3> QED BY <1>1, <3>1, <3>2 DEF Agreed, OthersWereThere, Grows
  <2> QED BY <2>1, <2>2, UrlMoves
<1>3. CASE overlap /\ \E q \in Runs : config[q].url # config[r].url
  BY <1>1, <1>3, <1>6 DEF OthersWereThere
<1>4. CASE owner[config[r].name] \notin {None, r}
  <2>1. config[r].name \in DOMAIN owner
    BY DEF Inv, TypeOK, RestOK
  <2> QED BY <1>1, <1>4, <2>1 DEF OthersWereThere, Grows
<1>5. CASE \E n \in Wanted(r) : attached[n] # None /\ attached[n].cluster # r
  BY <1>1, <1>5 DEF OthersWereThere, Grows
<1> QED BY <1>2, <1>3, <1>4, <1>5 DEF OthersWereThere

\* What a run that has failed has left half done stays so: it never gets further.
LEMMA HalfDoneStays ==
  ASSUME Inv, RestOK, Grows, Next, faults' # 0, faults' \in Nat,
         NEW q \in Runs, at'[q] = "failed", LeftHalfDone(q)
  PROVE  LeftHalfDone(q)'
<1>1. config' = config /\ faults' > 0 /\ config[q].name \in DOMAIN owner /\ None \notin Runs
  BY ConfigsAssumption DEF Grows, Inv, TypeOK, RestOK
<1>2. kept[q] = "key" => kept'[q] = "key"
  <2>1. kept' = kept \/ \E r \in Runs : at'[r] # "failed" /\ \E k \in {"key", "both"} : kept' = [kept EXCEPT ![r] = k]
    BY DEF Next, Token, PreparesToken, Playbook, Begin, CheckCheckpoint, ReadServerUrl, PutServerUrl,
      ConfirmServerUrl, CreateApiToken, WriteToken, WriteMetadata, Cut, Again, Apply, Record,
      SaveCommand, AllRegistered, BatchEnds, VerifyNodes, Register, ServiceActive, ServiceMissing,
      BecomesActive, rancher, Goto, Inv, TypeOK
  <2> QED BY <2>1 DEF RestOK
<1>3. recorded'[q] = recorded[q]
  <2>1. recorded' = recorded \/ \E r \in Runs : at'[r] # "failed" /\ recorded' = [recorded EXCEPT ![r] = TRUE]
    BY DEF Next, Token, PreparesToken, Playbook, Begin, CheckCheckpoint, ReadServerUrl, PutServerUrl,
      ConfirmServerUrl, CreateApiToken, WriteToken, WriteMetadata, Cut, Again, Apply, Record,
      SaveCommand, AllRegistered, BatchEnds, VerifyNodes, Register, ServiceActive, ServiceMissing,
      BecomesActive, clusters, Goto, Inv, TypeOK
  <2> QED BY <2>1 DEF RestOK
<1>4. owner[config[q].name] = q => owner'[config[q].name] = q
  BY <1>1 DEF Grows
<1> QED BY <1>1, <1>2, <1>3, <1>4 DEF LeftHalfDone

\* Who has just failed, and why.
FailsWithReason ==
  \A q \in Runs :
    at'[q] = "failed" => at[q] = "failed" \/ OthersWereThere(q) \/ LeftHalfDone(q)

\* A free run that was not left half done fails nowhere.
LEMMA FailsStep ==
  ASSUME Inv, RestOK, UrlIsAgreed, MakesOnce, RolesAreGiven, Grows, AllProceed, Next
  PROVE  FailsWithReason
<1> USE DEF Inv, FailsWithReason
<1>1. ASSUME NEW r \in Runs, Begin(r)
      PROVE  FailsWithReason
  BY <1>1 DEF Begin, FailsWithReason, TypeOK, Goto, AfterUrl, rancher, progress, clusters
<1>2. ASSUME NEW r \in Runs, Again(r)
      PROVE  FailsWithReason
  BY <1>2 DEF Again, TypeOK, Goto
<1>3. ASSUME NEW r \in Runs, CheckCheckpoint(r), UNCHANGED <<progress, clusters, alongside>>
      PROVE  FailsWithReason
  <2>1. faults = 0 => kept[r] = "nothing"
    BY <1>3 DEF CheckCheckpoint, MakesOnce, BeforeToken
  <2>2. at'[r] = "failed" => kept[r] = "key"
    BY <1>3 DEF CheckCheckpoint, Goto, TypeOK
  <2>3. \A q \in Runs : q # r => at'[q] = at[q]
    BY <1>3 DEF CheckCheckpoint, Goto, TypeOK
  <2> QED BY <2>1, <2>2, <2>3 DEF LeftHalfDone, RestOK
<1>4. ASSUME NEW r \in Runs, ReadServerUrl(r), UNCHANGED <<progress, clusters, alongside>>
      PROVE  FailsWithReason
  <2>1. at'[r] = "failed" => url \notin {None, config[r].url}
    BY <1>4 DEF ReadServerUrl, Goto, TypeOK, AfterUrl
  <2>2. \A q \in Runs : q # r => at'[q] = at[q]
    BY <1>4 DEF ReadServerUrl, Goto, TypeOK
  <2> QED BY <2>1, <2>2 DEF OthersWereThere
<1>5. ASSUME NEW r \in Runs, PutServerUrl(r), UNCHANGED <<progress, clusters, alongside>>
      PROVE  FailsWithReason
  BY <1>5 DEF PutServerUrl, FailsWithReason, TypeOK, Goto, AfterUrl, rancher, progress, clusters
<1>6. ASSUME NEW r \in Runs, ConfirmServerUrl(r), UNCHANGED <<progress, clusters, alongside>>
      PROVE  FailsWithReason
  <2>1. at'[r] = "failed" => at[r] = "confirm" /\ url # config[r].url
    BY <1>6 DEF ConfirmServerUrl, Goto, TypeOK, AfterUrl
  <2>2. \A q \in Runs : q # r => at'[q] = at[q]
    BY <1>6 DEF ConfirmServerUrl, Goto, TypeOK
  <2>3. at'[r] = "failed" => overlap /\ ~Agreed(r)
    BY <2>1 DEF UrlIsAgreed
  <2> QED BY <2>2, <2>3 DEF OthersWereThere, Agreed
<1>7. ASSUME NEW r \in Runs, CreateApiToken(r), UNCHANGED <<progress, clusters, alongside>>
      PROVE  FailsWithReason
  BY <1>7 DEF CreateApiToken, FailsWithReason, TypeOK, Goto, AfterUrl, rancher, progress, clusters
<1>8. ASSUME NEW r \in Runs, WriteToken(r), UNCHANGED <<progress, clusters, alongside>>
      PROVE  FailsWithReason
  BY <1>8 DEF WriteToken, FailsWithReason, TypeOK, Goto, AfterUrl, rancher, progress, clusters
<1>9. ASSUME NEW r \in Runs, WriteMetadata(r), UNCHANGED <<progress, clusters, alongside>>
      PROVE  FailsWithReason
  BY <1>9 DEF WriteMetadata, FailsWithReason, TypeOK, Goto, AfterUrl, rancher, progress, clusters
<1>10. ASSUME NEW r \in Runs, Cut(r), UNCHANGED <<progress, clusters, alongside>>
      PROVE  FailsWithReason
  BY <1>10 DEF Cut, TypeOK, Goto
<1>11. ASSUME NEW r \in Runs, Apply(r)
      PROVE  FailsWithReason
  <2>1. at[r] = "apply" /\ config[r].name \in DOMAIN owner
    BY <1>11 DEF Apply, TypeOK, RestOK
  <2>2. faults = 0 => owner[config[r].name] # r
    BY <2>1 DEF MakesOnce, BeforeCluster
  <2>3. at'[r] = "failed" => owner[config[r].name] # None /\ ~recorded[r]
    BY <1>11 DEF Apply, Goto, TypeOK
  <2>4. \A q \in Runs : q # r => at'[q] = at[q]
    BY <1>11 DEF Apply, Goto, TypeOK
  <2> QED BY <2>2, <2>3, <2>4 DEF OthersWereThere, LeftHalfDone, RestOK
<1>12. ASSUME NEW r \in Runs, Record(r)
      PROVE  FailsWithReason
  BY <1>12 DEF Record, FailsWithReason, TypeOK, Goto, AfterUrl, rancher, progress, clusters
<1>13. ASSUME NEW r \in Runs, SaveCommand(r)
      PROVE  FailsWithReason
  BY <1>13 DEF SaveCommand, FailsWithReason, TypeOK, Goto, AfterUrl, rancher, progress, clusters
<1>14. ASSUME NEW r \in Runs, AllRegistered(r)
      PROVE  FailsWithReason
  BY <1>14 DEF AllRegistered, FailsWithReason, TypeOK, Goto, AfterUrl, rancher, progress, clusters
<1>15. ASSUME NEW r \in Runs, BatchEnds(r)
      PROVE  FailsWithReason
  <2>1. \A q \in Runs : q # r => at'[q] = at[q]
    BY <1>15 DEF BatchEnds, Goto, TypeOK
  <2>2. CASE Free(r)
    <3>1. at'[r] # "failed"
      BY <1>15, <2>2, BatchEndsWell DEF AllProceed
    <3> QED BY <2>1, <3>1
  <2>3. CASE ~Free(r)
    <3>1. OthersWereThere(r)
      BY <2>3 DEF Free, OthersWereThere
    <3> QED BY <2>1, <3>1
  <2> QED BY <2>2, <2>3
<1>16. ASSUME NEW r \in Runs, VerifyNodes(r)
      PROVE  FailsWithReason
  <2>1. \A q \in Runs : q # r => at'[q] = at[q]
    BY <1>16 DEF VerifyNodes, Goto, TypeOK
  <2>2. CASE Free(r)
    <3>1. at'[r] # "failed"
      BY <1>16, <2>2, CountIsRight DEF AllProceed
    <3> QED BY <2>1, <3>1
  <2>3. CASE ~Free(r)
    <3>1. OthersWereThere(r)
      BY <2>3 DEF Free, OthersWereThere
    <3> QED BY <2>1, <3>1
  <2> QED BY <2>2, <2>3
<1>17. ASSUME NEW r \in Runs, NEW n \in Nodes, Register(r, n)
      PROVE  FailsWithReason
  BY <1>17 DEF Register, FailsWithReason, TypeOK, Goto, AfterUrl, rancher, progress, clusters
<1>18. ASSUME NEW r \in Runs, NEW n \in Nodes, ServiceActive(r, n)
      PROVE  FailsWithReason
  BY <1>18 DEF ServiceActive, FailsWithReason, TypeOK, Goto, AfterUrl, rancher, progress, clusters
<1>19. ASSUME NEW r \in Runs, NEW n \in Nodes, ServiceMissing(r, n)
      PROVE  FailsWithReason
  BY <1>19 DEF ServiceMissing, FailsWithReason, TypeOK, Goto, AfterUrl, rancher, progress, clusters
<1>20. ASSUME NEW n \in Nodes, BecomesActive(n)
      PROVE  FailsWithReason
  BY <1>20 DEF BecomesActive, FailsWithReason, TypeOK, Goto, AfterUrl, rancher, progress, clusters
<1> QED
  BY <1>1, <1>2, <1>3, <1>4, <1>5, <1>6, <1>7, <1>8, <1>9, <1>10, <1>11, <1>12, <1>13,
     <1>14, <1>15, <1>16, <1>17, <1>18, <1>19, <1>20 DEF Next, Token, PreparesToken,
     Playbook

LEMMA ReasonStep ==
  ASSUME Inv, ReasonInv, Next
  PROVE  ReasonInv'
<1> USE DEF ReasonInv
<1>1. RestOK' /\ Grows /\ UrlIsAgreed' /\ RolesAreGiven'
  BY RestStep, GrowsStep, AgreedStep, RolesStep
<1>2. faults' = 0 => faults = 0
  BY FaultsStay
<1>3. MakesOnce'
  <2>1. CASE faults' = 0
    BY <2>1, <1>2, OnceStep
  <2>2. CASE faults' # 0
    BY <2>2 DEF MakesOnce
  <2> QED BY <2>1, <2>2
<1>4. AllProceed /\ AllProceed'
  <2>1. AllProceed
    BY DEF Unhindered, AllProceed
  <2> QED BY <2>1, <1>1, ProceedStep
<1>5. Unhindered'
  BY <1>4 DEF Unhindered, AllProceed
<1>6. FailsForAReason'
  <2>1. FailsWithReason
    BY <1>1, <1>4, FailsStep
  <2>2. \A q \in Runs : at'[q] = "failed" => OthersWereThere(q) \/ LeftHalfDone(q)
    BY <2>1 DEF FailsWithReason, FailsForAReason
  <2>3. ASSUME NEW q \in Runs, at'[q] = "failed", LeftHalfDone(q)
        PROVE  LeftHalfDone(q)'
    <3>1. faults # 0
      BY <2>3 DEF LeftHalfDone, RestOK
    <3>2. faults' # 0 /\ faults' \in Nat
      BY <1>1, <1>2, <3>1 DEF RestOK
    <3> QED BY <1>1, <2>3, <3>2, HalfDoneStays
  <2>4. ASSUME NEW q \in Runs, OthersWereThere(q)
        PROVE  OthersWereThere(q)'
    BY <1>1, <2>4, OthersStay
  <2> QED BY <2>2, <2>3, <2>4 DEF FailsForAReason
<1> QED BY <1>1, <1>3, <1>5, <1>6

LEMMA InitialReason ==
  ASSUME Init
  PROVE  ReasonInv
<1>1. RestOK
  BY DEF Init, TokenInit, RestOK
<1>2. MakesOnce
  BY ConfigsAssumption DEF Init, TokenInit, MakesOnce
<1>3. UrlIsAgreed /\ RolesAreGiven /\ FailsForAReason
  BY DEF Init, TokenInit, UrlIsAgreed, RolesAreGiven, FailsForAReason
<1>4. Unhindered
  BY DEF Init, TokenInit, Unhindered, Proceeds
<1> QED BY <1>1, <1>2, <1>3, <1>4 DEF ReasonInv

LEMMA StutterReason ==
  ASSUME ReasonInv, UNCHANGED vars
  PROVE  ReasonInv'
<1>1. \A r \in Runs : /\ Batches(r)' = Batches(r) /\ Wanted(r)' = Wanted(r)
                      /\ Agreed(r)' = Agreed(r)
                      /\ \A n \in Nodes : RoleOf(r, n)' = RoleOf(r, n)
  BY DEF vars, rancher, Batches, Wanted, First, Agreed, RoleOf
<1>2. /\ RestOK' /\ UrlIsAgreed' /\ MakesOnce' /\ RolesAreGiven'
  BY <1>1 DEF ReasonInv, vars, rancher, progress, clusters, RestOK, UrlIsAgreed, overlap, MakesOnce, RolesAreGiven
<1>3. Unhindered' /\ FailsForAReason'
  BY <1>1 DEF ReasonInv, vars, rancher, progress, clusters, Unhindered, Free, Proceeds, Active,
    FailsForAReason, OthersWereThere, overlap, LeftHalfDone
<1> QED BY <1>2, <1>3 DEF ReasonInv

\* A run finds that it cannot go on only where others have been, or where a kill has left it
\* half done, however many runs and kills there are: the batches of the playbook, what an
\* earlier start has registered, a whole checkpoint or a recorded cluster never stop it.
THEOREM FailsOnlyForAReason == Spec => []FailsForAReason
<1>1. Init => Inv /\ ReasonInv
  BY InitialInv, InitialReason
<1>2. (Inv /\ ReasonInv) /\ [Next]_vars => (Inv /\ ReasonInv)'
  BY TypeStep, NodesStep, DecidedStep, UrlStep, Stutter, ReasonStep, StutterReason DEF Inv
<1>3. ReasonInv => FailsForAReason
  BY DEF ReasonInv
<1> QED BY <1>1, <1>2, <1>3, PTL DEF Spec
=============================================================================
