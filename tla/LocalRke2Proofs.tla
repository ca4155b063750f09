-------------------------- MODULE LocalRke2Proofs --------------------------
(***************************************************************************)
(* Type correctness and safety of LocalRke2, for any number of runs and    *)
(* servers, any releases and orders, and any number of faults, and that    *)
(* undisturbed reruns of one release succeed.                              *)
(***************************************************************************)
EXTENDS LocalRke2, FiniteSetTheorems, TLAPS

\* What a run copies, installs, configures and starts is there by then.
Provided ==
  /\ \A r \in Runs :
       /\ at[r] \in {"inspect", "copyBinary", "copyChecksum"} =>
            cached["binary"] # None /\ cached["checksum"] # None
       /\ at[r] \in {"copyBinary", "copyChecksum", "configure", "install"} /\ ~absent[r] =>
            bin[Server(r)] # None
       /\ at[r] \in {"start", "ready"} => bin[Server(r)] # None
       /\ at[r] \in {"install", "start", "ready"} => conf[Server(r)] # None
  /\ \A s \in Servers :
       /\ wanted[s] => conf[s] # None
       /\ up[s] => member[s] # None

\* A run that installed another release is on its way to find that out.
WrongIsCaught ==
  \A r \in Runs, s \in Servers :
    bin[s] # None /\ bin[s].by = r /\ ~Shows(bin[s].version, Version(r)) =>
      at[r] = "failed" \/ (at[r] \in {"start", "ready"} /\ s = Server(r))

\* Servers in one cluster stay there, so it is enough to know that all were.
OneCluster ==
  \A r \in Runs : at[r] = "succeeded" => \E t \in Runs : \A s \in Servers : member[s] = t

Inv == TypeOK /\ Provided /\ WrongIsCaught /\ OneCluster

-----------------------------------------------------------------------------
\* A run is at a server, and its order names servers.
LEMMA ServerType ==
  ASSUME TypeOK
  PROVE  \A r \in Runs :
           /\ Server(r) \in Servers /\ config[r] \in Configs /\ Version(r) \in Releases
           /\ Order(r) \in Seq(Servers) /\ Len(Order(r)) \in Nat /\ Len(Order(r)) > 0
           /\ \A i \in 1..Len(Order(r)) : Order(r)[i] \in Servers
<1> SUFFICES ASSUME NEW r \in Runs
             PROVE  /\ Server(r) \in Servers /\ config[r] \in Configs /\ Version(r) \in Releases
                    /\ Order(r) \in Seq(Servers) /\ Len(Order(r)) \in Nat /\ Len(Order(r)) > 0
                    /\ \A i \in 1..Len(Order(r)) : Order(r)[i] \in Servers
  OBVIOUS
<1>1. config[r] \in Configs /\ host[r] \in 1..Len(Order(r))
  BY DEF TypeOK
<1>2. Order(r) \in Seq(Servers) /\ Len(Order(r)) = Cardinality(Servers)
  BY <1>1, ConfigsAssumption DEF Order
<1>3. Len(Order(r)) \in Nat /\ \A i \in 1..Len(Order(r)) : Order(r)[i] \in Servers
  BY <1>2
<1>4. Len(Order(r)) > 0
  BY <1>1, <1>3
<1> QED BY <1>1, <1>2, <1>3, <1>4 DEF Server, Version, Releases

\* Records that describe files and installations are not None.
LEMMA FileIsRecord ==
  ASSUME NEW v \in Releases \cup {Mixed}, NEW W \in SUBSET Runs, NEW t \in BOOLEAN
  PROVE  File(v, W, t) \in FileRecords /\ File(v, W, t) # None
BY NoneAssumption DEF File, FileRecords

\* Closing a file leaves a file.
LEMMA LetGoType ==
  ASSUME NEW f \in FileType, NEW r \in Runs, NEW t \in BOOLEAN
  PROVE  LetGo(f, r, t) \in FileType /\ (f # None => LetGo(f, r, t) # None)
<1>1. CASE f = None
  BY <1>1 DEF LetGo
<1>2. CASE f # None
  <2>1. f \in FileRecords
    BY <1>2 DEF FileType
  <2>2. f.version \in Releases \cup {Mixed} /\ f.writers \ {r} \in SUBSET Runs /\ f.torn \in BOOLEAN
    BY <2>1 DEF FileRecords
  <2>3. (f.torn \/ t) \in BOOLEAN
    OBVIOUS
  <2>4. File(f.version, f.writers \ {r}, f.torn \/ t) \in FileRecords
        /\ File(f.version, f.writers \ {r}, f.torn \/ t) # None
    BY <2>2, <2>3, FileIsRecord
  <2> QED BY <1>2, <2>1, <2>4 DEF LetGo, FileType
<1> QED BY <1>1, <1>2

\* Nothing disappears when a run closes its file.
LEMMA LetsGoType ==
  ASSUME TypeOK, NEW r \in Runs, NEW t \in BOOLEAN, LetsGo(r, t)
  PROVE  /\ part' \in [Files -> FileType] /\ cached' \in [Files -> FileType]
         /\ \A f \in Files : cached[f] # None => cached'[f] # None
BY LetGoType DEF LetsGo, TypeOK

\* What a file is opened to is a file.
LEMMA OpenedType ==
  ASSUME NEW f \in FileType, NEW r \in Runs, Version(r) \in Releases
  PROVE  Opened(f, r) \in FileRecords /\ Opened(f, r) # None
<1>1. File(Version(r), {r}, FALSE) \in FileRecords /\ File(Version(r), {r}, FALSE) # None
  BY FileIsRecord
<1>2. CASE f = None
  BY <1>1, <1>2 DEF Opened
<1>3. CASE f # None
  <2>1. f \in FileRecords
    BY <1>3 DEF FileType
  <2> DEFINE v == IF f.version = Version(r) THEN f.version ELSE Mixed
  <2>2. v \in Releases \cup {Mixed} /\ f.writers \cup {r} \in SUBSET Runs /\ f.torn \in BOOLEAN
    BY <2>1 DEF FileRecords
  <2>3. File(v, f.writers \cup {r}, f.torn) \in FileRecords
        /\ File(v, f.writers \cup {r}, f.torn) # None
    BY <2>2, FileIsRecord
  <2> QED BY <1>1, <1>3, <2>3 DEF Opened
<1> QED BY <1>2, <1>3

\* What verifies is there and of a release.
LEMMA VerifiesType ==
  ASSUME NEW b \in FileType, NEW c \in FileType, Verifies(b, c)
  PROVE  b # None /\ c # None /\ b.version \in Releases
<1>1. b # None /\ c # None /\ b.version # Mixed
  BY DEF Verifies, Whole
<1>2. b \in FileRecords
  BY <1>1 DEF FileType
<1> QED BY <1>1, <1>2 DEF FileRecords


-----------------------------------------------------------------------------
\* Every action keeps the variables within their values.
LEMMA TypeStep ==
  ASSUME Inv, Next
  PROVE  TypeOK'
<1> USE ServerType DEF Inv
<1>1. ASSUME NEW r \in Runs, Begin(r)
      PROVE  TypeOK'
  BY <1>1 DEF Begin, TypeOK, Positions, Order, Goto, servers, artifacts
<1>2. ASSUME NEW r \in Runs, Prepare(r), UNCHANGED <<servers, overlap>>
      PROVE  TypeOK'
  BY <1>2 DEF Prepare, TypeOK, Positions, Order, Goto, servers, artifacts
<1>3. ASSUME NEW r \in Runs, Open(r), UNCHANGED <<servers, overlap>>
      PROVE  TypeOK'
  <2>1. file[r] \in Files /\ part[file[r]] \in FileType
    BY DEF TypeOK
  <2>2. Opened(part[file[r]], r) \in FileType
    BY <2>1, OpenedType DEF FileType
  <2>3. part' \in [Files -> FileType]
    BY <1>3, <2>1, <2>2 DEF Open, TypeOK
  <2> QED BY <1>3, <2>3 DEF Open, TypeOK, Positions, Order, Goto, servers, artifacts
<1>4. ASSUME NEW r \in Runs, Write(r), UNCHANGED <<servers, overlap>>
      PROVE  TypeOK'
  <2>1. part' \in [Files -> FileType] /\ cached' \in [Files -> FileType]
    BY <1>4, LetsGoType DEF Write
  <2> QED BY <1>4, <2>1 DEF Write, TypeOK, Positions, Order, Goto, servers, artifacts
<1>5. ASSUME NEW r \in Runs, Move(r), UNCHANGED <<servers, overlap>>
      PROVE  TypeOK'
  <2>1. file[r] \in Files /\ part[file[r]] \in FileType
    BY DEF TypeOK
  <2>2. part' \in [Files -> FileType] /\ cached' \in [Files -> FileType]
        /\ file' \in [Runs -> Files]
    <3>1. CASE part[file[r]] = None
      BY <1>5, <3>1 DEF Move, TypeOK
    <3>2. CASE part[file[r]] # None
      <4>1. None \in FileType /\ "checksum" \in Files
        BY DEF FileType, Files
      <4> QED BY <1>5, <2>1, <3>2, <4>1 DEF Move, TypeOK
    <3> QED BY <3>1, <3>2
  <2>3. at' \in [Runs -> Positions]
    BY <1>5 DEF Move, TypeOK, Goto, Positions
  <2> QED BY <1>5, <2>2, <2>3 DEF Move, TypeOK, Order, servers
<1>6. ASSUME NEW r \in Runs, VerifyReleaseFile(r), UNCHANGED <<servers, overlap>>
      PROVE  TypeOK'
  BY <1>6 DEF VerifyReleaseFile, TypeOK, Positions, Order, Goto, servers, artifacts
<1>7. ASSUME NEW r \in Runs, WriteManifest(r), UNCHANGED <<servers, overlap>>
      PROVE  TypeOK'
  <2>1. manifest' \in {<<c.version, c.mode>> : c \in Configs}
    BY <1>7 DEF WriteManifest, Asked
  <2> QED BY <1>7, <2>1 DEF WriteManifest, TypeOK, Positions, Order, Goto, servers, artifacts
<1>8. ASSUME NEW r \in Runs, Cut(r), UNCHANGED <<servers, overlap>>
      PROVE  TypeOK'
  <2>1. PICK t \in BOOLEAN : LetsGo(r, t)
    BY <1>8 DEF Cut
  <2>2. part' \in [Files -> FileType] /\ cached' \in [Files -> FileType]
    BY <2>1, LetsGoType
  <2>3. faults' \in 0..MaxFaults
    BY <1>8, ConfigsAssumption DEF Cut, TypeOK
  <2> QED BY <1>8, <2>2, <2>3 DEF Cut, TypeOK, Positions, Order, Goto, servers, artifacts
<1>9. ASSUME NEW r \in Runs, CheckArtifacts(r)
      PROVE  TypeOK'
  BY <1>9 DEF CheckArtifacts, TypeOK, Positions, Order, Goto, servers, artifacts
<1>10. ASSUME NEW r \in Runs, InspectExisting(r)
      PROVE  TypeOK'
  BY <1>10 DEF InspectExisting, TypeOK, Positions, Order, Goto, servers, artifacts
<1>11. ASSUME NEW r \in Runs, TransferBinary(r)
      PROVE  TypeOK'
  <2> DEFINE c == cached["binary"]
  <2>1. c \in FileRecords
    BY <1>11 DEF TransferBinary, Transfer, Provided, TypeOK, FileType, Files
  <2>2. c.version \in Releases \cup {Mixed} /\ (c.torn \/ c.writers # {}) \in BOOLEAN
    BY <2>1 DEF FileRecords
  <2>3. File(c.version, {}, c.torn \/ c.writers # {}) \in FileType
    BY <2>2, FileIsRecord DEF FileType
  <2>4. remote' = [remote EXCEPT ![Server(r)]["binary"] = File(c.version, {}, c.torn \/ c.writers # {})]
    BY <1>11 DEF TransferBinary, Transfer
  <2> HIDE DEF c
  <2>5. remote' \in [Servers -> [Files -> FileType]]
    BY <2>3, <2>4 DEF TypeOK, Files
  <2> QED BY <1>11, <2>5 DEF TransferBinary, Transfer, TypeOK, Positions, Order, Goto, artifacts
<1>12. ASSUME NEW r \in Runs, TransferChecksum(r)
      PROVE  TypeOK'
  <2> DEFINE c == cached["checksum"]
  <2>1. c \in FileRecords
    BY <1>12 DEF TransferChecksum, Transfer, Provided, TypeOK, FileType, Files
  <2>2. c.version \in Releases \cup {Mixed} /\ (c.torn \/ c.writers # {}) \in BOOLEAN
    BY <2>1 DEF FileRecords
  <2>3. File(c.version, {}, c.torn \/ c.writers # {}) \in FileType
    BY <2>2, FileIsRecord DEF FileType
  <2>4. remote' = [remote EXCEPT ![Server(r)]["checksum"] = File(c.version, {}, c.torn \/ c.writers # {})]
    BY <1>12 DEF TransferChecksum, Transfer
  <2> HIDE DEF c
  <2>5. remote' \in [Servers -> [Files -> FileType]]
    BY <2>3, <2>4 DEF TypeOK, Files
  <2> QED BY <1>12, <2>5 DEF TransferChecksum, Transfer, TypeOK, Positions, Order, Goto, artifacts
<1>13. ASSUME NEW r \in Runs, RenderConfig(r)
      PROVE  TypeOK'
  <2> DEFINE setting == [token |-> r, server |-> IF host[r] = 1 THEN None ELSE Order(r)[1]]
  <2>1. setting \in Settings
    BY DEF Settings
  <2>2. conf' = [conf EXCEPT ![Server(r)] = setting]
    BY <1>13 DEF RenderConfig
  <2> HIDE DEF setting
  <2>3. conf' \in [Servers -> {None} \cup Settings]
    BY <2>1, <2>2 DEF TypeOK
  <2> QED BY <1>13, <2>3 DEF RenderConfig, TypeOK, Positions, Order, Goto, servers, artifacts
<1>14. ASSUME NEW r \in Runs, Install(r)
      PROVE  TypeOK'
  <2> DEFINE b == remote[Server(r)]["binary"]
  <2>1. remote[Server(r)]["binary"] \in FileType /\ remote[Server(r)]["checksum"] \in FileType
    BY DEF TypeOK, Files
  <2>2. Verifies(b, remote[Server(r)]["checksum"]) => [version |-> b.version, by |-> r] \in Installs
    BY <2>1, VerifiesType DEF Installs
  <2>3. \/ bin' = bin
        \/ /\ Verifies(b, remote[Server(r)]["checksum"])
           /\ bin' = [bin EXCEPT ![Server(r)] = [version |-> b.version, by |-> r]]
    BY <1>14 DEF Install
  <2>4. bin' \in [Servers -> {None} \cup Installs]
    BY <2>2, <2>3 DEF TypeOK
  <2>5. at' \in [Runs -> Positions]
    BY <1>14 DEF Install, TypeOK, Goto, Positions
  <2> QED BY <1>14, <2>4, <2>5 DEF Install, TypeOK, Order, artifacts
<1>15. ASSUME NEW r \in Runs, StartServer(r)
      PROVE  TypeOK'
  <2>1. conf[Server(r)] \in Settings
    BY <1>15 DEF StartServer, Provided, TypeOK
  <2>2. conf[Server(r)].token \in Runs
    BY <2>1 DEF Settings
  <2>3. wanted' \in [Servers -> BOOLEAN] /\ up' \in [Servers -> BOOLEAN]
        /\ member' \in [Servers -> {None} \cup Runs]
    BY <1>15, <2>2 DEF StartServer, Comes, TypeOK
  <2>4. at' \in [Runs -> Positions]
    <3>1. \E p \in {"ready", "failed"} : at' = [at EXCEPT ![r] = p]
      BY <1>15 DEF StartServer, Goto
    <3> QED BY <3>1 DEF TypeOK, Positions
  <2> QED BY <1>15, <2>3, <2>4 DEF StartServer, TypeOK, Order, artifacts
<1>16. ASSUME NEW r \in Runs, ServerReady(r)
      PROVE  TypeOK'
  <2>1. host' \in [Runs -> Nat] /\ \A q \in Runs : host'[q] \in 1..Len(Order(q))
    <3>1. \/ host' = host
          \/ host[r] # Len(Order(r)) /\ host' = [host EXCEPT ![r] = host[r] + 1]
      BY <1>16 DEF ServerReady
    <3>2. host \in [Runs -> Nat] /\ \A q \in Runs : host[q] \in 1..Len(Order(q))
      BY DEF TypeOK
    <3> QED BY <3>1, <3>2
  <2>2. at' \in [Runs -> Positions]
    <3>1. \E p \in {"failed", "count", "artifacts"} : at' = [at EXCEPT ![r] = p]
      BY <1>16 DEF ServerReady, Goto
    <3> QED BY <3>1 DEF TypeOK, Positions
  <2> QED BY <1>16, <2>1, <2>2 DEF ServerReady, TypeOK, Order, artifacts
<1>17. ASSUME NEW r \in Runs, CountServers(r)
      PROVE  TypeOK'
  BY <1>17 DEF CountServers, TypeOK, Positions, Order, Goto, servers, artifacts
<1>18. ASSUME NEW s \in Servers, ServiceRetries(s)
      PROVE  TypeOK'
  <2>1. conf[s] \in Settings
    BY <1>18 DEF ServiceRetries, Provided, TypeOK
  <2>2. conf[s].token \in Runs
    BY <2>1 DEF Settings
  <2>3. up' \in [Servers -> BOOLEAN] /\ member' \in [Servers -> {None} \cup Runs]
    BY <1>18, <2>2 DEF ServiceRetries, Comes, TypeOK
  <2> QED BY <1>18, <2>3 DEF ServiceRetries, TypeOK, Order, artifacts
<1>19. ASSUME NEW s \in Servers, GoesDown(s)
      PROVE  TypeOK'
  <2>1. faults' \in 0..MaxFaults
    BY <1>19, ConfigsAssumption DEF GoesDown, TypeOK
  <2> QED BY <1>19, <2>1 DEF GoesDown, TypeOK, Order, artifacts
<1> QED
  BY <1>1, <1>2, <1>3, <1>4, <1>5, <1>6, <1>7, <1>8, <1>9, <1>10, <1>11, <1>12, <1>13, <1>14, <1>15, <1>16, <1>17, <1>18, <1>19 DEF Next, RunStep, Prepares, Fetches, Role

\* Files, installation and configuration are there before the step that needs them.
LEMMA ProvidedStep ==
  ASSUME Inv, Next
  PROVE  Provided'
<1> USE ServerType DEF Inv
<1>1. ASSUME NEW r \in Runs, Begin(r)
      PROVE  Provided'
  BY <1>1 DEF Begin, TypeOK, Provided, Server, Order, Goto, servers, artifacts
<1>2. ASSUME NEW r \in Runs, Prepare(r), UNCHANGED <<servers, overlap>>
      PROVE  Provided'
  BY <1>2 DEF Prepare, TypeOK, Provided, Server, Order, Goto, servers, artifacts
<1>3. ASSUME NEW r \in Runs, Open(r), UNCHANGED <<servers, overlap>>
      PROVE  Provided'
  BY <1>3 DEF Open, TypeOK, Provided, Server, Order, Goto, servers, artifacts
<1>4. ASSUME NEW r \in Runs, Write(r), UNCHANGED <<servers, overlap>>
      PROVE  Provided'
  <2>1. \A f \in Files : cached[f] # None => cached'[f] # None
    BY <1>4, LetsGoType DEF Write
  <2> QED BY <1>4, <2>1 DEF Write, Files, TypeOK, Provided, Server, Order, Goto, servers
<1>5. ASSUME NEW r \in Runs, Move(r), UNCHANGED <<servers, overlap>>
      PROVE  Provided'
  <2>1. \A f \in Files : cached[f] # None => cached'[f] # None
    BY <1>5 DEF Move, TypeOK
  <2>2. \E p \in {"failed", "fetch", "verify"} : at' = [at EXCEPT ![r] = p]
    BY <1>5 DEF Move, Goto
  <2>3. UNCHANGED <<config, host, absent, bin, conf, wanted, member, up>>
    BY <1>5 DEF Move, servers
  <2> QED BY <2>1, <2>2, <2>3 DEF TypeOK, Provided, Server, Order, Files
<1>6. ASSUME NEW r \in Runs, VerifyReleaseFile(r), UNCHANGED <<servers, overlap>>
      PROVE  Provided'
  BY <1>6 DEF VerifyReleaseFile, TypeOK, Provided, Server, Order, Goto, servers, artifacts
<1>7. ASSUME NEW r \in Runs, WriteManifest(r), UNCHANGED <<servers, overlap>>
      PROVE  Provided'
  BY <1>7 DEF WriteManifest, TypeOK, Provided, Server, Order, Goto, servers, artifacts
<1>8. ASSUME NEW r \in Runs, Cut(r), UNCHANGED <<servers, overlap>>
      PROVE  Provided'
  <2>1. \A f \in Files : cached[f] # None => cached'[f] # None
    BY <1>8, LetsGoType DEF Cut
  <2> QED BY <1>8, <2>1 DEF Cut, Files, TypeOK, Provided, Server, Order, Goto, servers
<1>9. ASSUME NEW r \in Runs, CheckArtifacts(r)
      PROVE  Provided'
  <2>1. cached["binary"] \in FileType /\ cached["checksum"] \in FileType
    BY DEF TypeOK, Files
  <2>2. at'[r] = "inspect" => cached["binary"] # None /\ cached["checksum"] # None
    BY <1>9, <2>1, VerifiesType DEF CheckArtifacts, Goto, TypeOK
  <2>3. \E p \in {"inspect", "failed"} : at' = [at EXCEPT ![r] = p]
    BY <1>9 DEF CheckArtifacts, Goto
  <2> QED BY <1>9, <2>2, <2>3 DEF CheckArtifacts, artifacts, TypeOK, Provided, Server, Order, Goto, servers
<1>10. ASSUME NEW r \in Runs, InspectExisting(r)
      PROVE  Provided'
  BY <1>10 DEF InspectExisting, TypeOK, Provided, Server, Order, Goto, servers, artifacts
<1>11. ASSUME NEW r \in Runs, TransferBinary(r)
      PROVE  Provided'
  BY <1>11 DEF TransferBinary, Transfer, TypeOK, Provided, Server, Order, Goto, servers, artifacts
<1>12. ASSUME NEW r \in Runs, TransferChecksum(r)
      PROVE  Provided'
  BY <1>12 DEF TransferChecksum, Transfer, TypeOK, Provided, Server, Order, Goto, servers, artifacts
<1>13. ASSUME NEW r \in Runs, RenderConfig(r)
      PROVE  Provided'
  <2>1. [token |-> r, server |-> IF host[r] = 1 THEN None ELSE Order(r)[1]] \in Settings
    BY DEF Settings
  <2>2. conf'[Server(r)] # None /\ \A s \in Servers : conf[s] # None => conf'[s] # None
    BY <1>13, <2>1, NoneAssumption DEF RenderConfig, TypeOK
  <2>3. at' = [at EXCEPT ![r] = "install"] /\ at[r] = "configure"
        /\ UNCHANGED <<artifacts, host, absent, bin, wanted, member, up>>
    BY <1>13 DEF RenderConfig, Goto
  <2> QED BY <2>2, <2>3 DEF TypeOK, Provided, Server, Order, artifacts
<1>14. ASSUME NEW r \in Runs, Install(r)
      PROVE  Provided'
  <2>1. remote[Server(r)]["binary"] \in FileType /\ remote[Server(r)]["checksum"] \in FileType
    BY DEF TypeOK, Files
  <2> DEFINE new == [version |-> remote[Server(r)]["binary"].version, by |-> r]
  <2>2. Verifies(remote[Server(r)]["binary"], remote[Server(r)]["checksum"]) => new # None
    BY <2>1, VerifiesType, NoneAssumption DEF Installs
  <2>3. \/ bin' = bin /\ (~absent[r] \/ at' = [at EXCEPT ![r] = "failed"])
        \/ new # None /\ bin' = [bin EXCEPT ![Server(r)] = new]
    BY <1>14, <2>2 DEF Install, Goto
  <2>4. \E p \in {"start", "failed"} : at' = [at EXCEPT ![r] = p]
    BY <1>14 DEF Install, Goto
  <2>5. at[r] = "install" /\ UNCHANGED <<artifacts, host, absent, conf, wanted, member, up>>
    BY <1>14 DEF Install
  <2> HIDE DEF new
  <2>6. /\ \A s \in Servers : bin[s] # None => bin'[s] # None
        /\ at'[r] = "start" => bin'[Server(r)] # None
    BY <2>3, <2>5 DEF TypeOK, Provided
  <2> QED BY <2>4, <2>5, <2>6 DEF TypeOK, Provided, Server, Order, artifacts
<1>15. ASSUME NEW r \in Runs, StartServer(r)
      PROVE  Provided'
  <2>1. conf[Server(r)] \in Settings
    BY <1>15 DEF StartServer, Provided, TypeOK
  <2>2. conf[Server(r)].token # None
    BY <2>1, NoneAssumption DEF Settings
  <2>3. \A s \in Servers : up'[s] => member'[s] # None
    BY <1>15, <2>2 DEF StartServer, Comes, TypeOK, Provided
  <2>4. \E p \in {"ready", "failed"} : at' = [at EXCEPT ![r] = p]
    BY <1>15 DEF StartServer, Goto
  <2>5. at[r] = "start" /\ wanted' = [wanted EXCEPT ![Server(r)] = TRUE]
        /\ UNCHANGED <<artifacts, host, absent, bin, conf>>
    BY <1>15 DEF StartServer
  <2> QED BY <2>3, <2>4, <2>5 DEF TypeOK, Provided, Server, Order, artifacts
<1>16. ASSUME NEW r \in Runs, ServerReady(r)
      PROVE  Provided'
  BY <1>16 DEF ServerReady, TypeOK, Provided, Server, Order, Goto, servers, artifacts
<1>17. ASSUME NEW r \in Runs, CountServers(r)
      PROVE  Provided'
  BY <1>17 DEF CountServers, TypeOK, Provided, Server, Order, Goto, servers, artifacts
<1>18. ASSUME NEW s \in Servers, ServiceRetries(s)
      PROVE  Provided'
  <2>1. conf[s] \in Settings
    BY <1>18 DEF ServiceRetries, Provided, TypeOK
  <2>2. conf[s].token # None
    BY <2>1, NoneAssumption DEF Settings
  <2>3. \A q \in Servers : up'[q] => member'[q] # None
    BY <1>18, <2>2 DEF ServiceRetries, Comes, TypeOK, Provided
  <2> QED BY <1>18, <2>3 DEF ServiceRetries, artifacts, TypeOK, Provided, Server, Order, Goto, servers
<1>19. ASSUME NEW s \in Servers, GoesDown(s)
      PROVE  Provided'
  BY <1>19 DEF GoesDown, TypeOK, Provided, Server, Order, Goto, artifacts
<1> QED
  BY <1>1, <1>2, <1>3, <1>4, <1>5, <1>6, <1>7, <1>8, <1>9, <1>10, <1>11, <1>12, <1>13, <1>14, <1>15, <1>16, <1>17, <1>18, <1>19 DEF Next, RunStep, Prepares, Fetches, Role

\* Nothing but the check of the version lets a run go on to its next server.
LEMMA WrongStep ==
  ASSUME Inv, Next
  PROVE  WrongIsCaught'
<1> USE ServerType DEF Inv
<1>1. ASSUME NEW r \in Runs, Begin(r)
      PROVE  WrongIsCaught'
  BY <1>1 DEF Begin, TypeOK, WrongIsCaught, Server, Order, Version, Goto, servers, artifacts
<1>2. ASSUME NEW r \in Runs, Prepare(r), UNCHANGED <<servers, overlap>>
      PROVE  WrongIsCaught'
  BY <1>2 DEF Prepare, TypeOK, WrongIsCaught, Server, Order, Version, Goto, servers, artifacts
<1>3. ASSUME NEW r \in Runs, Open(r), UNCHANGED <<servers, overlap>>
      PROVE  WrongIsCaught'
  BY <1>3 DEF Open, TypeOK, WrongIsCaught, Server, Order, Version, Goto, servers, artifacts
<1>4. ASSUME NEW r \in Runs, Write(r), UNCHANGED <<servers, overlap>>
      PROVE  WrongIsCaught'
  BY <1>4 DEF Write, LetsGo, TypeOK, WrongIsCaught, Server, Order, Version, Goto, servers, artifacts
<1>5. ASSUME NEW r \in Runs, Move(r), UNCHANGED <<servers, overlap>>
      PROVE  WrongIsCaught'
  <2>1. \E p \in {"failed", "fetch", "verify"} : at' = [at EXCEPT ![r] = p]
    BY <1>5 DEF Move, Goto
  <2>2. at[r] = "move" /\ UNCHANGED <<config, host, bin>>
    BY <1>5 DEF Move, servers
  <2> QED BY <2>1, <2>2 DEF TypeOK, WrongIsCaught, Server, Order, Version
<1>6. ASSUME NEW r \in Runs, VerifyReleaseFile(r), UNCHANGED <<servers, overlap>>
      PROVE  WrongIsCaught'
  BY <1>6 DEF VerifyReleaseFile, TypeOK, WrongIsCaught, Server, Order, Version, Goto, servers, artifacts
<1>7. ASSUME NEW r \in Runs, WriteManifest(r), UNCHANGED <<servers, overlap>>
      PROVE  WrongIsCaught'
  BY <1>7 DEF WriteManifest, TypeOK, WrongIsCaught, Server, Order, Version, Goto, servers, artifacts
<1>8. ASSUME NEW r \in Runs, Cut(r), UNCHANGED <<servers, overlap>>
      PROVE  WrongIsCaught'
  BY <1>8 DEF Cut, LetsGo, TypeOK, WrongIsCaught, Server, Order, Version, Goto, servers, artifacts
<1>9. ASSUME NEW r \in Runs, CheckArtifacts(r)
      PROVE  WrongIsCaught'
  BY <1>9 DEF CheckArtifacts, TypeOK, WrongIsCaught, Server, Order, Version, Goto, servers, artifacts
<1>10. ASSUME NEW r \in Runs, InspectExisting(r)
      PROVE  WrongIsCaught'
  BY <1>10 DEF InspectExisting, TypeOK, WrongIsCaught, Server, Order, Version, Goto, servers, artifacts
<1>11. ASSUME NEW r \in Runs, TransferBinary(r)
      PROVE  WrongIsCaught'
  BY <1>11 DEF TransferBinary, Transfer, TypeOK, WrongIsCaught, Server, Order, Version, Goto, servers, artifacts
<1>12. ASSUME NEW r \in Runs, TransferChecksum(r)
      PROVE  WrongIsCaught'
  BY <1>12 DEF TransferChecksum, Transfer, TypeOK, WrongIsCaught, Server, Order, Version, Goto, servers, artifacts
<1>13. ASSUME NEW r \in Runs, RenderConfig(r)
      PROVE  WrongIsCaught'
  BY <1>13 DEF RenderConfig, TypeOK, WrongIsCaught, Server, Order, Version, Goto, servers, artifacts
<1>14. ASSUME NEW r \in Runs, Install(r)
      PROVE  WrongIsCaught'
  <2> DEFINE new == [version |-> remote[Server(r)]["binary"].version, by |-> r]
  <2>1. at[r] = "install" /\ UNCHANGED <<config, host>>
    BY <1>14 DEF Install, artifacts
  <2>2. \/ bin' = bin
        \/ bin' = [bin EXCEPT ![Server(r)] = new] /\ at' = [at EXCEPT ![r] = "start"]
    BY <1>14 DEF Install, Goto
  <2>3. \E p \in {"start", "failed"} : at' = [at EXCEPT ![r] = p]
    BY <1>14 DEF Install, Goto
  <2>4. new.by = r
    OBVIOUS
  <2> HIDE DEF new
  <2>5. \A q \in Runs, s \in Servers : bin'[s] # bin[s] =>
          s = Server(r) /\ bin'[s].by = r /\ at'[r] = "start"
    BY <2>2, <2>4 DEF TypeOK
  <2> QED BY <2>1, <2>3, <2>5 DEF TypeOK, WrongIsCaught, Server, Order, Version
<1>15. ASSUME NEW r \in Runs, StartServer(r)
      PROVE  WrongIsCaught'
  <2>1. at[r] = "start" /\ UNCHANGED <<config, bin, host>>
    BY <1>15 DEF StartServer, artifacts
  <2>2. \E p \in {"ready", "failed"} : at' = [at EXCEPT ![r] = p]
    BY <1>15 DEF StartServer, Goto
  <2> QED BY <2>1, <2>2 DEF TypeOK, WrongIsCaught, Server, Order, Version
<1>16. ASSUME NEW r \in Runs, ServerReady(r)
      PROVE  WrongIsCaught'
  <2>1. at[r] = "ready" /\ UNCHANGED <<config, bin>>
    BY <1>16 DEF ServerReady, artifacts
  <2>2. \/ at' = [at EXCEPT ![r] = "failed"] /\ host' = host
        \/ /\ Shows(bin[Server(r)].version, Version(r))
           /\ at' = [at EXCEPT ![r] = "count"] /\ host' = host
        \/ /\ Shows(bin[Server(r)].version, Version(r))
           /\ at' = [at EXCEPT ![r] = "artifacts"] /\ host' = [host EXCEPT ![r] = host[r] + 1]
    BY <1>16 DEF ServerReady, Goto
  <2> QED BY <2>1, <2>2 DEF TypeOK, WrongIsCaught, Server, Order, Version
<1>17. ASSUME NEW r \in Runs, CountServers(r)
      PROVE  WrongIsCaught'
  BY <1>17 DEF CountServers, TypeOK, WrongIsCaught, Server, Order, Version, Goto, servers, artifacts
<1>18. ASSUME NEW s \in Servers, ServiceRetries(s)
      PROVE  WrongIsCaught'
  BY <1>18 DEF ServiceRetries, Comes, TypeOK, WrongIsCaught, Server, Order, Version, Goto, artifacts
<1>19. ASSUME NEW s \in Servers, GoesDown(s)
      PROVE  WrongIsCaught'
  BY <1>19 DEF GoesDown, TypeOK, WrongIsCaught, Server, Order, Version, Goto, artifacts
<1> QED
  BY <1>1, <1>2, <1>3, <1>4, <1>5, <1>6, <1>7, <1>8, <1>9, <1>10, <1>11, <1>12, <1>13, <1>14, <1>15, <1>16, <1>17, <1>18, <1>19 DEF Next, RunStep, Prepares, Fetches, Role

\* Who is a member stays one, so a cluster of all servers lasts.
LEMMA ClusterKept ==
  ASSUME OneCluster,
         \A s \in Servers : member[s] # None => member'[s] = member[s],
         \A r \in Runs : at'[r] = "succeeded" => at[r] = "succeeded"
  PROVE  OneCluster'
<1> SUFFICES ASSUME NEW r \in Runs, at'[r] = "succeeded"
             PROVE  \E t \in Runs : \A s \in Servers : member'[s] = t
  BY DEF OneCluster
<1>1. PICK t \in Runs : \A s \in Servers : member[s] = t
  BY DEF OneCluster
<1>2. t # None
  BY NoneAssumption
<1> QED BY <1>1, <1>2

\* A run succeeds when all servers are Ready in one cluster, and no step takes one out.
LEMMA ClusterStep ==
  ASSUME Inv, Next
  PROVE  OneCluster'
<1> USE ServerType DEF Inv
<1>1. ASSUME NEW r \in Runs, Begin(r)
      PROVE  OneCluster'
  BY <1>1 DEF Begin, TypeOK, OneCluster, Goto, servers, artifacts
<1>2. ASSUME NEW r \in Runs, Prepare(r), UNCHANGED <<servers, overlap>>
      PROVE  OneCluster'
  BY <1>2 DEF Prepare, TypeOK, OneCluster, Goto, servers, artifacts
<1>3. ASSUME NEW r \in Runs, Open(r), UNCHANGED <<servers, overlap>>
      PROVE  OneCluster'
  BY <1>3 DEF Open, TypeOK, OneCluster, Goto, servers, artifacts
<1>4. ASSUME NEW r \in Runs, Write(r), UNCHANGED <<servers, overlap>>
      PROVE  OneCluster'
  BY <1>4 DEF Write, LetsGo, TypeOK, OneCluster, Goto, servers, artifacts
<1>5. ASSUME NEW r \in Runs, Move(r), UNCHANGED <<servers, overlap>>
      PROVE  OneCluster'
  BY <1>5 DEF Move, TypeOK, OneCluster, Goto, servers, artifacts
<1>6. ASSUME NEW r \in Runs, VerifyReleaseFile(r), UNCHANGED <<servers, overlap>>
      PROVE  OneCluster'
  BY <1>6 DEF VerifyReleaseFile, TypeOK, OneCluster, Goto, servers, artifacts
<1>7. ASSUME NEW r \in Runs, WriteManifest(r), UNCHANGED <<servers, overlap>>
      PROVE  OneCluster'
  BY <1>7 DEF WriteManifest, TypeOK, OneCluster, Goto, servers, artifacts
<1>8. ASSUME NEW r \in Runs, Cut(r), UNCHANGED <<servers, overlap>>
      PROVE  OneCluster'
  BY <1>8 DEF Cut, LetsGo, TypeOK, OneCluster, Goto, servers, artifacts
<1>9. ASSUME NEW r \in Runs, CheckArtifacts(r)
      PROVE  OneCluster'
  BY <1>9 DEF CheckArtifacts, TypeOK, OneCluster, Goto, servers, artifacts
<1>10. ASSUME NEW r \in Runs, InspectExisting(r)
      PROVE  OneCluster'
  BY <1>10 DEF InspectExisting, TypeOK, OneCluster, Goto, servers, artifacts
<1>11. ASSUME NEW r \in Runs, TransferBinary(r)
      PROVE  OneCluster'
  BY <1>11 DEF TransferBinary, Transfer, TypeOK, OneCluster, Goto, servers, artifacts
<1>12. ASSUME NEW r \in Runs, TransferChecksum(r)
      PROVE  OneCluster'
  BY <1>12 DEF TransferChecksum, Transfer, TypeOK, OneCluster, Goto, servers, artifacts
<1>13. ASSUME NEW r \in Runs, RenderConfig(r)
      PROVE  OneCluster'
  BY <1>13 DEF RenderConfig, TypeOK, OneCluster, Goto, servers, artifacts
<1>14. ASSUME NEW r \in Runs, Install(r)
      PROVE  OneCluster'
  BY <1>14 DEF Install, TypeOK, OneCluster, Goto, servers, artifacts
<1>15. ASSUME NEW r \in Runs, StartServer(r)
      PROVE  OneCluster'
  <2>1. \A q \in Servers : member[q] # None => member'[q] = member[q]
    BY <1>15 DEF StartServer, Comes, ComesUp, TypeOK
  <2>2. at' = at \/ \E p \in {"ready", "failed"} : at' = [at EXCEPT ![r] = p]
    BY <1>15 DEF StartServer, Goto
  <2>3. \A q \in Runs : at'[q] = "succeeded" => at[q] = "succeeded"
    <3>1. at \in [Runs -> Positions]
      BY DEF TypeOK
    <3> QED BY <2>2, <3>1
  <2> QED BY <2>1, <2>3, ClusterKept
<1>16. ASSUME NEW r \in Runs, ServerReady(r)
      PROVE  OneCluster'
  BY <1>16 DEF ServerReady, TypeOK, OneCluster, Goto, servers, artifacts
<1>17. ASSUME NEW r \in Runs, CountServers(r)
      PROVE  OneCluster'
  <2>1. CASE Cardinality(ReadyNodes(Server(r))) = Len(Order(r))
    <3> DEFINE t == member[Server(r)]
    <3>1. ReadyNodes(Server(r)) \subseteq Servers
      BY DEF ReadyNodes
    <3>2. Cardinality(ReadyNodes(Server(r))) = Cardinality(Servers)
      BY <2>1, ConfigsAssumption DEF Order, TypeOK
    <3>3. ReadyNodes(Server(r)) = Servers
      BY <3>1, <3>2, ConfigsAssumption, FS_Subset
    <3>4. \A s \in Servers : member[s] = t
      BY <3>3 DEF ReadyNodes
    <3>5. up[Server(r)]
      BY <3>3 DEF ReadyNodes
    <3>6. t \in Runs
      BY <3>5 DEF Provided, TypeOK
    <3> HIDE DEF t
    <3>7. member' = member /\ at' = [at EXCEPT ![r] = "succeeded"]
      BY <1>17, <2>1 DEF CountServers, Goto, servers
    <3>8. \A q \in Runs : at'[q] = "succeeded" => \E u \in Runs : \A s \in Servers : member[s] = u
      BY <3>4, <3>6, <3>7 DEF TypeOK, OneCluster
    <3> QED BY <3>7, <3>8 DEF OneCluster
  <2>2. CASE Cardinality(ReadyNodes(Server(r))) # Len(Order(r))
    BY <1>17, <2>2 DEF CountServers, Goto, servers, TypeOK, OneCluster
  <2> QED BY <2>1, <2>2
<1>18. ASSUME NEW s \in Servers, ServiceRetries(s)
      PROVE  OneCluster'
  <2>1. \A q \in Servers : member[q] # None => member'[q] = member[q]
    BY <1>18 DEF ServiceRetries, Comes, ComesUp, TypeOK
  <2>2. at' = at
    BY <1>18 DEF ServiceRetries, artifacts
  <2> QED BY <2>1, <2>2, ClusterKept
<1>19. ASSUME NEW s \in Servers, GoesDown(s)
      PROVE  OneCluster'
  BY <1>19 DEF GoesDown, TypeOK, OneCluster, Goto, artifacts
<1> QED
  BY <1>1, <1>2, <1>3, <1>4, <1>5, <1>6, <1>7, <1>8, <1>9, <1>10, <1>11, <1>12, <1>13, <1>14, <1>15, <1>16, <1>17, <1>18, <1>19 DEF Next, RunStep, Prepares, Fetches, Role

\* The invariant holds at first and for ever.
LEMMA InitialInv ==
  ASSUME Init
  PROVE  Inv
<1>1. \A r \in Runs : config[r] \in Configs /\ host[r] = 1
  BY DEF Init, ArtifactsInit
<1>2. Cardinality(Servers) \in Nat /\ Cardinality(Servers) > 0
  BY ConfigsAssumption, FS_CardinalityType, FS_EmptySet
<1>3. \A r \in Runs : host[r] \in 1..Len(Order(r))
  BY <1>1, <1>2, ConfigsAssumption DEF Order
<1>4. \A v \in {c.version : c \in Configs} : File(v, {}, FALSE) \in FileType
  BY FileIsRecord DEF FileType, Releases
<1>5. cached \in [Files -> FileType] /\ manifest = None
  BY <1>4 DEF Init, ArtifactsInit, FileType
<1>6. None \in FileType /\ "binary" \in Files /\ faults \in 0..MaxFaults /\ "idle" \in Positions
  BY ConfigsAssumption DEF Init, ArtifactsInit, Files, FileType, Positions
<1>7. /\ config \in [Runs -> Configs] /\ at \in [Runs -> Positions] /\ file \in [Runs -> Files]
      /\ part \in [Files -> FileType] /\ host \in [Runs -> Nat] /\ absent \in [Runs -> BOOLEAN]
      /\ overlap \in BOOLEAN
  BY <1>6 DEF Init, ArtifactsInit
<1>8. /\ remote \in [Servers -> [Files -> FileType]]
      /\ bin \in [Servers -> {None} \cup Installs] /\ conf \in [Servers -> {None} \cup Settings]
      /\ wanted \in [Servers -> BOOLEAN] /\ member \in [Servers -> {None} \cup Runs]
      /\ up \in [Servers -> BOOLEAN]
  BY <1>6 DEF Init
<1>9. TypeOK
  BY <1>3, <1>5, <1>6, <1>7, <1>8 DEF TypeOK
<1>10. Provided /\ WrongIsCaught /\ OneCluster
  BY DEF Init, ArtifactsInit, Provided, WrongIsCaught, OneCluster
<1> QED BY <1>9, <1>10 DEF Inv

\* A step that changes nothing keeps the invariant.
LEMMA Stutter ==
  ASSUME Inv, UNCHANGED vars
  PROVE  Inv'
BY DEF Inv, vars, artifacts, servers, TypeOK, Provided, WrongIsCaught, OneCluster, Order, Server, Version

\* The inductive invariant, for every number of runs and servers.
THEOREM LocalInvariant == Spec => []Inv
<1>1. Inv /\ [Next]_vars => Inv'
  BY TypeStep, ProvidedStep, WrongStep, ClusterStep, Stutter DEF Inv
<1> QED BY <1>1, InitialInv, PTL DEF Spec

\* Every variable stays within its values: no run copies a file that is not there or
\* starts a server without RKE2 or configuration (role local_rke2).
THEOREM LocalTypeCorrect == Spec => []TypeOK
<1>1. Inv => TypeOK
  BY DEF Inv
<1> QED BY <1>1, LocalInvariant, PTL

\* What a run that succeeded has installed is the release approved for it, whatever
\* other runs put into the cache (role local_rke2, "Transfer the approved binary").
THEOREM InstallsWhatWasApproved == Spec => []InstalledAsApproved
<1>1. Inv => InstalledAsApproved
  BY DEF Inv, WrongIsCaught, InstalledAsApproved
<1> QED BY <1>1, LocalInvariant, PTL

\* A run that succeeded has left its servers in one cluster, for good, whatever other
\* runs do to them then ("Require three Ready servers").
THEOREM OneClusterForGood == Spec => []SuccessIsOneCluster
<1>1. Inv => SuccessIsOneCluster
  BY ServerType DEF Inv, OneCluster, SuccessIsOneCluster
<1> QED BY <1>1, LocalInvariant, PTL
-----------------------------------------------------------------------------
\* What RerunSucceeds asks for.
Undisturbed ==
  /\ faults = 0 /\ ~overlap
  /\ \A r, q \in Runs : Asked(r) = <<Version(q), "online">>

\* What an undisturbed run downloads.
Own(r) == File(Version(r), {}, FALSE)
Fetching == {"prepare", "fetch", "write", "move", "verify", "manifest"}
Copying == {"copyBinary", "copyChecksum", "configure", "install"}
AtServer == {"artifacts", "inspect", "start", "ready"} \cup Copying

\* The .part file is the one the run is at, and what is in place is its own.
Fetched(r) ==
  /\ at[r] \in {"prepare"} => file[r] = "binary"
  /\ at[r] \in {"write", "move"} =>
       /\ part[file[r]] = IF at[r] = "write" THEN File(Version(r), {r}, FALSE) ELSE Own(r)
       /\ \A f \in Files : f # file[r] => part[f] = None
  /\ at[r] \in {"fetch", "write", "move"} /\ file[r] = "checksum" => cached["binary"] = Own(r)
  /\ at[r] \in {"verify", "manifest"} \cup AtServer => \A f \in Files : cached[f] = Own(r)
  /\ at[r] \in AtServer => manifest = Asked(r)

\* What it copied to the server is its own, and so is the configuration.
Delivered(r) ==
  /\ at[r] \in {"copyChecksum", "configure", "install"} => remote[Server(r)]["binary"] = Own(r)
  /\ at[r] \in {"configure", "install"} => remote[Server(r)]["checksum"] = Own(r)
  /\ at[r] \in {"install", "start"} =>
       conf[Server(r)] = [token |-> r, server |-> IF host[r] = 1 THEN None ELSE Order(r)[1]]

\* A server without RKE2, one with it that is not started, and one of a cluster.
Idle(s) == ~wanted[s] /\ member[s] = None
Empty(s) == bin[s] = None /\ Idle(s)
HasRelease(s) == bin[s] # None /\ \A q \in Runs : bin[s].version = Version(q)
Serves(s, t) == HasRelease(s) /\ wanted[s] /\ up[s] /\ member[s] = t

AllEmpty == \A s \in Servers : Empty(s)
AllServe == \E t \in Runs : \A s \in Servers : Serves(s, t)

\* A run that installs has the servers before its position in a cluster of its own, and
\* those behind it are empty.
Installing(r) ==
  /\ \A i \in 1..Len(Order(r)) :
       /\ i < host[r] => Serves(Order(r)[i], r)
       /\ i > host[r] => Empty(Order(r)[i])
  /\ at[r] \in {"artifacts", "inspect"} \cup Copying => Empty(Server(r))
  /\ at[r] \in Copying => absent[r]
  /\ at[r] = "start" => HasRelease(Server(r)) /\ Idle(Server(r))
  /\ at[r] = "ready" => Serves(Server(r), r)

Keeping(r) == AllServe /\ (at[r] \in Copying => ~absent[r])

\* The servers as a run that is under way finds and leaves them.
Deployed(r) ==
  /\ at[r] \in Fetching => host[r] = 1 /\ (AllEmpty \/ AllServe)
  /\ at[r] \in AtServer => Keeping(r) \/ Installing(r)
  /\ at[r] = "count" => AllServe

Working(r) == Fetched(r) /\ Delivered(r) /\ Deployed(r)

\* Runs that follow each other undisturbed: one is under way at most, none has failed.
OneByOne ==
  /\ \A r \in Runs : at[r] # "failed"
  /\ \A r, q \in Runs : Busy(r) /\ Busy(q) => r = q
  /\ \A r \in Runs : at[r] = "idle" => file[r] = "binary" /\ host[r] = 1
LeftInOrder ==
  /\ \A f \in Files : cached[f] # None => cached[f].writers = {}
  /\ \A s \in Servers : wanted[s] => up[s]
  /\ (\A r \in Runs : at[r] \notin {"write", "move"}) => \A f \in Files : part[f] = None
  /\ (\A r \in Runs : ~Busy(r)) => AllEmpty \/ AllServe
Quiet == OneByOne /\ LeftInOrder /\ \A r \in Runs : Busy(r) => Working(r)
RerunInv == Undisturbed => Quiet

\* Runs of which none is disturbed ask for one release, online.
LEMMA SameRelease ==
  ASSUME Undisturbed
  PROVE  \A r, q \in Runs : Version(r) = Version(q) /\ config[r].mode = "online"
<1> SUFFICES ASSUME NEW r \in Runs, NEW q \in Runs
             PROVE  Version(r) = Version(q) /\ config[r].mode = "online"
  OBVIOUS
<1>1. <<config[r].version, config[r].mode>> = <<Version(q), "online">>
  BY DEF Undisturbed, Asked
<1> QED BY <1>1 DEF Version

\* An order names every server, and each once.
LEMMA OrderNames ==
  ASSUME TypeOK
  PROVE  \A r \in Runs :
           /\ \A s \in Servers : \E i \in 1..Len(Order(r)) : Order(r)[i] = s
           /\ \A i, j \in 1..Len(Order(r)) : Order(r)[i] = Order(r)[j] => i = j
<1> SUFFICES ASSUME NEW r \in Runs
             PROVE  /\ \A s \in Servers : \E i \in 1..Len(Order(r)) : Order(r)[i] = s
                    /\ \A i, j \in 1..Len(Order(r)) : Order(r)[i] = Order(r)[j] => i = j
  OBVIOUS
<1>1. config[r] \in Configs
  BY DEF TypeOK
<1>2. \A s \in Servers : \E i \in 1..Len(Order(r)) :
        \A j \in 1..Len(Order(r)) : Order(r)[j] = s <=> j = i
  BY <1>1, ConfigsAssumption DEF Order
<1>3. \A i \in 1..Len(Order(r)) : Order(r)[i] \in Servers
  BY ServerType
<1>4. \A s \in Servers : \E i \in 1..Len(Order(r)) : Order(r)[i] = s
  BY <1>2
<1>5. \A i, j \in 1..Len(Order(r)) : Order(r)[i] = Order(r)[j] => i = j
  BY <1>2, <1>3
<1> QED BY <1>4, <1>5

\* The file a run has downloaded is whole and verifies.
LEMMA OwnFile ==
  ASSUME TypeOK, NEW r \in Runs
  PROVE  /\ Own(r) # None /\ Own(r).writers = {} /\ Own(r).torn = FALSE
         /\ Own(r).version = Version(r) /\ Verifies(Own(r), Own(r))
         /\ File(Version(r), {r}, FALSE) # None
<1>1. Version(r) \in Releases
  BY ServerType
<1>2. Own(r) # None /\ File(Version(r), {r}, FALSE) # None
  BY <1>1, FileIsRecord DEF Own
<1>3. Own(r).writers = {} /\ Own(r).torn = FALSE /\ Own(r).version = Version(r)
  BY DEF Own, File
<1>4. Version(r) # Mixed
  BY <1>1, NoneAssumption
<1> QED BY <1>2, <1>3, <1>4 DEF Verifies, Whole

\* Nobody else moves when the one run under way takes a step.
LEMMA OneMoves ==
  ASSUME Inv, Quiet, NEW r \in Runs, Busy(r),
         at'[r] \notin {"idle", "failed"},
         \A q \in Runs : q # r => at'[q] = at[q] /\ file'[q] = file[q] /\ host'[q] = host[q],
         \A f \in Files : cached'[f] # None => cached'[f].writers = {},
         \A s \in Servers : wanted'[s] => up'[s],
         at'[r] \in {"write", "move"} \/ \A f \in Files : part'[f] = None,
         Busy(r)' => Working(r)',
         Busy(r)' \/ AllEmpty' \/ AllServe'
  PROVE  Quiet'
<1>1. \A q \in Runs : q # r => ~Busy(q)
  BY DEF Quiet, OneByOne
<1>2. \A q \in Runs : q # r => ~Busy(q)'
  BY <1>1 DEF Busy
<1>3. OneByOne'
  BY <1>2 DEF Quiet, OneByOne
<1>4. LeftInOrder'
  <2>1. (\A q \in Runs : ~Busy(q)') => AllEmpty' \/ AllServe'
    OBVIOUS
  <2>2. (\A q \in Runs : at'[q] \notin {"write", "move"}) => \A f \in Files : part'[f] = None
    OBVIOUS
  <2> QED BY <2>1, <2>2 DEF LeftInOrder
<1>5. \A q \in Runs : Busy(q)' => Working(q)'
  BY <1>2
<1> QED BY <1>3, <1>4, <1>5 DEF Quiet

\* What is said of the servers lasts while they do.
LEMMA SameServers ==
  ASSUME UNCHANGED <<config, bin, wanted, up, member>>
  PROVE  /\ \A s \in Servers : Empty(s) => Empty(s)'
         /\ \A s \in Servers : HasRelease(s) => HasRelease(s)'
         /\ \A s \in Servers : Idle(s) => Idle(s)'
         /\ \A s \in Servers, t \in Runs : Serves(s, t) => Serves(s, t)'
         /\ AllEmpty => AllEmpty'
         /\ AllServe => AllServe'
<1>1. \A s \in Servers : Empty(s) => Empty(s)'
  BY DEF Empty, Idle
<1>2. \A s \in Servers : HasRelease(s) => HasRelease(s)'
  BY DEF HasRelease, Version
<1>3. \A s \in Servers : Idle(s) => Idle(s)'
  BY DEF Idle
<1>4. \A s \in Servers, t \in Runs : Serves(s, t) => Serves(s, t)'
  BY <1>2 DEF Serves
<1>5. AllEmpty => AllEmpty'
  BY <1>1 DEF AllEmpty
<1>6. AllServe => AllServe'
  BY <1>4 DEF AllServe
<1> QED BY <1>1, <1>2, <1>3, <1>4, <1>5, <1>6

\* A run that begins finds the servers as the last one left them.
LEMMA QuietBegins ==
  ASSUME Inv, Undisturbed', Quiet, NEW r \in Runs, Begin(r)
  PROVE  Quiet'
<1>1. \A q \in Runs : ~Busy(q)
  BY DEF Begin, Undisturbed
<1>2. /\ at[r] = "idle" /\ at' = [at EXCEPT ![r] = "prepare"]
      /\ UNCHANGED <<config, file, part, cached, manifest, host, bin, conf, wanted, member, up>>
  BY DEF Begin, Goto, artifacts, servers
<1>3. at'[r] = "prepare" /\ \A q \in Runs : q # r => at'[q] = at[q]
  BY <1>2 DEF Inv, TypeOK
<1>4. \A q \in Runs : q # r => ~Busy(q)'
  BY <1>1, <1>3 DEF Busy
<1>5. \A q \in Runs : at[q] \notin {"write", "move"}
  BY <1>1 DEF Busy
<1>6. \A f \in Files : part[f] = None
  BY <1>5 DEF Quiet, LeftInOrder
<1>7. AllEmpty \/ AllServe
  BY <1>1 DEF Quiet, LeftInOrder
<1>8. AllEmpty' \/ AllServe'
  BY <1>2, <1>7, SameServers
<1>9. Busy(r)'
  BY <1>3 DEF Busy
<1>10. file[r] = "binary" /\ host[r] = 1
  BY <1>2 DEF Quiet, OneByOne
<1>11. Working(r)'
  <2>1. Fetched(r)' /\ Delivered(r)'
    BY <1>2, <1>3, <1>10 DEF Fetched, Delivered, AtServer, Copying
  <2>2. Deployed(r)'
    BY <1>2, <1>3, <1>8, <1>10 DEF Deployed, AtServer, Copying
  <2> QED BY <2>1, <2>2 DEF Working
<1>12. OneByOne'
  BY <1>2, <1>3, <1>4 DEF Quiet, OneByOne
<1>13. LeftInOrder'
  BY <1>2, <1>6, <1>9 DEF Quiet, LeftInOrder
<1> QED BY <1>4, <1>11, <1>12, <1>13 DEF Quiet

\* While a run prepares its artifacts the servers stay as they were.
LEMMA Unpacked ==
  ASSUME Quiet, NEW r \in Runs, at[r] \in Fetching, at'[r] \in Fetching,
         UNCHANGED <<config, host, bin, wanted, up, member>>
  PROVE  Delivered(r)' /\ Deployed(r)'
<1>1. host[r] = 1 /\ (AllEmpty \/ AllServe)
  BY DEF Quiet, Busy, Fetching, Working, Deployed
<1>2. host'[r] = 1 /\ (AllEmpty' \/ AllServe')
  BY <1>1, SameServers
<1> QED BY <1>2 DEF Delivered, Deployed, Fetching, AtServer, Copying

\* A run that downloads finds no other at its files, and what it puts in place is its own.
LEMMA QuietFetches ==
  ASSUME Inv, Undisturbed, Quiet, NEW r \in Runs,
         Prepare(r) \/ Open(r) \/ Write(r) \/ Move(r) \/ VerifyReleaseFile(r), UNCHANGED servers
  PROVE  Quiet'
<1> DEFINE Same == UNCHANGED <<config, host, bin, wanted, up, member>>
<1>1. /\ at[r] \in {"prepare", "fetch", "write", "move", "verify"} /\ Same
      /\ UNCHANGED <<conf, manifest>>
  BY DEF Prepare, Open, Write, Move, VerifyReleaseFile, servers
<1>2. Busy(r) /\ at[r] \in Fetching
  BY <1>1 DEF Busy, Fetching
<1>3. Fetched(r)
  BY <1>2 DEF Quiet, Working
<1>4. at \in [Runs -> Positions] /\ file \in [Runs -> Files] /\ file[r] \in Files
      /\ part \in [Files -> FileType] /\ cached \in [Files -> FileType]
  BY DEF Inv, TypeOK
<1>5. Own(r)' = Own(r) /\ Version(r)' = Version(r)
  BY <1>1 DEF Own, Version
<1>6. \A f \in Files : cached[f] # None => cached[f].writers = {}
  BY DEF Quiet, LeftInOrder
<1>7. \A s \in Servers : wanted'[s] => up'[s]
  BY <1>1 DEF Quiet, LeftInOrder
<1>8. at[r] \notin {"write", "move"} => \A f \in Files : part[f] = None
  BY <1>2 DEF Quiet, OneByOne, LeftInOrder, Busy
<1>9. ASSUME at'[r] \in Fetching,
             \A q \in Runs : q # r => at'[q] = at[q] /\ file'[q] = file[q],
             \A f \in Files : cached'[f] # None => cached'[f].writers = {},
             at'[r] \in {"write", "move"} \/ \A f \in Files : part'[f] = None,
             Fetched(r)'
      PROVE  Quiet'
  <2>1. Delivered(r)' /\ Deployed(r)'
    BY <1>1, <1>2, <1>9, Unpacked
  <2>2. Working(r)'
    BY <1>9, <2>1 DEF Working
  <2>3. Busy(r)' /\ at'[r] \notin {"idle", "failed"}
    BY <1>9 DEF Busy, Fetching
  <2>4. \A q \in Runs : q # r => host'[q] = host[q]
    BY <1>1
  <2> HIDE DEF Same
  <2> QED BY <1>2, <1>7, <1>9, <2>2, <2>3, <2>4, OneMoves
<1>10. CASE Prepare(r)
  <2>1. config[r].mode = "online"
    BY SameRelease
  <2>2. at' = [at EXCEPT ![r] = "fetch"] /\ UNCHANGED <<file, part, cached>> /\ at[r] = "prepare"
    BY <1>10, <2>1 DEF Prepare, Goto
  <2>3. file[r] = "binary"
    BY <1>3, <2>2 DEF Fetched
  <2>4. at'[r] = "fetch" /\ file'[r] = "binary"
    BY <1>4, <2>2, <2>3
  <2>5. Fetched(r)'
    BY <2>4 DEF Fetched, AtServer, Copying
  <2> QED BY <1>4, <1>6, <1>8, <1>9, <2>2, <2>5 DEF Fetching
<1>11. CASE Open(r)
  <2>1. at[r] = "fetch" /\ at' = [at EXCEPT ![r] = "write"] /\ UNCHANGED <<file, cached>>
        /\ part' = [part EXCEPT ![file[r]] = Opened(part[file[r]], r)]
    BY <1>11 DEF Open, Goto
  <2>2. \A f \in Files : part[f] = None
    BY <1>8, <2>1
  <2>3. Opened(part[file[r]], r) = File(Version(r), {r}, FALSE)
    BY <1>4, <2>2 DEF Opened
  <2>4. at'[r] = "write" /\ part'[file[r]] = File(Version(r), {r}, FALSE)
        /\ \A f \in Files : f # file[r] => part'[f] = None
    BY <1>4, <2>1, <2>2, <2>3
  <2>5. file[r] = "checksum" => cached["binary"] = Own(r)
    BY <1>3, <2>1 DEF Fetched
  <2>6. Fetched(r)'
    BY <1>5, <2>1, <2>4, <2>5 DEF Fetched, AtServer, Copying
  <2> QED BY <1>4, <1>6, <1>9, <2>1, <2>6 DEF Fetching
<1>12. CASE Write(r)
  <2>1. at[r] = "write" /\ at' = [at EXCEPT ![r] = "move"] /\ file' = file
        /\ part' = [f \in Files |-> LetGo(part[f], r, FALSE)]
        /\ cached' = [f \in Files |-> LetGo(cached[f], r, FALSE)]
    BY <1>12 DEF Write, LetsGo, Goto
  <2>2. part[file[r]] = File(Version(r), {r}, FALSE)
        /\ \A f \in Files : f # file[r] => part[f] = None
    BY <1>3, <2>1 DEF Fetched
  <2>3. LetGo(File(Version(r), {r}, FALSE), r, FALSE) = Own(r)
    <3>1. File(Version(r), {r}, FALSE) # None
      BY OwnFile DEF Inv
    <3> QED BY <3>1 DEF LetGo, File, Own
  <2>4. part'[file[r]] = Own(r) /\ \A f \in Files : f # file[r] => part'[f] = None
    <3>1. LetGo(None, r, FALSE) = None
      BY DEF LetGo
    <3> QED BY <1>4, <2>1, <2>2, <2>3, <3>1
  <2>5. \A f \in Files : cached'[f] = cached[f]
    BY <1>6, <2>1 DEF LetGo
  <2>6. at'[r] = "move"
    BY <1>4, <2>1
  <2>7. file[r] = "checksum" => cached["binary"] = Own(r)
    BY <1>3, <2>1 DEF Fetched
  <2>8. Fetched(r)'
    BY <1>5, <2>1, <2>4, <2>5, <2>6, <2>7 DEF Fetched, AtServer, Copying, Files
  <2> QED BY <1>4, <1>6, <1>9, <2>1, <2>5, <2>6, <2>8 DEF Fetching
<1>13. CASE Move(r)
  <2>1. at[r] = "move"
    BY <1>13 DEF Move
  <2>2. part[file[r]] = Own(r) /\ \A f \in Files : f # file[r] => part[f] = None
    BY <1>3, <2>1 DEF Fetched
  <2>3. Own(r) # None /\ Own(r).writers = {}
    BY OwnFile DEF Inv
  <2>4. /\ cached' = [cached EXCEPT ![file[r]] = Own(r)]
        /\ part' = [part EXCEPT ![file[r]] = None]
        /\ file' = [file EXCEPT ![r] = "checksum"]
        /\ at' = [at EXCEPT ![r] = IF file[r] = "binary" THEN "fetch" ELSE "verify"]
    BY <1>13, <2>2, <2>3 DEF Move, Goto
  <2> HIDE DEF Same
  <2>5. /\ \A f \in Files : part'[f] = None
        /\ \A f \in Files : cached'[f] # None => cached'[f].writers = {}
    BY <1>4, <1>6, <2>2, <2>3, <2>4
  <2>6. at'[r] = IF file[r] = "binary" THEN "fetch" ELSE "verify"
    BY <1>4, <2>4
  <2>7. file[r] = "checksum" => cached["binary"] = Own(r)
    BY <1>3, <2>1 DEF Fetched
  <2>8. file[r] = "binary" => cached'["binary"] = Own(r)
    BY <1>4, <2>4
  <2>9. file[r] # "binary" => \A f \in Files : cached'[f] = Own(r)
    BY <1>4, <2>4, <2>7 DEF Files
  <2>10. Fetched(r)'
    BY <1>4, <1>5, <2>6, <2>8, <2>9 DEF Fetched, AtServer, Copying, Files
  <2>11. at'[r] \in Fetching
    BY <2>6 DEF Fetching
  <2>12. \A q \in Runs : q # r => at'[q] = at[q] /\ file'[q] = file[q]
    BY <2>4, <1>4
  <2> QED BY <1>9, <2>5, <2>10, <2>11, <2>12
<1>14. CASE VerifyReleaseFile(r)
  <2>1. at[r] = "verify"
    BY <1>14 DEF VerifyReleaseFile
  <2>2. \A f \in Files : cached[f] = Own(r)
    BY <1>3, <2>1 DEF Fetched
  <2>3. Verifies(cached["binary"], cached["checksum"])
    BY <2>2, OwnFile DEF Inv, Files
  <2>4. at' = [at EXCEPT ![r] = "manifest"] /\ UNCHANGED <<file, part, cached>>
    BY <1>14, <2>3 DEF VerifyReleaseFile, Goto
  <2>5. at'[r] = "manifest"
    BY <1>4, <2>4
  <2>6. Fetched(r)'
    BY <1>5, <2>2, <2>4, <2>5 DEF Fetched, AtServer, Copying
  <2> QED BY <1>4, <1>6, <1>8, <1>9, <2>1, <2>4, <2>5, <2>6 DEF Fetching
<1> QED BY <1>10, <1>11, <1>12, <1>13, <1>14

\* The manifest is written, and the playbook begins with the first server.
LEMMA QuietWritesManifest ==
  ASSUME Inv, Quiet, NEW r \in Runs, WriteManifest(r), UNCHANGED servers
  PROVE  Quiet'
<1>1. /\ at[r] = "manifest" /\ at' = [at EXCEPT ![r] = "artifacts"] /\ manifest' = Asked(r)
      /\ UNCHANGED <<config, file, part, cached, host, bin, conf, wanted, member, up>>
  BY DEF WriteManifest, Goto, servers
<1>2. at'[r] = "artifacts" /\ \A q \in Runs : q # r => at'[q] = at[q]
  BY <1>1 DEF Inv, TypeOK
<1>3. Busy(r) /\ Busy(r)' /\ at[r] \in Fetching
  BY <1>1, <1>2 DEF Busy, Fetching
<1>4. Fetched(r) /\ Deployed(r)
  BY <1>3 DEF Quiet, Working
<1>5. \A f \in Files : cached[f] = Own(r)
  BY <1>1, <1>4 DEF Fetched
<1>6. Fetched(r)' /\ Delivered(r)'
  BY <1>1, <1>2, <1>5 DEF Fetched, Delivered, AtServer, Copying, Own, Version, Asked
<1>7. host[r] = 1 /\ (AllEmpty \/ AllServe)
  BY <1>3, <1>4 DEF Deployed
<1>8. AllServe' => Keeping(r)'
  BY <1>2 DEF Keeping, Copying
<1>9. AllEmpty' => Installing(r)'
  <2>1. Server(r)' \in Servers /\ \A i \in 1..Len(Order(r)') : Order(r)'[i] \in Servers
    BY <1>1, ServerType DEF Inv, Server, Order
  <2>2. host'[r] = 1
    BY <1>1, <1>7
  <2>3. Len(Order(r)') \in Nat
    BY <1>1, ServerType DEF Inv, Order
  <2> QED BY <1>2, <2>1, <2>2, <2>3 DEF AllEmpty, Installing, Copying
<1>10. AllEmpty' \/ AllServe'
  BY <1>1, <1>7, SameServers
<1>11. Deployed(r)'
  BY <1>2, <1>8, <1>9, <1>10 DEF Deployed, Fetching
<1>12. Working(r)'
  BY <1>6, <1>11 DEF Working
<1>13. at[r] \notin {"write", "move"} => \A f \in Files : part[f] = None
  BY <1>3 DEF Quiet, OneByOne, LeftInOrder, Busy
<1>14. /\ \A f \in Files : cached'[f] # None => cached'[f].writers = {}
       /\ \A s \in Servers : wanted'[s] => up'[s]
       /\ \A f \in Files : part'[f] = None
  BY <1>1, <1>13 DEF Quiet, LeftInOrder
<1> QED BY <1>1, <1>2, <1>3, <1>12, <1>14, OneMoves

\* At a server only what the action does to it is left to show.
LEMMA RoleMoves ==
  ASSUME Inv, Quiet, NEW r \in Runs, at[r] \in AtServer, UNCHANGED artifacts,
         NEW p \in AtServer \cup {"count"}, at' = [at EXCEPT ![r] = p],
         \A q \in Runs : q # r => host'[q] = host[q],
         \A s \in Servers : wanted'[s] => up'[s],
         Delivered(r)', Deployed(r)'
  PROVE  Quiet'
<1>1. at'[r] = p /\ \A q \in Runs : q # r => at'[q] = at[q]
  BY DEF Inv, TypeOK
<1>2. UNCHANGED <<config, file, part, cached, manifest>>
  BY DEF artifacts
<1>3. Busy(r) /\ Busy(r)' /\ at'[r] \notin {"idle", "failed"}
  BY <1>1 DEF Busy, AtServer, Copying
<1>4. Fetched(r)
  BY <1>3 DEF Quiet, Working
<1>5. (\A f \in Files : cached[f] = Own(r)) /\ manifest = Asked(r)
  BY <1>4 DEF Fetched
<1>6. (\A f \in Files : cached'[f] = Own(r)') /\ manifest' = Asked(r)'
  BY <1>2, <1>5 DEF Own, Version, Asked
<1>7. Fetched(r)'
  BY <1>1, <1>6 DEF Fetched, AtServer, Copying
<1>8. Working(r)'
  BY <1>7 DEF Working
<1>9. \A q \in Runs : at[q] \notin {"write", "move"}
  BY <1>3 DEF Quiet, OneByOne, Busy, AtServer, Copying
<1>10. \A f \in Files : part'[f] = None
  BY <1>2, <1>9 DEF Quiet, LeftInOrder
<1>11. \A f \in Files : cached'[f] # None => cached'[f].writers = {}
  BY <1>2 DEF Quiet, LeftInOrder
<1>12. \A q \in Runs : q # r => at'[q] = at[q] /\ file'[q] = file[q] /\ host'[q] = host[q]
  BY <1>1, <1>2
<1> QED BY <1>3, <1>8, <1>10, <1>11, <1>12, OneMoves

\* A run at a server is about to install it, or all servers serve already.
LEMMA AtWork ==
  ASSUME Quiet, NEW r \in Runs, at[r] \in AtServer
  PROVE  Delivered(r) /\ (Keeping(r) \/ Installing(r)) /\ \A f \in Files : cached[f] = Own(r)
BY DEF Quiet, Busy, Working, Deployed, Fetched, AtServer, Copying

\* What happens at one server leaves the others of an installation as they were.
LEMMA OthersRemain ==
  ASSUME Inv, NEW r \in Runs, Installing(r), config' = config, host'[r] = host[r],
         \A s \in Servers : s # Server(r) =>
           bin'[s] = bin[s] /\ wanted'[s] = wanted[s] /\ up'[s] = up[s] /\ member'[s] = member[s]
  PROVE  /\ Order(r)' = Order(r) /\ Server(r)' = Server(r)
         /\ \A i \in 1..Len(Order(r)) :
              /\ i < host[r] => Serves(Order(r)[i], r)'
              /\ i > host[r] => Empty(Order(r)[i])'
<1>1. Order(r)' = Order(r) /\ Server(r)' = Server(r)
  BY DEF Order, Server
<1>2. /\ host[r] \in 1..Len(Order(r)) /\ Len(Order(r)) \in Nat
      /\ \A i \in 1..Len(Order(r)) : Order(r)[i] \in Servers
  BY ServerType DEF Inv, TypeOK
<1> SUFFICES ASSUME NEW i \in 1..Len(Order(r))
             PROVE  /\ i < host[r] => Serves(Order(r)[i], r)'
                    /\ i > host[r] => Empty(Order(r)[i])'
  BY <1>1
<1>3. i # host[r] => Order(r)[i] # Server(r)
  BY <1>2, OrderNames DEF Inv, Server
<1> DEFINE s == Order(r)[i]
<1>4. s \in Servers /\ s' = s
  BY <1>1, <1>2
<1>5. (i < host[r] => Serves(s, r)) /\ (i > host[r] => Empty(s))
  BY DEF Installing
<1>6. i # host[r] =>
        bin'[s] = bin[s] /\ wanted'[s] = wanted[s] /\ up'[s] = up[s] /\ member'[s] = member[s]
  BY <1>3, <1>4
<1>7. \A q \in Runs : Version(q)' = Version(q)
  BY DEF Version
<1> HIDE DEF s
<1>8. i < host[r] => Serves(s, r)'
  BY <1>2, <1>4, <1>5, <1>6, <1>7 DEF Serves, HasRelease
<1>9. i > host[r] => Empty(s)'
  BY <1>2, <1>4, <1>5, <1>6 DEF Empty, Idle
<1> QED BY <1>4, <1>8, <1>9 DEF s

\* The cache is what the run left there, and an empty server or one of its release is fine.
LEMMA QuietInspects ==
  ASSUME Inv, Undisturbed, Quiet, NEW r \in Runs, CheckArtifacts(r) \/ InspectExisting(r)
  PROVE  Quiet'
<1>1. at[r] \in {"artifacts", "inspect"} /\ UNCHANGED <<host, conf, remote, bin, wanted, member, up>>
      /\ UNCHANGED artifacts
  BY DEF CheckArtifacts, InspectExisting, servers
<1>2. at[r] \in AtServer
  BY <1>1 DEF AtServer
<1>3. UNCHANGED <<config, file, part, cached, manifest>>
  BY <1>1 DEF artifacts
<1>4. (Keeping(r) \/ Installing(r)) /\ \A f \in Files : cached[f] = Own(r)
  BY <1>2, AtWork
<1>5. Server(r) \in Servers
  BY ServerType DEF Inv
<1>6. \A s \in Servers : wanted'[s] => up'[s]
  BY <1>1 DEF Quiet, LeftInOrder
<1>7. at \in [Runs -> Positions] /\ absent \in [Runs -> BOOLEAN]
  BY DEF Inv, TypeOK
<1>8. Installing(r) =>
         /\ Order(r)' = Order(r) /\ Server(r)' = Server(r)
         /\ \A i \in 1..Len(Order(r)) :
              /\ i < host[r] => Serves(Order(r)[i], r)'
              /\ i > host[r] => Empty(Order(r)[i])'
         /\ Empty(Server(r))'
  <2>1. SUFFICES ASSUME Installing(r) PROVE Empty(Server(r))'
    BY <1>1, <1>3, OthersRemain
  <2>2. Empty(Server(r))
    BY <1>1, <2>1 DEF Installing
  <2>3. Server(r)' = Server(r)
    BY <1>1, <1>3 DEF Server, Order
  <2> QED BY <1>1, <2>2, <2>3 DEF Empty, Idle
<1>9. AllServe => AllServe'
  BY <1>1, <1>3, SameServers
<1>10. CASE CheckArtifacts(r)
  <2>1. manifest = Asked(r)
    BY <1>2 DEF Quiet, Working, Fetched, Busy, AtServer, Copying
  <2>2. Verifies(cached["binary"], cached["checksum"])
    BY <1>4, OwnFile DEF Inv, Files
  <2>3. at' = [at EXCEPT ![r] = "inspect"]
    BY <1>10, <2>1, <2>2 DEF CheckArtifacts, Goto
  <2>4. at'[r] = "inspect"
    BY <1>7, <2>3
  <2>5. Keeping(r) => Keeping(r)'
    BY <1>9, <2>4 DEF Keeping, Copying
  <2>6. Installing(r) => Installing(r)'
    BY <1>1, <1>8, <2>4 DEF Installing, Copying
  <2>7. Delivered(r)' /\ Deployed(r)'
    BY <1>4, <2>4, <2>5, <2>6 DEF Delivered, Deployed, Fetching, AtServer, Copying
  <2>8. "inspect" \in AtServer \cup {"count"}
    BY DEF AtServer
  <2> QED BY <1>1, <1>2, <1>6, <2>3, <2>7, <2>8, RoleMoves
<1>11. CASE InspectExisting(r)
  <2>1. bin[Server(r)] = None \/ bin[Server(r)].version = Version(r)
    <3>1. CASE Keeping(r)
      BY <1>5, <3>1 DEF Keeping, AllServe, Serves, HasRelease
    <3>2. CASE Installing(r)
      BY <1>1, <3>2 DEF Installing, Empty
    <3> QED BY <1>4, <3>1, <3>2
  <2>2. /\ at' = [at EXCEPT ![r] = "copyBinary"]
        /\ absent' = [absent EXCEPT ![r] = bin[Server(r)] = None]
    BY <1>11, <2>1 DEF InspectExisting, Shows, Goto
  <2>3. at'[r] = "copyBinary" /\ absent'[r] = (bin[Server(r)] = None)
    BY <1>7, <2>2
  <2>4. Keeping(r) => Keeping(r)'
    BY <1>5, <1>9, <2>3 DEF Keeping, Copying, AllServe, Serves, HasRelease
  <2>5. Installing(r) => Installing(r)'
    <3>1. SUFFICES ASSUME Installing(r) PROVE Installing(r)'
      OBVIOUS
    <3>2. absent'[r]
      BY <1>1, <2>3, <3>1 DEF Installing, Empty
    <3> QED BY <1>1, <1>8, <2>3, <3>1, <3>2 DEF Installing, Copying
  <2>6. Delivered(r)' /\ Deployed(r)'
    BY <1>4, <2>3, <2>4, <2>5 DEF Delivered, Deployed, Fetching, AtServer, Copying
  <2>7. "copyBinary" \in AtServer \cup {"count"}
    BY DEF AtServer, Copying
  <2> QED BY <1>1, <1>2, <1>6, <2>2, <2>6, <2>7, RoleMoves
<1> QED BY <1>10, <1>11

\* The files and the configuration are copied; no server notices.
LEMMA QuietCopies ==
  ASSUME Inv, Undisturbed, Quiet, NEW r \in Runs,
         TransferBinary(r) \/ TransferChecksum(r) \/ RenderConfig(r)
  PROVE  Quiet'
<1>1. /\ at[r] \in {"copyBinary", "copyChecksum", "configure"}
      /\ UNCHANGED <<host, absent, bin, wanted, member, up>> /\ UNCHANGED artifacts
  BY DEF TransferBinary, TransferChecksum, Transfer, RenderConfig
<1>2. at[r] \in AtServer /\ at[r] \in Copying
  BY <1>1 DEF AtServer, Copying
<1>3. UNCHANGED <<config, file, part, cached, manifest>>
  BY <1>1 DEF artifacts
<1>4. Delivered(r) /\ (Keeping(r) \/ Installing(r)) /\ \A f \in Files : cached[f] = Own(r)
  BY <1>2, AtWork
<1>5. Server(r) \in Servers /\ Server(r)' = Server(r) /\ Order(r)' = Order(r) /\ Own(r)' = Own(r)
  BY <1>1, <1>3, ServerType DEF Inv, Server, Order, Own, Version
<1>6. \A s \in Servers : wanted'[s] => up'[s]
  BY <1>1 DEF Quiet, LeftInOrder
<1>7. at \in [Runs -> Positions] /\ remote \in [Servers -> [Files -> FileType]]
      /\ conf \in [Servers -> {None} \cup Settings]
  BY DEF Inv, TypeOK
<1>8. ASSUME NEW p \in Copying, at' = [at EXCEPT ![r] = p], Delivered(r)'
      PROVE  Quiet'
  <2>1. at'[r] = p
    BY <1>7, <1>8
  <2>2. Keeping(r) => Keeping(r)'
    BY <1>1, <1>2, <1>3, <2>1, SameServers DEF Keeping
  <2>3. Installing(r) => Installing(r)'
    <3>1. SUFFICES ASSUME Installing(r) PROVE Installing(r)'
      OBVIOUS
    <3>2. Empty(Server(r)) /\ absent[r]
      BY <1>2, <3>1 DEF Installing
    <3>3. Empty(Server(r))'
      BY <1>1, <1>5, <3>2 DEF Empty, Idle
    <3>4. /\ \A i \in 1..Len(Order(r)) :
              /\ i < host[r] => Serves(Order(r)[i], r)'
              /\ i > host[r] => Empty(Order(r)[i])'
      BY <1>1, <1>3, <3>1, OthersRemain
    <3> QED BY <1>1, <1>5, <2>1, <3>2, <3>3, <3>4 DEF Installing, Copying
  <2>4. Deployed(r)'
    BY <1>4, <2>1, <2>2, <2>3 DEF Deployed, Fetching, AtServer, Copying
  <2>5. p \in AtServer \cup {"count"}
    BY DEF AtServer
  <2>6. \A q \in Runs : q # r => host'[q] = host[q]
    BY <1>1
  <2> QED BY <1>1, <1>2, <1>6, <1>8, <2>4, <2>5, <2>6, RoleMoves
<1>9. \A f \in Files : File(cached[f].version, {}, cached[f].torn \/ cached[f].writers # {}) = Own(r)
  <2>1. Own(r).writers = {} /\ Own(r).torn = FALSE /\ Own(r).version = Version(r)
    BY OwnFile DEF Inv
  <2> QED BY <1>4, <2>1 DEF Own, File
<1>10. CASE TransferBinary(r)
  <2>1. at' = [at EXCEPT ![r] = "copyChecksum"]
        /\ remote' = [remote EXCEPT ![Server(r)]["binary"] =
             File(cached["binary"].version, {}, cached["binary"].torn \/ cached["binary"].writers # {})]
    BY <1>10 DEF TransferBinary, Transfer, Goto
  <2>2. remote' = [remote EXCEPT ![Server(r)]["binary"] = Own(r)]
    BY <1>9, <2>1 DEF Files
  <2>3. remote'[Server(r)]["binary"] = Own(r)
    BY <1>5, <1>7, <2>2 DEF Files
  <2>4. at'[r] = "copyChecksum"
    BY <1>7, <2>1
  <2>5. Delivered(r)'
    BY <1>5, <2>3, <2>4 DEF Delivered
  <2>6. "copyChecksum" \in Copying
    BY DEF Copying
  <2> QED BY <1>8, <2>1, <2>5, <2>6
<1>11. CASE TransferChecksum(r)
  <2>1. at[r] = "copyChecksum" /\ at' = [at EXCEPT ![r] = "configure"]
        /\ remote' = [remote EXCEPT ![Server(r)]["checksum"] =
             File(cached["checksum"].version, {}, cached["checksum"].torn \/ cached["checksum"].writers # {})]
    BY <1>11 DEF TransferChecksum, Transfer, Goto
  <2>2. remote' = [remote EXCEPT ![Server(r)]["checksum"] = Own(r)]
    BY <1>9, <2>1 DEF Files
  <2>3. remote[Server(r)]["binary"] = Own(r)
    BY <1>4, <2>1 DEF Delivered
  <2>4. remote'[Server(r)]["binary"] = Own(r) /\ remote'[Server(r)]["checksum"] = Own(r)
    BY <1>5, <1>7, <2>2, <2>3 DEF Files
  <2>5. at'[r] = "configure"
    BY <1>7, <2>1
  <2>6. Delivered(r)'
    BY <1>5, <2>4, <2>5 DEF Delivered
  <2>7. "configure" \in Copying
    BY DEF Copying
  <2> QED BY <1>8, <2>1, <2>6, <2>7
<1>12. CASE RenderConfig(r)
  <2> DEFINE setting == [token |-> r, server |-> IF host[r] = 1 THEN None ELSE Order(r)[1]]
  <2>1. at[r] = "configure" /\ at' = [at EXCEPT ![r] = "install"] /\ remote' = remote
        /\ conf' = [conf EXCEPT ![Server(r)] = setting]
    BY <1>12 DEF RenderConfig, Goto
  <2>2. remote[Server(r)]["binary"] = Own(r) /\ remote[Server(r)]["checksum"] = Own(r)
    BY <1>4, <2>1 DEF Delivered
  <2>3. setting' = setting
    BY <1>1, <1>5
  <2>4. at'[r] = "install" /\ conf'[Server(r)] = setting
    BY <1>5, <1>7, <2>1
  <2>5. Delivered(r)'
    BY <1>5, <2>1, <2>2, <2>3, <2>4 DEF Delivered
  <2>6. "install" \in Copying
    BY DEF Copying
  <2> QED BY <1>8, <2>1, <2>5, <2>6
<1> QED BY <1>10, <1>11, <1>12

\* An empty server gets the release of the run, one that serves keeps its own.
LEMMA QuietInstalls ==
  ASSUME Inv, Undisturbed, Quiet, NEW r \in Runs, Install(r)
  PROVE  Quiet'
<1>1. /\ at[r] = "install" /\ UNCHANGED artifacts
      /\ UNCHANGED <<host, absent, remote, conf, wanted, member, up>>
  BY DEF Install
<1>2. at[r] \in AtServer /\ at[r] \in Copying
  BY <1>1 DEF AtServer, Copying
<1>3. config' = config
  BY <1>1 DEF artifacts
<1>4. Delivered(r) /\ (Keeping(r) \/ Installing(r))
  BY <1>2, AtWork
<1>5. Server(r) \in Servers /\ Server(r)' = Server(r) /\ Order(r)' = Order(r)
  BY <1>1, <1>3, ServerType DEF Inv, Server, Order
<1>6. \A s \in Servers : wanted'[s] => up'[s]
  BY <1>1 DEF Quiet, LeftInOrder
<1>7. at \in [Runs -> Positions] /\ bin \in [Servers -> {None} \cup Installs]
  BY DEF Inv, TypeOK
<1>8. Verifies(remote[Server(r)]["binary"], remote[Server(r)]["checksum"])
      /\ remote[Server(r)]["binary"].version = Version(r)
  <2>1. remote[Server(r)]["binary"] = Own(r) /\ remote[Server(r)]["checksum"] = Own(r)
    BY <1>1, <1>4 DEF Delivered
  <2> QED BY <2>1, OwnFile DEF Inv
<1>9. at' = [at EXCEPT ![r] = "start"]
  BY <1>8 DEF Install, Goto
<1>10. at'[r] = "start"
  BY <1>7, <1>9
<1>11. Delivered(r)'
  BY <1>1, <1>4, <1>5, <1>10 DEF Delivered
<1>12. Keeping(r) \/ Installing(r) => Keeping(r)' \/ Installing(r)'
  <2>1. CASE Keeping(r)
    <3>1. ~absent[r]
      BY <1>2, <2>1 DEF Keeping
    <3>2. bin' = bin
      BY <3>1 DEF Install
    <3>3. AllServe'
      BY <1>1, <1>3, <2>1, <3>2, SameServers DEF Keeping
    <3> QED BY <1>10, <3>3 DEF Keeping, Copying
  <2>2. CASE Installing(r)
    <3> DEFINE new == [version |-> Version(r), by |-> r]
    <3>1. absent[r] /\ Empty(Server(r))
      BY <1>2, <2>2 DEF Installing
    <3>2. bin' = [bin EXCEPT ![Server(r)] = new]
      BY <1>8, <3>1 DEF Install
    <3>3. new.version = Version(r) /\ new # None
      <4>1. Version(r) \in Releases
        BY ServerType DEF Inv
      <4>2. new \in Installs
        BY <4>1 DEF Installs
      <4> QED BY <4>2, NoneAssumption
    <3> HIDE DEF new
    <3>4. bin'[Server(r)] = new
      BY <1>5, <1>7, <3>2
    <3>5. \A q \in Runs : Version(q)' = Version(r)
      BY <1>3, SameRelease DEF Version
    <3>6. HasRelease(Server(r))'
      BY <1>5, <3>3, <3>4, <3>5 DEF HasRelease
    <3>7. Idle(Server(r))'
      BY <1>1, <1>5, <3>1 DEF Empty, Idle
    <3>8. \A s \in Servers : s # Server(r) =>
            bin'[s] = bin[s] /\ wanted'[s] = wanted[s] /\ up'[s] = up[s] /\ member'[s] = member[s]
      BY <1>1, <3>2, <1>7
    <3>9. \A i \in 1..Len(Order(r)) :
            /\ i < host[r] => Serves(Order(r)[i], r)'
            /\ i > host[r] => Empty(Order(r)[i])'
      BY <1>1, <1>3, <2>2, <3>8, OthersRemain
    <3>10. Installing(r)'
      BY <1>1, <1>5, <1>10, <3>6, <3>7, <3>9 DEF Installing, Copying
    <3> QED BY <3>10
  <2> QED BY <2>1, <2>2
<1>13. Deployed(r)'
  BY <1>4, <1>10, <1>12 DEF Deployed, Fetching
<1>14. "start" \in AtServer \cup {"count"}
  BY DEF AtServer
<1> QED BY <1>1, <1>2, <1>6, <1>9, <1>11, <1>13, <1>14, RoleMoves

\* The first server founds a cluster, the others find it up and join it, and a server that
\* was started before is left to itself.
LEMMA QuietStarts ==
  ASSUME Inv, Undisturbed, Quiet, NEW r \in Runs, StartServer(r)
  PROVE  Quiet'
<1>1. /\ at[r] = "start" /\ UNCHANGED artifacts /\ wanted' = [wanted EXCEPT ![Server(r)] = TRUE]
      /\ UNCHANGED <<host, absent, remote, bin, conf>>
  BY DEF StartServer
<1>2. at[r] \in AtServer
  BY <1>1 DEF AtServer
<1>3. config' = config
  BY <1>1 DEF artifacts
<1>4. Delivered(r) /\ (Keeping(r) \/ Installing(r))
  BY <1>2, AtWork
<1>5. Server(r) \in Servers /\ Server(r)' = Server(r) /\ Order(r)' = Order(r)
  BY <1>1, <1>3, ServerType DEF Inv, Server, Order
<1>6. /\ at \in [Runs -> Positions] /\ wanted \in [Servers -> BOOLEAN]
      /\ up \in [Servers -> BOOLEAN] /\ member \in [Servers -> {None} \cup Runs]
  BY DEF Inv, TypeOK
<1>7. "ready" \in AtServer \cup {"count"}
  BY DEF AtServer
<1>8. CASE Keeping(r)
  <2>1. \A s \in Servers : wanted[s]
    BY <1>8 DEF Keeping, AllServe, Serves
  <2>2. at' = [at EXCEPT ![r] = "ready"] /\ UNCHANGED <<up, member>>
    BY <1>5, <2>1 DEF StartServer, Goto
  <2>3. wanted' = wanted
    BY <1>1, <1>5, <1>6, <2>1
  <2>4. AllServe'
    BY <1>1, <1>3, <1>8, <2>2, <2>3, SameServers DEF Keeping
  <2>5. at'[r] = "ready"
    BY <1>6, <2>2
  <2>6. Delivered(r)' /\ Deployed(r)'
    BY <2>4, <2>5 DEF Delivered, Deployed, Keeping, Fetching, Copying
  <2>7. \A s \in Servers : wanted'[s] => up'[s]
    BY <2>2, <2>3 DEF Quiet, LeftInOrder
  <2> QED BY <1>1, <1>2, <1>7, <2>2, <2>6, <2>7, RoleMoves
<1>9. CASE Installing(r)
  <2>1. HasRelease(Server(r)) /\ Idle(Server(r))
    BY <1>1, <1>9 DEF Installing
  <2>2. conf[Server(r)] = [token |-> r, server |-> IF host[r] = 1 THEN None ELSE Order(r)[1]]
    BY <1>1, <1>4 DEF Delivered
  <2>3. conf[Server(r)].token = r
        /\ conf[Server(r)].server = IF host[r] = 1 THEN None ELSE Order(r)[1]
    BY <2>2
  <2>4. host[r] # 1 => up[Order(r)[1]] /\ member[Order(r)[1]] = r
    <3>1. host[r] \in 1..Len(Order(r)) /\ Len(Order(r)) \in Nat
      BY ServerType DEF Inv, TypeOK
    <3>2. host[r] # 1 => 1 \in 1..Len(Order(r)) /\ 1 < host[r]
      BY <3>1
    <3>3. host[r] # 1 => Serves(Order(r)[1], r)
      BY <1>9, <3>2 DEF Installing
    <3> QED BY <3>3 DEF Serves
  <2>5. ComesUp(Server(r))
    BY <2>1, <2>3, <2>4 DEF ComesUp, HasRelease, Idle
  <2>6. /\ at' = [at EXCEPT ![r] = "ready"]
        /\ up' = [up EXCEPT ![Server(r)] = TRUE]
        /\ member' = [member EXCEPT ![Server(r)] = r]
    BY <2>1, <2>3, <2>5 DEF StartServer, Comes, Goto, Idle
  <2>7. up'[Server(r)] /\ member'[Server(r)] = r /\ wanted'[Server(r)] /\ at'[r] = "ready"
    BY <1>1, <1>5, <1>6, <2>6
  <2>8. HasRelease(Server(r))'
    BY <1>1, <1>3, <1>5, <2>1 DEF HasRelease, Version
  <2>9. Serves(Server(r), r)'
    BY <1>5, <2>7, <2>8 DEF Serves
  <2>10. \A s \in Servers : s # Server(r) =>
           bin'[s] = bin[s] /\ wanted'[s] = wanted[s] /\ up'[s] = up[s] /\ member'[s] = member[s]
    BY <1>1, <1>6, <2>6
  <2>11. \A i \in 1..Len(Order(r)) :
           /\ i < host[r] => Serves(Order(r)[i], r)'
           /\ i > host[r] => Empty(Order(r)[i])'
    BY <1>1, <1>3, <1>9, <2>10, OthersRemain
  <2>12. Installing(r)'
    BY <1>1, <1>5, <2>7, <2>9, <2>11 DEF Installing, Copying
  <2>13. Delivered(r)' /\ Deployed(r)'
    BY <2>7, <2>12 DEF Delivered, Deployed, Fetching
  <2>14. \A s \in Servers : wanted'[s] => up'[s]
    BY <2>7, <2>10 DEF Quiet, LeftInOrder
  <2> QED BY <1>1, <1>2, <1>7, <2>6, <2>13, <2>14, RoleMoves
<1> QED BY <1>4, <1>8, <1>9

\* A server that answers with the release of the run lets it go on, to an empty server or
\* to the count.
LEMMA QuietGoesOn ==
  ASSUME Inv, Undisturbed, Quiet, NEW r \in Runs, ServerReady(r)
  PROVE  Quiet'
<1>1. at[r] = "ready" /\ UNCHANGED artifacts
      /\ UNCHANGED <<absent, remote, bin, conf, wanted, member, up>>
  BY DEF ServerReady
<1>2. at[r] \in AtServer
  BY <1>1 DEF AtServer
<1>3. config' = config
  BY <1>1 DEF artifacts
<1>4. Keeping(r) \/ Installing(r)
  BY <1>2, AtWork
<1>5. Server(r) \in Servers /\ Order(r)' = Order(r)
  BY <1>1, <1>3, ServerType DEF Inv, Order
<1>6. /\ at \in [Runs -> Positions] /\ host \in [Runs -> Nat]
      /\ host[r] \in 1..Len(Order(r)) /\ Len(Order(r)) \in Nat
      /\ \A i \in 1..Len(Order(r)) : Order(r)[i] \in Servers
  BY ServerType DEF Inv, TypeOK
<1>7. up[Server(r)] /\ bin[Server(r)].version = Version(r)
  <2>1. CASE Keeping(r)
    BY <1>5, <2>1 DEF Keeping, AllServe, Serves, HasRelease
  <2>2. CASE Installing(r)
    BY <1>1, <2>2 DEF Installing, Serves, HasRelease
  <2> QED BY <1>4, <2>1, <2>2
<1>8. \A s \in Servers : wanted'[s] => up'[s]
  BY <1>1 DEF Quiet, LeftInOrder
<1>9. AllServe => AllServe'
  BY <1>1, <1>3, SameServers
<1>10. CASE host[r] = Len(Order(r))
  <2>1. at' = [at EXCEPT ![r] = "count"] /\ host' = host
    BY <1>7, <1>10 DEF ServerReady, Shows, Goto
  <2>2. AllServe
    <3>1. CASE Keeping(r)
      BY <3>1 DEF Keeping
    <3>2. CASE Installing(r)
      <4>1. \A i \in 1..Len(Order(r)) : Serves(Order(r)[i], r)
        <5>1. SUFFICES ASSUME NEW i \in 1..Len(Order(r)) PROVE Serves(Order(r)[i], r)
          OBVIOUS
        <5>2. CASE i < host[r]
          BY <3>2, <5>2 DEF Installing
        <5>3. CASE i = host[r]
          BY <1>1, <3>2, <5>3 DEF Installing, Server
        <5> QED BY <1>6, <1>10, <5>2, <5>3
      <4>2. \A s \in Servers : Serves(s, r)
        BY <4>1, OrderNames DEF Inv
      <4> QED BY <4>2 DEF AllServe
    <3> QED BY <1>4, <3>1, <3>2
  <2>3. at'[r] = "count"
    BY <1>6, <2>1
  <2>4. Delivered(r)' /\ Deployed(r)'
    BY <1>9, <2>2, <2>3 DEF Delivered, Deployed, Fetching, AtServer, Copying
  <2>5. \A q \in Runs : q # r => host'[q] = host[q]
    BY <2>1
  <2> QED BY <1>1, <1>2, <1>8, <2>1, <2>4, <2>5, RoleMoves
<1>11. CASE host[r] # Len(Order(r))
  <2>1. at' = [at EXCEPT ![r] = "artifacts"] /\ host' = [host EXCEPT ![r] = host[r] + 1]
    BY <1>7, <1>11 DEF ServerReady, Shows, Goto
  <2>2. at'[r] = "artifacts" /\ host'[r] = host[r] + 1 /\ host'[r] \in 1..Len(Order(r))
    BY <1>6, <1>11, <2>1
  <2>3. \A q \in Runs : q # r => host'[q] = host[q]
    BY <1>6, <2>1
  <2>4. Keeping(r) => Keeping(r)'
    BY <1>9, <2>2 DEF Keeping, Copying
  <2>5. Installing(r) => Installing(r)'
    <3>1. SUFFICES ASSUME Installing(r) PROVE Installing(r)'
      OBVIOUS
    <3>2. \A i \in 1..Len(Order(r)) :
            /\ i < host[r] => Serves(Order(r)[i], r)
            /\ i = host[r] => Serves(Order(r)[i], r)
            /\ i > host[r] => Empty(Order(r)[i])
      BY <1>1, <3>1 DEF Installing, Server
    <3>3. \A i \in 1..Len(Order(r)) :
            /\ i < host'[r] => Serves(Order(r)[i], r)
            /\ i > host'[r] => Empty(Order(r)[i])
            /\ i = host'[r] => Empty(Order(r)[i])
      BY <1>6, <2>2, <3>2
    <3>4. \A s \in Servers : (Serves(s, r) => Serves(s, r)') /\ (Empty(s) => Empty(s)')
      BY <1>1, <1>3, SameServers
    <3>5. \A i \in 1..Len(Order(r)) :
            /\ i < host'[r] => Serves(Order(r)[i], r)'
            /\ i > host'[r] => Empty(Order(r)[i])'
            /\ i = host'[r] => Empty(Order(r)[i])'
      BY <1>5, <1>6, <3>3, <3>4
    <3>6. Empty(Server(r))'
      BY <1>5, <2>2, <3>5 DEF Server
    <3> QED BY <1>5, <2>2, <3>5, <3>6 DEF Installing, Copying
  <2>6. Delivered(r)' /\ Deployed(r)'
    BY <1>4, <2>2, <2>4, <2>5 DEF Delivered, Deployed, Fetching, AtServer, Copying
  <2>7. "artifacts" \in AtServer \cup {"count"}
    BY DEF AtServer
  <2> QED BY <1>1, <1>2, <1>8, <2>1, <2>3, <2>6, <2>7, RoleMoves
<1> QED BY <1>10, <1>11

\* All servers are in one cluster, so the count is right.
LEMMA QuietSucceeds ==
  ASSUME Inv, Undisturbed, Quiet, NEW r \in Runs, CountServers(r)
  PROVE  Quiet'
<1>1. at[r] = "count" /\ UNCHANGED <<config, file, part, cached, manifest, faults, overlap>>
      /\ UNCHANGED <<host, bin, wanted, member, up>>
  BY DEF CountServers, artifacts, servers
<1>2. Busy(r) /\ AllServe
  BY <1>1 DEF Quiet, Working, Deployed, Busy
<1>3. ReadyNodes(Server(r)) = Servers
  BY <1>2, ServerType DEF Inv, AllServe, Serves, ReadyNodes
<1>4. Len(Order(r)) = Cardinality(Servers)
  BY ConfigsAssumption DEF Inv, TypeOK, Order
<1>5. at' = [at EXCEPT ![r] = "succeeded"]
  BY <1>3, <1>4 DEF CountServers, Goto
<1>6. at'[r] = "succeeded" /\ \A q \in Runs : q # r => at'[q] = at[q]
  BY <1>5 DEF Inv, TypeOK
<1>7. AllServe'
  BY <1>1, <1>2, SameServers
<1>8. ~Busy(r)'
  BY <1>6 DEF Busy
<1>9. \A q \in Runs : at[q] \notin {"write", "move"}
  BY <1>1, <1>2 DEF Quiet, OneByOne, Busy
<1>10. /\ \A f \in Files : cached'[f] # None => cached'[f].writers = {}
       /\ \A s \in Servers : wanted'[s] => up'[s]
       /\ \A f \in Files : part'[f] = None
  BY <1>1, <1>9 DEF Quiet, LeftInOrder
<1>11. \A q \in Runs : q # r => at'[q] = at[q] /\ file'[q] = file[q] /\ host'[q] = host[q]
  BY <1>1, <1>6
<1> QED BY <1>2, <1>6, <1>7, <1>8, <1>10, <1>11, OneMoves

-----------------------------------------------------------------------------
\* Faults and overlaps are not forgotten.
LEMMA DisturbanceStays ==
  ASSUME Inv, Next, Undisturbed'
  PROVE  Undisturbed
<1> USE DEF artifacts, servers
<1>1. faults \in Nat /\ overlap \in BOOLEAN
  BY ConfigsAssumption DEF Inv, TypeOK
<1>2. config' = config /\ (overlap => overlap') /\ (faults' = faults \/ faults' = faults + 1)
  <2>1. ASSUME NEW r \in Runs, Begin(r)
        PROVE  config' = config /\ (overlap => overlap') /\ (faults' = faults \/ faults' = faults + 1)
    BY <2>1 DEF Begin
  <2>2. ASSUME NEW r \in Runs, Prepares(r)
        PROVE  config' = config /\ (overlap => overlap') /\ (faults' = faults \/ faults' = faults + 1)
    BY <2>2 DEF Prepares, Fetches, Prepare, Open, Write, Move, VerifyReleaseFile, WriteManifest, Cut
  <2>3. ASSUME NEW r \in Runs, Role(r)
        PROVE  config' = config /\ (overlap => overlap') /\ (faults' = faults \/ faults' = faults + 1)
    BY <2>3 DEF Role, CheckArtifacts, InspectExisting, TransferBinary, TransferChecksum, Transfer,
       RenderConfig, Install, StartServer, ServerReady, CountServers
  <2>4. ASSUME NEW s \in Servers, ServiceRetries(s) \/ GoesDown(s)
        PROVE  config' = config /\ (overlap => overlap') /\ (faults' = faults \/ faults' = faults + 1)
    BY <2>4 DEF ServiceRetries, GoesDown
  <2> QED BY <2>1, <2>2, <2>3, <2>4 DEF Next, RunStep
<1>3. faults' = 0 /\ ~overlap' /\ \A r, q \in Runs : Asked(r)' = <<Version(q)', "online">>
  BY DEF Undisturbed
<1>4. faults = 0 /\ ~overlap
  BY <1>1, <1>2, <1>3
<1>5. \A r, q \in Runs : Asked(r) = <<Version(q), "online">>
  BY <1>2, <1>3 DEF Asked, Version
<1> QED BY <1>4, <1>5 DEF Undisturbed

\* While nothing is disturbed, every step leaves runs, cache and servers in order.
LEMMA QuietStep ==
  ASSUME Inv, RerunInv, Next
  PROVE  RerunInv'
<1> SUFFICES ASSUME Undisturbed' PROVE Quiet'
  BY DEF RerunInv
<1>1. Undisturbed /\ Quiet
  BY DisturbanceStays DEF RerunInv
<1>2. faults = 0 /\ faults' = 0
  BY <1>1 DEF Undisturbed
<1>3. ASSUME NEW r \in Runs, Begin(r)
      PROVE  Quiet'
  BY <1>1, <1>3, QuietBegins
<1>4. ASSUME NEW r \in Runs, Prepares(r)
      PROVE  Quiet'
  <2>1. ~Cut(r)
    BY <1>2 DEF Cut
  <2>2. UNCHANGED servers
    BY <1>4 DEF Prepares
  <2>3. WriteManifest(r) => Quiet'
    BY <1>1, <2>2, QuietWritesManifest
  <2>4. Prepare(r) \/ Open(r) \/ Write(r) \/ Move(r) \/ VerifyReleaseFile(r) => Quiet'
    BY <1>1, <2>2, QuietFetches
  <2> QED BY <1>4, <2>1, <2>3, <2>4 DEF Prepares, Fetches
<1>5. ASSUME NEW r \in Runs, Role(r)
      PROVE  Quiet'
  BY <1>1, <1>5, QuietInspects, QuietCopies, QuietInstalls, QuietStarts, QuietGoesOn,
     QuietSucceeds DEF Role
<1>6. ASSUME NEW s \in Servers, ServiceRetries(s)
      PROVE  Quiet'
  BY <1>1, <1>6 DEF ServiceRetries, Quiet, LeftInOrder
<1>7. ASSUME NEW s \in Servers, GoesDown(s)
      PROVE  Quiet'
  BY <1>2, <1>7 DEF GoesDown
<1> QED BY <1>3, <1>4, <1>5, <1>6, <1>7 DEF Next, RunStep

\* New servers are in order.
LEMMA InitialQuiet ==
  ASSUME Init
  PROVE  RerunInv
<1>1. \A r \in Runs : at[r] = "idle" /\ file[r] = "binary" /\ host[r] = 1
  BY DEF Init, ArtifactsInit
<1>2. \A f \in Files : part[f] = None /\ (cached[f] # None => cached[f].writers = {})
  <2>1. PICK v \in {None} \cup {c.version : c \in Configs} :
          cached = [f \in Files |-> IF v = None THEN None ELSE File(v, {}, FALSE)]
    BY DEF Init, ArtifactsInit
  <2>2. File(v, {}, FALSE).writers = {}
    BY DEF File
  <2> QED BY <2>1, <2>2 DEF Init, ArtifactsInit
<1>3. AllEmpty /\ \A s \in Servers : ~wanted[s]
  BY DEF Init, AllEmpty, Empty, Idle
<1>4. OneByOne /\ \A r \in Runs : ~Busy(r)
  BY <1>1 DEF OneByOne, Busy
<1> QED BY <1>2, <1>3, <1>4 DEF RerunInv, Quiet, LeftInOrder

\* A step that changes nothing keeps it.
LEMMA StutterQuiet ==
  ASSUME RerunInv, UNCHANGED vars
  PROVE  RerunInv'
<1> USE DEF vars, artifacts, servers
<1>1. Undisturbed' => Undisturbed
  BY DEF Undisturbed, Asked, Version
<1>2. OneByOne => OneByOne'
  BY DEF OneByOne, Busy
<1>3. (AllEmpty => AllEmpty') /\ (AllServe => AllServe')
  BY SameServers
<1>4. LeftInOrder => LeftInOrder'
  BY <1>3 DEF LeftInOrder, Busy
<1>5. \A r \in Runs : Fetched(r) => Fetched(r)'
  BY DEF Fetched, Own, Version, Asked
<1>6. \A r \in Runs : Order(r)' = Order(r) /\ Server(r)' = Server(r)
  BY DEF Order, Server
<1>7. \A r \in Runs : Delivered(r) => Delivered(r)'
  BY <1>6 DEF Delivered, Own, Version
<1>8. \A r \in Runs : Keeping(r) => Keeping(r)'
  BY <1>3 DEF Keeping
<1>9. \A r \in Runs : Installing(r) => Installing(r)'
  BY <1>6 DEF Installing, Serves, Empty, HasRelease, Idle, Version
<1>10. \A r \in Runs : Deployed(r) => Deployed(r)'
  BY <1>3, <1>8, <1>9 DEF Deployed
<1>11. \A r \in Runs : Busy(r)' => Busy(r)
  BY DEF Busy
<1> QED BY <1>1, <1>2, <1>4, <1>5, <1>7, <1>10, <1>11 DEF RerunInv, Quiet, Working

\* Runs of one release that follow each other without a fault never fail, however many
\* there are and with whichever first server: the role neither reinstalls nor restarts what
\* serves (role local_rke2: `when: existing_rke2_version.rc != 0`, `state: started`).
THEOREM RerunAlwaysSucceeds == Spec => []RerunSucceeds
<1>1. Inv /\ RerunInv /\ [Next]_vars => RerunInv'
  BY QuietStep, StutterQuiet
<1>2. Inv /\ RerunInv => RerunSucceeds
  BY DEF RerunInv, Undisturbed, Quiet, OneByOne, RerunSucceeds
<1> QED BY <1>1, <1>2, InitialQuiet, LocalInvariant, PTL DEF Spec
=============================================================================
