-------------------------- MODULE ControlHostProofs --------------------------
(***************************************************************************)
(* Type correctness and safety of ControlHost, for any number of           *)
(* executions, addresses and faults; and that executions run out of steps. *)
(***************************************************************************)
EXTENDS ControlHost, FiniteSetTheorems, TLAPS

\* The position of a thread says what the remote side has got and has answered.
ThreadsFollow ==
  \A r \in Runs :
    /\ thread[r] \in {"queued", "connected"} => phase[r] = "idle"
    /\ thread[r] \in {"waiting", "reading", "succeeded"} => sent[r] = Len(Bundle(r))
    /\ thread[r] = "reading" => status[r] # None
    /\ thread[r] = "succeeded" => status[r] = "zero"
    /\ status[r] # None => phase[r] = status[r]

\* The position of a script says what it has done.
ScriptsFollow ==
  \A r \in Runs :
    /\ phase[r] = "idle" => /\ at[r] = 1 /\ clear[r] = {} /\ tfstate[r] = {} /\ taken[r] = {}
                            /\ status[r] = None
    /\ phase[r] \in {"running", "stalled", "cut"} => at[r] <= Len(Script(r))
    /\ phase[r] = "zero" => at[r] > Len(Script(r))
    /\ at[r] > 1 /\ container.owner # "ours" => r \in freed
    /\ Component[r] = "vm" /\ at[r] > 8 => clear[r] = Wanted[r]
    /\ Component[r] = "vm" /\ at[r] > 11 => Wanted[r] \subseteq tfstate[r]

\* Machines are made where nothing answered, and what is recorded exists.
MachinesFollow ==
  \A r \in Runs, a \in Addresses :
    /\ r \in machines[a] => a \in clear[r]
    /\ a \in tfstate[r] => r \in machines[a] /\ a \in Wanted[r]
    /\ a \in clear[r] => a \in Wanted[r]
    /\ a \in taken[r] => machines[a] # {}
    /\ a \in taken[r] /\ a \in clear[r] => a \in Silent

Inv == TypeOK /\ ThreadsFollow /\ ScriptsFollow /\ MachinesFollow

-----------------------------------------------------------------------------
\* Where the commands that matter are in the scripts.
LEMMA Scripts ==
  ASSUME NEW r \in Runs
  PROVE  /\ Len(Script(r)) \in Nat /\ Len(Script(r)) > 2 /\ Len(Bundle(r)) \in Nat
         /\ Component[r] = "vm" => Len(Script(r)) = 12
         /\ \A i \in 1..Len(Script(r)) :
              /\ Script(r)[i] = "inspect" => i = 1
              /\ Script(r)[i] = "start" => i = 2
              /\ Script(r)[i] = "recheck" => Component[r] = "vm" /\ i = 3
              /\ Script(r)[i] = "create" => Component[r] = "vm" /\ i = 4
              /\ Script(r)[i] = "probe" => i > 1 /\ (Component[r] = "vm" => i = 5)
              /\ Script(r)[i] = "addresses" => Component[r] = "vm" /\ i = 8
              /\ Script(r)[i] = "apply" => Component[r] = "vm" /\ i = 10
              /\ Script(r)[i] = "verify" => Component[r] = "vm" /\ i = 11
              /\ Script(r)[i] \notin Special =>
                   i > 1 /\ (Component[r] = "vm" => i \in {6, 7, 9, 12})
<1>0. Component[r] \in Components
  BY ControlHostAssumption
<1>1. CASE Component[r] = "vm"
  <2>1. Script(r) = VmScript /\ Bundle(r) = VmBundle
    BY <1>1 DEF Script, Bundle
  <2>2. /\ Len(VmScript) \in Nat /\ Len(VmScript) > 2  /\ Len(VmScript) = 12
        /\ \A i \in 1..Len(VmScript) :
             /\ VmScript[i] = "inspect" => i = 1
             /\ VmScript[i] = "start" => i = 2
             /\ VmScript[i] = "recheck" => i = 3
             /\ VmScript[i] = "create" => i = 4
             /\ VmScript[i] = "probe" => i = 5
             /\ VmScript[i] = "addresses" => i = 8
             /\ VmScript[i] = "apply" => i = 10
             /\ VmScript[i] = "verify" => i = 11
             /\ VmScript[i] \notin Special => i \in {6, 7, 9, 12}
    BY DEF VmScript, Special
  <2>3. Len(VmBundle) \in Nat
    BY DEF VmBundle
  <2> QED BY <1>1, <2>1, <2>2, <2>3
<1>2. CASE Component[r] = "node-init"
  <2>1. Script(r) = NodeInitScript /\ Bundle(r) = NodeInitBundle
    BY <1>2 DEF Script, Bundle
  <2>2. /\ Len(NodeInitScript) \in Nat /\ Len(NodeInitScript) > 2
        /\ \A i \in 1..Len(NodeInitScript) :
             /\ NodeInitScript[i] = "inspect" => i = 1
             /\ NodeInitScript[i] = "start" => i = 2
             /\ NodeInitScript[i] \notin {"recheck", "create", "addresses", "apply", "verify"}
             /\ NodeInitScript[i] = "probe" \/ NodeInitScript[i] \notin Special => i > 1
    BY DEF NodeInitScript, Special
  <2>3. Len(NodeInitBundle) \in Nat
    BY DEF NodeInitBundle
  <2> QED BY <1>2, <2>1, <2>2, <2>3
<1>3. CASE Component[r] = "local-rke2"
  <2>1. Script(r) = LocalRke2Script /\ Bundle(r) = LocalRke2Bundle
    BY <1>3 DEF Script, Bundle
  <2>2. /\ Len(LocalRke2Script) \in Nat /\ Len(LocalRke2Script) > 2
        /\ \A i \in 1..Len(LocalRke2Script) :
             /\ LocalRke2Script[i] = "inspect" => i = 1
             /\ LocalRke2Script[i] = "start" => i = 2
             /\ LocalRke2Script[i] \notin {"recheck", "create", "addresses", "apply", "verify"}
             /\ LocalRke2Script[i] = "probe" \/ LocalRke2Script[i] \notin Special => i > 1
    BY DEF LocalRke2Script, Special
  <2>3. Len(LocalRke2Bundle) \in Nat
    BY DEF LocalRke2Bundle
  <2> QED BY <1>3, <2>1, <2>2, <2>3
<1>4. CASE Component[r] = "rancher"
  <2>1. Script(r) = RancherScript /\ Bundle(r) = RancherBundle
    BY <1>4 DEF Script, Bundle
  <2>2. /\ Len(RancherScript) \in Nat /\ Len(RancherScript) > 2
        /\ \A i \in 1..Len(RancherScript) :
             /\ RancherScript[i] = "inspect" => i = 1
             /\ RancherScript[i] = "start" => i = 2
             /\ RancherScript[i] \notin {"recheck", "create", "addresses", "apply", "verify"}
             /\ RancherScript[i] = "probe" \/ RancherScript[i] \notin Special => i > 1
    BY DEF RancherScript, Special
  <2>3. Len(RancherBundle) \in Nat
    BY DEF RancherBundle
  <2> QED BY <1>4, <2>1, <2>2, <2>3
<1>5. CASE Component[r] = "downstream"
  <2>1. Script(r) = DownstreamScript /\ Bundle(r) = DownstreamBundle
    BY <1>5 DEF Script, Bundle
  <2>2. /\ Len(DownstreamScript) \in Nat /\ Len(DownstreamScript) > 2
        /\ \A i \in 1..Len(DownstreamScript) :
             /\ DownstreamScript[i] = "inspect" => i = 1
             /\ DownstreamScript[i] = "start" => i = 2
             /\ DownstreamScript[i] \notin {"recheck", "create", "addresses", "apply", "verify"}
             /\ DownstreamScript[i] = "probe" \/ DownstreamScript[i] \notin Special => i > 1
    BY DEF DownstreamScript, Special
  <2>3. Len(DownstreamBundle) \in Nat
    BY DEF DownstreamBundle
  <2> QED BY <1>5, <2>1, <2>2, <2>3
<1> QED BY <1>0, <1>1, <1>2, <1>3, <1>4, <1>5 DEF Components

-----------------------------------------------------------------------------
LEMMA InitInv == Init => Inv
<1> SUFFICES ASSUME Init PROVE Inv OBVIOUS
<1>1. TypeOK
  BY ControlHostAssumption, Scripts DEF Init, TypeOK, Containers, NoContainer
<1>2. ThreadsFollow /\ ScriptsFollow /\ MachinesFollow
  BY ControlHostAssumption, Scripts DEF Init, ThreadsFollow, ScriptsFollow, MachinesFollow
<1> QED BY <1>1, <1>2 DEF Inv

\* The steps of a thread touch neither scripts nor machines.
LEMMA ThreadKeepsInv ==
  ASSUME Inv, NEW r \in Runs, ThreadStep(r) \/ Fault(r)
  PROVE  Inv'
<1> USE ControlHostAssumption DEF Inv, ssh, script, vm, Ends
<1>1. CASE Connect(r)
  <2>1. TypeOK'
    BY <1>1, Scripts DEF Connect, TypeOK
  <2>2. ThreadsFollow'
    BY <1>1, Scripts DEF Connect, TypeOK, ThreadsFollow, ScriptsFollow
  <2>3. ScriptsFollow'
    BY <1>1, Scripts DEF Connect, TypeOK, ThreadsFollow, ScriptsFollow
  <2>4. MachinesFollow'
    BY <1>1 DEF Connect, TypeOK, ThreadsFollow, ScriptsFollow, MachinesFollow
  <2> QED BY <2>1, <2>2, <2>3, <2>4
<1>2. CASE Upload(r)
  <2>1. TypeOK'
    BY <1>2, Scripts DEF Upload, TypeOK
  <2>2. ThreadsFollow'
    BY <1>2, Scripts DEF Upload, TypeOK, ThreadsFollow, ScriptsFollow
  <2>3. ScriptsFollow'
    BY <1>2, Scripts DEF Upload, TypeOK, ThreadsFollow, ScriptsFollow
  <2>4. MachinesFollow'
    BY <1>2 DEF Upload, TypeOK, ThreadsFollow, ScriptsFollow, MachinesFollow
  <2> QED BY <2>1, <2>2, <2>3, <2>4
<1>3. CASE ExecCommand(r)
  <2>1. TypeOK'
    BY <1>3, Scripts DEF ExecCommand, TypeOK
  <2>2. ThreadsFollow'
    BY <1>3, Scripts DEF ExecCommand, TypeOK, ThreadsFollow, ScriptsFollow
  <2>3. ScriptsFollow'
    BY <1>3, Scripts DEF ExecCommand, TypeOK, ThreadsFollow, ScriptsFollow
  <2>4. MachinesFollow'
    BY <1>3 DEF ExecCommand, TypeOK, ThreadsFollow, ScriptsFollow, MachinesFollow
  <2> QED BY <2>1, <2>2, <2>3, <2>4
<1>4. CASE StatusArrives(r)
  <2>1. TypeOK'
    BY <1>4, Scripts DEF StatusArrives, TypeOK
  <2>2. ThreadsFollow'
    BY <1>4, Scripts DEF StatusArrives, TypeOK, ThreadsFollow, ScriptsFollow
  <2>3. ScriptsFollow'
    BY <1>4, Scripts DEF StatusArrives, TypeOK, ThreadsFollow, ScriptsFollow
  <2>4. MachinesFollow'
    BY <1>4 DEF StatusArrives, TypeOK, ThreadsFollow, ScriptsFollow, MachinesFollow
  <2> QED BY <2>1, <2>2, <2>3, <2>4
<1>5. CASE ReceiveStatus(r)
  <2>1. TypeOK'
    <3>1. CASE status[r] = "failed" /\ Component[r] \in ChecksFirst
      BY <1>5, <3>1 DEF ReceiveStatus, TypeOK
    <3>2. CASE ~(status[r] = "failed" /\ Component[r] \in ChecksFirst)
      BY <1>5, <3>2 DEF ReceiveStatus, TypeOK
    <3> QED BY <3>1, <3>2
  <2>2. ThreadsFollow'
    <3>1. CASE status[r] = "failed" /\ Component[r] \in ChecksFirst
      BY <1>5, <3>1 DEF ReceiveStatus, TypeOK, ThreadsFollow
    <3>2. CASE ~(status[r] = "failed" /\ Component[r] \in ChecksFirst)
      BY <1>5, <3>2 DEF ReceiveStatus, TypeOK, ThreadsFollow
    <3> QED BY <3>1, <3>2
  <2>3. ScriptsFollow'
    BY <1>5, Scripts DEF ReceiveStatus, TypeOK, ThreadsFollow, ScriptsFollow
  <2>4. MachinesFollow'
    BY <1>5 DEF ReceiveStatus, TypeOK, ThreadsFollow, ScriptsFollow, MachinesFollow
  <2> QED BY <2>1, <2>2, <2>3, <2>4
<1>6. CASE ReadOutput(r)
  <2>1. TypeOK'
    BY <1>6, Scripts DEF ReadOutput, TypeOK
  <2>2. ThreadsFollow'
    BY <1>6, Scripts DEF ReadOutput, TypeOK, ThreadsFollow, ScriptsFollow
  <2>3. ScriptsFollow'
    BY <1>6, Scripts DEF ReadOutput, TypeOK, ThreadsFollow, ScriptsFollow
  <2>4. MachinesFollow'
    BY <1>6 DEF ReadOutput, TypeOK, ThreadsFollow, ScriptsFollow, MachinesFollow
  <2> QED BY <2>1, <2>2, <2>3, <2>4
<1>7. CASE LossIsSeen(r)
  <2>1. TypeOK'
    BY <1>7, Scripts DEF LossIsSeen, TypeOK
  <2>2. ThreadsFollow'
    BY <1>7, Scripts DEF LossIsSeen, TypeOK, ThreadsFollow, ScriptsFollow
  <2>3. ScriptsFollow'
    BY <1>7, Scripts DEF LossIsSeen, TypeOK, ThreadsFollow, ScriptsFollow
  <2>4. MachinesFollow'
    BY <1>7 DEF LossIsSeen, TypeOK, ThreadsFollow, ScriptsFollow, MachinesFollow
  <2> QED BY <2>1, <2>2, <2>3, <2>4
<1>8. CASE Raises(r)
  <2>1. TypeOK'
    BY <1>8, Scripts DEF Raises, TypeOK
  <2>2. ThreadsFollow'
    BY <1>8, Scripts DEF Raises, TypeOK, ThreadsFollow, ScriptsFollow
  <2>3. ScriptsFollow'
    BY <1>8, Scripts DEF Raises, TypeOK, ThreadsFollow, ScriptsFollow
  <2>4. MachinesFollow'
    BY <1>8 DEF Raises, TypeOK, ThreadsFollow, ScriptsFollow, MachinesFollow
  <2> QED BY <2>1, <2>2, <2>3, <2>4
<1>9. CASE LoseLink(r)
  <2>1. TypeOK'
    BY <1>9, Scripts DEF LoseLink, TypeOK
  <2>2. ThreadsFollow'
    BY <1>9, Scripts DEF LoseLink, TypeOK, ThreadsFollow, ScriptsFollow
  <2>3. ScriptsFollow'
    BY <1>9, Scripts DEF LoseLink, TypeOK, ThreadsFollow, ScriptsFollow
  <2>4. MachinesFollow'
    BY <1>9 DEF LoseLink, TypeOK, ThreadsFollow, ScriptsFollow, MachinesFollow
  <2> QED BY <2>1, <2>2, <2>3, <2>4
<1> QED BY <1>1, <1>2, <1>3, <1>4, <1>5, <1>6, <1>7, <1>8, <1>9 DEF ThreadStep, Fault

\* A script that goes on keeps what its place says, if that holds of its next place.
LEMMA GoesOn ==
  ASSUME TypeOK, ScriptsFollow, NEW r \in Runs, NEW n \in {1, 2}, phase[r] = "running",
         GoOn(r, n), at[r] + n <= Len(Script(r)) + 1,
         \A q \in Runs : (at[q] > 1 \/ q = r) /\ container'.owner # "ours" => q \in freed',
         clear' = clear, tfstate' = tfstate, taken' = taken, status' = status,
         Component[r] = "vm" /\ at[r] + n > 8 => clear[r] = Wanted[r],
         Component[r] = "vm" /\ at[r] + n > 11 => Wanted[r] \subseteq tfstate[r]
  PROVE  /\ ScriptsFollow'
         /\ at' \in [Runs -> Nat] /\ \A q \in Runs : at'[q] \in 1..(Len(Script(q)) + 1)
         /\ phase' \in [Runs -> {"idle", "running", "stalled", "zero", "failed", "cut"}]
<1>1. Len(Script(r)) \in Nat /\ at[r] \in 1..Len(Script(r))
  BY Scripts DEF TypeOK, ScriptsFollow
<1>2. /\ at' \in [Runs -> Nat]
      /\ phase' \in [Runs -> {"idle", "running", "stalled", "zero", "failed", "cut"}]
  BY <1>1 DEF GoOn, TypeOK
<1>3. /\ at'[r] = at[r] + n
      /\ phase'[r] = IF at[r] + n > Len(Script(r)) THEN "zero" ELSE "running"
      /\ \A q \in Runs \ {r} : at'[q] = at[q] /\ phase'[q] = phase[q]
  BY <1>1 DEF GoOn, TypeOK
<1>4. ASSUME NEW q \in Runs PROVE at'[q] \in 1..(Len(Script(q)) + 1)
  <2>1. CASE q = r
    BY <1>1, <1>3, <2>1
  <2>2. CASE q # r
    BY <1>3, <2>2 DEF TypeOK
  <2> QED BY <2>1, <2>2
<1>5. ScriptsFollow'
  BY <1>1, <1>3 DEF ScriptsFollow
<1> QED BY <1>2, <1>4, <1>5

\* A container that stops or goes only ends scripts that were under way.
LEMMA Ended ==
  ASSUME TypeOK, EndsInside \/ UNCHANGED phase
  PROVE  /\ phase' \in [Runs -> {"idle", "running", "stalled", "zero", "failed", "cut"}]
         /\ \A q \in Runs : \/ phase'[q] = phase[q]
                            \/ phase'[q] = "failed" /\ phase[q] \in {"stalled", "cut"}
<1>1. CASE EndsInside
  BY <1>1 DEF EndsInside, TypeOK
<1>2. CASE UNCHANGED phase
  BY <1>2 DEF TypeOK
<1> QED BY <1>1, <1>2

\* A step of a script keeps its place, and what the place says.
LEMMA ScriptKeepsInv ==
  ASSUME Inv, NEW r \in Runs, ScriptStep(r) \/ ScriptCut(r)
  PROVE  Inv'
<1> USE ControlHostAssumption DEF Inv, ssh, script, vm, At, Command, Writes
<1>0. /\ Len(Script(r)) \in Nat /\ Len(Script(r)) > 2
      /\ phase[r] \in {"running", "stalled", "cut"} => at[r] \in 1..Len(Script(r))
  BY Scripts DEF TypeOK, ScriptsFollow
<1>1. CASE CommandFails(r)
  <2>1. TypeOK'
    BY <1>1, <1>0, Scripts DEF CommandFails, TypeOK
  <2>2. ThreadsFollow'
    BY <1>1, <1>0 DEF CommandFails, TypeOK, ThreadsFollow
  <2>3. ScriptsFollow'
    BY <1>1, <1>0, Scripts DEF CommandFails, TypeOK, ThreadsFollow, ScriptsFollow
  <2>4. MachinesFollow'
    BY <1>1 DEF CommandFails, TypeOK, MachinesFollow
  <2> QED BY <2>1, <2>2, <2>3, <2>4
<1>2. CASE CommandStalls(r)
  <2>1. TypeOK'
    BY <1>2, <1>0, Scripts DEF CommandStalls, TypeOK
  <2>2. ThreadsFollow'
    BY <1>2, <1>0 DEF CommandStalls, TypeOK, ThreadsFollow
  <2>3. ScriptsFollow'
    BY <1>2, <1>0, Scripts DEF CommandStalls, TypeOK, ThreadsFollow, ScriptsFollow
  <2>4. MachinesFollow'
    BY <1>2 DEF CommandStalls, TypeOK, MachinesFollow
  <2> QED BY <2>1, <2>2, <2>3, <2>4
<1>3. CASE ScriptCut(r)
  <2>1. TypeOK'
    BY <1>3, <1>0, Scripts DEF ScriptCut, TypeOK
  <2>2. ThreadsFollow'
    BY <1>3, <1>0 DEF ScriptCut, TypeOK, ThreadsFollow
  <2>3. ScriptsFollow'
    BY <1>3, <1>0, Scripts DEF ScriptCut, TypeOK, ThreadsFollow, ScriptsFollow
  <2>4. MachinesFollow'
    BY <1>3 DEF ScriptCut, TypeOK, MachinesFollow
  <2> QED BY <2>1, <2>2, <2>3, <2>4
<1>4. CASE Inspect(r)
  <2>0. phase[r] = "running" /\ at[r] = 1
    BY <1>4, <1>0, Scripts DEF Inspect
  <2>00. PICK n \in {1, 2} : GoOn(r, n)
    BY <1>4 DEF Inspect
  <2>6. /\ clear' = clear /\ tfstate' = tfstate /\ taken' = taken /\ status' = status
        /\ container' = container /\ freed' \in SUBSET Runs /\ freed \subseteq freed'
        /\ container.owner # "ours" => r \in freed'
    BY <1>4 DEF Inspect, TypeOK
  <2>7. \A q \in Runs : (at[q] > 1 \/ q = r) /\ container'.owner # "ours" => q \in freed'
    BY <2>6 DEF ScriptsFollow
  <2>5. /\ ScriptsFollow' /\ at' \in [Runs -> Nat]
        /\ \A q \in Runs : at'[q] \in 1..(Len(Script(q)) + 1)
        /\ phase' \in [Runs -> {"idle", "running", "stalled", "zero", "failed", "cut"}]
    <3>1. at[r] + n <= Len(Script(r)) + 1 /\ ~(at[r] + n > 8) /\ ~(at[r] + n > 11)
      BY <1>0, <2>0
    <3> HIDE DEF Inv
    <3>2. TypeOK /\ ScriptsFollow
      BY DEF Inv
    <3> QED BY <2>0, <2>00, <2>6, <2>7, <3>1, <3>2, GoesOn
  <2>1. TypeOK'
    BY <1>4, <2>0, <2>5, <2>6, Scripts DEF Inspect, TypeOK
  <2>2. ThreadsFollow'
    BY <1>4, <2>0, <2>00 DEF Inspect, GoOn, TypeOK, ThreadsFollow
  <2>3. ScriptsFollow'
    BY <2>5
  <2>4. MachinesFollow'
    BY <1>4 DEF Inspect, MachinesFollow
  <2> QED BY <2>1, <2>2, <2>3, <2>4
<1>16. CASE Start(r)
  <2>0. phase[r] = "running" /\ at[r] = 2
    BY <1>16, <1>0, Scripts DEF Start
  <2>6. /\ clear' = clear /\ tfstate' = tfstate /\ taken' = taken /\ status' = status
        /\ freed' = freed /\ GoOn(r, 1)
    BY <1>16 DEF Start
  <2>8. container' \in Containers /\ container'.owner = container.owner
    <3>1. CASE container' = container
      BY <3>1 DEF TypeOK
    <3>2. CASE container # NoContainer /\ container' = [container EXCEPT !.up = TRUE]
      <4>1. container \in [owner: {"ours", "other"}, up: BOOLEAN]
        BY <3>2 DEF TypeOK, Containers
      <4> QED BY <3>2, <4>1 DEF Containers
    <3> QED BY <1>16, <3>1, <3>2 DEF Start
  <2>7. \A q \in Runs : (at[q] > 1 \/ q = r) /\ container'.owner # "ours" => q \in freed'
    BY <2>0, <2>6, <2>8 DEF ScriptsFollow
  <2>5. /\ ScriptsFollow' /\ at' \in [Runs -> Nat]
        /\ \A q \in Runs : at'[q] \in 1..(Len(Script(q)) + 1)
        /\ phase' \in [Runs -> {"idle", "running", "stalled", "zero", "failed", "cut"}]
    <3>1. at[r] + 1 <= Len(Script(r)) + 1 /\ ~(at[r] + 1 > 8) /\ ~(at[r] + 1 > 11)
      BY <1>0, <2>0
    <3> HIDE DEF Inv
    <3>2. TypeOK /\ ScriptsFollow
      BY DEF Inv
    <3> QED BY <2>0, <2>6, <2>7, <3>1, <3>2, GoesOn
  <2>1. TypeOK'
    BY <1>16, <2>0, <2>5, <2>6, <2>8, Scripts DEF Start, TypeOK
  <2>2. ThreadsFollow'
    BY <1>16, <2>0 DEF Start, GoOn, TypeOK, ThreadsFollow
  <2>3. ScriptsFollow'
    BY <2>5
  <2>4. MachinesFollow'
    BY <1>16 DEF Start, MachinesFollow
  <2> QED BY <2>1, <2>2, <2>3, <2>4
<1>5. CASE Remove(r)
  <2>0. /\ phase[r] = "running" /\ at[r] = 2
        /\ Component[r] = "vm" /\ Len(Script(r)) = 12
    BY <1>5, <1>0, Scripts DEF Remove, Replaces
  <2>6. /\ phase' \in [Runs -> {"idle", "running", "stalled", "zero", "failed", "cut"}]
        /\ \A q \in Runs : \/ phase'[q] = phase[q]
                           \/ phase'[q] = "failed" /\ phase[q] \in {"stalled", "cut"}
    BY <1>5, Ended DEF Remove
  <2>9. at'[r] = 3 /\ \A q \in Runs \ {r} : at'[q] = at[q]
    BY <1>5, <2>0 DEF Remove, TypeOK
  <2>7. at' \in [Runs -> Nat]
    BY <1>5, <2>0 DEF Remove, TypeOK
  <2>8. /\ thread' = thread /\ sent' = sent /\ status' = status /\ clear' = clear
        /\ tfstate' = tfstate /\ taken' = taken /\ container' = NoContainer
        /\ freed' = freed \cup {q \in Runs : at[q] > 1}
    BY <1>5 DEF Remove, Frees
  <2>1. TypeOK'
    <3>1. ASSUME NEW q \in Runs PROVE at'[q] \in 1..(Len(Script(q)) + 1)
      <4>1. CASE q = r
        <5>1. Len(Script(r)) = 12 /\ at'[r] = 3 /\ 3 \in 1..(12 + 1)
          BY <2>0, <2>9
        <5> QED BY <4>1, <5>1
      <4>2. CASE q # r
        BY <2>9, <4>2 DEF TypeOK
      <4> QED BY <4>1, <4>2
    <3> QED BY <1>5, <2>6, <2>7, <2>8, <3>1 DEF Remove, TypeOK, Containers
  <2>2. ThreadsFollow'
    <3>1. ASSUME NEW q \in Runs, phase'[q] # phase[q]
          PROVE  phase[q] \notin {"idle", "zero", "failed"}
      BY <2>6, <3>1
    <3>2. \A q \in Runs : status[q] \in {None, "zero", "failed"}
      BY DEF TypeOK
    <3> QED BY <2>8, <3>1, <3>2 DEF ThreadsFollow
  <2>3. ScriptsFollow'
    <3>1. ASSUME NEW q \in Runs, q # r
          PROVE  /\ phase'[q] \in {"running", "stalled", "cut"} => at[q] <= Len(Script(q))
                 /\ phase'[q] = "idle" => phase[q] = "idle"
                 /\ phase'[q] = "zero" => at[q] > Len(Script(q))
      BY <2>6 DEF ScriptsFollow
    <3>2. phase'[r] = "running" /\ at'[r] = 3
      BY <2>0, <2>6, <2>9
    <3>4. Len(Script(r)) = 12 /\ Component[r] = "vm"
      BY <2>0
    <3>5. ASSUME NEW q \in Runs
          PROVE  /\ phase'[q] = "idle" => /\ at'[q] = 1 /\ clear'[q] = {} /\ tfstate'[q] = {}
                                         /\ taken'[q] = {} /\ status'[q] = None
                 /\ phase'[q] \in {"running", "stalled", "cut"} => at'[q] <= Len(Script(q))
                 /\ phase'[q] = "zero" => at'[q] > Len(Script(q))
                 /\ at'[q] > 1 => q \in freed'
                 /\ Component[q] = "vm" /\ at'[q] > 8 => clear'[q] = Wanted[q]
                 /\ Component[q] = "vm" /\ at'[q] > 11 => Wanted[q] \subseteq tfstate'[q]
      <4>1. CASE q = r
        <5>1. r \in freed' /\ 3 <= 12 /\ ~(3 > 8) /\ ~(3 > 11)
          BY <2>0, <2>8
        <5> QED BY <3>2, <3>4, <4>1, <5>1
      <4>2. CASE q # r
        BY <2>6, <2>8, <2>9, <3>1, <4>2 DEF ScriptsFollow
      <4> QED BY <4>1, <4>2
    <3> QED BY <2>8, <3>5 DEF ScriptsFollow
  <2>4. MachinesFollow'
    BY <1>5 DEF Remove, MachinesFollow
  <2> QED BY <2>1, <2>2, <2>3, <2>4
<1>6. CASE Recheck(r)
  <2>0. /\ phase[r] = "running" /\ at[r] = 3
        /\ Component[r] = "vm" /\ Len(Script(r)) = 12
    BY <1>6, <1>0, Scripts DEF Recheck
  <2>00. PICK n \in {1, 2} : GoOn(r, n)
    BY <1>6 DEF Recheck
  <2>5. /\ ScriptsFollow' /\ at' \in [Runs -> Nat]
        /\ \A q \in Runs : at'[q] \in 1..(Len(Script(q)) + 1)
        /\ phase' \in [Runs -> {"idle", "running", "stalled", "zero", "failed", "cut"}]
    <3>1. /\ container' = container /\ clear' = clear /\ tfstate' = tfstate
          /\ taken' = taken /\ status' = status /\ freed' = freed
      BY <1>6 DEF Recheck
    <3>2. at[r] + n <= Len(Script(r)) + 1 /\ ~(at[r] + n > 8) /\ ~(at[r] + n > 11)
      BY <2>0
    <3>3. \A q \in Runs : (at[q] > 1 \/ q = r) /\ container'.owner # "ours" => q \in freed'
      BY <2>0, <3>1 DEF ScriptsFollow
    <3> HIDE DEF Inv
    <3>4. TypeOK /\ ScriptsFollow
      BY DEF Inv
    <3> QED BY <2>0, <2>00, <3>1, <3>2, <3>3, <3>4, GoesOn
  <2>1. TypeOK'
    BY <1>6, <2>0, <2>5, Scripts DEF Recheck, TypeOK
  <2>2. ThreadsFollow'
    BY <1>6, <2>0, <2>00 DEF Recheck, GoOn, TypeOK, ThreadsFollow
  <2>3. ScriptsFollow'
    BY <2>5
  <2>4. MachinesFollow'
    BY <1>6 DEF Recheck, MachinesFollow
  <2> QED BY <2>1, <2>2, <2>3, <2>4
<1>7. CASE Create(r)
  <2>0. /\ phase[r] = "running" /\ at[r] = 4
        /\ Component[r] = "vm" /\ Len(Script(r)) = 12
        /\ container'.owner = "ours" /\ container' \in Containers
    BY <1>7, <1>0, Scripts DEF Create, Containers
  <2>5. /\ ScriptsFollow' /\ at' \in [Runs -> Nat]
        /\ \A q \in Runs : at'[q] \in 1..(Len(Script(q)) + 1)
        /\ phase' \in [Runs -> {"idle", "running", "stalled", "zero", "failed", "cut"}]
    <3>1. GoOn(r, 1) /\ clear' = clear /\ tfstate' = tfstate /\ taken' = taken /\ status' = status
      BY <1>7 DEF Create
    <3> QED BY <1>7, <1>0, <2>0, <3>1, GoesOn DEF Create, ScriptsFollow
  <2>1. TypeOK'
    BY <1>7, <2>0, <2>5, Scripts DEF Create, TypeOK
  <2>2. ThreadsFollow'
    BY <1>7, <2>0 DEF Create, GoOn, TypeOK, ThreadsFollow
  <2>3. ScriptsFollow'
    BY <2>5
  <2>4. MachinesFollow'
    BY <1>7 DEF Create, MachinesFollow
  <2> QED BY <2>1, <2>2, <2>3, <2>4
<1>8. CASE Probe(r)
  <2>0. /\ phase[r] = "running" /\ at[r] > 1
        /\ Component[r] = "vm" => Len(Script(r)) = 12 /\ at[r] = 5
    BY <1>8, <1>0, Scripts DEF Probe
  <2>5. /\ ScriptsFollow' /\ at' \in [Runs -> Nat]
        /\ \A q \in Runs : at'[q] \in 1..(Len(Script(q)) + 1)
        /\ phase' \in [Runs -> {"idle", "running", "stalled", "zero", "failed", "cut"}]
    BY <1>8, <1>0, <2>0, GoesOn DEF Probe, ScriptsFollow
  <2>1. TypeOK'
    BY <1>8, <2>5, Scripts DEF Probe, TypeOK
  <2>2. ThreadsFollow'
    BY <1>8, <2>0 DEF Probe, GoOn, TypeOK, ThreadsFollow
  <2>3. ScriptsFollow'
    BY <2>5
  <2>4. MachinesFollow'
    BY <1>8 DEF Probe, MachinesFollow
  <2> QED BY <2>1, <2>2, <2>3, <2>4
<1>9. CASE CommandEnds(r)
  <2>0. /\ phase[r] = "running" /\ at[r] > 1
        /\ Component[r] = "vm" => Len(Script(r)) = 12 /\ at[r] \in {6, 7, 9, 12}
    BY <1>9, <1>0, Scripts DEF CommandEnds
  <2>5. /\ ScriptsFollow' /\ at' \in [Runs -> Nat]
        /\ \A q \in Runs : at'[q] \in 1..(Len(Script(q)) + 1)
        /\ phase' \in [Runs -> {"idle", "running", "stalled", "zero", "failed", "cut"}]
    BY <1>9, <1>0, <2>0, GoesOn DEF CommandEnds, ScriptsFollow
  <2>1. TypeOK'
    <3>1. unread' \in [Runs -> 0..Window]
      BY <1>9 DEF CommandEnds, TypeOK
    <3> QED BY <1>9, <2>5, <3>1, Scripts DEF CommandEnds, TypeOK
  <2>2. ThreadsFollow'
    BY <1>9, <2>0 DEF CommandEnds, GoOn, TypeOK, ThreadsFollow
  <2>3. ScriptsFollow'
    BY <2>5
  <2>4. MachinesFollow'
    BY <1>9 DEF CommandEnds, MachinesFollow
  <2> QED BY <2>1, <2>2, <2>3, <2>4
<1>10. CASE AddressesFree(r)
  <2>0. /\ phase[r] = "running" /\ at[r] = 8
        /\ Component[r] = "vm" /\ Len(Script(r)) = 12
    BY <1>10, <1>0, Scripts DEF AddressesFree
  <2>5. /\ ScriptsFollow' /\ at' \in [Runs -> Nat]
        /\ \A q \in Runs : at'[q] \in 1..(Len(Script(q)) + 1)
        /\ phase' \in [Runs -> {"idle", "running", "stalled", "zero", "failed", "cut"}]
    BY <1>10, <1>0, <2>0, GoesOn DEF AddressesFree, ScriptsFollow
  <2>1. TypeOK'
    <3>1. unread' \in [Runs -> 0..Window]
      BY <1>10 DEF AddressesFree, TypeOK
    <3> QED BY <1>10, <2>5, <3>1, Scripts DEF AddressesFree, TypeOK
  <2>2. ThreadsFollow'
    BY <1>10, <2>0 DEF AddressesFree, GoOn, TypeOK, ThreadsFollow
  <2>3. ScriptsFollow'
    BY <2>5
  <2>4. MachinesFollow'
    BY <1>10 DEF AddressesFree, MachinesFollow
  <2> QED BY <2>1, <2>2, <2>3, <2>4
<1>11. CASE ApplyEnds(r)
  <2>0. /\ phase[r] = "running" /\ at[r] = 10
        /\ Component[r] = "vm" /\ Len(Script(r)) = 12
    BY <1>11, <1>0, Scripts DEF ApplyEnds
  <2>5. /\ ScriptsFollow' /\ at' \in [Runs -> Nat]
        /\ \A q \in Runs : at'[q] \in 1..(Len(Script(q)) + 1)
        /\ phase' \in [Runs -> {"idle", "running", "stalled", "zero", "failed", "cut"}]
    BY <1>11, <1>0, <2>0, GoesOn DEF ApplyEnds, ScriptsFollow
  <2>1. TypeOK'
    <3>1. unread' \in [Runs -> 0..Window]
      BY <1>11 DEF ApplyEnds, TypeOK
    <3> QED BY <1>11, <2>5, <3>1, Scripts DEF ApplyEnds, TypeOK
  <2>2. ThreadsFollow'
    BY <1>11, <2>0 DEF ApplyEnds, GoOn, TypeOK, ThreadsFollow
  <2>3. ScriptsFollow'
    BY <2>5
  <2>4. MachinesFollow'
    BY <1>11 DEF ApplyEnds, MachinesFollow
  <2> QED BY <2>1, <2>2, <2>3, <2>4
<1>12. CASE Verify(r)
  <2>0. /\ phase[r] = "running" /\ at[r] = 11
        /\ Component[r] = "vm" /\ Len(Script(r)) = 12
    BY <1>12, <1>0, Scripts DEF Verify
  <2>6. Wanted[r] \subseteq tfstate[r]
    <3>1. tfstate[r] \subseteq Wanted[r] /\ IsFiniteSet(Wanted[r])
      BY FS_Subset DEF TypeOK, MachinesFollow
    <3> QED BY <1>12, <3>1, FS_Subset DEF Verify
  <2>5. /\ ScriptsFollow' /\ at' \in [Runs -> Nat]
        /\ \A q \in Runs : at'[q] \in 1..(Len(Script(q)) + 1)
        /\ phase' \in [Runs -> {"idle", "running", "stalled", "zero", "failed", "cut"}]
    BY <1>12, <1>0, <2>0, <2>6, GoesOn DEF Verify, ScriptsFollow
  <2>1. TypeOK'
    <3>1. unread' \in [Runs -> 0..Window]
      BY <1>12 DEF Verify, TypeOK
    <3> QED BY <1>12, <2>5, <3>1, Scripts DEF Verify, TypeOK
  <2>2. ThreadsFollow'
    BY <1>12, <2>0 DEF Verify, GoOn, TypeOK, ThreadsFollow
  <2>3. ScriptsFollow'
    BY <2>5
  <2>4. MachinesFollow'
    BY <1>12 DEF Verify, MachinesFollow
  <2> QED BY <2>1, <2>2, <2>3, <2>4
<1>13. ASSUME NEW a \in Addresses, Ping(r, a) PROVE Inv'
  <2>0. /\ phase[r] = "running" /\ at[r] = 8
        /\ Component[r] = "vm" /\ Len(Script(r)) = 12
    BY <1>13, <1>0, Scripts DEF Ping
  <2>1. TypeOK'
    BY <1>13, <1>0, <2>0, Scripts DEF Ping, TypeOK
  <2>2. ThreadsFollow'
    BY <1>13, <1>0, <2>0 DEF Ping, TypeOK, ThreadsFollow
  <2>3. ScriptsFollow'
    BY <1>13, <1>0, <2>0, Scripts DEF Ping, TypeOK, ThreadsFollow, ScriptsFollow
  <2>4. MachinesFollow'
    BY <1>13, <2>0 DEF Ping, TypeOK, MachinesFollow
  <2> QED BY <2>1, <2>2, <2>3, <2>4
<1>14. ASSUME NEW a \in Addresses, CloneMachine(r, a) PROVE Inv'
  <2>0. phase[r] \in {"running", "cut"} /\ Component[r] = "vm" /\ at[r] = 10
    BY <1>14, <1>0, Scripts DEF CloneMachine
  <2>1. TypeOK'
    BY <1>14, <1>0, <2>0, Scripts DEF CloneMachine, TypeOK
  <2>2. ThreadsFollow'
    BY <1>14, <1>0, <2>0 DEF CloneMachine, TypeOK, ThreadsFollow
  <2>3. ScriptsFollow'
    BY <1>14, <1>0, <2>0, Scripts DEF CloneMachine, TypeOK, ThreadsFollow, ScriptsFollow
  <2>4. MachinesFollow'
    <3>1. a \in clear[r]
      BY <1>14, <2>0 DEF CloneMachine, ScriptsFollow
    <3> QED BY <1>14, <3>1 DEF CloneMachine, TypeOK, MachinesFollow
  <2> QED BY <2>1, <2>2, <2>3, <2>4
<1>15. ASSUME NEW a \in Addresses, CloneIsLost(r, a) PROVE Inv'
  <2>0. phase[r] = "running" /\ Component[r] = "vm" /\ at[r] = 10
    BY <1>15, <1>0, Scripts DEF CloneIsLost
  <2>1. TypeOK'
    BY <1>15, <1>0, <2>0, Scripts DEF CloneIsLost, TypeOK
  <2>2. ThreadsFollow'
    BY <1>15, <1>0, <2>0 DEF CloneIsLost, TypeOK, ThreadsFollow
  <2>3. ScriptsFollow'
    BY <1>15, <1>0, <2>0, Scripts DEF CloneIsLost, TypeOK, ThreadsFollow, ScriptsFollow
  <2>4. MachinesFollow'
    <3>1. a \in clear[r]
      BY <1>15, <2>0 DEF CloneIsLost, ScriptsFollow
    <3> QED BY <1>15, <3>1 DEF CloneIsLost, TypeOK, MachinesFollow
  <2> QED BY <2>1, <2>2, <2>3, <2>4
<1> QED
  BY <1>1, <1>2, <1>3, <1>4, <1>5, <1>6, <1>7, <1>8, <1>9, <1>10, <1>11,
     <1>12, <1>13, <1>14, <1>15, <1>16 DEF ScriptStep, Apply

LEMMA NextKeepsInv == Inv /\ [Next]_vars => Inv'
<1> SUFFICES ASSUME Inv, [Next]_vars PROVE Inv' OBVIOUS
<1>1. ASSUME NEW r \in Runs, ThreadStep(r) \/ Fault(r) PROVE Inv'
  BY <1>1, ThreadKeepsInv
<1>2. ASSUME NEW r \in Runs, ScriptStep(r) \/ ScriptCut(r) PROVE Inv'
  BY <1>2, ScriptKeepsInv
<1>3. ASSUME NEW a \in Strangers, MachineAppears(a) PROVE Inv'
  <2> USE <1>3, ControlHostAssumption DEF Inv, MachineAppears, ssh, script, vm
  <2>1. TypeOK'
    BY DEF TypeOK
  <2>2. ThreadsFollow' /\ ScriptsFollow'
    BY DEF ThreadsFollow, ScriptsFollow
  <2>3. MachinesFollow'
    BY DEF TypeOK, MachinesFollow
  <2> QED BY <2>1, <2>2, <2>3
<1>4. CASE UNCHANGED vars
  BY <1>4 DEF vars, Inv, TypeOK, ThreadsFollow, ScriptsFollow, MachinesFollow
<1>5. CASE OthersAct
  <2> USE DEF Inv, ssh, vm
  <2>1. /\ UNCHANGED <<thread, link, sent, status, at, unread, clear, tfstate, machines, faults, taken>>
        /\ EndsInside \/ UNCHANGED phase
    BY <1>5 DEF OthersAct
  <2>2. /\ phase' \in [Runs -> {"idle", "running", "stalled", "zero", "failed", "cut"}]
        /\ \A q \in Runs : \/ phase'[q] = phase[q]
                           \/ phase'[q] = "failed" /\ phase[q] \in {"stalled", "cut"}
    BY <2>1, Ended
  <2>3. /\ container' \in Containers /\ freed' \subseteq Runs
        /\ \A q \in Runs : at[q] > 1 /\ container'.owner # "ours" => q \in freed'
    <3>1. CASE Frees
      BY <3>1 DEF Frees, TypeOK, Containers
    <3>2. CASE container = NoContainer /\ freed' = freed /\ \E up \in BOOLEAN : container' = [owner |-> "other", up |-> up]
      BY <3>2 DEF TypeOK, ScriptsFollow, Containers, NoContainer
    <3> QED BY <1>5, <3>1, <3>2 DEF OthersAct
  <2>4. TypeOK'
    BY <2>1, <2>2, <2>3 DEF TypeOK
  <2>5. ThreadsFollow'
    <3>1. \A q \in Runs : status[q] \in {None, "zero", "failed"}
      BY DEF TypeOK
    <3> QED BY <2>1, <2>2, <3>1 DEF ThreadsFollow
  <2>6. ScriptsFollow'
    BY <2>1, <2>2, <2>3 DEF ScriptsFollow
  <2>7. MachinesFollow'
    BY <2>1 DEF MachinesFollow
  <2> QED BY <2>4, <2>5, <2>6, <2>7
<1> QED BY <1>1, <1>2, <1>3, <1>4, <1>5 DEF Next

\* The inductive invariant: a thread's position fixes what the control host has got
\* and answered, a script's position what it has checked and made.
THEOREM HostInvariant == Spec => []Inv
<1> QED BY InitInv, NextKeepsInv, PTL DEF Spec

\* Every position, connection, channel and machine stays within its values.
THEOREM HostTypeCorrect == Spec => []TypeOK
<1>1. Inv => TypeOK
  BY DEF Inv
<1> QED BY <1>1, HostInvariant, PTL

\* No lost connection, cut script, removed container or empty apply is ever taken for
\* a success, whatever other runs do on the same control host (executor.py:124-175).
THEOREM SuccessIsAlwaysReal == Spec => []SuccessIsReal
<1>1. Inv => SuccessIsReal
  <2> SUFFICES ASSUME Inv, NEW r \in Runs, thread[r] = "succeeded"
               PROVE  /\ phase[r] = "zero" /\ sent[r] = Len(Bundle(r))
                      /\ Component[r] = "vm" =>
                           \A a \in Wanted[r] : a \in tfstate[r] /\ r \in machines[a]
    BY DEF SuccessIsReal
  <2>1. phase[r] = "zero" /\ sent[r] = Len(Bundle(r))
    BY ControlHostAssumption DEF Inv, ThreadsFollow
  <2>2. ASSUME Component[r] = "vm"
        PROVE  Wanted[r] \subseteq tfstate[r]
    <3>1. Len(Script(r)) = 12 /\ at[r] > Len(Script(r)) /\ at[r] \in Nat
      BY <2>1, <2>2, Scripts DEF Inv, TypeOK, ScriptsFollow
    <3> QED BY <2>2, <3>1 DEF Inv, ScriptsFollow
  <2>3. Wanted[r] \subseteq Addresses
    BY ControlHostAssumption
  <2> QED BY <2>1, <2>2, <2>3 DEF Inv, MachinesFollow
<1> QED BY <1>1, HostInvariant, PTL

\* Whatever connections are lost and whoever else makes machines, a run makes none at an
\* address that was in use and answering when it was started (check-ip-conflicts.py).
THEOREM NeverOntoOthers == Spec => []NeverOntoAnswering
<1>1. Inv => NeverOntoAnswering
  BY DEF Inv, MachinesFollow, NeverOntoAnswering
<1> QED BY <1>1, HostInvariant, PTL

\* A run that starts, removes or gets anywhere in a container of others passed its check of
\* the label, and the name was free at or after it: while a container of ours keeps the name,
\* no run comes near anybody else's (vm-runner.sh:28-54 and its siblings).
THEOREM OthersAreMetOnlyIfFreed == Spec => OthersOnlyIfFreed
<1> DEFINE Spared == \A r \in Runs : container.owner = "other" /\ ScriptStep(r) /\ r \notin freed =>
                                       UNCHANGED <<container, at, vm, machines>>
<1>1. ASSUME Inv PROVE Spared
  <2> SUFFICES ASSUME NEW r \in Runs, container.owner = "other", ScriptStep(r), r \notin freed
               PROVE  UNCHANGED <<container, at, vm, machines>>
    OBVIOUS
  <2>1. at[r] = 1
    BY <1>1 DEF Inv, TypeOK, ScriptsFollow
  <2>2. CASE CommandFails(r) \/ CommandStalls(r)
    BY <2>2 DEF CommandFails, CommandStalls
  <2>3. phase[r] \in {"running", "stalled", "cut"} => Command(r) = "inspect"
    <3>1. Component[r] \in Components
      BY ControlHostAssumption
    <3>2. Script(r)[1] = "inspect"
      BY <3>1 DEF Components, Script, VmScript, NodeInitScript, LocalRke2Script, RancherScript,
                  DownstreamScript
    <3> QED BY <2>1, <3>2 DEF Command
  <2>4. CASE Inspect(r)
    BY <2>4 DEF Inspect, NoContainer
  <2>5. ASSUME phase[r] \in {"running", "cut"}, Command(r) # "inspect"
        PROVE  FALSE
    BY <2>3, <2>5
  <2>6. CASE Start(r) \/ Remove(r) \/ Recheck(r) \/ Create(r) \/ Probe(r) \/ CommandEnds(r)
    BY <2>5, <2>6 DEF Start, Remove, Recheck, Create, Probe, CommandEnds, At, Special
  <2>7. CASE AddressesFree(r) \/ ApplyEnds(r) \/ Verify(r) \/ Apply(r) \/ \E a \in Addresses : Ping(r, a)
    BY <2>5, <2>7 DEF AddressesFree, ApplyEnds, Verify, Apply, CloneMachine, CloneIsLost, Ping, At
  <2> QED BY <2>2, <2>4, <2>6, <2>7 DEF ScriptStep
<1>2. Inv => [Spared]_vars
  BY <1>1
<1> QED BY <1>2, HostInvariant, PTL DEF OthersOnlyIfFreed
-----------------------------------------------------------------------------
\* Until something has gone wrong, connections hold and only failed scripts fail.
Undisturbed ==
  faults = 0 => \A r \in Runs : link[r] # "lost" /\ (thread[r] = "raised" => phase[r] = "failed")

\* What a failed script leaves: no step starts it again.
LEMMA UndisturbedStep ==
  ASSUME Inv, Undisturbed, Next
  PROVE  Undisturbed'
<1> SUFFICES ASSUME faults' = 0, NEW q \in Runs
             PROVE  link'[q] # "lost" /\ (thread'[q] = "raised" => phase'[q] = "failed")
  BY DEF Undisturbed
<1> USE DEF ssh, script, vm
<1>0. /\ thread \in [Runs -> {"queued", "connected", "waiting", "reading", "succeeded", "raised"}]
      /\ link \in [Runs -> {"none", "up", "lost", "closed"}]
      /\ status \in [Runs -> {None, "zero", "failed"}]
      /\ phase \in [Runs -> {"idle", "running", "stalled", "zero", "failed", "cut"}]
      /\ faults \in Nat
  BY ControlHostAssumption DEF Inv, TypeOK
<1>1. ASSUME faults = 0
      PROVE  /\ link[q] # "lost" /\ (thread[q] = "raised" => phase[q] = "failed")
             /\ status[q] = "failed" => phase[q] = "failed"
             /\ thread[q] = "reading" => status[q] # None
  BY <1>1, ControlHostAssumption DEF Undisturbed, Inv, ThreadsFollow
<1>2. CASE faults = 0 /\ UNCHANGED <<thread, link>> /\ (phase[q] = "failed" => phase'[q] = "failed")
  BY <1>1, <1>2
<1>3. ASSUME NEW r \in Runs, ThreadStep(r)
      PROVE  link'[q] # "lost" /\ (thread'[q] = "raised" => phase'[q] = "failed")
  <2>1. faults = 0
    BY <1>3 DEF ThreadStep, Connect, Upload, ExecCommand, StatusArrives, ReceiveStatus, ReadOutput,
                LossIsSeen
  <2>2. link[r] # "lost"
    BY <2>1 DEF Undisturbed
  <2>3. CASE Connect(r) \/ Upload(r) \/ ExecCommand(r) \/ StatusArrives(r)
    BY <1>0, <1>1, <2>1, <2>3 DEF Connect, Upload, ExecCommand, StatusArrives
  <2>4. CASE ReceiveStatus(r)
    BY <1>0, <1>1, <2>1, <2>4 DEF ReceiveStatus, Ends
  <2>5. CASE ReadOutput(r)
    BY <1>0, <1>1, <2>1, <2>5 DEF ReadOutput, Ends
  <2> QED BY <1>3, <2>2, <2>3, <2>4, <2>5 DEF ThreadStep, LossIsSeen
<1>4. ASSUME NEW r \in Runs, ScriptStep(r)
      PROVE  link'[q] # "lost" /\ (thread'[q] = "raised" => phase'[q] = "failed")
  <2>1. faults = 0 /\ UNCHANGED <<thread, link>>
    BY <1>4 DEF ScriptStep, CommandFails, CommandStalls, Inspect, Start, Remove, Recheck, Create, Probe,
                CommandEnds, AddressesFree, ApplyEnds, Verify, Apply, CloneMachine, CloneIsLost, Ping
  <2>2. phase[q] = "failed" => phase'[q] = "failed"
    <3>1. CASE CommandFails(r) \/ CommandStalls(r)
      BY <1>0, <3>1 DEF CommandFails, CommandStalls
    <3>2. ASSUME phase[r] = "running", NEW p, phase' = [phase EXCEPT ![r] = p]
          PROVE  phase[q] = "failed" => phase'[q] = "failed"
      BY <1>0, <3>2
    <3>3. CASE Inspect(r) \/ Start(r) \/ Recheck(r) \/ Create(r) \/ Probe(r)
      BY <3>2, <3>3 DEF Inspect, Start, Recheck, Create, Probe, At, GoOn
    <3>4. CASE CommandEnds(r) \/ AddressesFree(r) \/ ApplyEnds(r) \/ Verify(r)
      BY <3>2, <3>4 DEF CommandEnds, AddressesFree, ApplyEnds, Verify, At, GoOn
    <3>5. CASE Remove(r)
      BY <3>5, Ended DEF Inv, Remove
    <3>6. CASE Apply(r) \/ \E a \in Addresses : Ping(r, a)
      BY <1>0, <3>6 DEF Apply, CloneMachine, CloneIsLost, Ping
    <3> QED BY <1>4, <3>1, <3>3, <3>4, <3>5, <3>6 DEF ScriptStep
  <2> QED BY <1>2, <2>1, <2>2
<1>5. ASSUME NEW r \in Runs, ScriptCut(r)
      PROVE  link'[q] # "lost" /\ (thread'[q] = "raised" => phase'[q] = "failed")
  BY <1>0, <1>2, <1>5 DEF ScriptCut
<1>6. ASSUME NEW r \in Runs, Fault(r)
      PROVE  FALSE
  BY <1>0, <1>6 DEF Fault, Raises, LoseLink
<1>7. ASSUME NEW a \in Strangers, MachineAppears(a)
      PROVE  link'[q] # "lost" /\ (thread'[q] = "raised" => phase'[q] = "failed")
  BY <1>2, <1>7 DEF MachineAppears
<1>8. ASSUME OthersAct
      PROVE  link'[q] # "lost" /\ (thread'[q] = "raised" => phase'[q] = "failed")
  <2>1. faults = 0 /\ UNCHANGED <<thread, link>> /\ (EndsInside \/ UNCHANGED phase)
    BY <1>8 DEF OthersAct
  <2>2. phase[q] = "failed" => phase'[q] = "failed"
    BY <2>1, Ended DEF Inv
  <2> QED BY <1>2, <2>1, <2>2
<1> QED BY <1>3, <1>4, <1>5, <1>6, <1>7, <1>8 DEF Next

\* While no connection is lost and nothing raises, only a failed script makes an execution
\* fail: the order of reading its status and its output does not.
THEOREM FailureIsAlwaysReal == Spec => []FailureIsReal
<1>1. Init => Undisturbed
  BY DEF Init, Undisturbed
<1>2. Undisturbed /\ UNCHANGED vars => Undisturbed'
  BY DEF vars, Undisturbed
<1>3. Inv /\ Undisturbed /\ [Next]_vars => Undisturbed'
  BY <1>2, UndisturbedStep
<1>4. Undisturbed => FailureIsReal
  BY DEF Undisturbed, FailureIsReal
<1> QED BY <1>1, <1>3, <1>4, HostInvariant, PTL DEF Spec

-----------------------------------------------------------------------------
(* The steps to an end.                                                    *)

\* A thread that waits has its connection or will see that it is gone, and with the
\* connection its runner is at work or has ended, unless the channel is full.
WaitsForItsRunner ==
  \A r \in Runs :
    /\ thread[r] \in {"connected", "waiting", "reading"} => link[r] \in {"up", "lost"}
    /\ thread[r] = "waiting" /\ link[r] = "up" =>
         \/ phase[r] \in {"running", "zero", "failed"}
         \/ phase[r] = "stalled" /\ unread[r] = Window

\* How many steps a thread and a script have to take, at most.
ThreadStepsOf ==
  [queued |-> 4, connected |-> 3, waiting |-> 2, reading |-> 1, succeeded |-> 0, raised |-> 0]
PhaseStepsOf ==
  [idle |-> 4, running |-> 3, stalled |-> 2, cut |-> 1, zero |-> 0, failed |-> 0]
ThreadLeft(r) ==
  ThreadStepsOf[thread[r]] + (Len(Bundle(r)) - sent[r]) + (IF status[r] = None THEN 1 ELSE 0)
ScriptLeft(r) ==
  PhaseStepsOf[phase[r]] + (Len(Script(r)) + 1 - at[r])
    + Cardinality(Wanted[r] \ clear[r]) + Cardinality(Wanted[r] \ tfstate[r])

\* Each step of a thread and of a script brings it nearer to its end, and nothing that
\* others do takes it back.
ExecutionsRunOut ==
  [][\A r \in Runs :
       /\ ThreadStep(r) \/ Raises(r) => ThreadLeft(r)' < ThreadLeft(r)
       /\ ScriptStep(r) \/ ScriptCut(r) => ScriptLeft(r)' < ScriptLeft(r)
       /\ ThreadLeft(r)' <= ThreadLeft(r) /\ ScriptLeft(r)' <= ScriptLeft(r)]_vars

LeftIsANumber == \A r \in Runs : ThreadLeft(r) \in Nat /\ ScriptLeft(r) \in Nat

LEMMA StepsAre ==
  /\ ThreadStepsOf["queued"] = 4 /\ ThreadStepsOf["connected"] = 3 /\ ThreadStepsOf["waiting"] = 2
  /\ ThreadStepsOf["reading"] = 1 /\ ThreadStepsOf["succeeded"] = 0 /\ ThreadStepsOf["raised"] = 0
  /\ PhaseStepsOf["idle"] = 4 /\ PhaseStepsOf["running"] = 3 /\ PhaseStepsOf["stalled"] = 2
  /\ PhaseStepsOf["cut"] = 1 /\ PhaseStepsOf["zero"] = 0 /\ PhaseStepsOf["failed"] = 0
BY DEF ThreadStepsOf, PhaseStepsOf

\* What is still to be pinged or made is a number, and one less after each.
LEMMA StillToDo ==
  ASSUME NEW r \in Runs, NEW S
  PROVE  /\ Cardinality(Wanted[r] \ S) \in Nat
         /\ \A a \in Wanted[r] \ S :
              Cardinality(Wanted[r] \ (S \cup {a})) = Cardinality(Wanted[r] \ S) - 1
<1>1. IsFiniteSet(Wanted[r])
  BY ControlHostAssumption, FS_Subset
<1>2. IsFiniteSet(Wanted[r] \ S)
  BY <1>1, FS_Subset
<1>3. ASSUME NEW a \in Wanted[r] \ S
      PROVE  Cardinality(Wanted[r] \ (S \cup {a})) = Cardinality(Wanted[r] \ S) - 1
  <2>1. Wanted[r] \ (S \cup {a}) = (Wanted[r] \ S) \ {a}
    OBVIOUS
  <2> QED BY <1>2, <2>1, FS_RemoveElement
<1> QED BY <1>2, <1>3, FS_CardinalityType

\* What is left of a length.
LEMMA ToTheEnd ==
  \A n \in Nat : /\ \A i \in 0..n : n - i \in Nat /\ (i < n => n - (i + 1) = (n - i) - 1)
                 /\ \A i \in 1..(n + 1) : n + 1 - i \in Nat
OBVIOUS

LEMMA LeftType == Inv => LeftIsANumber
<1> SUFFICES ASSUME Inv, NEW r \in Runs
             PROVE  ThreadLeft(r) \in Nat /\ ScriptLeft(r) \in Nat
  BY DEF LeftIsANumber
<1>1. /\ thread[r] \in {"queued", "connected", "waiting", "reading", "succeeded", "raised"}
      /\ phase[r] \in {"idle", "running", "stalled", "zero", "failed", "cut"}
      /\ sent[r] \in 0..Len(Bundle(r)) /\ at[r] \in 1..(Len(Script(r)) + 1)
      /\ Len(Bundle(r)) \in Nat /\ Len(Script(r)) \in Nat
  BY Scripts DEF Inv, TypeOK
<1>2. ThreadStepsOf[thread[r]] \in Nat /\ PhaseStepsOf[phase[r]] \in Nat
  BY <1>1, StepsAre
<1>3. Cardinality(Wanted[r] \ clear[r]) \in Nat /\ Cardinality(Wanted[r] \ tfstate[r]) \in Nat
  BY StillToDo
<1>4. Len(Bundle(r)) - sent[r] \in Nat /\ Len(Script(r)) + 1 - at[r] \in Nat
  <2> DEFINE parts == Len(Bundle(r))
             commands == Len(Script(r))
             i == sent[r]
             j == at[r]
  <2>1. parts \in Nat /\ commands \in Nat /\ i \in 0..parts /\ j \in 1..(commands + 1)
    BY <1>1
  <2> HIDE DEF parts, commands, i, j
  <2>2. parts - i \in Nat /\ commands + 1 - j \in Nat
    BY <2>1
  <2> QED BY <2>2 DEF parts, commands, i, j
<1>5. ThreadLeft(r) \in Nat
  BY <1>2, <1>3, <1>4 DEF ThreadLeft
<1>6. ScriptLeft(r) \in Nat
  BY <1>2, <1>3, <1>4 DEF ScriptLeft
<1> QED BY <1>5, <1>6

\* A step of one thread.
LEMMA ThreadMovesOn ==
  ASSUME Inv, NEW r \in Runs, ThreadStep(r) \/ Raises(r)
  PROVE  /\ ThreadLeft(r)' < ThreadLeft(r)
         /\ \A q \in Runs \ {r} : ThreadLeft(q)' = ThreadLeft(q)
<1>1. /\ thread \in [Runs -> {"queued", "connected", "waiting", "reading", "succeeded", "raised"}]
      /\ sent \in [Runs -> Nat] /\ status \in [Runs -> {None, "zero", "failed"}]
      /\ sent[r] \in 0..Len(Bundle(r)) /\ Len(Bundle(r)) \in Nat
  BY Scripts DEF Inv, TypeOK
<1>2. \A q \in Runs \ {r} : thread'[q] = thread[q] /\ sent'[q] = sent[q] /\ status'[q] = status[q]
  BY <1>1 DEF ThreadStep, Raises, Connect, Upload, ExecCommand, StatusArrives, ReceiveStatus,
              ReadOutput, LossIsSeen, Ends, ssh
<1> DEFINE rest == Len(Bundle(r)) - sent[r]
           awaited == IF status[r] = None THEN 1 ELSE 0
           own == ThreadStepsOf[thread[r]]
<1>3. rest \in Nat /\ awaited \in {0, 1} /\ own \in Nat /\ ThreadLeft(r) = own + rest + awaited
  <2>1. rest \in Nat
    BY <1>1, ToTheEnd
  <2>2. thread[r] \in {"queued", "connected", "waiting", "reading", "succeeded", "raised"}
    BY <1>1
  <2>3. own \in Nat
    BY <2>2, StepsAre
  <2> QED BY <2>1, <2>3 DEF ThreadLeft
<1>4. ASSUME sent'[r] = sent[r], status'[r] = status[r],
             ThreadStepsOf[thread'[r]] \in Nat, ThreadStepsOf[thread'[r]] < own
      PROVE  ThreadLeft(r)' < ThreadLeft(r)
  <2>1. ThreadLeft(r)' = ThreadStepsOf[thread'[r]] + rest + awaited
    BY <1>4 DEF ThreadLeft
  <2> HIDE DEF rest, awaited, own
  <2> QED BY <1>3, <1>4, <2>1
<1>5. ASSUME Connect(r) PROVE ThreadLeft(r)' < ThreadLeft(r)
  <2>1. thread[r] = "queued" /\ thread'[r] = "connected" /\ sent'[r] = sent[r] /\ status'[r] = status[r]
    BY <1>1, <1>5 DEF Connect
  <2> QED BY <1>4, <2>1, StepsAre
<1>6. ASSUME Upload(r) PROVE ThreadLeft(r)' < ThreadLeft(r)
  <2>1. /\ thread'[r] = thread[r] /\ sent'[r] = sent[r] + 1 /\ status'[r] = status[r]
        /\ sent[r] < Len(Bundle(r))
    BY <1>1, <1>6 DEF Upload
  <2>2. Len(Bundle(r)) - sent'[r] = rest - 1
    BY <1>1, <2>1, ToTheEnd
  <2>3. ThreadLeft(r)' = own + (rest - 1) + awaited
    BY <2>1, <2>2 DEF ThreadLeft
  <2> HIDE DEF rest, awaited, own
  <2> QED BY <1>3, <2>3
<1>7. ASSUME ExecCommand(r) PROVE ThreadLeft(r)' < ThreadLeft(r)
  <2>1. thread[r] = "connected" /\ thread'[r] = "waiting" /\ sent'[r] = sent[r] /\ status'[r] = status[r]
    BY <1>1, <1>7 DEF ExecCommand
  <2> QED BY <1>4, <2>1, StepsAre
<1>8. ASSUME StatusArrives(r) PROVE ThreadLeft(r)' < ThreadLeft(r)
  <2>1. thread'[r] = thread[r] /\ sent'[r] = sent[r] /\ status[r] = None /\ status'[r] # None
    BY <1>1, <1>8, ControlHostAssumption DEF StatusArrives
  <2>2. ThreadLeft(r)' = own + rest + 0 /\ awaited = 1
    BY <2>1 DEF ThreadLeft
  <2> HIDE DEF rest, awaited, own
  <2> QED BY <1>3, <2>2
<1>9. ASSUME ReceiveStatus(r) PROVE ThreadLeft(r)' < ThreadLeft(r)
  <2>1. thread[r] = "waiting" /\ thread'[r] \in {"raised", "reading"} /\ sent'[r] = sent[r] /\ status'[r] = status[r]
    BY <1>1, <1>9 DEF ReceiveStatus, Ends
  <2> QED BY <1>4, <2>1, StepsAre
<1>10. ASSUME ReadOutput(r) PROVE ThreadLeft(r)' < ThreadLeft(r)
  <2>1. /\ thread[r] = "reading" /\ thread'[r] \in {"succeeded", "raised"}
        /\ sent'[r] = sent[r] /\ status'[r] = status[r]
    BY <1>1, <1>10 DEF ReadOutput, Ends
  <2> QED BY <1>4, <2>1, StepsAre
<1>11. ASSUME LossIsSeen(r) \/ Raises(r) PROVE ThreadLeft(r)' < ThreadLeft(r)
  <2>1. /\ thread[r] \in {"queued", "connected", "waiting", "reading"} /\ thread'[r] = "raised"
        /\ sent'[r] = sent[r] /\ status'[r] = status[r]
    BY <1>1, <1>11 DEF LossIsSeen, Raises, Ends
  <2> QED BY <1>4, <2>1, StepsAre
<1>12. ThreadLeft(r)' < ThreadLeft(r)
  BY <1>5, <1>6, <1>7, <1>8, <1>9, <1>10, <1>11 DEF ThreadStep
<1>13. ASSUME NEW q \in Runs \ {r} PROVE ThreadLeft(q)' = ThreadLeft(q)
  BY <1>2, <1>13 DEF ThreadLeft
<1> QED BY <1>12, <1>13

\* A script that is ended, or left alone, has no more to do than before.
LEMMA EndedIsLess ==
  ASSUME TypeOK, LeftIsANumber, LeftIsANumber', NEW q \in Runs,
         at'[q] = at[q], clear'[q] = clear[q], tfstate'[q] = tfstate[q],
         phase'[q] = phase[q] \/ (phase'[q] = "failed" /\ phase[q] \in {"stalled", "cut"})
  PROVE  ScriptLeft(q)' <= ScriptLeft(q)
<1>1. ScriptLeft(q) \in Nat /\ ScriptLeft(q)' \in Nat
  BY DEF LeftIsANumber
<1>2. CASE phase'[q] = phase[q]
  <2>1. ScriptLeft(q)' = ScriptLeft(q)
    BY <1>2 DEF ScriptLeft
  <2> QED BY <1>1, <2>1
<1>3. CASE phase'[q] = "failed" /\ phase[q] \in {"stalled", "cut"}
  <2>1. PhaseStepsOf[phase'[q]] = 0 /\ PhaseStepsOf[phase[q]] \in Nat
    BY <1>3, StepsAre
  <2>2. /\ Len(Script(q)) \in Nat /\ at[q] \in Nat
        /\ Cardinality(Wanted[q] \ clear[q]) \in Nat /\ Cardinality(Wanted[q] \ tfstate[q]) \in Nat
    BY Scripts, StillToDo DEF TypeOK
  <2>3. ScriptLeft(q)' = 0 + (Len(Script(q)) + 1 - at[q])
                           + Cardinality(Wanted[q] \ clear[q])
                           + Cardinality(Wanted[q] \ tfstate[q])
    BY <1>3, <2>1 DEF ScriptLeft
  <2>4. \A p, l, i, x, y \in Nat : 0 + (l + 1 - i) + x + y <= p + (l + 1 - i) + x + y
    OBVIOUS
  <2> QED BY <2>1, <2>2, <2>3, <2>4 DEF ScriptLeft
<1> QED BY <1>2, <1>3

\* A step of one script.
LEMMA ScriptMovesOn ==
  ASSUME Inv, Inv', LeftIsANumber, LeftIsANumber', NEW r \in Runs, ScriptStep(r) \/ ScriptCut(r)
  PROVE  /\ ScriptLeft(r)' < ScriptLeft(r)
         /\ \A q \in Runs \ {r} : ScriptLeft(q)' <= ScriptLeft(q)
<1>1. /\ phase \in [Runs -> {"idle", "running", "stalled", "zero", "failed", "cut"}]
      /\ at \in [Runs -> Nat] /\ clear \in [Runs -> SUBSET Addresses]
      /\ tfstate \in [Runs -> SUBSET Addresses]
  BY DEF Inv, TypeOK
<1>2. \A q \in Runs : /\ Len(Script(q)) \in Nat /\ at[q] \in 1..(Len(Script(q)) + 1)
                      /\ at'[q] \in 1..(Len(Script(q)) + 1)
                      /\ Cardinality(Wanted[q] \ clear[q]) \in Nat
                      /\ Cardinality(Wanted[q] \ tfstate[q]) \in Nat
                      /\ PhaseStepsOf[phase[q]] \in Nat
  <2> SUFFICES ASSUME NEW q \in Runs
               PROVE  /\ Len(Script(q)) \in Nat /\ at[q] \in 1..(Len(Script(q)) + 1)
                      /\ at'[q] \in 1..(Len(Script(q)) + 1)
                      /\ Cardinality(Wanted[q] \ clear[q]) \in Nat
                      /\ Cardinality(Wanted[q] \ tfstate[q]) \in Nat
                      /\ PhaseStepsOf[phase[q]] \in Nat
    OBVIOUS
  <2>1. phase[q] \in {"idle", "running", "stalled", "zero", "failed", "cut"}
    BY <1>1
  <2>2. PhaseStepsOf[phase[q]] \in Nat
    BY <2>1, StepsAre
  <2>3. Len(Script(q)) \in Nat
    BY Scripts
  <2>4. at[q] \in 1..(Len(Script(q)) + 1) /\ at'[q] \in 1..(Len(Script(q)) + 1)
    BY DEF Inv, TypeOK
  <2> QED BY <2>2, <2>3, <2>4, StillToDo
<1>3. ASSUME NEW q \in Runs, at'[q] = at[q], clear'[q] = clear[q], tfstate'[q] = tfstate[q],
             phase'[q] = phase[q]
      PROVE  ScriptLeft(q)' <= ScriptLeft(q)
  <2>1. ScriptLeft(q)' = ScriptLeft(q)
    BY <1>3 DEF ScriptLeft
  <2>2. ScriptLeft(q) \in Nat
    BY DEF LeftIsANumber
  <2> QED BY <2>1, <2>2
<1>4. ASSUME NEW q \in Runs, at'[q] = at[q], clear'[q] = clear[q], tfstate'[q] = tfstate[q],
             PhaseStepsOf[phase'[q]] \in Nat, PhaseStepsOf[phase'[q]] < PhaseStepsOf[phase[q]]
      PROVE  ScriptLeft(q)' < ScriptLeft(q)
  <2>1. \A p, o, l, i, x, y \in Nat :
          o < p => o + (l + 1 - i) + x + y < p + (l + 1 - i) + x + y
    OBVIOUS
  <2>2. ScriptLeft(q)' = PhaseStepsOf[phase'[q]] + (Len(Script(q)) + 1 - at[q])
                           + Cardinality(Wanted[q] \ clear[q])
                           + Cardinality(Wanted[q] \ tfstate[q])
    BY <1>4 DEF ScriptLeft
  <2>3. at[q] \in Nat
    BY <1>1
  <2> QED BY <1>2, <1>4, <2>1, <2>2, <2>3 DEF ScriptLeft
\* A step of r alone.
<1>5. ASSUME NEW p, phase' = [phase EXCEPT ![r] = p], UNCHANGED <<at, clear, tfstate>>,
             PhaseStepsOf[p] \in Nat, PhaseStepsOf[p] < PhaseStepsOf[phase[r]]
      PROVE  /\ ScriptLeft(r)' < ScriptLeft(r)
             /\ \A q \in Runs \ {r} : ScriptLeft(q)' <= ScriptLeft(q)
  BY <1>1, <1>3, <1>4, <1>5
<1>6. ASSUME NEW n \in {1, 2}, phase[r] = "running", GoOn(r, n), UNCHANGED <<clear, tfstate>>
      PROVE  /\ ScriptLeft(r)' < ScriptLeft(r)
             /\ \A q \in Runs \ {r} : ScriptLeft(q)' <= ScriptLeft(q)
  <2>1. /\ at'[r] = at[r] + n /\ phase'[r] \in {"zero", "running"}
        /\ \A q \in Runs \ {r} : at'[q] = at[q] /\ phase'[q] = phase[q]
    BY <1>1, <1>6 DEF GoOn
  <2>2. PhaseStepsOf[phase'[r]] \in Nat /\ PhaseStepsOf[phase'[r]] <= PhaseStepsOf[phase[r]]
    BY <1>6, <2>1, StepsAre
  <2>3. ScriptLeft(r)' < ScriptLeft(r)
    <3>1. \A p, o, l, m, i, x, y \in Nat :
            o <= p /\ m > 0 => o + (l + 1 - (i + m)) + x + y < p + (l + 1 - i) + x + y
      OBVIOUS
    <3>2. ScriptLeft(r)' = PhaseStepsOf[phase'[r]] + (Len(Script(r)) + 1 - (at[r] + n))
                             + Cardinality(Wanted[r] \ clear[r])
                             + Cardinality(Wanted[r] \ tfstate[r])
      BY <1>6, <2>1 DEF ScriptLeft
    <3>3. at[r] \in Nat /\ n \in Nat /\ n > 0
      BY <1>1
    <3> QED BY <1>2, <2>2, <3>1, <3>2, <3>3 DEF ScriptLeft
  <2> QED BY <1>3, <1>6, <2>1, <2>3
<1>7. CASE CommandFails(r) \/ CommandStalls(r) \/ ScriptCut(r)
  BY <1>5, <1>7, StepsAre DEF CommandFails, CommandStalls, ScriptCut, vm
<1>8. CASE Inspect(r)
  <2>1. PICK n \in {1, 2} : GoOn(r, n)
    BY <1>8 DEF Inspect
  <2> QED BY <1>6, <1>8, <2>1 DEF Inspect, At, vm
<1>9. CASE Recheck(r)
  <2>1. PICK n \in {1, 2} : GoOn(r, n)
    BY <1>9 DEF Recheck
  <2> QED BY <1>6, <1>9, <2>1 DEF Recheck, At, vm
<1>10. CASE \/ Start(r) \/ Create(r) \/ Probe(r) \/ CommandEnds(r) \/ AddressesFree(r)
            \/ ApplyEnds(r) \/ Verify(r)
  BY <1>6, <1>10 DEF Start, Create, Probe, CommandEnds, AddressesFree, ApplyEnds, Verify, At, vm
<1>11. CASE Remove(r)
  <2>1. /\ at' = [at EXCEPT ![r] = @ + 1] /\ UNCHANGED <<clear, tfstate>> /\ EndsInside
        /\ phase[r] = "running"
    BY <1>11 DEF Remove, At, vm
  <2>2. \A q \in Runs : \/ phase'[q] = phase[q]
                        \/ phase'[q] = "failed" /\ phase[q] \in {"stalled", "cut"}
    BY <2>1, Ended DEF Inv
  <2>4. at'[r] = at[r] + 1 /\ phase'[r] = phase[r]
    BY <1>1, <2>1, <2>2
  <2>5. ScriptLeft(r)' < ScriptLeft(r)
    <3>1. ScriptLeft(r)' = PhaseStepsOf[phase[r]] + (Len(Script(r)) + 1 - (at[r] + 1))
                             + Cardinality(Wanted[r] \ clear[r])
                             + Cardinality(Wanted[r] \ tfstate[r])
      BY <2>1, <2>4 DEF ScriptLeft
    <3>2. \A p, l, i, x, y \in Nat : p + (l + 1 - (i + 1)) + x + y < p + (l + 1 - i) + x + y
      OBVIOUS
    <3>3. at[r] \in Nat
      BY <1>1
    <3> QED BY <1>2, <3>1, <3>2, <3>3 DEF ScriptLeft
  <2>6. ASSUME NEW q \in Runs \ {r} PROVE ScriptLeft(q)' <= ScriptLeft(q)
    <3>1. at'[q] = at[q] /\ clear'[q] = clear[q] /\ tfstate'[q] = tfstate[q]
      BY <1>1, <2>1
    <3> QED BY <2>2, <3>1, EndedIsLess DEF Inv
  <2> QED BY <2>5, <2>6
<1>12. ASSUME NEW a \in Addresses, Ping(r, a)
       PROVE  /\ ScriptLeft(r)' < ScriptLeft(r)
              /\ \A q \in Runs \ {r} : ScriptLeft(q)' <= ScriptLeft(q)
  <2>1. /\ a \in Wanted[r] \ clear[r] /\ clear'[r] = clear[r] \cup {a}
        /\ UNCHANGED <<phase, at, tfstate>> /\ \A q \in Runs \ {r} : clear'[q] = clear[q]
    BY <1>1, <1>12 DEF Ping, script
  <2>2. Cardinality(Wanted[r] \ clear'[r]) = Cardinality(Wanted[r] \ clear[r]) - 1
    BY <2>1, StillToDo
  <2>3. ScriptLeft(r)' < ScriptLeft(r)
    BY <1>2, <2>1, <2>2 DEF ScriptLeft
  <2> QED BY <1>3, <2>1, <2>3
<1>13. ASSUME NEW a \in Addresses, CloneMachine(r, a)
       PROVE  /\ ScriptLeft(r)' < ScriptLeft(r)
              /\ \A q \in Runs \ {r} : ScriptLeft(q)' <= ScriptLeft(q)
  <2>1. /\ a \in Wanted[r] \ tfstate[r] /\ tfstate'[r] = tfstate[r] \cup {a}
        /\ UNCHANGED <<phase, at, clear>> /\ \A q \in Runs \ {r} : tfstate'[q] = tfstate[q]
    BY <1>1, <1>13 DEF CloneMachine, script
  <2>2. Cardinality(Wanted[r] \ tfstate'[r]) = Cardinality(Wanted[r] \ tfstate[r]) - 1
    BY <2>1, StillToDo
  <2>3. ScriptLeft(r)' < ScriptLeft(r)
    BY <1>2, <2>1, <2>2 DEF ScriptLeft
  <2> QED BY <1>3, <2>1, <2>3
<1>14. ASSUME NEW a \in Addresses, CloneIsLost(r, a)
       PROVE  /\ ScriptLeft(r)' < ScriptLeft(r)
              /\ \A q \in Runs \ {r} : ScriptLeft(q)' <= ScriptLeft(q)
  <2>1. /\ phase' = [phase EXCEPT ![r] = "failed"] /\ phase[r] = "running"
        /\ UNCHANGED <<at, clear, tfstate>>
    BY <1>14 DEF CloneIsLost, vm
  <2>2. PhaseStepsOf["failed"] \in Nat /\ PhaseStepsOf["failed"] < PhaseStepsOf[phase[r]]
    BY <2>1, StepsAre
  <2> QED BY <1>5, <2>1, <2>2
<1> QED BY <1>7, <1>8, <1>9, <1>10, <1>11, <1>12, <1>13, <1>14 DEF ScriptStep, Apply

\* A step of an execution is a step towards its end: of its thread at most four, one for
\* every part of the bundle and one for the status, of its script one for each command and
\* each address to ping and to make, and four.  No step, of another execution, of a
\* stranger or of the network, adds to what is left.
THEOREM ExecutionsAlwaysRunOut == Spec => ExecutionsRunOut
<1> DEFINE Fewer ==
             \A r \in Runs :
               /\ ThreadStep(r) \/ Raises(r) => ThreadLeft(r)' < ThreadLeft(r)
               /\ ScriptStep(r) \/ ScriptCut(r) => ScriptLeft(r)' < ScriptLeft(r)
               /\ ThreadLeft(r)' <= ThreadLeft(r) /\ ScriptLeft(r)' <= ScriptLeft(r)
<1>1. ASSUME Inv, Inv', LeftIsANumber, LeftIsANumber', Next
      PROVE  Fewer
  <2>1. \A q \in Runs : ThreadStep(q) \/ Raises(q) => ThreadLeft(q)' < ThreadLeft(q)
    BY <1>1, ThreadMovesOn
  <2>2. \A q \in Runs : ScriptStep(q) \/ ScriptCut(q) => ScriptLeft(q)' < ScriptLeft(q)
    BY <1>1, ScriptMovesOn
  <2>3. \A q \in Runs : /\ ThreadLeft(q) \in Nat /\ ThreadLeft(q)' \in Nat
                         /\ ScriptLeft(q) \in Nat /\ ScriptLeft(q)' \in Nat
    BY <1>1 DEF LeftIsANumber
  <2>4. ASSUME NEW q \in Runs, UNCHANGED <<phase, at, clear, tfstate>>
        PROVE  ScriptLeft(q)' <= ScriptLeft(q)
    <3>1. ScriptLeft(q)' = ScriptLeft(q)
      BY <2>4 DEF ScriptLeft
    <3> QED BY <2>3, <3>1
  <2>5. ASSUME NEW q \in Runs, UNCHANGED <<thread, sent, status>>
        PROVE  ThreadLeft(q)' <= ThreadLeft(q)
    <3>1. ThreadLeft(q)' = ThreadLeft(q)
      BY <2>5 DEF ThreadLeft
    <3> QED BY <2>3, <3>1
  <2>6. ASSUME NEW r \in Runs, ThreadStep(r) \/ Raises(r), NEW q \in Runs
        PROVE  ThreadLeft(q)' <= ThreadLeft(q) /\ ScriptLeft(q)' <= ScriptLeft(q)
    <3>1. ThreadLeft(q)' <= ThreadLeft(q)
      BY <1>1, <2>3, <2>6, ThreadMovesOn
    <3>2. CASE ExecCommand(r)
      <4>1. /\ thread[r] = "connected" /\ phase' = [phase EXCEPT ![r] = "running"]
            /\ UNCHANGED <<at, clear, tfstate>>
        BY <3>2 DEF ExecCommand, vm
      <4>2. phase[r] = "idle" /\ phase \in [Runs -> {"idle", "running", "stalled", "zero", "failed", "cut"}]
        BY <1>1, <4>1 DEF Inv, TypeOK, ThreadsFollow
      <4>3. PhaseStepsOf[phase'[q]] <= PhaseStepsOf[phase[q]] /\ PhaseStepsOf[phase'[q]] \in Nat
            /\ PhaseStepsOf[phase[q]] \in Nat
        <5>1. CASE q = r
          BY <4>1, <4>2, <5>1, StepsAre
        <5>2. CASE q # r
          <6>1. phase'[q] = phase[q]
            BY <4>1, <4>2, <5>2
          <6>2. phase[q] \in {"idle", "running", "stalled", "zero", "failed", "cut"}
            BY <4>2
          <6>3. PhaseStepsOf[phase[q]] \in Nat
            BY <6>2, StepsAre
          <6> QED BY <6>1, <6>3
        <5> QED BY <5>1, <5>2
      <4>4. /\ Len(Script(q)) \in Nat /\ at[q] \in Nat
            /\ Cardinality(Wanted[q] \ clear[q]) \in Nat
            /\ Cardinality(Wanted[q] \ tfstate[q]) \in Nat
        <5>1. at[q] \in Nat
          BY <1>1 DEF Inv, TypeOK
        <5> QED BY <5>1, Scripts, StillToDo
      <4>5. ScriptLeft(q)' = PhaseStepsOf[phase'[q]] + (Len(Script(q)) + 1 - at[q])
                               + Cardinality(Wanted[q] \ clear[q])
                               + Cardinality(Wanted[q] \ tfstate[q])
        BY <4>1 DEF ScriptLeft
      <4>6. \A p, o, l, i, x, y \in Nat :
              o <= p => o + (l + 1 - i) + x + y <= p + (l + 1 - i) + x + y
        OBVIOUS
      <4> QED BY <3>1, <4>3, <4>4, <4>5, <4>6 DEF ScriptLeft
    <3>3. CASE ~ExecCommand(r)
      <4>1. UNCHANGED <<phase, at, clear, tfstate>>
        BY <2>6, <3>3 DEF ThreadStep, Raises, Connect, Upload, StatusArrives, ReceiveStatus,
                          ReadOutput, LossIsSeen, Ends, script, vm
      <4> QED BY <2>4, <3>1, <4>1
    <3> QED BY <3>2, <3>3
  <2>7. ASSUME NEW r \in Runs, ScriptStep(r) \/ ScriptCut(r), NEW q \in Runs
        PROVE  ThreadLeft(q)' <= ThreadLeft(q) /\ ScriptLeft(q)' <= ScriptLeft(q)
    <3>1. ScriptLeft(q)' <= ScriptLeft(q)
      BY <1>1, <2>3, <2>7, ScriptMovesOn
    <3>2. UNCHANGED <<thread, sent, status>>
      BY <2>7 DEF ScriptStep, ScriptCut, CommandFails, CommandStalls, Inspect, Start, Remove, Recheck,
                  Create, Probe, CommandEnds, AddressesFree, ApplyEnds, Verify, Apply,
                  CloneMachine, CloneIsLost, Ping, ssh
    <3> QED BY <2>5, <3>1, <3>2
  <2>8. ASSUME \/ \E r \in Runs : LoseLink(r)
               \/ \E a \in Strangers : MachineAppears(a),
               NEW q \in Runs
        PROVE  ThreadLeft(q)' <= ThreadLeft(q) /\ ScriptLeft(q)' <= ScriptLeft(q)
    BY <2>4, <2>5, <2>8 DEF LoseLink, MachineAppears, ssh, script, vm
  <2>9. ASSUME OthersAct, NEW q \in Runs
        PROVE  ThreadLeft(q)' <= ThreadLeft(q) /\ ScriptLeft(q)' <= ScriptLeft(q)
    <3>1. UNCHANGED <<thread, sent, status, at, clear, tfstate>> /\ (EndsInside \/ UNCHANGED phase)
      BY <2>9 DEF OthersAct, ssh, vm
    <3>2. phase'[q] = phase[q] \/ (phase'[q] = "failed" /\ phase[q] \in {"stalled", "cut"})
      BY <1>1, <3>1, Ended DEF Inv
    <3> QED BY <1>1, <2>5, <3>1, <3>2, EndedIsLess DEF Inv
  <2> QED BY <1>1, <2>1, <2>2, <2>6, <2>7, <2>8, <2>9 DEF Next, Fault
<1>2. Inv /\ Inv' /\ LeftIsANumber /\ LeftIsANumber' /\ [Next]_vars => [Fewer]_vars
  BY <1>1
<1> QED BY <1>2, HostInvariant, LeftType, PTL DEF Spec, ExecutionsRunOut

-----------------------------------------------------------------------------
\* The connection of a thread and the phase of its runner.
Paired ==
  \A r \in Runs :
    /\ thread[r] \in {"connected", "waiting", "reading"} => link[r] \in {"up", "lost"}
    /\ thread[r] = "waiting" => phase[r] # "idle"
    /\ phase[r] = "cut" => link[r] # "up"
    /\ phase[r] = "stalled" => unread[r] = Window

LEMMA PairedStep == Inv /\ Paired /\ Next => Paired'
<1> SUFFICES ASSUME Inv, Paired, Next, NEW q \in Runs
             PROVE  /\ thread'[q] \in {"connected", "waiting", "reading"} => link'[q] \in {"up", "lost"}
                    /\ thread'[q] = "waiting" => phase'[q] # "idle"
                    /\ phase'[q] = "cut" => link'[q] # "up"
                    /\ phase'[q] = "stalled" => unread'[q] = Window
  BY DEF Paired
<1>1. /\ thread \in [Runs -> {"queued", "connected", "waiting", "reading", "succeeded", "raised"}]
      /\ link \in [Runs -> {"none", "up", "lost", "closed"}]
      /\ phase \in [Runs -> {"idle", "running", "stalled", "zero", "failed", "cut"}]
      /\ unread \in [Runs -> 0..Window] /\ Window \in Nat
  BY ControlHostAssumption DEF Inv, TypeOK
<1>2. /\ thread[q] \in {"connected", "waiting", "reading"} => link[q] \in {"up", "lost"}
      /\ thread[q] = "waiting" => phase[q] # "idle"
      /\ phase[q] = "cut" => link[q] # "up"
      /\ phase[q] = "stalled" => unread[q] = Window
  BY DEF Paired
<1>3. /\ thread[q] \in {"queued", "connected"} => phase[q] = "idle"
      /\ thread[q] = "reading" => phase[q] \in {"zero", "failed"}
  <2>1. \A r \in Runs : status[r] # None => status[r] \in {"zero", "failed"}
    BY DEF Inv, TypeOK
  <2> QED BY <2>1 DEF Inv, ThreadsFollow
<1>4. ASSUME UNCHANGED <<thread, link, phase, unread>>
      PROVE  /\ thread'[q] \in {"connected", "waiting", "reading"} => link'[q] \in {"up", "lost"}
             /\ thread'[q] = "waiting" => phase'[q] # "idle"
             /\ phase'[q] = "cut" => link'[q] # "up"
             /\ phase'[q] = "stalled" => unread'[q] = Window
  BY <1>2, <1>4
<1>5. ASSUME NEW r \in Runs, ThreadStep(r)
      PROVE  /\ thread'[q] \in {"connected", "waiting", "reading"} => link'[q] \in {"up", "lost"}
             /\ thread'[q] = "waiting" => phase'[q] # "idle"
             /\ phase'[q] = "cut" => link'[q] # "up"
             /\ phase'[q] = "stalled" => unread'[q] = Window
  <2>1. CASE Connect(r)
    BY <1>1, <1>2, <1>3, <2>1 DEF Connect, script
  <2>2. CASE Upload(r) \/ StatusArrives(r)
    BY <1>2, <2>2 DEF Upload, StatusArrives, script
  <2>3. CASE ExecCommand(r)
    BY <1>1, <1>2, <2>3 DEF ExecCommand
  <2>4. CASE ReceiveStatus(r)
    BY <1>1, <1>2, <2>4 DEF ReceiveStatus, Ends, script
  <2>5. CASE ReadOutput(r)
    BY <1>1, <1>2, <1>3, <2>5 DEF ReadOutput, Ends, script
  <2>6. CASE LossIsSeen(r)
    BY <1>1, <1>2, <2>6 DEF LossIsSeen, Ends, script
  <2> QED BY <1>5, <2>1, <2>2, <2>3, <2>4, <2>5, <2>6 DEF ThreadStep
<1>6. ASSUME NEW r \in Runs, Fault(r)
      PROVE  /\ thread'[q] \in {"connected", "waiting", "reading"} => link'[q] \in {"up", "lost"}
             /\ thread'[q] = "waiting" => phase'[q] # "idle"
             /\ phase'[q] = "cut" => link'[q] # "up"
             /\ phase'[q] = "stalled" => unread'[q] = Window
  BY <1>1, <1>2, <1>6 DEF Fault, Raises, LoseLink, Ends, script
<1>7. ASSUME UNCHANGED <<thread, link>>,
             phase'[q] \in {phase[q], "running", "zero", "failed"}, phase[q] # "idle" => phase'[q] # "idle",
             phase[q] = "stalled" /\ phase'[q] = "stalled" => unread'[q] = unread[q]
      PROVE  /\ thread'[q] \in {"connected", "waiting", "reading"} => link'[q] \in {"up", "lost"}
             /\ thread'[q] = "waiting" => phase'[q] # "idle"
             /\ phase'[q] = "cut" => link'[q] # "up"
             /\ phase'[q] = "stalled" => unread'[q] = Window
  BY <1>2, <1>7
<1>8. ASSUME NEW r \in Runs, ScriptStep(r) \/ ScriptCut(r)
      PROVE  /\ thread'[q] \in {"connected", "waiting", "reading"} => link'[q] \in {"up", "lost"}
             /\ thread'[q] = "waiting" => phase'[q] # "idle"
             /\ phase'[q] = "cut" => link'[q] # "up"
             /\ phase'[q] = "stalled" => unread'[q] = Window
  <2>1. CASE CommandFails(r)
    BY <1>1, <1>7, <2>1 DEF CommandFails, ssh
  <2>2. CASE CommandStalls(r)
    BY <1>1, <1>2, <2>2 DEF CommandStalls, ssh
  <2>3. CASE ScriptCut(r)
    BY <1>1, <1>2, <2>3 DEF ScriptCut, ssh
  <2>4. CASE Inspect(r) \/ Start(r) \/ Recheck(r) \/ Create(r) \/ Probe(r)
    BY <1>1, <1>7, <2>4 DEF Inspect, Start, Recheck, Create, Probe, At, GoOn, ssh
  <2>5. CASE CommandEnds(r) \/ AddressesFree(r) \/ ApplyEnds(r) \/ Verify(r)
    BY <1>1, <1>7, <2>5 DEF CommandEnds, AddressesFree, ApplyEnds, Verify, At, GoOn, Writes, ssh
  <2>6. CASE Remove(r)
    <3>1. UNCHANGED <<thread, link, unread>> /\ EndsInside
      BY <2>6 DEF Remove, ssh
    <3>2. phase'[q] = phase[q] \/ (phase'[q] = "failed" /\ phase[q] \in {"stalled", "cut"})
      BY <3>1, Ended DEF Inv
    <3> QED BY <1>1, <1>7, <3>1, <3>2
  <2>7. CASE Apply(r) \/ \E a \in Addresses : Ping(r, a)
    BY <1>1, <1>2, <1>7, <2>7 DEF Apply, CloneMachine, CloneIsLost, Ping, ssh, script
  <2> QED BY <1>8, <2>1, <2>2, <2>3, <2>4, <2>5, <2>6, <2>7 DEF ScriptStep
<1>9. ASSUME NEW a \in Strangers, MachineAppears(a)
      PROVE  UNCHANGED <<thread, link, phase, unread>>
  BY <1>9 DEF MachineAppears, ssh, script
<1>10. ASSUME OthersAct
       PROVE  /\ thread'[q] \in {"connected", "waiting", "reading"} => link'[q] \in {"up", "lost"}
              /\ thread'[q] = "waiting" => phase'[q] # "idle"
              /\ phase'[q] = "cut" => link'[q] # "up"
              /\ phase'[q] = "stalled" => unread'[q] = Window
  <2>1. UNCHANGED <<thread, link, unread>> /\ (EndsInside \/ UNCHANGED phase)
    BY <1>10 DEF OthersAct, ssh
  <2>2. phase'[q] = phase[q] \/ (phase'[q] = "failed" /\ phase[q] \in {"stalled", "cut"})
    BY <2>1, Ended DEF Inv
  <2> QED BY <1>1, <1>2, <2>1, <2>2
<1> QED BY <1>4, <1>5, <1>6, <1>8, <1>9, <1>10 DEF Next

\* Nobody waits for nothing: a thread that waits has its connection or will see that it is
\* gone, and the runner it waits for is at work or has ended, or stands before a channel
\* that is full, which is the one way an execution does not end (EndsUnlessStalled).
THEOREM NobodyWaitsForNothing == Spec => []WaitsForItsRunner
<1>1. Init => Paired
  BY DEF Init, Paired
<1>2. Paired /\ UNCHANGED vars => Paired'
  BY DEF vars, Paired
<1>3. Inv /\ Paired /\ [Next]_vars => Paired'
  BY <1>2, PairedStep
<1>4. Inv /\ Paired => WaitsForItsRunner
  <2> SUFFICES ASSUME Inv, Paired, NEW r \in Runs
               PROVE  /\ thread[r] \in {"connected", "waiting", "reading"} => link[r] \in {"up", "lost"}
                      /\ thread[r] = "waiting" /\ link[r] = "up" =>
                           \/ phase[r] \in {"running", "zero", "failed"}
                           \/ phase[r] = "stalled" /\ unread[r] = Window
    BY DEF WaitsForItsRunner
  <2>1. phase[r] \in {"idle", "running", "stalled", "zero", "failed", "cut"}
    BY DEF Inv, TypeOK
  <2> QED BY <2>1 DEF Paired
<1> QED BY <1>1, <1>3, <1>4, HostInvariant, PTL DEF Spec
=============================================================================
