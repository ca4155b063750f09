-------------------------- MODULE RunServiceProofs --------------------------
(***************************************************************************)
(* The type invariant of RunService.tla, its safety, what it admits, and   *)
(* that it implements RunContract.tla, proved for any number of worker     *)
(* threads, keys, requests, runs, faults and stops, and any plans and      *)
(* preflights.                                                             *)
(*                                                                         *)
(* The argument for the safety: a run belongs to the call that created it  *)
(* until the call submits it, so no two calls submit one run and no run is *)
(* submitted twice; a call gets to the submission only by binding its key  *)
(* to its run; and a key once bound is never bound again.  From then on    *)
(* only the run's own thread moves it, along positions that fix what row,  *)
(* count and outcome can be.                                               *)
(*                                                                         *)
(* The argument for what is admitted: what a call has checked it keeps     *)
(* with it, the clock has not gone back since it arrived, and a run that   *)
(* has succeeded stays one that has.                                       *)
(***************************************************************************)
EXTENDS RunService, SequenceTheorems, TLAPS

-----------------------------------------------------------------------------
(* Types.  Beyond TypeOK: what a call carries at each position, and that   *)
(* the event of an end is appended after the end.                          *)

Owning == {"save_key", "append_event", "submit"}

\* Each worker thread is idle or carries a request; past its key lookup or its insert
\* it carries a run.
CallsOK ==
  /\ call \in [Handlers -> Calls]
  /\ \A h \in Handlers :
       /\ call[h].pc # "idle" => call[h].for \in Origins
       /\ call[h].pc \in Owning \cup {"replay"} => call[h].run \in RunIds

\* The tables, and the thread of each run: one that is about to append the event of the
\* end has written the end.
RowsOK ==
  /\ status \in [RunIds -> States]
  /\ origin \in [RunIds -> Origins \cup {None}]
  /\ keys \in [Keys -> [req: Requests, run: RunIds] \cup {None}]
  /\ events \in [RunIds -> Seq(EventTypes)]
  /\ \A r \in RunIds : job[r] = "log_end" => status[r] \in Terminal

ThreadsOK ==
  /\ job \in [RunIds -> JobPositions]
  /\ source \in [RunIds -> RunIds \cup {None}]
  /\ executions \in [RunIds -> Nat]
  /\ outcome \in [RunIds -> {"none", "succeeded", "failed"}]

RestOK ==
  /\ now \in 0..MaxTime
  /\ acked \subseteq [key: Keys, req: Requests, run: RunIds]
  /\ faults \in 0..MaxFaults /\ crashes \in 0..MaxCrashes

TypeInv == CallsOK /\ RowsOK /\ ThreadsOK /\ RestOK

-----------------------------------------------------------------------------

LEMMA Bounds == MaxTime \in Nat /\ MaxFaults \in Nat /\ MaxCrashes \in Nat
BY ConstantsAssumption

LEMMA InitTypeInv == Init => TypeInv
<1> SUFFICES ASSUME Init PROVE TypeInv OBVIOUS
<1>1. CallsOK BY DEF Init, CallsOK, Idle, Calls, Codes, CallPositions, Owning
<1>2. RowsOK BY DEF Init, RowsOK, States, EventTypes
<1>3. ThreadsOK BY DEF Init, ThreadsOK, JobPositions
<1>4. RestOK BY Bounds DEF Init, RestOK
<1> QED BY <1>1, <1>2, <1>3, <1>4 DEF TypeInv

-----------------------------------------------------------------------------
(* What the helpers of the actions do to a worker thread.                  *)

LEMMA IdleCall == \A code \in Codes : Idle(code) \in Calls /\ Idle(code).pc = "idle"
BY DEF Idle, Calls, CallPositions

LEMMA OneCallChanges ==
  ASSUME CallsOK, NEW h \in Handlers, NEW c \in Calls,
         c.pc # "idle" => c.for \in Origins,
         c.pc \in Owning \cup {"replay"} => c.run \in RunIds,
         call' = [call EXCEPT ![h] = c]
  PROVE  CallsOK'
BY DEF CallsOK

LEMMA ReplyIsIdle ==
  ASSUME CallsOK, NEW h \in Handlers, NEW code \in Codes,
         call' = [call EXCEPT ![h] = Idle(code)]
  PROVE  CallsOK'
BY IdleCall, OneCallChanges DEF Owning

LEMMA ProceedCarries ==
  ASSUME CallsOK, NEW h \in Handlers, call[h].pc # "idle",
         NEW p \in CallPositions, NEW r \in RunIds \cup {None}, NEW s \in RunIds \cup {None},
         p \in Owning \cup {"replay"} => r \in RunIds,
         Proceed(h, p, r, s)
  PROVE  CallsOK'
<1> DEFINE c == [pc |-> p, for |-> call[h].for, run |-> r, source |-> s, code |-> "NONE"]
<1>1. call[h].for \in Origins BY DEF CallsOK
<1>2. c \in Calls BY <1>1 DEF Calls, Codes
<1>3. c.pc = p /\ c.for \in Origins /\ c.run = r BY <1>1
<1>4. call' = [call EXCEPT ![h] = c] BY DEF Proceed
<1> HIDE DEF c
<1> QED BY <1>2, <1>3, <1>4, OneCallChanges

\* The fields of a worker thread's record.
LEMMA CallFields ==
  ASSUME CallsOK, NEW h \in Handlers
  PROVE  /\ call[h].run \in RunIds \cup {None} /\ call[h].source \in RunIds \cup {None}
         /\ call[h].pc # "idle" =>
              call[h].for.key \in Keys /\ call[h].for.req \in Requests /\ call[h].for.asked \in Nat
BY DEF CallsOK, Calls, Origins

-----------------------------------------------------------------------------
(* Every step keeps TypeInv.                                               *)

LEMMA LookupTypeInv ==
  ASSUME TypeInv, NEW h \in Handlers, GetIdempotencyKey(h) \/ ReplayRun(h)
  PROVE  TypeInv'
<1> USE DEF TypeInv
<1> DEFINE k == call[h].for.key
<1>1. k \in Keys /\ call[h].for.req \in Requests
  BY CallFields DEF GetIdempotencyKey, ReplayRun, At
<1>2. keys[k] # None => keys[k].run \in RunIds
  BY <1>1 DEF RowsOK
<1>3. CASE GetIdempotencyKey(h)
  <2>1. CallsOK'
    <3>1. CASE keys[k] = None /\ GoTo(h, "plan")
      BY <3>1, <1>3, CallFields, ProceedCarries
         DEF GetIdempotencyKey, At, GoTo, CallPositions, Owning
    <3>2. CASE ReplyError(h, "IDEMPOTENCY_CONFLICT")
      BY <3>2, ReplyIsIdle DEF ReplyError, Codes
    <3>3. CASE keys[k] # None /\ Proceed(h, "replay", keys[k].run, None)
      BY <3>3, <1>3, <1>2, ProceedCarries DEF GetIdempotencyKey, At, CallPositions
    <3> QED BY <1>3, <3>1, <3>2, <3>3 DEF GetIdempotencyKey
  <2>2. RowsOK' /\ ThreadsOK' /\ RestOK'
    BY <1>3 DEF GetIdempotencyKey, ReplyError, rows, threads, limits, RowsOK, ThreadsOK, RestOK
  <2> QED BY <2>1, <2>2
<1>4. CASE ReplayRun(h)
  <2>1. call[h].run \in RunIds
    BY <1>4 DEF ReplayRun, At, CallsOK, Owning
  <2>2. CallsOK' /\ acked' \subseteq [key: Keys, req: Requests, run: RunIds]
    BY <1>1, <1>4, <2>1, ReplyIsIdle DEF ReplayRun, ReplyRun, ReplyError, Codes, RestOK
  <2>3. RowsOK' /\ ThreadsOK' /\ RestOK'
    BY <1>4, <2>2 DEF ReplayRun, rows, threads, limits, RowsOK, ThreadsOK, RestOK
  <2> QED BY <2>2, <2>3
<1> QED BY <1>3, <1>4

LEMMA RefusalsAreCodes ==
  ASSUME NEW q, NEW t, NEW ready \in BOOLEAN
  PROVE  /\ RunPlanCheck(q, t) \in Codes /\ WorkflowPlanCheck(q, t) \in Codes
         /\ RunPreflightCheck(q, t, ready) \in Codes
         /\ WorkflowPreflightCheck(q, t, ready) \in Codes
<1> DEFINE P == PreflightRefusal(q, t)
           C == ConfigRefusal(q)
           R == ReadyRefusal(ready)
           A == ApprovalRefusal(q, WorkflowScopes)
<1>1. PlanRefusal(q, t) \in Codes BY DEF PlanRefusal, Codes
<1>2. P \in Codes BY DEF PreflightRefusal, Codes
<1>3. \A scopes : ApprovalRefusal(q, scopes) \in Codes BY DEF ApprovalRefusal, Codes
<1>4. C \in Codes /\ R \in Codes BY DEF ConfigRefusal, ReadyRefusal, Codes
<1>5. "OK" \in Codes BY DEF Codes
<1> HIDE DEF P, C, R, A
<1>6. First(<<P, R, C>>) \in Codes
  BY <1>2, <1>4, <1>5 DEF First
<1>7. First(<<P, C, A, R>>) \in Codes
  BY <1>2, <1>3, <1>4, <1>5 DEF First, A
<1> QED BY <1>1, <1>3, <1>6, <1>7
        DEF RunPlanCheck, WorkflowPlanCheck, RunPreflightCheck, WorkflowPreflightCheck, P, C, R, A

LEMMA AdmissionTypeInv ==
  ASSUME TypeInv, NEW h \in Handlers,
         ValidatePlan(h) \/ ValidatePreflight(h) \/ FindArtifact(h)
  PROVE  TypeInv'
<1> USE DEF TypeInv
<1>1. call[h].pc # "idle"
  BY DEF ValidatePlan, ValidatePreflight, FindArtifact, At
<1>2. \A p \in {"preflight", "artifact", "save_run"} : GoTo(h, p) => CallsOK'
  BY <1>1, CallFields, ProceedCarries DEF GoTo, CallPositions, Owning
<1>3. \A code \in Codes : ReplyError(h, code) => CallsOK'
  BY ReplyIsIdle DEF ReplyError
<1>4. CallsOK'
  <2>1. CASE ValidatePlan(h)
    BY <2>1, <1>2, <1>3, RefusalsAreCodes DEF ValidatePlan
  <2>2. CASE ValidatePreflight(h)
    BY <2>2, <1>2, <1>3, RefusalsAreCodes DEF ValidatePreflight
  <2>3. CASE FindArtifact(h)
    <3>1. \A s \in RunIds : Proceed(h, "save_run", None, s) => CallsOK'
      BY <1>1, ProceedCarries DEF CallPositions, Owning
    <3> QED BY <2>3, <3>1, <1>3 DEF FindArtifact, SucceededRuns, Codes
  <2> QED BY <2>1, <2>2, <2>3
<1>5. UNCHANGED <<now, rows, acked, threads, source, limits>>
  BY DEF ValidatePlan, ValidatePreflight, FindArtifact, ReplyError
<1> QED BY <1>4, <1>5 DEF rows, threads, limits, RowsOK, ThreadsOK, RestOK

LEMMA WriteTypeInv ==
  ASSUME TypeInv, NEW h \in Handlers,
         SaveRun(h) \/ SaveIdempotencyKey(h) \/ AppendQueuedEvent(h) \/ Submit(h)
  PROVE  TypeInv'
<1> USE DEF TypeInv
<1>1. call[h].pc # "idle" /\ call[h].for \in Origins
      /\ call[h].for.key \in Keys /\ call[h].for.req \in Requests
  BY CallFields DEF SaveRun, SaveIdempotencyKey, AppendQueuedEvent, Submit, At, CallsOK
<1>2. CASE SaveRun(h)
  <2>1. PICK r \in RunIds :
          /\ status' = [status EXCEPT ![r] = "QUEUED"]
          /\ origin' = [origin EXCEPT ![r] = call[h].for]
          /\ Proceed(h, "save_key", r, call[h].source)
          /\ ~HasRow(r)
    BY <1>2 DEF SaveRun
  <2>2. CallsOK'
    BY <1>1, <2>1, CallFields, ProceedCarries DEF CallPositions
  <2>3. RowsOK'
    BY <1>1, <1>2, <2>1 DEF SaveRun, RowsOK, States, HasRow, Terminal, threads
  <2> QED BY <1>2, <2>2, <2>3 DEF SaveRun, threads, limits, ThreadsOK, RestOK
<1> DEFINE r == call[h].run
<1>3. CASE SaveIdempotencyKey(h)
  <2>1. r \in RunIds BY <1>3 DEF SaveIdempotencyKey, At, CallsOK, Owning
  <2>2. CallsOK'
    <3>1. GoTo(h, "append_event") => CallsOK'
      BY <1>1, <2>1, CallFields, ProceedCarries DEF GoTo, CallPositions
    <3>2. ReplyError(h, "EXCEPTION") => CallsOK'
      BY ReplyIsIdle DEF ReplyError, Codes
    <3> QED BY <1>3, <3>1, <3>2 DEF SaveIdempotencyKey
  <2>3. RowsOK'
    BY <1>1, <1>3, <2>1 DEF SaveIdempotencyKey, RowsOK, threads
  <2> QED BY <1>3, <2>2, <2>3 DEF SaveIdempotencyKey, ReplyError, threads, limits, ThreadsOK, RestOK
<1>4. CASE AppendQueuedEvent(h)
  <2>1. r \in RunIds BY <1>4 DEF AppendQueuedEvent, At, CallsOK, Owning
  <2>2. CallsOK'
    BY <1>1, <1>4, <2>1, CallFields, ProceedCarries DEF AppendQueuedEvent, GoTo, CallPositions
  <2>3. RowsOK'
    BY <1>4, <2>1 DEF AppendQueuedEvent, RowsOK, EventTypes, threads
  <2> QED BY <1>4, <2>2, <2>3 DEF AppendQueuedEvent, threads, limits, ThreadsOK, RestOK
<1>5. CASE Submit(h)
  <2>1. r \in RunIds BY <1>5 DEF Submit, At, CallsOK, Owning
  <2>2. CallsOK'
    BY <1>5, ReplyIsIdle DEF Submit, ReplyRun, Codes
  <2>3. RowsOK'
    BY <1>5, <2>1 DEF Submit, RowsOK, rows, ThreadsOK
  <2>4. ThreadsOK'
    BY <1>5, <2>1, CallFields DEF Submit, ThreadsOK, JobPositions
  <2>5. RestOK'
    BY <1>1, <1>5, <2>1 DEF Submit, ReplyRun, RestOK, limits
  <2> QED BY <2>2, <2>3, <2>4, <2>5
<1> QED BY <1>2, <1>3, <1>4, <1>5

LEMMA JobTypeInv ==
  ASSUME TypeInv, NEW r \in RunIds, JobStep(r) \/ JobRaises(r)
  PROVE  TypeInv'
<1> USE DEF TypeInv, JobAt, JobTo
<1>1. UNCHANGED <<origin, keys, call, now, acked, source, crashes>>
  BY DEF JobStep, JobRaises, MarkStarted, LogStarted, BeginExecute, EndExecute, Complete,
         LogEnd, rows, limits
<1>2. CallsOK' BY <1>1 DEF CallsOK
<1>3. RestOK' BY <1>1, Bounds
  DEF RestOK, JobStep, JobRaises, MarkStarted, LogStarted, BeginExecute, EndExecute, Complete,
      LogEnd, limits
<1>4. ThreadsOK' BY <1>1
  DEF ThreadsOK, JobStep, JobRaises, MarkStarted, LogStarted, BeginExecute, EndExecute, Complete,
      LogEnd, JobPositions
<1>5. RowsOK'
  <2>1. CASE MarkStarted(r) BY <1>1, <2>1 DEF MarkStarted, RowsOK, ThreadsOK, States
  <2>2. CASE LogStarted(r) BY <1>1, <2>2 DEF LogStarted, RowsOK, ThreadsOK, EventTypes
  <2>3. CASE BeginExecute(r) \/ EndExecute(r) \/ JobRaises(r)
    BY <1>1, <2>3 DEF BeginExecute, EndExecute, JobRaises, RowsOK, ThreadsOK, rows
  <2>4. CASE Complete(r) BY <1>1, <2>4 DEF Complete, RowsOK, ThreadsOK, States, Terminal
  <2>5. CASE LogEnd(r)
    <3>1. status[r] \in EventTypes BY <2>5 DEF LogEnd, RowsOK, Terminal, EventTypes
    <3> QED BY <1>1, <2>5, <3>1 DEF LogEnd, RowsOK, ThreadsOK
  <2> QED BY <2>1, <2>2, <2>3, <2>4, <2>5 DEF JobStep
<1> QED BY <1>2, <1>3, <1>4, <1>5

LEMMA NextTypeInv ==
  ASSUME TypeInv, [Next]_vars
  PROVE  TypeInv'
<1> USE DEF TypeInv, rows, threads, limits
<1>1. ASSUME NEW h \in Handlers, NEW k \in Keys, NEW q \in Requests, Receive(h, k, q)
      PROVE  TypeInv'
  <2> DEFINE o == [key |-> k, req |-> q, asked |-> now]
             c == [pc |-> "lookup", for |-> o, run |-> None, source |-> None, code |-> "NONE"]
  <2>1. o \in Origins BY Bounds DEF Origins, RestOK
  <2>2. c \in Calls BY <2>1 DEF Calls, CallPositions, Codes
  <2>3. c.pc = "lookup" /\ c.for \in Origins BY <2>1
  <2>4. call' = [call EXCEPT ![h] = c] BY <1>1 DEF Receive
  <2> HIDE DEF c
  <2>5. CallsOK' BY <2>2, <2>3, <2>4, OneCallChanges DEF Owning
  <2> QED BY <1>1, <2>5 DEF Receive, RowsOK, ThreadsOK, RestOK
<1>2. ASSUME NEW h \in Handlers, CallRaises(h) PROVE TypeInv'
  <2>1. CallsOK' BY <1>2, ReplyIsIdle DEF CallRaises, ReplyError, Codes
  <2> QED BY <1>2, <2>1, Bounds DEF CallRaises, ReplyError, RowsOK, ThreadsOK, RestOK
<1>3. CASE Tick BY <1>3, Bounds DEF Tick, CallsOK, RowsOK, ThreadsOK, RestOK
<1>4. CASE Crash
  <2>1. CallsOK' BY <1>4, IdleCall DEF Crash, CallsOK, Codes, Owning
  <2>2. RowsOK' BY <1>4 DEF Crash, RowsOK
  <2>3. ThreadsOK' BY <1>4 DEF Crash, ThreadsOK, JobPositions
  <2> QED BY <1>4, <2>1, <2>2, <2>3, Bounds DEF Crash, RestOK
<1>5. CASE UNCHANGED vars BY <1>5 DEF vars, CallsOK, RowsOK, ThreadsOK, RestOK
<1> QED BY <1>1, <1>2, <1>3, <1>4, <1>5, LookupTypeInv, AdmissionTypeInv, WriteTypeInv, JobTypeInv
        DEF Next, CallStep

\* Whatever calls, threads, faults and restarts do, every table, call and thread stays
\* within the values the code can give it.
THEOREM TypeCorrect == Spec => []TypeOK
<1>1. Init => TypeInv BY InitTypeInv
<1>2. TypeInv /\ [Next]_vars => TypeInv' BY NextTypeInv
<1>3. TypeInv => TypeOK BY DEF TypeInv, TypeOK, CallsOK, RowsOK, ThreadsOK, RestOK
<1> QED BY <1>1, <1>2, <1>3, PTL DEF Spec

-----------------------------------------------------------------------------
(* Safety, the event log and the contract.                                 *)

\* The row of idempotency_keys a call writes, or has found.
Entry(h) == [req |-> call[h].for.req, run |-> call[h].run]

\* A run that is saved and not yet submitted is the one call's that created it; once
\* that call has inserted its key, the key names the run.
CallsOwn ==
  \A h \in Handlers : call[h].pc \in Owning =>
    /\ HasRow(call[h].run) /\ origin[call[h].run] = call[h].for /\ job[call[h].run] = "none"
    /\ \A g \in Handlers : call[g].pc \in Owning /\ call[g].run = call[h].run => g = h
    /\ call[h].pc # "save_key" => keys[call[h].for.key] = Entry(h)

\* Keys name runs of theirs, and a reply says what its key says.
KeysBind ==
  /\ KeyNamesItsRun
  /\ \A h \in Handlers : call[h].pc = "replay" => keys[call[h].for.key] = Entry(h)
  /\ \A a \in acked : keys[a.key] = [req |-> a.req, run |-> a.run]

\* Only a run its key names has a thread, and the thread's position tells what its
\* row says, whether it was executed and what came of it.
Progress(r) ==
  /\ HasRow(r) => origin[r] \in Origins
  /\ job[r] # "none" => HasRow(r) /\ keys[origin[r].key] # None /\ keys[origin[r].key].run = r
  /\ job[r] = "none" => status[r] \in {"ABSENT", "QUEUED"}
  /\ job[r] = "starting" => status[r] = "QUEUED"
  /\ job[r] \in {"log_started", "ready", "executing", "succeeded"} => status[r] = "RUNNING"
  /\ job[r] = "failed" => status[r] \in {"QUEUED", "RUNNING"}
  /\ job[r] \in {"none", "starting", "log_started", "ready"} => executions[r] = 0
  /\ job[r] \in {"executing", "succeeded"} => executions[r] = 1
  /\ executions[r] <= 1
  /\ job[r] \in {"none", "starting", "log_started", "ready", "executing"} => outcome[r] = "none"
  /\ job[r] = "succeeded" => outcome[r] = "succeeded"
  /\ job[r] = "failed" => outcome[r] # "succeeded"

\* What StateTellsOutcome says of one run.
Tells(r) ==
  /\ status[r] = "SUCCEEDED" => outcome[r] = "succeeded"
  /\ status[r] = "FAILED" => outcome[r] # "succeeded"

RunsProgress == \A r \in RunIds : Progress(r) /\ Tells(r)

Inv == TypeInv /\ CallsOwn /\ KeysBind /\ RunsProgress

-----------------------------------------------------------------------------

LEMMA NoneIsNothing == None \notin RunIds /\ None \notin [req: Requests, run: RunIds]
BY ConstantsAssumption

LEMMA InitInv == Init => Inv
<1> SUFFICES ASSUME Init PROVE Inv OBVIOUS
<1>1. TypeInv BY InitTypeInv
<1>2. CallsOwn BY DEF Init, CallsOwn, Idle, Owning
<1>3. KeysBind BY DEF Init, KeysBind, KeyNamesItsRun, Idle
<1>4. RunsProgress BY DEF Init, RunsProgress, Progress, Tells, HasRow
<1> QED BY <1>1, <1>2, <1>3, <1>4 DEF Inv

\* A step of a call that writes no row, and leaves the call without a run of its own.
LEMMA QuietCall ==
  ASSUME Inv, NEW h \in Handlers, NEW c, call' = [call EXCEPT ![h] = c],
         c.pc \notin Owning,
         c.pc = "replay" => keys[c.for.key] = [req |-> c.for.req, run |-> c.run],
         UNCHANGED <<status, origin, keys, job, executions, outcome>>,
         \A a \in acked' : a \in acked \/ keys[a.key] = [req |-> a.req, run |-> a.run]
  PROVE  CallsOwn' /\ KeysBind' /\ RunsProgress'
<1>1. call \in [Handlers -> Calls] BY DEF Inv, TypeInv, CallsOK
<1>2. CallsOwn'
  BY <1>1 DEF Inv, CallsOwn, HasRow, Entry
<1>3. KeysBind'
  BY <1>1 DEF Inv, KeysBind, KeyNamesItsRun, HasRow, Entry
<1>4. RunsProgress'
  BY DEF Inv, RunsProgress, Progress, Tells, HasRow
<1> QED BY <1>2, <1>3, <1>4

\* A step of the thread of r.
LEMMA JobMoves ==
  ASSUME Inv, NEW r \in RunIds, job[r] # "none", job'[r] # "none", HasRow(r)',
         UNCHANGED <<call, keys, origin, acked>>,
         \A s \in RunIds \ {r} : /\ status'[s] = status[s] /\ job'[s] = job[s]
                                 /\ executions'[s] = executions[s] /\ outcome'[s] = outcome[s],
         Progress(r)', Tells(r)'
  PROVE  CallsOwn' /\ KeysBind' /\ RunsProgress'
<1>1. \A h \in Handlers : call[h].pc \in Owning => call[h].run \in RunIds \ {r}
  BY DEF Inv, TypeInv, CallsOK, CallsOwn
<1>2. CallsOwn'
  BY <1>1 DEF Inv, CallsOwn, HasRow, Entry
<1>3. KeysBind'
  <2>1. KeyNamesItsRun'
    <3>1. \A k \in Keys : keys[k] # None => keys[k].run \in RunIds
      BY DEF Inv, TypeInv, RowsOK
    <3> QED BY <3>1 DEF Inv, KeysBind, KeyNamesItsRun, HasRow
  <2> QED BY <2>1 DEF Inv, KeysBind, Entry
<1>4. RunsProgress'
  BY DEF Inv, RunsProgress, Progress, Tells, HasRow
<1> QED BY <1>2, <1>3, <1>4
-----------------------------------------------------------------------------
(* Every step keeps Inv.                                                   *)

LEMMA ReadingInv ==
  ASSUME Inv, NEW h \in Handlers,
         GetIdempotencyKey(h) \/ ReplayRun(h) \/ ValidatePlan(h) \/ ValidatePreflight(h)
           \/ FindArtifact(h) \/ CallRaises(h)
  PROVE  CallsOwn' /\ KeysBind' /\ RunsProgress'
<1>1. UNCHANGED <<status, origin, keys, job, executions, outcome>>
  BY DEF GetIdempotencyKey, ReplayRun, ValidatePlan, ValidatePreflight, FindArtifact, CallRaises,
         rows, threads
<1>2. ASSUME NEW code, ReplyError(h, code)
      PROVE  CallsOwn' /\ KeysBind' /\ RunsProgress'
  BY <1>1, <1>2, QuietCall DEF ReplyError, Idle, Owning
<1>3. ASSUME NEW p \in {"plan", "preflight", "artifact", "save_run"}, NEW r, NEW x,
             Proceed(h, p, r, x), UNCHANGED acked
      PROVE  CallsOwn' /\ KeysBind' /\ RunsProgress'
  <2> DEFINE c == [pc |-> p, for |-> call[h].for, run |-> r, source |-> x, code |-> "NONE"]
  <2>1. call' = [call EXCEPT ![h] = c] BY <1>3 DEF Proceed
  <2>2. c.pc = p OBVIOUS
  <2> HIDE DEF c
  <2> QED BY <1>1, <1>3, <2>1, <2>2, QuietCall DEF Owning
<1>4. CASE GetIdempotencyKey(h)
  <2> DEFINE k == call[h].for.key
             c == [pc |-> "replay", for |-> call[h].for, run |-> keys[k].run,
                   source |-> None, code |-> "NONE"]
  <2>1. CASE keys[k] # None /\ keys[k].req = call[h].for.req
             /\ Proceed(h, "replay", keys[k].run, None) /\ UNCHANGED acked
    <3>1. k \in Keys BY <1>4, CallFields DEF GetIdempotencyKey, At, Inv, TypeInv
    <3>2. keys[k] = [req |-> call[h].for.req, run |-> keys[k].run]
      BY <2>1, <3>1 DEF Inv, TypeInv, RowsOK
    <3>3. call' = [call EXCEPT ![h] = c] BY <2>1 DEF Proceed
    <3>4. c.pc = "replay" /\ c.for = call[h].for /\ c.run = keys[k].run OBVIOUS
    <3> HIDE DEF c
    <3> QED BY <1>1, <2>1, <3>2, <3>3, <3>4, QuietCall DEF Owning
  <2> QED BY <1>4, <1>2, <1>3, <2>1 DEF GetIdempotencyKey, GoTo
<1>5. CASE ReplayRun(h)
  <2>1. CASE ReplyRun(h, call[h].run)
    <3>1. keys[call[h].for.key] = Entry(h)
      BY <1>5 DEF ReplayRun, At, Inv, KeysBind
    <3>2. \A a \in acked' : a \in acked \/ keys[a.key] = [req |-> a.req, run |-> a.run]
      BY <2>1, <3>1 DEF ReplyRun, Entry
    <3> QED BY <1>1, <2>1, <3>2, QuietCall DEF ReplyRun, Idle, Owning
  <2> QED BY <1>5, <1>2, <2>1 DEF ReplayRun
<1>6. CASE ValidatePlan(h) BY <1>6, <1>2, <1>3 DEF ValidatePlan, GoTo
<1>7. CASE ValidatePreflight(h) BY <1>7, <1>2, <1>3 DEF ValidatePreflight, GoTo
<1>8. CASE FindArtifact(h) BY <1>8, <1>2, <1>3 DEF FindArtifact
<1>9. CASE CallRaises(h) BY <1>9, <1>2 DEF CallRaises
<1> QED BY <1>4, <1>5, <1>6, <1>7, <1>8, <1>9

LEMMA SaveRunInv ==
  ASSUME Inv, NEW h \in Handlers, SaveRun(h)
  PROVE  CallsOwn' /\ KeysBind' /\ RunsProgress'
<1>1. PICK r \in RunIds :
        /\ ~HasRow(r)
        /\ status' = [status EXCEPT ![r] = "QUEUED"]
        /\ origin' = [origin EXCEPT ![r] = call[h].for]
        /\ Proceed(h, "save_key", r, call[h].source)
  BY DEF SaveRun
<1> DEFINE c == [pc |-> "save_key", for |-> call[h].for, run |-> r,
                 source |-> call[h].source, code |-> "NONE"]
<1>2. call' = [call EXCEPT ![h] = c] BY <1>1 DEF Proceed
<1>3. c.pc = "save_key" /\ c.for = call[h].for /\ c.run = r OBVIOUS
<1> HIDE DEF c
<1>4. UNCHANGED <<keys, acked, job, executions, outcome>> BY DEF SaveRun, threads
<1>5. /\ call \in [Handlers -> Calls] /\ call[h].for \in Origins
      /\ status \in [RunIds -> States] /\ origin \in [RunIds -> Origins \cup {None}]
  BY DEF SaveRun, At, Inv, TypeInv, CallsOK, RowsOK
<1>6. job[r] = "none" BY <1>1 DEF Inv, RunsProgress, Progress
<1>7. \A g \in Handlers : call[g].pc \in Owning => call[g].run \in RunIds \ {r}
  BY <1>1 DEF Inv, TypeInv, CallsOK, CallsOwn
<1>8. CallsOwn'
  BY <1>1, <1>2, <1>3, <1>4, <1>5, <1>6, <1>7 DEF Inv, CallsOwn, HasRow, Entry, Owning
<1>9. KeysBind'
  <2>1. \A k \in Keys : keys[k] # None => keys[k].run \in RunIds \ {r}
    BY <1>1 DEF Inv, TypeInv, RowsOK, KeysBind, KeyNamesItsRun
  <2>2. KeyNamesItsRun'
    BY <1>1, <1>4, <1>5, <2>1 DEF Inv, KeysBind, KeyNamesItsRun, HasRow
  <2> QED BY <1>2, <1>3, <1>4, <1>5, <2>2 DEF Inv, KeysBind, Entry
<1>10. RunsProgress'
  BY <1>1, <1>4, <1>5, <1>6 DEF Inv, RunsProgress, Progress, Tells, HasRow
<1> QED BY <1>8, <1>9, <1>10

LEMMA SaveIdempotencyKeyInv ==
  ASSUME Inv, NEW h \in Handlers, SaveIdempotencyKey(h)
  PROVE  CallsOwn' /\ KeysBind' /\ RunsProgress'
<1> DEFINE k == call[h].for.key
<1>1. UNCHANGED <<status, origin, job, executions, outcome>>
  BY DEF SaveIdempotencyKey, threads
<1>2. CASE keys[k] # None /\ ReplyError(h, "EXCEPTION") /\ UNCHANGED keys
  BY <1>1, <1>2, QuietCall DEF ReplyError, Idle, Owning
<1>3. CASE keys[k] = None /\ keys' = [keys EXCEPT ![k] = Entry(h)]
           /\ GoTo(h, "append_event") /\ UNCHANGED acked
  <2> DEFINE c == [pc |-> "append_event", for |-> call[h].for, run |-> call[h].run,
                   source |-> call[h].source, code |-> "NONE"]
  <2>1. call' = [call EXCEPT ![h] = c] BY <1>3 DEF GoTo, Proceed
  <2>2. c.pc = "append_event" /\ c.for = call[h].for /\ c.run = call[h].run OBVIOUS
  <2> HIDE DEF c
  <2>3. /\ call \in [Handlers -> Calls] /\ k \in Keys /\ call[h].for \in Origins
        /\ call[h].pc = "save_key" /\ call[h].run \in RunIds
        /\ keys \in [Keys -> [req: Requests, run: RunIds] \cup {None}]
    BY CallFields DEF SaveIdempotencyKey, At, Inv, TypeInv, CallsOK, RowsOK, Owning
  <2>4. Entry(h) # None
    BY <2>3, CallFields, NoneIsNothing DEF Entry, Inv, TypeInv
  <2>5. \A x \in Keys : keys[x] # None => keys'[x] = keys[x]
    BY <1>3, <2>3
  <2>6. \A g \in Handlers : /\ call[g].pc # "idle" => call[g].for.key \in Keys
                            /\ call[g].pc # "idle" /\ call[g].run \in RunIds => Entry(g) # None
    BY CallFields, NoneIsNothing DEF Inv, TypeInv, Entry
  <2>7. CallsOwn'
    <3>1. \A g \in Handlers \ {h} : call[g].pc \in Owning /\ call[g].pc # "save_key" =>
            keys'[call[g].for.key] = Entry(g)
      BY <2>5, <2>6 DEF Inv, CallsOwn, TypeInv, CallsOK, Owning
    <3>2. keys'[k] = Entry(h) BY <1>3, <2>3
    <3> QED BY <1>1, <2>1, <2>2, <2>3, <3>1, <3>2 DEF Inv, CallsOwn, HasRow, Entry, Owning
  <2>8. KeysBind'
    <3>1. KeyNamesItsRun'
      BY <1>1, <1>3, <2>3 DEF Inv, KeysBind, KeyNamesItsRun, HasRow, CallsOwn, Entry, Owning
    <3>2. \A g \in Handlers : call'[g].pc = "replay" => keys'[call'[g].for.key] = Entry(g)'
      BY <2>1, <2>2, <2>3, <2>5, <2>6 DEF Inv, KeysBind, TypeInv, CallsOK, Entry
    <3>3. \A a \in acked : a.key \in Keys /\ [req |-> a.req, run |-> a.run] # None
      BY NoneIsNothing DEF Inv, TypeInv, RestOK
    <3> QED BY <1>3, <2>5, <3>1, <3>2, <3>3 DEF Inv, KeysBind
  <2>9. RunsProgress'
    <3>1. \A r \in RunIds : HasRow(r) => origin[r].key \in Keys
      BY DEF Inv, RunsProgress, Progress, Origins
    <3> QED BY <1>1, <2>5, <3>1 DEF Inv, RunsProgress, Progress, Tells, HasRow
  <2> QED BY <2>7, <2>8, <2>9
<1> QED BY <1>2, <1>3 DEF SaveIdempotencyKey, Entry

LEMMA HandOverInv ==
  ASSUME Inv, NEW h \in Handlers, AppendQueuedEvent(h) \/ Submit(h)
  PROVE  CallsOwn' /\ KeysBind' /\ RunsProgress'
<1> DEFINE r == call[h].run
<1>1. /\ call \in [Handlers -> Calls] /\ r \in RunIds /\ call[h].for \in Origins
      /\ call[h].pc \in {"append_event", "submit"}
  BY DEF AppendQueuedEvent, Submit, At, Inv, TypeInv, CallsOK, Owning
<1>2. /\ HasRow(r) /\ origin[r] = call[h].for /\ job[r] = "none"
      /\ keys[call[h].for.key] = Entry(h)
  BY <1>1 DEF Inv, CallsOwn, Owning
<1>3. CASE AppendQueuedEvent(h)
  <2> DEFINE c == [pc |-> "submit", for |-> call[h].for, run |-> r,
                   source |-> call[h].source, code |-> "NONE"]
  <2>1. call' = [call EXCEPT ![h] = c] BY <1>3 DEF AppendQueuedEvent, GoTo, Proceed
  <2>2. c.pc = "submit" /\ c.for = call[h].for /\ c.run = r OBVIOUS
  <2> HIDE DEF c
  <2>3. UNCHANGED <<status, origin, keys, acked, job, executions, outcome>>
    BY <1>3 DEF AppendQueuedEvent, threads
  <2>4. CallsOwn'
    BY <1>1, <1>2, <2>1, <2>2, <2>3 DEF Inv, CallsOwn, HasRow, Entry, Owning
  <2>5. KeysBind'
    BY <1>1, <2>1, <2>2, <2>3 DEF Inv, KeysBind, KeyNamesItsRun, HasRow, Entry
  <2>6. RunsProgress'
    BY <2>3 DEF Inv, RunsProgress, Progress, Tells, HasRow
  <2> QED BY <2>4, <2>5, <2>6
<1>4. CASE Submit(h)
  <2>1. /\ job' = [job EXCEPT ![r] = "starting"] /\ job \in [RunIds -> JobPositions]
        /\ call' = [call EXCEPT ![h] = Idle("OK")]
        /\ acked' = acked \cup {[key |-> call[h].for.key, req |-> call[h].for.req, run |-> r]}
    BY <1>4 DEF Submit, ReplyRun, Inv, TypeInv, ThreadsOK
  <2>2. UNCHANGED <<status, origin, keys, executions, outcome>>
    BY <1>4 DEF Submit, rows
  <2>3. CallsOwn'
    BY <1>1, <2>1, <2>2 DEF Inv, CallsOwn, HasRow, Entry, Owning, Idle, TypeInv, CallsOK
  <2>4. KeysBind'
    BY <1>1, <1>2, <2>1, <2>2 DEF Inv, KeysBind, KeyNamesItsRun, HasRow, Entry, Idle
  <2>5. keys[origin[r].key] # None /\ keys[origin[r].key].run = r /\ status[r] = "QUEUED"
    <3>1. Entry(h) # None
      BY <1>1, CallFields, NoneIsNothing DEF Entry, Inv, TypeInv
    <3> QED BY <1>1, <1>2, <3>1 DEF Entry, Inv, RunsProgress, Progress, HasRow
  <2>6. RunsProgress'
    BY <1>1, <1>2, <2>1, <2>2, <2>5 DEF Inv, RunsProgress, Progress, Tells, HasRow
  <2> QED BY <2>3, <2>4, <2>6
<1> QED BY <1>3, <1>4

LEMMA JobInv ==
  ASSUME Inv, NEW r \in RunIds, JobStep(r) \/ JobRaises(r)
  PROVE  CallsOwn' /\ KeysBind' /\ RunsProgress'
<1> USE DEF JobAt, JobTo
<1>1. UNCHANGED <<call, keys, origin, acked>>
  BY DEF JobStep, JobRaises, MarkStarted, LogStarted, BeginExecute, EndExecute, Complete,
         LogEnd, rows
<1>2. /\ status \in [RunIds -> States] /\ job \in [RunIds -> JobPositions]
      /\ executions \in [RunIds -> Nat] /\ outcome \in [RunIds -> {"none", "succeeded", "failed"}]
  BY DEF Inv, TypeInv, RowsOK, ThreadsOK
<1>3. job[r] # "none"
  BY DEF JobStep, JobRaises, MarkStarted, LogStarted, BeginExecute, EndExecute, Complete, LogEnd
<1>4. \A s \in RunIds \ {r} : /\ status'[s] = status[s] /\ job'[s] = job[s]
                               /\ executions'[s] = executions[s] /\ outcome'[s] = outcome[s]
  BY <1>2 DEF JobStep, JobRaises, MarkStarted, LogStarted, BeginExecute, EndExecute, Complete,
              LogEnd, rows
<1>5. Progress(r) /\ Tells(r) BY DEF Inv, RunsProgress
<1>6. job'[r] # "none" /\ HasRow(r)' /\ Progress(r)' /\ Tells(r)'
  <2> USE <1>1, <1>2, <1>3, <1>5 DEF Progress, Tells, HasRow
  <2>1. CASE MarkStarted(r) BY <2>1 DEF MarkStarted
  <2>2. CASE LogStarted(r) BY <2>2 DEF LogStarted
  <2>3. CASE BeginExecute(r) BY <2>3 DEF BeginExecute, rows
  <2>4. CASE EndExecute(r) BY <2>4 DEF EndExecute, rows
  <2>5. CASE Complete(r) BY <2>5 DEF Complete
  <2>6. CASE LogEnd(r) BY <2>6 DEF LogEnd
  <2>7. CASE JobRaises(r) BY <2>7 DEF JobRaises, rows
  <2> QED BY <2>1, <2>2, <2>3, <2>4, <2>5, <2>6, <2>7 DEF JobStep
<1> QED BY <1>1, <1>3, <1>4, <1>6, JobMoves

LEMMA NextInv ==
  ASSUME Inv, [Next]_vars
  PROVE  Inv'
<1>1. TypeInv' BY NextTypeInv DEF Inv
<1>2. ASSUME NEW h \in Handlers, NEW k \in Keys, NEW q \in Requests, Receive(h, k, q)
      PROVE  CallsOwn' /\ KeysBind' /\ RunsProgress'
  <2> DEFINE c == [pc |-> "lookup", for |-> [key |-> k, req |-> q, asked |-> now],
                   run |-> None, source |-> None, code |-> "NONE"]
  <2>1. call' = [call EXCEPT ![h] = c] BY <1>2 DEF Receive
  <2>2. c.pc = "lookup" OBVIOUS
  <2> HIDE DEF c
  <2> QED BY <1>2, <2>1, <2>2, QuietCall DEF Receive, rows, threads, Owning
<1>3. CASE Tick \/ UNCHANGED vars
  <2>1. UNCHANGED <<status, origin, keys, call, acked, job, executions, outcome>>
    BY <1>3 DEF Tick, vars, rows, threads
  <2>2. CallsOwn' BY <2>1 DEF Inv, CallsOwn, HasRow, Entry
  <2>3. KeysBind' BY <2>1 DEF Inv, KeysBind, KeyNamesItsRun, HasRow, Entry
  <2>4. RunsProgress' BY <2>1 DEF Inv, RunsProgress, Progress, Tells, HasRow
  <2> QED BY <1>1, <2>2, <2>3, <2>4 DEF Inv
<1>4. CASE Crash
  <2>1. CallsOwn' BY <1>4 DEF Crash, CallsOwn, Idle, Owning
  <2>2. KeysBind'
    BY <1>4 DEF Crash, rows, Inv, KeysBind, KeyNamesItsRun, HasRow, Idle
  <2>3. RunsProgress'
    <3>1. UNCHANGED <<status, origin, keys, executions, outcome>> BY <1>4 DEF Crash, rows
    <3>2. \A r \in RunIds : \/ job'[r] = job[r]
                            \/ job[r] # "none" /\ job'[r] = "dead"
      BY <1>4 DEF Crash
    <3>3. ASSUME NEW r \in RunIds PROVE Progress(r)' /\ Tells(r)'
      <4>1. Progress(r) /\ Tells(r) BY DEF Inv, RunsProgress
      <4>2. CASE job'[r] = job[r] BY <3>1, <4>1, <4>2 DEF Progress, Tells, HasRow
      <4>3. CASE job[r] # "none" /\ job'[r] = "dead"
        BY <3>1, <4>1, <4>3 DEF Progress, Tells, HasRow
      <4> QED BY <3>2, <4>2, <4>3
    <3> QED BY <3>3 DEF RunsProgress
  <2> QED BY <1>1, <2>1, <2>2, <2>3 DEF Inv
<1> QED
  BY <1>1, <1>2, <1>3, <1>4, ReadingInv, SaveRunInv, SaveIdempotencyKeyInv, HandOverInv, JobInv
     DEF Next, CallStep, Inv

\* The invariant of the argument above.
THEOREM Invariant == Spec => []Inv
<1>1. Init => Inv BY InitInv
<1>2. Inv /\ [Next]_vars => Inv' BY NextInv
<1> QED BY <1>1, <1>2, PTL DEF Spec

\* However many calls race for a key, and however often the process restarts, all ok
\* replies to the key name one run and answer one request.
THEOREM RepliesAlwaysAgree == Spec => []RepliesAgree
<1>1. Inv => RepliesAgree
  <2> SUFFICES ASSUME Inv, NEW a \in acked, NEW b \in acked, a.key = b.key PROVE a = b
    BY DEF RepliesAgree
  <2>1. [req |-> a.req, run |-> a.run] = [req |-> b.req, run |-> b.run]
    BY DEF Inv, KeysBind
  <2>2. a.req = b.req /\ a.run = b.run BY <2>1
  <2> QED BY <2>2 DEF Inv, TypeInv, RestOK
<1> QED BY <1>1, Invariant, PTL

\* Of all the runs ever created under a key at most one is executed, and once.
THEOREM ExecutedOnce == Spec => []OneExecutionPerKey
<1>1. Inv => OneExecutionPerKey
  <2> SUFFICES ASSUME Inv PROVE OneExecutionPerKey OBVIOUS
  <2>1. \A r \in RunIds : executions[r] <= 1
    BY DEF Inv, RunsProgress, Progress
  <2>2. \A r \in RunIds : executions[r] > 0 => keys[origin[r].key].run = r
    BY DEF Inv, RunsProgress, Progress
  <2> QED BY <2>1, <2>2 DEF OneExecutionPerKey
<1> QED BY <1>1, Invariant, PTL

\* No stop, raise or race leaves a key without its run, which the schema's foreign key
\* would not prevent.
THEOREM KeysAlwaysName == Spec => []KeyNamesItsRun
<1>1. Inv => KeyNamesItsRun BY DEF Inv, KeysBind
<1> QED BY <1>1, Invariant, PTL

\* No raise while an end is reported turns a success into a failure or makes one up.
THEOREM StateAlwaysTells == Spec => []StateTellsOutcome
<1>1. Inv => StateTellsOutcome
  BY DEF Inv, RunsProgress, Tells, StateTellsOutcome
<1> QED BY <1>1, Invariant, PTL

-----------------------------------------------------------------------------
(* The event stream.  What has been appended by when: the first event by   *)
(* the call that created the run, the others by the run's thread, each     *)
(* behind the update of the row it reports.                                *)

Queued == <<"QUEUED">>
Started == <<"QUEUED", "STARTED">>

\* The log of a run, by the position of its thread.
LogOK(r) ==
  /\ status[r] = "ABSENT" => events[r] = <<>>
  /\ job[r] = "none" => events[r] \in {<<>>, Queued}
  /\ job[r] \in {"starting", "log_started"} => events[r] = Queued
  /\ job[r] \in {"ready", "executing", "succeeded"} => events[r] = Started
  /\ job[r] \in {"failed", "log_end"} => events[r] \in {Queued, Started}
  /\ \/ events[r] \in {<<>>, Queued}
     \/ events[r] = Started /\ status[r] \in {"RUNNING"} \cup Terminal
     \/ /\ events[r] \in {Append(Queued, status[r]), Append(Started, status[r])}
        /\ status[r] \in Terminal /\ job[r] \in {"done", "dead"}

\* The log a call finds for the run it has created.
CallLogOK(h) ==
  /\ call[h].pc \in {"save_key", "append_event"} => events[call[h].run] = <<>>
  /\ call[h].pc = "submit" => events[call[h].run] = Queued

LogsOK == (\A r \in RunIds : LogOK(r)) /\ (\A h \in Handlers : CallLogOK(h))

\* A log of one event and another.
LEMMA AppendToOne ==
  ASSUME NEW a, NEW b
  PROVE  Append(<<a>>, b) = <<a, b>>
<1> DEFINE S == {a, b}
           s == Append(<<a>>, b)
           t == <<a, b>>
<1>1. <<a>> \in Seq(S) /\ b \in S /\ Len(<<a>>) = 1 /\ <<a>>[1] = a
  OBVIOUS
<1>2. s \in Seq(S) /\ Len(s) = 2 /\ s[1] = a /\ s[2] = b
  BY <1>1, AppendProperties
<1>3. t \in Seq(S) /\ Len(t) = 2 /\ t[1] = a /\ t[2] = b
  OBVIOUS
<1> HIDE DEF s, t, S
<1>4. \A i \in 1..Len(s) : s[i] = t[i]
  BY <1>2, <1>3
<1>5. s = t
  BY <1>2, <1>3, <1>4, SeqEqual
<1> QED BY <1>5 DEF s, t

\* A log of two events and another.
LEMMA AppendToTwo ==
  ASSUME NEW a, NEW b, NEW c
  PROVE  Append(<<a, b>>, c) = <<a, b, c>>
<1> DEFINE S == {a, b, c}
           s == Append(<<a, b>>, c)
           t == <<a, b, c>>
<1>1. <<a, b>> \in Seq(S) /\ c \in S /\ Len(<<a, b>>) = 2 /\ <<a, b>>[1] = a /\ <<a, b>>[2] = b
  OBVIOUS
<1>2. s \in Seq(S) /\ Len(s) = 3 /\ s[1] = a /\ s[2] = b /\ s[3] = c
  BY <1>1, AppendProperties
<1>3. t \in Seq(S) /\ Len(t) = 3 /\ t[1] = a /\ t[2] = b /\ t[3] = c
  OBVIOUS
<1> HIDE DEF s, t, S
<1>4. \A i \in 1..Len(s) : s[i] = t[i]
  BY <1>2, <1>3
<1>5. s = t
  BY <1>2, <1>3, <1>4, SeqEqual
<1> QED BY <1>5 DEF s, t

\* The logs LogOK allows, spelt out.
LEMMA LogFollows ==
  ASSUME NEW r \in RunIds, LogOK(r)
  PROVE  /\ events[r] # <<>> => events[r][1] = "QUEUED"
         /\ \A i \in DOMAIN events[r] :
              /\ events[r][i] \in Terminal => status[r] = events[r][i] /\ i = Len(events[r])
              /\ events[r][i] = "QUEUED" => i = 1
              /\ events[r][i] = "STARTED" => i = 2 /\ status[r] # "QUEUED"
<1>1. CASE events[r] = <<>>
  BY <1>1
<1>2. CASE events[r] = Queued
  BY <1>2 DEF Queued, Terminal
<1>3. CASE events[r] = Started /\ status[r] \in {"RUNNING"} \cup Terminal
  BY <1>3 DEF Started, Terminal
<1>4. CASE events[r] = Append(Queued, status[r]) /\ status[r] \in Terminal
  <2>1. events[r] = <<"QUEUED", status[r]>>
    BY <1>4, AppendToOne DEF Queued
  <2> QED BY <1>4, <2>1 DEF Terminal
<1>5. CASE events[r] = Append(Started, status[r]) /\ status[r] \in Terminal
  <2>1. events[r] = <<"QUEUED", "STARTED", status[r]>>
    BY <1>5, AppendToTwo DEF Started
  <2> QED BY <1>5, <2>1 DEF Terminal
<1> QED BY <1>1, <1>2, <1>3, <1>4, <1>5 DEF LogOK

\* A call that appends nothing and creates nothing.
LEMMA CallLogs ==
  ASSUME Inv, LogsOK, NEW h \in Handlers, NEW c, call' = [call EXCEPT ![h] = c],
         UNCHANGED <<status, events, job>>,
         c.pc \in Owning => call[h].pc \in Owning /\ c.run = call[h].run,
         c.pc \in {"save_key", "append_event"} => call[h].pc \in {"save_key", "append_event"},
         c.pc = "submit" => call[h].pc = "submit"
  PROVE  LogsOK'
<1>1. \A r \in RunIds : LogOK(r)'
  BY DEF LogsOK, LogOK
<1>2. ASSUME NEW g \in Handlers
      PROVE  CallLogOK(g)'
  <2>1. (g = h /\ call'[g] = c) \/ call'[g] = call[g]
    BY DEF Inv, TypeInv, CallsOK
  <2>2. CallLogOK(g)
    BY DEF LogsOK
  <2> QED BY <2>1, <2>2 DEF CallLogOK, Owning
<1> QED BY <1>1, <1>2 DEF LogsOK

\* A step of the thread of r: the calls have other runs.
LEMMA JobLogs ==
  ASSUME Inv, LogsOK, NEW r \in RunIds, job[r] # "none", UNCHANGED call,
         \A s \in RunIds \ {r} : status'[s] = status[s] /\ events'[s] = events[s] /\ job'[s] = job[s],
         LogOK(r)'
  PROVE  LogsOK'
<1>1. \A s \in RunIds : LogOK(s)'
  BY DEF LogsOK, LogOK
<1>2. \A h \in Handlers : call[h].pc \in Owning => call[h].run \in RunIds \ {r}
  BY DEF Inv, TypeInv, CallsOK, CallsOwn
<1>3. \A h \in Handlers : CallLogOK(h)'
  BY <1>2 DEF LogsOK, CallLogOK, Owning
<1> QED BY <1>1, <1>3 DEF LogsOK

LEMMA ThreadLogs ==
  ASSUME Inv, LogsOK, NEW r \in RunIds, JobStep(r) \/ JobRaises(r)
  PROVE  LogsOK'
<1> USE DEF JobAt, JobTo
<1>1. /\ status \in [RunIds -> States] /\ job \in [RunIds -> JobPositions]
      /\ events \in [RunIds -> Seq(EventTypes)]
  BY DEF Inv, TypeInv, RowsOK, ThreadsOK
<1>2. job[r] # "none" /\ UNCHANGED call
  BY DEF JobStep, JobRaises, MarkStarted, LogStarted, BeginExecute, EndExecute, Complete, LogEnd
<1>3. \A s \in RunIds \ {r} : status'[s] = status[s] /\ events'[s] = events[s] /\ job'[s] = job[s]
  BY <1>1 DEF JobStep, JobRaises, MarkStarted, LogStarted, BeginExecute, EndExecute, Complete,
              LogEnd, rows
<1>4. LogOK(r) /\ Progress(r)
  BY DEF LogsOK, Inv, RunsProgress
<1>5. LogOK(r)'
  <2>1. CASE MarkStarted(r)
    BY <1>1, <1>4, <2>1 DEF MarkStarted, LogOK, Progress, Terminal
  <2>2. CASE LogStarted(r)
    <3>1. events'[r] = Append(Queued, "STARTED") /\ status' = status /\ status[r] = "RUNNING"
          /\ job'[r] = "ready"
      BY <1>1, <1>4, <2>2 DEF LogStarted, LogOK, Progress
    <3>2. Append(Queued, "STARTED") = Started
      BY AppendToOne DEF Queued, Started
    <3> QED BY <3>1, <3>2 DEF LogOK
  <2>3. CASE BeginExecute(r) \/ EndExecute(r)
    BY <1>1, <1>4, <2>3 DEF BeginExecute, EndExecute, rows, LogOK
  <2>4. CASE Complete(r)
    BY <1>1, <1>4, <2>4 DEF Complete, LogOK, Terminal
  <2>5. CASE LogEnd(r)
    <3>1. status[r] \in Terminal /\ events[r] \in {Queued, Started} /\ status' = status
          /\ events'[r] = Append(events[r], status[r]) /\ job'[r] = "done"
      BY <1>1, <1>4, <2>5 DEF LogEnd, LogOK, Inv, TypeInv, RowsOK
    <3> QED BY <3>1 DEF LogOK, Terminal
  <2>6. CASE JobRaises(r)
    BY <1>1, <1>4, <2>6 DEF JobRaises, rows, LogOK
  <2> QED BY <2>1, <2>2, <2>3, <2>4, <2>5, <2>6 DEF JobStep
<1> QED BY <1>2, <1>3, <1>5, JobLogs

LEMMA NextLogs ==
  ASSUME Inv, LogsOK, Next
  PROVE  LogsOK'
<1>0. /\ call \in [Handlers -> Calls] /\ events \in [RunIds -> Seq(EventTypes)]
      /\ status \in [RunIds -> States] /\ job \in [RunIds -> JobPositions]
  BY DEF Inv, TypeInv, CallsOK, RowsOK, ThreadsOK
<1>1. ASSUME NEW h \in Handlers, NEW k \in Keys, NEW q \in Requests, Receive(h, k, q)
      PROVE  LogsOK'
  <2> DEFINE c == [pc |-> "lookup", for |-> [key |-> k, req |-> q, asked |-> now],
                   run |-> None, source |-> None, code |-> "NONE"]
  <2>1. c.pc = "lookup" /\ call' = [call EXCEPT ![h] = c] /\ UNCHANGED <<status, events, job>>
    BY <1>1 DEF Receive, rows, threads
  <2> HIDE DEF c
  <2> QED BY <2>1, CallLogs DEF Owning
<1>2. ASSUME NEW h \in Handlers, NEW code, call' = [call EXCEPT ![h] = Idle(code)],
             UNCHANGED <<status, events, job>>
      PROVE  LogsOK'
  <2>1. Idle(code).pc = "idle"
    BY DEF Idle
  <2> QED BY <1>2, <2>1, CallLogs DEF Owning
<1>3. ASSUME NEW h \in Handlers, NEW p, NEW r, NEW s, Proceed(h, p, r, s),
             UNCHANGED <<status, events, job>>,
             p \notin Owning \/ (p = "append_event" /\ call[h].pc = "save_key" /\ r = call[h].run)
      PROVE  LogsOK'
  <2> DEFINE c == [pc |-> p, for |-> call[h].for, run |-> r, source |-> s, code |-> "NONE"]
  <2>1. c.pc = p /\ c.run = r /\ call' = [call EXCEPT ![h] = c]
    BY <1>3 DEF Proceed
  <2> HIDE DEF c
  <2> QED BY <1>3, <2>1, CallLogs DEF Owning
<1>4. ASSUME NEW h \in Handlers,
             \/ GetIdempotencyKey(h) \/ ReplayRun(h) \/ ValidatePlan(h) \/ ValidatePreflight(h)
             \/ FindArtifact(h) \/ SaveIdempotencyKey(h) \/ CallRaises(h)
      PROVE  LogsOK'
  <2>1. UNCHANGED <<status, events, job>>
    BY <1>4 DEF GetIdempotencyKey, ReplayRun, ValidatePlan, ValidatePreflight, FindArtifact,
                SaveIdempotencyKey, CallRaises, rows, threads
  <2>2. \/ \E code : call' = [call EXCEPT ![h] = Idle(code)]
        \/ \E p, r, s : Proceed(h, p, r, s) /\ p \notin Owning
        \/ call[h].pc = "save_key" /\ Proceed(h, "append_event", call[h].run, call[h].source)
    <3>1. CASE GetIdempotencyKey(h)
      BY <3>1 DEF GetIdempotencyKey, ReplyError, GoTo, Owning
    <3>2. CASE ReplayRun(h)
      BY <3>2 DEF ReplayRun, ReplyError, ReplyRun
    <3>3. CASE ValidatePlan(h)
      BY <3>3 DEF ValidatePlan, ReplyError, GoTo, Owning
    <3>4. CASE ValidatePreflight(h)
      BY <3>4 DEF ValidatePreflight, ReplyError, GoTo, Owning
    <3>5. CASE FindArtifact(h)
      BY <3>5 DEF FindArtifact, ReplyError, GoTo, Owning
    <3>6. CASE SaveIdempotencyKey(h)
      BY <3>6 DEF SaveIdempotencyKey, ReplyError, GoTo, At
    <3>7. CASE CallRaises(h)
      BY <3>7 DEF CallRaises, ReplyError
    <3> QED BY <1>4, <3>1, <3>2, <3>3, <3>4, <3>5, <3>6, <3>7
  <2> QED BY <1>2, <1>3, <2>1, <2>2
<1>5. ASSUME NEW h \in Handlers, SaveRun(h)
      PROVE  LogsOK'
  <2>1. PICK r \in RunIds : /\ ~HasRow(r)
                            /\ status' = [status EXCEPT ![r] = "QUEUED"]
                            /\ Proceed(h, "save_key", r, call[h].source)
    BY <1>5 DEF SaveRun
  <2>2. UNCHANGED <<events, job>>
    BY <1>5 DEF SaveRun, threads
  <2>3. events[r] = <<>> /\ job[r] = "none"
    BY <2>1 DEF LogsOK, LogOK, HasRow, Inv, RunsProgress, Progress
  <2>4. \A s \in RunIds : LogOK(s)'
    BY <1>0, <2>1, <2>2, <2>3 DEF LogsOK, LogOK
  <2>5. \A g \in Handlers \ {h} : call'[g] = call[g]
    BY <1>0, <2>1 DEF Proceed
  <2>6. call'[h].pc = "save_key" /\ call'[h].run = r
    BY <1>0, <2>1 DEF Proceed
  <2>7. \A g \in Handlers : CallLogOK(g)'
    BY <2>2, <2>3, <2>5, <2>6 DEF LogsOK, CallLogOK
  <2> QED BY <2>4, <2>7 DEF LogsOK
<1>6. ASSUME NEW h \in Handlers, AppendQueuedEvent(h)
      PROVE  LogsOK'
  <2>1. call[h].pc = "append_event" /\ call[h].run \in RunIds
    BY <1>6 DEF AppendQueuedEvent, At, Inv, TypeInv, CallsOK, Owning
  <2>2. PICK r \in RunIds : r = call[h].run
    BY <2>1
  <2>3. /\ events' = [events EXCEPT ![r] = Append(events[r], "QUEUED")] /\ UNCHANGED <<status, job>>
        /\ GoTo(h, "submit")
    BY <1>6, <2>2 DEF AppendQueuedEvent, threads
  <2>4. HasRow(r) /\ job[r] = "none" /\ events[r] = <<>>
    BY <2>1, <2>2 DEF Inv, CallsOwn, Owning, LogsOK, CallLogOK
  <2>5. events'[r] = Queued
    <3>1. Append(<<>>, "QUEUED") = Queued
      BY DEF Queued
    <3> QED BY <1>0, <2>3, <2>4, <3>1
  <2>6. \A s \in RunIds : LogOK(s)'
    BY <1>0, <2>3, <2>4, <2>5 DEF LogsOK, LogOK, HasRow
  <2>7. \A g \in Handlers \ {h} : call'[g] = call[g] /\ (call[g].pc \in Owning => call[g].run \in RunIds \ {r})
    BY <1>0, <2>1, <2>2, <2>3 DEF GoTo, Proceed, Inv, CallsOwn, TypeInv, CallsOK, Owning
  <2>8. call'[h].pc = "submit" /\ call'[h].run = r
    BY <1>0, <2>2, <2>3 DEF GoTo, Proceed
  <2>9. \A g \in Handlers : CallLogOK(g)'
    BY <1>0, <2>3, <2>5, <2>7, <2>8 DEF LogsOK, CallLogOK, Owning
  <2> QED BY <2>6, <2>9 DEF LogsOK
<1>7. ASSUME NEW h \in Handlers, Submit(h)
      PROVE  LogsOK'
  <2>1. /\ call[h].pc = "submit" /\ call' = [call EXCEPT ![h] = Idle("OK")]
        /\ job' = [job EXCEPT ![call[h].run] = "starting"] /\ UNCHANGED <<status, events>>
    BY <1>7 DEF Submit, At, ReplyRun, rows
  <2>2. call[h].run \in RunIds /\ events[call[h].run] = Queued
    BY <2>1 DEF Inv, TypeInv, CallsOK, Owning, LogsOK, CallLogOK
  <2>3. \A s \in RunIds : LogOK(s)'
    BY <1>0, <2>1, <2>2 DEF LogsOK, LogOK
  <2>4. \A g \in Handlers : CallLogOK(g)'
    BY <1>0, <2>1 DEF LogsOK, CallLogOK, Idle
  <2> QED BY <2>3, <2>4 DEF LogsOK
<1>8. CASE Tick
  BY <1>8 DEF Tick, rows, threads, LogsOK, LogOK, CallLogOK
<1>9. CASE Crash
  <2>1. \A s \in RunIds : LogOK(s)'
    BY <1>0, <1>9 DEF Crash, rows, LogsOK, LogOK
  <2>2. \A g \in Handlers : CallLogOK(g)'
    BY <1>9 DEF Crash, CallLogOK, Idle
  <2> QED BY <2>1, <2>2 DEF LogsOK
<1> QED
  BY <1>1, <1>4, <1>5, <1>6, <1>7, <1>8, <1>9, ThreadLogs DEF Next, CallStep

\* A reader of the event stream is never ahead of the run, and reads its events in their
\* order, whatever raises or stops between the row and its event (service.py:1264-1289).
THEOREM EventsAlwaysFollow == Spec => []EventsFollowState
<1>1. Init => LogsOK
  BY DEF Init, LogsOK, LogOK, CallLogOK, Idle
<1>2. LogsOK /\ UNCHANGED vars => LogsOK'
  BY DEF vars, LogsOK, LogOK, CallLogOK
<1>3. Inv /\ LogsOK /\ [Next]_vars => LogsOK'
  BY <1>2, NextLogs
<1>4. LogsOK => EventsFollowState
  BY LogFollows DEF LogsOK, EventsFollowState
<1> QED BY <1>1, <1>3, <1>4, Invariant, PTL DEF Spec
-----------------------------------------------------------------------------
(* RunService.tla implements RunContract.tla: what clients rely on         *)
(* survives every interleaving, raise and restart.  Six actions move the   *)
(* contract, each by the action of the contract that bears its meaning;    *)
(* Inv gives its guard.  All others are stutters.                          *)


OwnerOf == [r \in RunIds |-> IF HasRow(r) THEN origin[r].key ELSE None]
BoundOf == [k \in Keys |-> IF keys[k] = None THEN None ELSE keys[k].run]

LEMMA InitRefines == Init => Contract!Init
<1> SUFFICES ASSUME Init PROVE Contract!Init OBVIOUS
<1>1. OwnerOf = [r \in RunIds |-> None] BY DEF Init, OwnerOf, HasRow
<1>2. BoundOf = [k \in Keys |-> None] BY DEF Init, BoundOf
<1> QED BY <1>1, <1>2 DEF Init, Contract!Init, OwnerOf, BoundOf

\* What the contract sees of the service.
LEMMA Stutters ==
  ASSUME UNCHANGED <<status, origin, keys, executions>>
  PROVE  UNCHANGED Contract!vars
BY DEF Contract!vars, HasRow

LEMMA SaveRunCreates ==
  ASSUME Inv, NEW h \in Handlers, SaveRun(h)
  PROVE  Contract!Next
<1>1. PICK r \in RunIds : /\ ~HasRow(r)
                          /\ status' = [status EXCEPT ![r] = "QUEUED"]
                          /\ origin' = [origin EXCEPT ![r] = call[h].for]
  BY DEF SaveRun
<1>2. /\ call[h].for.key \in Keys /\ status \in [RunIds -> States]
      /\ origin \in [RunIds -> Origins \cup {None}]
  BY CallFields DEF SaveRun, At, Inv, TypeInv, RowsOK
<1> PICK k \in Keys : k = call[h].for.key BY <1>2
<1>3. UNCHANGED <<keys, executions>> BY DEF SaveRun, threads
<1>4. OwnerOf' = [OwnerOf EXCEPT ![r] = k]
  BY <1>1, <1>2 DEF OwnerOf, HasRow
<1>5. status[r] = "ABSENT" BY <1>1 DEF HasRow
<1>6. BoundOf' = BoundOf BY <1>3 DEF BoundOf
<1>7. Contract!Create(r, k)
  BY <1>1, <1>3, <1>4, <1>5, <1>6 DEF Contract!Create, OwnerOf, BoundOf
<1> QED BY <1>7 DEF Contract!Next

LEMMA SaveIdempotencyKeyBinds ==
  ASSUME Inv, NEW h \in Handlers, SaveIdempotencyKey(h)
  PROVE  Contract!Next \/ UNCHANGED Contract!vars
<1>1. UNCHANGED <<status, origin, executions>> BY DEF SaveIdempotencyKey, threads
<1>2. /\ call[h].for.key \in Keys /\ call[h].run \in RunIds /\ call[h].pc = "save_key"
      /\ keys \in [Keys -> [req: Requests, run: RunIds] \cup {None}]
  BY CallFields DEF SaveIdempotencyKey, At, Inv, TypeInv, CallsOK, RowsOK, Owning
<1> PICK k \in Keys, r \in RunIds : k = call[h].for.key /\ r = call[h].run BY <1>2
<1>3. HasRow(r) /\ origin[r].key = k /\ status[r] = "QUEUED"
  BY <1>2 DEF Inv, CallsOwn, RunsProgress, Progress, HasRow, Owning
<1>4. CASE keys[k] = None /\ keys' = [keys EXCEPT ![k] = [req |-> call[h].for.req, run |-> r]]
  <2>1. [req |-> call[h].for.req, run |-> r] # None
    BY <1>2, CallFields, NoneIsNothing DEF Inv, TypeInv
  <2>2. BoundOf' = [BoundOf EXCEPT ![k] = r] /\ BoundOf[k] = None
    BY <1>2, <1>4, <2>1 DEF BoundOf
  <2>3. OwnerOf[r] = k /\ OwnerOf' = OwnerOf BY <1>1, <1>2, <1>3 DEF OwnerOf, HasRow
  <2>4. Contract!Bind(r, k)
    BY <1>1, <1>3, <2>2, <2>3 DEF Contract!Bind, OwnerOf, BoundOf
  <2> QED BY <2>4 DEF Contract!Next
<1>5. CASE UNCHANGED keys BY <1>1, <1>5, Stutters
<1> QED BY <1>4, <1>5 DEF SaveIdempotencyKey

LEMMA JobRefines ==
  ASSUME Inv, NEW r \in RunIds, JobStep(r)
  PROVE  Contract!Next \/ UNCHANGED Contract!vars
<1> USE DEF JobAt, JobTo
<1>1. UNCHANGED <<origin, keys>>
  BY DEF JobStep, MarkStarted, LogStarted, BeginExecute, EndExecute, Complete, LogEnd, rows
<1>2. /\ status \in [RunIds -> States] /\ executions \in [RunIds -> Nat]
  BY DEF Inv, TypeInv, RowsOK, ThreadsOK
<1>3. Progress(r) BY DEF Inv, RunsProgress
<1>4. job[r] # "none"
  BY DEF JobStep, MarkStarted, LogStarted, BeginExecute, EndExecute, Complete, LogEnd
<1>5. Contract!Bound(r)
  <2>1. HasRow(r) /\ origin[r].key \in Keys BY <1>3, <1>4 DEF Progress, Origins
  <2>2. OwnerOf[r] = origin[r].key BY <2>1 DEF OwnerOf
  <2>3. BoundOf[origin[r].key] = r BY <1>3, <1>4, <2>1 DEF Progress, BoundOf
  <2> QED BY <2>1, <2>2, <2>3 DEF Contract!Bound, OwnerOf, BoundOf
<1>6. status'[r] # "ABSENT" /\ status[r] # "ABSENT"
      /\ \A s \in RunIds \ {r} : status'[s] = status[s]
  BY <1>2, <1>3, <1>4 DEF Progress, HasRow, JobStep, MarkStarted, LogStarted, BeginExecute,
                         EndExecute, Complete, LogEnd, rows
<1>7. OwnerOf' = OwnerOf /\ BoundOf' = BoundOf
  BY <1>1, <1>6 DEF OwnerOf, BoundOf, HasRow
<1>8. CASE MarkStarted(r)
  <2>1. CASE UNCHANGED status BY <1>1, <1>8, <2>1, Stutters DEF MarkStarted
  <2>2. CASE status' = [status EXCEPT ![r] = "RUNNING"]
    <3>1. Contract!Start(r)
      BY <1>3, <1>5, <1>7, <1>8, <2>2
         DEF Progress, MarkStarted, Contract!Start, OwnerOf, BoundOf
    <3> QED BY <3>1 DEF Contract!Next
  <2> QED BY <1>8, <2>1, <2>2 DEF MarkStarted
<1>9. CASE BeginExecute(r)
  <2>1. executions[r] = 0 /\ status[r] = "RUNNING" BY <1>3, <1>9 DEF Progress, BeginExecute
  <2>2. executions' = [executions EXCEPT ![r] = 1] BY <1>2, <1>9, <2>1 DEF BeginExecute
  <2>3. UNCHANGED status BY <1>9 DEF BeginExecute, rows
  <2>4. Contract!Begin(r)
    BY <1>5, <1>7, <2>1, <2>2, <2>3 DEF Contract!Begin, OwnerOf, BoundOf
  <2> QED BY <2>4 DEF Contract!Next
<1>10. CASE Complete(r)
  <2>1. UNCHANGED executions BY <1>10 DEF Complete
  <2>2. CASE job[r] = "succeeded" /\ status' = [status EXCEPT ![r] = "SUCCEEDED"]
    <3>1. Contract!Succeed(r)
      BY <1>3, <1>7, <2>1, <2>2 DEF Progress, Contract!Succeed, OwnerOf, BoundOf
    <3> QED BY <3>1 DEF Contract!Next
  <2>3. CASE job[r] = "failed" /\ status' = [status EXCEPT ![r] = "FAILED"]
    <3>1. Contract!Fail(r)
      BY <1>3, <1>5, <1>7, <2>1, <2>3 DEF Progress, Contract!Fail, OwnerOf, BoundOf
    <3> QED BY <3>1 DEF Contract!Next
  <2> QED BY <1>10, <2>2, <2>3 DEF Complete
<1>11. CASE LogStarted(r) \/ EndExecute(r) \/ LogEnd(r)
  BY <1>1, <1>11, Stutters DEF LogStarted, EndExecute, LogEnd, rows
<1> QED BY <1>8, <1>9, <1>10, <1>11 DEF JobStep

\* Every step of the service is a step of the contract or none.
LEMMA NextRefines ==
  ASSUME Inv, [Next]_vars
  PROVE  [Contract!Next]_(Contract!vars)
<1>1. ASSUME NEW h \in Handlers,
             GetIdempotencyKey(h) \/ ReplayRun(h) \/ ValidatePlan(h) \/ ValidatePreflight(h)
               \/ FindArtifact(h) \/ AppendQueuedEvent(h) \/ Submit(h) \/ CallRaises(h)
      PROVE  UNCHANGED Contract!vars
  BY <1>1, Stutters DEF GetIdempotencyKey, ReplayRun, ValidatePlan, ValidatePreflight,
    FindArtifact, AppendQueuedEvent, Submit, CallRaises, rows, threads
<1>2. ASSUME NEW r \in RunIds, JobRaises(r) PROVE UNCHANGED Contract!vars
  BY <1>2, Stutters DEF JobRaises, rows
<1>3. ASSUME NEW h \in Handlers, NEW k \in Keys, NEW q \in Requests, Receive(h, k, q)
      PROVE  UNCHANGED Contract!vars
  BY <1>3, Stutters DEF Receive, rows, threads
<1>4. CASE Tick \/ Crash \/ UNCHANGED vars
  BY <1>4, Stutters DEF Tick, Crash, vars, rows, threads
<1> QED BY <1>1, <1>2, <1>3, <1>4, SaveRunCreates, SaveIdempotencyKeyBinds, JobRefines
        DEF Next, CallStep

\* What a client is promised about keys, runs and executions holds of the service, with
\* its races, raises and restarts.
THEOREM ServiceImplementsContract == Spec => ImplementsContract
<1>1. Init => Contract!Init BY InitRefines
<1>2. Inv /\ [Next]_vars => [Contract!Next]_(Contract!vars) BY NextRefines
<1> QED BY <1>1, <1>2, Invariant, PTL DEF Spec, ImplementsContract, Contract!Spec

\* A run that has ended keeps its end, and no run, however it was interrupted, goes
\* back to the queue to be executed again.
THEOREM EndsAreFinal == Spec => EndIsFinal
<1> DEFINE A == \A r \in RunIds :
                  /\ status[r] \in Terminal => status'[r] = status[r]
                  /\ HasRow(r) => status'[r] # "QUEUED" \/ status[r] = "QUEUED"
<1>1. Inv /\ [Next]_vars => [A]_vars
  <2> SUFFICES ASSUME Inv, Next, NEW r \in RunIds
      PROVE  /\ status[r] \in Terminal => status'[r] = status[r]
             /\ HasRow(r) => status'[r] # "QUEUED" \/ status[r] = "QUEUED"
    BY DEF vars
  <2>1. status \in [RunIds -> States] BY DEF Inv, TypeInv, RowsOK
  <2>2. CASE \E h \in Handlers : SaveRun(h)
    BY <2>1, <2>2 DEF SaveRun, HasRow, Terminal
  <2>3. CASE \E s \in RunIds : MarkStarted(s) \/ Complete(s)
    BY <2>1, <2>3 DEF MarkStarted, Complete, JobAt, Inv, RunsProgress, Progress, Terminal
  <2>4. CASE UNCHANGED status BY <2>4
  <2> QED BY <2>2, <2>3, <2>4
    DEF Next, CallStep, JobStep, Receive, GetIdempotencyKey, ReplayRun, ValidatePlan,
        ValidatePreflight, FindArtifact, SaveIdempotencyKey, AppendQueuedEvent, Submit,
        CallRaises, LogStarted, BeginExecute, EndExecute, LogEnd, JobRaises, Tick, Crash, rows
<1> QED BY <1>1, Invariant, PTL DEF Spec, EndIsFinal

-----------------------------------------------------------------------------
(* Admission.                                                              *)

\* The checks of the plan, and all checks, seen from what the call asks for.
PlanChecked(o) ==
  LET q == o.req
      plan == PlanOf[q.plan]
  IN /\ q.plan \in Plans /\ plan.digest = q.digest /\ o.asked < plan.expires
     /\ q.tool = "start_run" => plan.scope \in SingleScopes /\ q.approval = q.plan
AllChecked(o) ==
  LET q == o.req
      f == PreflightOf[q.preflight]
  IN /\ PlanChecked(o) /\ q.digest \in Configs
     /\ f.state = "PASSED" /\ f.plan = q.plan /\ f.digest = q.digest /\ o.asked < f.expires
     /\ q.tool # "start_run" => PlanOf[q.plan].scope \in WorkflowScopes /\ q.approval = q.plan

\* A run a request may take its artifact from.
HasArtifact(q, s) ==
  \A component \in ArtifactNeeded(PlanOf[q.plan].scope) :
    s \in SucceededRuns(q.digest, component)

\* What a call at its position has checked.
CallAdmitted(c) ==
  /\ c.pc # "idle" => c.for.asked <= now
  /\ c.pc = "preflight" => PlanChecked(c.for)
  /\ c.pc \in {"artifact", "save_run"} => AllChecked(c.for)
  /\ c.pc \in {"save_run"} \cup Owning => HasArtifact(c.for.req, c.source)

RunAdmitted(r) ==
  /\ HasRow(r) => AllChecked(origin[r])
  /\ job[r] # "none" => HasArtifact(origin[r].req, source[r])

AdmissionInv ==
  /\ \A h \in Handlers : CallAdmitted(call[h])
  /\ \A r \in RunIds : RunAdmitted(r)

-----------------------------------------------------------------------------
(* What the checks amount to.                                              *)

\* The first refusal is OK only if there is none.
LEMMA FirstOfThree ==
  ASSUME NEW a, NEW b, NEW c, First(<<a, b, c>>) = "OK"
  PROVE  a = "OK" /\ b = "OK" /\ c = "OK"
<1> DEFINE t == <<a, b, c>>
           Least(i) == i \in DOMAIN t /\ t[i] # "OK" /\ \A j \in 1..(i - 1) : t[j] = "OK"
<1>1. DOMAIN t = 1..3 /\ t[1] = a /\ t[2] = b /\ t[3] = c
  OBVIOUS
<1>2. ASSUME \E i \in DOMAIN t : t[i] # "OK"
      PROVE  \E i : Least(i)
  <2>1. CASE a # "OK" BY <2>1, <1>1
  <2>2. CASE a = "OK" /\ b # "OK"
    <3>1. Least(2) BY <2>2, <1>1
    <3> QED BY <3>1
  <2>3. CASE a = "OK" /\ b = "OK"
    <3>1. t[3] # "OK" BY <1>1, <1>2, <2>3
    <3>2. Least(3) BY <3>1, <2>3, <1>1
    <3> QED BY <3>2
  <2> QED BY <2>1, <2>2, <2>3
<1>3. ~\E i \in DOMAIN t : t[i] # "OK"
  <2> SUFFICES ASSUME \E i \in DOMAIN t : t[i] # "OK" PROVE FALSE
    OBVIOUS
  <2>1. First(t) = t[CHOOSE i \in DOMAIN t : t[i] # "OK" /\ \A j \in 1..(i - 1) : t[j] = "OK"]
    BY DEF First
  <2>2. t[CHOOSE i \in DOMAIN t : t[i] # "OK" /\ \A j \in 1..(i - 1) : t[j] = "OK"] # "OK"
    BY <1>2
  <2> QED BY <2>1, <2>2
<1> QED BY <1>1, <1>3

LEMMA FirstOfFour ==
  ASSUME NEW a, NEW b, NEW c, NEW d, First(<<a, b, c, d>>) = "OK"
  PROVE  a = "OK" /\ b = "OK" /\ c = "OK" /\ d = "OK"
<1> DEFINE t == <<a, b, c, d>>
           Least(i) == i \in DOMAIN t /\ t[i] # "OK" /\ \A j \in 1..(i - 1) : t[j] = "OK"
<1>1. DOMAIN t = 1..4 /\ t[1] = a /\ t[2] = b /\ t[3] = c /\ t[4] = d
  OBVIOUS
<1>2. ASSUME \E i \in DOMAIN t : t[i] # "OK"
      PROVE  \E i : Least(i)
  <2>1. CASE a # "OK" BY <2>1, <1>1
  <2>2. CASE a = "OK" /\ b # "OK"
    <3>1. Least(2) BY <2>2, <1>1
    <3> QED BY <3>1
  <2>3. CASE a = "OK" /\ b = "OK" /\ c # "OK"
    <3>1. Least(3) BY <2>3, <1>1
    <3> QED BY <3>1
  <2>4. CASE a = "OK" /\ b = "OK" /\ c = "OK"
    <3>1. t[4] # "OK" BY <1>1, <1>2, <2>4
    <3>2. Least(4) BY <3>1, <2>4, <1>1
    <3> QED BY <3>2
  <2> QED BY <2>1, <2>2, <2>3, <2>4
<1>3. ~\E i \in DOMAIN t : t[i] # "OK"
  <2> SUFFICES ASSUME \E i \in DOMAIN t : t[i] # "OK" PROVE FALSE
    OBVIOUS
  <2>1. First(t) = t[CHOOSE i \in DOMAIN t : t[i] # "OK" /\ \A j \in 1..(i - 1) : t[j] = "OK"]
    BY DEF First
  <2>2. t[CHOOSE i \in DOMAIN t : t[i] # "OK" /\ \A j \in 1..(i - 1) : t[j] = "OK"] # "OK"
    BY <1>2
  <2> QED BY <2>1, <2>2
<1> QED BY <1>1, <1>3

\* A plan that is let through is of the digest, approved, of the scope, and not expired.
LEMMA PlanLetThrough ==
  ASSUME NEW o \in Origins, o.asked <= now, now \in Nat,
         (IF o.req.tool = "start_run" THEN RunPlanCheck(o.req, now)
                                      ELSE WorkflowPlanCheck(o.req, now)) = "OK"
  PROVE  PlanChecked(o)
<1> DEFINE q == o.req
<1>1. PlanRefusal(q, now) = "OK" /\ (q.tool = "start_run" => ApprovalRefusal(q, SingleScopes) = "OK")
  BY DEF RunPlanCheck, WorkflowPlanCheck
<1>2. q.plan \in Plans /\ PlanOf[q.plan].digest = q.digest /\ ~(PlanOf[q.plan].expires <= now)
  BY <1>1 DEF PlanRefusal, Expired
<1>3. PlanOf[q.plan].expires \in Nat /\ o.asked \in Nat
  BY <1>2, ConstantsAssumption DEF PlanRow, Origins
<1>4. o.asked < PlanOf[q.plan].expires
  BY <1>2, <1>3
<1>5. q.tool = "start_run" => PlanOf[q.plan].scope \in SingleScopes /\ q.approval = q.plan
  BY <1>1 DEF ApprovalRefusal
<1> QED BY <1>2, <1>4, <1>5 DEF PlanChecked

LEMMA PreflightLetThrough ==
  ASSUME NEW o \in Origins, o.asked <= now, now \in Nat, NEW ready \in BOOLEAN, PlanChecked(o),
         (IF o.req.tool = "start_run" THEN RunPreflightCheck(o.req, now, ready)
                                      ELSE WorkflowPreflightCheck(o.req, now, ready)) = "OK"
  PROVE  AllChecked(o)
<1> DEFINE q == o.req
           f == PreflightOf[q.preflight]
<1>1. /\ PreflightRefusal(q, now) = "OK" /\ ConfigRefusal(q) = "OK"
      /\ q.tool # "start_run" => ApprovalRefusal(q, WorkflowScopes) = "OK"
  <2>1. CASE q.tool = "start_run"
    <3>1. First(<<PreflightRefusal(q, now), ReadyRefusal(ready), ConfigRefusal(q)>>) = "OK"
      BY <2>1 DEF RunPreflightCheck
    <3> QED BY <2>1, <3>1, FirstOfThree
  <2>2. CASE q.tool # "start_run"
    <3>1. First(<<PreflightRefusal(q, now), ConfigRefusal(q),
                  ApprovalRefusal(q, WorkflowScopes), ReadyRefusal(ready)>>) = "OK"
      BY <2>2 DEF WorkflowPreflightCheck
    <3> QED BY <2>2, <3>1, FirstOfFour
  <2> QED BY <2>1, <2>2
<1>2. /\ q.preflight \in Preflights /\ f.plan = q.plan /\ f.digest = q.digest
      /\ f.state = "PASSED" /\ ~(f.expires <= now)
  BY <1>1 DEF PreflightRefusal, Expired
<1>3. f.expires \in Nat /\ o.asked \in Nat
  BY <1>2, ConstantsAssumption DEF PreflightRow, Origins
<1>4. o.asked < f.expires
  BY <1>2, <1>3
<1>5. q.digest \in Configs
  BY <1>1 DEF ConfigRefusal
<1>6. q.tool # "start_run" => PlanOf[q.plan].scope \in WorkflowScopes /\ q.approval = q.plan
  BY <1>1 DEF ApprovalRefusal
<1> QED BY <1>2, <1>4, <1>5, <1>6 DEF AllChecked

-----------------------------------------------------------------------------
(* What has been checked stays checked.                                    *)

\* No step changes what a run was created for, or takes its success or its row away.
LEMMA RowsStay ==
  ASSUME Inv, Next, NEW r \in RunIds
  PROVE  /\ HasRow(r) => HasRow(r)' /\ origin'[r] = origin[r]
         /\ status[r] = "SUCCEEDED" => status'[r] = "SUCCEEDED"
<1>1. status \in [RunIds -> States] /\ origin \in [RunIds -> Origins \cup {None}]
  BY DEF Inv, TypeInv, RowsOK
<1>2. CASE \E h \in Handlers : SaveRun(h)
  BY <1>1, <1>2 DEF SaveRun, HasRow
<1>3. CASE \E s \in RunIds : MarkStarted(s) \/ Complete(s)
  BY <1>1, <1>3 DEF MarkStarted, Complete, JobAt, HasRow, Inv, RunsProgress, Progress
<1>4. CASE UNCHANGED <<status, origin>>
  BY <1>4 DEF HasRow
<1> QED
  BY <1>2, <1>3, <1>4
  DEF Next, CallStep, JobStep, Receive, GetIdempotencyKey, ReplayRun, ValidatePlan,
      ValidatePreflight, FindArtifact, SaveIdempotencyKey, AppendQueuedEvent, Submit,
      CallRaises, LogStarted, BeginExecute, EndExecute, LogEnd, JobRaises, Tick, Crash, rows

LEMMA ArtifactsStay ==
  ASSUME Inv, Next, NEW q, NEW s, HasArtifact(q, s)
  PROVE  HasArtifact(q, s)'
<1> SUFFICES ASSUME NEW component \in ArtifactNeeded(PlanOf[q.plan].scope)
             PROVE  s \in SucceededRuns(q.digest, component)'
  BY DEF HasArtifact
<1>1. s \in SucceededRuns(q.digest, component)
  BY DEF HasArtifact
<1>2. s \in RunIds /\ status[s] = "SUCCEEDED" /\ HasRow(s)
  BY <1>1 DEF SucceededRuns, HasRow
<1>3. status'[s] = "SUCCEEDED" /\ origin'[s] = origin[s]
  BY <1>2, RowsStay
<1> QED BY <1>1, <1>2, <1>3 DEF SucceededRuns, DigestOf, ScopeOf

LEMMA CallsStay ==
  ASSUME Inv, Next, NEW c, CallAdmitted(c), c.pc # "idle" => c.for.asked \in Nat
  PROVE  CallAdmitted(c)'
<1>1. now \in Nat /\ now' \in Nat /\ now <= now'
  <2>1. now \in Nat
    BY DEF Inv, TypeInv, RestOK
  <2>2. now' = now \/ now' = now + 1
    BY DEF Next, CallStep, JobStep, Receive, GetIdempotencyKey, ReplayRun, ValidatePlan,
      ValidatePreflight, FindArtifact, SaveRun, SaveIdempotencyKey, AppendQueuedEvent, Submit,
      CallRaises, MarkStarted, LogStarted, BeginExecute, EndExecute, Complete, LogEnd,
      JobRaises, Tick, Crash
  <2> QED BY <2>1, <2>2
<1>2. c.pc # "idle" => c.for.asked <= now'
  BY <1>1 DEF CallAdmitted
<1>3. c.pc \in {"save_run"} \cup Owning => HasArtifact(c.for.req, c.source)'
  BY ArtifactsStay DEF CallAdmitted
<1> QED BY <1>2, <1>3 DEF CallAdmitted, PlanChecked, AllChecked

-----------------------------------------------------------------------------
(* Every step keeps AdmissionInv.                                          *)

\* What a worker thread, or a run, has when it is not the one that moves.
LEMMA OthersAdmitted ==
  ASSUME Inv, AdmissionInv, Next
  PROVE  \A g \in Handlers : CallAdmitted(call[g])'  \/ call'[g] # call[g]
<1> SUFFICES ASSUME NEW g \in Handlers, call'[g] = call[g]
             PROVE  CallAdmitted(call[g])'
  OBVIOUS
<1>1. call[g].pc # "idle" => call[g].for.asked \in Nat
  BY CallFields DEF Inv, TypeInv
<1>2. CallAdmitted(call[g])
  BY DEF AdmissionInv
<1> QED BY <1>1, <1>2, CallsStay DEF CallAdmitted

LEMMA CallMoves ==
  ASSUME Inv, AdmissionInv, Next, NEW h \in Handlers, NEW c, call' = [call EXCEPT ![h] = c],
         CallAdmitted(c), c.pc # "idle" => c.for.asked \in Nat
  PROVE  \A g \in Handlers : CallAdmitted(call[g])'
<1> SUFFICES ASSUME NEW g \in Handlers
             PROVE  CallAdmitted(call[g])'
  OBVIOUS
<1>1. (g = h /\ call'[g] = c) \/ call'[g] = call[g]
  BY DEF Inv, TypeInv, CallsOK
<1>2. CallAdmitted(c)'
  BY CallsStay
<1> QED BY <1>1, <1>2, OthersAdmitted DEF CallAdmitted

LEMMA RunStays ==
  ASSUME Inv, AdmissionInv, Next, NEW r \in RunIds,
         HasRow(r)' => HasRow(r), job'[r] # "none" => job[r] # "none", source'[r] = source[r]
  PROVE  RunAdmitted(r)'
<1>1. RunAdmitted(r)
  BY DEF AdmissionInv
<1>2. HasRow(r) => origin'[r] = origin[r]
  BY RowsStay
<1>3. job[r] # "none" => HasRow(r)
  BY DEF Inv, RunsProgress, Progress
<1>4. job[r] # "none" => HasArtifact(origin[r].req, source[r])'
  <2> SUFFICES ASSUME job[r] # "none"
               PROVE  HasArtifact(origin[r].req, source[r])'
    OBVIOUS
  <2> DEFINE q == origin[r].req
             s == source[r]
  <2>1. HasArtifact(q, s)
    BY <1>1 DEF RunAdmitted
  <2>2. origin[r].req' = q /\ source[r]' = s
    BY <1>2, <1>3
  <2> QED BY <2>1, <2>2, ArtifactsStay DEF HasArtifact
<1> QED BY <1>1, <1>2, <1>3, <1>4 DEF RunAdmitted, AllChecked, PlanChecked

LEMMA IdleAdmitted ==
  ASSUME NEW code
  PROVE  CallAdmitted(Idle(code)) /\ Idle(code).pc = "idle"
BY DEF CallAdmitted, Idle, Owning

\* A reader of tables: the call is refused or goes on with what it has checked.
LEMMA ReadingAdmits ==
  ASSUME Inv, AdmissionInv, Next, NEW h \in Handlers,
         \/ GetIdempotencyKey(h) \/ ReplayRun(h) \/ ValidatePlan(h) \/ ValidatePreflight(h)
         \/ FindArtifact(h) \/ SaveIdempotencyKey(h) \/ AppendQueuedEvent(h) \/ CallRaises(h)
  PROVE  AdmissionInv'
<1> DEFINE o == call[h].for
           q == call[h].for.req
<1>1. call[h].pc # "idle"
  BY DEF GetIdempotencyKey, ReplayRun, ValidatePlan, ValidatePreflight, FindArtifact,
         SaveIdempotencyKey, AppendQueuedEvent, CallRaises, At
<1>2. o \in Origins /\ o.asked \in Nat /\ o.asked <= now /\ now \in Nat /\ CallAdmitted(call[h])
  BY <1>1, CallFields DEF Inv, TypeInv, CallsOK, RestOK, AdmissionInv, CallAdmitted
<1>3. UNCHANGED <<status, origin, job, source>>
  BY DEF GetIdempotencyKey, ReplayRun, ValidatePlan, ValidatePreflight, FindArtifact,
         SaveIdempotencyKey, AppendQueuedEvent, CallRaises, rows, threads
<1>4. \A r \in RunIds : RunAdmitted(r)'
  BY <1>3, RunStays DEF HasRow
<1>5. ASSUME NEW code, call' = [call EXCEPT ![h] = Idle(code)]
      PROVE  AdmissionInv'
  BY <1>4, <1>5, IdleAdmitted, CallMoves DEF AdmissionInv
<1>6. ASSUME NEW p \in CallPositions, NEW r, NEW s, Proceed(h, p, r, s),
             p = "preflight" => PlanChecked(o),
             p \in {"artifact", "save_run"} => AllChecked(o),
             p \in {"save_run"} \cup Owning => HasArtifact(q, s)
      PROVE  AdmissionInv'
  <2> DEFINE c == [pc |-> p, for |-> o, run |-> r, source |-> s, code |-> "NONE"]
  <2>1. c.pc = p /\ c.for = o /\ c.source = s /\ call' = [call EXCEPT ![h] = c]
    BY <1>6 DEF Proceed
  <2> HIDE DEF c
  <2>2. CallAdmitted(c)
    BY <1>2, <1>6, <2>1 DEF CallAdmitted
  <2> QED BY <1>2, <1>4, <2>1, <2>2, CallMoves DEF AdmissionInv
<1>7. CASE GetIdempotencyKey(h)
  BY <1>5, <1>6, <1>7 DEF GetIdempotencyKey, GoTo, ReplyError, CallPositions, Owning
<1>8. CASE ReplayRun(h) \/ CallRaises(h)
  BY <1>5, <1>8 DEF ReplayRun, CallRaises, ReplyRun, ReplyError
<1>9. CASE ValidatePlan(h)
  <2> DEFINE code == IF q.tool = "start_run" THEN RunPlanCheck(q, now) ELSE WorkflowPlanCheck(q, now)
  <2>1. CASE code = "OK"
    BY <1>2, <1>6, <1>9, <2>1, PlanLetThrough DEF ValidatePlan, GoTo, CallPositions, Owning
  <2>2. CASE code # "OK"
    BY <1>5, <1>9, <2>2 DEF ValidatePlan, ReplyError
  <2> QED BY <2>1, <2>2
<1>10. CASE ValidatePreflight(h)
  <2>1. PICK ready \in BOOLEAN :
          LET code == IF q.tool = "start_run" THEN RunPreflightCheck(q, now, ready)
                                              ELSE WorkflowPreflightCheck(q, now, ready)
          IN IF code # "OK" THEN ReplyError(h, code)
             ELSE IF ArtifactNeeded(PlanOf[q.plan].scope) = {}
                  THEN GoTo(h, "save_run") ELSE GoTo(h, "artifact")
    BY <1>10 DEF ValidatePreflight
  <2> DEFINE code == IF q.tool = "start_run" THEN RunPreflightCheck(q, now, ready)
                                             ELSE WorkflowPreflightCheck(q, now, ready)
  <2>2. CASE code = "OK"
    <3>1. PlanChecked(o)
      BY <1>2, <1>10 DEF CallAdmitted, ValidatePreflight, At
    <3>2. AllChecked(o)
      BY <1>2, <2>2, <3>1, PreflightLetThrough
    <3>3. CASE ArtifactNeeded(PlanOf[q.plan].scope) = {} /\ GoTo(h, "save_run")
      <4>1. HasArtifact(q, call[h].source)
        BY <3>3 DEF HasArtifact
      <4> QED BY <1>6, <3>2, <3>3, <4>1 DEF GoTo, CallPositions
    <3>4. CASE GoTo(h, "artifact")
      BY <1>6, <3>2, <3>4 DEF GoTo, CallPositions, Owning
    <3> QED BY <2>1, <2>2, <3>3, <3>4
  <2>3. CASE code # "OK"
    BY <1>5, <2>1, <2>3 DEF ReplyError
  <2> QED BY <2>2, <2>3
<1>11. CASE FindArtifact(h)
  <2>1. PICK component \in ArtifactNeeded(PlanOf[q.plan].scope) :
          \/ ReplyError(h, "ARTIFACT_REQUIRED")
          \/ \E s \in SucceededRuns(q.digest, component) : Proceed(h, "save_run", None, s)
    BY <1>11 DEF FindArtifact
  <2>2. \A other \in ArtifactNeeded(PlanOf[q.plan].scope) : other = component
    BY DEF ArtifactNeeded
  <2>3. \A s \in SucceededRuns(q.digest, component) : HasArtifact(q, s)
    BY <2>2 DEF HasArtifact
  <2>4. AllChecked(o)
    BY <1>2, <1>11 DEF CallAdmitted, FindArtifact, At
  <2>5. \A s \in SucceededRuns(q.digest, component) :
          Proceed(h, "save_run", None, s) => AdmissionInv'
    BY <1>6, <2>3, <2>4 DEF CallPositions
  <2> QED BY <1>5, <2>1, <2>5 DEF ReplyError
<1>12. CASE SaveIdempotencyKey(h) \/ AppendQueuedEvent(h)
  <2>1. HasArtifact(q, call[h].source)
    BY <1>2, <1>12 DEF CallAdmitted, SaveIdempotencyKey, AppendQueuedEvent, At, Owning
  <2>2. \/ \E p \in {"append_event", "submit"} : GoTo(h, p)
        \/ ReplyError(h, "EXCEPTION")
    BY <1>12 DEF SaveIdempotencyKey, AppendQueuedEvent
  <2> QED BY <1>5, <1>6, <2>1, <2>2 DEF GoTo, ReplyError, CallPositions, Owning
<1> QED BY <1>7, <1>8, <1>9, <1>10, <1>11, <1>12

\* The new run is the one the call has checked.
LEMMA SaveRunAdmits ==
  ASSUME Inv, AdmissionInv, Next, NEW h \in Handlers, SaveRun(h)
  PROVE  AdmissionInv'
<1> DEFINE o == call[h].for
<1>1. PICK r \in RunIds : /\ ~HasRow(r)
                          /\ status' = [status EXCEPT ![r] = "QUEUED"]
                          /\ origin' = [origin EXCEPT ![r] = o]
                          /\ Proceed(h, "save_key", r, call[h].source)
  BY DEF SaveRun
<1>2. call[h].pc = "save_run" /\ UNCHANGED <<job, source>>
  BY DEF SaveRun, At, threads
<1>3. CallAdmitted(call[h]) /\ o.asked \in Nat
  BY <1>2, CallFields DEF AdmissionInv, Inv, TypeInv
<1>4. status \in [RunIds -> States] /\ origin \in [RunIds -> Origins \cup {None}]
  BY DEF Inv, TypeInv, RowsOK
<1>5. \A g \in Handlers : CallAdmitted(call[g])'
  <2> DEFINE c == [pc |-> "save_key", for |-> o, run |-> r, source |-> call[h].source, code |-> "NONE"]
  <2>1. c.pc = "save_key" /\ c.for = o /\ c.source = call[h].source /\ call' = [call EXCEPT ![h] = c]
    BY <1>1 DEF Proceed
  <2> HIDE DEF c
  <2>2. CallAdmitted(c)
    BY <1>2, <1>3, <2>1 DEF CallAdmitted, Owning
  <2> QED BY <1>3, <2>1, <2>2, CallMoves
<1>6. ASSUME NEW s \in RunIds
      PROVE  RunAdmitted(s)'
  <2>1. CASE s # r
    <3>1. HasRow(s)' => HasRow(s)
      BY <1>1, <1>4, <2>1 DEF HasRow
    <3> QED BY <1>2, <3>1, RunStays
  <2>2. CASE s = r
    <3>1. job[r] = "none"
      BY <1>1 DEF Inv, RunsProgress, Progress
    <3>2. AllChecked(o)
      BY <1>2, <1>3 DEF CallAdmitted
    <3>3. origin'[r] = o /\ job'[r] = "none"
      BY <1>1, <1>2, <1>4, <3>1
    <3> QED BY <2>2, <3>2, <3>3 DEF RunAdmitted, AllChecked, PlanChecked
  <2> QED BY <2>1, <2>2
<1> QED BY <1>5, <1>6 DEF AdmissionInv

\* The thread takes over the artifact the call has found.
LEMMA SubmitAdmits ==
  ASSUME Inv, AdmissionInv, Next, NEW h \in Handlers, Submit(h)
  PROVE  AdmissionInv'
<1> DEFINE r == call[h].run
           q == call[h].for.req
           s == call[h].source
<1>1. /\ call[h].pc = "submit" /\ job' = [job EXCEPT ![r] = "starting"]
      /\ source' = [source EXCEPT ![r] = s] /\ call' = [call EXCEPT ![h] = Idle("OK")]
      /\ UNCHANGED <<status, origin>>
  BY DEF Submit, At, ReplyRun, rows
<1>2. r \in RunIds /\ HasRow(r) /\ origin[r] = call[h].for
  BY <1>1 DEF Inv, TypeInv, CallsOK, CallsOwn, Owning
<1>3. job \in [RunIds -> JobPositions] /\ source \in [RunIds -> RunIds \cup {None}]
  BY DEF Inv, TypeInv, ThreadsOK
<1>4. \A g \in Handlers : CallAdmitted(call[g])'
  BY <1>1, IdleAdmitted, CallMoves
<1>5. ASSUME NEW t \in RunIds
      PROVE  RunAdmitted(t)'
  <2>1. CASE t # r
    BY <1>1, <1>3, <2>1, RunStays DEF HasRow
  <2>2. CASE t = r
    <3>1. HasArtifact(q, s) /\ AllChecked(origin[r])
      BY <1>1, <1>2 DEF AdmissionInv, CallAdmitted, RunAdmitted, Owning
    <3>2. PICK x, y : x = q /\ y = s
      OBVIOUS
    <3>3. HasArtifact(x, y)'
      BY <3>1, <3>2, ArtifactsStay
    <3>4. origin'[t].req = x /\ source'[t] = y
      BY <1>1, <1>2, <1>3, <2>2, <3>2
    <3>5. HasArtifact(origin[t].req, source[t])'
      BY <3>3, <3>4 DEF HasArtifact
    <3> QED BY <1>1, <2>2, <3>1, <3>5 DEF RunAdmitted, AllChecked, PlanChecked
  <2> QED BY <2>1, <2>2
<1> QED BY <1>4, <1>5 DEF AdmissionInv

LEMMA NextAdmits ==
  ASSUME Inv, AdmissionInv, Next
  PROVE  AdmissionInv'
<1>1. ASSUME NEW h \in Handlers, NEW k \in Keys, NEW q \in Requests, Receive(h, k, q)
      PROVE  AdmissionInv'
  <2> DEFINE c == [pc |-> "lookup", for |-> [key |-> k, req |-> q, asked |-> now],
                   run |-> None, source |-> None, code |-> "NONE"]
  <2>1. c.pc = "lookup" /\ c.for.asked = now /\ call' = [call EXCEPT ![h] = c]
    BY <1>1 DEF Receive
  <2> HIDE DEF c
  <2>2. now \in Nat
    BY DEF Inv, TypeInv, RestOK
  <2>3. CallAdmitted(c)
    BY <2>1, <2>2 DEF CallAdmitted, Owning
  <2>4. UNCHANGED <<status, origin, job, source>>
    BY <1>1 DEF Receive, rows, threads
  <2>5. \A r \in RunIds : RunAdmitted(r)'
    BY <2>4, RunStays DEF HasRow
  <2> QED BY <2>1, <2>2, <2>3, <2>5, CallMoves DEF AdmissionInv
<1>2. ASSUME UNCHANGED <<call, origin, source>>,
             \A r \in RunIds : (HasRow(r)' => HasRow(r)) /\ (job'[r] # "none" => job[r] # "none")
      PROVE  AdmissionInv'
  BY <1>2, OthersAdmitted, RunStays DEF AdmissionInv
<1>3. ASSUME NEW r \in RunIds, JobStep(r) \/ JobRaises(r)
      PROVE  AdmissionInv'
  <2>1. UNCHANGED <<call, origin, source>>
    BY <1>3 DEF JobStep, JobRaises, MarkStarted, LogStarted, BeginExecute, EndExecute, Complete,
                LogEnd, rows
  <2>2. status \in [RunIds -> States] /\ job \in [RunIds -> JobPositions]
    BY DEF Inv, TypeInv, RowsOK, ThreadsOK
  <2>3. job[r] # "none" /\ HasRow(r)
    BY <1>3 DEF JobStep, JobRaises, MarkStarted, LogStarted, BeginExecute, EndExecute, Complete,
                LogEnd, JobAt, Inv, RunsProgress, Progress
  <2>4. \A s \in RunIds \ {r} : status'[s] = status[s] /\ job'[s] = job[s]
    BY <1>3, <2>2 DEF JobStep, JobRaises, MarkStarted, LogStarted, BeginExecute, EndExecute,
                      Complete, LogEnd, JobTo, rows
  <2> QED BY <1>2, <2>1, <2>3, <2>4 DEF HasRow
<1>4. CASE Tick
  BY <1>2, <1>4 DEF Tick, rows, threads, HasRow
<1>5. CASE Crash
  <2>1. \A g \in Handlers : call'[g] = Idle("NONE")
    BY <1>5 DEF Crash
  <2>2. \A g \in Handlers : CallAdmitted(call[g])'
    BY <2>1, IdleAdmitted DEF CallAdmitted, Idle, Owning
  <2>3. UNCHANGED <<status, origin, source>> /\ \A r \in RunIds : job'[r] # "none" => job[r] # "none"
    BY <1>5 DEF Crash, rows
  <2>4. \A r \in RunIds : RunAdmitted(r)'
    BY <2>3, RunStays DEF HasRow
  <2> QED BY <2>2, <2>4 DEF AdmissionInv
<1> QED
  BY <1>1, <1>3, <1>4, <1>5, ReadingAdmits, SaveRunAdmits, SubmitAdmits DEF Next, CallStep

\* The checks and artifacts of calls and runs, for ever.
LEMMA Admission == Spec => []AdmissionInv
<1>1. Init => AdmissionInv
  BY IdleAdmitted DEF Init, AdmissionInv, RunAdmitted, HasRow
<1>2. Inv /\ AdmissionInv /\ UNCHANGED vars => AdmissionInv'
  <2> SUFFICES ASSUME AdmissionInv, UNCHANGED <<now, status, origin, call, job, source>>
               PROVE  AdmissionInv'
    BY DEF vars
  <2>1. \A d, component : SucceededRuns(d, component)' = SucceededRuns(d, component)
    BY DEF SucceededRuns, DigestOf, ScopeOf
  <2>2. \A q, s : HasArtifact(q, s)' <=> HasArtifact(q, s)
    BY <2>1 DEF HasArtifact
  <2>3. \A h \in Handlers : CallAdmitted(call[h])'
    <3> SUFFICES ASSUME NEW h \in Handlers
                 PROVE  CallAdmitted(call[h])'
      OBVIOUS
    <3>1. CallAdmitted(call[h])
      BY DEF AdmissionInv
    <3>2. HasArtifact(call[h].for.req, call[h].source)' <=> HasArtifact(call[h].for.req, call[h].source)
      BY <2>2 DEF HasArtifact
    <3> QED BY <3>1, <3>2 DEF CallAdmitted, AllChecked, PlanChecked
  <2>4. \A r \in RunIds : RunAdmitted(r)'
    <3> SUFFICES ASSUME NEW r \in RunIds
                 PROVE  RunAdmitted(r)'
      OBVIOUS
    <3>1. RunAdmitted(r)
      BY DEF AdmissionInv
    <3>2. HasArtifact(origin[r].req, source[r])' <=> HasArtifact(origin[r].req, source[r])
      BY <2>2 DEF HasArtifact
    <3> QED BY <3>1, <3>2 DEF RunAdmitted, AllChecked, PlanChecked, HasRow
  <2> QED BY <2>3, <2>4 DEF AdmissionInv
<1>3. Inv /\ AdmissionInv /\ [Next]_vars => AdmissionInv'
  BY <1>2, NextAdmits
<1> QED BY <1>1, <1>3, Invariant, PTL DEF Spec

\* Whatever has a row was approved by its own plan's text, for its digest and scope, with
\* a PASSED preflight of that plan (service.py:475-560, 640-740).
THEOREM OnlyApprovedRuns == Spec => []RunsAreApproved
<1>1. AdmissionInv => RunsAreApproved
  BY DEF AdmissionInv, RunAdmitted, AllChecked, PlanChecked, RunsAreApproved
<1> QED BY <1>1, Admission, PTL

\* No call that arrives once its plan or preflight has expired creates a run, however
\* long the call takes.
THEOREM NeverAdmittedLate == Spec => []NoLateAdmission
<1>1. AdmissionInv => NoLateAdmission
  BY DEF AdmissionInv, RunAdmitted, AllChecked, PlanChecked, NoLateAdmission
<1> QED BY <1>1, Admission, PTL

\* What a run is executed with is the artifact of a run of its configuration that has
\* succeeded (latest_succeeded_component_run).
THEOREM ArtifactAlwaysThere == Spec => []ArtifactIsThere
<1>1. Inv /\ AdmissionInv => ArtifactIsThere
  <2> SUFFICES ASSUME Inv, AdmissionInv, NEW r \in RunIds, executions[r] > 0,
                      NEW component \in ArtifactNeeded(ScopeOf(r))
               PROVE  source[r] # None /\ source[r] \in SucceededRuns(DigestOf(r), component)
    BY DEF ArtifactIsThere
  <2>1. job[r] # "none"
    BY DEF Inv, RunsProgress, Progress
  <2>2. source[r] \in SucceededRuns(DigestOf(r), component)
    BY <2>1 DEF AdmissionInv, RunAdmitted, HasArtifact, ScopeOf, DigestOf
  <2> QED BY <2>2, NoneIsNothing DEF SucceededRuns
<1> QED BY <1>1, Admission, Invariant, PTL

-----------------------------------------------------------------------------
(* The steps to an end.                                                    *)

\* A key's run has ended, or has a thread that is under way, or is about to be
\* submitted by the call that created it.
OnItsWay(r) ==
  \/ status[r] \in Terminal
  \/ job[r] \notin {"none", "done", "dead"}
  \/ \E h \in Handlers : call[h].pc \in {"append_event", "submit"} /\ call[h].run = r

\* Unless a store call raises or the process stops, nobody drops a run that a key
\* names, and so none a client was told of.
NoRunIsDropped ==
  faults = 0 /\ crashes = 0 =>
    /\ \A k \in Keys : keys[k] # None => OnItsWay(keys[k].run)
    /\ \A a \in acked : OnItsWay(a.run)

\* How many steps a call and a run's thread have to take, at most.
CallStepsOf ==
  [idle |-> 0, replay |-> 1, submit |-> 2, append_event |-> 3, save_key |-> 4, save_run |-> 5,
   artifact |-> 6, preflight |-> 7, plan |-> 8, lookup |-> 9]
JobStepsOf ==
  [done |-> 0, dead |-> 0, log_end |-> 1, failed |-> 2, succeeded |-> 2, executing |-> 3,
   ready |-> 4, log_started |-> 5, starting |-> 6, none |-> 7]
CallLeft(h) == CallStepsOf[call[h].pc]
JobLeft(r) == JobStepsOf[job[r]]

\* Whatever the others do, each step of a call and of a thread brings it nearer to its
\* end, and nothing but a client's next call takes it back.
StepsRunOut ==
  [][/\ \A h \in Handlers : /\ CallStep(h) \/ CallRaises(h) => CallLeft(h)' < CallLeft(h)
                            /\ CallLeft(h)' <= CallLeft(h) \/ At(h, "idle")
     /\ \A r \in RunIds : /\ JobStep(r) \/ JobRaises(r) => JobLeft(r)' < JobLeft(r)
                          /\ JobLeft(r)' <= JobLeft(r)]_vars

LEMMA CallStepsAre ==
  /\ CallStepsOf["idle"] = 0 /\ CallStepsOf["replay"] = 1 /\ CallStepsOf["submit"] = 2
  /\ CallStepsOf["append_event"] = 3 /\ CallStepsOf["save_key"] = 4
  /\ CallStepsOf["save_run"] = 5 /\ CallStepsOf["artifact"] = 6
  /\ CallStepsOf["preflight"] = 7 /\ CallStepsOf["plan"] = 8 /\ CallStepsOf["lookup"] = 9
BY DEF CallStepsOf

LEMMA JobStepsAre ==
  /\ JobStepsOf["done"] = 0 /\ JobStepsOf["dead"] = 0 /\ JobStepsOf["log_end"] = 1
  /\ JobStepsOf["failed"] = 2 /\ JobStepsOf["succeeded"] = 2 /\ JobStepsOf["executing"] = 3
  /\ JobStepsOf["ready"] = 4 /\ JobStepsOf["log_started"] = 5 /\ JobStepsOf["starting"] = 6
  /\ JobStepsOf["none"] = 7
BY DEF JobStepsOf

LEMMA StepNumbers ==
  /\ \A p \in CallPositions : CallStepsOf[p] \in Nat /\ (p # "idle" => CallStepsOf[p] > 0)
  /\ \A p \in JobPositions : JobStepsOf[p] \in Nat
BY CallStepsAre, JobStepsAre DEF CallPositions, JobPositions

\* A step of one call to a later position.
LEMMA OneCallMoves ==
  ASSUME CallsOK, NEW h \in Handlers, NEW c, call' = [call EXCEPT ![h] = c],
         CallStepsOf[c.pc] < CallStepsOf[call[h].pc]
  PROVE  /\ CallLeft(h)' < CallLeft(h)
         /\ \A g \in Handlers \ {h} : CallLeft(g)' = CallLeft(g)
BY DEF CallsOK, CallLeft

\* The steps of a call.
LEMMA CallMovesOn ==
  ASSUME Inv, NEW h \in Handlers, CallStep(h) \/ CallRaises(h)
  PROVE  /\ CallLeft(h)' < CallLeft(h)
         /\ \A g \in Handlers \ {h} : CallLeft(g)' = CallLeft(g)
<1> DEFINE Moves == /\ CallLeft(h)' < CallLeft(h)
                    /\ \A g \in Handlers \ {h} : CallLeft(g)' = CallLeft(g)
<1>1. CallsOK /\ call[h].pc \in CallPositions
  BY DEF Inv, TypeInv, CallsOK, Calls
<1>2. call[h].pc # "idle"
  BY DEF CallStep, CallRaises, GetIdempotencyKey, ReplayRun, ValidatePlan, ValidatePreflight,
         FindArtifact, SaveRun, SaveIdempotencyKey, AppendQueuedEvent, Submit, At
<1>3. ASSUME NEW code, call' = [call EXCEPT ![h] = Idle(code)] PROVE Moves
  <2>1. Idle(code).pc = "idle" BY DEF Idle
  <2>2. CallStepsOf[Idle(code).pc] < CallStepsOf[call[h].pc]
    BY <1>1, <1>2, <2>1, StepNumbers, CallStepsAre
  <2> HIDE DEF Moves
  <2> QED BY <1>1, <1>3, <2>2, OneCallMoves DEF Moves
<1>4. ASSUME NEW p, NEW r, NEW s, Proceed(h, p, r, s), CallStepsOf[p] < CallStepsOf[call[h].pc]
      PROVE  Moves
  <2> DEFINE c == [pc |-> p, for |-> call[h].for, run |-> r, source |-> s, code |-> "NONE"]
  <2>1. call' = [call EXCEPT ![h] = c] BY <1>4 DEF Proceed
  <2>2. c.pc = p OBVIOUS
  <2> HIDE DEF c, Moves
  <2> QED BY <1>1, <1>4, <2>1, <2>2, OneCallMoves DEF Moves
<1> USE CallStepsAre DEF At, GoTo, ReplyError, ReplyRun
<1>5. CASE GetIdempotencyKey(h) BY <1>3, <1>4, <1>5 DEF GetIdempotencyKey
<1>6. CASE ReplayRun(h) BY <1>3, <1>6 DEF ReplayRun
<1>7. CASE ValidatePlan(h) BY <1>3, <1>4, <1>7 DEF ValidatePlan
<1>8. CASE ValidatePreflight(h) BY <1>3, <1>4, <1>8 DEF ValidatePreflight
<1>9. CASE FindArtifact(h) BY <1>3, <1>4, <1>9 DEF FindArtifact
<1>10. CASE SaveRun(h) BY <1>4, <1>10 DEF SaveRun
<1>11. CASE SaveIdempotencyKey(h) BY <1>3, <1>4, <1>11 DEF SaveIdempotencyKey
<1>12. CASE AppendQueuedEvent(h) BY <1>4, <1>12 DEF AppendQueuedEvent
<1>13. CASE Submit(h) BY <1>3, <1>13 DEF Submit
<1>14. CASE CallRaises(h) BY <1>3, <1>14 DEF CallRaises
<1> QED
  BY <1>5, <1>6, <1>7, <1>8, <1>9, <1>10, <1>11, <1>12, <1>13, <1>14 DEF CallStep

\* The steps of a run's thread.
LEMMA JobMovesOn ==
  ASSUME Inv, NEW r \in RunIds, JobStep(r) \/ JobRaises(r)
  PROVE  /\ JobLeft(r)' < JobLeft(r)
         /\ \A s \in RunIds \ {r} : JobLeft(s)' = JobLeft(s)
         /\ UNCHANGED call
<1>1. job \in [RunIds -> JobPositions]
  BY DEF Inv, TypeInv, ThreadsOK
<1>2. /\ job'[r] # job[r] /\ UNCHANGED call
      /\ \E p \in JobPositions : job' = [job EXCEPT ![r] = p] /\ JobStepsOf[p] < JobStepsOf[job[r]]
  BY <1>1, JobStepsAre
     DEF JobStep, JobRaises, MarkStarted, LogStarted, BeginExecute, EndExecute, Complete, LogEnd,
         JobAt, JobTo, JobPositions
<1> QED BY <1>1, <1>2 DEF JobLeft

\* So calls answer and threads end once they are scheduled (service.py:462-806,
\* executor.py:83-130).
THEOREM CallsAndThreadsRunOut == Spec => StepsRunOut
<1> DEFINE Fewer ==
     /\ \A h \in Handlers : /\ CallStep(h) \/ CallRaises(h) => CallLeft(h)' < CallLeft(h)
                            /\ CallLeft(h)' <= CallLeft(h) \/ At(h, "idle")
     /\ \A r \in RunIds : /\ JobStep(r) \/ JobRaises(r) => JobLeft(r)' < JobLeft(r)
                          /\ JobLeft(r)' <= JobLeft(r)
<1>1. Inv /\ Inv' /\ [Next]_vars => [Fewer]_vars
  <2> SUFFICES ASSUME Inv, Inv', [Next]_vars PROVE Fewer
    OBVIOUS
  <2>1. /\ \A h \in Handlers : CallLeft(h) \in Nat /\ CallLeft(h)' \in Nat
        /\ \A r \in RunIds : JobLeft(r) \in Nat /\ JobLeft(r)' \in Nat
    BY StepNumbers DEF Inv, TypeInv, CallsOK, Calls, ThreadsOK, CallLeft, JobLeft
  <2>2. \A h \in Handlers : CallStep(h) \/ CallRaises(h) => CallLeft(h)' < CallLeft(h)
    BY CallMovesOn
  <2>3. \A r \in RunIds : JobStep(r) \/ JobRaises(r) => JobLeft(r)' < JobLeft(r)
    BY JobMovesOn
  <2>4. \A h \in Handlers : CallLeft(h)' <= CallLeft(h) \/ At(h, "idle")
    <3>1. CASE \E h \in Handlers : CallStep(h) \/ CallRaises(h)
      BY <2>1, <3>1, CallMovesOn
    <3>2. CASE \E h \in Handlers, k \in Keys, q \in Requests : Receive(h, k, q)
      BY <2>1, <3>2 DEF Receive, CallLeft, Inv, TypeInv, CallsOK
    <3>3. CASE \E r \in RunIds : JobStep(r) \/ JobRaises(r)
      <4>1. UNCHANGED call BY <3>3, JobMovesOn
      <4> QED BY <2>1, <4>1 DEF CallLeft
    <3>4. CASE Tick \/ UNCHANGED vars
      BY <2>1, <3>4 DEF Tick, vars, CallLeft
    <3>5. CASE Crash
      BY <2>1, <3>5, CallStepsAre DEF Crash, CallLeft, Idle
    <3> QED BY <3>1, <3>2, <3>3, <3>4, <3>5 DEF Next
  <2>5. \A r \in RunIds : JobLeft(r)' <= JobLeft(r)
    <3>1. CASE \E r \in RunIds : JobStep(r) \/ JobRaises(r)
      BY <2>1, <3>1, JobMovesOn
    <3>2. CASE UNCHANGED job
      BY <2>1, <3>2 DEF JobLeft
    <3>3. CASE \E h \in Handlers : Submit(h)
      <4> PICK h \in Handlers : Submit(h)
        BY <3>3
      <4>1. job' = [job EXCEPT ![call[h].run] = "starting"]
        BY DEF Submit
      <4>2. job[call[h].run] = "none" /\ call[h].run \in RunIds
        BY DEF Submit, At, Inv, CallsOwn, TypeInv, CallsOK, Owning
      <4> QED BY <2>1, <4>1, <4>2, JobStepsAre DEF JobLeft, Inv, TypeInv, ThreadsOK
    <3>4. CASE Crash
      BY <2>1, <3>4, JobStepsAre DEF Crash, JobLeft
    <3> QED BY <3>1, <3>2, <3>3, <3>4
        DEF Next, CallStep, CallRaises, Receive, GetIdempotencyKey, ReplayRun, ValidatePlan,
            ValidatePreflight, FindArtifact, SaveRun, SaveIdempotencyKey, AppendQueuedEvent, Tick,
            threads, vars
  <2> QED BY <2>2, <2>3, <2>4, <2>5
<1> HIDE DEF Fewer
<1>2. Spec => [][Fewer]_vars
  BY <1>1, Invariant, PTL DEF Spec
<1> QED BY <1>2 DEF StepsRunOut, Fewer

\* NoRunIsDropped, from the key on.
Kept ==
  faults = 0 /\ crashes = 0 =>
    \A k \in Keys, r \in RunIds : keys[k] # None /\ keys[k].run = r => OnItsWay(r)

\* A step that raises nothing and stops nothing keeps a run on its way.
LEMMA StaysOnItsWay ==
  ASSUME Inv, Inv', [Next]_vars, NEW r \in RunIds, OnItsWay(r), faults' = faults,
         crashes' = crashes
  PROVE  OnItsWay(r)'
<1>1. /\ call \in [Handlers -> Calls] /\ job \in [RunIds -> JobPositions]
      /\ status \in [RunIds -> States] /\ faults \in Nat /\ crashes \in Nat
  BY Bounds DEF Inv, TypeInv, CallsOK, ThreadsOK, RowsOK, RestOK
<1>2. ~Crash /\ \A h \in Handlers : ~CallRaises(h)
  BY <1>1 DEF Crash, CallRaises
<1>3. \A s \in RunIds : ~JobRaises(s)
  BY <1>1 DEF JobRaises
<1>4. CASE UNCHANGED <<status, job, call>>
  BY <1>4 DEF OnItsWay
<1>5. ASSUME NEW s \in RunIds, JobStep(s) PROVE OnItsWay(r)'
  <2>1. UNCHANGED call /\ \A q \in RunIds \ {s} : job'[q] = job[q] /\ status'[q] = status[q]
    BY <1>1, <1>5
       DEF JobStep, MarkStarted, LogStarted, BeginExecute, EndExecute, Complete, LogEnd, JobTo, rows
  <2>2. job'[s] \notin {"none", "done", "dead"} \/ status'[s] \in Terminal
    BY <1>1, <1>5
       DEF JobStep, MarkStarted, LogStarted, BeginExecute, EndExecute, Complete, LogEnd, JobTo,
           JobAt, rows, Inv, TypeInv, RowsOK
  <2> QED BY <2>1, <2>2 DEF OnItsWay
<1>6. ASSUME NEW h \in Handlers, Submit(h) PROVE OnItsWay(r)'
  <2>1. /\ call[h].run \in RunIds /\ job' = [job EXCEPT ![call[h].run] = "starting"]
        /\ call' = [call EXCEPT ![h] = Idle("OK")] /\ UNCHANGED status
    BY <1>6 DEF Submit, ReplyRun, At, Inv, TypeInv, CallsOK, Owning, rows
  <2>2. CASE r = call[h].run
    BY <1>1, <2>1, <2>2 DEF OnItsWay
  <2>3. CASE r # call[h].run
    BY <1>1, <2>1, <2>3 DEF OnItsWay
  <2> QED BY <2>2, <2>3
<1>7. ASSUME NEW h \in Handlers, AppendQueuedEvent(h) PROVE OnItsWay(r)'
  <2> DEFINE c == [pc |-> "submit", for |-> call[h].for, run |-> call[h].run,
                   source |-> call[h].source, code |-> "NONE"]
  <2>1. call' = [call EXCEPT ![h] = c] /\ UNCHANGED <<status, job>>
    BY <1>7 DEF AppendQueuedEvent, GoTo, Proceed, threads
  <2>2. c.pc = "submit" /\ c.run = call[h].run OBVIOUS
  <2> HIDE DEF c
  <2> QED BY <1>1, <2>1, <2>2 DEF OnItsWay
<1>8. ASSUME NEW h \in Handlers, NEW c, call' = [call EXCEPT ![h] = c],
             call[h].pc \notin {"append_event", "submit"}, UNCHANGED job,
             \A s \in RunIds : status'[s] = status[s] \/ status[s] \notin Terminal
      PROVE  OnItsWay(r)'
  BY <1>1, <1>8 DEF OnItsWay
<1>9. ASSUME NEW h \in Handlers,
             GetIdempotencyKey(h) \/ ReplayRun(h) \/ ValidatePlan(h) \/ ValidatePreflight(h)
               \/ FindArtifact(h) \/ SaveIdempotencyKey(h) \/ SaveRun(h)
               \/ \E k \in Keys, q \in Requests : Receive(h, k, q)
      PROVE  OnItsWay(r)'
  <2>1. UNCHANGED job /\ call[h].pc \notin {"append_event", "submit"}
    BY <1>9 DEF GetIdempotencyKey, ReplayRun, ValidatePlan, ValidatePreflight, FindArtifact,
                SaveIdempotencyKey, SaveRun, Receive, At, threads
  <2>2. \A s \in RunIds : status'[s] = status[s] \/ status[s] \notin Terminal
    BY <1>1, <1>9 DEF GetIdempotencyKey, ReplayRun, ValidatePlan, ValidatePreflight, FindArtifact,
                SaveIdempotencyKey, SaveRun, Receive, rows, HasRow, Terminal
  <2>3. \E c : call' = [call EXCEPT ![h] = c]
    BY <1>9 DEF GetIdempotencyKey, ReplayRun, ValidatePlan, ValidatePreflight, FindArtifact,
                SaveIdempotencyKey, SaveRun, Receive, GoTo, Proceed, ReplyError, ReplyRun
  <2> QED BY <2>1, <2>2, <2>3, <1>8
<1>10. CASE Tick \/ UNCHANGED vars
  BY <1>4, <1>10 DEF Tick, vars, rows, threads
<1> QED BY <1>2, <1>3, <1>5, <1>6, <1>7, <1>9, <1>10 DEF Next, CallStep

LEMMA NextKept ==
  ASSUME Inv, Inv', Kept, [Next]_vars
  PROVE  Kept'
<1> SUFFICES ASSUME faults' = 0, crashes' = 0, NEW k \in Keys, NEW r \in RunIds,
                    keys'[k] # None, keys'[k].run = r
             PROVE  OnItsWay(r)'
  BY DEF Kept
<1>1. faults = 0 /\ crashes = 0
  <2>1. faults \in Nat /\ crashes \in Nat
    BY Bounds DEF Inv, TypeInv, RestOK
  <2>2. CASE UNCHANGED limits
    BY <2>2 DEF limits
  <2>3. CASE Crash \/ (\E h \in Handlers : CallRaises(h)) \/ \E s \in RunIds : JobRaises(s)
    BY <2>1, <2>3 DEF Crash, CallRaises, JobRaises
  <2>4. ASSUME NEW h \in Handlers, CallStep(h) PROVE UNCHANGED limits
    BY <2>4 DEF CallStep, GetIdempotencyKey, ReplayRun, ValidatePlan, ValidatePreflight, FindArtifact,
           SaveRun, SaveIdempotencyKey, AppendQueuedEvent, Submit
  <2>5. ASSUME NEW s \in RunIds, JobStep(s) PROVE UNCHANGED limits
    BY <2>5 DEF JobStep, MarkStarted, LogStarted, BeginExecute, EndExecute, Complete, LogEnd
  <2>6. CASE Tick \/ UNCHANGED vars \/ \E h \in Handlers, x \in Keys, q \in Requests : Receive(h, x, q)
    BY <2>2, <2>6 DEF Tick, Receive, vars, limits
  <2> QED BY <2>2, <2>3, <2>4, <2>5, <2>6 DEF Next
<1>2. CASE keys'[k] = keys[k]
  <2>1. OnItsWay(r)
    BY <1>1, <1>2 DEF Kept
  <2> QED BY <1>1, <2>1, StaysOnItsWay
<1>3. CASE keys'[k] # keys[k]
  <2>1. PICK h \in Handlers : SaveIdempotencyKey(h)
    BY <1>3 DEF Next, CallStep, CallRaises, Receive, GetIdempotencyKey, ReplayRun,
          ValidatePlan, ValidatePreflight, FindArtifact, SaveRun, AppendQueuedEvent, Submit,
          JobStep, MarkStarted, LogStarted, BeginExecute, EndExecute, Complete, LogEnd, JobRaises,
          Tick, Crash, rows, vars
  <2>2. /\ keys' = [keys EXCEPT ![call[h].for.key] = [req |-> call[h].for.req, run |-> call[h].run]]
        /\ GoTo(h, "append_event")
    BY <1>3, <2>1 DEF SaveIdempotencyKey
  <2>3. r = call[h].run
    BY <1>3, <2>2 DEF Inv, TypeInv, RowsOK
  <2> DEFINE c == [pc |-> "append_event", for |-> call[h].for, run |-> call[h].run,
                   source |-> call[h].source, code |-> "NONE"]
  <2>4. call' = [call EXCEPT ![h] = c] /\ call \in [Handlers -> Calls]
    BY <2>2 DEF GoTo, Proceed, Inv, TypeInv, CallsOK
  <2>5. c.pc = "append_event" /\ c.run = call[h].run
    OBVIOUS
  <2> HIDE DEF c
  <2> QED BY <2>3, <2>4, <2>5 DEF OnItsWay
<1> QED BY <1>2, <1>3

\* So a client that polls the run it was told of sees its end, once the threads have run
\* (service.py:785-806, executor.py:83-130).
THEOREM NothingIsDropped == Spec => []NoRunIsDropped
<1>1. Init => Kept
  BY DEF Init, Kept
<1>2. Inv /\ Inv' /\ Kept /\ [Next]_vars => Kept'
  BY NextKept
<1>3. Inv /\ Kept => NoRunIsDropped
  <2> SUFFICES ASSUME Inv, Kept, faults = 0, crashes = 0, NEW a \in acked
               PROVE  OnItsWay(a.run)
    BY DEF Kept, NoRunIsDropped, Inv, TypeInv, RowsOK
  <2>1. a.key \in Keys /\ a.req \in Requests /\ a.run \in RunIds
    BY DEF Inv, TypeInv, RestOK
  <2>2. keys[a.key] = [req |-> a.req, run |-> a.run] /\ keys[a.key] # None
    BY <2>1, NoneIsNothing DEF Inv, KeysBind
  <2>3. keys[a.key].run = a.run
    BY <2>2
  <2> QED BY <2>1, <2>2, <2>3 DEF Kept
<1> QED BY <1>1, <1>2, <1>3, Invariant, PTL DEF Spec
=============================================================================
