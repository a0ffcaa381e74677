-------------------------- MODULE SupervisorProofs --------------------------
(***************************************************************************)
(* Theorems about Supervisor (and with it Process), for any configuration  *)
(* and any bounds: what holds however many callers and restart goroutines  *)
(* there are, what holds while at most two of them are inside the API, and *)
(* what holds while one is.                                                *)
(***************************************************************************)
EXTENDS Supervisor, TLAPS, FiniteSetTheorems

(* A monitor goroutine that waits has a Cmd to wait for. *)
WaitsForCmd == \A a \in Attempts : mon[a].pc = "wait" => mon[a].cmd # 0

TypeInv == TypeOK /\ WaitsForCmd

-----------------------------------------------------------------------------
(* What the helpers of Process do to the types *)

(* An operation that returns, or fails, leaves a well-typed goroutine. *)
LEMMA IdleType ==
  /\ Idle \in ThreadType
  /\ [Idle EXCEPT !.pc = "failed"] \in ThreadType
  /\ [Idle EXCEPT !.pc = "restarted"] \in ThreadType
  /\ [Idle EXCEPT !.pc = "stop", !.restarting = TRUE] \in ThreadType
<1>1. Idle \in ThreadType
  BY ProcessAssumption DEF Idle, ThreadType, PC, Ref
<1>2. QED
  BY <1>1 DEF ThreadType, PC

LEMMA ReturnType ==
  ASSUME go \in [Threads -> ThreadType], NEW t \in Threads,
         Return(t) \/ ReturnErr(t) \/ StopReturn(t)
  PROVE  go' \in [Threads -> ThreadType]
<1> HIDE DEF ThreadType
<1> QED BY IdleType DEF Return, ReturnErr, StopReturn

LEMMA GotoType ==
  ASSUME go \in [Threads -> ThreadType], NEW t \in Threads, NEW label \in PC,
         Goto(t, label)
  PROVE  go' \in [Threads -> ThreadType]
  BY DEF Goto, ThreadType

(* Capturing a reference under the lock *)
LEMMA CaptureType ==
  ASSUME NEW f \in ThreadType, NEW label \in PC, NEW a \in Ref, NEW c \in Ref
  PROVE  /\ [f EXCEPT !.pc = label, !.att = a] \in ThreadType
         /\ [f EXCEPT !.pc = label, !.ch = c] \in ThreadType
         /\ [f EXCEPT !.pc = label, !.att = a, !.ch = c] \in ThreadType
  BY DEF ThreadType

LEMMA FaultType ==
  ASSUME faults \in 0 .. MaxFaults, Fault PROVE faults' \in 0 .. MaxFaults
  BY ProcessAssumption DEF Fault

LEMMA WithType ==
  ASSUME NEW set \in SUBSET Attempts, NEW ref PROVE With(set, ref) \subseteq Attempts
  BY DEF With

LEMMA ChildType ==
  ASSUME child \in [Attempts -> ChildState], NEW a
  PROVE  /\ Killed(a) \in [Attempts -> ChildState]
         /\ Signalled(a) \in [Attempts -> ChildState]
         /\ \A s \in ChildState : [child EXCEPT ![a] = s] \in [Attempts -> ChildState]
  BY DEF Killed, Signalled, ChildState

(* Updates of the struct *)
LEMMA StateType ==
  ASSUME NEW q \in ProcessType, NEW s \in States PROVE [q EXCEPT !.State = s] \in ProcessType
  BY DEF ProcessType

LEMMA StateFields ==
  ASSUME p \in ProcessType
  PROVE  /\ p.State \in States /\ p.Cmd \in Ref /\ p.waitCh \in Ref
         /\ p.monitorDone \in Ref /\ p.startCancel \in Ref
         /\ p.healthCheckCancel \in Ref /\ p.StartRetries \in Nat
         /\ p.healthCheckFailures \in Nat
  BY DEF ProcessType

-----------------------------------------------------------------------------
(* NewProcess establishes the types. *)
LEMMA InitTypeInv == Init => TypeInv
<1> SUFFICES ASSUME Init PROVE TypeInv
  OBVIOUS
<1>1. p \in ProcessType
  BY ProcessAssumption DEF Init, InitProcess, ProcessType, States, Ref
<1>2. go \in [Threads -> ThreadType]
  BY ProcessAssumption DEF Init, Idle, ThreadType, PC, Ref
<1>3. mon \in [Attempts -> MonitorType] /\ WaitsForCmd
  BY ProcessAssumption DEF Init, MonitorType, WaitsForCmd, Ref
<1>4. /\ hc \in [Attempts -> HealthType]
      /\ child \in [Attempts -> ChildState]
      /\ code \in [Attempts -> Codes \cup {-1, 0}]
  BY DEF Init, HealthType, ChildState
<1>5. attempts \in Ref /\ calls \in 0 .. MaxCalls /\ faults \in 0 .. MaxFaults
  BY ProcessAssumption DEF Init, Ref
<1>6. QED
  BY <1>1, <1>2, <1>3, <1>4, <1>5 DEF Init, TypeInv, TypeOK

(* Start() keeps the types. *)
LEMMA StartEnterType ==
  ASSUME TypeInv, NEW t \in Threads, StartEnter(t) PROVE TypeInv'
<1>1. go' \in [Threads -> ThreadType]
  <2>1. CASE ReturnErr(t)
    BY <2>1, ReturnType DEF TypeInv, TypeOK
  <2>2. CASE go' = [go EXCEPT ![t] = [@ EXCEPT !.pc = "awaitMonitor", !.ch = p.monitorDone]]
    <3> DEFINE r == [go[t] EXCEPT !.pc = "awaitMonitor", !.ch = p.monitorDone]
    <3>1. go \in [Threads -> ThreadType] /\ go[t] \in ThreadType
      BY DEF TypeInv, TypeOK
    <3>2. r \in ThreadType
      BY <3>1, StateFields DEF TypeInv, TypeOK, ThreadType, PC
    <3>3. go' = [go EXCEPT ![t] = r]
      BY <2>2
    <3> HIDE DEF r
    <3>4. QED
      BY <3>1, <3>2, <3>3
  <2>3. QED
    BY <2>1, <2>2 DEF StartEnter
<1>2. ctxDone' \subseteq Attempts
  BY DEF TypeInv, TypeOK, StartEnter, With
<1>3. QED
  BY <1>1, <1>2 DEF TypeInv, TypeOK, WaitsForCmd, StartEnter

LEMMA StartReserveType ==
  ASSUME TypeInv, NEW t \in Threads, StartReserve(t) PROVE TypeInv'
<1>1. CASE p.State \in {"RUNNING", "STARTING", "STOPPING"}
  <2>1. go' \in [Threads -> ThreadType]
    BY <1>1, ReturnType DEF TypeInv, TypeOK, StartReserve
  <2>2. QED
    BY <1>1, <2>1 DEF TypeInv, TypeOK, WaitsForCmd, StartReserve
<1>2. CASE p.State \notin {"RUNNING", "STARTING", "STOPPING"}
  <2>1. attempts + 1 \in Ref /\ 0 \in Ref /\ p.StartRetries + 1 \in Nat
    BY <1>2, ProcessAssumption, StateFields DEF TypeInv, TypeOK, StartReserve, Ref
  <2>2. ASSUME NEW s \in States, NEW c \in Ref, NEW n \in Nat, NEW r \in Ref
        PROVE  [p EXCEPT !.State = s, !.Cmd = c, !.StartRetries = n, !.Healthy = FALSE,
                         !.healthCheckFailures = 0, !.startCancel = r] \in ProcessType
    BY DEF TypeInv, TypeOK, ProcessType
  <2>3. p' \in ProcessType
    <3>1. PICK s \in {"STARTING", "EXITED"} :
            p' = [p EXCEPT !.State = s, !.Cmd = 0, !.StartRetries = @ + 1,
                           !.Healthy = FALSE, !.healthCheckFailures = 0,
                           !.startCancel = attempts + 1]
      BY <1>2 DEF StartReserve
    <3>2. s \in States
      BY DEF States
    <3>3. QED
      BY <2>1, <2>2, <3>1, <3>2
  <2>4. go' \in [Threads -> ThreadType]
    <3>1. go[t] \in ThreadType /\ "spawn" \in PC
      BY DEF TypeInv, TypeOK, PC
    <3>2. [go[t] EXCEPT !.pc = "spawn", !.att = attempts + 1] \in ThreadType
      BY <3>1, <2>1, CaptureType
    <3>3. QED
      BY <1>2, <3>2, ReturnType DEF TypeInv, TypeOK, StartReserve
  <2>5. attempts' \in Ref /\ faults' \in 0 .. MaxFaults
    BY <1>2, <2>1, FaultType DEF TypeInv, TypeOK, StartReserve
  <2>6. QED
    BY <2>3, <2>4, <2>5 DEF TypeInv, TypeOK, WaitsForCmd, StartReserve
<1>3. QED
  BY <1>1, <1>2

LEMMA StartSpawnType ==
  ASSUME TypeInv, NEW t \in Threads, StartSpawn(t) PROVE TypeInv'
<1>1. child' \in [Attempts -> ChildState]
  BY ChildType DEF TypeInv, TypeOK, StartSpawn, ChildState
<1>2. go' \in [Threads -> ThreadType]
  BY GotoType, ReturnType DEF TypeInv, TypeOK, StartSpawn, PC
<1>3. p' \in ProcessType /\ faults' \in 0 .. MaxFaults
  BY StateType, FaultType DEF TypeInv, TypeOK, StartSpawn, States
<1>4. QED
  BY <1>1, <1>2, <1>3 DEF TypeInv, TypeOK, WaitsForCmd, StartSpawn

LEMMA StartPublishType ==
  ASSUME TypeInv, NEW t \in Threads, StartPublish(t) PROVE TypeInv'
<1>1. child' \in [Attempts -> ChildState]
  BY ChildType DEF TypeInv, TypeOK, StartPublish
<1>2. go' \in [Threads -> ThreadType]
  BY GotoType, ReturnType DEF TypeInv, TypeOK, StartPublish, PC
<1>3. p' \in ProcessType
  <2>1. ASSUME NEW a \in Ref
        PROVE  [p EXCEPT !.waitCh = a, !.monitorDone = a, !.Cmd = a,
                         !.State = "RUNNING"] \in ProcessType
    BY DEF TypeInv, TypeOK, ProcessType, States
  <2>2. go[t].att \in Ref
    BY DEF TypeInv, TypeOK, ThreadType
  <2>3. QED
    BY <2>1, <2>2 DEF TypeInv, TypeOK, StartPublish
<1>4. QED
  BY <1>1, <1>2, <1>3 DEF TypeInv, TypeOK, WaitsForCmd, StartPublish

LEMMA StartLaunchType ==
  ASSUME TypeInv, NEW t \in Threads, StartLaunch(t) PROVE TypeInv'
<1>1. go' \in [Threads -> ThreadType]
  BY GotoType, ReturnType DEF TypeInv, TypeOK, StartLaunch, PC
<1>2. mon' \in [Attempts -> MonitorType] /\ WaitsForCmd'
  BY DEF TypeInv, TypeOK, WaitsForCmd, StartLaunch, MonitorType
<1>3. QED
  BY <1>1, <1>2 DEF TypeInv, TypeOK, StartLaunch

LEMMA StartHealthCheckType ==
  ASSUME TypeInv, NEW t \in Threads, StartHealthCheck(t) PROVE TypeInv'
<1>1. go' \in [Threads -> ThreadType]
  BY ReturnType DEF TypeInv, TypeOK, StartHealthCheck
<1>2. p' \in ProcessType
  BY DEF TypeInv, TypeOK, StartHealthCheck, ProcessType, ThreadType
<1>3. hc' \in [Attempts -> HealthType] /\ hcDone' \subseteq Attempts
  BY WithType DEF TypeInv, TypeOK, StartHealthCheck, HealthType
<1>4. QED
  BY <1>1, <1>2, <1>3 DEF TypeInv, TypeOK, WaitsForCmd, StartHealthCheck

(* Stop() keeps the types. *)
LEMMA StopEnterType ==
  ASSUME TypeInv, NEW t \in Threads, StopEnter(t) PROVE TypeInv'
<1>1. p' \in ProcessType
  BY StateType DEF TypeInv, TypeOK, StopEnter, States
<1>2. go' \in [Threads -> ThreadType]
  <2>1. CASE StopReturn(t)
    BY <2>1, ReturnType DEF TypeInv, TypeOK
  <2>2. CASE go' = [go EXCEPT ![t] = [@ EXCEPT !.pc = "signal", !.att = p.Cmd,
                                                !.ch = p.waitCh]]
    <3> DEFINE r == [go[t] EXCEPT !.pc = "signal", !.att = p.Cmd, !.ch = p.waitCh]
    <3>1. go \in [Threads -> ThreadType] /\ go[t] \in ThreadType
      BY DEF TypeInv, TypeOK
    <3>2. r \in ThreadType
      BY <3>1, StateFields DEF TypeInv, TypeOK, ThreadType, PC
    <3>3. go' = [go EXCEPT ![t] = r]
      BY <2>2
    <3> HIDE DEF r
    <3>4. QED
      BY <3>1, <3>2, <3>3
  <2>3. QED
    BY <2>1, <2>2 DEF StopEnter
<1>3. QED
  BY <1>1, <1>2 DEF TypeInv, TypeOK, WaitsForCmd, StopEnter

LEMMA StopSignalType ==
  ASSUME TypeInv, NEW t \in Threads, StopSignal(t) PROVE TypeInv'
<1>1. go' \in [Threads -> ThreadType]
  BY GotoType DEF TypeInv, TypeOK, StopSignal, PC
<1>2. child' \in [Attempts -> ChildState]
  BY ChildType DEF TypeInv, TypeOK, StopSignal
<1>3. QED
  BY <1>1, <1>2 DEF TypeInv, TypeOK, WaitsForCmd, StopSignal

LEMMA StopGraceType ==
  ASSUME TypeInv, NEW t \in Threads, StopGrace(t) PROVE TypeInv'
<1>1. go' \in [Threads -> ThreadType]
  BY GotoType, ReturnType DEF TypeInv, TypeOK, StopGrace, PC
<1>2. QED
  BY <1>1 DEF TypeInv, TypeOK, WaitsForCmd, StopGrace

LEMMA StopRecheckType ==
  ASSUME TypeInv, NEW t \in Threads, StopRecheck(t) PROVE TypeInv'
<1>1. go' \in [Threads -> ThreadType]
  BY GotoType, ReturnType DEF TypeInv, TypeOK, StopRecheck, PC
<1>2. QED
  BY <1>1 DEF TypeInv, TypeOK, WaitsForCmd, StopRecheck

LEMMA StopKillType ==
  ASSUME TypeInv, NEW t \in Threads, StopKill(t) PROVE TypeInv'
<1>1. go' \in [Threads -> ThreadType]
  BY GotoType DEF TypeInv, TypeOK, StopKill, PC
<1>2. child' \in [Attempts -> ChildState]
  BY ChildType DEF TypeInv, TypeOK, StopKill
<1>3. QED
  BY <1>1, <1>2 DEF TypeInv, TypeOK, WaitsForCmd, StopKill

LEMMA StopKillWaitType ==
  ASSUME TypeInv, NEW t \in Threads, StopKillWait(t) PROVE TypeInv'
<1>1. go' \in [Threads -> ThreadType]
  BY GotoType, ReturnType DEF TypeInv, TypeOK, StopKillWait, PC
<1>2. QED
  BY <1>1 DEF TypeInv, TypeOK, WaitsForCmd, StopKillWait

LEMMA StopDoneType ==
  ASSUME TypeInv, NEW t \in Threads, StopDone(t) PROVE TypeInv'
<1>1. go' \in [Threads -> ThreadType]
  BY ReturnType DEF TypeInv, TypeOK, StopDone
<1>2. hcDone' \subseteq Attempts /\ ctxDone' \subseteq Attempts
  BY WithType DEF TypeInv, TypeOK, StopDone
<1>3. p' \in ProcessType
  <2>1. ASSUME NEW s \in States, NEW c \in Ref
        PROVE  [p EXCEPT !.State = s, !.Cmd = c] \in ProcessType
    BY DEF TypeInv, TypeOK, ProcessType
  <2>2. (IF p.State = "STOPPING" THEN "STOPPED" ELSE p.State) \in States /\ 0 \in Ref
    BY StateFields, ProcessAssumption DEF TypeInv, TypeOK, States, Ref
  <2>3. QED
    BY <2>1, <2>2 DEF StopDone
<1>4. QED
  BY <1>1, <1>2, <1>3 DEF TypeInv, TypeOK, WaitsForCmd, StopDone

(* Restart() keeps the types. *)
LEMMA RestartEnterType ==
  ASSUME TypeInv, NEW t \in Threads, RestartEnter(t) PROVE TypeInv'
<1>1. p' \in ProcessType
  <2>1. p' = p \/ p' = [p EXCEPT !.State = IF @ = "RUNNING" THEN "STOPPING" ELSE @]
    BY DEF RestartEnter
  <2>2. (IF p.State = "RUNNING" THEN "STOPPING" ELSE p.State) \in States
    BY StateFields DEF TypeInv, TypeOK, States
  <2>3. QED
    BY <2>1, <2>2, StateType DEF TypeInv, TypeOK
<1>2. go' \in [Threads -> ThreadType]
  <2>1. CASE Return(t) \/ ReturnErr(t)
    BY <2>1, ReturnType DEF TypeInv, TypeOK
  <2>2. CASE go' = [go EXCEPT ![t] = [Idle EXCEPT !.pc = "stop", !.restarting = TRUE]]
    BY <2>2, IdleType DEF TypeInv, TypeOK
  <2>3. QED
    BY <2>1, <2>2 DEF RestartEnter
<1>3. QED
  BY <1>1, <1>2 DEF TypeInv, TypeOK, WaitsForCmd, RestartEnter

LEMMA RestartStartType ==
  ASSUME TypeInv, NEW t \in Threads, RestartStart(t) PROVE TypeInv'
<1>1. go' \in [Threads -> ThreadType]
  BY GotoType, ReturnType DEF TypeInv, TypeOK, RestartStart, PC
<1>2. QED
  BY <1>1 DEF TypeInv, TypeOK, WaitsForCmd, RestartStart

(* monitor() keeps the types. *)
LEMMA CloseDoneType ==
  ASSUME TypeInv, NEW a \in Attempts, NEW ch, CloseDone(a, ch)
  PROVE  /\ closed' \subseteq Attempts
         /\ panicked' \in BOOLEAN
         /\ mon' \in [Attempts -> MonitorType]
         /\ WaitsForCmd'
<1>1. closed' \subseteq Attempts /\ panicked' \in BOOLEAN
  BY WithType DEF TypeInv, TypeOK, CloseDone
<1>2. mon' \in [Attempts -> MonitorType] /\ WaitsForCmd'
  BY DEF TypeInv, TypeOK, WaitsForCmd, CloseDone, MonitorType
<1>3. QED
  BY <1>1, <1>2

LEMMA MonitorEnterType ==
  ASSUME TypeInv, NEW a \in Attempts, MonitorEnter(a) PROVE TypeInv'
<1>1. CASE p.Cmd = 0
  BY <1>1, CloseDoneType DEF TypeInv, TypeOK, MonitorEnter
<1>2. CASE p.Cmd # 0
  <2>1. mon' = [mon EXCEPT ![a] = [@ EXCEPT !.pc = "wait", !.done = p.monitorDone,
                                            !.cmd = p.Cmd]]
    BY <1>2 DEF MonitorEnter
  <2>2. mon' \in [Attempts -> MonitorType] /\ WaitsForCmd'
    BY <1>2, <2>1, StateFields DEF TypeInv, TypeOK, WaitsForCmd, MonitorType
  <2>3. QED
    BY <1>2, <2>2 DEF TypeInv, TypeOK, MonitorEnter
<1>3. QED
  BY <1>1, <1>2

LEMMA MonitorWaitType ==
  ASSUME TypeInv, NEW a \in Attempts, MonitorWait(a) PROVE TypeInv'
<1>1. mon[a].cmd \in Attempts
  BY DEF TypeInv, TypeOK, WaitsForCmd, MonitorWait, MonitorType, Ref, Attempts
<1>2. child' \in [Attempts -> ChildState] /\ ctxDone' \subseteq Attempts
  BY ChildType, WithType DEF TypeInv, TypeOK, MonitorWait, ChildState
<1>3. mon' \in [Attempts -> MonitorType] /\ WaitsForCmd'
  <2>1. PICK x \in Codes \cup {-1, 0} :
          mon' = [mon EXCEPT ![a] = [@ EXCEPT !.pc = "record", !.exitCode = x]]
    BY <1>1 DEF TypeInv, TypeOK, MonitorWait
  <2>2. QED
    BY <2>1 DEF TypeInv, TypeOK, WaitsForCmd, MonitorType
<1>4. QED
  BY <1>2, <1>3 DEF TypeInv, TypeOK, MonitorWait

LEMMA MonitorRecordType ==
  ASSUME TypeInv, NEW a \in Attempts, MonitorRecord(a) PROVE TypeInv'
<1>1. p' \in ProcessType
  <2>1. ASSUME NEW s \in States, NEW c \in Ref, NEW x \in Codes \cup {-1, 0}
        PROVE  [p EXCEPT !.waitCh = c, !.ExitCode = x, !.State = s] \in ProcessType
    BY DEF TypeInv, TypeOK, ProcessType
  <2>2. /\ (IF p.State = "STOPPING" THEN p.State ELSE "EXITED") \in States
        /\ 0 \in Ref /\ mon[a].exitCode \in Codes \cup {-1, 0}
    BY StateFields, ProcessAssumption DEF TypeInv, TypeOK, States, Ref, MonitorType
  <2>3. QED
    BY <2>1, <2>2 DEF MonitorRecord
<1>2. exited' \subseteq Attempts
  BY WithType DEF TypeInv, TypeOK, MonitorRecord
<1>3. mon' \in [Attempts -> MonitorType] /\ WaitsForCmd'
  BY DEF TypeInv, TypeOK, WaitsForCmd, MonitorRecord, MonitorType
<1>4. QED
  BY <1>1, <1>2, <1>3 DEF TypeInv, TypeOK, MonitorRecord

LEMMA MonitorEndType ==
  ASSUME TypeInv, NEW a \in Attempts, MonitorEnd(a) PROVE TypeInv'
  BY CloseDoneType DEF TypeInv, TypeOK, MonitorEnd

(* runHealthCheck() keeps the types. *)
LEMMA HealthTickType ==
  ASSUME TypeInv, NEW a \in Attempts, HealthTick(a) PROVE TypeInv'
<1>1. hc' \in [Attempts -> HealthType]
  BY DEF TypeInv, TypeOK, HealthTick, HealthType
<1>2. QED
  BY <1>1 DEF TypeInv, TypeOK, WaitsForCmd, HealthTick

LEMMA HealthResultType ==
  ASSUME TypeInv, NEW a \in Attempts, HealthResult(a) PROVE TypeInv'
<1>1. hc' \in [Attempts -> HealthType]
  BY DEF TypeInv, TypeOK, HealthResult, HealthType
<1>2. faults' \in 0 .. MaxFaults
  BY FaultType DEF TypeInv, TypeOK, HealthResult
<1>3. p' \in ProcessType
  <2>1. CASE p' = p
    BY <2>1 DEF TypeInv, TypeOK
  <2>2. CASE p' = [p EXCEPT !.healthCheckFailures = 0, !.Healthy = TRUE,
                            !.healthCheckRestartFired = FALSE]
    BY <2>2 DEF TypeInv, TypeOK, ProcessType
  <2>3. CASE p' = [p EXCEPT !.healthCheckFailures = @ + 1,
                     !.Healthy = @ /\ p.healthCheckFailures + 1 < UnhealthyThreshold]
    <3>1. ASSUME NEW n \in Nat, NEW b \in BOOLEAN
          PROVE  [p EXCEPT !.healthCheckFailures = n, !.Healthy = b] \in ProcessType
      BY DEF TypeInv, TypeOK, ProcessType
    <3>2. /\ p.healthCheckFailures + 1 \in Nat
          /\ (p.Healthy /\ p.healthCheckFailures + 1 < UnhealthyThreshold) \in BOOLEAN
      BY StateFields DEF TypeInv, TypeOK
    <3>3. QED
      BY <2>3, <3>1, <3>2
  <2>4. QED
    BY <2>1, <2>2, <2>3 DEF HealthResult
<1>4. QED
  BY <1>1, <1>2, <1>3 DEF TypeInv, TypeOK, WaitsForCmd, HealthResult

(* The environment keeps the types. *)
LEMMA CallType ==
  ASSUME TypeInv, NEW t \in Operators, NEW op \in {"start", "stop", "restart"}, Call(t, op)
  PROVE  TypeInv'
<1>1. t \in Threads /\ op \in PC
  BY DEF Threads, PC
<1>2. go' \in [Threads -> ThreadType]
  BY <1>1, GotoType DEF TypeInv, TypeOK, Call
<1>3. calls' \in 0 .. MaxCalls
  BY ProcessAssumption DEF TypeInv, TypeOK, Call
<1>4. QED
  BY <1>2, <1>3 DEF TypeInv, TypeOK, WaitsForCmd, Call

LEMMA ChildExitType ==
  ASSUME TypeInv, NEW a \in Attempts, ChildExit(a) PROVE TypeInv'
<1>1. child' \in [Attempts -> ChildState]
  BY ChildType DEF TypeInv, TypeOK, ChildExit, ChildState
<1>2. code' \in [Attempts -> Codes \cup {-1, 0}]
  BY DEF TypeInv, TypeOK, ChildExit
<1>3. faults' \in 0 .. MaxFaults
  BY FaultType DEF TypeInv, TypeOK, ChildExit
<1>4. QED
  BY <1>1, <1>2, <1>3 DEF TypeInv, TypeOK, WaitsForCmd, ChildExit

LEMMA ContextKillType ==
  ASSUME TypeInv, NEW a \in Attempts, ContextKill(a) PROVE TypeInv'
<1>1. child' \in [Attempts -> ChildState]
  BY ChildType DEF TypeInv, TypeOK, ContextKill, ChildState
<1>2. QED
  BY <1>1 DEF TypeInv, TypeOK, WaitsForCmd, ContextKill

(* The monitor loop and its restart goroutines keep the types. *)
LEMMA WorkerThreads == Loop \in Threads /\ Restarters \subseteq Threads
  BY SupervisorAssumption DEF Threads

LEMMA LoopTickType == ASSUME TypeInv, LoopTick PROVE TypeInv'
<1>1. go' \in [Threads -> ThreadType]
  BY GotoType, WorkerThreads DEF TypeInv, TypeOK, LoopTick, PC
<1>2. QED
  BY <1>1 DEF TypeInv, TypeOK, WaitsForCmd, LoopTick

LEMMA HandleExitedType == ASSUME TypeInv, HandleExited PROVE TypeInv'
<1>1. ASSUME NEW s \in States, NEW n \in Nat
      PROVE  [p EXCEPT !.State = s, !.StartRetries = n] \in ProcessType
  BY DEF TypeInv, TypeOK, ProcessType
<1>2. p' \in ProcessType
  <2>1. (IF p.ExitCode \in ExitCodes THEN 0 ELSE p.StartRetries) \in Nat
    BY StateFields DEF TypeInv, TypeOK
  <2>2. "FATAL" \in States /\ "STARTING" \in States
    BY DEF States
  <2>3. \/ p' = p
        \/ p' = [p EXCEPT !.State = "FATAL"]
        \/ \E s \in {"FATAL", "STARTING"} :
             p' = [p EXCEPT !.State = s,
                     !.StartRetries = IF p.ExitCode \in ExitCodes THEN 0 ELSE p.StartRetries]
    BY DEF HandleExited
  <2>4. p \in ProcessType
    BY DEF TypeInv, TypeOK
  <2>5. CASE p' = p \/ p' = [p EXCEPT !.State = "FATAL"]
    BY <2>2, <2>4, <2>5, StateType
  <2>6. CASE \E s \in {"FATAL", "STARTING"} :
               p' = [p EXCEPT !.State = s,
                       !.StartRetries = IF p.ExitCode \in ExitCodes THEN 0 ELSE p.StartRetries]
    <3> HIDE DEF ProcessType
    <3>1. PICK s \in {"FATAL", "STARTING"} :
               p' = [p EXCEPT !.State = s,
                       !.StartRetries = IF p.ExitCode \in ExitCodes THEN 0 ELSE p.StartRetries]
      BY <2>6
    <3>2. s \in States
      BY <2>2
    <3>3. QED
      BY <1>1, <2>1, <3>1, <3>2
  <2>7. QED
    BY <2>3, <2>5, <2>6
<1>3. go' \in [Threads -> ThreadType]
  <2>1. CASE Return(Loop)
    BY <2>1, ReturnType, WorkerThreads DEF TypeInv, TypeOK
  <2>2. CASE \E r \in Restarters : go' = [go EXCEPT ![Loop] = Idle, ![r].pc = "asleep"]
    <3>1. PICK r \in Restarters : go' = [go EXCEPT ![Loop] = Idle, ![r].pc = "asleep"]
      BY <2>2
    <3>2. [go EXCEPT ![Loop] = Idle] \in [Threads -> ThreadType]
      BY IdleType, WorkerThreads DEF TypeInv, TypeOK
    <3>3. QED
      BY <3>1, <3>2, WorkerThreads DEF ThreadType, PC
  <2>3. QED
    BY <2>1, <2>2 DEF HandleExited
<1>4. QED
  BY <1>2, <1>3 DEF TypeInv, TypeOK, WaitsForCmd, HandleExited

LEMMA RestarterWakeType ==
  ASSUME TypeInv, NEW r \in Restarters, RestarterWake(r) PROVE TypeInv'
<1>1. go' \in [Threads -> ThreadType]
  BY GotoType, ReturnType, WorkerThreads DEF TypeInv, TypeOK, RestarterWake, PC
<1>2. p' \in ProcessType
  BY DEF TypeInv, TypeOK, RestarterWake, ProcessType, States
<1>3. QED
  BY <1>1, <1>2 DEF TypeInv, TypeOK, WaitsForCmd, RestarterWake

LEMMA RestarterRecheckType ==
  ASSUME TypeInv, NEW r \in Restarters, RestarterRecheck(r) PROVE TypeInv'
<1>1. go' \in [Threads -> ThreadType]
  BY GotoType, ReturnType, WorkerThreads DEF TypeInv, TypeOK, RestarterRecheck, PC
<1>2. QED
  BY <1>1 DEF TypeInv, TypeOK, WaitsForCmd, RestarterRecheck

LEMMA RestarterFailedType ==
  ASSUME TypeInv, NEW r \in Restarters, RestarterFailed(r) PROVE TypeInv'
<1>1. go' \in [Threads -> ThreadType]
  BY ReturnType, WorkerThreads DEF TypeInv, TypeOK, RestarterFailed
<1>2. p' \in ProcessType
  BY StateType DEF TypeInv, TypeOK, RestarterFailed, States
<1>3. QED
  BY <1>1, <1>2 DEF TypeInv, TypeOK, WaitsForCmd, RestarterFailed

LEMMA CheckRunningType == ASSUME TypeInv, CheckRunning PROVE TypeInv'
<1>1. go' \in [Threads -> ThreadType]
  BY GotoType, ReturnType, WorkerThreads DEF TypeInv, TypeOK, CheckRunning, PC
<1>2. p' \in ProcessType
  <2>1. CASE p' = p
    BY <2>1 DEF TypeInv, TypeOK
  <2>2. CASE p' # p
    <3>1. PICK n \in {0, p.StartRetries}, b \in BOOLEAN :
            p' = [p EXCEPT !.StartRetries = n, !.healthCheckRestartFired = b]
      BY <2>2 DEF CheckRunning
    <3>2. n \in Nat
      BY StateFields DEF TypeInv, TypeOK
    <3>3. QED
      BY <3>1, <3>2 DEF TypeInv, TypeOK, ProcessType
  <2>3. QED
    BY <2>1, <2>2
<1>3. QED
  BY <1>1, <1>2 DEF TypeInv, TypeOK, WaitsForCmd, CheckRunning

LEMMA LoopFailedType == ASSUME TypeInv, LoopFailed PROVE TypeInv'
<1>1. go' \in [Threads -> ThreadType]
  BY ReturnType, WorkerThreads DEF TypeInv, TypeOK, LoopFailed
<1>2. p' \in ProcessType
  BY StateType DEF TypeInv, TypeOK, LoopFailed, States
<1>3. QED
  BY <1>1, <1>2 DEF TypeInv, TypeOK, WaitsForCmd, LoopFailed

-----------------------------------------------------------------------------
(* Every step of process.go and monitor.go keeps the types. *)
LEMMA NextTypeInv == TypeInv /\ [Next]_vars => TypeInv'
<1> SUFFICES ASSUME TypeInv, [Next]_vars PROVE TypeInv'
  OBVIOUS
<1>1. ASSUME NEW t \in Threads, Operation(t) PROVE TypeInv'
  BY <1>1, StartEnterType, StartReserveType, StartSpawnType, StartPublishType,
     StartLaunchType, StartHealthCheckType, StopEnterType, StopSignalType,
     StopGraceType, StopRecheckType, StopKillType, StopKillWaitType, StopDoneType,
     RestartEnterType, RestartStartType
  DEF Operation, Start, Stop, Restart
<1>2. ASSUME NEW a \in Attempts,
             MonitorStep(a) \/ HealthStep(a) \/ ChildExit(a) \/ ContextKill(a)
      PROVE  TypeInv'
  BY <1>2, MonitorEnterType, MonitorWaitType, MonitorRecordType, MonitorEndType,
     HealthTickType, HealthResultType, ChildExitType, ContextKillType
  DEF MonitorStep, HealthStep
<1>3. CASE LoopStep
  BY <1>3, LoopTickType, HandleExitedType, CheckRunningType, LoopFailedType DEF LoopStep
<1>4. ASSUME NEW r \in Restarters, RestarterStep(r) PROVE TypeInv'
  BY <1>4, RestarterWakeType, RestarterRecheckType, RestarterFailedType DEF RestarterStep
<1>5. CASE UNCHANGED vars
  BY <1>5 DEF TypeInv, TypeOK, WaitsForCmd, vars
<1>6. QED
  BY <1>1, <1>2, <1>3, <1>4, <1>5, CallType DEF Next, ProcessNext

(* Type correctness: the struct, the goroutines and the children stay within
   their types, for every configuration, bound and number of callers. *)
THEOREM TypeCorrect == Spec => []TypeOK
<1>1. TypeInv => TypeOK
  BY DEF TypeInv
<1>2. QED
  BY InitTypeInv, NextTypeInv, <1>1, PTL DEF Spec

-----------------------------------------------------------------------------
(***************************************************************************)
(* waitCh is closed once. WaitChClosedOnce is not inductive: publishing a  *)
(* channel must not bring back a closed one, so the induction also says    *)
(* that an attempt still in the hands of its Start is in nobody else's     *)
(* hands, is not the published channel and is not closed, and that nothing *)
(* refers to an attempt that is not open yet.                              *)
(***************************************************************************)
InHand(t) == go[t].pc \in {"spawn", "publish"}

ChannelInv ==
    /\ WaitChClosedOnce
    /\ p.waitCh <= attempts
    /\ \A a \in exited : a <= attempts
    /\ \A t \in Threads : InHand(t) =>
         /\ go[t].att \in 1 .. attempts
         /\ go[t].att \notin exited
         /\ go[t].att # p.waitCh
    /\ \A t, u \in Threads : InHand(t) /\ InHand(u) /\ t # u => go[t].att # go[u].att

LEMMA InitChannelInv == Init => ChannelInv
  BY DEF Init, InitProcess, Idle, ChannelInv, WaitChClosedOnce, InHand

(* A step that touches neither the channel nor the attempts, and hands no
   attempt to a Start, keeps the invariant. *)
ChannelFrame ==
    /\ p'.waitCh = p.waitCh
    /\ UNCHANGED <<exited, attempts>>
    /\ \A t \in Threads : InHand(t)' => InHand(t) /\ go'[t].att = go[t].att

LEMMA FrameChannelInv ==
  ASSUME ChannelInv, ChannelFrame PROVE ChannelInv'
  BY DEF ChannelInv, ChannelFrame, WaitChClosedOnce, InHand

LEMMA ReserveChannelInv ==
  ASSUME TypeInv, ChannelInv, NEW t \in Threads, StartReserve(t) PROVE ChannelInv'
<1>1. CASE p.State \in {"RUNNING", "STARTING", "STOPPING"}
  <2>1. ChannelFrame
    BY <1>1 DEF StartReserve, ReturnErr, Idle, ChannelFrame, InHand, TypeInv, TypeOK
  <2>2. QED
    BY <2>1, FrameChannelInv
<1>2. CASE p.State \notin {"RUNNING", "STARTING", "STOPPING"}
  <2>1. attempts \in Nat /\ attempts' = attempts + 1 /\ exited' = exited
    BY <1>2, ProcessAssumption DEF StartReserve, TypeInv, TypeOK, Ref
  <2>2. p.waitCh \in Nat /\ exited \subseteq Nat
    BY ProcessAssumption, StateFields DEF TypeInv, TypeOK, Ref, Attempts
  <2>3. PICK s, n :
          p' = [p EXCEPT !.State = s, !.Cmd = 0, !.StartRetries = n, !.Healthy = FALSE,
                         !.healthCheckFailures = 0, !.startCancel = attempts + 1]
    BY <1>2 DEF StartReserve
  <2>4. p'.waitCh = p.waitCh
    BY <2>3 DEF TypeInv, TypeOK, ProcessType
  <2>5. \/ ReturnErr(t)
        \/ go' = [go EXCEPT ![t] = [@ EXCEPT !.pc = "spawn", !.att = attempts + 1]]
    BY <1>2 DEF StartReserve
  <2>6. \A u \in Threads : InHand(u)' =>
          \/ u # t /\ InHand(u) /\ go'[u].att = go[u].att
          \/ u = t /\ go'[u].att = attempts + 1
    <3>1. CASE ReturnErr(t)
      BY <3>1 DEF ReturnErr, Idle, InHand, TypeInv, TypeOK
    <3>2. CASE go' = [go EXCEPT ![t] = [@ EXCEPT !.pc = "spawn", !.att = attempts + 1]]
      BY <3>2 DEF InHand, TypeInv, TypeOK, ThreadType
    <3>3. QED
      BY <2>5, <3>1, <3>2
  <2>7. QED
    BY <2>1, <2>2, <2>4, <2>6 DEF ChannelInv, WaitChClosedOnce
<1>3. QED
  BY <1>1, <1>2

LEMMA PublishChannelInv ==
  ASSUME TypeInv, ChannelInv, NEW t \in Threads, StartPublish(t) PROVE ChannelInv'
<1>1. CASE p.State # "STARTING"
  <2>1. ChannelFrame
    BY <1>1 DEF StartPublish, ReturnErr, Idle, ChannelFrame, InHand, TypeInv, TypeOK
  <2>2. QED
    BY <2>1, FrameChannelInv
<1>2. CASE p.State = "STARTING"
  <2>1. InHand(t) /\ p'.waitCh = go[t].att
    BY <1>2 DEF StartPublish, At, InHand, TypeInv, TypeOK, ProcessType
  <2>2. \A u \in Threads : InHand(u)' => u # t /\ InHand(u) /\ go'[u].att = go[u].att
    BY <1>2 DEF StartPublish, Goto, InHand, TypeInv, TypeOK, ThreadType
  <2>3. UNCHANGED <<exited, attempts>>
    BY DEF StartPublish
  <2>4. QED
    BY <2>1, <2>2, <2>3 DEF ChannelInv, WaitChClosedOnce
<1>3. QED
  BY <1>1, <1>2

LEMMA RecordChannelInv ==
  ASSUME TypeInv, ChannelInv, NEW a \in Attempts, MonitorRecord(a) PROVE ChannelInv'
<1>1. p'.waitCh = 0 /\ exited' = exited \cup ({p.waitCh} \cap Attempts)
  BY DEF MonitorRecord, With, TypeInv, TypeOK, ProcessType
<1>2. UNCHANGED <<go, attempts>> /\ attempts \in Nat /\ 0 \notin Attempts
  BY ProcessAssumption DEF MonitorRecord, TypeInv, TypeOK, Ref, Attempts
<1>3. exited \subseteq Attempts
  BY DEF TypeInv, TypeOK
<1>4. QED
  BY <1>1, <1>2, <1>3 DEF ChannelInv, WaitChClosedOnce, InHand

(* Every other step is within the frame. *)
LEMMA StartEnterFrame ==
  ASSUME TypeInv, NEW t \in Threads, StartEnter(t) PROVE ChannelFrame
<1>1. CASE ReturnErr(t)
  BY <1>1 DEF StartEnter, ReturnErr, Idle, ChannelFrame, InHand, TypeInv, TypeOK
<1>2. CASE go' = [go EXCEPT ![t] = [@ EXCEPT !.pc = "awaitMonitor", !.ch = p.monitorDone]]
  BY <1>2 DEF StartEnter, ChannelFrame, InHand, TypeInv, TypeOK, ThreadType
<1>3. QED
  BY <1>1, <1>2 DEF StartEnter

LEMMA StartSpawnFrame ==
  ASSUME TypeInv, NEW t \in Threads, StartSpawn(t) PROVE ChannelFrame
  BY DEF StartSpawn, ReturnErr, Goto, Idle, At, ChannelFrame, InHand,
         TypeInv, TypeOK, ThreadType, ProcessType

LEMMA StartLaunchFrame ==
  ASSUME TypeInv, NEW t \in Threads, StartLaunch(t) PROVE ChannelFrame
  BY DEF StartLaunch, Return, Goto, Idle, ChannelFrame, InHand, TypeInv, TypeOK, ThreadType

LEMMA StartHealthCheckFrame ==
  ASSUME TypeInv, NEW t \in Threads, StartHealthCheck(t) PROVE ChannelFrame
  BY DEF StartHealthCheck, Return, Idle, ChannelFrame, InHand, TypeInv, TypeOK, ProcessType

LEMMA StopEnterFrame ==
  ASSUME TypeInv, NEW t \in Threads, StopEnter(t) PROVE ChannelFrame
<1>1. p'.waitCh = p.waitCh /\ UNCHANGED <<exited, attempts>>
  BY DEF StopEnter, TypeInv, TypeOK, ProcessType
<1>2. CASE StopReturn(t)
  BY <1>1, <1>2 DEF StopReturn, Return, Idle, ChannelFrame, InHand, TypeInv, TypeOK
<1>3. CASE go' = [go EXCEPT ![t] = [@ EXCEPT !.pc = "signal", !.att = p.Cmd, !.ch = p.waitCh]]
  BY <1>1, <1>3 DEF ChannelFrame, InHand, TypeInv, TypeOK, ThreadType
<1>4. QED
  BY <1>2, <1>3 DEF StopEnter

LEMMA StopSignalFrame ==
  ASSUME TypeInv, NEW t \in Threads, StopSignal(t) PROVE ChannelFrame
  BY DEF StopSignal, Goto, ChannelFrame, InHand, TypeInv, TypeOK, ThreadType

LEMMA StopGraceFrame ==
  ASSUME TypeInv, NEW t \in Threads, StopGrace(t) PROVE ChannelFrame
  BY DEF StopGrace, Goto, ChannelFrame, InHand, TypeInv, TypeOK, ThreadType

LEMMA StopRecheckFrame ==
  ASSUME TypeInv, NEW t \in Threads, StopRecheck(t) PROVE ChannelFrame
  BY DEF StopRecheck, Goto, ChannelFrame, InHand, TypeInv, TypeOK, ThreadType

LEMMA StopKillFrame ==
  ASSUME TypeInv, NEW t \in Threads, StopKill(t) PROVE ChannelFrame
  BY DEF StopKill, Goto, ChannelFrame, InHand, TypeInv, TypeOK, ThreadType

LEMMA StopKillWaitFrame ==
  ASSUME TypeInv, NEW t \in Threads, StopKillWait(t) PROVE ChannelFrame
  BY DEF StopKillWait, Goto, ChannelFrame, InHand, TypeInv, TypeOK, ThreadType

LEMMA StopDoneFrame ==
  ASSUME TypeInv, NEW t \in Threads, StopDone(t) PROVE ChannelFrame
  BY DEF StopDone, StopReturn, Return, Idle, ChannelFrame, InHand, TypeInv, TypeOK, ProcessType

LEMMA RestartEnterFrame ==
  ASSUME TypeInv, NEW t \in Threads, RestartEnter(t) PROVE ChannelFrame
<1>1. p'.waitCh = p.waitCh /\ UNCHANGED <<exited, attempts>>
  BY DEF RestartEnter, TypeInv, TypeOK, ProcessType
<1>2. CASE ReturnErr(t) \/ Return(t)
  BY <1>1, <1>2 DEF ReturnErr, Return, Idle, ChannelFrame, InHand, TypeInv, TypeOK
<1>3. CASE go' = [go EXCEPT ![t] = [Idle EXCEPT !.pc = "stop", !.restarting = TRUE]]
  BY <1>1, <1>3 DEF Idle, ChannelFrame, InHand, TypeInv, TypeOK
<1>4. QED
  BY <1>2, <1>3 DEF RestartEnter

LEMMA RestartStartFrame ==
  ASSUME TypeInv, NEW t \in Threads, RestartStart(t) PROVE ChannelFrame
  BY DEF RestartStart, Return, Goto, Idle, ChannelFrame, InHand, TypeInv, TypeOK, ThreadType

LEMMA BackgroundFrame ==
  ASSUME TypeInv, NEW a \in Attempts,
         \/ MonitorEnter(a) \/ MonitorWait(a) \/ MonitorEnd(a) \/ HealthStep(a)
         \/ ChildExit(a) \/ ContextKill(a)
  PROVE  ChannelFrame
<1>1. UNCHANGED <<go, exited, attempts>>
  BY DEF MonitorEnter, MonitorWait, MonitorEnd, HealthStep, HealthTick, HealthResult,
         ChildExit, ContextKill
<1>2. p'.waitCh = p.waitCh
  BY DEF MonitorEnter, MonitorWait, MonitorEnd, HealthStep, HealthTick, HealthResult,
         ChildExit, ContextKill, TypeInv, TypeOK, ProcessType
<1>3. QED
  BY <1>1, <1>2 DEF ChannelFrame, InHand

LEMMA CallFrame ==
  ASSUME TypeInv, NEW t \in Operators, NEW op \in {"start", "stop", "restart"}, Call(t, op)
  PROVE  ChannelFrame
  BY DEF Call, Goto, ChannelFrame, InHand, TypeInv, TypeOK, ThreadType

LEMMA LoopFrame == ASSUME TypeInv, LoopStep PROVE ChannelFrame
<1>1. UNCHANGED <<exited, attempts>>
  BY DEF LoopStep, LoopTick, HandleExited, CheckRunning, LoopFailed
<1>2. p'.waitCh = p.waitCh
  BY DEF LoopStep, LoopTick, HandleExited, CheckRunning, LoopFailed,
         TypeInv, TypeOK, ProcessType
<1>3. \A t \in Threads : InHand(t)' => InHand(t) /\ go'[t].att = go[t].att
  BY WorkerThreads DEF LoopStep, LoopTick, HandleExited, CheckRunning, LoopFailed,
         Return, Goto, Idle, InHand, TypeInv, TypeOK, ThreadType
<1>4. QED
  BY <1>1, <1>2, <1>3 DEF ChannelFrame

LEMMA RestarterFrame ==
  ASSUME TypeInv, NEW r \in Restarters, RestarterStep(r) PROVE ChannelFrame
<1>1. UNCHANGED <<exited, attempts>>
  BY DEF RestarterStep, RestarterWake, RestarterRecheck, RestarterFailed
<1>2. p'.waitCh = p.waitCh
  BY DEF RestarterStep, RestarterWake, RestarterRecheck, RestarterFailed,
         TypeInv, TypeOK, ProcessType
<1>3. \A t \in Threads : InHand(t)' => InHand(t) /\ go'[t].att = go[t].att
  BY WorkerThreads DEF RestarterStep, RestarterWake, RestarterRecheck, RestarterFailed,
         Return, Goto, Idle, InHand, TypeInv, TypeOK, ThreadType
<1>4. QED
  BY <1>1, <1>2, <1>3 DEF ChannelFrame

-----------------------------------------------------------------------------
LEMMA NextChannelInv == TypeInv /\ ChannelInv /\ [Next]_vars => ChannelInv'
<1> SUFFICES ASSUME TypeInv, ChannelInv, [Next]_vars PROVE ChannelInv'
  OBVIOUS
<1>1. ASSUME NEW t \in Threads, Operation(t) PROVE ChannelInv'
  <2>1. StartReserve(t) \/ StartPublish(t) \/ ChannelFrame
    BY <1>1, StartEnterFrame, StartSpawnFrame, StartLaunchFrame, StartHealthCheckFrame,
       StopEnterFrame, StopSignalFrame, StopGraceFrame, StopRecheckFrame, StopKillFrame,
       StopKillWaitFrame, StopDoneFrame, RestartEnterFrame, RestartStartFrame
    DEF Operation, Start, Stop, Restart
  <2>2. QED
    BY <2>1, ReserveChannelInv, PublishChannelInv, FrameChannelInv
<1>2. ASSUME NEW a \in Attempts,
             MonitorStep(a) \/ HealthStep(a) \/ ChildExit(a) \/ ContextKill(a)
      PROVE  ChannelInv'
  BY <1>2, BackgroundFrame, RecordChannelInv, FrameChannelInv DEF MonitorStep
<1>3. CASE LoopStep
  BY <1>3, LoopFrame, FrameChannelInv
<1>4. ASSUME NEW r \in Restarters, RestarterStep(r) PROVE ChannelInv'
  BY <1>4, RestarterFrame, FrameChannelInv
<1>5. CASE UNCHANGED vars
  BY <1>5 DEF vars, ChannelInv, WaitChClosedOnce, InHand
<1>6. QED
  BY <1>1, <1>2, <1>3, <1>4, <1>5, CallFrame, FrameChannelInv DEF Next, ProcessNext

(* monitor() never closes a waitCh twice, however Start, Stop, Restart, the
   monitor loop and its restart goroutines interleave. *)
THEOREM WaitChOnce == Spec => []WaitChClosedOnce
<1>1. ChannelInv => WaitChClosedOnce
  BY DEF ChannelInv
<1>2. QED
  BY InitTypeInv, NextTypeInv, InitChannelInv, NextChannelInv, <1>1, PTL DEF Spec

-----------------------------------------------------------------------------
(***************************************************************************)
(* What each action does to the goroutine that takes it, to the other      *)
(* goroutines and to the references in the struct: the facts the           *)
(* inductions below rest on.                                               *)
(***************************************************************************)
(* What the helpers do to the goroutine that takes a step, and to the others *)
Others(t) == \A u \in Threads : u # t => go'[u] = go[u]

LEMMA GotoEffect ==
  ASSUME go \in [Threads -> ThreadType], NEW t \in Threads, NEW label, Goto(t, label)
  PROVE  /\ Others(t)
         /\ go'[t].pc = label /\ go'[t].att = go[t].att /\ go'[t].ch = go[t].ch
         /\ go'[t].restarting = go[t].restarting
  BY DEF Goto, Others, ThreadType

(* The two outcomes of an operation: nil, or an error that a worker goes on with *)
LEMMA ReturnEffect ==
  ASSUME go \in [Threads -> ThreadType], NEW t \in Threads
  PROVE  /\ Return(t) => Others(t) /\ go'[t].pc = "idle" /\ go'[t].att = 0 /\ go'[t].ch = 0
         /\ ReturnErr(t) => /\ Others(t) /\ go'[t].att = 0 /\ go'[t].ch = 0
                            /\ go'[t].pc = IF t \in Workers THEN "failed" ELSE "idle"
         /\ StopReturn(t) => /\ Others(t) /\ go'[t].att = 0 /\ go'[t].ch = 0
                             /\ go'[t].pc = IF go[t].restarting THEN "restarted" ELSE "idle"
  BY DEF Return, ReturnErr, StopReturn, Others, Idle

(* the references in the struct *)
Ptrs(c, w, d, s) ==
    p'.Cmd = c /\ p'.waitCh = w /\ p'.monitorDone = d /\ p'.startCancel = s

SamePtrs == Ptrs(p.Cmd, p.waitCh, p.monitorDone, p.startCancel)

LEMMA StartEnterEffect ==
  ASSUME TypeInv, NEW t \in Threads, StartEnter(t)
  PROVE  /\ Others(t) /\ UNCHANGED p /\ go[t].pc = "start"
         /\ UNCHANGED <<mon, hc, child, attempts, hcDone, closed, exited, panicked, calls>>
         /\ \/ /\ p.State = "RUNNING" /\ ctxDone' = ctxDone
               /\ go'[t].pc = (IF t \in Workers THEN "failed" ELSE "idle")
               /\ go'[t].att = 0 /\ go'[t].ch = 0
            \/ /\ p.State # "RUNNING"
               /\ ctxDone' = ctxDone \cup ({p.startCancel} \cap Attempts)
               /\ go'[t].pc = "awaitMonitor" /\ go'[t].att = go[t].att
               /\ go'[t].ch = p.monitorDone
<1>1. go \in [Threads -> ThreadType] /\ go[t].pc = "start"
  BY DEF TypeInv, TypeOK, StartEnter, At
<1>2. CASE p.State = "RUNNING"
  BY <1>1, <1>2, ReturnEffect DEF StartEnter
<1>3. CASE p.State # "RUNNING"
  <2>1. go' = [go EXCEPT ![t] = [@ EXCEPT !.pc = "awaitMonitor", !.ch = p.monitorDone]]
    BY <1>3 DEF StartEnter
  <2>2. /\ Others(t) /\ go'[t].pc = "awaitMonitor" /\ go'[t].att = go[t].att
        /\ go'[t].ch = p.monitorDone
    BY <1>1, <2>1 DEF Others, ThreadType
  <2>3. QED
    BY <1>1, <1>3, <2>2 DEF StartEnter, With
<1>4. QED
  BY <1>2, <1>3

LEMMA StartReserveEffect ==
  ASSUME TypeInv, NEW t \in Threads, StartReserve(t)
  PROVE  /\ Others(t) /\ go[t].pc = "awaitMonitor"
         /\ go[t].ch \in closed \cup {0}
         /\ UNCHANGED <<mon, hc, child, ctxDone, hcDone, closed, exited, panicked, calls>>
         /\ p'.healthCheckCancel = p.healthCheckCancel
         /\ \/ /\ p.State \in {"RUNNING", "STARTING", "STOPPING"} /\ UNCHANGED <<p, attempts>>
               /\ go'[t].pc = (IF t \in Workers THEN "failed" ELSE "idle")
               /\ go'[t].att = 0 /\ go'[t].ch = 0
            \/ /\ p.State \notin {"RUNNING", "STARTING", "STOPPING"}
               /\ attempts' = attempts + 1 /\ attempts < MaxAttempts
               /\ Ptrs(0, p.waitCh, p.monitorDone, attempts + 1)
               /\ p'.StartRetries = p.StartRetries + 1
               /\ \/ /\ p'.State = "STARTING" /\ go'[t].pc = "spawn"
                     /\ go'[t].att = attempts + 1 /\ go'[t].ch = go[t].ch
                  \/ /\ p'.State = "EXITED"
                     /\ go'[t].pc = (IF t \in Workers THEN "failed" ELSE "idle")
                     /\ go'[t].att = 0 /\ go'[t].ch = 0
<1>1. go \in [Threads -> ThreadType] /\ go[t].pc = "awaitMonitor" /\ p \in ProcessType
  BY DEF TypeInv, TypeOK, StartReserve, At
<1>2. CASE p.State \in {"RUNNING", "STARTING", "STOPPING"}
  BY <1>1, <1>2, ReturnEffect DEF StartReserve
<1>3. CASE p.State \notin {"RUNNING", "STARTING", "STOPPING"}
  <2>1. PICK found \in {TRUE, ~User} :
          /\ p' = [p EXCEPT
                !.State = IF found THEN "STARTING" ELSE "EXITED",
                !.Cmd = 0, !.StartRetries = @ + 1, !.Healthy = FALSE,
                !.healthCheckFailures = 0, !.startCancel = attempts + 1]
          /\ IF found
             THEN go' = [go EXCEPT ![t] = [@ EXCEPT !.pc = "spawn", !.att = attempts + 1]]
             ELSE ReturnErr(t)
    BY <1>3 DEF StartReserve
  <2>2. /\ Ptrs(0, p.waitCh, p.monitorDone, attempts + 1)
        /\ p'.healthCheckCancel = p.healthCheckCancel
        /\ p'.StartRetries = p.StartRetries + 1
        /\ p'.State = IF found THEN "STARTING" ELSE "EXITED"
    BY <1>1, <2>1 DEF ProcessType, Ptrs
  <2>3. CASE found
    <3>0. go' = [go EXCEPT ![t] = [@ EXCEPT !.pc = "spawn", !.att = attempts + 1]]
      BY <2>1, <2>3
    <3>1. /\ Others(t) /\ go'[t].pc = "spawn"
          /\ go'[t].att = attempts + 1 /\ go'[t].ch = go[t].ch
      BY <1>1, <3>0 DEF Others, ThreadType
    <3>2. QED
      BY <1>1, <1>3, <2>2, <2>3, <3>1 DEF StartReserve
  <2>4. CASE ~found
    BY <1>1, <1>3, <2>1, <2>2, <2>4, ReturnEffect DEF StartReserve
  <2>5. QED
    BY <2>3, <2>4
<1>4. QED
  BY <1>2, <1>3

LEMMA StartSpawnEffect ==
  ASSUME TypeInv, NEW t \in Threads, StartSpawn(t)
  PROVE  /\ Others(t) /\ go[t].pc = "spawn" /\ SamePtrs
         /\ p'.healthCheckCancel = p.healthCheckCancel /\ p'.StartRetries = p.StartRetries
         /\ UNCHANGED <<mon, hc, attempts, ctxDone, hcDone, closed, exited, panicked, calls>>
         /\ \/ /\ go[t].att \notin ctxDone /\ child' = [child EXCEPT ![go[t].att] = "alive"]
               /\ UNCHANGED p
               /\ go'[t].pc = "publish" /\ go'[t].att = go[t].att /\ go'[t].ch = go[t].ch
            \/ /\ p'.State = "EXITED" /\ child' = child
               /\ go'[t].pc = (IF t \in Workers THEN "failed" ELSE "idle")
               /\ go'[t].att = 0 /\ go'[t].ch = 0
<1>1. go \in [Threads -> ThreadType] /\ go[t].pc = "spawn" /\ p \in ProcessType
  BY DEF TypeInv, TypeOK, StartSpawn, At
<1>2. CASE UNCHANGED p /\ Goto(t, "publish") /\ go[t].att \notin ctxDone
           /\ child' = [child EXCEPT ![go[t].att] = "alive"]
  BY <1>1, <1>2, GotoEffect DEF StartSpawn, SamePtrs, Ptrs
<1>3. CASE p' = [p EXCEPT !.State = "EXITED"] /\ ReturnErr(t) /\ UNCHANGED child
  <2>1. /\ SamePtrs /\ p'.State = "EXITED"
        /\ p'.healthCheckCancel = p.healthCheckCancel /\ p'.StartRetries = p.StartRetries
    BY <1>1, <1>3 DEF ProcessType, SamePtrs, Ptrs
  <2>2. QED
    BY <1>1, <1>3, <2>1, ReturnEffect DEF StartSpawn
<1>4. QED
  BY <1>2, <1>3 DEF StartSpawn

LEMMA StartPublishEffect ==
  ASSUME TypeInv, NEW t \in Threads, StartPublish(t)
  PROVE  /\ Others(t) /\ go[t].pc = "publish"
         /\ p'.healthCheckCancel = p.healthCheckCancel /\ p'.StartRetries = p.StartRetries
         /\ UNCHANGED <<mon, hc, attempts, ctxDone, hcDone, closed, exited, panicked, calls>>
         /\ \/ /\ p.State # "STARTING" /\ UNCHANGED p /\ child' = Killed(go[t].att)
               /\ go'[t].pc = (IF t \in Workers THEN "failed" ELSE "idle")
               /\ go'[t].att = 0 /\ go'[t].ch = 0
            \/ /\ p.State = "STARTING" /\ p'.State = "RUNNING" /\ child' = child
               /\ Ptrs(go[t].att, go[t].att, go[t].att, p.startCancel)
               /\ go'[t].pc = "launch" /\ go'[t].att = go[t].att /\ go'[t].ch = go[t].ch
<1>1. go \in [Threads -> ThreadType] /\ go[t].pc = "publish" /\ p \in ProcessType
  BY DEF TypeInv, TypeOK, StartPublish, At
<1>2. CASE p.State # "STARTING"
  BY <1>1, <1>2, ReturnEffect DEF StartPublish
<1>3. CASE p.State = "STARTING"
  <2>1. /\ Ptrs(go[t].att, go[t].att, go[t].att, p.startCancel) /\ p'.State = "RUNNING"
        /\ p'.healthCheckCancel = p.healthCheckCancel /\ p'.StartRetries = p.StartRetries
    BY <1>1, <1>3 DEF StartPublish, ProcessType, Ptrs
  <2>2. QED
    BY <1>1, <1>3, <2>1, GotoEffect DEF StartPublish
<1>4. QED
  BY <1>2, <1>3

LEMMA StartLaunchEffect ==
  ASSUME TypeInv, NEW t \in Threads, StartLaunch(t)
  PROVE  /\ Others(t) /\ go[t].pc = "launch" /\ UNCHANGED p
         /\ UNCHANGED <<hc, child, attempts, ctxDone, hcDone, closed, exited, panicked, calls>>
         /\ go[t].att \in Attempts =>
              /\ mon'[go[t].att].pc = "entry"
              /\ \A a \in Attempts : a # go[t].att => mon'[a] = mon[a]
         /\ go'[t].att \in {0, go[t].att} /\ go'[t].ch \in {0, go[t].ch}
         /\ IF HealthCheck THEN go'[t].pc = "health" /\ go'[t].att = go[t].att
                           ELSE go'[t].pc = "idle"
<1>1. go \in [Threads -> ThreadType] /\ go[t].pc = "launch"
  BY DEF TypeInv, TypeOK, StartLaunch, At
<1>2. go[t].att \in Attempts =>
         /\ mon'[go[t].att].pc = "entry"
         /\ \A a \in Attempts : a # go[t].att => mon'[a] = mon[a]
  BY DEF StartLaunch, TypeInv, TypeOK, MonitorType
<1>3. /\ Others(t) /\ go'[t].att \in {0, go[t].att} /\ go'[t].ch \in {0, go[t].ch}
      /\ IF HealthCheck THEN go'[t].pc = "health" /\ go'[t].att = go[t].att
                        ELSE go'[t].pc = "idle"
  BY <1>1, GotoEffect, ReturnEffect DEF StartLaunch
<1>4. QED
  BY <1>1, <1>2, <1>3 DEF StartLaunch

LEMMA StartHealthCheckEffect ==
  ASSUME TypeInv, NEW t \in Threads, StartHealthCheck(t)
  PROVE  /\ Others(t) /\ go[t].pc = "health" /\ SamePtrs /\ p'.State = p.State
         /\ p'.healthCheckCancel = go[t].att /\ p'.StartRetries = p.StartRetries
         /\ hcDone' = hcDone \cup ({p.healthCheckCancel} \cap Attempts)
         /\ hc' = [hc EXCEPT ![go[t].att] = "tick"]
         /\ UNCHANGED <<mon, child, attempts, ctxDone, closed, exited, panicked, calls>>
         /\ go'[t].pc = "idle" /\ go'[t].att = 0 /\ go'[t].ch = 0
<1>1. go \in [Threads -> ThreadType] /\ go[t].pc = "health" /\ p \in ProcessType
  BY DEF TypeInv, TypeOK, StartHealthCheck, At
<1>2. /\ SamePtrs /\ p'.State = p.State
      /\ p'.healthCheckCancel = go[t].att /\ p'.StartRetries = p.StartRetries
  BY <1>1 DEF StartHealthCheck, ProcessType, SamePtrs, Ptrs
<1>3. QED
  BY <1>1, <1>2, ReturnEffect DEF StartHealthCheck, With

LEMMA StopEnterEffect ==
  ASSUME TypeInv, NEW t \in Threads, StopEnter(t)
  PROVE  /\ Others(t) /\ go[t].pc = "stop" /\ SamePtrs
         /\ p'.healthCheckCancel = p.healthCheckCancel /\ p'.StartRetries = p.StartRetries
         /\ UNCHANGED <<mon, hc, child, attempts, ctxDone, hcDone, closed, exited, panicked, calls>>
         /\ \/ /\ p.Cmd = 0 \/ p.State \notin {"RUNNING", "STOPPING"}
               /\ p'.State = "STOPPED"
               /\ go'[t].pc = (IF go[t].restarting THEN "restarted" ELSE "idle")
               /\ go'[t].att = 0 /\ go'[t].ch = 0
            \/ /\ p.Cmd # 0 /\ p.State \in {"RUNNING", "STOPPING"}
               /\ p'.State = "STOPPING"
               /\ go'[t].pc = "signal" /\ go'[t].att = p.Cmd /\ go'[t].ch = p.waitCh
               /\ go'[t].restarting = go[t].restarting
<1>1. go \in [Threads -> ThreadType] /\ go[t].pc = "stop" /\ p \in ProcessType
  BY DEF TypeInv, TypeOK, StopEnter, At
<1>2. /\ SamePtrs /\ p'.healthCheckCancel = p.healthCheckCancel
      /\ p'.StartRetries = p.StartRetries
  BY <1>1 DEF StopEnter, ProcessType, SamePtrs, Ptrs
<1>3. CASE p.Cmd = 0 \/ p.State \notin {"RUNNING", "STOPPING"}
  <2>1. p' = [p EXCEPT !.State = "STOPPED"] /\ StopReturn(t)
    BY <1>3 DEF StopEnter
  <2>2. p'.State = "STOPPED"
    BY <1>1, <2>1 DEF ProcessType
  <2>3. QED
    BY <1>1, <1>2, <1>3, <2>1, <2>2, ReturnEffect DEF StopEnter
<1>4. CASE ~(p.Cmd = 0 \/ p.State \notin {"RUNNING", "STOPPING"})
  <2>1. /\ p' = [p EXCEPT !.State = "STOPPING"]
        /\ go' = [go EXCEPT ![t] = [@ EXCEPT !.pc = "signal", !.att = p.Cmd, !.ch = p.waitCh]]
    BY <1>4 DEF StopEnter
  <2>2. p'.State = "STOPPING"
    BY <1>1, <2>1 DEF ProcessType
  <2>3. /\ Others(t) /\ go'[t].pc = "signal" /\ go'[t].att = p.Cmd /\ go'[t].ch = p.waitCh
        /\ go'[t].restarting = go[t].restarting
    BY <1>1, <2>1 DEF Others, ThreadType
  <2>4. QED
    BY <1>1, <1>2, <1>4, <2>2, <2>3 DEF StopEnter
<1>5. QED
  BY <1>3, <1>4

(* the steps of Stop between its two critical sections *)
LEMMA StopMiddleEffect ==
  ASSUME TypeInv, NEW t \in Threads
  PROVE  /\ StopSignal(t) => /\ Others(t) /\ go[t].pc = "signal"
                             /\ go'[t].pc = (IF go[t].ch = 0 THEN "kill" ELSE "grace")
                             /\ child' = Signalled(go[t].att)
         /\ StopGrace(t) => /\ Others(t) /\ go[t].pc = "grace" /\ child' = child
                            /\ \/ go[t].ch \in exited /\ go'[t].pc = "done"
                               \/ go'[t].pc = "recheck"
         /\ StopRecheck(t) => /\ Others(t) /\ go[t].pc = "recheck" /\ child' = child
                              /\ go'[t].pc = (IF go[t].ch \in exited THEN "done" ELSE "kill")
         /\ StopKill(t) => /\ Others(t) /\ go[t].pc = "kill" /\ child' = Killed(go[t].att)
                           /\ go'[t].pc = (IF go[t].ch = 0 THEN "done" ELSE "killwait")
         /\ StopKillWait(t) => /\ Others(t) /\ go[t].pc = "killwait" /\ child' = child
                               /\ go[t].ch \in exited \/ KillTimeout(t)
                               /\ go'[t].pc = "done"
         /\ StopSignal(t) \/ StopGrace(t) \/ StopRecheck(t) \/ StopKill(t) \/ StopKillWait(t) =>
              /\ go'[t].att = go[t].att /\ go'[t].ch = go[t].ch
              /\ go'[t].restarting = go[t].restarting
              /\ UNCHANGED <<p, mon, hc, attempts, ctxDone, hcDone, closed, exited, panicked, calls>>
<1>1. go \in [Threads -> ThreadType]
  BY DEF TypeInv, TypeOK
<1>2. QED
  BY <1>1, GotoEffect DEF StopSignal, StopGrace, StopRecheck, StopKill, StopKillWait, At

LEMMA StopDoneEffect ==
  ASSUME TypeInv, NEW t \in Threads, StopDone(t)
  PROVE  /\ Others(t) /\ go[t].pc = "done"
         /\ Ptrs(0, p.waitCh, p.monitorDone, p.startCancel)
         /\ p'.State = (IF p.State = "STOPPING" THEN "STOPPED" ELSE p.State)
         /\ p'.healthCheckCancel = p.healthCheckCancel /\ p'.StartRetries = p.StartRetries
         /\ hcDone' = hcDone \cup ({p.healthCheckCancel} \cap Attempts)
         /\ ctxDone' = ctxDone \cup ({p.startCancel} \cap Attempts)
         /\ UNCHANGED <<mon, hc, child, attempts, closed, exited, panicked, calls>>
         /\ go'[t].pc = (IF go[t].restarting THEN "restarted" ELSE "idle")
         /\ go'[t].att = 0 /\ go'[t].ch = 0
<1>1. go \in [Threads -> ThreadType] /\ go[t].pc = "done" /\ p \in ProcessType
  BY DEF TypeInv, TypeOK, StopDone, At
<1>2. /\ Ptrs(0, p.waitCh, p.monitorDone, p.startCancel)
      /\ p'.State = (IF p.State = "STOPPING" THEN "STOPPED" ELSE p.State)
      /\ p'.healthCheckCancel = p.healthCheckCancel /\ p'.StartRetries = p.StartRetries
  BY <1>1 DEF StopDone, ProcessType, Ptrs
<1>3. QED
  BY <1>1, <1>2, ReturnEffect DEF StopDone, With

LEMMA RestartEnterEffect ==
  ASSUME TypeInv, NEW t \in Threads, RestartEnter(t)
  PROVE  /\ Others(t) /\ go[t].pc = "restart" /\ SamePtrs
         /\ p'.healthCheckCancel = p.healthCheckCancel /\ p'.StartRetries = p.StartRetries
         /\ UNCHANGED <<mon, hc, child, attempts, ctxDone, hcDone, closed, exited, panicked, calls>>
         /\ go'[t].att = 0 /\ go'[t].ch = 0
         /\ \/ /\ p.State = "FATAL" /\ p'.State = p.State
               /\ go'[t].pc = (IF t \in Workers THEN "failed" ELSE "idle")
            \/ /\ p.State \in {"STOPPING", "STARTING"} /\ p'.State = p.State
               /\ go'[t].pc = "idle"
            \/ /\ p.State \notin {"FATAL", "STOPPING", "STARTING"}
               /\ p'.State = (IF p.State = "RUNNING" THEN "STOPPING" ELSE p.State)
               /\ go'[t].pc = "stop" /\ go'[t].restarting
<1>1. go \in [Threads -> ThreadType] /\ go[t].pc = "restart" /\ p \in ProcessType
  BY DEF TypeInv, TypeOK, RestartEnter, At
<1>2. /\ SamePtrs /\ p'.healthCheckCancel = p.healthCheckCancel
      /\ p'.StartRetries = p.StartRetries
  BY <1>1 DEF RestartEnter, ProcessType, SamePtrs, Ptrs
<1>3. CASE p.State = "FATAL"
  BY <1>1, <1>2, <1>3, ReturnEffect DEF RestartEnter
<1>4. CASE p.State \in {"STOPPING", "STARTING"}
  BY <1>1, <1>2, <1>4, ReturnEffect DEF RestartEnter
<1>5. CASE p.State \notin {"FATAL", "STOPPING", "STARTING"}
  <2>1. /\ p' = [p EXCEPT !.State = IF @ = "RUNNING" THEN "STOPPING" ELSE @]
        /\ go' = [go EXCEPT ![t] = [Idle EXCEPT !.pc = "stop", !.restarting = TRUE]]
    BY <1>5 DEF RestartEnter
  <2>2. p'.State = (IF p.State = "RUNNING" THEN "STOPPING" ELSE p.State)
    BY <1>1, <2>1 DEF ProcessType
  <2>3. /\ Others(t) /\ go'[t].pc = "stop" /\ go'[t].restarting
        /\ go'[t].att = 0 /\ go'[t].ch = 0
    BY <1>1, <2>1 DEF Others, Idle
  <2>4. QED
    BY <1>1, <1>2, <1>5, <2>2, <2>3 DEF RestartEnter
<1>6. QED
  BY <1>3, <1>4, <1>5

LEMMA RestartStartEffect ==
  ASSUME TypeInv, NEW t \in Threads, RestartStart(t)
  PROVE  /\ Others(t) /\ go[t].pc = "restarted"
         /\ go'[t].pc \in {"idle", "start"}
         /\ go'[t].att \in {0, go[t].att} /\ go'[t].ch \in {0, go[t].ch}
         /\ UNCHANGED <<p, mon, hc, child, attempts, ctxDone, hcDone, closed, exited, panicked, calls>>
<1>1. go \in [Threads -> ThreadType]
  BY DEF TypeInv, TypeOK
<1>2. QED
  BY <1>1, GotoEffect, ReturnEffect DEF RestartStart, At

LEMMA CallEffect ==
  ASSUME TypeInv, NEW t \in Operators, NEW op \in {"start", "stop", "restart"}, Call(t, op)
  PROVE  /\ Others(t) /\ go[t].pc = "idle" /\ go'[t].pc = op
         /\ go'[t].att = go[t].att /\ go'[t].ch = go[t].ch
         /\ UNCHANGED <<p, mon, hc, child, attempts, ctxDone, hcDone, closed, exited, panicked>>
<1>1. go \in [Threads -> ThreadType] /\ t \in Threads
  BY DEF TypeInv, TypeOK, Threads
<1>2. QED
  BY <1>1, GotoEffect DEF Call, At

(* the monitor goroutine *)
MonOthers(a) == \A b \in Attempts : b # a => mon'[b] = mon[b]

LEMMA MonitorEnterEffect ==
  ASSUME TypeInv, NEW a \in Attempts, MonitorEnter(a)
  PROVE  /\ mon[a].pc = "entry" /\ MonOthers(a)
         /\ UNCHANGED <<p, go, hc, child, attempts, ctxDone, hcDone, exited, calls>>
         /\ \/ /\ p.Cmd = 0 /\ mon'[a].pc = "end"
               /\ closed' = closed \cup ({p.monitorDone} \cap Attempts)
               /\ panicked' = (panicked \/ p.monitorDone \in closed \cup {0})
            \/ /\ p.Cmd # 0 /\ mon'[a].pc = "wait" /\ mon'[a].cmd = p.Cmd
               /\ mon'[a].done = p.monitorDone /\ UNCHANGED <<closed, panicked>>
<1>1. mon \in [Attempts -> MonitorType]
  BY DEF TypeInv, TypeOK
<1>2. CASE p.Cmd = 0
  BY <1>1, <1>2 DEF MonitorEnter, CloseDone, With, MonOthers, MonitorType
<1>3. CASE p.Cmd # 0
  <2>1. mon' = [mon EXCEPT ![a] = [@ EXCEPT !.pc = "wait", !.done = p.monitorDone, !.cmd = p.Cmd]]
    BY <1>3 DEF MonitorEnter
  <2>2. /\ MonOthers(a) /\ mon'[a].pc = "wait" /\ mon'[a].cmd = p.Cmd
        /\ mon'[a].done = p.monitorDone
    BY <1>1, <2>1 DEF MonOthers, MonitorType
  <2>3. QED
    BY <1>3, <2>2 DEF MonitorEnter
<1>4. QED
  BY <1>2, <1>3

LEMMA MonitorWaitEffect ==
  ASSUME TypeInv, NEW a \in Attempts, MonitorWait(a)
  PROVE  /\ mon[a].pc = "wait" /\ MonOthers(a) /\ mon'[a].pc = "record"
         /\ mon'[a].cmd = mon[a].cmd /\ mon'[a].done = mon[a].done
         /\ child[mon[a].cmd] \in {"zombie", "reaped"}
         /\ child' = [child EXCEPT ![mon[a].cmd] = "reaped"]
         /\ ctxDone' = ctxDone \cup ({p.startCancel} \cap Attempts)
         /\ UNCHANGED <<p, go, hc, attempts, hcDone, closed, exited, panicked, calls>>
<1>1. mon \in [Attempts -> MonitorType]
  BY DEF TypeInv, TypeOK
<1>2. PICK x : mon' = [mon EXCEPT ![a] = [@ EXCEPT !.pc = "record", !.exitCode = x]]
  BY DEF MonitorWait
<1>3. /\ MonOthers(a) /\ mon'[a].pc = "record"
      /\ mon'[a].cmd = mon[a].cmd /\ mon'[a].done = mon[a].done
  BY <1>1, <1>2 DEF MonOthers, MonitorType
<1>4. QED
  BY <1>3 DEF MonitorWait, With

LEMMA MonitorRecordEffect ==
  ASSUME TypeInv, NEW a \in Attempts, MonitorRecord(a)
  PROVE  /\ mon[a].pc = "record" /\ MonOthers(a) /\ mon'[a].pc = "hook"
         /\ mon'[a].cmd = mon[a].cmd /\ mon'[a].done = mon[a].done
         /\ Ptrs(p.Cmd, 0, p.monitorDone, p.startCancel)
         /\ p'.State = (IF p.State = "STOPPING" THEN p.State ELSE "EXITED")
         /\ p'.healthCheckCancel = p.healthCheckCancel /\ p'.StartRetries = p.StartRetries
         /\ exited' = exited \cup ({p.waitCh} \cap Attempts)
         /\ UNCHANGED <<go, hc, child, attempts, ctxDone, hcDone, closed, panicked, calls>>
<1>1. mon \in [Attempts -> MonitorType] /\ p \in ProcessType
  BY DEF TypeInv, TypeOK
<1>2. /\ MonOthers(a) /\ mon'[a].pc = "hook"
      /\ mon'[a].cmd = mon[a].cmd /\ mon'[a].done = mon[a].done
  BY <1>1 DEF MonitorRecord, MonOthers, MonitorType
<1>3. /\ Ptrs(p.Cmd, 0, p.monitorDone, p.startCancel)
      /\ p'.State = (IF p.State = "STOPPING" THEN p.State ELSE "EXITED")
      /\ p'.healthCheckCancel = p.healthCheckCancel /\ p'.StartRetries = p.StartRetries
  BY <1>1 DEF MonitorRecord, ProcessType, Ptrs
<1>4. QED
  BY <1>2, <1>3 DEF MonitorRecord, With

LEMMA MonitorEndEffect ==
  ASSUME TypeInv, NEW a \in Attempts, MonitorEnd(a)
  PROVE  /\ mon[a].pc = "hook" /\ MonOthers(a) /\ mon'[a].pc = "end"
         /\ closed' = closed \cup ({mon[a].done} \cap Attempts)
         /\ panicked' = (panicked \/ mon[a].done \in closed \cup {0})
         /\ UNCHANGED <<p, go, hc, child, attempts, ctxDone, hcDone, exited, calls>>
<1>1. mon \in [Attempts -> MonitorType]
  BY DEF TypeInv, TypeOK
<1>2. QED
  BY <1>1 DEF MonitorEnd, CloseDone, With, MonOthers, MonitorType

(* the health checker *)
LEMMA HealthEffect ==
  ASSUME TypeInv, NEW a \in Attempts, HealthStep(a)
  PROVE  /\ SamePtrs /\ p'.State = p.State
         /\ p'.healthCheckCancel = p.healthCheckCancel /\ p'.StartRetries = p.StartRetries
         /\ UNCHANGED <<go, mon, child, attempts, ctxDone, hcDone, closed, exited, panicked, calls>>
         /\ hc[a] \in {"tick", "check"}
         /\ \A b \in Attempts : b # a => hc'[b] = hc[b]
         /\ \/ hc'[a] \in {"tick", "check"}
            \/ hc'[a] = "end" /\ (a \in hcDone \/ p.State # "RUNNING")
<1>1. hc \in [Attempts -> HealthType] /\ p \in ProcessType
  BY DEF TypeInv, TypeOK
<1>2. CASE HealthTick(a)
  BY <1>1, <1>2 DEF HealthTick, SamePtrs, Ptrs
<1>3. CASE HealthResult(a)
  <2>1. /\ SamePtrs /\ p'.State = p.State
        /\ p'.healthCheckCancel = p.healthCheckCancel /\ p'.StartRetries = p.StartRetries
    BY <1>1, <1>3 DEF HealthResult, SamePtrs, Ptrs, ProcessType
  <2>2. QED
    BY <1>1, <1>3, <2>1 DEF HealthResult
<1>4. QED
  BY <1>2, <1>3 DEF HealthStep

(* the operating system *)
LEMMA ChildEffect ==
  ASSUME TypeInv, NEW a \in Attempts, ChildExit(a) \/ ContextKill(a)
  PROVE  /\ \A b \in Attempts : b # a => child'[b] = child[b]
         /\ child[a] \in Alive
         /\ \/ child'[a] = "zombie"
            \/ child'[a] = "killed" /\ a \in ctxDone
         /\ UNCHANGED <<p, go, mon, hc, attempts, ctxDone, hcDone, closed, exited, panicked, calls>>
<1>1. child \in [Attempts -> ChildState]
  BY DEF TypeInv, TypeOK
<1>2. QED
  BY <1>1 DEF ChildExit, ContextKill, Alive

(* the monitor loop and the restart goroutines *)
WorkerFrame ==
    /\ SamePtrs /\ p'.healthCheckCancel = p.healthCheckCancel
    /\ UNCHANGED <<mon, hc, child, attempts, ctxDone, hcDone, closed, exited, panicked, calls>>

LEMMA WorkerFrameHolds ==
  ASSUME TypeInv, LoopStep \/ \E r \in Restarters : RestarterStep(r)
  PROVE  WorkerFrame
<1>1. p \in ProcessType
  BY DEF TypeInv, TypeOK
<1>2. CASE LoopTick
  BY <1>1, <1>2 DEF LoopTick, WorkerFrame, SamePtrs, Ptrs
<1>3. CASE HandleExited
  <2>1. SamePtrs /\ p'.healthCheckCancel = p.healthCheckCancel
    BY <1>1, <1>3 DEF HandleExited, SamePtrs, Ptrs, ProcessType
  <2>2. QED
    BY <1>3, <2>1 DEF HandleExited, WorkerFrame
<1>4. CASE CheckRunning
  <2>1. SamePtrs /\ p'.healthCheckCancel = p.healthCheckCancel
    BY <1>1, <1>4 DEF CheckRunning, SamePtrs, Ptrs, ProcessType
  <2>2. QED
    BY <1>4, <2>1 DEF CheckRunning, WorkerFrame
<1>5. CASE LoopFailed
  <2>1. SamePtrs /\ p'.healthCheckCancel = p.healthCheckCancel
    BY <1>1, <1>5 DEF LoopFailed, SamePtrs, Ptrs, ProcessType
  <2>2. QED
    BY <1>5, <2>1 DEF LoopFailed, WorkerFrame
<1>6. ASSUME NEW r \in Restarters, RestarterStep(r) PROVE WorkerFrame
  <2>1. SamePtrs /\ p'.healthCheckCancel = p.healthCheckCancel
    BY <1>1, <1>6 DEF RestarterStep, RestarterWake, RestarterRecheck, RestarterFailed,
                      SamePtrs, Ptrs, ProcessType
  <2>2. QED
    BY <1>6, <2>1 DEF RestarterStep, RestarterWake, RestarterRecheck, RestarterFailed, WorkerFrame
<1>7. QED
  BY <1>2, <1>3, <1>4, <1>5, <1>6 DEF LoopStep

(* LoopTick and CheckRunning *)
LEMMA LoopLookEffect ==
  ASSUME TypeInv, LoopTick \/ CheckRunning
  PROVE  /\ Others(Loop) /\ p'.State = p.State
         /\ go[Loop].pc \in {"idle", "checkRunning"}
         /\ go'[Loop].att \in {0, go[Loop].att} /\ go'[Loop].ch \in {0, go[Loop].ch}
         /\ \/ go'[Loop].pc \in {"idle", "handleExited", "checkRunning"}
            \/ go'[Loop].pc = "restart" /\ HealthCheck /\ HealthCheckRestart
         /\ p'.StartRetries \in {0, p.StartRetries}
<1>1. p \in ProcessType /\ go \in [Threads -> ThreadType] /\ Loop \in Threads
  BY WorkerThreads DEF TypeInv, TypeOK
<1>2. CASE LoopTick
  <2>1. go[Loop].pc = "idle" /\ p' = p
    BY <1>2 DEF LoopTick, At
  <2>2. \/ Goto(Loop, "handleExited") \/ Goto(Loop, "checkRunning") \/ go' = go
    BY <1>2 DEF LoopTick
  <2>3. QED
    BY <1>1, <2>1, <2>2, GotoEffect DEF Others
<1>3. CASE CheckRunning
  <2>1. go[Loop].pc = "checkRunning"
    BY <1>3 DEF CheckRunning, At
  <2>2. p'.State = p.State /\ p'.StartRetries \in {0, p.StartRetries}
    BY <1>1, <1>3 DEF CheckRunning, ProcessType
  <2>3. \/ Return(Loop)
        \/ Goto(Loop, "restart") /\ HealthCheck /\ HealthCheckRestart
    BY <1>3 DEF CheckRunning
  <2>4. QED
    BY <1>1, <2>1, <2>2, <2>3, GotoEffect, ReturnEffect
<1>4. QED
  BY <1>2, <1>3

LEMMA HandleExitedEffect ==
  ASSUME TypeInv, HandleExited
  PROVE  /\ go[Loop].pc = "handleExited" /\ go'[Loop].pc = "idle"
         /\ go'[Loop].att = 0 /\ go'[Loop].ch = 0
         /\ \/ /\ Others(Loop) /\ p'.State \in {p.State, "FATAL"}
               /\ p'.State # p.State => p.State = "EXITED"
               /\ p'.StartRetries \in {0, p.StartRetries}
            \/ /\ AutoRestart /\ p.State = "EXITED" /\ p'.State = "STARTING"
               /\ p'.StartRetries <= StartRetries
               /\ p'.StartRetries \in {0, p.StartRetries}
               /\ \E r \in Restarters :
                    /\ go[r].pc = "idle" /\ go'[r].pc = "asleep"
                    /\ go'[r].att = go[r].att /\ go'[r].ch = go[r].ch
                    /\ \A u \in Threads : u \notin {Loop, r} => go'[u] = go[u]
<1>1. /\ p \in ProcessType /\ go \in [Threads -> ThreadType] /\ Loop \in Threads
      /\ Restarters \subseteq Threads /\ Loop \notin Restarters
      /\ go[Loop].pc = "handleExited"
  BY WorkerThreads, SupervisorAssumption DEF TypeInv, TypeOK, HandleExited, At
<1> DEFINE retries == IF p.ExitCode \in ExitCodes THEN 0 ELSE p.StartRetries
<1>2. retries \in {0, p.StartRetries} /\ retries \in Nat
  BY <1>1 DEF ProcessType
<1>3. \/ Return(Loop) /\ p' = p
      \/ Return(Loop) /\ p' = [p EXCEPT !.State = "FATAL"] /\ p.State = "EXITED"
      \/ /\ Return(Loop) /\ p' = [p EXCEPT !.State = "FATAL", !.StartRetries = retries]
         /\ p.State = "EXITED"
      \/ /\ AutoRestart /\ p.State = "EXITED" /\ ~(retries > StartRetries)
         /\ p' = [p EXCEPT !.State = "STARTING", !.StartRetries = retries]
         /\ \E r \in Restarters :
              At(r, "idle") /\ go' = [go EXCEPT ![Loop] = Idle, ![r].pc = "asleep"]
  BY DEF HandleExited
<1> HIDE DEF retries
<1>4. CASE Return(Loop) /\ p' = p
  BY <1>1, <1>4, ReturnEffect
<1>5. CASE Return(Loop) /\ p' = [p EXCEPT !.State = "FATAL"] /\ p.State = "EXITED"
  <2>1. p'.State = "FATAL" /\ p'.StartRetries = p.StartRetries
    BY <1>1, <1>5 DEF ProcessType
  <2>2. QED
    BY <1>1, <1>5, <2>1, ReturnEffect
<1>6. CASE /\ Return(Loop) /\ p' = [p EXCEPT !.State = "FATAL", !.StartRetries = retries]
           /\ p.State = "EXITED"
  <2>1. p'.State = "FATAL" /\ p'.StartRetries = retries
    BY <1>1, <1>6 DEF ProcessType
  <2>2. QED
    BY <1>1, <1>2, <1>6, <2>1, ReturnEffect
<1>7. CASE /\ AutoRestart /\ p.State = "EXITED" /\ ~(retries > StartRetries)
           /\ p' = [p EXCEPT !.State = "STARTING", !.StartRetries = retries]
           /\ \E r \in Restarters :
                At(r, "idle") /\ go' = [go EXCEPT ![Loop] = Idle, ![r].pc = "asleep"]
  <2>1. p'.State = "STARTING" /\ p'.StartRetries = retries
    BY <1>1, <1>7 DEF ProcessType
  <2>2. retries <= StartRetries
    BY <1>2, <1>7, SupervisorAssumption
  <2>3. PICK r \in Restarters :
              At(r, "idle") /\ go' = [go EXCEPT ![Loop] = Idle, ![r].pc = "asleep"]
    BY <1>7
  <2>4. /\ go'[Loop].pc = "idle" /\ go'[Loop].att = 0 /\ go'[Loop].ch = 0
        /\ go[r].pc = "idle" /\ go'[r].pc = "asleep"
        /\ go'[r].att = go[r].att /\ go'[r].ch = go[r].ch
        /\ \A u \in Threads : u \notin {Loop, r} => go'[u] = go[u]
    BY <1>1, <2>3 DEF Idle, ThreadType, At
  <2>5. QED
    BY <1>1, <1>2, <1>7, <2>1, <2>2, <2>4
<1>8. QED
  BY <1>3, <1>4, <1>5, <1>6, <1>7

LEMMA LoopFailedEffect ==
  ASSUME TypeInv, LoopFailed
  PROVE  /\ Others(Loop) /\ go[Loop].pc = "failed" /\ go'[Loop].pc = "idle"
         /\ go'[Loop].att = 0 /\ go'[Loop].ch = 0
         /\ p'.State \in {p.State, "FATAL"}
         /\ p'.State # p.State => p.State \notin {"RUNNING", "STARTING"}
         /\ p'.StartRetries = p.StartRetries
<1>1. p \in ProcessType /\ go \in [Threads -> ThreadType] /\ Loop \in Threads
  BY WorkerThreads DEF TypeInv, TypeOK
<1>2. /\ p'.State \in {p.State, "FATAL"}
      /\ p'.State # p.State => p.State \notin {"RUNNING", "STARTING"}
      /\ p'.StartRetries = p.StartRetries
  BY <1>1 DEF LoopFailed, ProcessType
<1>3. QED
  BY <1>1, <1>2, ReturnEffect DEF LoopFailed, At

LEMMA RestarterEffect ==
  ASSUME TypeInv, NEW r \in Restarters, RestarterStep(r)
  PROVE  /\ Others(r) /\ p'.StartRetries = p.StartRetries
         /\ go'[r].att \in {0, go[r].att} /\ go'[r].ch \in {0, go[r].ch}
         /\ \/ /\ go[r].pc = "asleep" /\ go'[r].pc \in {"idle", "recheckExited"}
               /\ p'.State = (IF p.State = "STARTING" THEN "EXITED" ELSE p.State)
            \/ /\ go[r].pc = "recheckExited" /\ p'.State = p.State
               /\ \/ go'[r].pc = "idle"
                  \/ go'[r].pc = "start" /\ p.State = "EXITED"
            \/ /\ go[r].pc = "failed" /\ go'[r].pc = "idle" /\ p'.State \in {p.State, "FATAL"}
               /\ p'.State # p.State => p.State \notin {"STOPPED", "STOPPING", "STARTING"}
<1>1. p \in ProcessType /\ go \in [Threads -> ThreadType] /\ r \in Threads
  BY WorkerThreads DEF TypeInv, TypeOK
<1>2. CASE RestarterWake(r)
  <2>1. /\ p'.State = (IF p.State = "STARTING" THEN "EXITED" ELSE p.State)
        /\ p'.StartRetries = p.StartRetries
    BY <1>1, <1>2 DEF RestarterWake, ProcessType
  <2>2. Return(r) \/ Goto(r, "recheckExited")
    BY <1>2 DEF RestarterWake
  <2>3. go[r].pc = "asleep"
    BY <1>2 DEF RestarterWake, At
  <2>4. QED
    BY <1>1, <2>1, <2>2, <2>3, GotoEffect, ReturnEffect
<1>3. CASE RestarterRecheck(r)
  BY <1>1, <1>3, GotoEffect, ReturnEffect DEF RestarterRecheck, At
<1>4. CASE RestarterFailed(r)
  <2>1. /\ p'.State \in {p.State, "FATAL"} /\ p'.StartRetries = p.StartRetries
        /\ p'.State # p.State => p.State \notin {"STOPPED", "STOPPING", "STARTING"}
    BY <1>1, <1>4 DEF RestarterFailed, ProcessType
  <2>2. QED
    BY <1>1, <1>4, <2>1, ReturnEffect DEF RestarterFailed, At
<1>5. QED
  BY <1>2, <1>3, <1>4 DEF RestarterStep

-----------------------------------------------------------------------------
(***************************************************************************)
(* Operations that overlap. The struct has one Cmd, one waitCh and one     *)
(* monitorDone, and an operation uses what it captured in an earlier       *)
(* critical section, so whether a child stays in hand depends on how far   *)
(* one caller can fall behind another. With two callers inside the API,    *)
(* one that is behind (it forks, or is about to, though a newer attempt is *)
(* published) faces one other caller, and the state that caller left       *)
(* (RUNNING or STOPPING) turns it away; a third caller could change that   *)
(* state again, and TLC finds the child it loses.                          *)
(***************************************************************************)
(* C holds every goroutine that may be inside Start, Stop or Restart. *)
Bystanders(C) ==
    \A t \in Threads \ C : go[t].pc \in {"idle", "handleExited", "checkRunning"}

(* inside Stop, past its first critical section *)
Stopping == {"signal", "grace", "recheck", "kill", "killwait", "done"}

(* inside Start, with an attempt of its own and no monitor yet *)
Launching == {"spawn", "publish", "launch"}

(* The monitor of attempt a is past everything it does to the struct. *)
Over(a) == a = 0 \/ mon[a].pc \in {"hook", "end"}

(* t may publish, or open, an attempt though it has not seen the one that is published *)
Behind(t) == InHand(t) \/ (At(t, "awaitMonitor") /\ go[t].ch # p.monitorDone)

(* The context in the struct is the newest; nothing refers to an attempt not opened yet. *)
OpenedInv ==
    /\ p.startCancel = attempts
    /\ p.Cmd <= attempts /\ p.waitCh <= attempts /\ p.monitorDone <= attempts
    /\ \A t \in Threads : go[t].att <= attempts /\ go[t].ch <= attempts
    /\ \A a \in Attempts : a > attempts =>
          mon[a].pc = "none" /\ child[a] = "none" /\ a \notin ctxDone

(* An attempt in the hands of its Start is published nowhere and captured by nobody. *)
FreshInv ==
    /\ \A t \in Threads : InHand(t) =>
          /\ go[t].att \in Attempts /\ mon[go[t].att].pc = "none"
          /\ go[t].att \notin {p.monitorDone, p.waitCh, p.Cmd}
          /\ At(t, "spawn") => child[go[t].att] = "none"
          /\ At(t, "publish") => child[go[t].att] \in {"alive", "killed", "zombie"}
    /\ \A t, u \in Threads : InHand(t) =>
          /\ go[u].pc \in Stopping => go[u].att # go[t].att
          /\ go[u].pc = "awaitMonitor" => go[u].ch # go[t].att
    /\ \A t, u \in Threads :
          t # u /\ go[t].pc \in Launching /\ go[u].pc \in Launching => go[t].att # go[u].att

(* The monitor that is still to do something is that of the published attempt; it waits for
   its own child and closes its own channels, after the child is reaped. *)
MonitorInv ==
    /\ \A t \in Threads : At(t, "launch") =>
          /\ go[t].att \in Attempts /\ mon[go[t].att].pc = "none"
          /\ go[t].att = p.monitorDone /\ go[t].att = p.waitCh
    /\ p.monitorDone # 0 /\ mon[p.monitorDone].pc = "none" =>
          \E t \in Threads : At(t, "launch")
    /\ \A a \in Attempts :
          /\ mon[a].pc \in {"entry", "wait", "record"} => a = p.monitorDone /\ a = p.waitCh
          /\ mon[a].pc \in {"wait", "record", "hook"} => mon[a].cmd = a /\ mon[a].done = a
          /\ mon[a].pc \in {"record", "hook"} => child[a] = "reaped"
          /\ a \in closed => mon[a].pc = "end"
          /\ a \in exited => mon[a].pc \in {"hook", "end"} /\ child[a] = "reaped"
    /\ ~panicked

(* The Cmd in the struct is the published one; when its monitor is over it is dead. *)
CmdInv ==
    p.Cmd # 0 => /\ p.Cmd = p.monitorDone /\ child[p.Cmd] # "none"
                 /\ Over(p.Cmd) => p.waitCh = 0 /\ child[p.Cmd] = "reaped"

(* What a Stop captured is one attempt: its child and its channel, or a dead child. *)
StopInv ==
    \A t \in Threads : go[t].pc \in Stopping =>
        /\ go[t].att \in Attempts
        /\ \/ go[t].ch = go[t].att
           \/ go[t].ch = 0 /\ Over(go[t].att) /\ child[go[t].att] = "reaped"
        /\ Over(go[t].att) \/ go[t].att = p.monitorDone
        /\ child[go[t].att] # "none"
        /\ go[t].pc \in {"grace", "recheck", "killwait"} => go[t].ch # 0
        /\ go[t].pc \in {"killwait", "done"} =>
              child[go[t].att] \in {"killed", "zombie", "reaped"}

(* A Stop that is about to clear Cmd has seen the monitor through, or it timed out while the
   Start of that attempt, the other caller, had still to launch the monitor. *)
DoneInv ==
    \A t \in Threads : At(t, "done") /\ KillTimely =>
        \/ Over(go[t].att)
        \/ go[t].att = p.monitorDone /\ \A u \in Threads : u # t => ~Behind(u)

(* Every attempt but the newest has its context cancelled. *)
CondemnedInv ==
    /\ ~Over(p.monitorDone) => p.monitorDone \in ctxDone \cup {p.startCancel}
    /\ \A t \in Threads : InHand(t) => go[t].att \in ctxDone \cup {p.startCancel}

(* An attempt that is not condemned, beside a Start that waits, is announced by STARTING. *)
ReservedInv ==
    \A t, u \in Threads :
        t # u /\ InHand(t) /\ go[t].att \notin ctxDone /\ At(u, "awaitMonitor") =>
            p.State = "STARTING"

(* While the published attempt is not over, at most one caller is behind it, and the state
   turns it away. *)
BehindInv ==
    \A t \in Threads : Behind(t) /\ ~Over(p.monitorDone) =>
        /\ p.State \in {"RUNNING", "STOPPING"} /\ p.Cmd = p.monitorDone
        /\ \A u \in Threads : u # t =>
              /\ ~Behind(u)
              /\ go[u].pc \in Stopping => go[u].att = p.monitorDone
              /\ u \in Workers => go[u].pc \notin {"restarted", "start", "awaitMonitor", "failed"}

(* A survivor is in the hands of its Start or is the Cmd, with its monitor not over. *)
ReachInv ==
    \A a \in Survivors : \/ \E t \in Threads : At(t, "publish") /\ go[t].att = a
                         \/ a = p.Cmd /\ ~Over(a)

CoreInv ==
    OpenedInv /\ FreshInv /\ MonitorInv /\ CmdInv /\ StopInv /\ DoneInv /\ CondemnedInv /\ ReachInv

OverlapInv(C) == TypeInv /\ Bystanders(C) /\ CoreInv /\ ReservedInv /\ BehindInv

(* References are attempts or nil. *)
LEMMA RefFacts ==
  ASSUME TypeInv
  PROVE  /\ p.Cmd \in Ref /\ p.waitCh \in Ref /\ p.monitorDone \in Ref /\ p.startCancel \in Ref
         /\ attempts \in Ref /\ MaxAttempts \in Nat /\ Attempts = 1 .. MaxAttempts
         /\ Ref = Attempts \cup {0} /\ 0 \notin Attempts /\ Ref \subseteq Nat
         /\ \A t \in Threads : go[t].att \in Ref /\ go[t].ch \in Ref
  BY ProcessAssumption DEF TypeInv, TypeOK, ProcessType, ThreadType, Ref, Attempts

(* A step beside the attempts: it moves goroutines that hold none, and nothing else
   but the state and the health of the process. *)
Aside ==
    /\ SamePtrs
    /\ UNCHANGED <<mon, child, attempts, ctxDone, closed, exited, panicked>>
    /\ \A u \in Threads :
          \/ go'[u] = go[u]
          \/ /\ go[u].pc \notin {"publish", "launch"}
             /\ go'[u].pc \notin Launching \cup Stopping \cup {"awaitMonitor"}
             /\ go'[u].att \in {0, go[u].att} /\ go'[u].ch \in {0, go[u].ch}

(* A step that nobody takes to "done", that undoes no monitor, and that leaves who is behind
   alone as long as the published attempt is not over. *)
LEMMA DoneFrame ==
  ASSUME DoneInv,
         \A t \in Threads : At(t, "done")' =>
            /\ At(t, "done") /\ go'[t].att = go[t].att
            /\ Over(go[t].att) => Over(go[t].att)',
         \/ Over(p.monitorDone)
         \/ /\ p'.monitorDone = p.monitorDone
            /\ \A u \in Threads : Behind(u)' => Behind(u)
  PROVE  DoneInv'
  BY DEF DoneInv

LEMMA AsideCore ==
  ASSUME TypeInv, CoreInv, Aside PROVE CoreInv'
<1>1. OpenedInv'
  BY RefFacts DEF CoreInv, OpenedInv, Aside, SamePtrs, Ptrs, Ref
<1>2. FreshInv'
  BY DEF CoreInv, FreshInv, Aside, SamePtrs, Ptrs, InHand, At, Launching
<1>3. MonitorInv'
  BY DEF CoreInv, MonitorInv, Aside, SamePtrs, Ptrs, At, Launching
<1>4. CmdInv'
  BY DEF CoreInv, CmdInv, Aside, SamePtrs, Ptrs, Over
<1>5. StopInv'
  BY DEF CoreInv, StopInv, Aside, SamePtrs, Ptrs, Over, At
<1>d. DoneInv'
  <2>1. \A t \in Threads : At(t, "done")' =>
          /\ At(t, "done") /\ go'[t].att = go[t].att
          /\ Over(go[t].att) => Over(go[t].att)'
    BY DEF Aside, At, Over, Stopping
  <2>2. \A u \in Threads : Behind(u)' => Behind(u)
    BY DEF Behind, Aside, InHand, At, SamePtrs, Ptrs, Launching
  <2>3. QED
    BY <2>1, <2>2, DoneFrame DEF CoreInv, Aside, SamePtrs, Ptrs
<1>6. CondemnedInv'
  BY DEF CoreInv, CondemnedInv, Aside, SamePtrs, Ptrs, Over, InHand, Launching
<1>7. ReachInv'
  BY DEF CoreInv, ReachInv, Aside, SamePtrs, Ptrs, Over, At, Survivors
<1>8. QED
  BY <1>1, <1>2, <1>3, <1>4, <1>5, <1>6, <1>7, <1>d DEF CoreInv

(* At most two callers; one, if a monitor that runs may take five seconds to reap a killed
   child. *)
FewCallers(C) ==
    /\ \A t, u, v \in C : t = u \/ u = v \/ t = v
    /\ KillTimely \/ \A t, u \in C : t = u

(* Only a caller is inside the API. *)
LEMMA CallerInside ==
  ASSUME NEW C, Bystanders(C), NEW t \in Threads,
         go[t].pc \notin {"idle", "handleExited", "checkRunning"}
  PROVE  t \in C
  BY DEF Bystanders

(* The published attempt is over, or its channel is the one in the struct. *)
LEMMA PublishedChannel ==
  ASSUME TypeInv, MonitorInv, ~Over(p.monitorDone) PROVE p.waitCh = p.monitorDone
<1>1. p.monitorDone \in Attempts
  BY RefFacts DEF Over
<1>2. mon[p.monitorDone].pc \in {"none", "entry", "wait", "record"}
  BY <1>1 DEF TypeInv, TypeOK, MonitorType, Over
<1>3. QED
  BY <1>1, <1>2, RefFacts DEF MonitorInv, At

(* Start opens an attempt only when the published one is over. *)
LEMMA ReserveAfterOver ==
  ASSUME TypeInv, CoreInv, BehindInv, NEW t \in Threads, go[t].pc = "awaitMonitor",
         go[t].ch \in closed \cup {0}, p.State \notin {"RUNNING", "STARTING", "STOPPING"}
  PROVE  Over(p.monitorDone)
<1>1. CASE go[t].ch # p.monitorDone
  BY <1>1 DEF BehindInv, Behind, At
<1>2. CASE go[t].ch = p.monitorDone
  BY <1>2 DEF CoreInv, MonitorInv, Over, TypeInv, TypeOK
<1>3. QED
  BY <1>1, <1>2

LEMMA AsideReserved ==
  ASSUME ReservedInv, Aside,
         p.State = "STARTING" /\ p'.State # "STARTING" =>
            \A t, u \in Threads : t # u /\ InHand(t) /\ At(u, "awaitMonitor") =>
                go'[t] # go[t] \/ go'[u] # go[u]
  PROVE  ReservedInv'
  BY DEF ReservedInv, Aside, InHand, At, Launching

LEMMA AsideBehind ==
  ASSUME BehindInv, Aside,
         \A t \in Threads : Behind(t) /\ ~Over(p.monitorDone) /\ go'[t] = go[t] =>
            /\ p'.State \in {"RUNNING", "STOPPING"}
            /\ \A u \in Threads : u # t /\ u \in Workers =>
                  go'[u].pc \notin {"restarted", "start", "awaitMonitor", "failed"}
  PROVE  BehindInv'
<1> SUFFICES ASSUME NEW t \in Threads, Behind(t)', ~Over(p.monitorDone)'
             PROVE  /\ p'.State \in {"RUNNING", "STOPPING"} /\ p'.Cmd = p'.monitorDone
                    /\ \A u \in Threads : u # t =>
                         /\ ~Behind(u)'
                         /\ go'[u].pc \in Stopping => go'[u].att = p'.monitorDone
                         /\ u \in Workers =>
                              go'[u].pc \notin {"restarted", "start", "awaitMonitor", "failed"}
  BY DEF BehindInv
<1>1. \A u \in Threads : Behind(u)' => go'[u] = go[u] /\ Behind(u)
  BY DEF Behind, Aside, InHand, At, SamePtrs, Ptrs, Launching
<1>2. ~Over(p.monitorDone) /\ p'.monitorDone = p.monitorDone /\ p'.Cmd = p.Cmd
  BY DEF Over, Aside, SamePtrs, Ptrs
<1>3. \A u \in Threads : u # t /\ go'[u].pc \in Stopping => go'[u].att = p'.monitorDone
  BY <1>1, <1>2 DEF Aside, BehindInv
<1>4. QED
  BY <1>1, <1>2, <1>3 DEF BehindInv

-----------------------------------------------------------------------------
LEMMA StartEnterOverlap ==
  ASSUME NEW C, FewCallers(C), OverlapInv(C), NEW t \in Threads, StartEnter(t)
  PROVE  CoreInv' /\ ReservedInv' /\ BehindInv'
<1>0. TypeInv /\ CoreInv /\ ReservedInv /\ BehindInv /\ go[t].pc = "start" /\ UNCHANGED p
      /\ Others(t)
  BY StartEnterEffect DEF OverlapInv
<1>1. CASE p.State = "RUNNING"
  <2>1. Aside
    BY <1>0, <1>1, StartEnterEffect DEF Aside, Others, SamePtrs, Ptrs, Launching, Stopping
  <2>2. ReservedInv'
    BY <1>0, <2>1, AsideReserved
  <2>3. BehindInv'
    BY <1>0, <1>1, <2>1, AsideBehind, StartEnterEffect DEF Others, BehindInv
  <2>4. QED
    BY <1>0, <2>1, <2>2, <2>3, AsideCore
<1>2. CASE p.State # "RUNNING"
  <2>1. /\ ctxDone' = ctxDone \cup ({p.startCancel} \cap Attempts)
        /\ go'[t].pc = "awaitMonitor" /\ go'[t].att = go[t].att /\ go'[t].ch = p.monitorDone
        /\ UNCHANGED <<mon, child, attempts, closed, exited, panicked>>
    BY <1>0, <1>2, StartEnterEffect
  <2>2. OpenedInv'
    BY <1>0, <2>1, RefFacts DEF CoreInv, OpenedInv, Others, Ref
  <2>3. FreshInv'
    BY <1>0, <2>1 DEF CoreInv, FreshInv, Others, InHand, At, Launching, Stopping
  <2>4. MonitorInv' /\ CmdInv'
    BY <1>0, <2>1 DEF CoreInv, MonitorInv, CmdInv, Others, At, Over
  <2>5. StopInv'
    BY <1>0, <2>1 DEF CoreInv, StopInv, Others, At, Over, Stopping
  <2>d. DoneInv'
    BY <1>0, <2>1, DoneFrame DEF CoreInv, Others, At, Over, Stopping, Behind, InHand
  <2>6. CondemnedInv'
    BY <1>0, <2>1 DEF CoreInv, CondemnedInv, Others, InHand, Over
  <2>7. ReachInv'
    BY <1>0, <2>1 DEF CoreInv, ReachInv, Others, At, Over, Survivors
  <2>8. ReservedInv'
    BY <1>0, <2>1 DEF CoreInv, FreshInv, CondemnedInv, ReservedInv, Others, InHand, At
  <2>9. BehindInv'
    BY <1>0, <2>1 DEF BehindInv, Behind, Others, InHand, At, Over, Stopping
  <2>10. QED
    BY <2>2, <2>3, <2>4, <2>5, <2>6, <2>7, <2>8, <2>9, <2>d DEF CoreInv
<1>3. QED
  BY <1>1, <1>2

LEMMA StartReserveOverlap ==
  ASSUME NEW C, FewCallers(C), OverlapInv(C), NEW t \in Threads, StartReserve(t)
  PROVE  CoreInv' /\ ReservedInv' /\ BehindInv'
<1>0. /\ TypeInv /\ CoreInv /\ ReservedInv /\ BehindInv /\ go[t].pc = "awaitMonitor"
      /\ go[t].ch \in closed \cup {0} /\ Others(t)
      /\ UNCHANGED <<mon, child, ctxDone, closed, exited, panicked>>
  BY StartReserveEffect DEF OverlapInv
<1>1. CASE p.State \in {"RUNNING", "STARTING", "STOPPING"}
  <2>1. /\ UNCHANGED <<p, attempts>> /\ go'[t].att = 0 /\ go'[t].ch = 0
        /\ go'[t].pc = (IF t \in Workers THEN "failed" ELSE "idle")
    BY <1>0, <1>1, StartReserveEffect
  <2>2. Aside
    BY <1>0, <2>1 DEF Aside, Others, SamePtrs, Ptrs, Launching, Stopping
  <2>3. ReservedInv'
    BY <1>0, <2>1, <2>2, AsideReserved
  <2>4. BehindInv'
    BY <1>0, <2>1, <2>2, AsideBehind DEF Others, BehindInv
  <2>5. QED
    BY <1>0, <2>2, <2>3, <2>4, AsideCore
<1>2. CASE p.State \notin {"RUNNING", "STARTING", "STOPPING"}
  <2>1. /\ attempts' = attempts + 1 /\ attempts < MaxAttempts
        /\ p'.Cmd = 0 /\ p'.waitCh = p.waitCh /\ p'.monitorDone = p.monitorDone
        /\ p'.startCancel = attempts + 1
        /\ \/ /\ p'.State = "STARTING" /\ go'[t].pc = "spawn"
              /\ go'[t].att = attempts + 1 /\ go'[t].ch = go[t].ch
           \/ /\ p'.State = "EXITED"
              /\ go'[t].pc \in {"failed", "idle"}
              /\ go'[t].att = 0 /\ go'[t].ch = 0
    BY <1>0, <1>2, StartReserveEffect DEF Ptrs
  <2>2. Over(p.monitorDone)
    BY <1>0, <1>2, ReserveAfterOver
  <2>3. attempts + 1 \in Attempts /\ attempts \in Nat
    BY <1>0, <2>1, RefFacts DEF Ref
  <2>4. OpenedInv'
    BY <1>0, <2>1, <2>3, RefFacts DEF CoreInv, OpenedInv, Others, Ref
  <2>5. FreshInv'
    <3>1. \A u \in Threads : InHand(u)' => go'[u].att \in Attempts
      BY <1>0, <2>1, <2>3 DEF CoreInv, FreshInv, Others, InHand
    <3>2. \A x \in Ref : x <= attempts => x # attempts + 1
      BY <2>3, RefFacts, <1>0 DEF Ref
    <3>3. /\ p.Cmd # attempts + 1 /\ p.waitCh # attempts + 1 /\ p.monitorDone # attempts + 1
          /\ \A u \in Threads : go[u].att # attempts + 1 /\ go[u].ch # attempts + 1
          /\ attempts + 1 # 0
      BY <1>0, <2>3, <3>2, RefFacts DEF CoreInv, OpenedInv
    <3>4. mon[attempts + 1].pc = "none" /\ child[attempts + 1] = "none"
      BY <1>0, <2>3 DEF CoreInv, OpenedInv
    <3> DEFINE n == attempts + 1
    <3>5. /\ p.Cmd # n /\ p.waitCh # n /\ p.monitorDone # n /\ n # 0 /\ n \in Attempts
          /\ \A u \in Threads : go[u].att # n /\ go[u].ch # n
          /\ mon[n].pc = "none" /\ child[n] = "none"
          /\ \/ go'[t].pc = "spawn" /\ go'[t].att = n /\ go'[t].ch = go[t].ch
             \/ go'[t].pc \in {"failed", "idle"}
      BY <2>1, <2>3, <3>3, <3>4
    <3> HIDE DEF n
    <3>6. \A u \in Threads : InHand(u)' =>
            /\ go'[u].att \in Attempts /\ mon'[go'[u].att].pc = "none"
            /\ go'[u].att \notin {p'.monitorDone, p'.waitCh, p'.Cmd}
            /\ go'[u].pc = "spawn" => child'[go'[u].att] = "none"
            /\ go'[u].pc = "publish" => child'[go'[u].att] \in {"alive", "killed", "zombie"}
      BY <1>0, <2>1, <3>5, RefFacts, SMTT(30) DEF CoreInv, FreshInv, Others, InHand, At
    <3>7. \A u, v \in Threads : InHand(u)' =>
            /\ go'[v].pc \in Stopping => go'[v].att # go'[u].att
            /\ go'[v].pc = "awaitMonitor" => go'[v].ch # go'[u].att
      BY <1>0, <3>5 DEF CoreInv, FreshInv, Others, InHand, Stopping
    <3>8. \A u, v \in Threads :
            u # v /\ go'[u].pc \in Launching /\ go'[v].pc \in Launching =>
              go'[u].att # go'[v].att
      BY <1>0, <3>5 DEF CoreInv, FreshInv, Others, Launching
    <3>9. QED
      BY <3>6, <3>7, <3>8 DEF FreshInv, At
  <2>6. MonitorInv' /\ CmdInv'
    BY <1>0, <2>1 DEF CoreInv, MonitorInv, CmdInv, Others, At, Over
  <2>7. StopInv'
    BY <1>0, <2>1 DEF CoreInv, StopInv, Others, At, Over, Stopping
  <2>d. DoneInv'
    <3>1. \A u \in Threads : At(u, "done")' =>
            /\ At(u, "done") /\ go'[u].att = go[u].att
            /\ Over(go[u].att) => Over(go[u].att)'
      BY <1>0, <2>1 DEF Others, At, Over
    <3>2. QED
      BY <1>0, <2>2, <3>1, DoneFrame DEF CoreInv
  <2>8. CondemnedInv'
    BY <1>0, <1>2, <2>1, <2>2 DEF CoreInv, CondemnedInv, ReservedInv, Others, InHand, Over, At
  <2>9. ReachInv'
    BY <1>0, <2>1, <2>2 DEF CoreInv, ReachInv, CmdInv, Others, At, Over, Survivors
  <2>10. ReservedInv'
    BY <1>0, <1>2, <2>1 DEF ReservedInv, Others, InHand, At
  <2>11. BehindInv'
    BY <1>0, <2>1, <2>2 DEF BehindInv, Over
  <2>12. QED
    BY <2>4, <2>5, <2>6, <2>7, <2>8, <2>9, <2>10, <2>11, <2>d DEF CoreInv
<1>3. QED
  BY <1>1, <1>2

LEMMA StartSpawnOverlap ==
  ASSUME NEW C, FewCallers(C), OverlapInv(C), NEW t \in Threads, StartSpawn(t)
  PROVE  CoreInv' /\ ReservedInv' /\ BehindInv'
<1>0. /\ TypeInv /\ CoreInv /\ ReservedInv /\ BehindInv /\ go[t].pc = "spawn"
      /\ Others(t) /\ SamePtrs
      /\ UNCHANGED <<mon, attempts, ctxDone, closed, exited, panicked>>
  BY StartSpawnEffect DEF OverlapInv
<1>1. CASE /\ p'.State = "EXITED" /\ child' = child
           /\ go'[t].pc = (IF t \in Workers THEN "failed" ELSE "idle")
           /\ go'[t].att = 0 /\ go'[t].ch = 0
  <2>1. Aside
    BY <1>0, <1>1 DEF Aside, Others, Launching, Stopping
  <2>2. ReservedInv'
    <3>1. ASSUME NEW x \in Threads, NEW u \in Threads, x # u, InHand(x),
                 At(u, "awaitMonitor")
          PROVE  x = t
      <4>1. t \in C /\ x \in C /\ u \in C
        BY <1>0, <3>1, CallerInside DEF OverlapInv, InHand, At
      <4>2. QED
        BY <1>0, <3>1, <4>1 DEF FewCallers, At
    <3>2. go'[t] # go[t]
      BY <1>0, <1>1
    <3>3. QED
      BY <1>0, <2>1, <3>1, <3>2, AsideReserved
  <2>3. BehindInv'
    <3>1. ASSUME NEW x \in Threads, Behind(x), ~Over(p.monitorDone), go'[x] = go[x]
          PROVE  FALSE
      BY <1>0, <1>1, <3>1 DEF BehindInv, Behind, InHand
    <3>2. QED
      BY <1>0, <2>1, <3>1, AsideBehind
  <2>4. QED
    BY <1>0, <2>1, <2>2, <2>3, AsideCore
<1>2. CASE /\ go[t].att \notin ctxDone /\ child' = [child EXCEPT ![go[t].att] = "alive"]
           /\ UNCHANGED p
           /\ go'[t].pc = "publish" /\ go'[t].att = go[t].att /\ go'[t].ch = go[t].ch
  <2> DEFINE a == go[t].att
  <2>1. /\ a \in Attempts /\ child[a] = "none" /\ child'[a] = "alive"
        /\ \A b \in Attempts : b # a => child'[b] = child[b]
    BY <1>0, <1>2 DEF CoreInv, FreshInv, InHand, At, TypeInv, TypeOK
  <2>2. OpenedInv'
    <3>1. a <= attempts
      BY <1>0 DEF CoreInv, OpenedInv
    <3>2. \A b \in Attempts : b > attempts => b # a
      BY <1>0, <3>1, <2>1, RefFacts DEF Ref
    <3>3. QED
      BY <1>0, <1>2, <2>1, <3>2 DEF CoreInv, OpenedInv, Others
  <2>3. FreshInv'
    BY <1>0, <1>2, <2>1 DEF CoreInv, FreshInv, Others, InHand, At, Launching, Stopping
  <2>4. MonitorInv' /\ CmdInv'
    BY <1>0, <1>2, <2>1, RefFacts DEF CoreInv, MonitorInv, CmdInv, Others, At, Over
  <2>5. StopInv'
    BY <1>0, <1>2, <2>1 DEF CoreInv, StopInv, Others, At, Over, Stopping
  <2>d. DoneInv'
    BY <1>0, <1>2, <2>1, DoneFrame DEF CoreInv, Others, At, Over, Stopping, Behind, InHand
  <2>6. CondemnedInv'
    BY <1>0, <1>2 DEF CoreInv, CondemnedInv, Others, InHand, Over
  <2>7. ReachInv'
    BY <1>0, <1>2, <2>1 DEF CoreInv, ReachInv, Others, At, Over, Survivors
  <2>8. ReservedInv'
    BY <1>0, <1>2 DEF ReservedInv, Others, InHand, At
  <2>9. BehindInv'
    BY <1>0, <1>2 DEF BehindInv, Behind, Others, InHand, At, Over, Stopping
  <2>10. QED
    BY <2>2, <2>3, <2>4, <2>5, <2>6, <2>7, <2>8, <2>9, <2>d DEF CoreInv
<1>3. QED
  BY <1>0, <1>1, <1>2, StartSpawnEffect

LEMMA StartPublishOverlap ==
  ASSUME NEW C, FewCallers(C), OverlapInv(C), NEW t \in Threads, StartPublish(t)
  PROVE  CoreInv' /\ ReservedInv' /\ BehindInv'
<1>0. /\ TypeInv /\ CoreInv /\ ReservedInv /\ BehindInv /\ go[t].pc = "publish"
      /\ Others(t) /\ Bystanders(C)
      /\ UNCHANGED <<mon, attempts, ctxDone, closed, exited, panicked>>
  BY StartPublishEffect DEF OverlapInv
<1> DEFINE a == go[t].att
<1>00. /\ a \in Attempts /\ child[a] \in {"alive", "killed", "zombie"} /\ InHand(t)
       /\ mon[a].pc = "none" /\ a # 0
  BY <1>0, RefFacts DEF CoreInv, FreshInv, InHand, At
<1>1. CASE p.State # "STARTING"
  <2>1. /\ UNCHANGED p /\ child' = Killed(a)
        /\ go'[t].pc = (IF t \in Workers THEN "failed" ELSE "idle")
        /\ go'[t].att = 0 /\ go'[t].ch = 0
    BY <1>0, <1>1, StartPublishEffect
  <2>2. /\ child'[a] \in {"killed", "zombie"}
        /\ \A b \in Attempts : b # a => child'[b] = child[b]
    BY <1>00, <2>1, <1>0 DEF Killed, Alive, TypeInv, TypeOK
  <2>3. OpenedInv'
    <3>1. a <= attempts
      BY <1>0 DEF CoreInv, OpenedInv
    <3>2. \A b \in Attempts : b > attempts => b # a
      BY <1>0, <1>00, <3>1, RefFacts DEF Ref
    <3>3. 0 <= attempts
      BY <1>0, RefFacts DEF Ref
    <3>4. QED
      BY <1>0, <2>1, <2>2, <3>2, <3>3 DEF CoreInv, OpenedInv, Others
  <2>4. FreshInv'
    BY <1>0, <2>1, <2>2 DEF CoreInv, FreshInv, Others, InHand, At, Launching, Stopping
  <2>5. MonitorInv' /\ CmdInv'
    BY <1>0, <1>00, <2>1, <2>2, RefFacts DEF CoreInv, MonitorInv, CmdInv, Others, At, Over
  <2>6. StopInv'
    BY <1>0, <1>00, <2>1, <2>2 DEF CoreInv, StopInv, Others, At, Over, Stopping
  <2>d. DoneInv'
    BY <1>0, <1>00, <2>1, <2>2, DoneFrame DEF CoreInv, Others, At, Over, Stopping, Behind, InHand
  <2>7. CondemnedInv'
    BY <1>0, <2>1 DEF CoreInv, CondemnedInv, Others, InHand, Over
  <2>8. ReachInv'
    BY <1>0, <2>1, <2>2 DEF CoreInv, ReachInv, Others, At, Over, Survivors
  <2>9. ReservedInv'
    BY <1>0, <2>1 DEF ReservedInv, Others, InHand, At
  <2>10. BehindInv'
    BY <1>0, <1>00, <2>1 DEF BehindInv, Behind, Others, InHand, At, Over, Stopping
  <2>11. QED
    BY <2>3, <2>4, <2>5, <2>6, <2>7, <2>8, <2>9, <2>10, <2>d DEF CoreInv
<1>2. CASE p.State = "STARTING"
  <2>1. /\ p'.State = "RUNNING" /\ child' = child
        /\ p'.Cmd = a /\ p'.waitCh = a /\ p'.monitorDone = a /\ p'.startCancel = p.startCancel
        /\ go'[t].pc = "launch" /\ go'[t].att = a /\ go'[t].ch = go[t].ch
    BY <1>0, <1>2, StartPublishEffect DEF Ptrs
  <2>2. Over(p.monitorDone) /\ a # p.monitorDone
    BY <1>0, <1>00, <1>2 DEF BehindInv, Behind, CoreInv, FreshInv
  <2>3. OpenedInv'
    BY <1>0, <2>1 DEF CoreInv, OpenedInv, Others
  <2>4. FreshInv'
    <3>1. \A u \in Threads : u # t /\ InHand(u) => go[u].att # a
      BY <1>0 DEF CoreInv, FreshInv, Launching, InHand
    <3>2. QED
      BY <1>0, <1>00, <2>1, <3>1 DEF CoreInv, FreshInv, Others, InHand, At, Launching, Stopping
  <2>5. MonitorInv'
    <3>1. \A u \in Threads : ~At(u, "launch")
      BY <1>0, <2>2, RefFacts DEF CoreInv, MonitorInv, Over
    <3>2. \A b \in Attempts : mon[b].pc \notin {"entry", "wait", "record"}
      BY <1>0, <2>2, RefFacts DEF CoreInv, MonitorInv, Over
    <3>3. QED
      BY <1>0, <1>00, <2>1, <3>1, <3>2 DEF CoreInv, MonitorInv, Others, At
  <2>6. CmdInv'
    BY <1>0, <1>00, <2>1 DEF CmdInv, Over
  <2>7. StopInv'
    BY <1>0, <2>1, <2>2 DEF CoreInv, StopInv, Others, At, Over, Stopping
  <2>d. DoneInv'
    <3>1. \A u \in Threads : At(u, "done")' =>
            /\ At(u, "done") /\ go'[u].att = go[u].att
            /\ Over(go[u].att) => Over(go[u].att)'
      BY <1>0, <2>1 DEF Others, At, Over
    <3>2. QED
      BY <1>0, <2>2, <3>1, DoneFrame DEF CoreInv
  <2>8. CondemnedInv'
    BY <1>0, <1>00, <2>1 DEF CoreInv, CondemnedInv, Others, InHand, Over
  <2>9. ReachInv'
    BY <1>0, <1>00, <2>1, <2>2 DEF CoreInv, ReachInv, CmdInv, Others, At, Over, Survivors
  <2>10. t \in C
    BY <1>0, CallerInside
  <2>11. ReservedInv'
    <3>1. ASSUME NEW x \in Threads, NEW u \in Threads, x # u, InHand(x)',
                 At(u, "awaitMonitor")'
          PROVE  FALSE
      <4>1. x # t /\ u # t /\ InHand(x) /\ At(u, "awaitMonitor")
        BY <1>0, <2>1, <3>1 DEF Others, InHand, At
      <4>2. x \in C /\ u \in C
        BY <1>0, <4>1, CallerInside DEF InHand, At
      <4>3. QED
        BY <2>10, <3>1, <4>1, <4>2 DEF FewCallers
    <3>2. QED
      BY <3>1 DEF ReservedInv
  <2>12. BehindInv'
    <3>1. ASSUME NEW x \in Threads, Behind(x)', NEW u \in Threads, u # x
          PROVE  /\ ~Behind(u)'
                 /\ go'[u].pc \in Stopping => go'[u].att = p'.monitorDone
                 /\ u \in Workers =>
                      go'[u].pc \notin {"restarted", "start", "awaitMonitor", "failed"}
      <4>1. x # t /\ go'[x] = go[x] /\ go[x].pc \in {"spawn", "publish", "awaitMonitor"}
        BY <1>0, <2>1, <3>1 DEF Behind, Others, InHand, At
      <4>2. x \in C
        BY <1>0, <4>1, CallerInside
      <4>3. CASE u = t
        BY <2>1, <4>3 DEF Behind, InHand, At, Stopping
      <4>4. CASE u # t
        <5>1. u \notin C
          BY <2>10, <3>1, <4>1, <4>2, <4>4 DEF FewCallers
        <5>2. go'[u].pc \in {"idle", "handleExited", "checkRunning"}
          BY <1>0, <4>4, <5>1 DEF Bystanders, Others
        <5>3. QED
          BY <5>2 DEF Behind, InHand, At, Stopping
      <4>5. QED
        BY <4>3, <4>4
    <3>2. QED
      BY <2>1, <3>1 DEF BehindInv
  <2>13. QED
    BY <2>3, <2>4, <2>5, <2>6, <2>7, <2>8, <2>9, <2>11, <2>12, <2>d DEF CoreInv
<1>3. QED
  BY <1>1, <1>2

LEMMA StartLaunchOverlap ==
  ASSUME NEW C, FewCallers(C), OverlapInv(C), NEW t \in Threads, StartLaunch(t)
  PROVE  CoreInv' /\ ReservedInv' /\ BehindInv'
<1> DEFINE a == go[t].att
<1>0. /\ TypeInv /\ CoreInv /\ ReservedInv /\ BehindInv /\ go[t].pc = "launch"
      /\ Others(t) /\ UNCHANGED p
      /\ UNCHANGED <<child, attempts, ctxDone, closed, exited, panicked>>
      /\ go'[t].pc \in {"health", "idle"}
      /\ go'[t].att \in {0, a} /\ go'[t].ch \in {0, go[t].ch}
  BY StartLaunchEffect DEF OverlapInv
<1>1. /\ a \in Attempts /\ mon[a].pc = "none" /\ a = p.monitorDone /\ a = p.waitCh /\ a # 0
  BY <1>0, RefFacts DEF CoreInv, MonitorInv, At
<1>2. mon'[a].pc = "entry" /\ \A b \in Attempts : b # a => mon'[b] = mon[b]
  BY <1>1, StartLaunchEffect DEF OverlapInv
<1>3. a <= attempts /\ 0 <= attempts /\ attempts \in Nat
  BY <1>0, RefFacts DEF CoreInv, OpenedInv, Ref
<1>4. OpenedInv'
  <2>1. \A b \in Attempts : b > attempts => b # a
    BY <1>1, <1>3, <1>0, RefFacts DEF Ref
  <2>2. QED
    BY <1>0, <1>2, <1>3, <2>1 DEF CoreInv, OpenedInv, Others
<1>5. FreshInv'
  BY <1>0, <1>1, <1>2 DEF CoreInv, FreshInv, Others, InHand, At, Launching, Stopping
<1>6. MonitorInv'
  <2>1. \A u \in Threads : At(u, "launch") => u = t
    BY <1>0, <1>1 DEF CoreInv, MonitorInv, FreshInv, Launching, At
  <2>2. QED
    BY <1>0, <1>1, <1>2, <2>1 DEF CoreInv, MonitorInv, Others, At
<1>7. CmdInv'
  BY <1>0, <1>1, <1>2, RefFacts DEF CoreInv, CmdInv, Over
<1>8. StopInv'
  BY <1>0, <1>1, <1>2 DEF CoreInv, StopInv, Others, At, Over, Stopping
<1>d. DoneInv'
  <2>1. \A u \in Threads : At(u, "done")' =>
          /\ At(u, "done") /\ go'[u].att = go[u].att
          /\ Over(go[u].att) => Over(go[u].att)'
    BY <1>0, <1>1, <1>2, RefFacts DEF Others, At, Over
  <2>2. \A u \in Threads : Behind(u)' => Behind(u)
    BY <1>0 DEF Others, At, Behind, InHand
  <2>3. QED
    BY <1>0, <2>1, <2>2, DoneFrame DEF CoreInv
<1>9. CondemnedInv'
  BY <1>0, <1>1, <1>2 DEF CoreInv, CondemnedInv, Others, InHand, Over
<1>10. ReachInv'
  BY <1>0, <1>1, <1>2 DEF CoreInv, ReachInv, Others, At, Over, Survivors
<1>11. ReservedInv'
  BY <1>0 DEF ReservedInv, Others, InHand, At
<1>12. BehindInv'
  BY <1>0, <1>1, <1>2 DEF BehindInv, Behind, Others, InHand, At, Over, Stopping
<1>13. QED
  BY <1>4, <1>5, <1>6, <1>7, <1>8, <1>9, <1>10, <1>11, <1>12, <1>d DEF CoreInv

LEMMA StartHealthCheckOverlap ==
  ASSUME NEW C, FewCallers(C), OverlapInv(C), NEW t \in Threads, StartHealthCheck(t)
  PROVE  CoreInv' /\ ReservedInv' /\ BehindInv'
<1>0. /\ TypeInv /\ CoreInv /\ ReservedInv /\ BehindInv /\ go[t].pc = "health"
      /\ Others(t) /\ SamePtrs /\ p'.State = p.State
      /\ UNCHANGED <<mon, child, attempts, ctxDone, closed, exited, panicked>>
      /\ go'[t].pc = "idle" /\ go'[t].att = 0 /\ go'[t].ch = 0
  BY StartHealthCheckEffect DEF OverlapInv
<1>1. Aside
  BY <1>0 DEF Aside, Others, Launching, Stopping
<1>2. ReservedInv'
  BY <1>0, <1>1, AsideReserved
<1>3. BehindInv'
  BY <1>0, <1>1, AsideBehind DEF Others, BehindInv
<1>4. QED
  BY <1>0, <1>1, <1>2, <1>3, AsideCore

LEMMA StopEnterOverlap ==
  ASSUME NEW C, FewCallers(C), OverlapInv(C), NEW t \in Threads, StopEnter(t)
  PROVE  CoreInv' /\ ReservedInv' /\ BehindInv'
<1>0. /\ TypeInv /\ CoreInv /\ ReservedInv /\ BehindInv /\ go[t].pc = "stop"
      /\ Others(t) /\ SamePtrs /\ Bystanders(C)
      /\ UNCHANGED <<mon, child, attempts, ctxDone, closed, exited, panicked>>
  BY StopEnterEffect DEF OverlapInv
<1>1. CASE /\ p.Cmd = 0 \/ p.State \notin {"RUNNING", "STOPPING"}
           /\ p'.State = "STOPPED"
           /\ go'[t].pc = (IF go[t].restarting THEN "restarted" ELSE "idle")
           /\ go'[t].att = 0 /\ go'[t].ch = 0
  <2>1. Aside
    BY <1>0, <1>1 DEF Aside, Others, Launching, Stopping
  <2>2. ReservedInv'
    <3>1. ASSUME NEW x \in Threads, NEW u \in Threads, x # u, InHand(x),
                 At(u, "awaitMonitor")
          PROVE  FALSE
      <4>1. t \in C /\ x \in C /\ u \in C
        BY <1>0, <3>1, CallerInside DEF InHand, At
      <4>2. QED
        BY <1>0, <3>1, <4>1 DEF FewCallers, At, InHand
    <3>2. QED
      BY <1>0, <2>1, <3>1, AsideReserved
  <2>3. BehindInv'
    <3>1. ASSUME NEW x \in Threads, Behind(x), ~Over(p.monitorDone)
          PROVE  FALSE
      BY <1>0, <1>1, <3>1 DEF BehindInv, Over
    <3>2. QED
      BY <1>0, <2>1, <3>1, AsideBehind
  <2>4. QED
    BY <1>0, <2>1, <2>2, <2>3, AsideCore
<1>2. CASE /\ p.Cmd # 0 /\ p.State \in {"RUNNING", "STOPPING"}
           /\ p'.State = "STOPPING"
           /\ go'[t].pc = "signal" /\ go'[t].att = p.Cmd /\ go'[t].ch = p.waitCh
  <2>1. p.Cmd \in Attempts /\ p.Cmd = p.monitorDone
    BY <1>0, <1>2, RefFacts DEF CoreInv, CmdInv
  <2>2. \/ p.waitCh = p.Cmd
        \/ p.waitCh = 0 /\ Over(p.Cmd) /\ child[p.Cmd] = "reaped"
    BY <1>0, <1>2, <2>1, PublishedChannel DEF CoreInv, CmdInv
  <2>3. OpenedInv'
    BY <1>0, <1>2 DEF CoreInv, OpenedInv, Others, SamePtrs, Ptrs
  <2>4. FreshInv'
    BY <1>0, <1>2 DEF CoreInv, FreshInv, Others, SamePtrs, Ptrs, InHand, At, Launching, Stopping
  <2>5. MonitorInv' /\ CmdInv'
    BY <1>0, <1>2 DEF CoreInv, MonitorInv, CmdInv, Others, SamePtrs, Ptrs, At, Over
  <2>6. StopInv'
    <3>1. child[p.Cmd] # "none"
      BY <1>0, <1>2 DEF CoreInv, CmdInv
    <3>2. QED
      BY <1>0, <1>2, <2>1, <2>2, <3>1
      DEF CoreInv, StopInv, Others, SamePtrs, Ptrs, At, Over, Stopping
  <2>d. DoneInv'
    <3>1. \A u \in Threads : At(u, "done")' =>
            /\ At(u, "done") /\ go'[u].att = go[u].att
            /\ Over(go[u].att) => Over(go[u].att)'
      BY <1>0, <1>2 DEF Others, At, Over
    <3>2. \A u \in Threads : Behind(u)' => Behind(u)
      BY <1>0, <1>2 DEF Others, At, Behind, InHand, SamePtrs, Ptrs
    <3>3. QED
      BY <1>0, <3>1, <3>2, DoneFrame DEF CoreInv, SamePtrs, Ptrs
  <2>7. CondemnedInv'
    BY <1>0, <1>2 DEF CoreInv, CondemnedInv, Others, SamePtrs, Ptrs, InHand, Over
  <2>8. ReachInv'
    BY <1>0, <1>2 DEF CoreInv, ReachInv, Others, SamePtrs, Ptrs, At, Over, Survivors
  <2>9. ReservedInv'
    BY <1>0, <1>2 DEF ReservedInv, Others, InHand, At
  <2>10. BehindInv'
    BY <1>0, <1>2, <2>1 DEF BehindInv, Behind, Others, SamePtrs, Ptrs, InHand, At, Over, Stopping
  <2>11. QED
    BY <2>3, <2>4, <2>5, <2>6, <2>7, <2>8, <2>9, <2>10, <2>d DEF CoreInv
<1>3. QED
  BY <1>0, <1>1, <1>2, StopEnterEffect

(* the steps of Stop that signal, wait and kill *)
LEMMA StopMiddleOverlap ==
  ASSUME NEW C, FewCallers(C), OverlapInv(C), NEW t \in Threads,
         StopSignal(t) \/ StopGrace(t) \/ StopRecheck(t) \/ StopKill(t) \/ StopKillWait(t)
  PROVE  CoreInv' /\ ReservedInv' /\ BehindInv'
<1> DEFINE a == go[t].att
<1>0. /\ TypeInv /\ CoreInv /\ ReservedInv /\ BehindInv
      /\ Others(t) /\ UNCHANGED p
      /\ UNCHANGED <<mon, attempts, ctxDone, closed, exited, panicked>>
      /\ go[t].pc \in Stopping /\ go'[t].pc \in Stopping
      /\ go'[t].att = a /\ go'[t].ch = go[t].ch
      /\ child' \in {child, Killed(a), Signalled(a)}
  BY StopMiddleEffect DEF OverlapInv, Stopping
<1>1. a \in Attempts
  BY <1>0 DEF CoreInv, StopInv
<1>2. /\ \A b \in Attempts : b # a => child'[b] = child[b]
      /\ \/ child'[a] = child[a]
         \/ child[a] \in Alive /\ child'[a] = "killed"
         \/ child[a] = "alive" /\ child'[a] = "signalled"
  BY <1>0, <1>1 DEF Killed, Signalled, TypeInv, TypeOK
<1>3. OpenedInv'
  BY <1>0, <1>2 DEF CoreInv, OpenedInv, Others, Alive
<1>4. FreshInv'
  BY <1>0, <1>2 DEF CoreInv, FreshInv, Others, InHand, At, Launching, Stopping
<1>5. MonitorInv' /\ CmdInv'
  BY <1>0, <1>2, RefFacts DEF CoreInv, MonitorInv, CmdInv, Others, At, Over, Stopping, Alive
<1>6. StopInv'
  <2>1. /\ go'[t].pc \in {"grace", "recheck", "killwait"} => go'[t].ch # 0
        /\ go'[t].pc \in {"killwait", "done"} =>
             child'[a] \in {"killed", "zombie", "reaped"}
    <3>1. go[t].ch \in exited => Over(a) /\ child[a] = "reaped"
      BY <1>0, <1>1, RefFacts DEF CoreInv, StopInv, MonitorInv, Over, TypeInv, TypeOK
    <3>2. CASE StopSignal(t)
      BY <1>0, <3>2, StopMiddleEffect
    <3>3. CASE StopGrace(t)
      BY <1>0, <3>1, <3>3, StopMiddleEffect DEF CoreInv, StopInv
    <3>4. CASE StopRecheck(t)
      BY <1>0, <3>1, <3>4, StopMiddleEffect DEF CoreInv, StopInv
    <3>5. CASE StopKill(t)
      <4>1. child'[a] \in {"killed", "zombie", "reaped"}
        <5>1. child' = Killed(a) /\ child[a] \in ChildState /\ a # 0
          BY <1>0, <1>1, <3>5, StopMiddleEffect, RefFacts DEF TypeInv, TypeOK
        <5>2. child[a] # "none"
          BY <1>0, <1>1 DEF CoreInv, StopInv
        <5>3. QED
          BY <1>0, <1>1, <5>1, <5>2 DEF Killed, Alive, ChildState, TypeInv, TypeOK
      <4>2. QED
        BY <1>0, <1>1, <3>5, <4>1, StopMiddleEffect, RefFacts DEF CoreInv, StopInv
    <3>6. CASE StopKillWait(t)
      BY <1>0, <3>1, <3>6, StopMiddleEffect DEF CoreInv, StopInv
    <3>7. QED
      BY <3>2, <3>3, <3>4, <3>5, <3>6
  <2>2. QED
    BY <1>0, <1>1, <1>2, <2>1 DEF CoreInv, StopInv, Others, At, Over, Alive
<1>d. DoneInv'
  <2>1. \A u \in Threads : Behind(u)' => Behind(u) /\ u # t
    BY <1>0 DEF Others, At, Behind, InHand, Stopping
  <2>2. SUFFICES ASSUME NEW u \in Threads, At(u, "done")', KillTimely,
                        ~Over(go[u].att)'
                 PROVE  /\ go'[u].att = p'.monitorDone
                        /\ \A v \in Threads : v # u => ~Behind(v)'
    BY DEF DoneInv
  <2>3. go'[u].att = go[u].att /\ ~Over(go[u].att) /\ go[u].att \in Attempts
        /\ go[u].pc \in Stopping /\ go[u].att = p.monitorDone
    BY <1>0, <1>1, <2>2 DEF Others, At, Over, CoreInv, StopInv, Stopping
  <2>4. CASE At(u, "done")
    BY <1>0, <2>1, <2>2, <2>3, <2>4 DEF CoreInv, DoneInv
  <2>5. CASE ~At(u, "done")
    <3>1. u = t
      BY <1>0, <2>2, <2>5 DEF Others, At
    <3>2. go[t].ch \notin exited
      BY <1>0, <1>1, <2>3, <3>1, RefFacts DEF CoreInv, StopInv, MonitorInv, Over, TypeInv, TypeOK
    <3>3. mon[p.monitorDone].pc = "none" /\ p.monitorDone # 0
      <4>1. go[t].ch # 0
        BY <1>0, <1>1, <2>3, <3>1, RefFacts DEF CoreInv, StopInv
      <4>2. KillTimeout(t)
        BY <1>0, <2>2, <2>5, <3>1, <3>2, <4>1, StopMiddleEffect DEF At
      <4>3. QED
        BY <2>2, <2>3, <3>1, <4>2, RefFacts, <1>0 DEF KillTimeout
    <3>4. PICK v \in Threads : At(v, "launch")
      BY <1>0, <3>3 DEF CoreInv, MonitorInv
    <3>5. ASSUME NEW x \in Threads, x # t, Behind(x) PROVE FALSE
      <4>1. /\ go[x].pc \in {"spawn", "publish", "awaitMonitor"} /\ go[v].pc = "launch"
            /\ go[t].pc \in {"signal", "grace", "recheck", "kill", "killwait", "done"}
        BY <1>0, <3>4, <3>5 DEF Behind, InHand, At, Stopping
      <4>2. x \in C /\ v \in C /\ t \in C /\ x # v /\ v # t
        BY <4>1, CallerInside DEF OverlapInv
      <4>3. QED
        BY <3>5, <4>2 DEF FewCallers
    <3>6. QED
      BY <1>0, <2>1, <2>3, <3>1, <3>5
  <2>6. QED
    BY <2>4, <2>5
<1>7. CondemnedInv'
  BY <1>0 DEF CoreInv, CondemnedInv, Others, InHand, Over, Stopping
<1>8. ReachInv'
  BY <1>0, <1>2 DEF CoreInv, ReachInv, Others, At, Over, Survivors, Stopping, Alive
<1>9. ReservedInv'
  BY <1>0 DEF ReservedInv, Others, InHand, At, Stopping
<1>10. BehindInv'
  BY <1>0 DEF BehindInv, Behind, Others, InHand, At, Over, Stopping
<1>11. QED
  BY <1>3, <1>4, <1>5, <1>6, <1>7, <1>8, <1>9, <1>10, <1>d DEF CoreInv

LEMMA StopDoneOverlap ==
  ASSUME NEW C, FewCallers(C), OverlapInv(C), NEW t \in Threads, StopDone(t)
  PROVE  CoreInv' /\ ReservedInv' /\ BehindInv'
<1>0. /\ TypeInv /\ CoreInv /\ ReservedInv /\ BehindInv /\ go[t].pc = "done"
      /\ Others(t) /\ Bystanders(C)
      /\ p'.Cmd = 0 /\ p'.waitCh = p.waitCh /\ p'.monitorDone = p.monitorDone
      /\ p'.startCancel = p.startCancel
      /\ p'.State = (IF p.State = "STOPPING" THEN "STOPPED" ELSE p.State)
      /\ ctxDone' = ctxDone \cup ({p.startCancel} \cap Attempts)
      /\ UNCHANGED <<mon, child, attempts, closed, exited, panicked>>
      /\ go'[t].pc \in {"restarted", "idle"}
      /\ go'[t].att = 0 /\ go'[t].ch = 0
  BY StopDoneEffect DEF OverlapInv, Ptrs
<1>1. OpenedInv'
  BY <1>0, RefFacts DEF CoreInv, OpenedInv, Others, Ref
<1>2. FreshInv'
  <2>1. \A u \in Threads : go'[u].pc \in {"spawn", "publish", "launch", "awaitMonitor"} \cup Stopping =>
          go'[u] = go[u]
    BY <1>0 DEF Others, Stopping
  <2>2. \A u \in Threads : InHand(u)' => InHand(u) /\ go'[u] = go[u]
    BY <2>1 DEF InHand
  <2>3. \A u \in Threads : InHand(u) => go[u].att # 0
    BY <1>0, RefFacts DEF CoreInv, FreshInv
  <2>4. \A u \in Threads : InHand(u)' =>
          /\ go'[u].att \in Attempts /\ mon'[go'[u].att].pc = "none"
          /\ go'[u].att \notin {p'.monitorDone, p'.waitCh, p'.Cmd}
          /\ go'[u].pc = "spawn" => child'[go'[u].att] = "none"
          /\ go'[u].pc = "publish" => child'[go'[u].att] \in {"alive", "killed", "zombie"}
    BY <1>0, <2>2, <2>3 DEF CoreInv, FreshInv, At
  <2>5. QED
    BY <1>0, <2>1, <2>2, <2>4 DEF CoreInv, FreshInv, At, Launching
<1>3. MonitorInv' /\ CmdInv'
  BY <1>0 DEF CoreInv, MonitorInv, CmdInv, Others, At, Over
<1>4. StopInv'
  BY <1>0 DEF CoreInv, StopInv, Others, At, Over, Stopping
<1>d. DoneInv'
  BY <1>0, DoneFrame DEF CoreInv, Others, At, Over, Stopping, Behind, InHand
<1>5. CondemnedInv'
  BY <1>0 DEF CoreInv, CondemnedInv, Others, InHand, Over
<1>6. ReachInv'
  BY <1>0 DEF CoreInv, ReachInv, CondemnedInv, CmdInv, Others, At, Over, Survivors
<1>7. ReservedInv'
  BY <1>0 DEF ReservedInv, Others, InHand, At
<1>8. BehindInv'
  <2>1. ASSUME NEW x \in Threads, Behind(x)', ~Over(p.monitorDone)' PROVE FALSE
    <3>1. x # t /\ Behind(x) /\ ~Over(p.monitorDone)
      BY <1>0, <2>1 DEF Behind, InHand, At, Over, Others
    <3>2. go[t].att = p.monitorDone
      BY <1>0, <3>1 DEF BehindInv, Stopping
    <3>3. ~KillTimely
      BY <1>0, <3>1, <3>2 DEF CoreInv, DoneInv, At
    <3>4. x \in C /\ t \in C
      BY <1>0, <3>1, CallerInside DEF Behind, InHand, At
    <3>5. QED
      BY <3>1, <3>3, <3>4 DEF FewCallers
  <2>2. QED
    BY <2>1 DEF BehindInv
<1>9. QED
  BY <1>1, <1>2, <1>3, <1>4, <1>5, <1>6, <1>7, <1>8, <1>d DEF CoreInv

LEMMA RestartOverlap ==
  ASSUME NEW C, FewCallers(C), OverlapInv(C), NEW t \in Threads, Restart(t)
  PROVE  CoreInv' /\ ReservedInv' /\ BehindInv'
<1>0. TypeInv /\ CoreInv /\ ReservedInv /\ BehindInv
  BY DEF OverlapInv
<1>1. CASE RestartEnter(t)
  <2>1. /\ go[t].pc = "restart" /\ Others(t) /\ SamePtrs
        /\ UNCHANGED <<mon, child, attempts, ctxDone, closed, exited, panicked>>
        /\ go'[t].att = 0 /\ go'[t].ch = 0
        /\ go'[t].pc \in {"idle", "failed", "stop"}
        /\ p.State = "STARTING" => p'.State = "STARTING"
        /\ p.State \in {"RUNNING", "STOPPING"} =>
             p'.State \in {"RUNNING", "STOPPING"} /\ go'[t].pc # "failed"
    BY <1>0, <1>1, RestartEnterEffect
  <2>2. Aside
    BY <2>1 DEF Aside, Others, Launching, Stopping
  <2>3. ReservedInv'
    BY <1>0, <2>1, <2>2, AsideReserved
  <2>4. BehindInv'
    BY <1>0, <2>1, <2>2, AsideBehind DEF Others, BehindInv
  <2>5. QED
    BY <1>0, <2>2, <2>3, <2>4, AsideCore
<1>2. CASE RestartStart(t)
  <2>1. /\ go[t].pc = "restarted" /\ Others(t) /\ UNCHANGED p
        /\ UNCHANGED <<mon, child, attempts, ctxDone, closed, exited, panicked>>
        /\ go'[t].att \in {0, go[t].att} /\ go'[t].ch \in {0, go[t].ch}
        /\ go'[t].pc \in {"idle", "start"}
    BY <1>0, <1>2, RestartStartEffect
  <2>2. Aside
    BY <2>1 DEF Aside, Others, Launching, Stopping, SamePtrs, Ptrs
  <2>3. ReservedInv'
    BY <1>0, <2>1, <2>2, AsideReserved
  <2>4. BehindInv'
    BY <1>0, <2>1, <2>2, AsideBehind DEF Others, BehindInv
  <2>5. QED
    BY <1>0, <2>2, <2>3, <2>4, AsideCore
<1>3. QED
  BY <1>1, <1>2 DEF Restart

LEMMA CallOverlap ==
  ASSUME NEW C, OverlapInv(C), NEW t \in Operators, NEW op \in {"start", "stop", "restart"},
         Call(t, op)
  PROVE  CoreInv' /\ ReservedInv' /\ BehindInv'
<1>0. TypeInv /\ CoreInv /\ ReservedInv /\ BehindInv /\ t \in Threads /\ t \notin Workers
  BY ProcessAssumption DEF OverlapInv, Threads
<1>1. /\ go[t].pc = "idle" /\ Others(t) /\ UNCHANGED p
      /\ UNCHANGED <<mon, child, attempts, ctxDone, closed, exited, panicked>>
      /\ go'[t].att = go[t].att /\ go'[t].ch = go[t].ch /\ go'[t].pc = op
  BY <1>0, CallEffect
<1>2. Aside
  BY <1>1 DEF Aside, Others, Launching, Stopping, SamePtrs, Ptrs
<1>3. ReservedInv'
  BY <1>0, <1>1, <1>2, AsideReserved
<1>4. BehindInv'
  BY <1>0, <1>1, <1>2, AsideBehind DEF Others, BehindInv
<1>5. QED
  BY <1>0, <1>2, <1>3, <1>4, AsideCore

LEMMA MonitorEnterOverlap ==
  ASSUME NEW C, OverlapInv(C), NEW a \in Attempts, MonitorEnter(a)
  PROVE  CoreInv' /\ ReservedInv' /\ BehindInv'
<1>0. /\ TypeInv /\ CoreInv /\ ReservedInv /\ BehindInv /\ mon[a].pc = "entry"
      /\ MonOthers(a) /\ UNCHANGED <<p, go, child, attempts, ctxDone, exited>>
  BY MonitorEnterEffect DEF OverlapInv
<1>1. a = p.monitorDone /\ a = p.waitCh /\ a # 0 /\ a \notin closed /\ a \notin exited
  BY <1>0, RefFacts DEF CoreInv, MonitorInv
<1>2. \A t \in Threads : ~At(t, "launch")
  BY <1>0, <1>1 DEF CoreInv, MonitorInv
<1>3. \/ p.Cmd = 0 /\ mon'[a].pc = "end" /\ closed' = closed \cup {a} /\ ~panicked'
      \/ /\ p.Cmd = a /\ mon'[a].pc = "wait" /\ mon'[a].cmd = a /\ mon'[a].done = a
         /\ UNCHANGED closed /\ ~panicked'
  <2>1. ~panicked
    BY <1>0 DEF CoreInv, MonitorInv
  <2>2. p.Cmd # 0 => p.Cmd = a
    BY <1>0, <1>1 DEF CoreInv, CmdInv
  <2>3. CASE p.Cmd = 0
    <3>1. /\ mon'[a].pc = "end" /\ closed' = closed \cup ({p.monitorDone} \cap Attempts)
          /\ panicked' = (panicked \/ p.monitorDone \in closed \cup {0})
      BY <1>0, <2>3, MonitorEnterEffect
    <3>2. ~panicked'
      BY <1>1, <2>1, <3>1
    <3>3. QED
      BY <1>1, <2>3, <3>1, <3>2
  <2>4. CASE p.Cmd # 0
    <3>1. /\ mon'[a].pc = "wait" /\ mon'[a].cmd = p.Cmd
          /\ mon'[a].done = p.monitorDone /\ UNCHANGED <<closed, panicked>>
      BY <1>0, <2>4, MonitorEnterEffect
    <3>2. QED
      BY <1>1, <2>1, <2>2, <2>4, <3>1
  <2>5. QED
    BY <2>3, <2>4
<1>4. OpenedInv'
  BY <1>0 DEF CoreInv, OpenedInv, MonOthers
<1>5. FreshInv'
  BY <1>0, <1>1, <1>3 DEF CoreInv, FreshInv, MonOthers, InHand, At
<1>6. MonitorInv'
  BY <1>0, <1>1, <1>2, <1>3, RefFacts DEF CoreInv, MonitorInv, MonOthers, At
<1>7. CmdInv'
  BY <1>0, <1>1, <1>3, RefFacts DEF CoreInv, CmdInv, MonOthers, Over
<1>8. StopInv'
  BY <1>0, <1>1, <1>3 DEF CoreInv, StopInv, MonOthers, Over, At
<1>d. DoneInv'
  <2>1. \A u \in Threads : At(u, "done")' =>
          /\ At(u, "done") /\ go'[u].att = go[u].att
          /\ Over(go[u].att) => Over(go[u].att)'
    BY <1>0, <1>3, RefFacts DEF At, Over, MonOthers
  <2>2. \A u \in Threads : Behind(u)' => Behind(u)
    BY <1>0 DEF Behind, InHand, At
  <2>3. QED
    BY <1>0, <2>1, <2>2, DoneFrame DEF CoreInv
<1>9. CondemnedInv'
  BY <1>0, <1>1, <1>3 DEF CoreInv, CondemnedInv, MonOthers, Over, InHand
<1>10. ReachInv'
  BY <1>0, <1>1, <1>3 DEF CoreInv, ReachInv, MonOthers, Over, At, Survivors
<1>11. ReservedInv'
  BY <1>0 DEF ReservedInv, InHand, At
<1>12. BehindInv'
  BY <1>0, <1>1, <1>3 DEF BehindInv, Behind, InHand, At, Over
<1>13. QED
  BY <1>4, <1>5, <1>6, <1>7, <1>8, <1>9, <1>10, <1>11, <1>12, <1>d DEF CoreInv

LEMMA MonitorWaitOverlap ==
  ASSUME NEW C, OverlapInv(C), NEW a \in Attempts, MonitorWait(a)
  PROVE  CoreInv' /\ ReservedInv' /\ BehindInv'
<1>0. /\ TypeInv /\ CoreInv /\ ReservedInv /\ BehindInv /\ mon[a].pc = "wait"
      /\ mon'[a].pc = "record" /\ mon'[a].cmd = mon[a].cmd /\ mon'[a].done = mon[a].done
      /\ MonOthers(a) /\ UNCHANGED <<p, go, attempts, closed, exited, panicked>>
      /\ child' = [child EXCEPT ![mon[a].cmd] = "reaped"]
      /\ child[mon[a].cmd] \in {"zombie", "reaped"}
      /\ ctxDone' = ctxDone \cup ({p.startCancel} \cap Attempts)
  BY MonitorWaitEffect DEF OverlapInv
<1>1. /\ a = p.monitorDone /\ a = p.waitCh /\ a # 0 /\ a \notin closed /\ a \notin exited
      /\ mon[a].cmd = a /\ mon[a].done = a
  BY <1>0, RefFacts DEF CoreInv, MonitorInv
<1>2. /\ \A b \in Attempts : b # a => child'[b] = child[b]
      /\ child'[a] = "reaped" /\ child[a] # "none"
  BY <1>0, <1>1 DEF TypeInv, TypeOK
<1>4. OpenedInv'
  BY <1>0, <1>2, RefFacts DEF CoreInv, OpenedInv, MonOthers, Ref
<1>5. FreshInv'
  BY <1>0, <1>1, <1>2 DEF CoreInv, FreshInv, MonOthers, InHand, At
<1>6. MonitorInv'
  BY <1>0, <1>1, <1>2, RefFacts DEF CoreInv, MonitorInv, MonOthers, At
<1>7. CmdInv'
  BY <1>0, <1>1, <1>2, RefFacts DEF CoreInv, CmdInv, MonOthers, Over
<1>8. StopInv'
  BY <1>0, <1>1, <1>2 DEF CoreInv, StopInv, MonOthers, Over, At
<1>d. DoneInv'
  <2>1. \A u \in Threads : At(u, "done")' =>
          /\ At(u, "done") /\ go'[u].att = go[u].att
          /\ Over(go[u].att) => Over(go[u].att)'
    BY <1>0, RefFacts DEF At, Over, MonOthers
  <2>2. \A u \in Threads : Behind(u)' => Behind(u)
    BY <1>0 DEF Behind, InHand, At
  <2>3. QED
    BY <1>0, <2>1, <2>2, DoneFrame DEF CoreInv
<1>9. CondemnedInv'
  BY <1>0, <1>1 DEF CoreInv, CondemnedInv, MonOthers, Over, InHand
<1>10. ReachInv'
  BY <1>0, <1>1, <1>2 DEF CoreInv, ReachInv, MonOthers, Over, At, Survivors
<1>11. ReservedInv'
  BY <1>0 DEF ReservedInv, InHand, At
<1>12. BehindInv'
  BY <1>0, <1>1 DEF BehindInv, Behind, InHand, At, Over
<1>13. QED
  BY <1>4, <1>5, <1>6, <1>7, <1>8, <1>9, <1>10, <1>11, <1>12, <1>d DEF CoreInv

LEMMA MonitorRecordOverlap ==
  ASSUME NEW C, OverlapInv(C), NEW a \in Attempts, MonitorRecord(a)
  PROVE  CoreInv' /\ ReservedInv' /\ BehindInv'
<1>0. /\ TypeInv /\ CoreInv /\ ReservedInv /\ BehindInv /\ mon[a].pc = "record"
      /\ mon'[a].pc = "hook" /\ mon'[a].cmd = mon[a].cmd /\ mon'[a].done = mon[a].done
      /\ MonOthers(a) /\ UNCHANGED <<go, child, attempts, ctxDone, closed, panicked>>
      /\ p'.Cmd = p.Cmd /\ p'.waitCh = 0 /\ p'.monitorDone = p.monitorDone
      /\ p'.startCancel = p.startCancel
      /\ exited' = exited \cup ({p.waitCh} \cap Attempts)
  BY MonitorRecordEffect DEF OverlapInv, Ptrs
<1>1. /\ a = p.monitorDone /\ a = p.waitCh /\ a # 0 /\ a \notin closed /\ a \notin exited
      /\ mon[a].cmd = a /\ mon[a].done = a /\ child[a] = "reaped"
      /\ exited' = exited \cup {a}
  BY <1>0, RefFacts DEF CoreInv, MonitorInv
<1>4. OpenedInv'
  BY <1>0, RefFacts DEF CoreInv, OpenedInv, MonOthers, Ref
<1>5. FreshInv'
  <2>1. \A u \in Threads : InHand(u) => go[u].att \notin {0, a}
    BY <1>0, <1>1, RefFacts DEF CoreInv, FreshInv
  <2>2. QED
    BY <1>0, <1>1, <2>1 DEF CoreInv, FreshInv, MonOthers, InHand, At
<1>6. MonitorInv'
  <2>1. \A t \in Threads : ~At(t, "launch")
    BY <1>0, <1>1 DEF CoreInv, MonitorInv
  <2>2. \A b \in Attempts : b # a => mon[b].pc \notin {"entry", "wait", "record"}
    BY <1>0, <1>1 DEF CoreInv, MonitorInv
  <2>3. QED
    BY <1>0, <1>1, <2>1, <2>2 DEF CoreInv, MonitorInv, MonOthers, At
<1>7. CmdInv'
  BY <1>0, <1>1, RefFacts DEF CoreInv, CmdInv, MonOthers, Over
<1>8. StopInv'
  BY <1>0, <1>1 DEF CoreInv, StopInv, MonOthers, Over, At
<1>d. DoneInv'
  <2>1. \A u \in Threads : At(u, "done")' =>
          /\ At(u, "done") /\ go'[u].att = go[u].att
          /\ Over(go[u].att) => Over(go[u].att)'
    BY <1>0, RefFacts DEF At, Over, MonOthers
  <2>2. \A u \in Threads : Behind(u)' => Behind(u)
    BY <1>0 DEF Behind, InHand, At
  <2>3. QED
    BY <1>0, <2>1, <2>2, DoneFrame DEF CoreInv
<1>9. CondemnedInv'
  BY <1>0, <1>1 DEF CoreInv, CondemnedInv, MonOthers, Over, InHand
<1>10. ReachInv'
  BY <1>0, <1>1 DEF CoreInv, ReachInv, MonOthers, Over, At, Survivors
<1>11. ReservedInv'
  <2>1. ASSUME NEW t \in Threads, InHand(t) PROVE p.State # "STARTING"
    BY <1>0, <1>1, <2>1 DEF BehindInv, Behind, Over
  <2>2. QED
    BY <1>0, <2>1 DEF ReservedInv, InHand, At
<1>12. BehindInv'
  BY <1>0, <1>1 DEF BehindInv, Over
<1>13. QED
  BY <1>4, <1>5, <1>6, <1>7, <1>8, <1>9, <1>10, <1>11, <1>12, <1>d DEF CoreInv

LEMMA MonitorEndOverlap ==
  ASSUME NEW C, OverlapInv(C), NEW a \in Attempts, MonitorEnd(a)
  PROVE  CoreInv' /\ ReservedInv' /\ BehindInv'
<1>0. /\ TypeInv /\ CoreInv /\ ReservedInv /\ BehindInv /\ mon[a].pc = "hook"
      /\ mon'[a].pc = "end" /\ MonOthers(a)
      /\ UNCHANGED <<p, go, child, attempts, ctxDone, exited>>
  BY MonitorEndEffect DEF OverlapInv
<1>1. mon[a].done = a /\ a # 0 /\ a \notin closed /\ child[a] = "reaped"
  BY <1>0, RefFacts DEF CoreInv, MonitorInv
<1>2. closed' = closed \cup {a} /\ ~panicked'
  <2>1. ~panicked /\ panicked' = (panicked \/ mon[a].done \in closed \cup {0})
    BY <1>0, MonitorEndEffect DEF CoreInv, MonitorInv
  <2>2. ~panicked'
    BY <1>1, <2>1
  <2>3. closed' = closed \cup ({mon[a].done} \cap Attempts)
    BY <1>0, MonitorEndEffect
  <2>4. QED
    BY <1>1, <2>2, <2>3
<1>4. OpenedInv'
  BY <1>0 DEF CoreInv, OpenedInv, MonOthers
<1>5. FreshInv'
  BY <1>0 DEF CoreInv, FreshInv, MonOthers, InHand, At
<1>6. MonitorInv'
  BY <1>0, <1>1, <1>2, RefFacts DEF CoreInv, MonitorInv, MonOthers, At
<1>7. CmdInv'
  BY <1>0, RefFacts DEF CoreInv, CmdInv, MonOthers, Over
<1>8. StopInv'
  BY <1>0 DEF CoreInv, StopInv, MonOthers, Over, At
<1>d. DoneInv'
  <2>1. \A u \in Threads : At(u, "done")' =>
          /\ At(u, "done") /\ go'[u].att = go[u].att
          /\ Over(go[u].att) => Over(go[u].att)'
    BY <1>0, RefFacts DEF At, Over, MonOthers
  <2>2. \A u \in Threads : Behind(u)' => Behind(u)
    BY <1>0 DEF Behind, InHand, At
  <2>3. QED
    BY <1>0, <2>1, <2>2, DoneFrame DEF CoreInv
<1>9. CondemnedInv'
  BY <1>0, RefFacts DEF CoreInv, CondemnedInv, MonOthers, Over, InHand
<1>10. ReachInv'
  BY <1>0 DEF CoreInv, ReachInv, MonOthers, Over, At, Survivors
<1>11. ReservedInv'
  BY <1>0 DEF ReservedInv, InHand, At
<1>12. BehindInv'
  BY <1>0, RefFacts DEF BehindInv, Behind, InHand, At, Over, MonOthers
<1>13. QED
  BY <1>4, <1>5, <1>6, <1>7, <1>8, <1>9, <1>10, <1>11, <1>12, <1>d DEF CoreInv

LEMMA HealthOverlap ==
  ASSUME NEW C, OverlapInv(C), NEW a \in Attempts, HealthStep(a)
  PROVE  CoreInv' /\ ReservedInv' /\ BehindInv'
<1>0. /\ TypeInv /\ CoreInv /\ ReservedInv /\ BehindInv /\ SamePtrs /\ p'.State = p.State
      /\ UNCHANGED <<go, mon, child, attempts, ctxDone, closed, exited, panicked>>
  BY HealthEffect DEF OverlapInv
<1>1. Aside
  BY <1>0 DEF Aside
<1>2. ReservedInv'
  BY <1>0, <1>1, AsideReserved
<1>3. BehindInv'
  BY <1>0, <1>1, AsideBehind DEF BehindInv
<1>4. QED
  BY <1>0, <1>1, <1>2, <1>3, AsideCore

LEMMA ChildOverlap ==
  ASSUME NEW C, OverlapInv(C), NEW a \in Attempts, ChildExit(a) \/ ContextKill(a)
  PROVE  CoreInv' /\ ReservedInv' /\ BehindInv'
<1>0. /\ TypeInv /\ CoreInv /\ ReservedInv /\ BehindInv
      /\ \A b \in Attempts : b # a => child'[b] = child[b]
      /\ child[a] \in Alive /\ child'[a] \in {"zombie", "killed"}
      /\ UNCHANGED <<p, go, mon, attempts, ctxDone, closed, exited, panicked>>
  BY ChildEffect DEF OverlapInv
<1>1. child[a] \notin {"none", "reaped"}
  BY <1>0 DEF Alive
<1>4. OpenedInv'
  BY <1>0, <1>1 DEF CoreInv, OpenedInv
<1>5. FreshInv'
  BY <1>0, <1>1 DEF CoreInv, FreshInv, InHand, At
<1>6. MonitorInv'
  BY <1>0, <1>1 DEF CoreInv, MonitorInv, At
<1>7. CmdInv'
  BY <1>0, <1>1, RefFacts DEF CoreInv, CmdInv, Over
<1>8. StopInv'
  BY <1>0, <1>1 DEF CoreInv, StopInv, Over, At
<1>d. DoneInv'
  BY <1>0, <1>1, DoneFrame DEF CoreInv, Over, At, Behind, InHand
<1>9. CondemnedInv'
  BY <1>0 DEF CoreInv, CondemnedInv, Over, InHand
<1>10. ReachInv'
  BY <1>0 DEF CoreInv, ReachInv, Over, At, Survivors
<1>11. ReservedInv'
  BY <1>0 DEF ReservedInv, InHand, At
<1>12. BehindInv'
  BY <1>0 DEF BehindInv, Behind, InHand, At, Over
<1>13. QED
  BY <1>4, <1>5, <1>6, <1>7, <1>8, <1>9, <1>10, <1>11, <1>12, <1>d DEF CoreInv

LEMMA LoopOverlap ==
  ASSUME NEW C, FewCallers(C), OverlapInv(C), LoopStep
  PROVE  CoreInv' /\ ReservedInv' /\ BehindInv'
<1>0. /\ TypeInv /\ CoreInv /\ ReservedInv /\ BehindInv /\ SamePtrs
      /\ UNCHANGED <<mon, child, attempts, ctxDone, closed, exited, panicked>>
      /\ Loop \in Threads /\ Loop \in Workers /\ Restarters \subseteq Threads
  BY WorkerFrameHolds, WorkerThreads, SupervisorAssumption DEF OverlapInv, WorkerFrame
<1>1. CASE LoopTick \/ CheckRunning
  <2>1. /\ Others(Loop) /\ p'.State = p.State /\ go[Loop].pc \in {"idle", "checkRunning"}
        /\ go'[Loop].att \in {0, go[Loop].att} /\ go'[Loop].ch \in {0, go[Loop].ch}
        /\ go'[Loop].pc \in {"idle", "handleExited", "checkRunning", "restart"}
    BY <1>0, <1>1, LoopLookEffect
  <2>2. Aside
    BY <1>0, <2>1 DEF Aside, Others, Launching, Stopping
  <2>3. ReservedInv'
    BY <1>0, <2>1, <2>2, AsideReserved
  <2>4. BehindInv'
    BY <1>0, <2>1, <2>2, AsideBehind DEF Others, BehindInv
  <2>5. QED
    BY <1>0, <2>2, <2>3, <2>4, AsideCore
<1>2. CASE HandleExited
  <2>1. /\ go[Loop].pc = "handleExited" /\ go'[Loop].pc = "idle"
        /\ go'[Loop].att = 0 /\ go'[Loop].ch = 0
        /\ p'.State # p.State => p.State = "EXITED"
    BY <1>0, <1>2, HandleExitedEffect
  <2>2. \A u \in Threads : u = Loop \/ go'[u] = go[u] \/
          (/\ go[u].pc = "idle" /\ go'[u].pc = "asleep"
           /\ go'[u].att = go[u].att /\ go'[u].ch = go[u].ch)
    BY <1>0, <1>2, HandleExitedEffect DEF Others
  <2>3. Aside
    BY <1>0, <2>1, <2>2 DEF Aside, Launching, Stopping
  <2>4. ReservedInv'
    BY <1>0, <2>1, <2>3, AsideReserved
  <2>5. BehindInv'
    BY <1>0, <2>1, <2>2, <2>3, AsideBehind DEF BehindInv
  <2>6. QED
    BY <1>0, <2>3, <2>4, <2>5, AsideCore
<1>3. CASE LoopFailed
  <2>1. /\ Others(Loop) /\ go[Loop].pc = "failed" /\ go'[Loop].pc = "idle"
        /\ go'[Loop].att = 0 /\ go'[Loop].ch = 0
        /\ p'.State # p.State => p.State \notin {"RUNNING", "STARTING"}
    BY <1>0, <1>3, LoopFailedEffect
  <2>2. Aside
    BY <1>0, <2>1 DEF Aside, Others, Launching, Stopping
  <2>3. ReservedInv'
    BY <1>0, <2>1, <2>2, AsideReserved
  <2>4. BehindInv'
    <3>1. ASSUME NEW x \in Threads, Behind(x), ~Over(p.monitorDone), go'[x] = go[x]
          PROVE  FALSE
      BY <1>0, <2>1, <3>1 DEF BehindInv
    <3>2. QED
      BY <1>0, <2>2, <3>1, AsideBehind
  <2>5. QED
    BY <1>0, <2>2, <2>3, <2>4, AsideCore
<1>4. QED
  BY <1>1, <1>2, <1>3 DEF LoopStep

LEMMA RestarterOverlap ==
  ASSUME NEW C, FewCallers(C), OverlapInv(C), NEW r \in Restarters, RestarterStep(r)
  PROVE  CoreInv' /\ ReservedInv' /\ BehindInv'
<1>0. /\ TypeInv /\ CoreInv /\ ReservedInv /\ BehindInv /\ SamePtrs /\ Bystanders(C)
      /\ UNCHANGED <<mon, child, attempts, ctxDone, closed, exited, panicked>>
      /\ r \in Threads /\ r \in Workers
  BY WorkerFrameHolds, WorkerThreads, SupervisorAssumption DEF OverlapInv, WorkerFrame
<1>1. /\ Others(r) /\ go'[r].att \in {0, go[r].att} /\ go'[r].ch \in {0, go[r].ch}
      /\ go[r].pc \in {"asleep", "recheckExited", "failed"}
      /\ go'[r].pc \in {"idle", "recheckExited", "start"}
      /\ go'[r].pc = "start" => p.State = "EXITED"
      /\ p'.State # p.State /\ p.State \in {"RUNNING", "STOPPING"} => go[r].pc = "failed"
  BY <1>0, RestarterEffect
<1>2. Aside
  BY <1>0, <1>1 DEF Aside, Others, Launching, Stopping
<1>3. ReservedInv'
  <2>1. ASSUME NEW x \in Threads, NEW u \in Threads, x # u, InHand(x),
               At(u, "awaitMonitor")
        PROVE  FALSE
    <3>1. r \in C /\ x \in C /\ u \in C
      BY <1>0, <1>1, <2>1, CallerInside DEF InHand, At
    <3>2. QED
      BY <1>1, <2>1, <3>1 DEF FewCallers, At, InHand
  <2>2. QED
    BY <1>0, <1>2, <2>1, AsideReserved
<1>4. BehindInv'
  <2>1. ASSUME NEW x \in Threads, Behind(x), ~Over(p.monitorDone), go'[x] = go[x]
        PROVE  /\ p'.State \in {"RUNNING", "STOPPING"}
               /\ \A u \in Threads : u # x /\ u \in Workers =>
                    go'[u].pc \notin {"restarted", "start", "awaitMonitor", "failed"}
    <3>1. CASE r = x
      BY <1>1, <2>1, <3>1 DEF Behind, InHand, At
    <3>2. CASE r # x
      <4>1. go[r].pc # "failed" /\ p.State \in {"RUNNING", "STOPPING"}
        BY <1>0, <2>1, <3>2 DEF BehindInv
      <4>2. p'.State = p.State
        BY <1>1, <4>1
      <4>3. QED
        BY <1>0, <1>1, <2>1, <4>1, <4>2 DEF BehindInv, Others
    <3>3. QED
      BY <3>1, <3>2
  <2>2. QED
    BY <1>0, <1>2, <2>1, AsideBehind
<1>5. QED
  BY <1>0, <1>2, <1>3, <1>4, AsideCore

-----------------------------------------------------------------------------
LEMMA InitOverlap == ASSUME NEW C, Init PROVE OverlapInv(C)
<1>1. TypeInv
  BY InitTypeInv
<1>2. /\ \A t \in Threads : go[t] = Idle /\ Idle.pc = "idle" /\ Idle.att = 0 /\ Idle.ch = 0
      /\ p.Cmd = 0 /\ p.waitCh = 0 /\ p.monitorDone = 0 /\ p.startCancel = 0 /\ attempts = 0
      /\ \A a \in Attempts : mon[a].pc = "none" /\ child[a] = "none"
      /\ ctxDone = {} /\ closed = {} /\ exited = {} /\ ~panicked
  BY DEF Init, InitProcess, Idle
<1>3. CoreInv
  <2>1. OpenedInv
    BY <1>2 DEF OpenedInv
  <2>2. FreshInv /\ MonitorInv /\ CmdInv /\ StopInv /\ DoneInv /\ CondemnedInv
    BY <1>2 DEF FreshInv, MonitorInv, CmdInv, StopInv, DoneInv, CondemnedInv, InHand, At, Over,
                Launching, Stopping
  <2>3. ReachInv
    BY <1>2 DEF ReachInv, Survivors
  <2>4. QED
    BY <2>1, <2>2, <2>3 DEF CoreInv
<1>4. Bystanders(C) /\ ReservedInv /\ BehindInv
  BY <1>2 DEF Bystanders, ReservedInv, BehindInv, Behind, InHand, At
<1>5. QED
  BY <1>1, <1>3, <1>4 DEF OverlapInv

LEMMA StutterOverlap ==
  ASSUME NEW C, OverlapInv(C), UNCHANGED vars PROVE OverlapInv(C)'
<1>1. /\ UNCHANGED <<p, go, mon, child, attempts, ctxDone, closed, exited, panicked>>
      /\ TypeInv /\ CoreInv /\ ReservedInv /\ BehindInv
  BY DEF vars, OverlapInv
<1>2. Aside
  BY <1>1 DEF Aside, SamePtrs, Ptrs
<1>3. CoreInv' /\ ReservedInv' /\ BehindInv'
  BY <1>1, <1>2, AsideCore, AsideReserved, AsideBehind DEF BehindInv
<1>4. TypeInv'
  BY NextTypeInv, <1>1
<1>5. QED
  BY <1>1, <1>3, <1>4 DEF OverlapInv, Bystanders

(* A step of process.go, whoever the callers are *)
LEMMA ProcessOverlap ==
  ASSUME NEW C, FewCallers(C), Operators \subseteq C, OverlapInv(C), ProcessNext
  PROVE  OverlapInv(C)'
<1>0. TypeInv /\ Bystanders(C) /\ Next /\ Operators \subseteq Threads
  BY DEF OverlapInv, Next, Threads
<1>1. TypeInv'
  BY <1>0, NextTypeInv
<1>2. ASSUME NEW t \in Threads, Operation(t)
      PROVE  CoreInv' /\ ReservedInv' /\ BehindInv' /\ Bystanders(C)'
  <2>1. CoreInv' /\ ReservedInv' /\ BehindInv'
    BY <1>2, StartEnterOverlap, StartReserveOverlap, StartSpawnOverlap, StartPublishOverlap,
       StartLaunchOverlap, StartHealthCheckOverlap, StopEnterOverlap, StopMiddleOverlap,
       StopDoneOverlap, RestartOverlap
    DEF Operation, Start, Stop
  <2>2. go[t].pc \notin {"idle", "handleExited", "checkRunning"} /\ Others(t)
    <3>1. CASE Start(t)
      BY <1>0, <3>1, StartEnterEffect, StartReserveEffect, StartSpawnEffect,
         StartPublishEffect, StartLaunchEffect, StartHealthCheckEffect DEF Start
    <3>2. CASE Stop(t)
      BY <1>0, <3>2, StopEnterEffect, StopMiddleEffect, StopDoneEffect DEF Stop
    <3>3. CASE Restart(t)
      BY <1>0, <3>3, RestartEnterEffect, RestartStartEffect DEF Restart
    <3>4. QED
      BY <1>2, <3>1, <3>2, <3>3 DEF Operation
  <2>3. t \in C
    BY <1>0, <2>2, CallerInside
  <2>4. Bystanders(C)'
    BY <1>0, <2>2, <2>3 DEF Bystanders, Others
  <2>5. QED
    BY <2>1, <2>4
<1>3. ASSUME NEW a \in Attempts,
             MonitorStep(a) \/ HealthStep(a) \/ ChildExit(a) \/ ContextKill(a)
      PROVE  CoreInv' /\ ReservedInv' /\ BehindInv' /\ Bystanders(C)'
  <2>1. CoreInv' /\ ReservedInv' /\ BehindInv'
    BY <1>3, MonitorEnterOverlap, MonitorWaitOverlap, MonitorRecordOverlap, MonitorEndOverlap,
       HealthOverlap, ChildOverlap DEF MonitorStep
  <2>2. go' = go
    BY <1>0, <1>3, MonitorEnterEffect, MonitorWaitEffect, MonitorRecordEffect, MonitorEndEffect,
       HealthEffect, ChildEffect DEF MonitorStep
  <2>3. QED
    BY <1>0, <2>1, <2>2 DEF Bystanders
<1>4. ASSUME NEW t \in Operators, NEW op \in {"start", "stop", "restart"}, Call(t, op)
      PROVE  CoreInv' /\ ReservedInv' /\ BehindInv' /\ Bystanders(C)'
  <2>1. CoreInv' /\ ReservedInv' /\ BehindInv'
    BY <1>4, CallOverlap
  <2>2. Others(t)
    BY <1>0, <1>4, CallEffect
  <2>3. QED
    BY <1>0, <2>1, <2>2 DEF Bystanders, Others
<1>5. QED
  BY <1>1, <1>2, <1>3, <1>4 DEF ProcessNext, OverlapInv

(* The goroutines that may be inside Start, Stop or Restart in a configuration: the
   callers of the API, the restart goroutines unless autorestart is off, and the loop
   itself if it restarts unhealthy processes. *)
Callers ==
    Operators \cup (IF AutoRestart THEN Restarters ELSE {})
              \cup (IF HealthCheck /\ HealthCheckRestart THEN {Loop} ELSE {})

LEMMA NextOverlap ==
  ASSUME FewCallers(Callers), OverlapInv(Callers), [Next]_vars PROVE OverlapInv(Callers)'
<1>0. TypeInv /\ Bystanders(Callers) /\ Loop \in Threads /\ Restarters \subseteq Threads
  BY WorkerThreads DEF OverlapInv
<1>1. TypeInv'
  BY <1>0, NextTypeInv
<1>2. CASE ProcessNext
  <2>1. Operators \subseteq Callers
    BY DEF Callers
  <2> HIDE DEF Callers
  <2>2. QED
    BY <1>2, <2>1, ProcessOverlap
<1>3. CASE LoopStep
  <2>1. CoreInv' /\ ReservedInv' /\ BehindInv'
    <3> HIDE DEF Callers
    <3>1. QED
      BY <1>3, LoopOverlap
  <2>2. CASE LoopTick \/ CheckRunning
    <3>1. /\ Others(Loop)
          /\ \/ go'[Loop].pc \in {"idle", "handleExited", "checkRunning"}
             \/ HealthCheck /\ HealthCheckRestart
      BY <1>0, <2>2, LoopLookEffect
    <3>2. Bystanders(Callers)'
      BY <1>0, <3>1 DEF Bystanders, Others, Callers
    <3>3. QED
      BY <1>1, <2>1, <3>2 DEF OverlapInv
  <2>3. CASE HandleExited
    <3>1. go'[Loop].pc = "idle"
      BY <1>0, <2>3, HandleExitedEffect
    <3>2. \A u \in Threads : u = Loop \/ go'[u] = go[u] \/ (u \in Restarters /\ AutoRestart)
      BY <1>0, <2>3, HandleExitedEffect DEF Others
    <3>3. Bystanders(Callers)'
      BY <1>0, <3>1, <3>2 DEF Bystanders, Callers
    <3>4. QED
      BY <1>1, <2>1, <3>3 DEF OverlapInv
  <2>4. CASE LoopFailed
    <3>1. Others(Loop) /\ go'[Loop].pc = "idle"
      BY <1>0, <2>4, LoopFailedEffect
    <3>2. Bystanders(Callers)'
      BY <1>0, <3>1 DEF Bystanders, Others
    <3>3. QED
      BY <1>1, <2>1, <3>2 DEF OverlapInv
  <2>5. QED
    BY <1>3, <2>2, <2>3, <2>4 DEF LoopStep
<1>4. ASSUME NEW r \in Restarters, RestarterStep(r) PROVE OverlapInv(Callers)'
  <2> HIDE DEF Callers
  <2>1. CoreInv' /\ ReservedInv' /\ BehindInv'
    BY <1>4, RestarterOverlap
  <2>2. /\ Others(r) /\ go[r].pc \in {"asleep", "recheckExited", "failed"}
    BY <1>0, <1>4, RestarterEffect
  <2>3. r \in Callers
    BY <1>0, <2>2, CallerInside
  <2>4. Bystanders(Callers)'
    BY <1>0, <2>2, <2>3 DEF Bystanders, Others
  <2>5. QED
    BY <1>1, <2>1, <2>4 DEF OverlapInv
<1>5. CASE UNCHANGED vars
  <2> HIDE DEF Callers
  <2>1. QED
    BY <1>5, StutterOverlap
<1>6. QED
  BY <1>2, <1>3, <1>4, <1>5 DEF Next

(* What the invariant says of the properties *)
LEMMA OverlapSafe ==
  ASSUME NEW C, OverlapInv(C)
  PROVE  ExitConfirmed /\ MonitorOwnsChild /\ NoEscape /\ NewestRuns
         /\ StopConfirmsDeath
<1>1. ExitConfirmed /\ MonitorOwnsChild
  BY DEF OverlapInv, CoreInv, MonitorInv, ExitConfirmed, MonitorOwnsChild, TypeInv, TypeOK
<1>2. NoEscape
  BY DEF OverlapInv, CoreInv, ReachInv, NoEscape, InStart, At
<1>3. NewestRuns
  <2>1. SUFFICES ASSUME NobodyInside, NEW a \in Survivors PROVE a = attempts
    BY DEF NewestRuns
  <2>2. a = p.Cmd /\ ~Over(a) /\ a # 0
    BY <2>1 DEF OverlapInv, CoreInv, ReachInv, NobodyInside, At, Over
  <2>3. QED
    BY <2>1, <2>2 DEF OverlapInv, CoreInv, CmdInv, CondemnedInv, OpenedInv, Survivors
<1>4. StopConfirmsDeath
  BY DEF OverlapInv, CoreInv, StopInv, StopConfirmsDeath, At, Stopping
<1>5. QED
  BY <1>1, <1>2, <1>3, <1>4

(* The invariant holds of process.go by itself and of process.go under the loop. *)
LEMMA ProcessOverlapInvariant ==
  ASSUME FewCallers(Operators) PROVE ProcessSpec => []OverlapInv(Operators)
<1>1. Init => OverlapInv(Operators)
  BY InitOverlap
<1>2. OverlapInv(Operators) /\ [ProcessNext]_vars => OverlapInv(Operators)'
  BY ProcessOverlap, StutterOverlap
<1>3. QED
  BY <1>1, <1>2, PTL DEF ProcessSpec

LEMMA OverlapInvariant ==
  ASSUME FewCallers(Callers) PROVE Spec => []OverlapInv(Callers)
<1>1. Init => OverlapInv(Callers)
  BY InitOverlap
<1>2. OverlapInv(Callers) /\ [Next]_vars => OverlapInv(Callers)'
  BY NextOverlap
<1>3. QED
  BY <1>1, <1>2, PTL DEF Spec

(* No child of process.go escapes: whatever two callers do, a child that nobody condemned is
   the Cmd of the struct or in the hands of the Start that forked it. *)
THEOREM ChildrenStayInHand ==
  ASSUME FewCallers(Operators) PROVE ProcessSpec => []NoEscape
<1>1. OverlapInv(Operators) => NoEscape
  BY OverlapSafe
<1>2. QED
  BY <1>1, ProcessOverlapInvariant, PTL

(* A closed waitCh, which Stop takes for the confirmed death of the process, is that of a
   child that was waited for. *)
THEOREM ExitIsConfirmed ==
  ASSUME FewCallers(Operators) PROVE ProcessSpec => []ExitConfirmed
<1>1. OverlapInv(Operators) => ExitConfirmed
  BY OverlapSafe
<1>2. QED
  BY <1>1, ProcessOverlapInvariant, PTL

(* monitor() reads p.Cmd and p.monitorDone late and without the lock, and still waits for the
   child it was started for and closes that attempt's channel, once. *)
THEOREM MonitorsOwnTheirChild ==
  ASSUME FewCallers(Operators) PROVE ProcessSpec => []MonitorOwnsChild
<1>1. OverlapInv(Operators) => MonitorOwnsChild
  BY OverlapSafe
<1>2. QED
  BY <1>1, ProcessOverlapInvariant, PTL

(* When Stop goes on to clear Cmd, the child it captured is dead or has its SIGKILL: whether
   a wait ended by the channel or by its timeout, and with two callers too. *)
THEOREM StopLeavesNoneAlive ==
  ASSUME FewCallers(Operators) PROVE ProcessSpec => []StopConfirmsDeath
<1>1. OverlapInv(Operators) => StopConfirmsDeath
  BY OverlapSafe
<1>2. QED
  BY <1>1, ProcessOverlapInvariant, PTL

(* The same four, when the monitor loop and its restart goroutines are among the callers. *)
THEOREM RestartsStayInHand ==
  ASSUME FewCallers(Callers)
  PROVE  Spec => [](NoEscape /\ ExitConfirmed /\ MonitorOwnsChild /\ StopConfirmsDeath)
<1>1. OverlapInv(Callers) =>
        NoEscape /\ ExitConfirmed /\ MonitorOwnsChild /\ StopConfirmsDeath
  BY OverlapSafe
<1>2. QED
  BY <1>1, OverlapInvariant, PTL

(* However an operator's Starts overlap those of the loop, the child that is left running is
   that of the newest attempt. *)
THEOREM NewestIsLeftRunning ==
  ASSUME FewCallers(Callers) PROVE Spec => []NewestRuns
<1>1. OverlapInv(Callers) => NewestRuns
  BY OverlapSafe
<1>2. QED
  BY <1>1, OverlapInvariant, PTL

-----------------------------------------------------------------------------
(***************************************************************************)
(* One caller at a time. Then an operation is never overtaken by another,  *)
(* only by the monitor goroutine and the child, and the state can be       *)
(* relied on.                                                              *)
(***************************************************************************)
(* There is one caller, or none. *)
Alone(C) == \A t, u \in C : t = u

(* With one caller, who is never overtaken: an attempt in the hands of Start is not
   condemned; a published one is RUNNING, or STOPPING under a Stop that has captured it,
   and its context is cancelled only when its monitor has seen the child end; and a
   child that got the stop signal is the business of that Stop. *)
SoloInv ==
    /\ \A t \in Threads : InHand(t) => p.State = "STARTING" /\ go[t].att \notin ctxDone
    /\ p.Cmd # 0 /\ ~Over(p.Cmd) =>
          /\ \/ p.State = "RUNNING"
             \/ p.State = "STOPPING" /\ \E t \in Threads : go[t].pc \in Stopping \cup {"stop"}
          /\ mon[p.Cmd].pc \in {"none", "entry", "wait"} => p.Cmd \notin ctxDone
    /\ \A t \in Threads : go[t].pc \in Stopping => go[t].att = p.Cmd
    /\ \A a \in Attempts : child[a] = "signalled" =>
          \E t \in Threads : go[t].pc \in {"grace", "recheck", "kill"} /\ go[t].att = a

(* Nobody but the caller that takes the step is inside. *)
LEMMA SoleCaller ==
  ASSUME NEW C, Alone(C), Bystanders(C), NEW t \in Threads,
         go[t].pc \notin {"idle", "handleExited", "checkRunning"}, Others(t)
  PROVE  \A u \in Threads : u # t =>
            /\ go[u].pc \in {"idle", "handleExited", "checkRunning"}
            /\ go'[u] = go[u]
  BY CallerInside DEF Alone, Bystanders, Others

LEMMA StartSolo ==
  ASSUME NEW C, Alone(C), OverlapInv(C), SoloInv, NEW t \in Threads, Start(t)
  PROVE  SoloInv'
<1>0. TypeInv /\ Bystanders(C) /\ CoreInv /\ go[t].att \in Ref /\ p.Cmd \in Ref
  BY RefFacts DEF OverlapInv
<1>1. /\ Others(t)
      /\ go[t].pc \in {"start", "awaitMonitor", "spawn", "publish", "launch", "health"}
  BY <1>0, StartEnterEffect, StartReserveEffect, StartSpawnEffect, StartPublishEffect,
     StartLaunchEffect, StartHealthCheckEffect DEF Start
<1>2. \A u \in Threads : u # t => /\ go[u].pc \in {"idle", "handleExited", "checkRunning"}
                                  /\ go'[u] = go[u]
  BY <1>0, <1>1, SoleCaller
<1>3. /\ \A u \in Threads : go[u].pc \notin Stopping \cup {"stop"}
      /\ \A a \in Attempts : child[a] # "signalled"
      /\ p.Cmd # 0 /\ ~Over(p.Cmd) => p.State = "RUNNING"
  BY <1>1, <1>2 DEF SoloInv, Stopping
<1>4. CASE StartEnter(t)
  <2>1. /\ UNCHANGED <<p, mon, child>> /\ go'[t].pc \notin {"spawn", "publish"} \cup Stopping
        /\ p.State # "RUNNING" \/ ctxDone' = ctxDone
    BY <1>0, <1>4, StartEnterEffect DEF Stopping
  <2>2. QED
    BY <1>2, <1>3, <2>1 DEF SoloInv, InHand, Over, Stopping
<1>5. CASE StartReserve(t)
  <2>1. /\ UNCHANGED <<mon, child, ctxDone>> /\ go'[t].pc \notin Stopping
        /\ \/ UNCHANGED p /\ go'[t].pc \notin {"spawn", "publish"}
           \/ /\ p'.Cmd = 0 /\ attempts < MaxAttempts
              /\ \/ go'[t].pc \notin {"spawn", "publish"}
                 \/ p'.State = "STARTING" /\ go'[t].att = attempts + 1
    BY <1>0, <1>5, StartReserveEffect DEF Ptrs, Stopping
  <2>2. attempts < MaxAttempts => attempts + 1 \notin ctxDone
    <3>1. attempts \in Ref /\ ctxDone \subseteq Attempts /\ MaxAttempts \in Nat
      BY <1>0, ProcessAssumption DEF TypeInv, TypeOK
    <3>2. \A a \in Attempts : a > attempts => a \notin ctxDone
      BY <1>0 DEF CoreInv, OpenedInv
    <3>3. QED
      BY <3>1, <3>2 DEF Ref, Attempts
  <2>3. QED
    BY <1>2, <1>3, <2>1, <2>2 DEF SoloInv, InHand, Over, Stopping
<1>6. CASE StartSpawn(t)
  <2>0. child \in [Attempts -> ChildState]
    BY <1>0 DEF TypeInv, TypeOK
  <2>1. /\ UNCHANGED <<mon, ctxDone>> /\ go'[t].pc \notin Stopping /\ p'.Cmd = p.Cmd
        /\ \/ p'.State = p.State /\ go'[t].att = go[t].att /\ go'[t].pc = "publish"
           \/ go'[t].pc \notin {"spawn", "publish"}
        /\ child' = child \/ child' = [child EXCEPT ![go[t].att] = "alive"]
        /\ go[t].pc = "spawn"
    BY <1>0, <1>6, StartSpawnEffect DEF SamePtrs, Ptrs, Stopping
  <2>2. \A a \in Attempts : child'[a] # "signalled"
    BY <1>3, <2>0, <2>1
  <2>3. p.State = "STARTING" /\ go[t].att \notin ctxDone
    BY <2>1 DEF SoloInv, InHand
  <2>4. QED
    BY <1>2, <1>3, <2>1, <2>2, <2>3 DEF SoloInv, InHand, Over, Stopping
<1>7. CASE StartPublish(t)
  <2>1. p.State = "STARTING" /\ go[t].att \notin ctxDone
    BY <1>0, <1>7, StartPublishEffect DEF SoloInv, InHand
  <2>2. /\ UNCHANGED <<mon, ctxDone, child>> /\ go'[t].pc = "launch"
        /\ p'.State = "RUNNING" /\ p'.Cmd = go[t].att
    BY <1>0, <1>7, <2>1, StartPublishEffect DEF Ptrs
  <2>3. QED
    BY <1>2, <1>3, <2>1, <2>2 DEF SoloInv, InHand, Over, Stopping
<1>8. CASE StartLaunch(t)
  <2>1. /\ UNCHANGED <<p, ctxDone, child>> /\ go'[t].pc \in {"idle", "health"}
        /\ go[t].pc = "launch"
    BY <1>0, <1>8, StartLaunchEffect
  <2>2. go[t].att \in Attempts /\ mon[go[t].att].pc = "none"
    BY <1>0, <2>1 DEF CoreInv, MonitorInv, At
  <2>3. /\ mon'[go[t].att].pc = "entry"
        /\ \A a \in Attempts : a # go[t].att => mon'[a] = mon[a]
    BY <1>0, <1>8, <2>2, StartLaunchEffect
  <2>4. p.Cmd # 0 => p.Cmd \in Attempts
    BY <1>0, RefFacts
  <2>5. /\ p.Cmd # 0 /\ ~Over(p.Cmd)' => ~Over(p.Cmd)
        /\ p.Cmd # 0 /\ mon'[p.Cmd].pc \in {"none", "entry", "wait"} =>
              mon[p.Cmd].pc \in {"none", "entry", "wait"}
    BY <2>1, <2>2, <2>3, <2>4 DEF Over
  <2>6. QED
    BY <1>2, <1>3, <2>1, <2>5 DEF SoloInv, InHand, Over, Stopping
<1>9. CASE StartHealthCheck(t)
  <2>1. /\ UNCHANGED <<mon, ctxDone, child>> /\ go'[t].pc = "idle"
        /\ p'.Cmd = p.Cmd /\ p'.State = p.State
    BY <1>0, <1>9, StartHealthCheckEffect DEF SamePtrs, Ptrs
  <2>2. QED
    BY <1>2, <1>3, <2>1 DEF SoloInv, InHand, Over, Stopping
<1>10. QED
  BY <1>4, <1>5, <1>6, <1>7, <1>8, <1>9 DEF Start

LEMMA StopSolo ==
  ASSUME NEW C, Alone(C), OverlapInv(C), SoloInv, NEW t \in Threads, Stop(t) \/ Restart(t)
  PROVE  SoloInv'
<1>0. /\ TypeInv /\ Bystanders(C) /\ CoreInv /\ go[t].att \in Ref /\ p.Cmd \in Ref
      /\ child \in [Attempts -> ChildState]
  BY RefFacts DEF OverlapInv, TypeInv, TypeOK
<1>1. Others(t) /\ go[t].pc \in Stopping \cup {"stop", "restart", "restarted"}
  BY <1>0, StopEnterEffect, StopMiddleEffect, StopDoneEffect, RestartEnterEffect,
     RestartStartEffect DEF Stop, Restart, Stopping
<1>2. \A u \in Threads : u # t => /\ go[u].pc \in {"idle", "handleExited", "checkRunning"}
                                  /\ go'[u] = go[u]
  BY <1>0, <1>1, SoleCaller DEF Stopping
<1>3. /\ \A u \in Threads : ~InHand(u)
      /\ \A u \in Threads : go[u].pc \in Stopping \cup {"stop"} => u = t
      /\ \A a \in Attempts : child[a] = "signalled" =>
            go[t].pc \in {"grace", "recheck", "kill"} /\ go[t].att = a
  BY <1>1, <1>2 DEF SoloInv, Stopping, InHand
<1>4. CASE StopEnter(t)
  <2>1. /\ go[t].pc = "stop" /\ p'.Cmd = p.Cmd /\ UNCHANGED <<mon, child, ctxDone>>
        /\ \/ /\ p.Cmd = 0 \/ p.State \notin {"RUNNING", "STOPPING"}
              /\ go'[t].pc \in {"restarted", "idle"}
           \/ p'.State = "STOPPING" /\ go'[t].pc = "signal" /\ go'[t].att = p.Cmd
    BY <1>0, <1>4, StopEnterEffect DEF SamePtrs, Ptrs
  <2>2. \A a \in Attempts : child[a] # "signalled"
    BY <1>3, <2>1
  <2>3. QED
    BY <1>2, <1>3, <2>1, <2>2 DEF SoloInv, InHand, Over, Stopping
<1>5. CASE StopSignal(t) \/ StopGrace(t) \/ StopRecheck(t) \/ StopKill(t) \/ StopKillWait(t)
  <2>1. /\ UNCHANGED <<p, mon, ctxDone>> /\ go'[t].att = go[t].att /\ go'[t].ch = go[t].ch
        /\ go[t].pc \in Stopping \ {"done"}
        /\ go'[t].pc \in {"grace", "recheck", "kill", "killwait", "done"}
    BY <1>0, <1>5, StopMiddleEffect DEF Stopping
  <2>2. go[t].att = p.Cmd /\ go[t].att \in Attempts
    BY <1>0, <2>1 DEF SoloInv, CoreInv, StopInv
  <2>3. \A a \in Attempts : child'[a] = "signalled" =>
          go'[t].pc \in {"grace", "recheck", "kill"} /\ go'[t].att = a
    <3>1. CASE StopSignal(t)
      BY <1>0, <1>3, <2>1, <2>2, <3>1, StopMiddleEffect DEF Signalled
    <3>2. CASE StopGrace(t) \/ StopRecheck(t)
      <4>1. /\ child' = child /\ go[t].pc \in {"grace", "recheck"}
            /\ \/ go[t].ch \in exited /\ go'[t].pc = "done"
               \/ go'[t].pc \in {"recheck", "kill"}
        BY <1>0, <3>2, StopMiddleEffect
      <4>2. go[t].ch \in exited => child[go[t].att] = "reaped"
        BY <1>0, <4>1 DEF CoreInv, StopInv, MonitorInv, Stopping, TypeInv, TypeOK
      <4>3. QED
        BY <1>3, <2>1, <2>2, <4>1, <4>2
    <3>3. CASE StopKill(t)
      <4>1. child' = Killed(go[t].att) /\ go[t].pc = "kill"
        BY <1>0, <3>3, StopMiddleEffect
      <4>2. \A a \in Attempts : child'[a] # "signalled"
        BY <1>0, <1>3, <2>2, <4>1, RefFacts DEF Killed, Alive
      <4>3. QED
        BY <4>2
    <3>4. CASE StopKillWait(t)
      BY <1>0, <1>3, <3>4, StopMiddleEffect
    <3>5. QED
      BY <1>5, <3>1, <3>2, <3>3, <3>4
  <2>4. go'[t].pc \in Stopping
    BY <2>1 DEF Stopping
  <2>5. QED
    BY <1>2, <1>3, <2>1, <2>2, <2>3, <2>4 DEF SoloInv, InHand, Over, Stopping
<1>6. CASE StopDone(t)
  <2>1. /\ go[t].pc = "done" /\ p'.Cmd = 0 /\ UNCHANGED <<mon, child>>
        /\ go'[t].pc \in {"restarted", "idle"}
    BY <1>0, <1>6, StopDoneEffect DEF Ptrs
  <2>2. QED
    BY <1>2, <1>3, <2>1 DEF SoloInv, InHand, Over, Stopping
<1>7. CASE RestartEnter(t)
  <2>1. /\ go[t].pc = "restart" /\ p'.Cmd = p.Cmd /\ UNCHANGED <<mon, child, ctxDone>>
        /\ go'[t].pc \in {"failed", "idle", "stop"}
        /\ p'.State = p.State \/ (p'.State = "STOPPING" /\ go'[t].pc = "stop")
    BY <1>0, <1>7, RestartEnterEffect DEF SamePtrs, Ptrs
  <2>2. QED
    BY <1>2, <1>3, <2>1 DEF SoloInv, InHand, Over, Stopping
<1>8. CASE RestartStart(t)
  <2>1. /\ go[t].pc = "restarted" /\ UNCHANGED <<p, mon, child, ctxDone>>
        /\ go'[t].pc \in {"idle", "start"}
    BY <1>0, <1>8, RestartStartEffect
  <2>2. QED
    BY <1>2, <1>3, <2>1 DEF SoloInv, InHand, Over, Stopping
<1>9. QED
  BY <1>4, <1>5, <1>6, <1>7, <1>8 DEF Stop, Restart

LEMMA MonitorSolo ==
  ASSUME NEW C, Alone(C), OverlapInv(C), SoloInv, NEW a \in Attempts, MonitorStep(a)
  PROVE  SoloInv'
<1>0. /\ TypeInv /\ CoreInv /\ BehindInv /\ p.Cmd \in Ref /\ p.monitorDone \in Ref
      /\ child \in [Attempts -> ChildState] /\ a # 0
      /\ p.Cmd # 0 => p.Cmd \in Attempts
  BY RefFacts DEF OverlapInv, TypeInv, TypeOK
<1>1. CASE MonitorEnter(a)
  <2>1. /\ UNCHANGED <<p, go, child, ctxDone>> /\ mon[a].pc = "entry" /\ MonOthers(a)
        /\ mon'[a].pc = "wait" \/ p.Cmd = 0
    BY <1>0, <1>1, MonitorEnterEffect
  <2>2. p.Cmd # 0 => /\ ~Over(p.Cmd)' => ~Over(p.Cmd)
                     /\ mon'[p.Cmd].pc \in {"none", "entry", "wait"} =>
                           mon[p.Cmd].pc \in {"none", "entry", "wait"}
    BY <1>0, <2>1 DEF MonOthers, Over
  <2>3. QED
    BY <2>1, <2>2 DEF SoloInv, InHand, Over
<1>2. ASSUME mon[a].pc \in {"wait", "record"}
      PROVE  /\ \A t \in Threads : ~InHand(t)
             /\ a = p.monitorDone /\ (p.Cmd # 0 => p.Cmd = a)
  <2>1. a = p.monitorDone /\ ~Over(a)
    BY <1>0, <1>2 DEF CoreInv, MonitorInv, Over
  <2>2. p.Cmd # 0 => p.Cmd = a
    BY <1>0, <2>1 DEF CoreInv, CmdInv
  <2>3. \A t \in Threads : ~InHand(t)
    BY <1>0, <2>1 DEF BehindInv, Behind, SoloInv
  <2>4. QED
    BY <2>1, <2>2, <2>3
<1>3. CASE MonitorWait(a)
  <2>1. /\ UNCHANGED <<p, go>> /\ mon[a].pc = "wait" /\ mon'[a].pc = "record"
        /\ child' = [child EXCEPT ![mon[a].cmd] = "reaped"]
    BY <1>0, <1>3, MonitorWaitEffect
  <2>2. \A b \in Attempts : child'[b] = "signalled" => child[b] = "signalled"
    BY <1>0, <2>1
  <2>3. p.Cmd # 0 => ~Over(p.Cmd) /\ mon'[p.Cmd].pc = "record"
    BY <1>0, <1>2, <2>1 DEF Over
  <2>4. QED
    BY <1>2, <2>1, <2>2, <2>3 DEF SoloInv, InHand, Over
<1>4. CASE MonitorRecord(a)
  <2>1. /\ UNCHANGED <<go, child>> /\ mon[a].pc = "record" /\ mon'[a].pc = "hook"
        /\ p'.Cmd = p.Cmd
    BY <1>0, <1>4, MonitorRecordEffect DEF Ptrs
  <2>2. p'.Cmd # 0 => Over(p.Cmd)'
    BY <1>2, <2>1 DEF Over
  <2>3. QED
    BY <1>2, <2>1, <2>2 DEF SoloInv, InHand, Over
<1>5. CASE MonitorEnd(a)
  <2>1. /\ UNCHANGED <<p, go, child, ctxDone>> /\ mon[a].pc = "hook" /\ mon'[a].pc = "end"
        /\ MonOthers(a)
    BY <1>0, <1>5, MonitorEndEffect
  <2>2. p.Cmd # 0 => /\ ~Over(p.Cmd)' => ~Over(p.Cmd)
                     /\ mon'[p.Cmd].pc \in {"none", "entry", "wait"} =>
                           mon[p.Cmd].pc \in {"none", "entry", "wait"}
    BY <1>0, <2>1 DEF MonOthers, Over
  <2>3. QED
    BY <2>1, <2>2 DEF SoloInv, InHand, Over
<1>6. QED
  BY <1>1, <1>3, <1>4, <1>5 DEF MonitorStep

LEMMA ProcessSolo ==
  ASSUME NEW C, Alone(C), Operators \subseteq C, OverlapInv(C), SoloInv, [ProcessNext]_vars
  PROVE  SoloInv'
<1>0. TypeInv /\ Bystanders(C) /\ Operators \subseteq Threads
  BY DEF OverlapInv, Threads
<1>1. ASSUME NEW t \in Threads, Operation(t) PROVE SoloInv'
  BY <1>1, StartSolo, StopSolo DEF Operation
<1>2. ASSUME NEW a \in Attempts, MonitorStep(a) PROVE SoloInv'
  BY <1>2, MonitorSolo
<1>3. ASSUME NEW a \in Attempts, HealthStep(a) PROVE SoloInv'
  <2>1. UNCHANGED <<go, mon, child, ctxDone>> /\ p'.Cmd = p.Cmd /\ p'.State = p.State
    BY <1>0, <1>3, HealthEffect DEF SamePtrs, Ptrs
  <2>2. QED
    BY <2>1 DEF SoloInv, InHand, Over
<1>4. ASSUME NEW a \in Attempts, ChildExit(a) \/ ContextKill(a) PROVE SoloInv'
  <2>1. /\ UNCHANGED <<p, go, mon, ctxDone>>
        /\ \A b \in Attempts : child'[b] = child[b] \/ child'[b] \in {"zombie", "killed"}
    BY <1>0, <1>4, ChildEffect
  <2>2. QED
    BY <2>1 DEF SoloInv, InHand, Over
<1>5. ASSUME NEW t \in Operators, NEW op \in {"start", "stop", "restart"}, Call(t, op)
      PROVE  SoloInv'
  <2>1. /\ UNCHANGED <<p, mon, child, ctxDone>> /\ Others(t) /\ go[t].pc = "idle"
        /\ go'[t].pc \in {"start", "stop", "restart"} /\ t \in Threads
    BY <1>0, <1>5, CallEffect
  <2>2. \A u \in Threads : u # t => go[u].pc \in {"idle", "handleExited", "checkRunning"}
    BY <1>0, <1>5 DEF Alone, Bystanders
  <2>3. QED
    BY <2>1, <2>2 DEF SoloInv, InHand, Over, Others, Stopping
<1>6. CASE UNCHANGED vars
  BY <1>6 DEF vars, SoloInv, InHand, Over
<1>7. QED
  BY <1>1, <1>2, <1>3, <1>4, <1>5, <1>6 DEF ProcessNext

LEMMA AloneIsFew == ASSUME NEW C, Alone(C) PROVE FewCallers(C)
  BY DEF Alone, FewCallers

LEMMA InitSolo == Init => SoloInv
<1>1. SUFFICES ASSUME Init PROVE SoloInv
  OBVIOUS
<1>2. /\ \A t \in Threads : go[t].pc = "idle"
      /\ \A a \in Attempts : child[a] = "none"
  BY <1>1 DEF Init, InitProcess, Idle
<1>3. p.Cmd = 0
  BY <1>1 DEF Init, InitProcess
<1>4. QED
  BY <1>2, <1>3 DEF SoloInv, InHand, Stopping

LEMMA SoloInvariant ==
  ASSUME Alone(Operators) PROVE ProcessSpec => [](OverlapInv(Operators) /\ SoloInv)
<1>1. FewCallers(Operators)
  BY AloneIsFew
<1>2. OverlapInv(Operators) /\ SoloInv /\ [ProcessNext]_vars => SoloInv'
  BY ProcessSolo
<1>3. QED
  BY <1>1, <1>2, InitSolo, ProcessOverlapInvariant, PTL DEF ProcessSpec

(* A child that survives is that of the published attempt, and its monitor is at work. *)
LEMMA SurvivorWatched ==
  ASSUME OverlapInv(Operators), SoloInv, NEW a \in Attempts, a = p.Cmd, ~Over(a),
         child[a] \in Alive
  PROVE  /\ p.State \in {"RUNNING", "STOPPING"}
         /\ mon[a].pc \in {"none", "entry", "wait"} /\ a \notin ctxDone
<1>1. TypeInv /\ MonitorInv /\ a # 0
  BY RefFacts DEF OverlapInv, CoreInv
<1>2. mon[a].pc \in {"none", "entry", "wait"}
  BY <1>1 DEF MonitorInv, TypeInv, TypeOK, MonitorType, Over, Alive
<1>3. QED
  BY <1>1, <1>2 DEF SoloInv

LEMMA SoloTruth ==
  ASSUME OverlapInv(Operators), SoloInv PROVE StateTellsTruth
<1>1. SUFFICES ASSUME NobodyInside, NEW a \in Survivors
               PROVE  p.State = "RUNNING" /\ p.Cmd = a /\ mon[a].pc \in {"entry", "wait"}
  BY DEF StateTellsTruth
<1>2. /\ \A t \in Threads : go[t].pc = "idle"
      /\ a \in Attempts /\ child[a] \in Alive
  BY <1>1 DEF NobodyInside, At, Survivors, Alive
<1>3. a = p.Cmd /\ ~Over(a)
  BY <1>1, <1>2 DEF OverlapInv, CoreInv, ReachInv, At
<1>4. mon[a].pc \in {"none", "entry", "wait"}
  BY <1>2, <1>3, SurvivorWatched
<1>5. mon[a].pc # "none"
  <2>1. p.Cmd = p.monitorDone /\ p.Cmd # 0
    BY <1>2, <1>3, RefFacts DEF OverlapInv, CoreInv, CmdInv
  <2>2. QED
    BY <1>2, <1>3, <2>1 DEF OverlapInv, CoreInv, MonitorInv, At
<1>6. p.State = "RUNNING"
  BY <1>2, <1>3, RefFacts DEF SoloInv, Stopping, OverlapInv
<1>7. QED
  BY <1>3, <1>4, <1>5, <1>6

LEMMA SoloGraceful ==
  ASSUME Alone(Operators), OverlapInv(Operators), SoloInv, ProcessNext,
         NEW a \in Attempts, child[a] = "signalled", child'[a] = "killed"
  PROVE  \E t \in Threads : At(t, "kill") /\ go[t].att = a
<1>0. TypeInv /\ CoreInv /\ child \in [Attempts -> ChildState] /\ Operators \subseteq Threads
  BY DEF OverlapInv, TypeInv, TypeOK, Threads
<1>1. PICK s \in Threads : go[s].pc \in {"grace", "recheck", "kill"} /\ go[s].att = a
  BY DEF SoloInv
<1>2. a = p.Cmd /\ a \notin ctxDone /\ a # 0
  <2>1. a = p.Cmd /\ a # 0
    BY <1>0, <1>1, RefFacts DEF SoloInv, Stopping
  <2>2. ~Over(a)
    BY <1>0, <2>1 DEF CoreInv, CmdInv
  <2>3. QED
    BY <2>1, <2>2, SurvivorWatched DEF Alive
<1>3. ASSUME NEW t \in Threads, Start(t) PROVE FALSE
  <2>1. child' # child
    OBVIOUS
  <2>2. CASE StartSpawn(t)
    BY <1>0, <2>1, <2>2, StartSpawnEffect
  <2>3. CASE StartPublish(t)
    <3>1. p.State # "STARTING" /\ go[t].pc = "publish"
      BY <1>0, <2>1, <2>3, StartPublishEffect
    <3>2. QED
      BY <3>1 DEF SoloInv, InHand
  <2>4. QED
    BY <1>0, <1>3, <2>1, <2>2, <2>3, StartEnterEffect, StartReserveEffect, StartLaunchEffect,
       StartHealthCheckEffect DEF Start
<1>4. ASSUME NEW t \in Threads, Stop(t) \/ Restart(t)
      PROVE  At(t, "kill") /\ go[t].att = a
  <2>1. child' # child
    OBVIOUS
  <2>2. CASE StopSignal(t)
    BY <1>0, <2>2, StopMiddleEffect DEF Signalled
  <2>3. CASE StopKill(t)
    BY <1>0, <2>3, StopMiddleEffect DEF Killed, At
  <2>4. QED
    BY <1>0, <1>4, <2>1, <2>2, <2>3, StopEnterEffect, StopMiddleEffect, StopDoneEffect,
       RestartEnterEffect, RestartStartEffect DEF Stop, Restart
<1>5. ASSUME NEW b \in Attempts,
             MonitorStep(b) \/ HealthStep(b) \/ ChildExit(b) \/ ContextKill(b)
      PROVE  FALSE
  <2>1. child' # child
    OBVIOUS
  <2>2. CASE MonitorWait(b)
    BY <1>0, <2>2, MonitorWaitEffect
  <2>3. CASE ChildExit(b) \/ ContextKill(b)
    BY <1>0, <1>2, <2>3, ChildEffect
  <2>4. QED
    BY <1>0, <1>5, <2>1, <2>2, <2>3, MonitorEnterEffect, MonitorRecordEffect, MonitorEndEffect,
       HealthEffect DEF MonitorStep
<1>6. ASSUME NEW t \in Operators, NEW op \in {"start", "stop", "restart"}, Call(t, op)
      PROVE  FALSE
  BY <1>0, <1>6, CallEffect
<1>7. QED
  BY <1>3, <1>4, <1>5, <1>6 DEF ProcessNext, Operation

(* With one caller the state tells the truth whenever that caller is not inside the API: a
   child that survives is the Cmd of a RUNNING process and its monitor watches it.  Killed
   children may linger (KillTimely is not assumed). *)
THEOREM StateIsTrue ==
  ASSUME Alone(Operators) PROVE ProcessSpec => []StateTellsTruth
<1>1. OverlapInv(Operators) /\ SoloInv => StateTellsTruth
  BY SoloTruth
<1>2. QED
  BY <1>1, SoloInvariant, PTL

(* With one caller a child that got the stop signal is killed by nobody but Stop, after the
   grace period: not by the context that Stop and monitor() cancel. *)
THEOREM StopsGracefully ==
  ASSUME Alone(Operators) PROVE ProcessSpec => GracefulStop
<1>1. OverlapInv(Operators) /\ SoloInv /\ [ProcessNext]_vars =>
        [\A a \in Attempts : child[a] = "signalled" /\ child'[a] = "killed" =>
           \E t \in Threads : At(t, "kill") /\ go[t].att = a]_vars
  BY SoloGraceful
<1>2. QED
  BY <1>1, SoloInvariant, PTL DEF ProcessSpec, GracefulStop

-----------------------------------------------------------------------------
(***************************************************************************)
(* One health checker, whoever calls. startHealthCheck cancels the checker *)
(* the struct points at and points it at its own, so a checker that acts   *)
(* is the one the struct points at; the attempt of a Start has no checker  *)
(* yet, and nobody else will start or cancel one for it.                   *)
(***************************************************************************)
Holding == {"spawn", "publish", "launch", "health"}

CheckerInv ==
    /\ p.healthCheckCancel <= attempts
    /\ \A a \in Attempts : a > attempts => hc[a] = "none" /\ a \notin hcDone
    /\ \A t \in Threads : go[t].pc \in Holding =>
          /\ go[t].att \in Attempts /\ go[t].att <= attempts
          /\ hc[go[t].att] = "none" /\ go[t].att \notin hcDone
          /\ go[t].att # p.healthCheckCancel
    /\ \A t, u \in Threads :
          t # u /\ go[t].pc \in Holding /\ go[u].pc \in Holding => go[t].att # go[u].att
    /\ \A a \in Checkers : a = p.healthCheckCancel
    /\ HealthCheck /\ p.State = "RUNNING" /\ p.Cmd # 0 =>
          \/ \E a \in Attempts : a \in Checkers
          \/ \E t \in Threads : go[t].pc \in {"launch", "health"}

LEMMA CheckerFacts ==
  ASSUME TypeInv
  PROVE  /\ p.healthCheckCancel \in Nat /\ attempts \in Nat /\ MaxAttempts \in Nat
         /\ hc \in [Attempts -> HealthType] /\ hcDone \subseteq Attempts
         /\ Attempts = 1 .. MaxAttempts
  BY ProcessAssumption DEF TypeInv, TypeOK, ProcessType, Ref, Attempts

LEMMA InitChecker == Init => CheckerInv
<1>1. SUFFICES ASSUME Init PROVE CheckerInv
  OBVIOUS
<1>2. \A t \in Threads : go[t].pc = "idle"
  BY <1>1 DEF Init, Idle
<1>3. /\ p.healthCheckCancel = 0 /\ p.State = "STOPPED" /\ attempts = 0 /\ hcDone = {}
      /\ \A a \in Attempts : hc[a] = "none"
  BY <1>1 DEF Init, InitProcess
<1>4. QED
  BY <1>2, <1>3 DEF CheckerInv, Checkers, Holding

(* A step that neither starts nor cancels a checker, and hands no attempt to a Start *)
CheckerFrame ==
    /\ p'.healthCheckCancel = p.healthCheckCancel
    /\ UNCHANGED <<hc, hcDone, attempts>>
    /\ \A t \in Threads : go'[t].pc \in Holding => go[t].pc \in Holding /\ go'[t].att = go[t].att
    /\ HealthCheck /\ p'.State = "RUNNING" /\ p'.Cmd # 0 =>
          \/ \E t \in Threads : go'[t].pc \in {"launch", "health"}
          \/ /\ p.State = "RUNNING" /\ p.Cmd # 0
             /\ \A t \in Threads : go[t].pc \notin {"launch", "health"}

LEMMA FrameChecker == ASSUME CheckerInv, CheckerFrame PROVE CheckerInv'
  BY DEF CheckerInv, CheckerFrame, Checkers

(* for a step of one goroutine that is not at the end of Start *)
LEMMA OwnFrame ==
  ASSUME NEW t \in Threads, Others(t), UNCHANGED <<hc, hcDone, attempts>>,
         p'.healthCheckCancel = p.healthCheckCancel,
         go[t].pc \notin {"launch", "health"} \/ go'[t].pc \in {"launch", "health"} \/ ~HealthCheck,
         go'[t].pc \in Holding => go[t].pc \in Holding /\ go'[t].att = go[t].att,
         p'.State = "RUNNING" /\ p'.Cmd # 0 =>
            \/ p.State = "RUNNING" /\ p.Cmd # 0
            \/ go'[t].pc \in {"launch", "health"}
  PROVE  CheckerFrame
  BY DEF CheckerFrame, Others

LEMMA StartChecker ==
  ASSUME TypeInv, CheckerInv, NEW t \in Threads, Start(t) PROVE CheckerInv'
<1>0. /\ p.healthCheckCancel \in Nat /\ attempts \in Nat /\ MaxAttempts \in Nat
      /\ hc \in [Attempts -> HealthType] /\ hcDone \subseteq Attempts
      /\ Attempts = 1 .. MaxAttempts
  BY CheckerFacts
<1>1. CASE StartEnter(t)
  <2>1. /\ Others(t) /\ UNCHANGED <<p, hc, hcDone, attempts>> /\ go[t].pc = "start"
        /\ go'[t].pc \notin Holding
    BY <1>1, StartEnterEffect DEF Holding
  <2>2. CheckerFrame
    BY <2>1, OwnFrame
  <2>3. QED
    BY <2>2, FrameChecker
<1>2. CASE StartReserve(t)
  <2>1. /\ Others(t) /\ UNCHANGED <<hc, hcDone>> /\ go[t].pc = "awaitMonitor"
        /\ p'.healthCheckCancel = p.healthCheckCancel
    BY <1>2, StartReserveEffect
  <2>2. CASE UNCHANGED <<p, attempts>>
    <3>1. go'[t].pc \notin Holding
      BY <1>2, <2>2, StartReserveEffect, <1>0 DEF Holding
    <3>2. CheckerFrame
      BY <2>1, <2>2, <3>1, OwnFrame
    <3>3. QED
      BY <3>2, FrameChecker
  <2>3. CASE ~UNCHANGED <<p, attempts>>
    <3>1. /\ attempts' = attempts + 1 /\ attempts < MaxAttempts
          /\ p'.State # "RUNNING"
          /\ go'[t].pc \in Holding => go'[t].att = attempts'
      BY <1>2, <2>3, StartReserveEffect DEF Holding
    <3>2. /\ attempts' \in Attempts /\ attempts' > attempts
          /\ \A a \in Attempts : /\ a > attempts' => a > attempts
                                 /\ a <= attempts => a <= attempts' /\ a # attempts'
          /\ p.healthCheckCancel <= attempts =>
               p.healthCheckCancel <= attempts' /\ p.healthCheckCancel # attempts'
          /\ attempts' <= attempts'
      BY <1>0, <3>1
    <3>3. hc[attempts'] = "none" /\ attempts' \notin hcDone
      BY <3>2 DEF CheckerInv
    <3>4. Checkers' = Checkers
      BY <2>1 DEF Checkers
    <3>5. p'.healthCheckCancel <= attempts'
      BY <2>1, <3>2 DEF CheckerInv
    <3>6. \A a \in Attempts : a > attempts' => hc'[a] = "none" /\ a \notin hcDone'
      BY <2>1, <3>2 DEF CheckerInv
    <3>7. \A u \in Threads : go'[u].pc \in Holding =>
             /\ go'[u].att \in Attempts /\ go'[u].att <= attempts'
             /\ hc'[go'[u].att] = "none" /\ go'[u].att \notin hcDone'
             /\ go'[u].att # p'.healthCheckCancel
      <4>1. SUFFICES ASSUME NEW u \in Threads, go'[u].pc \in Holding
                     PROVE  /\ go'[u].att \in Attempts /\ go'[u].att <= attempts'
                            /\ hc'[go'[u].att] = "none" /\ go'[u].att \notin hcDone'
                            /\ go'[u].att # p'.healthCheckCancel
        OBVIOUS
      <4>2. CASE u = t
        BY <2>1, <3>1, <3>2, <3>3, <4>1, <4>2 DEF CheckerInv
      <4>3. CASE u # t
        BY <2>1, <3>2, <4>1, <4>3 DEF CheckerInv, Others
      <4>4. QED
        BY <4>2, <4>3
    <3>8. \A u, v \in Threads :
            u # v /\ go'[u].pc \in Holding /\ go'[v].pc \in Holding => go'[u].att # go'[v].att
      BY <2>1, <3>1, <3>2 DEF CheckerInv, Others
    <3>9. QED
      BY <2>1, <3>1, <3>4, <3>5, <3>6, <3>7, <3>8 DEF CheckerInv
  <2>4. QED
    BY <2>2, <2>3
<1>3. CASE StartSpawn(t)
  <2>1. /\ Others(t) /\ UNCHANGED <<hc, hcDone, attempts>> /\ go[t].pc = "spawn"
        /\ p'.healthCheckCancel = p.healthCheckCancel /\ p'.Cmd = p.Cmd
        /\ p'.State = p.State \/ p'.State = "EXITED"
        /\ go'[t].pc \in Holding => go'[t].att = go[t].att
    BY <1>3, StartSpawnEffect DEF Holding, SamePtrs, Ptrs
  <2>2. CheckerFrame
    BY <2>1, OwnFrame DEF Holding
  <2>3. QED
    BY <2>2, FrameChecker
<1>4. CASE StartPublish(t)
  <2>1. /\ Others(t) /\ UNCHANGED <<hc, hcDone, attempts>> /\ go[t].pc = "publish"
        /\ p'.healthCheckCancel = p.healthCheckCancel
        /\ UNCHANGED p \/ go'[t].pc = "launch"
        /\ go'[t].pc \in Holding => go'[t].att = go[t].att
    BY <1>4, StartPublishEffect DEF Holding
  <2>2. CheckerFrame
    BY <2>1, OwnFrame DEF Holding
  <2>3. QED
    BY <2>2, FrameChecker
<1>5. CASE StartLaunch(t)
  <2>1. /\ Others(t) /\ UNCHANGED <<p, hc, hcDone, attempts>> /\ go[t].pc = "launch"
        /\ go'[t].pc = "health" \/ (~HealthCheck /\ go'[t].pc = "idle")
        /\ go'[t].pc \in Holding => go'[t].att = go[t].att
    BY <1>5, StartLaunchEffect DEF Holding
  <2>2. CheckerFrame
    BY <2>1, OwnFrame DEF Holding
  <2>3. QED
    BY <2>2, FrameChecker
<1>6. CASE StartHealthCheck(t)
  <2> DEFINE b == go[t].att
  <2>1. /\ Others(t) /\ go[t].pc = "health" /\ attempts' = attempts
        /\ p'.healthCheckCancel = b
        /\ hcDone' = hcDone \cup ({p.healthCheckCancel} \cap Attempts)
        /\ hc' = [hc EXCEPT ![b] = "tick"]
        /\ go'[t].pc = "idle"
    BY <1>6, StartHealthCheckEffect
  <2>2. /\ b \in Attempts /\ b <= attempts /\ hc[b] = "none" /\ b \notin hcDone
        /\ b # p.healthCheckCancel
    BY <2>1 DEF CheckerInv, Holding
  <2> HIDE DEF b
  <2>3. hc'[b] = "tick" /\ \A a \in Attempts : a # b => hc'[a] = hc[a]
    BY <1>0, <2>1, <2>2
  <2>4. Checkers' = {b}
    BY <2>1, <2>2, <2>3 DEF CheckerInv, Checkers
  <2>5. \A a \in Attempts : a > attempts' => hc'[a] = "none" /\ a \notin hcDone'
    <3>1. SUFFICES ASSUME NEW a \in Attempts, a > attempts
                   PROVE  hc'[a] = "none" /\ a \notin hcDone'
      BY <2>1
    <3>2. a # b /\ a # p.healthCheckCancel
      BY <1>0, <2>2, <3>1 DEF CheckerInv
    <3>3. QED
      BY <2>1, <2>3, <3>1, <3>2 DEF CheckerInv
  <2>6. \A u \in Threads : go'[u].pc \in Holding => u # t /\ go[u].pc \in Holding /\ go'[u] = go[u]
    BY <2>1 DEF Others, Holding
  <2>7. \A u \in Threads : go'[u].pc \in Holding => go[u].att # b
    BY <2>1, <2>6 DEF CheckerInv, Holding, b
  <2>8. \A u \in Threads : go'[u].pc \in Holding =>
             /\ go'[u].att \in Attempts /\ go'[u].att <= attempts'
             /\ hc'[go'[u].att] = "none" /\ go'[u].att \notin hcDone'
             /\ go'[u].att # p'.healthCheckCancel
    BY <2>1, <2>3, <2>6, <2>7 DEF CheckerInv
  <2>9. \A u, v \in Threads :
            u # v /\ go'[u].pc \in Holding /\ go'[v].pc \in Holding => go'[u].att # go'[v].att
    BY <2>6 DEF CheckerInv
  <2>10. QED
    BY <2>1, <2>2, <2>4, <2>5, <2>8, <2>9 DEF CheckerInv
<1>7. QED
  BY <1>1, <1>2, <1>3, <1>4, <1>5, <1>6 DEF Start

LEMMA StopChecker ==
  ASSUME TypeInv, CheckerInv, NEW t \in Threads, Stop(t) \/ Restart(t) PROVE CheckerInv'
<1>1. CASE StopDone(t)
  <2>1. /\ Others(t) /\ go[t].pc = "done" /\ UNCHANGED <<hc, attempts>>
        /\ p'.healthCheckCancel = p.healthCheckCancel /\ p'.Cmd = 0
        /\ hcDone' = hcDone \cup ({p.healthCheckCancel} \cap Attempts)
        /\ go'[t].pc \notin Holding
    BY <1>1, StopDoneEffect DEF Ptrs, Holding
  <2>2. \A u \in Threads : go'[u].pc \in Holding => go[u].pc \in Holding /\ go'[u] = go[u]
    BY <2>1 DEF Others
  <2>3. \A a \in Attempts : a > attempts => a # p.healthCheckCancel
    BY CheckerFacts DEF CheckerInv
  <2>4. QED
    BY <2>1, <2>2, <2>3 DEF CheckerInv, Checkers
<1>2. CASE StopEnter(t) \/ RestartEnter(t) \/ RestartStart(t)
  <2>1. /\ Others(t) /\ UNCHANGED <<hc, hcDone, attempts>>
        /\ p'.healthCheckCancel = p.healthCheckCancel /\ p'.Cmd = p.Cmd
        /\ p'.State = p.State \/ p'.State # "RUNNING"
        /\ go[t].pc \in {"stop", "restart", "restarted"} /\ go'[t].pc \notin Holding
    BY <1>2, StopEnterEffect, RestartEnterEffect, RestartStartEffect DEF SamePtrs, Ptrs, Holding
  <2>2. CheckerFrame
    BY <2>1, OwnFrame
  <2>3. QED
    BY <2>2, FrameChecker
<1>3. CASE StopSignal(t) \/ StopGrace(t) \/ StopRecheck(t) \/ StopKill(t) \/ StopKillWait(t)
  <2>1. /\ Others(t) /\ UNCHANGED <<p, hc, hcDone, attempts>>
        /\ go[t].pc \notin {"launch", "health"} /\ go'[t].pc \notin Holding
    BY <1>3, StopMiddleEffect DEF Holding
  <2>2. CheckerFrame
    BY <2>1, OwnFrame
  <2>3. QED
    BY <2>2, FrameChecker
<1>4. QED
  BY <1>1, <1>2, <1>3 DEF Stop, Restart

LEMMA BackgroundChecker ==
  ASSUME TypeInv, CheckerInv, NEW a \in Attempts,
         MonitorStep(a) \/ HealthStep(a) \/ ChildExit(a) \/ ContextKill(a)
  PROVE  CheckerInv'
<1>1. CASE HealthStep(a)
  <2>1. /\ UNCHANGED <<go, hcDone, attempts>>
        /\ p'.Cmd = p.Cmd /\ p'.State = p.State /\ p'.healthCheckCancel = p.healthCheckCancel
        /\ hc[a] \in {"tick", "check"}
        /\ \A b \in Attempts : b # a => hc'[b] = hc[b]
        /\ \/ hc'[a] \in {"tick", "check"}
           \/ hc'[a] = "end" /\ (a \in hcDone \/ p.State # "RUNNING")
    BY <1>1, HealthEffect DEF SamePtrs, Ptrs
  <2>2. a \in Checkers => a \in Checkers' \/ p'.State # "RUNNING"
    BY <2>1 DEF Checkers
  <2>3. \A b \in Attempts : b # a => (b \in Checkers' <=> b \in Checkers)
    BY <2>1 DEF Checkers
  <2>4. a \in Checkers' => a \in Checkers
    BY <2>1 DEF Checkers
  <2>5. \A b \in Attempts : hc[b] = "none" => hc'[b] = "none"
    BY <2>1
  <2>6. Checkers' \subseteq Attempts
    BY DEF Checkers
  <2>7. \A b \in Checkers' : b = p'.healthCheckCancel
    BY <2>1, <2>3, <2>4, <2>6 DEF CheckerInv
  <2>8. HealthCheck /\ p'.State = "RUNNING" /\ p'.Cmd # 0 =>
          \/ \E b \in Attempts : b \in Checkers'
          \/ \E t \in Threads : go'[t].pc \in {"launch", "health"}
    BY <2>1, <2>2, <2>3 DEF CheckerInv
  <2>9. QED
    BY <2>1, <2>5, <2>7, <2>8 DEF CheckerInv
<1>2. CASE MonitorStep(a) \/ ChildExit(a) \/ ContextKill(a)
  <2>1. /\ UNCHANGED <<go, hc, hcDone, attempts>>
        /\ p'.healthCheckCancel = p.healthCheckCancel
        /\ p'.State = "RUNNING" => p.State = "RUNNING" /\ p'.Cmd = p.Cmd
    <3>1. CASE MonitorRecord(a)
      BY <3>1, MonitorRecordEffect DEF Ptrs
    <3>2. QED
      BY <1>2, <3>1, MonitorEnterEffect, MonitorWaitEffect, MonitorEndEffect, ChildEffect
      DEF MonitorStep
  <2>2. CheckerFrame
    BY <2>1 DEF CheckerFrame
  <2>3. QED
    BY <2>2, FrameChecker
<1>3. QED
  BY <1>1, <1>2

LEMMA LoopChecker ==
  ASSUME TypeInv, CheckerInv, LoopStep \/ \E r \in Restarters : RestarterStep(r)
  PROVE  CheckerInv'
<1>1. /\ UNCHANGED <<hc, hcDone, attempts>>
      /\ p'.healthCheckCancel = p.healthCheckCancel /\ p'.Cmd = p.Cmd
  BY WorkerFrameHolds DEF WorkerFrame, SamePtrs, Ptrs
<1>2. /\ p'.State = "RUNNING" => p.State = "RUNNING"
      /\ \A u \in Threads : go'[u] = go[u] \/ (go[u].pc \notin Holding /\ go'[u].pc \notin Holding)
  <2>1. CASE LoopTick \/ CheckRunning
    BY <2>1, LoopLookEffect, WorkerThreads DEF Others, Holding
  <2>2. CASE HandleExited
    BY <2>2, HandleExitedEffect, WorkerThreads DEF Others, Holding
  <2>3. CASE LoopFailed
    BY <2>3, LoopFailedEffect, WorkerThreads DEF Others, Holding
  <2>4. ASSUME NEW r \in Restarters, RestarterStep(r)
        PROVE  /\ p'.State = "RUNNING" => p.State = "RUNNING"
               /\ \A u \in Threads : \/ go'[u] = go[u]
                                     \/ go[u].pc \notin Holding /\ go'[u].pc \notin Holding
    BY <2>4, RestarterEffect, WorkerThreads DEF Others, Holding
  <2>5. QED
    BY <2>1, <2>2, <2>3, <2>4 DEF LoopStep
<1>3. CheckerFrame
  BY <1>1, <1>2 DEF CheckerFrame, Holding
<1>4. QED
  BY <1>3, FrameChecker

LEMMA NextChecker == TypeInv /\ CheckerInv /\ [Next]_vars => CheckerInv'
<1>1. SUFFICES ASSUME TypeInv, CheckerInv, [Next]_vars PROVE CheckerInv'
  OBVIOUS
<1>2. ASSUME NEW t \in Threads, Operation(t) PROVE CheckerInv'
  BY <1>1, <1>2, StartChecker, StopChecker DEF Operation
<1>3. ASSUME NEW a \in Attempts,
             MonitorStep(a) \/ HealthStep(a) \/ ChildExit(a) \/ ContextKill(a)
      PROVE  CheckerInv'
  BY <1>1, <1>3, BackgroundChecker
<1>4. ASSUME NEW t \in Operators, NEW op \in {"start", "stop", "restart"}, Call(t, op)
      PROVE  CheckerInv'
  <2>1. /\ Others(t) /\ UNCHANGED <<p, hc, hcDone, attempts>> /\ go[t].pc = "idle"
        /\ go'[t].pc \in {"start", "stop", "restart"} /\ t \in Threads
    BY <1>1, <1>4, CallEffect DEF Threads
  <2>2. CheckerFrame
    BY <2>1, OwnFrame DEF Holding
  <2>3. QED
    BY <1>1, <2>2, FrameChecker
<1>5. CASE UNCHANGED vars
  <2>1. CheckerFrame
    BY <1>5 DEF vars, CheckerFrame
  <2>2. QED
    BY <1>1, <2>1, FrameChecker
<1>6. QED
  BY <1>1, <1>2, <1>3, <1>4, <1>5, LoopChecker DEF Next, ProcessNext

LEMMA CheckerSafe == ASSUME CheckerInv PROVE OneChecker
<1>1. Cardinality(Checkers) <= 1
  <2>1. Checkers = {} \/ Checkers = {p.healthCheckCancel}
    BY DEF CheckerInv
  <2>2. Cardinality({}) = 0 /\ Cardinality({p.healthCheckCancel}) = 1
    BY FS_EmptySet, FS_Singleton
  <2>3. Cardinality(Checkers) \in {0, 1}
    BY <2>1, <2>2
  <2>4. QED
    BY <2>3
<1>2. HealthCheck /\ NobodyInside /\ p.State = "RUNNING" /\ p.Cmd # 0 => Checkers # {}
  BY DEF CheckerInv, NobodyInside, At
<1>3. QED
  BY <1>1, <1>2 DEF OneChecker

(* However many callers there are: at most one health checker acts on the process, and a
   process at rest in RUNNING has one. *)
THEOREM OneHealthChecker == Spec => []OneChecker
<1>1. Init => TypeInv /\ CheckerInv
  BY InitTypeInv, InitChecker
<1>2. TypeInv /\ CheckerInv /\ [Next]_vars => (TypeInv /\ CheckerInv)'
  BY NextTypeInv, NextChecker
<1>3. TypeInv /\ CheckerInv => OneChecker
  BY CheckerSafe
<1>4. QED
  BY <1>1, <1>2, <1>3, PTL DEF Spec

-----------------------------------------------------------------------------
(***************************************************************************)
(* The retries are bounded. StartRetries grows when a Start opens an       *)
(* attempt, and is tested only when the loop schedules a restart, so what  *)
(* is bounded is the count together with the Starts that are still to      *)
(* come: those of the calls being made and of the restarts already         *)
(* scheduled.                                                              *)
(***************************************************************************)
(* Configurations in which only the restart goroutines restart by themselves *)
RetryConfig ==
    /\ IsFiniteSet(Restarters) /\ Restarters # {}
    /\ StartRetries \in Nat
    /\ ~(HealthCheck /\ HealthCheckRestart)

(* t may still open an attempt *)
Pending(t) ==
    \/ go[t].pc \in {"asleep", "recheckExited", "start", "awaitMonitor", "restart", "restarted"}
    \/ go[t].restarting /\ go[t].pc \in Stopping \cup {"stop"}

PendingCalls == {t \in Operators : Pending(t)}
PendingRestarts == {r \in Restarters : Pending(r)}

(* No attempt was opened yet. *)
Untouched ==
    /\ p.State = "STOPPED"
    /\ \A a \in Attempts : mon[a].pc = "none"
    /\ \A t \in Threads : go[t].pc \notin Holding
    /\ \A r \in Restarters : go[r].pc = "idle"

RetryInv ==
    /\ go[Loop].pc \in {"idle", "handleExited", "checkRunning"}
    /\ attempts = 0 => Untouched
    /\ IsFiniteSet(PendingCalls) /\ Cardinality(PendingCalls) <= calls
    /\ attempts # 0 => Cardinality(PendingCalls) < calls
    /\ p.StartRetries + Cardinality(PendingCalls) + Cardinality(PendingRestarts)
          <= StartRetries + calls + Cardinality(Restarters) - 1

LEMMA RetryFacts ==
  ASSUME TypeInv, RetryConfig, IsFiniteSet(PendingCalls)
  PROVE  /\ Cardinality(PendingCalls) \in Nat /\ Cardinality(PendingRestarts) \in Nat
         /\ Cardinality(Restarters) \in Nat /\ Cardinality(Restarters) # 0
         /\ IsFiniteSet(PendingRestarts)
         /\ Cardinality(PendingRestarts) <= Cardinality(Restarters)
         /\ p.StartRetries \in Nat /\ calls \in Nat /\ StartRetries \in Nat /\ attempts \in Nat
<1>1. PendingRestarts \subseteq Restarters
  BY DEF PendingRestarts
<1>2. IsFiniteSet(PendingRestarts) /\ Cardinality(PendingRestarts) <= Cardinality(Restarters)
  BY <1>1, FS_Subset DEF RetryConfig
<1>3. /\ Cardinality(PendingCalls) \in Nat /\ Cardinality(PendingRestarts) \in Nat
      /\ Cardinality(Restarters) \in Nat
  BY <1>2, FS_CardinalityType DEF RetryConfig
<1>4. Cardinality(Restarters) # 0
  BY FS_EmptySet DEF RetryConfig
<1>5. p.StartRetries \in Nat /\ calls \in Nat /\ attempts \in Nat
  BY ProcessAssumption DEF TypeInv, TypeOK, ProcessType, Ref
<1>6. QED
  BY <1>2, <1>3, <1>4, <1>5 DEF RetryConfig

(* A step that opens no attempt and makes no Start pending *)
LEMMA RetryShrinks ==
  ASSUME TypeInv, RetryConfig, RetryInv,
         go'[Loop].pc \in {"idle", "handleExited", "checkRunning"},
         attempts = 0 => Untouched',
         \A t \in Threads : Pending(t)' => Pending(t),
         p'.StartRetries \in {0, p.StartRetries}, UNCHANGED <<calls, attempts>>
  PROVE  RetryInv'
<1>0. /\ Cardinality(PendingCalls) \in Nat /\ Cardinality(PendingRestarts) \in Nat
      /\ Cardinality(Restarters) \in Nat /\ IsFiniteSet(PendingRestarts)
      /\ IsFiniteSet(PendingCalls)
      /\ p.StartRetries \in Nat /\ calls \in Nat /\ StartRetries \in Nat
  BY RetryFacts DEF RetryInv
<1>1. PendingCalls' \subseteq PendingCalls /\ PendingRestarts' \subseteq PendingRestarts
  BY WorkerThreads DEF PendingCalls, PendingRestarts, Threads
<1>2. /\ IsFiniteSet(PendingCalls') /\ Cardinality(PendingCalls') <= Cardinality(PendingCalls)
      /\ IsFiniteSet(PendingRestarts')
      /\ Cardinality(PendingRestarts') <= Cardinality(PendingRestarts)
  BY <1>0, <1>1, FS_Subset
<1>3. Cardinality(PendingCalls') \in Nat /\ Cardinality(PendingRestarts') \in Nat
  BY <1>2, FS_CardinalityType
<1> DEFINE o == Cardinality(PendingCalls)
           o1 == Cardinality(PendingCalls')
           r == Cardinality(PendingRestarts)
           r1 == Cardinality(PendingRestarts')
           n == Cardinality(Restarters)
<1>4. /\ o \in Nat /\ o1 \in Nat /\ r \in Nat /\ r1 \in Nat /\ n \in Nat
      /\ o1 <= o /\ r1 <= r /\ o <= calls /\ (attempts # 0 => o < calls)
      /\ p.StartRetries + o + r <= StartRetries + calls + n - 1
  BY <1>0, <1>2, <1>3 DEF RetryInv
<1> HIDE DEF o, o1, r, r1, n
<1>5. /\ o1 <= calls /\ (attempts # 0 => o1 < calls)
      /\ p'.StartRetries + o1 + r1 <= StartRetries + calls + n - 1
  BY <1>0, <1>4
<1>6. QED
  BY <1>2, <1>5 DEF RetryInv, o1, r1, n

(* Untouched processes stay so until an attempt is opened. *)
LEMMA UntouchedStays ==
  ASSUME RetryInv, p.State = "STOPPED" => p'.State = "STOPPED", UNCHANGED mon,
         \A u \in Threads : \/ go'[u] = go[u]
                            \/ go[u].pc # "idle" /\ (go'[u].pc \in Holding => go[u].pc \in Holding)
                            \/ u \notin Restarters /\ go'[u].pc \notin Holding
  PROVE  attempts = 0 => Untouched'
  BY WorkerThreads DEF RetryInv, Untouched, Holding

LEMMA StartRetry ==
  ASSUME TypeInv, RetryConfig, RetryInv, NEW t \in Threads, Start(t) PROVE RetryInv'
<1>0. /\ Others(t) /\ t # Loop
      /\ go[t].pc \in {"start", "awaitMonitor", "spawn", "publish", "launch", "health"}
  BY StartEnterEffect, StartReserveEffect, StartSpawnEffect, StartPublishEffect,
     StartLaunchEffect, StartHealthCheckEffect DEF Start, RetryInv
<1>1. /\ go'[Loop].pc \in {"idle", "handleExited", "checkRunning"}
      /\ \A u \in Threads : u # t => (Pending(u)' <=> Pending(u))
  BY <1>0, WorkerThreads DEF RetryInv, Others, Pending
<1>2. CASE StartEnter(t)
  <2>1. /\ UNCHANGED <<p, mon, attempts, calls>> /\ go[t].pc = "start"
        /\ go'[t].pc \in {"failed", "idle", "awaitMonitor"}
    BY <1>2, StartEnterEffect
  <2>2. attempts = 0 => Untouched'
    BY <1>0, <2>1, UntouchedStays DEF Others, Holding
  <2>3. \A u \in Threads : Pending(u)' => Pending(u)
    BY <1>1, <2>1 DEF Pending
  <2>4. QED
    BY <1>1, <2>1, <2>2, <2>3, RetryShrinks
<1>3. CASE StartReserve(t)
  <2>1. UNCHANGED <<mon, calls>> /\ go[t].pc = "awaitMonitor"
    BY <1>3, StartReserveEffect
  <2>2. go'[t].pc \in {"failed", "idle", "spawn"}
    BY <1>3, StartReserveEffect
  <2>3. Pending(t) /\ ~Pending(t)'
    BY <2>1, <2>2 DEF Pending, Stopping
  <2>4. CASE UNCHANGED <<p, attempts>>
    <3>1. go'[t].pc # "spawn"
      BY <1>3, <2>4, StartReserveEffect DEF TypeInv, TypeOK, Ref
    <3>2. attempts = 0 => Untouched'
      BY <1>0, <2>1, <2>2, <2>4, <3>1, UntouchedStays DEF Others, Holding
    <3>3. \A u \in Threads : Pending(u)' => Pending(u)
      BY <1>1, <2>3
    <3>4. QED
      BY <1>1, <2>1, <2>4, <3>2, <3>3, RetryShrinks
  <2>5. CASE ~UNCHANGED <<p, attempts>>
    <3>1. attempts' = attempts + 1 /\ p'.StartRetries = p.StartRetries + 1
      BY <1>3, <2>5, StartReserveEffect
    <3>2. /\ Cardinality(PendingCalls) \in Nat /\ Cardinality(PendingRestarts) \in Nat
          /\ Cardinality(Restarters) \in Nat /\ IsFiniteSet(PendingRestarts)
          /\ IsFiniteSet(PendingCalls)
          /\ p.StartRetries \in Nat /\ calls \in Nat /\ StartRetries \in Nat /\ attempts \in Nat
      BY RetryFacts DEF RetryInv
    <3> DEFINE o == Cardinality(PendingCalls)
               o1 == Cardinality(PendingCalls')
               r == Cardinality(PendingRestarts)
               r1 == Cardinality(PendingRestarts')
               n == Cardinality(Restarters)
    <3>3. /\ IsFiniteSet(PendingCalls') /\ o1 \in Nat /\ r1 \in Nat
          /\ \/ o1 = o - 1 /\ r1 = r
             \/ o1 = o /\ r1 = r - 1 /\ t \in Restarters
      <4>1. CASE t \in Operators
        <5>1. PendingCalls' = PendingCalls \ {t} /\ t \in PendingCalls
          BY <1>1, <2>3, <4>1 DEF PendingCalls, Threads
        <5>2. t \notin Restarters
          BY <4>1, ProcessAssumption, SupervisorAssumption
        <5>3. PendingRestarts' = PendingRestarts
          BY <1>1, <5>2, WorkerThreads DEF PendingRestarts
        <5>4. IsFiniteSet(PendingCalls') /\ o1 = o - 1
          BY <3>2, <5>1, FS_RemoveElement
        <5>5. QED
          BY <3>2, <5>3, <5>4, FS_CardinalityType
      <4>2. CASE t \notin Operators
        <5>1. t \in Restarters
          BY <1>0, <4>2, SupervisorAssumption DEF Threads
        <5>2. PendingRestarts' = PendingRestarts \ {t} /\ t \in PendingRestarts
          BY <1>1, <2>3, <5>1, WorkerThreads DEF PendingRestarts
        <5>3. PendingCalls' = PendingCalls
          BY <1>1, <4>2 DEF PendingCalls, Threads
        <5>4. IsFiniteSet(PendingRestarts') /\ r1 = r - 1
          BY <3>2, <5>2, FS_RemoveElement
        <5>5. QED
          BY <3>2, <5>1, <5>3, <5>4, FS_CardinalityType
      <4>3. QED
        BY <4>1, <4>2
    <3>4. t \in Restarters => attempts # 0
      BY <2>1 DEF RetryInv, Untouched
    <3>5. /\ o \in Nat /\ r \in Nat /\ n \in Nat /\ o <= calls /\ (attempts # 0 => o < calls)
          /\ p.StartRetries + o + r <= StartRetries + calls + n - 1
      BY <3>2 DEF RetryInv
    <3> HIDE DEF o, o1, r, r1, n
    <3>6. /\ o1 <= calls /\ o1 < calls /\ attempts' # 0
          /\ p'.StartRetries + o1 + r1 <= StartRetries + calls + n - 1
      BY <3>1, <3>2, <3>3, <3>4, <3>5
    <3>7. QED
      BY <1>1, <2>1, <3>3, <3>6 DEF RetryInv, o1, r1, n
  <2>6. QED
    BY <2>4, <2>5
<1>4. CASE StartSpawn(t) \/ StartPublish(t) \/ StartLaunch(t) \/ StartHealthCheck(t)
  <2>1. /\ UNCHANGED <<attempts, calls>> /\ p'.StartRetries = p.StartRetries
        /\ go[t].pc \in Holding
        /\ go'[t].pc \in {"publish", "launch", "health", "failed", "idle"}
    BY <1>4, StartSpawnEffect, StartPublishEffect, StartLaunchEffect, StartHealthCheckEffect
    DEF Holding
  <2>2. attempts # 0
    BY <2>1 DEF RetryInv, Untouched
  <2>3. \A u \in Threads : Pending(u)' => Pending(u)
    BY <1>1, <2>1 DEF Pending, Stopping
  <2>4. QED
    BY <1>1, <2>1, <2>2, <2>3, RetryShrinks
<1>5. QED
  BY <1>2, <1>3, <1>4 DEF Start

LEMMA StopRetry ==
  ASSUME TypeInv, RetryConfig, RetryInv, NEW t \in Threads, Stop(t) \/ Restart(t)
  PROVE  RetryInv'
<1>1. /\ Others(t) /\ UNCHANGED <<mon, calls, attempts>> /\ p'.StartRetries = p.StartRetries
      /\ go[t].pc \in Stopping \cup {"stop", "restart", "restarted"}
      /\ p.State = "STOPPED" => p'.State = "STOPPED"
      /\ go'[t].pc \notin Holding
      /\ Pending(t)' => Pending(t)
  <2>1. CASE StopEnter(t)
    <3>1. /\ Others(t) /\ UNCHANGED <<mon, calls, attempts>> /\ p'.StartRetries = p.StartRetries
          /\ go[t].pc = "stop" /\ (p.State = "STOPPED" => p'.State = "STOPPED")
          /\ \/ go'[t].pc = (IF go[t].restarting THEN "restarted" ELSE "idle")
             \/ go'[t].pc = "signal" /\ go'[t].restarting = go[t].restarting
      BY <2>1, StopEnterEffect
    <3>2. QED
      BY <3>1 DEF Pending, Stopping, Holding
  <2>2. CASE StopSignal(t) \/ StopGrace(t) \/ StopRecheck(t) \/ StopKill(t) \/ StopKillWait(t)
    <3>1. /\ Others(t) /\ UNCHANGED <<p, mon, calls, attempts>>
          /\ go[t].pc \in Stopping /\ go'[t].restarting = go[t].restarting
          /\ go'[t].pc \in {"kill", "grace", "done", "recheck", "killwait"}
      BY <2>2, StopMiddleEffect DEF Stopping
    <3>2. QED
      BY <3>1 DEF Pending, Stopping, Holding
  <2>3. CASE StopDone(t)
    <3>1. /\ Others(t) /\ UNCHANGED <<mon, calls, attempts>> /\ p'.StartRetries = p.StartRetries
          /\ go[t].pc = "done" /\ (p.State = "STOPPED" => p'.State = "STOPPED")
          /\ go'[t].pc = (IF go[t].restarting THEN "restarted" ELSE "idle")
      BY <2>3, StopDoneEffect
    <3>2. QED
      BY <3>1 DEF Pending, Stopping, Holding
  <2>4. CASE RestartEnter(t) \/ RestartStart(t)
    <3>1. /\ Others(t) /\ UNCHANGED <<mon, calls, attempts>> /\ p'.StartRetries = p.StartRetries
          /\ go[t].pc \in {"restart", "restarted"}
          /\ (p.State = "STOPPED" => p'.State = "STOPPED")
          /\ go'[t].pc \in {"failed", "idle", "stop", "start"}
      BY <2>4, RestartEnterEffect, RestartStartEffect
    <3>2. QED
      BY <3>1 DEF Pending, Holding
  <2>5. QED
    BY <2>1, <2>2, <2>3, <2>4 DEF Stop, Restart
<1>2. t # Loop
  BY <1>1 DEF RetryInv, Stopping
<1>3. go'[Loop].pc \in {"idle", "handleExited", "checkRunning"}
  BY <1>1, <1>2, WorkerThreads DEF RetryInv, Others
<1>4. attempts = 0 => Untouched'
  BY <1>1, UntouchedStays DEF Others, Stopping
<1>5. \A u \in Threads : Pending(u)' => Pending(u)
  BY <1>1 DEF Others, Pending
<1>6. QED
  BY <1>1, <1>3, <1>4, <1>5, RetryShrinks

LEMMA BackgroundRetry ==
  ASSUME TypeInv, RetryConfig, RetryInv, NEW a \in Attempts,
         MonitorStep(a) \/ HealthStep(a) \/ ChildExit(a) \/ ContextKill(a)
  PROVE  RetryInv'
<1>1. UNCHANGED <<go, calls, attempts>> /\ p'.StartRetries = p.StartRetries
  BY MonitorEnterEffect, MonitorWaitEffect, MonitorRecordEffect, MonitorEndEffect, HealthEffect,
     ChildEffect DEF MonitorStep
<1>2. attempts = 0 => Untouched'
  <2>1. CASE MonitorStep(a)
    BY <2>1, MonitorEnterEffect, MonitorWaitEffect, MonitorRecordEffect, MonitorEndEffect
    DEF MonitorStep, RetryInv, Untouched
  <2>2. CASE HealthStep(a) \/ ChildExit(a) \/ ContextKill(a)
    BY <1>1, <2>2, HealthEffect, ChildEffect, UntouchedStays
  <2>3. QED
    BY <2>1, <2>2
<1>3. QED
  BY <1>1, <1>2, RetryShrinks DEF Pending, RetryInv

LEMMA CallRetry ==
  ASSUME TypeInv, RetryConfig, RetryInv, NEW t \in Operators,
         NEW op \in {"start", "stop", "restart"}, Call(t, op)
  PROVE  RetryInv'
<1>1. /\ Others(t) /\ UNCHANGED <<p, mon, attempts>> /\ go[t].pc = "idle"
      /\ go'[t].pc \in {"start", "stop", "restart"} /\ calls' = calls + 1
      /\ t \in Threads /\ t \notin Restarters /\ t # Loop
  BY CallEffect, ProcessAssumption, SupervisorAssumption DEF Threads, Call
<1>2. attempts = 0 => Untouched'
  BY <1>1, UntouchedStays DEF Others, Holding
<1>3. \A u \in Threads : u # t => (Pending(u)' <=> Pending(u))
  BY <1>1 DEF Others, Pending
<1>4. PendingRestarts' = PendingRestarts
  BY <1>1, <1>3, WorkerThreads DEF PendingRestarts
<1>5. PendingCalls' \subseteq PendingCalls \cup {t}
  BY <1>3 DEF PendingCalls, Threads
<1>6. /\ Cardinality(PendingCalls) \in Nat /\ Cardinality(PendingRestarts) \in Nat
      /\ Cardinality(Restarters) \in Nat /\ IsFiniteSet(PendingCalls)
      /\ p.StartRetries \in Nat /\ calls \in Nat /\ StartRetries \in Nat
  BY RetryFacts DEF RetryInv
<1>7. /\ IsFiniteSet(PendingCalls \cup {t})
      /\ Cardinality(PendingCalls \cup {t}) \in
            {Cardinality(PendingCalls), Cardinality(PendingCalls) + 1}
  BY <1>6, FS_AddElement
<1>8. /\ IsFiniteSet(PendingCalls')
      /\ Cardinality(PendingCalls') <= Cardinality(PendingCalls \cup {t})
  BY <1>5, <1>7, FS_Subset
<1>9. Cardinality(PendingCalls') \in Nat
  BY <1>8, FS_CardinalityType
<1> DEFINE o == Cardinality(PendingCalls)
           o1 == Cardinality(PendingCalls')
           r == Cardinality(PendingRestarts)
           n == Cardinality(Restarters)
<1>10. /\ o \in Nat /\ o1 \in Nat /\ r \in Nat /\ n \in Nat
       /\ o1 <= o + 1 /\ o <= calls /\ (attempts # 0 => o < calls)
       /\ p.StartRetries + o + r <= StartRetries + calls + n - 1
  BY <1>6, <1>7, <1>8, <1>9 DEF RetryInv
<1> HIDE DEF o, o1, r, n
<1>11. /\ o1 <= calls' /\ (attempts # 0 => o1 < calls')
       /\ p.StartRetries + o1 + r <= StartRetries + calls' + n - 1
  BY <1>1, <1>6, <1>10
<1>12. go'[Loop].pc \in {"idle", "handleExited", "checkRunning"}
  BY <1>1, WorkerThreads DEF RetryInv, Others
<1>13. QED
  BY <1>1, <1>2, <1>4, <1>8, <1>11, <1>12 DEF RetryInv, o1, r, n

LEMMA LoopRetry ==
  ASSUME TypeInv, RetryConfig, RetryInv, LoopStep PROVE RetryInv'
<1>0. UNCHANGED <<mon, attempts, calls>> /\ Loop \in Threads /\ Loop \notin Restarters
  BY WorkerFrameHolds, WorkerThreads, SupervisorAssumption DEF WorkerFrame
<1>1. CASE LoopTick \/ CheckRunning
  <2>1. /\ Others(Loop) /\ p'.State = p.State /\ p'.StartRetries \in {0, p.StartRetries}
        /\ go'[Loop].pc \in {"idle", "handleExited", "checkRunning"}
    BY <1>1, LoopLookEffect DEF RetryConfig
  <2>2. attempts = 0 => Untouched'
    BY <1>0, <2>1, UntouchedStays DEF Others, Holding
  <2>3. \A u \in Threads : Pending(u)' => Pending(u)
    BY <2>1 DEF Others, Pending, Stopping
  <2>4. QED
    BY <1>0, <2>1, <2>2, <2>3, RetryShrinks
<1>2. CASE HandleExited
  <2>1. go'[Loop].pc = "idle" /\ go[Loop].pc = "handleExited"
    BY <1>2, HandleExitedEffect
  <2>2. CASE /\ Others(Loop) /\ p'.StartRetries \in {0, p.StartRetries}
             /\ (p'.State # p.State => p.State = "EXITED")
    <3>1. attempts = 0 => Untouched'
      BY <1>0, <2>1, <2>2, UntouchedStays DEF Others, Holding
    <3>2. \A u \in Threads : Pending(u)' => Pending(u)
      BY <2>1, <2>2 DEF Others, Pending, Stopping
    <3>3. QED
      BY <1>0, <2>1, <2>2, <3>1, <3>2, RetryShrinks
  <2>3. CASE /\ p.State = "EXITED" /\ p'.StartRetries <= StartRetries
             /\ \E r \in Restarters : \A u \in Threads : u \notin {Loop, r} => go'[u] = go[u]
    <3>1. attempts # 0
      BY <2>3 DEF RetryInv, Untouched
    <3>2. \A u \in Operators : Pending(u)' <=> Pending(u)
      BY <1>0, <2>3, ProcessAssumption, SupervisorAssumption DEF Pending, Threads
    <3>3. PendingCalls' = PendingCalls
      BY <3>2 DEF PendingCalls
    <3>4. /\ Cardinality(PendingCalls) \in Nat /\ Cardinality(Restarters) \in Nat
          /\ calls \in Nat /\ StartRetries \in Nat /\ IsFiniteSet(PendingCalls)
          /\ IsFiniteSet(Restarters)
      BY RetryFacts DEF RetryInv, RetryConfig
    <3>5. PendingRestarts' \subseteq Restarters
      BY DEF PendingRestarts
    <3>6. /\ IsFiniteSet(PendingRestarts')
          /\ Cardinality(PendingRestarts') <= Cardinality(Restarters)
      BY <3>4, <3>5, FS_Subset
    <3>7. Cardinality(PendingRestarts') \in Nat
      BY <3>6, FS_CardinalityType
    <3>8. p'.StartRetries \in Nat
      <4>1. TypeInv'
        BY <1>2, NextTypeInv DEF Next, LoopStep
      <4>2. QED
        BY <4>1 DEF TypeInv, TypeOK, ProcessType
    <3> DEFINE o == Cardinality(PendingCalls)
               r1 == Cardinality(PendingRestarts')
               n == Cardinality(Restarters)
    <3>9. o \in Nat /\ r1 \in Nat /\ n \in Nat /\ r1 <= n /\ o < calls
      BY <3>1, <3>4, <3>6, <3>7 DEF RetryInv
    <3> HIDE DEF o, r1, n
    <3>10. p'.StartRetries + o + r1 <= StartRetries + calls + n - 1
      BY <2>3, <3>4, <3>8, <3>9
    <3>11. QED
      BY <1>0, <2>1, <3>1, <3>3, <3>4, <3>10 DEF RetryInv, o, r1, n
  <2>4. QED
    BY <1>2, <2>2, <2>3, HandleExitedEffect
<1>3. CASE LoopFailed
  BY <1>3, LoopFailedEffect DEF RetryInv
<1>4. QED
  BY <1>1, <1>2, <1>3 DEF LoopStep

LEMMA RestarterRetry ==
  ASSUME TypeInv, RetryConfig, RetryInv, NEW r \in Restarters, RestarterStep(r) PROVE RetryInv'
<1>1. /\ UNCHANGED <<mon, attempts, calls>> /\ Others(r) /\ p'.StartRetries = p.StartRetries
      /\ go[r].pc \in {"asleep", "recheckExited", "failed"}
      /\ go[r].pc = "failed" => go'[r].pc = "idle"
      /\ go'[r].pc \in {"idle", "recheckExited", "start"}
      /\ Loop \in Threads /\ Loop # r
  BY WorkerFrameHolds, RestarterEffect, WorkerThreads, SupervisorAssumption DEF WorkerFrame
<1>2. attempts # 0
  BY <1>1 DEF RetryInv, Untouched
<1>3. \A u \in Threads : Pending(u)' => Pending(u)
  BY <1>1 DEF Others, Pending, Stopping
<1>4. go'[Loop].pc \in {"idle", "handleExited", "checkRunning"}
  BY <1>1 DEF RetryInv, Others
<1>5. QED
  BY <1>1, <1>2, <1>3, <1>4, RetryShrinks

LEMMA InitRetry == ASSUME RetryConfig, Init PROVE RetryInv
<1>1. /\ \A t \in Threads : go[t] = Idle /\ Idle.pc = "idle"
      /\ \A t \in Threads : go[t].restarting = FALSE
  BY DEF Init, Idle
<1>2. /\ p.State = "STOPPED" /\ p.StartRetries = 0 /\ attempts = 0 /\ calls = 0
      /\ \A a \in Attempts : mon[a].pc = "none"
  BY DEF Init, InitProcess
<1>3. Untouched /\ go[Loop].pc = "idle"
  BY <1>1, <1>2, WorkerThreads DEF Untouched, Holding
<1>4. PendingCalls = {} /\ PendingRestarts = {}
  BY <1>1, WorkerThreads DEF PendingCalls, PendingRestarts, Pending, Threads, Stopping
<1>5. IsFiniteSet({}) /\ Cardinality({}) = 0
  BY FS_EmptySet
<1>6. Cardinality(Restarters) \in Nat /\ Cardinality(Restarters) # 0
  BY FS_CardinalityType, FS_EmptySet DEF RetryConfig
<1>7. 0 + 0 + 0 <= StartRetries + 0 + Cardinality(Restarters) - 1
  BY <1>6 DEF RetryConfig
<1>8. QED
  BY <1>2, <1>3, <1>4, <1>5, <1>7 DEF RetryInv

LEMMA NextRetry == ASSUME TypeInv, RetryConfig, RetryInv, [Next]_vars PROVE RetryInv'
<1>1. ASSUME NEW t \in Threads, Operation(t) PROVE RetryInv'
  BY <1>1, StartRetry, StopRetry DEF Operation
<1>2. ASSUME NEW r \in Restarters, RestarterStep(r) PROVE RetryInv'
  BY <1>2, RestarterRetry
<1>3. CASE UNCHANGED vars
  <2>1. UNCHANGED <<p, go, mon, attempts, calls>>
    BY <1>3 DEF vars
  <2>2. attempts = 0 => Untouched'
    BY <2>1, UntouchedStays
  <2>3. QED
    BY <2>1, <2>2, RetryShrinks DEF Pending, RetryInv
<1>4. QED
  BY <1>1, <1>2, <1>3, BackgroundRetry, CallRetry, LoopRetry DEF Next, ProcessNext

(* A process that keeps failing is not started for ever: StartRetries exceeds the configured
   number by at most one per call made and one per restart goroutine beside the first. *)
THEOREM RetriesBounded ==
  ASSUME RetryConfig
  PROVE  Spec => []RetryBound
<1>1. Init => TypeInv /\ RetryInv
  BY InitTypeInv, InitRetry
<1>2. TypeInv /\ RetryInv /\ [Next]_vars => (TypeInv /\ RetryInv)'
  BY NextTypeInv, NextRetry
<1>3. TypeInv /\ RetryInv => RetryBound
  <2>1. SUFFICES ASSUME TypeInv, RetryInv PROVE RetryBound
    OBVIOUS
  <2>2. /\ Cardinality(PendingCalls) \in Nat /\ Cardinality(PendingRestarts) \in Nat
        /\ Cardinality(Restarters) \in Nat
        /\ p.StartRetries \in Nat /\ calls \in Nat /\ StartRetries \in Nat
    BY <2>1, RetryFacts DEF RetryInv
  <2>3. p.StartRetries + Cardinality(PendingCalls) + Cardinality(PendingRestarts)
          <= StartRetries + calls + Cardinality(Restarters) - 1
    BY <2>1 DEF RetryInv
  <2>4. QED
    BY <2>2, <2>3 DEF RetryBound
<1>4. QED
  BY <1>1, <1>2, <1>3, PTL DEF Spec

-----------------------------------------------------------------------------
(***************************************************************************)
(* STARTING and STOPPING have an owner, whoever calls and however many     *)
(* callers and restart goroutines there are.                               *)
(***************************************************************************)
Starter(t) == go[t].pc \in {"spawn", "publish"} \/ (t \in Restarters /\ At(t, "asleep"))
Stopper(t) == go[t].pc \in Stopping \/ (At(t, "stop") /\ go[t].restarting)

OwnedInv ==
    /\ p.State = "STARTING" => \E t \in Threads : Starter(t)
    /\ p.State = "STOPPING" => \E t \in Threads : Stopper(t)

LEMMA OwnedIsNoLimbo == OwnedInv <=> NoLimbo
  BY WorkerThreads DEF OwnedInv, NoLimbo, Starter, Stopper, Stopping, At

(* A step of t keeps the owners, if t hands over what it owned. *)
LEMMA OwnedStep ==
  ASSUME OwnedInv, NEW t \in Threads, Others(t),
         p'.State = "STARTING" => Starter(t)' \/ (p.State = "STARTING" /\ ~Starter(t)),
         p'.State = "STOPPING" => Stopper(t)' \/ (p.State = "STOPPING" /\ ~Stopper(t))
  PROVE  OwnedInv'
<1>1. \A u \in Threads : u # t => (Starter(u)' <=> Starter(u)) /\ (Stopper(u)' <=> Stopper(u))
  BY DEF Others, Starter, Stopper, At
<1>2. QED
  BY <1>1 DEF OwnedInv

LEMMA OperationOwned ==
  ASSUME TypeInv, OwnedInv, NEW t \in Threads, Operation(t) PROVE OwnedInv'
<1>1. CASE StartEnter(t)
  <2>1. Others(t)
    BY <1>1, StartEnterEffect
  <2>2. p'.State = "STARTING" => Starter(t)' \/ (p.State = "STARTING" /\ ~Starter(t))
    BY <1>1, StartEnterEffect DEF Starter, Stopper, Stopping, At
  <2>3. p'.State = "STOPPING" => Stopper(t)' \/ (p.State = "STOPPING" /\ ~Stopper(t))
    BY <1>1, StartEnterEffect DEF Starter, Stopper, Stopping, At
  <2>4. QED
    BY <2>1, <2>2, <2>3, OwnedStep
<1>2. CASE StartReserve(t)
  <2>1. Others(t)
    BY <1>2, StartReserveEffect
  <2>2. p'.State = "STARTING" => Starter(t)' \/ (p.State = "STARTING" /\ ~Starter(t))
    BY <1>2, StartReserveEffect DEF Starter, Stopper, Stopping, At
  <2>3. p'.State = "STOPPING" => Stopper(t)' \/ (p.State = "STOPPING" /\ ~Stopper(t))
    BY <1>2, StartReserveEffect DEF Starter, Stopper, Stopping, At
  <2>4. QED
    BY <2>1, <2>2, <2>3, OwnedStep
<1>3. CASE StartSpawn(t)
  <2>1. Others(t)
    BY <1>3, StartSpawnEffect
  <2>2. p'.State = "STARTING" => Starter(t)' \/ (p.State = "STARTING" /\ ~Starter(t))
    BY <1>3, StartSpawnEffect DEF Starter, Stopper, Stopping, At
  <2>3. p'.State = "STOPPING" => Stopper(t)' \/ (p.State = "STOPPING" /\ ~Stopper(t))
    BY <1>3, StartSpawnEffect DEF Starter, Stopper, Stopping, At
  <2>4. QED
    BY <2>1, <2>2, <2>3, OwnedStep
<1>4. CASE StartPublish(t)
  <2>1. Others(t)
    BY <1>4, StartPublishEffect
  <2>2. p'.State = "STARTING" => Starter(t)' \/ (p.State = "STARTING" /\ ~Starter(t))
    BY <1>4, StartPublishEffect DEF Starter, Stopper, Stopping, At
  <2>3. p'.State = "STOPPING" => Stopper(t)' \/ (p.State = "STOPPING" /\ ~Stopper(t))
    BY <1>4, StartPublishEffect DEF Starter, Stopper, Stopping, At
  <2>4. QED
    BY <2>1, <2>2, <2>3, OwnedStep
<1>5. CASE StartLaunch(t)
  <2>1. Others(t)
    BY <1>5, StartLaunchEffect
  <2>2. p'.State = "STARTING" => Starter(t)' \/ (p.State = "STARTING" /\ ~Starter(t))
    BY <1>5, StartLaunchEffect DEF Starter, Stopper, Stopping, At
  <2>3. p'.State = "STOPPING" => Stopper(t)' \/ (p.State = "STOPPING" /\ ~Stopper(t))
    BY <1>5, StartLaunchEffect DEF Starter, Stopper, Stopping, At
  <2>4. QED
    BY <2>1, <2>2, <2>3, OwnedStep
<1>6. CASE StartHealthCheck(t)
  <2>1. Others(t)
    BY <1>6, StartHealthCheckEffect
  <2>2. p'.State = "STARTING" => Starter(t)' \/ (p.State = "STARTING" /\ ~Starter(t))
    BY <1>6, StartHealthCheckEffect DEF Starter, Stopper, Stopping, At
  <2>3. p'.State = "STOPPING" => Stopper(t)' \/ (p.State = "STOPPING" /\ ~Stopper(t))
    BY <1>6, StartHealthCheckEffect DEF Starter, Stopper, Stopping, At
  <2>4. QED
    BY <2>1, <2>2, <2>3, OwnedStep
<1>7. CASE StopEnter(t)
  <2>1. Others(t)
    BY <1>7, StopEnterEffect
  <2>2. p'.State = "STARTING" => Starter(t)' \/ (p.State = "STARTING" /\ ~Starter(t))
    BY <1>7, StopEnterEffect DEF Starter, Stopper, Stopping, At
  <2>3. p'.State = "STOPPING" => Stopper(t)' \/ (p.State = "STOPPING" /\ ~Stopper(t))
    BY <1>7, StopEnterEffect DEF Starter, Stopper, Stopping, At
  <2>4. QED
    BY <2>1, <2>2, <2>3, OwnedStep
<1>8. CASE StopSignal(t) \/ StopGrace(t) \/ StopRecheck(t) \/ StopKill(t) \/ StopKillWait(t)
  <2>1. Others(t)
    BY <1>8, StopMiddleEffect
  <2>2. p'.State = "STARTING" => Starter(t)' \/ (p.State = "STARTING" /\ ~Starter(t))
    BY <1>8, StopMiddleEffect DEF Starter, Stopper, Stopping, At
  <2>3. p'.State = "STOPPING" => Stopper(t)' \/ (p.State = "STOPPING" /\ ~Stopper(t))
    BY <1>8, StopMiddleEffect DEF Starter, Stopper, Stopping, At
  <2>4. QED
    BY <2>1, <2>2, <2>3, OwnedStep
<1>9. CASE StopDone(t)
  <2>1. Others(t)
    BY <1>9, StopDoneEffect
  <2>2. p'.State = "STARTING" => Starter(t)' \/ (p.State = "STARTING" /\ ~Starter(t))
    BY <1>9, StopDoneEffect DEF Starter, Stopper, Stopping, At
  <2>3. p'.State = "STOPPING" => Stopper(t)' \/ (p.State = "STOPPING" /\ ~Stopper(t))
    BY <1>9, StopDoneEffect DEF Starter, Stopper, Stopping, At
  <2>4. QED
    BY <2>1, <2>2, <2>3, OwnedStep
<1>10. CASE RestartEnter(t)
  <2>1. Others(t)
    BY <1>10, RestartEnterEffect
  <2>2. p'.State = "STARTING" => Starter(t)' \/ (p.State = "STARTING" /\ ~Starter(t))
    BY <1>10, RestartEnterEffect DEF Starter, Stopper, Stopping, At
  <2>3. p'.State = "STOPPING" => Stopper(t)' \/ (p.State = "STOPPING" /\ ~Stopper(t))
    BY <1>10, RestartEnterEffect DEF Starter, Stopper, Stopping, At
  <2>4. QED
    BY <2>1, <2>2, <2>3, OwnedStep
<1>11. CASE RestartStart(t)
  <2>1. Others(t)
    BY <1>11, RestartStartEffect
  <2>2. p'.State = "STARTING" => Starter(t)' \/ (p.State = "STARTING" /\ ~Starter(t))
    BY <1>11, RestartStartEffect DEF Starter, Stopper, Stopping, At
  <2>3. p'.State = "STOPPING" => Stopper(t)' \/ (p.State = "STOPPING" /\ ~Stopper(t))
    BY <1>11, RestartStartEffect DEF Starter, Stopper, Stopping, At
  <2>4. QED
    BY <2>1, <2>2, <2>3, OwnedStep
<1>12. QED
  BY <1>1, <1>2, <1>3, <1>4, <1>5, <1>6, <1>7, <1>8, <1>9, <1>10, <1>11
  DEF Operation, Start, Stop, Restart

(* Steps that move no goroutine of the API take the process out of these states at most. *)
LEMMA OwnedFrame ==
  ASSUME OwnedInv, go' = go, p'.State \in {"STARTING", "STOPPING"} => p'.State = p.State
  PROVE  OwnedInv'
  BY DEF OwnedInv, Starter, Stopper, At

LEMMA BackgroundOwned ==
  ASSUME TypeInv, OwnedInv, NEW a \in Attempts,
         MonitorStep(a) \/ HealthStep(a) \/ ChildExit(a) \/ ContextKill(a)
  PROVE  OwnedInv'
<1>1. go' = go /\ (p'.State \in {"STARTING", "STOPPING"} => p'.State = p.State)
  BY MonitorEnterEffect, MonitorWaitEffect, MonitorRecordEffect, MonitorEndEffect, HealthEffect,
     ChildEffect DEF MonitorStep
<1>2. QED
  BY <1>1, OwnedFrame

LEMMA CallOwned ==
  ASSUME TypeInv, OwnedInv, NEW t \in Operators, NEW op \in {"start", "stop", "restart"},
         Call(t, op)
  PROVE  OwnedInv'
<1>1. t \in Threads /\ t \notin Restarters
  BY ProcessAssumption, SupervisorAssumption DEF Threads
<1>2. Others(t) /\ go[t].pc = "idle" /\ UNCHANGED p
  BY CallEffect
<1>3. ~Starter(t) /\ ~Stopper(t)
  BY <1>1, <1>2 DEF Starter, Stopper, Stopping, At
<1>4. QED
  BY <1>1, <1>2, <1>3, OwnedStep

LEMMA LoopOwned == ASSUME TypeInv, OwnedInv, LoopStep PROVE OwnedInv'
<1>0. Loop \in Threads /\ Loop \notin Restarters /\ Restarters \subseteq Threads
  BY WorkerThreads, SupervisorAssumption
<1>1. /\ go[Loop].pc \in {"idle", "handleExited", "checkRunning", "failed"}
      /\ \/ /\ Others(Loop)
            /\ p'.State \in {p.State, "FATAL"}
         \/ p'.State = "STARTING" /\ \E r \in Restarters : go'[r].pc = "asleep"
  BY LoopLookEffect, HandleExitedEffect, LoopFailedEffect DEF LoopStep
<1>2. ~Starter(Loop) /\ ~Stopper(Loop)
  BY <1>0, <1>1 DEF Starter, Stopper, Stopping, At
<1>3. CASE Others(Loop) /\ p'.State \in {p.State, "FATAL"}
  BY <1>0, <1>2, <1>3, OwnedStep
<1>4. CASE p'.State = "STARTING" /\ \E r \in Restarters : go'[r].pc = "asleep"
  BY <1>0, <1>4 DEF OwnedInv, Starter, At
<1>5. QED
  BY <1>1, <1>3, <1>4

LEMMA RestarterOwned ==
  ASSUME TypeInv, OwnedInv, NEW r \in Restarters, RestarterStep(r) PROVE OwnedInv'
<1>0. r \in Threads /\ Others(r)
  BY WorkerThreads, RestarterEffect
<1>1. p'.State = "STARTING" => p.State = "STARTING" /\ ~Starter(r)
  BY RestarterEffect DEF Starter, At
<1>2. p'.State = "STOPPING" => p.State = "STOPPING" /\ ~Stopper(r)
  BY RestarterEffect DEF Stopper, Stopping, At
<1>3. QED
  BY <1>0, <1>1, <1>2, OwnedStep

(* STARTING and STOPPING, which turn every caller away, always have an owner that will end
   them: a Start, a Stop or a sleeping restart goroutine, for any number of callers. *)
THEOREM NeverInLimbo == Spec => []NoLimbo
<1>1. Init => TypeInv /\ OwnedInv
  BY InitTypeInv DEF Init, InitProcess, OwnedInv
<1>2. TypeInv /\ OwnedInv /\ [Next]_vars => (TypeInv /\ OwnedInv)'
  <2>1. SUFFICES ASSUME TypeInv, OwnedInv, [Next]_vars PROVE OwnedInv'
    BY NextTypeInv
  <2>2. CASE UNCHANGED vars
    BY <2>1, <2>2, OwnedFrame DEF vars
  <2>3. CASE ProcessNext
    BY <2>1, <2>3, OperationOwned, BackgroundOwned, CallOwned DEF ProcessNext
  <2>4. QED
    BY <2>1, <2>2, <2>3, LoopOwned, RestarterOwned DEF Next
<1>3. OwnedInv => NoLimbo
  BY OwnedIsNoLimbo
<1>4. QED
  BY <1>1, <1>2, <1>3, PTL DEF Spec
=============================================================================
