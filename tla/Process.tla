------------------------------ MODULE Process ------------------------------
(***************************************************************************)
(* internal/process/process.go: one supervised program.  A *Process is a   *)
(* struct guarded by p.mu; Start, Stop and Restart lock it several times   *)
(* and do slow things (hooks, fork, webhooks, waits) between two critical  *)
(* sections, so each operation is a sequence of actions, one per critical  *)
(* section.  Every successful S3 section of Start opens a new ATTEMPT; the *)
(* context, the exec.Cmd, the OS child, waitCh and monitorDone it creates  *)
(* are all identified by the number of that attempt, and 0 stands for nil. *)
(*                                                                         *)
(* The operating system's side (child, CommandContext's SIGKILL) and the   *)
(* people and programs that call the API are modelled from how process.go  *)
(* uses them.  An fcgi socket is not configured here (see FcgiSocket).     *)
(*                                                                         *)
(* A definition with an underscore in its name is a variant with a fault   *)
(* in it, such as the code could have; it shows that a property can fail.  *)
(***************************************************************************)
EXTENDS Integers, FiniteSets

CONSTANTS
    Operators,      \* callers of the public API: web, socket, signal handlers
    Workers,        \* goroutines of the supervisor that call Start and Restart
    MaxAttempts,    \* bound: Start attempts in a behaviour
    MaxCalls,       \* bound: API calls the operators make
    MaxFaults,      \* bound: spontaneous exits, failed forks, failed checks
    Codes,          \* exit codes a child may return
    User,           \* Config.User # "" (the lookup may fail)
    StopSecs,       \* Config.StopSecs
    KillTimely,     \* timing: a monitor() that runs reaps a killed child in 5 s
    StopAsGroup,    \* Config.StopAsGroup || Config.KillsAsGroup
    HealthCheck,    \* Config.HealthCheckURL # ""
    UnhealthyThreshold  \* Config.HealthCheckUnhealthyThreshold

ASSUME ProcessAssumption ==
    /\ Operators \cap Workers = {}
    /\ MaxAttempts \in Nat /\ MaxCalls \in Nat /\ MaxFaults \in Nat
    /\ Codes \subseteq Nat
    /\ StopSecs \in Nat /\ UnhealthyThreshold \in Nat
    /\ User \in BOOLEAN /\ StopAsGroup \in BOOLEAN /\ HealthCheck \in BOOLEAN
    /\ KillTimely \in BOOLEAN

Attempts == 1 .. MaxAttempts
Ref      == 0 .. MaxAttempts        \* a pointer, channel or cancel func; 0 is nil
Threads  == Operators \cup Workers

States == {"STOPPED", "STARTING", "RUNNING", "STOPPING", "EXITED", "FATAL"}

VARIABLES
    p,          \* the fields of *Process
    go,         \* the goroutines executing Start, Stop or Restart
    mon,        \* the monitor goroutine of each attempt
    hc,         \* the runHealthCheck goroutine of each attempt
    child,      \* the OS process of each attempt
    code,       \* its exit status
    attempts,   \* attempts opened so far
    ctxDone,    \* start contexts that are cancelled
    hcDone,     \* health check contexts that are cancelled
    closed,     \* monitorDone channels that are closed
    exited,     \* waitCh channels that are closed
    panicked,   \* a channel was closed twice
    calls,      \* API calls made
    faults      \* faults met

vars == <<p, go, mon, hc, child, code, attempts, ctxDone, hcDone, closed,
          exited, panicked, calls, faults>>

-----------------------------------------------------------------------------
(* Types *)

ProcessType ==
    [State : States, Cmd : Ref, waitCh : Ref, monitorDone : Ref,
     startCancel : Ref, healthCheckCancel : Ref, StartRetries : Nat,
     ExitCode : Codes \cup {-1, 0}, Healthy : BOOLEAN,
     healthCheckFailures : Nat, healthCheckRestartFired : BOOLEAN]

(* pc of a goroutine inside the API.  "failed" is where a worker continues
   after an operation returned an error; an operator just gets the error.  *)
PC == {"idle", "start", "awaitMonitor", "spawn", "publish", "launch", "health",
       "stop", "signal", "grace", "recheck", "kill", "killwait", "done",
       "restart", "restarted", "failed", "asleep", "recheckExited",
       "handleExited", "checkRunning"}

(* att: the attempt being started, or the cmd Stop captured; ch: the channel
   captured under the lock; restarting: Stop was called by Restart.        *)
ThreadType == [pc : PC, att : Ref, ch : Ref, restarting : BOOLEAN]

Idle == [pc |-> "idle", att |-> 0, ch |-> 0, restarting |-> FALSE]

MonitorType == [pc : {"none", "entry", "wait", "record", "hook", "end"},
                done : Ref, cmd : Ref, exitCode : Codes \cup {-1, 0}]

HealthType == {"none", "tick", "check", "end"}

ChildState == {"none", "alive", "signalled", "killed", "zombie", "reaped"}
Alive == {"alive", "signalled", "killed"}

TypeOK ==
    /\ p \in ProcessType
    /\ go \in [Threads -> ThreadType]
    /\ mon \in [Attempts -> MonitorType]
    /\ hc \in [Attempts -> HealthType]
    /\ child \in [Attempts -> ChildState]
    /\ code \in [Attempts -> Codes \cup {-1, 0}]
    /\ attempts \in Ref
    /\ ctxDone \subseteq Attempts /\ hcDone \subseteq Attempts
    /\ closed \subseteq Attempts /\ exited \subseteq Attempts
    /\ panicked \in BOOLEAN
    /\ calls \in 0 .. MaxCalls /\ faults \in 0 .. MaxFaults

(* NewProcess *)
InitProcess ==
    [State |-> "STOPPED", Cmd |-> 0, waitCh |-> 0, monitorDone |-> 0,
     startCancel |-> 0, healthCheckCancel |-> 0, StartRetries |-> 0,
     ExitCode |-> 0, Healthy |-> FALSE, healthCheckFailures |-> 0,
     healthCheckRestartFired |-> FALSE]

Init ==
    /\ p = InitProcess
    /\ go = [t \in Threads |-> Idle]
    /\ mon = [a \in Attempts |-> [pc |-> "none", done |-> 0, cmd |-> 0,
                                   exitCode |-> 0]]
    /\ hc = [a \in Attempts |-> "none"]
    /\ child = [a \in Attempts |-> "none"]
    /\ code = [a \in Attempts |-> 0]
    /\ attempts = 0
    /\ ctxDone = {} /\ hcDone = {} /\ closed = {} /\ exited = {}
    /\ panicked = FALSE
    /\ calls = 0 /\ faults = 0

-----------------------------------------------------------------------------
(* Helpers *)

Fault == faults < MaxFaults /\ faults' = faults + 1

(* calling a cancel func or closing a channel that may be nil *)
With_Nil(set, ref) == set \cup {ref}
With(set, ref) == set \cup ({ref} \cap Attempts)

At(t, label) == go[t].pc = label
Goto(t, label) == go' = [go EXCEPT ![t].pc = label]

(* the operation returns nil / an error to its caller *)
Return(t) == go' = [go EXCEPT ![t] = Idle]
ReturnErr(t) ==
    go' = [go EXCEPT ![t] = IF t \in Workers
                            THEN [Idle EXCEPT !.pc = "failed"] ELSE Idle]

(* the effect of SIGKILL and of the stop signal on the child of attempt a;
   both do nothing to a child that is dead *)
Killed(a) == IF a # 0 /\ child[a] \in Alive
             THEN [child EXCEPT ![a] = "killed"] ELSE child
Signalled(a) == IF a # 0 /\ child[a] = "alive"
                THEN [child EXCEPT ![a] = "signalled"] ELSE child

-----------------------------------------------------------------------------
(* (p *Process) Start() *)

(* variant: the context of the previous start is not cancelled *)
StartEnter_NoCancel(t) ==
    /\ At(t, "start")
    /\ IF p.State = "RUNNING"
       THEN ReturnErr(t)
       ELSE go' = [go EXCEPT ![t] =
                 [@ EXCEPT !.pc = "awaitMonitor", !.ch = p.monitorDone]]
    /\ UNCHANGED <<p, mon, hc, child, code, attempts, ctxDone, hcDone, closed,
                   exited, panicked, calls, faults>>

(* First critical section: refuse if RUNNING, cancel the previous start's
   context, capture monitorDone. *)
StartEnter(t) ==
    /\ At(t, "start")
    /\ IF p.State = "RUNNING"
       THEN ReturnErr(t) /\ UNCHANGED ctxDone
       ELSE /\ ctxDone' = With(ctxDone, p.startCancel)
            /\ go' = [go EXCEPT ![t] =
                 [@ EXCEPT !.pc = "awaitMonitor", !.ch = p.monitorDone]]
    /\ UNCHANGED <<p, mon, hc, child, code, attempts, hcDone, closed, exited,
                   panicked, calls, faults>>

(* variant: does not wait for the previous monitor goroutine *)
StartReserve_NoWait(t) ==
    /\ At(t, "awaitMonitor")
    /\ IF p.State \in {"RUNNING", "STARTING", "STOPPING"}
       THEN ReturnErr(t) /\ UNCHANGED <<p, attempts>>
       ELSE /\ attempts < MaxAttempts
            /\ attempts' = attempts + 1
            /\ p' = [p EXCEPT !.State = "STARTING", !.Cmd = 0, !.startCancel = attempts + 1]
            /\ go' = [go EXCEPT ![t] = [@ EXCEPT !.pc = "spawn", !.att = attempts + 1]]
    /\ UNCHANGED <<mon, hc, child, code, ctxDone, hcDone, closed, exited,
                   panicked, calls, faults>>

(* <-monDone, then the second critical section: re-check the state, open a
   new attempt.  The user lookup may fail. *)
StartReserve(t) ==
    /\ At(t, "awaitMonitor")
    /\ go[t].ch \in closed \cup {0}
    /\ IF p.State \in {"RUNNING", "STARTING", "STOPPING"}
       THEN ReturnErr(t) /\ UNCHANGED <<p, attempts, faults>>
       ELSE /\ attempts < MaxAttempts
            /\ attempts' = attempts + 1
            /\ \E found \in {TRUE, ~User} :
                 /\ IF found THEN UNCHANGED faults ELSE Fault
                 /\ p' = [p EXCEPT
                       !.State = IF found THEN "STARTING" ELSE "EXITED",
                       !.Cmd = 0, !.StartRetries = @ + 1, !.Healthy = FALSE,
                       !.healthCheckFailures = 0, !.startCancel = attempts + 1]
                 /\ IF found
                    THEN go' = [go EXCEPT ![t] = [@ EXCEPT
                                  !.pc = "spawn", !.att = attempts + 1]]
                    ELSE ReturnErr(t)
    /\ UNCHANGED <<mon, hc, child, code, ctxDone, hcDone, closed, exited,
                   panicked, calls>>

(* Pre-start hook, cmd.Start(): CommandContext refuses when its context is
   already cancelled; otherwise the fork may fail. *)
StartSpawn(t) ==
    LET a == go[t].att IN
    /\ At(t, "spawn")
    /\ \/ /\ a \notin ctxDone
          /\ child' = [child EXCEPT ![a] = "alive"]
          /\ Goto(t, "publish")
          /\ UNCHANGED <<p, faults>>
       \/ /\ IF a \in ctxDone THEN UNCHANGED faults ELSE Fault
          /\ p' = [p EXCEPT !.State = "EXITED"]
          /\ ReturnErr(t)
          /\ UNCHANGED child
    /\ UNCHANGED <<mon, hc, code, attempts, ctxDone, hcDone, closed, exited,
                   panicked, calls>>

(* variant: a re-check that forgets to kill *)
StartPublish_NoKill(t) ==
    LET a == go[t].att IN
    /\ At(t, "publish")
    /\ IF p.State # "STARTING"
       THEN ReturnErr(t) /\ UNCHANGED p
       ELSE /\ p' = [p EXCEPT !.waitCh = a, !.monitorDone = a, !.Cmd = a,
                              !.State = "RUNNING"]
            /\ Goto(t, "launch")
    /\ UNCHANGED <<mon, hc, child, code, attempts, ctxDone, hcDone, closed, exited,
                   panicked, calls, faults>>

(* Third critical section: if the state is no longer STARTING the child is
   killed (and never waited for), otherwise it is published as RUNNING. *)
StartPublish(t) ==
    LET a == go[t].att IN
    /\ At(t, "publish")
    /\ IF p.State # "STARTING"
       THEN child' = Killed(a) /\ ReturnErr(t) /\ UNCHANGED p
       ELSE /\ p' = [p EXCEPT !.waitCh = a, !.monitorDone = a, !.Cmd = a,
                              !.State = "RUNNING"]
            /\ Goto(t, "launch")
            /\ UNCHANGED child
    /\ UNCHANGED <<mon, hc, code, attempts, ctxDone, hcDone, closed, exited,
                   panicked, calls, faults>>

(* After the RUNNING webhook returned: go p.monitor() *)
StartLaunch(t) ==
    /\ At(t, "launch")
    /\ mon' = [mon EXCEPT ![go[t].att].pc = "entry"]
    /\ IF HealthCheck THEN Goto(t, "health") ELSE Return(t)
    /\ UNCHANGED <<p, hc, child, code, attempts, ctxDone, hcDone, closed,
                   exited, panicked, calls, faults>>

(* variant: the previous health check is not cancelled *)
StartHealthCheck_NoCancel(t) ==
    LET a == go[t].att IN
    /\ At(t, "health")
    /\ p' = [p EXCEPT !.healthCheckCancel = a]
    /\ hc' = [hc EXCEPT ![a] = "tick"]
    /\ Return(t)
    /\ UNCHANGED <<mon, child, code, attempts, ctxDone, hcDone, closed, exited,
                   panicked, calls, faults>>

(* startHealthCheck() *)
StartHealthCheck(t) ==
    LET a == go[t].att IN
    /\ At(t, "health")
    /\ hcDone' = With(hcDone, p.healthCheckCancel)
    /\ p' = [p EXCEPT !.healthCheckCancel = a]
    /\ hc' = [hc EXCEPT ![a] = "tick"]
    /\ Return(t)
    /\ UNCHANGED <<mon, child, code, attempts, ctxDone, closed, exited,
                   panicked, calls, faults>>

-----------------------------------------------------------------------------
(* (p *Process) Stop() *)

(* Stop returns: to its caller, or to the rest of Restart *)
StopReturn(t) ==
    IF go[t].restarting
    THEN go' = [go EXCEPT ![t] = [Idle EXCEPT !.pc = "restarted"]]
    ELSE Return(t)

(* variant: only the STOPPING that Restart sets is taken for a running process *)
StopEnter_OnlyStopping(t) ==
    /\ At(t, "stop")
    /\ IF p.Cmd = 0 \/ p.State # "STOPPING"
       THEN p' = [p EXCEPT !.State = "STOPPED"] /\ StopReturn(t)
       ELSE /\ p' = [p EXCEPT !.State = "STOPPING"]
            /\ go' = [go EXCEPT ![t] = [@ EXCEPT !.pc = "signal",
                                          !.att = p.Cmd, !.ch = p.waitCh]]
    /\ UNCHANGED <<mon, hc, child, code, attempts, ctxDone, hcDone, closed,
                   exited, panicked, calls, faults>>

StopEnter(t) ==
    /\ At(t, "stop")
    /\ IF p.Cmd = 0 \/ p.State \notin {"RUNNING", "STOPPING"}
       THEN p' = [p EXCEPT !.State = "STOPPED"] /\ StopReturn(t)
       ELSE /\ p' = [p EXCEPT !.State = "STOPPING"]
            /\ go' = [go EXCEPT ![t] = [@ EXCEPT !.pc = "signal",
                                          !.att = p.Cmd, !.ch = p.waitCh]]
    /\ UNCHANGED <<mon, hc, child, code, attempts, ctxDone, hcDone, closed,
                   exited, panicked, calls, faults>>

(* variant: the start context is cancelled before the grace period *)
StopSignal_Cancel(t) ==
    /\ At(t, "signal")
    /\ child' = Signalled(go[t].att)
    /\ ctxDone' = With(ctxDone, p.startCancel)
    /\ Goto(t, IF go[t].ch = 0 THEN "kill" ELSE "grace")
    /\ UNCHANGED <<p, mon, hc, code, attempts, hcDone, closed, exited,
                   panicked, calls, faults>>

StopSignal(t) ==
    /\ At(t, "signal")
    /\ child' = Signalled(go[t].att)
    /\ Goto(t, IF go[t].ch = 0 THEN "kill" ELSE "grace")
    /\ UNCHANGED <<p, mon, hc, code, attempts, ctxDone, hcDone, closed, exited,
                   panicked, calls, faults>>

(* variant: the timeout ends the Stop *)
StopGrace_GivesUp(t) ==
    /\ At(t, "grace")
    /\ Goto(t, "done")
    /\ UNCHANGED <<p, mon, hc, child, code, attempts, ctxDone, hcDone, closed,
                   exited, panicked, calls, faults>>

(* wait for waitCh, at most StopSecs; a StopSecs of 0 is a poll *)
StopGrace(t) ==
    /\ At(t, "grace")
    /\ \/ go[t].ch \in exited /\ Goto(t, "done")
       \/ (StopSecs > 0 \/ go[t].ch \notin exited) /\ Goto(t, "recheck")
    /\ UNCHANGED <<p, mon, hc, child, code, attempts, ctxDone, hcDone, closed,
                   exited, panicked, calls, faults>>

StopRecheck(t) ==
    /\ At(t, "recheck")
    /\ Goto(t, IF go[t].ch \in exited THEN "done" ELSE "kill")
    /\ UNCHANGED <<p, mon, hc, child, code, attempts, ctxDone, hcDone, closed,
                   exited, panicked, calls, faults>>

StopKill(t) ==
    /\ At(t, "kill")
    /\ child' = Killed(go[t].att)
    /\ Goto(t, IF go[t].ch = 0 THEN "done" ELSE "killwait")
    /\ UNCHANGED <<p, mon, hc, code, attempts, ctxDone, hcDone, closed, exited,
                   panicked, calls, faults>>

(* time.After(5s) wins.  Before go p.monitor(), which Start calls after its
   webhook, nobody can close waitCh and Stop always times out.  After it, the
   timeout needs a kernel that keeps a killed child, a grandchild that keeps the
   child's pipe or a starved monitor: KillTimely excludes that and no more. *)
KillTimeout(t) == ~KillTimely \/ mon[go[t].att].pc = "none"

(* wait for waitCh, at most five seconds *)
StopKillWait(t) ==
    /\ At(t, "killwait")
    /\ go[t].ch \in exited \/ KillTimeout(t)
    /\ Goto(t, "done")
    /\ UNCHANGED <<p, mon, hc, child, code, attempts, ctxDone, hcDone, closed,
                   exited, panicked, calls, faults>>

StopDone(t) ==
    /\ At(t, "done")
    /\ hcDone' = With(hcDone, p.healthCheckCancel)
    /\ ctxDone' = With(ctxDone, p.startCancel)
    /\ p' = [p EXCEPT !.State = IF @ = "STOPPING" THEN "STOPPED" ELSE @,
                      !.Cmd = 0]
    /\ StopReturn(t)
    /\ UNCHANGED <<mon, hc, child, code, attempts, closed, exited, panicked,
                   calls, faults>>

-----------------------------------------------------------------------------
(* (p *Process) Restart() *)

RestartEnter(t) ==
    /\ At(t, "restart")
    /\ CASE p.State = "FATAL" -> ReturnErr(t) /\ UNCHANGED p
         [] p.State \in {"STOPPING", "STARTING"} -> Return(t) /\ UNCHANGED p
         [] OTHER ->
              /\ p' = [p EXCEPT
                         !.State = IF @ = "RUNNING" THEN "STOPPING" ELSE @]
              /\ go' = [go EXCEPT ![t] =
                          [Idle EXCEPT !.pc = "stop", !.restarting = TRUE]]
    /\ UNCHANGED <<mon, hc, child, code, attempts, ctxDone, hcDone, closed,
                   exited, panicked, calls, faults>>

RestartStart(t) ==
    /\ At(t, "restarted")
    /\ IF p.State \in {"RUNNING", "STARTING"} THEN Return(t) ELSE Goto(t, "start")
    /\ UNCHANGED <<p, mon, hc, child, code, attempts, ctxDone, hcDone, closed,
                   exited, panicked, calls, faults>>

-----------------------------------------------------------------------------
(* (p *Process) monitor(), the goroutine that waits for the child *)

(* Entry, without the lock: the deferred close captures p.monitorDone, and
   p.Cmd is read.  A nil Cmd panics; the panic is recovered and the deferred
   close runs. *)
CloseDone(a, ch) ==
    /\ closed' = With(closed, ch)
    /\ panicked' = (panicked \/ ch \in closed \cup {0})
    /\ mon' = [mon EXCEPT ![a].pc = "end"]

MonitorEnter(a) ==
    /\ mon[a].pc = "entry"
    /\ IF p.Cmd = 0
       THEN CloseDone(a, p.monitorDone)
       ELSE /\ mon' = [mon EXCEPT ![a] = [@ EXCEPT !.pc = "wait",
                                    !.done = p.monitorDone, !.cmd = p.Cmd]]
            /\ UNCHANGED <<closed, panicked>>
    /\ UNCHANGED <<p, go, hc, child, code, attempts, ctxDone, hcDone, exited,
                   calls, faults>>

(* variant: goes on before the child has ended *)
MonitorWait_Early(a) ==
    /\ mon[a].pc = "wait"
    /\ ctxDone' = With(ctxDone, p.startCancel)
    /\ mon' = [mon EXCEPT ![a] = [@ EXCEPT !.pc = "record", !.exitCode = -1]]
    /\ UNCHANGED <<p, go, hc, child, code, attempts, hcDone, closed, exited, panicked,
                   calls, faults>>

(* Cmd.Wait() returns (at once, with an error, if it was called before), and
   the current start context is cancelled *)
MonitorWait(a) ==
    LET c == mon[a].cmd IN
    /\ mon[a].pc = "wait"
    /\ child[c] \in {"zombie", "reaped"}
    /\ child' = [child EXCEPT ![c] = "reaped"]
    /\ ctxDone' = With(ctxDone, p.startCancel)
    /\ mon' = [mon EXCEPT ![a] = [@ EXCEPT !.pc = "record",
                 !.exitCode = IF child[c] = "zombie" THEN code[c] ELSE -1]]
    /\ UNCHANGED <<p, go, hc, code, attempts, hcDone, closed, exited, panicked,
                   calls, faults>>

(* variant: waitCh is closed and not set to nil *)
MonitorRecord_KeepsWaitCh(a) ==
    /\ mon[a].pc = "record"
    /\ exited' = With(exited, p.waitCh)
    /\ p' = [p EXCEPT !.ExitCode = mon[a].exitCode,
                      !.State = IF @ = "STOPPING" THEN @ ELSE "EXITED"]
    /\ mon' = [mon EXCEPT ![a].pc = "hook"]
    /\ UNCHANGED <<go, hc, child, code, attempts, ctxDone, hcDone, closed,
                   panicked, calls, faults>>

MonitorRecord(a) ==
    /\ mon[a].pc = "record"
    /\ exited' = With(exited, p.waitCh)
    /\ p' = [p EXCEPT !.waitCh = 0, !.ExitCode = mon[a].exitCode,
                      !.State = IF @ = "STOPPING" THEN @ ELSE "EXITED"]
    /\ mon' = [mon EXCEPT ![a].pc = "hook"]
    /\ UNCHANGED <<go, hc, child, code, attempts, ctxDone, hcDone, closed,
                   panicked, calls, faults>>

(* variant: monitorDone stays open *)
MonitorEnd_NoClose(a) ==
    /\ mon[a].pc = "hook"
    /\ mon' = [mon EXCEPT ![a].pc = "end"]
    /\ UNCHANGED <<p, go, hc, child, code, attempts, ctxDone, hcDone, closed, exited,
                   panicked, calls, faults>>

(* the webhook and the post-stop hook have run *)
MonitorEnd(a) ==
    /\ mon[a].pc = "hook"
    /\ CloseDone(a, mon[a].done)
    /\ UNCHANGED <<p, go, hc, child, code, attempts, ctxDone, hcDone, exited,
                   calls, faults>>

-----------------------------------------------------------------------------
(* runHealthCheck(ctx) *)

HealthTick(a) ==
    /\ hc[a] = "tick"
    /\ \/ a \in hcDone /\ hc' = [hc EXCEPT ![a] = "end"]
       \/ hc' = [hc EXCEPT ![a] = IF p.State = "RUNNING" THEN "check" ELSE "end"]
    /\ UNCHANGED <<p, go, mon, child, code, attempts, ctxDone, hcDone, closed,
                   exited, panicked, calls, faults>>

HealthResult(a) ==
    /\ hc[a] = "check"
    /\ IF a \in hcDone
       THEN hc' = [hc EXCEPT ![a] = "end"] /\ UNCHANGED <<p, faults>>
       ELSE /\ hc' = [hc EXCEPT ![a] = "tick"]
            /\ \/ /\ p' = [p EXCEPT !.healthCheckFailures = 0, !.Healthy = TRUE,
                                    !.healthCheckRestartFired = FALSE]
                  /\ UNCHANGED faults
               \/ /\ p' = [p EXCEPT !.healthCheckFailures = @ + 1,
                             !.Healthy = @ /\ p.healthCheckFailures + 1
                                                < UnhealthyThreshold]
                  /\ Fault
    /\ UNCHANGED <<go, mon, child, code, attempts, ctxDone, hcDone, closed,
                   exited, panicked, calls>>

-----------------------------------------------------------------------------
(* The environment *)

Call(t, op) ==
    /\ At(t, "idle")
    /\ calls < MaxCalls
    /\ calls' = calls + 1
    /\ Goto(t, op)
    /\ UNCHANGED <<p, mon, hc, child, code, attempts, ctxDone, hcDone, closed,
                   exited, panicked, faults>>

(* A child ends: of its own accord, at the stop signal, or at SIGKILL. *)
ChildExit(a) ==
    /\ \/ child[a] = "alive" /\ Fault /\ code' \in {[code EXCEPT ![a] = c] : c \in Codes}
       \/ child[a] = "signalled" /\ UNCHANGED faults
            /\ code' \in {[code EXCEPT ![a] = c] : c \in Codes \cup {-1}}
       \/ child[a] = "killed" /\ UNCHANGED faults /\ code' = [code EXCEPT ![a] = -1]
    /\ child' = [child EXCEPT ![a] = "zombie"]
    /\ UNCHANGED <<p, go, mon, hc, attempts, ctxDone, hcDone, closed, exited,
                   panicked, calls>>

(* exec.CommandContext's own goroutine kills a child whose context is done *)
ContextKill(a) ==
    /\ a \in ctxDone
    /\ child[a] \in {"alive", "signalled"}
    /\ child' = [child EXCEPT ![a] = "killed"]
    /\ UNCHANGED <<p, go, mon, hc, code, attempts, ctxDone, hcDone, closed,
                   exited, panicked, calls, faults>>

-----------------------------------------------------------------------------
Start(t) ==
    \/ StartEnter(t) \/ StartReserve(t) \/ StartSpawn(t)
    \/ StartPublish(t) \/ StartLaunch(t) \/ StartHealthCheck(t)

Stop(t) ==
    \/ StopEnter(t) \/ StopSignal(t) \/ StopGrace(t) \/ StopRecheck(t)
    \/ StopKill(t) \/ StopKillWait(t) \/ StopDone(t)

Restart(t) == RestartEnter(t) \/ RestartStart(t)

Operation(t) == Start(t) \/ Stop(t) \/ Restart(t)

MonitorStep(a) ==
    MonitorEnter(a) \/ MonitorWait(a) \/ MonitorRecord(a) \/ MonitorEnd(a)

HealthStep(a) == HealthTick(a) \/ HealthResult(a)

ProcessNext ==
    \/ \E t \in Threads : Operation(t)
    \/ \E a \in Attempts :
         MonitorStep(a) \/ HealthStep(a) \/ ChildExit(a) \/ ContextKill(a)
    \/ \E t \in Operators : \E op \in {"start", "stop", "restart"} : Call(t, op)

(* The goroutines run: the scheduler is fair to each of them, webhooks have a
   timeout, timers fire, the kernel delivers SIGKILL.  Three steps may never
   come and are not fair: runHook has no timeout, so the pre-start hook may keep
   StartSpawn and the post-stop hook MonitorEnd waiting for ever; and Cmd.Wait
   also waits for a grandchild that holds the child's pipe (MonitorWait).
   Nothing forces a caller to call, a child to exit or a fault to happen. *)
ProcessFairness ==
    /\ \A t \in Threads : WF_vars(~At(t, "spawn") /\ Operation(t))
    /\ \A a \in Attempts :
         /\ WF_vars(MonitorEnter(a)) /\ WF_vars(MonitorRecord(a))
         /\ WF_vars(HealthStep(a)) /\ WF_vars(ContextKill(a))
         /\ WF_vars(child[a] = "killed" /\ ChildExit(a))

ProcessSpec == Init /\ [][ProcessNext]_vars /\ ProcessFairness

-----------------------------------------------------------------------------
(* Properties *)

(* An attempt whose child runs and which nobody has condemned. *)
Survivors == {a \in Attempts : child[a] \in {"alive", "signalled"} /\ a \notin ctxDone}

(* a's child is still in the hands of the Start that forks it *)
InStart(a) == \E t \in Threads : go[t].att = a /\ go[t].pc \in {"spawn", "publish"}

NobodyInside == \A t \in Threads : At(t, "idle")

(* monitor() closes p.waitCh and sets it to nil in one critical section, and
   every Start publishes a channel of its own: the channel in p.waitCh is
   never one that is closed already (closing it again would panic with p.mu
   held, and the process could never be controlled again). *)
WaitChClosedOnce == p.waitCh \notin exited

(* A closed waitCh is what Stop takes for "the process is confirmed dead": it
   is closed only for a child that was waited for. *)
ExitConfirmed == \A a \in exited : child[a] = "reaped"

(* monitor() reads p.Cmd and p.monitorDone without the lock, after a webhook
   that may take long.  What it waits for and what it closes belong to the
   attempt it was started for, so that the channel is closed once and every
   Start that waits for it is released. *)
MonitorOwnsChild ==
    /\ \A a \in Attempts : mon[a].pc \in {"wait", "record", "hook"} =>
                               mon[a].cmd = a /\ mon[a].done = a
    /\ ~panicked

(* No child escapes: one that survives is either the published Cmd, which a
   Stop can reach, or still held by the Start that forked it. *)
NoEscape == \A a \in Survivors : p.Cmd = a \/ InStart(a)

(* With nobody inside the API, the state tells the truth: a survivor exists
   only as the Cmd of a RUNNING process, whose monitor goroutine watches it. *)
StateTellsTruth ==
    NobodyInside => \A a \in Survivors :
        p.State = "RUNNING" /\ p.Cmd = a /\ mon[a].pc \in {"entry", "wait"}

(* Stop goes on to "Now that the process is confirmed dead" and clears Cmd only
   when the child it captured is dead or has its SIGKILL: it is never taken in by
   the closed channel of another attempt.  (The child may still be dying: the
   last wait ends after five seconds whatever happens.) *)
StopConfirmsDeath ==
    \A t \in Threads : At(t, "done") =>
        child[go[t].att] \in {"killed", "zombie", "reaped"}

(* The forced kill of a process group names a pid; Stop looks at waitCh again
   just before it "avoiding a reused PID": the pid has not been reaped. *)
KillTargetsOwnPid ==
    [][\A t \in Threads :
          StopAsGroup /\ StopKill(t) => child[go[t].att] # "reaped"]_vars

(* Stop stops: with nobody inside the API, a STOPPED process has no child that
   survives ("SIGKILL is sent if the process is still alive"). *)
StoppedIsDead == NobodyInside /\ p.State = "STOPPED" => Survivors = {}

(* "stopsignal is sent first, then after stopsecs SIGKILL is sent": a child
   that got its stop signal gets SIGKILL only from Stop's own forced kill. *)
GracefulStop ==
    [][\A a \in Attempts : child[a] = "signalled" /\ child'[a] = "killed" =>
          \E t \in Threads : At(t, "kill") /\ go[t].att = a]_vars

(* What a call may wait for without end: its own pre-start hook, or, in Start,
   the previous attempt's monitor in the post-stop hook or in the Wait for a
   child that is dead but whose pipe is held. *)
Hangs(t) ==
    \/ At(t, "spawn")
    \/ /\ At(t, "awaitMonitor") /\ go[t].ch # 0
       /\ \/ mon[go[t].ch].pc = "hook"
          \/ mon[go[t].ch].pc = "wait" /\ child[go[t].ch] \in {"zombie", "reaped"}

(* Every call returns, unless a hook or a held pipe keeps a Start: Stop always
   returns, and Start never waits for a channel that nobody is going to close. *)
CallsReturn == \A t \in Operators : []<>At(t, "idle") \/ <>[]Hangs(t)

=============================================================================
