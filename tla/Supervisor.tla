---------------------------- MODULE Supervisor ----------------------------
(***************************************************************************)
(* internal/process/monitor.go: the monitor loop that ticks once a second, *)
(* restarts exited processes in goroutines of their own, resets the retry  *)
(* count of stable ones and restarts unhealthy ones, composed with one     *)
(* Process.  The loop is the worker Loop; every restart it schedules runs  *)
(* in one of the workers Restarters.                                       *)
(***************************************************************************)
EXTENDS Process

CONSTANTS
    Loop,               \* the goroutine of Monitor.monitorLoop
    Restarters,         \* bound: restart goroutines alive at the same time
    AutoRestart,        \* Config.AutoRestart
    StartRetries,       \* Config.StartRetries
    StartSecs,          \* Config.StartSecs
    HealthCheckRestart, \* Config.HealthCheckRestart
    RestartMaxCount,    \* Config.RestartMaxCount
    RestartCodes,       \* Config.RestartCodes
    NoRestartCodes,     \* Config.NoRestartCodes
    ExitCodes           \* Config.ExitCodes

ASSUME SupervisorAssumption ==
    /\ Workers = Restarters \cup {Loop}
    /\ Loop \notin Restarters
    /\ AutoRestart \in BOOLEAN /\ HealthCheckRestart \in BOOLEAN
    /\ StartRetries \in Int /\ StartSecs \in Int /\ RestartMaxCount \in Int

-----------------------------------------------------------------------------
(* shouldRestartOnExitCode() *)
ShouldRestartOnExitCode ==
    IF RestartCodes # {} THEN p.ExitCode \in RestartCodes
                         ELSE p.ExitCode \notin NoRestartCodes

(* restartRateExceeded() counts timestamps in a sliding window; with a limit
   configured either answer is possible *)
RestartRateExceeded == IF RestartMaxCount > 0 THEN BOOLEAN ELSE {FALSE}

RetriesExhausted == p.StartRetries > StartRetries

(* checkProcess reads the state; only EXITED and RUNNING need work *)
LoopTick ==
    /\ At(Loop, "idle")
    /\ CASE p.State = "EXITED"  -> Goto(Loop, "handleExited")
         [] p.State = "RUNNING" -> Goto(Loop, "checkRunning")
         [] OTHER               -> UNCHANGED go
    /\ UNCHANGED <<p, mon, hc, child, code, attempts, ctxDone, hcDone, closed,
                   exited, panicked, calls, faults>>

(* variant: the retries are not counted *)
HandleExited_NoLimit ==
    /\ At(Loop, "handleExited")
    /\ p' = IF p.State = "EXITED" THEN [p EXCEPT !.State = "STARTING"] ELSE p
    /\ \E r \in Restarters :
         /\ At(r, "idle")
         /\ go' = [go EXCEPT ![Loop] = Idle, ![r].pc = IF p.State = "EXITED" THEN "asleep" ELSE @]
    /\ UNCHANGED <<mon, hc, child, code, attempts, ctxDone, hcDone, closed,
                   exited, panicked, calls, faults>>

(* handleExitedProcess: give up (FATAL) or mark STARTING and start a restart
   goroutine, in one critical section.  The code starts one at every exit it
   finds; that one of Restarters must be idle is the bound on how many live at
   the same time. *)
HandleExited ==
    LET retries == IF p.ExitCode \in ExitCodes THEN 0 ELSE p.StartRetries
    IN
    /\ At(Loop, "handleExited")
    /\ \/ /\ ~AutoRestart \/ p.State # "EXITED"
          /\ Return(Loop) /\ UNCHANGED p
       \/ /\ AutoRestart /\ p.State = "EXITED" /\ ~ShouldRestartOnExitCode
          /\ p' = [p EXCEPT !.State = "FATAL"]
          /\ Return(Loop)
       \/ /\ AutoRestart /\ p.State = "EXITED" /\ ShouldRestartOnExitCode
          /\ \E exceeded \in RestartRateExceeded :
               IF exceeded \/ retries > StartRetries
               THEN /\ p' = [p EXCEPT !.State = "FATAL", !.StartRetries = retries]
                    /\ Return(Loop)
               ELSE /\ p' = [p EXCEPT !.State = "STARTING", !.StartRetries = retries]
                    /\ \E r \in Restarters :
                         /\ At(r, "idle")
                         /\ go' = [go EXCEPT ![Loop] = Idle, ![r].pc = "asleep"]
    /\ UNCHANGED <<mon, hc, child, code, attempts, ctxDone, hcDone, closed,
                   exited, panicked, calls, faults>>

(* variant: STARTING is not put back to EXITED, which the re-check expects *)
RestarterWake_KeepsStarting(r) ==
    /\ At(r, "asleep")
    /\ IF p.State \in {"STOPPED", "STOPPING"} THEN Return(r) ELSE Goto(r, "recheckExited")
    /\ UNCHANGED <<p, mon, hc, child, code, attempts, ctxDone, hcDone, closed,
                   exited, panicked, calls, faults>>

(* the restart goroutine after its one second of sleep *)
RestarterWake(r) ==
    /\ At(r, "asleep")
    /\ IF \/ p.State \in {"STOPPED", "STOPPING"}
          \/ p.State = "STARTING" /\ p.healthCheckRestartFired
       THEN Return(r) ELSE Goto(r, "recheckExited")
    /\ p' = IF p.State = "STARTING"
            THEN [p EXCEPT !.State = "EXITED", !.healthCheckRestartFired = FALSE]
            ELSE p
    /\ UNCHANGED <<mon, hc, child, code, attempts, ctxDone, hcDone, closed,
                   exited, panicked, calls, faults>>

RestarterRecheck(r) ==
    /\ At(r, "recheckExited")
    /\ IF p.State = "EXITED" THEN Goto(r, "start") ELSE Return(r)
    /\ UNCHANGED <<p, mon, hc, child, code, attempts, ctxDone, hcDone, closed,
                   exited, panicked, calls, faults>>

(* process.Start() returned an error to the restart goroutine *)
RestarterFailed(r) ==
    /\ At(r, "failed")
    /\ p' = IF p.State \notin {"STOPPED", "STOPPING", "STARTING"} /\ RetriesExhausted
            THEN [p EXCEPT !.State = "FATAL"] ELSE p
    /\ Return(r)
    /\ UNCHANGED <<mon, hc, child, code, attempts, ctxDone, hcDone, closed,
                   exited, panicked, calls, faults>>

(* checkRunningProcess: the uptime test is a clock reading, so with a positive
   StartSecs either outcome is possible *)
CheckRunning ==
    /\ At(Loop, "checkRunning")
    /\ IF p.State = "STOPPING"
       THEN Return(Loop) /\ UNCHANGED p
       ELSE \E stable \in {FALSE, StartSecs > 0 /\ (p.Healthy \/ ~HealthCheck)} :
              LET fire == /\ HealthCheckRestart /\ HealthCheck /\ ~p.Healthy
                          /\ p.State = "RUNNING" /\ ~p.healthCheckRestartFired
              IN /\ p' = [p EXCEPT !.StartRetries = IF stable THEN 0 ELSE @,
                                   !.healthCheckRestartFired = @ \/ fire]
                 /\ IF fire THEN Goto(Loop, "restart") ELSE Return(Loop)
    /\ UNCHANGED <<mon, hc, child, code, attempts, ctxDone, hcDone, closed,
                   exited, panicked, calls, faults>>

(* the health check restart returned an error to the loop *)
LoopFailed ==
    /\ At(Loop, "failed")
    /\ p' = IF p.State \notin {"RUNNING", "STARTING"} /\ RetriesExhausted
            THEN [p EXCEPT !.State = "FATAL"] ELSE p
    /\ Return(Loop)
    /\ UNCHANGED <<mon, hc, child, code, attempts, ctxDone, hcDone, closed,
                   exited, panicked, calls, faults>>

-----------------------------------------------------------------------------
LoopStep == LoopTick \/ HandleExited \/ CheckRunning \/ LoopFailed

RestarterStep(r) == RestarterWake(r) \/ RestarterRecheck(r) \/ RestarterFailed(r)

Next ==
    \/ ProcessNext
    \/ LoopStep
    \/ \E r \in Restarters : RestarterStep(r)

(* The ticker of the loop and the restart goroutines' timers fire; a Restart the
   loop makes is as fair as Process says. *)
Fairness ==
    /\ ProcessFairness
    /\ WF_vars(LoopStep)
    /\ \A r \in Restarters : WF_vars(RestarterStep(r))

Spec == Init /\ [][Next]_vars /\ Fairness

-----------------------------------------------------------------------------
(* Properties *)

(* FATAL is for processes that were given up: their child is not running.  The
   loop tests for this after a failed restart ("If another path already
   started a restart, ignore this failure"), monitor.go. *)
FatalIsDead == p.State = "FATAL" => p.Cmd \notin Survivors

(* Stop is final: the restart goroutine that was scheduled before never starts
   a process that is STOPPED ("Stop() was called while we slept - bail"). *)
RestarterRespectsStop ==
    [][\A r \in Restarters :
          At(r, "awaitMonitor") /\ go'[r].pc = "spawn" => p.State # "STOPPED"]_vars

(* A process that keeps failing is given up: its starts since the last stable
   run or expected exit exceed StartRetries by at most one for every call of an
   operator and one for every restart goroutine beside the first.  (A goroutine
   puts EXITED back before its Start waits for monitorDone, so the loop may
   schedule another one for the same exit.) *)
RetryBound == p.StartRetries <= StartRetries + calls + Cardinality(Restarters) - 1

(* The loop restarts a process for its health only after the configured number
   of failed checks in a row. *)
HealthRestartJustified ==
    [][At(Loop, "checkRunning") /\ go'[Loop].pc = "restart" =>
          p.healthCheckFailures >= UnhealthyThreshold]_vars

Checkers == {a \in Attempts : hc[a] \in {"tick", "check"} /\ a \notin hcDone}

(* However restarts overlap, at most one health checker acts on the process,
   and a process at rest in RUNNING has one.  (A Stop that was overtaken by a
   Restart ends with the context, the health check and the Cmd of the new
   attempt: the process is about to be recorded as EXITED.) *)
OneChecker ==
    /\ Cardinality(Checkers) <= 1
    /\ HealthCheck /\ NobodyInside /\ p.State = "RUNNING" /\ p.Cmd # 0 =>
           Checkers # {}

(* However Starts overlap, the child that is left running is that of the newest
   attempt.  (Start recognises its own attempt by State = STARTING alone, so it
   may publish while a newer Start is under way; by then its context is
   cancelled, and it does not survive.) *)
NewestRuns == NobodyInside => Survivors \subseteq {attempts}

(* The two states that turn callers away never outlive their owner: a STARTING
   process has a Start that will publish it or a restart goroutine asleep that
   will put EXITED back, a STOPPING one has a Stop on its way to STOPPED.  A
   state without an owner would be for ever: Start and Restart refuse it and the
   loop looks at EXITED and RUNNING only. *)
NoLimbo ==
    /\ p.State = "STARTING" =>
          \/ \E t \in Threads : go[t].pc \in {"spawn", "publish"}
          \/ \E r \in Restarters : At(r, "asleep")
    /\ p.State = "STOPPING" =>
          \E t \in Threads :
             \/ go[t].pc \in {"signal", "grace", "recheck", "kill", "killwait", "done"}
             \/ At(t, "stop") /\ go[t].restarting
=============================================================================
