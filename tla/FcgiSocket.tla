----------------------------- MODULE FcgiSocket -----------------------------
(***************************************************************************)
(* internal/fcgi/socket.go and its use by process.go and monitor.go: the   *)
(* listening socket that the numprocs processes of one fcgi program share, *)
(* counted by references.  pm.fcgiSockets holds at most one SocketManager  *)
(* for the program; every NewSocketManager gets a number.  Of each process *)
(* only what decides about the socket is kept: its State, the Starts and   *)
(* Stops in progress (module Process has the rest of them).  A scheduled   *)
(* restart is a Start from EXITED (module Supervisor).                     *)
(* Definitions with an underscore are faulty variants (see Process).       *)
(***************************************************************************)
EXTENDS Integers, FiniteSets

CONSTANTS
    Procs,          \* the processes with one fcgiBaseName, and one address
    Starters,       \* goroutines that call Start; two may be at one process
    AutoRestart,    \* Config.AutoRestart
    Serial,         \* one operation at a time, on processes that need it
    MaxSockets,     \* bound: socket managers created
    MaxCalls,       \* bound: Start and Stop calls
    MaxFaults       \* bound: exits, failed forks, listens, modes and dups

ASSUME FcgiAssumption ==
    /\ AutoRestart \in BOOLEAN /\ Serial \in BOOLEAN
    /\ MaxSockets \in Nat /\ MaxCalls \in Nat /\ MaxFaults \in Nat
    /\ IsFiniteSet(Procs) /\ Procs # {}       \* numprocs

Sockets == 1 .. MaxSockets

VARIABLES
    st,         \* p.State
    fd,         \* the socket manager that p's child was attached to
    start,      \* where a Start is, of which process, and its socket manager
    stop,       \* how many Stops have set the state and are about to detach
    loop,       \* the process whose socket the monitor loop is about to detach
    entry,      \* pm.fcgiSockets[baseName]; 0 is absent
    sockets,    \* managers created
    refCount,   \* sm.refCount
    listener,   \* sm.listener: "nil" or "open"
    closed,     \* sm.closed
    orderly,    \* history: nothing failed, and every call found the others done
    calls, faults

vars == <<st, fd, start, stop, loop, entry, sockets, refCount, listener, closed,
          orderly, calls, faults>>

States == {"STOPPED", "STARTING", "RUNNING", "EXITED", "FATAL"}

PCs == {"idle", "lookup", "listen", "mode", "attach", "recheck", "spawn"}

TypeOK ==
    /\ st \in [Procs -> States] /\ fd \in [Procs -> 0 .. MaxSockets]
    /\ start \in [Starters -> [pc : PCs, x : Procs, sm : 0 .. MaxSockets]]
    /\ stop \in [Procs -> Nat]
    /\ loop \in SUBSET Procs
    /\ entry \in 0 .. MaxSockets /\ sockets \in 0 .. MaxSockets
    /\ refCount \in [Sockets -> Nat]
    /\ listener \in [Sockets -> {"nil", "open"}]
    /\ closed \in SUBSET Sockets /\ orderly \in BOOLEAN
    /\ calls \in 0 .. MaxCalls /\ faults \in 0 .. MaxFaults

(* no Start under way; the process it names means nothing *)
Idle == [pc |-> "idle", x |-> CHOOSE x \in Procs : TRUE, sm |-> 0]

Init ==
    /\ st = [x \in Procs |-> "STOPPED"] /\ fd = [x \in Procs |-> 0]
    /\ start = [t \in Starters |-> Idle]
    /\ stop = [x \in Procs |-> 0]
    /\ loop = {}
    /\ entry = 0 /\ sockets = 0
    /\ refCount = [s \in Sockets |-> 0]
    /\ listener = [s \in Sockets |-> "nil"]
    /\ closed = {} /\ orderly = TRUE
    /\ calls = 0 /\ faults = 0

Fault == faults < MaxFaults /\ faults' = faults + 1 /\ orderly' = FALSE

(* a step that fails because it must, or because of a fault *)
FailsIf(must) == IF must THEN UNCHANGED <<faults, orderly>> ELSE Fault

At(t, label) == start[t].pc = label
Goto(t, label) == start' = [start EXCEPT ![t].pc = label]
Return(t) == start' = [start EXCEPT ![t] = Idle]

Quiet == (\A t \in Starters : At(t, "idle")) /\ (\A x \in Procs : stop[x] = 0)

(* Start returns an error and writes EXITED, without a look at the state *)
StartFails(t) ==
    /\ st' = [st EXCEPT ![start[t].x] = "EXITED"]
    /\ Return(t)

-----------------------------------------------------------------------------
(* variant: Close on every Detach *)
DetachEntry_Eager ==
    IF entry = 0
    THEN UNCHANGED <<entry, refCount, listener, closed>>
    ELSE /\ closed' = closed \cup {entry}
         /\ listener' = [listener EXCEPT ![entry] = "nil"]
         /\ entry' = 0
         /\ UNCHANGED refCount

(* sm.Detach(), and what every caller but one does when it was the last one:
   sm.Close() and delete, under mgr.mu *)
DetachEntry ==
    IF entry = 0 \/ refCount[entry] = 0
    THEN UNCHANGED <<entry, refCount, listener, closed>>
    ELSE /\ refCount' = [refCount EXCEPT ![entry] = @ - 1]
         /\ IF refCount[entry] = 1
            THEN /\ closed' = closed \cup {entry}
                 /\ listener' = [listener EXCEPT ![entry] = "nil"]
                 /\ entry' = 0
            ELSE UNCHANGED <<entry, listener, closed>>

-----------------------------------------------------------------------------
(* Start: an operator, or the restart goroutine of the loop *)
StartCall(t, x) ==
    /\ At(t, "idle") /\ st[x] \in {"STOPPED", "EXITED", "FATAL"}
    /\ \/ calls < MaxCalls /\ calls' = calls + 1 /\ (Serial => Quiet)
       \/ AutoRestart /\ st[x] = "EXITED" /\ UNCHANGED calls
    /\ orderly' = (orderly /\ Quiet)
    /\ st' = [st EXCEPT ![x] = "STARTING"]
    /\ start' = [start EXCEPT ![t] = [pc |-> "lookup", x |-> x, sm |-> 0]]
    /\ UNCHANGED <<fd, stop, loop, entry, sockets, refCount, listener, closed, faults>>

(* sm.Attach(cmd): it fails if nobody listens, or with the dup of the listener *)
Attach(t, s) ==
    LET listening == s \notin closed /\ listener[s] = "open" IN
    \/ /\ listening
       /\ refCount' = [refCount EXCEPT ![s] = @ + 1]
       /\ start' = [start EXCEPT ![t].pc = "recheck", ![t].sm = s]
       /\ UNCHANGED <<st, faults, orderly>>
    \/ /\ FailsIf(~listening)
       /\ StartFails(t)
       /\ UNCHANGED refCount

(* under mgr.mu: use the manager that is there, or create it and go on to listen
   without the lock *)
Lookup(t) ==
    /\ At(t, "lookup")
    /\ IF entry # 0
       THEN Attach(t, entry) /\ UNCHANGED <<entry, sockets>>
       ELSE /\ sockets < MaxSockets
            /\ sockets' = sockets + 1
            /\ entry' = sockets + 1
            /\ start' = [start EXCEPT ![t].pc = "listen", ![t].sm = sockets + 1]
            /\ UNCHANGED <<st, refCount, faults, orderly>>
    /\ UNCHANGED <<fd, stop, loop, listener, closed, calls>>

(* sm.Listen(): it fails if the address is taken, and may fail otherwise; the
   entry is deleted, whichever manager it names by now *)
Listen(t) ==
    LET s     == start[t].sm
        taken == \E other \in Sockets : listener[other] = "open"
    IN
    /\ At(t, "listen")
    /\ \/ /\ ~taken
          /\ listener' = [listener EXCEPT ![s] = "open"]
          /\ Goto(t, "mode")
          /\ UNCHANGED <<st, entry, faults, orderly>>
       \/ /\ FailsIf(taken)
          /\ entry' = 0
          /\ StartFails(t)
          /\ UNCHANGED listener
    /\ UNCHANGED <<fd, stop, loop, sockets, refCount, closed, calls>>

(* variant: the failed mode closes the listener and leaves the entry *)
ApplyMode_KeepsEntry(t) ==
    /\ At(t, "mode")
    /\ \/ Goto(t, "attach") /\ UNCHANGED <<st, listener, faults, orderly>>
       \/ /\ Fault
          /\ listener' = [listener EXCEPT ![start[t].sm] = "nil"]
          /\ StartFails(t)
    /\ UNCHANGED <<fd, stop, loop, entry, sockets, refCount, closed, calls>>

(* chmod and chown of the socket file *)
ApplyMode(t) ==
    LET s == start[t].sm IN
    /\ At(t, "mode")
    /\ \/ Goto(t, "attach") /\ UNCHANGED <<st, entry, listener, faults, orderly>>
       \/ /\ Fault
          /\ listener' = [listener EXCEPT ![s] = "nil"]
          /\ entry' = 0
          /\ StartFails(t)
    /\ UNCHANGED <<fd, stop, loop, sockets, refCount, closed, calls>>

AttachNew(t) ==
    /\ At(t, "attach")
    /\ Attach(t, start[t].sm)
    /\ UNCHANGED <<fd, stop, loop, entry, sockets, listener, closed, calls>>

(* a Stop came meanwhile: Detach, but nobody closes *)
Recheck(t) ==
    LET s == start[t].sm IN
    /\ At(t, "recheck")
    /\ IF st[start[t].x] # "STARTING"
       THEN /\ refCount' = [refCount EXCEPT ![s] = IF @ = 0 THEN 0 ELSE @ - 1]
            /\ Return(t)
       ELSE Goto(t, "spawn") /\ UNCHANGED refCount
    /\ UNCHANGED <<st, fd, stop, loop, entry, sockets, listener, closed, calls, faults, orderly>>

(* the fork and the publication; a failed or unwanted child keeps its reference *)
Spawn(t) ==
    LET x == start[t].x IN
    /\ At(t, "spawn")
    /\ \/ /\ IF st[x] = "STARTING"
             THEN /\ st' = [st EXCEPT ![x] = "RUNNING"]
                  /\ fd' = [fd EXCEPT ![x] = start[t].sm]
             ELSE UNCHANGED <<st, fd>>
          /\ Return(t)
          /\ UNCHANGED <<faults, orderly>>
       \/ Fault /\ StartFails(t) /\ UNCHANGED fd
    /\ UNCHANGED <<stop, loop, entry, sockets, refCount, listener, closed, calls>>

-----------------------------------------------------------------------------
ChildExit(x) ==
    /\ st[x] = "RUNNING"
    /\ Fault
    /\ st' = [st EXCEPT ![x] = "EXITED"]
    /\ UNCHANGED <<fd, start, stop, loop, entry, sockets, refCount, listener, closed, calls>>

(* Stop ends in STOPPED from every state, and then detaches *)
StopCall(x) ==
    /\ Serial => Quiet /\ st[x] = "RUNNING"
    /\ orderly' = (orderly /\ Quiet /\ st[x] = "RUNNING")
    /\ calls < MaxCalls /\ calls' = calls + 1
    /\ st' = [st EXCEPT ![x] = "STOPPED"]
    /\ stop' = [stop EXCEPT ![x] = @ + 1]
    /\ UNCHANGED <<fd, start, loop, entry, sockets, refCount, listener, closed, faults>>

StopDetach(x) ==
    /\ stop[x] # 0
    /\ stop' = [stop EXCEPT ![x] = @ - 1]
    /\ DetachEntry
    /\ UNCHANGED <<st, fd, start, loop, sockets, calls, faults, orderly>>

(* checkProcess: handleExitedProcess gives up, or without AutoRestart leaves the
   process EXITED *)
LoopTick(x) ==
    /\ loop = {} /\ st[x] = "EXITED"
    /\ st' = IF AutoRestart THEN [st EXCEPT ![x] = "FATAL"] ELSE st
    /\ loop' = {x}
    /\ UNCHANGED <<fd, start, stop, entry, sockets, refCount, listener, closed, calls, faults,
                   orderly>>

(* the state is read again under mgr.mu *)
LoopDetach(x) ==
    /\ x \in loop
    /\ loop' = {}
    /\ IF st[x] \in {"FATAL", "EXITED", "STOPPED"}
       THEN DetachEntry ELSE UNCHANGED <<entry, refCount, listener, closed>>
    /\ UNCHANGED <<st, fd, start, stop, sockets, calls, faults, orderly>>

-----------------------------------------------------------------------------
Next ==
    \/ \E t \in Starters :
         \/ \E x \in Procs : StartCall(t, x)
         \/ Lookup(t) \/ Listen(t) \/ ApplyMode(t) \/ AttachNew(t) \/ Recheck(t) \/ Spawn(t)
    \/ \E x \in Procs :
         ChildExit(x) \/ StopCall(x) \/ StopDetach(x) \/ LoopTick(x) \/ LoopDetach(x)

Spec == Init /\ [][Next]_vars

-----------------------------------------------------------------------------
(* Properties *)

(* A manager is in the map before it listens, is closed by whoever detaches
   last, and is given up by the Start that made it, while other Starts and Stops
   come in between: still the map never keeps a dead one.  What a Start finds
   there listens, or the Start that made it is about to listen; a dead one would
   make every later Start of the program fail (process.go:303 creates none). *)
NoDeadEntry ==
    entry # 0 =>
        \/ entry \notin closed /\ listener[entry] = "open"
        \/ \E t \in Starters : At(t, "listen") /\ start[t].sm = entry

(* "The socket outlives individual child processes and is closed only when the
   last child exits": while a process runs, its socket listens. *)
SocketWhileRunning ==
    \A x \in Procs : st[x] = "RUNNING" => listener[fd[x]] = "open"

(* "socket should be removed after last child stops" *)
ClosedWhenAllStopped ==
    Quiet /\ loop = {} /\ (\A x \in Procs : st[x] \in {"STOPPED", "FATAL"}) =>
        \A s \in Sockets : listener[s] = "nil"

(* What holds of both: as long as nothing fails and the processes are started and
   stopped one after the other, they share one socket, which is open while one
   of them runs and closed with the last. *)
OrderlyLife == orderly => SocketWhileRunning /\ ClosedWhenAllStopped

(* "prevent a concurrent Stop() from closing the socket between lookup and the
   refCount increment": the Start that created the manager finds it listening. *)
CreatorAttaches ==
    \A t \in Starters : At(t, "attach") => listener[start[t].sm] = "open"
=============================================================================
