------------------------------ MODULE Manager ------------------------------
(***************************************************************************)
(* The life of the supervisor itself: cmd/gosupervisor/main.go (start-up,  *)
(* handleSignals, reloadConfiguration) and the ProcessManager of           *)
(* internal/process/process.go (the map of processes, StartAll, StopAll,   *)
(* the group operations, SaveState), with the clients of the API and the   *)
(* monitor loop, all holding pointers to processes.                        *)
(*                                                                         *)
(* A Process is an OBJECT: AddProcess creates one, the map names at most   *)
(* one per program, and a goroutine that looked one up may use it after    *)
(* it was removed.  Start and Stop are coarser here than in module         *)
(* Process: a Start is its reservation and its fork, a Stop its decision   *)
(* and its end.  Which programs a sort by dependencies leaves to be        *)
(* visited is modelled; in which order is module Dependencies' subject,    *)
(* here it is any.  What Start and Stop do to the socket of an fcgi        *)
(* program is module FcgiSocket's; here they only take pm.mu for it.       *)
(* Definitions with an underscore are faulty variants (see Process).       *)
(***************************************************************************)
EXTENDS Integers, Sequences, FiniteSets

CONSTANTS
    Names,          \* program names
    Versions,       \* configurations a program can have
    Manual,         \* those of them with autostart=false
    Fcgi,           \* those of them with a socket
    Deps,           \* the programs that each version of a program depends on
    Boot, Configs,  \* the configurations loaded at start-up and by reloads
    Clients,        \* web and socket requests
    Ops,            \* the requests they make
    Groups,         \* the programs that start, stop and restart are asked for
    SigBuffer,      \* capacity of sigChan (4 in the code)
    EarlySignals,   \* a signal may arrive while main still adds processes
    SyncFails,      \* the temporary state file may not reach the disk
    MaxObjects,     \* bound: AddProcess calls
    MaxReloads,     \* bound: SIGHUPs
    MaxCalls,       \* bound: API calls
    MaxFaults,      \* bound: children that exit, starts and writes that fail
    MaxEvents       \* bound: SIGHUPs, API calls and faults together

(* What LoadConfig can return: a version of each of some programs.  A cycle of
   dependencies is only warned about. *)
Programs == UNION {[S -> Versions] : S \in SUBSET Names}

ASSUME ManagerAssumption ==
    /\ IsFiniteSet(Names)
    /\ Deps \in [Names -> [Versions -> SUBSET Names]] /\ Boot \cup Configs \subseteq Programs
    /\ Groups \subseteq SUBSET Names
    /\ Manual \subseteq Versions /\ Fcgi \subseteq Versions
    /\ Ops \subseteq {"start", "stop", "restart", "restart-all", "status"}
    /\ Clients \cap {"main", "handler", "loop", "restarter"} = {}
    /\ SigBuffer \in Nat \ {0} /\ EarlySignals \in BOOLEAN
    /\ SyncFails \in BOOLEAN
    /\ MaxObjects \in Nat /\ MaxReloads \in Nat /\ MaxCalls \in Nat
    /\ MaxFaults \in Nat /\ MaxEvents \in Nat

Main == "main"
Handler == "handler"
Loop == "loop"
Restarter == "restarter"    \* bound: one restart goroutine at a time
Threads == {Main, Handler, Loop, Restarter} \cup Clients

Objects == 1 .. MaxObjects
Ref == 0 .. MaxObjects
NoPrograms == [n \in {} |-> {}]

States == {"STOPPED", "STARTING", "RUNNING", "STOPPING", "EXITED", "FATAL"}

VARIABLES
    procs,      \* ProcessManager.Processes; 0: the name is not in the map
    obj,        \* the objects: name, Config, State
    made,       \* objects created
    cancelled,  \* objects whose Context is cancelled
    alive,      \* objects with a running child
    go,         \* the goroutines
    adding,     \* the programs main has yet to add
    conf,       \* the configuration loaded last
    diff,       \* what reloadConfiguration has left to do
    sigs,       \* sigChan
    done,       \* the done channel is closed
    phase,      \* "up"; "exit": the supervisor has ended; "down": the power is gone
    disk,       \* the state file and its temporary file
    undisturbed,\* history: at SIGTERM the states were true, and since then
                \* nobody else has called Start, Stop or Restart
    sent,       \* SIGHUPs sent
    termSent,   \* SIGTERM was sent
    calls, faults

vars == <<procs, obj, made, cancelled, alive, go, adding, conf, diff, sigs, done,
          phase, disk, undisturbed, sent, termSent, calls, faults>>

PC == {"idle", "add", "servers", "startAll", "run",
       "reload", "cancel", "delete", "readd", "lookup",
       "stopAll", "save", "snapshot", "rename", "close", "gone",
       "serve", "restart", "restarted", "check", "asleep", "failed",
       "start", "attach", "fork", "stop", "stopwait", "detach"}

ThreadType == [pc : PC, obj : Ref, todo : SUBSET Names, next : PC,
               op : {"none"} \cup Ops, name : Names \cup {""}]

Idle == [pc |-> "idle", obj |-> 0, todo |-> {}, next |-> "idle", op |-> "none",
         name |-> ""]

Nothing == [removed |-> {}, modified |-> {}, added |-> {}]

TypeOK ==
    /\ procs \in [Names -> Ref]
    /\ \A n \in Names : procs[n] # 0 => obj[procs[n]].name = n /\ procs[n] <= made
    /\ obj \in [Objects -> [name : Names \cup {""}, cfg : Versions \cup {""},
                            state : States]]
    /\ made \in Ref /\ cancelled \subseteq Objects /\ alive \subseteq Objects
    /\ go \in [Threads -> ThreadType]
    /\ adding \in Programs /\ conf \in Programs
    /\ diff \in [removed : SUBSET Names, modified : SUBSET Names,
                 added : SUBSET Names]
    /\ sigs \in Seq({"HUP", "TERM"}) /\ Len(sigs) <= SigBuffer
    /\ done \in BOOLEAN /\ phase \in {"up", "exit", "down"}
    /\ disk \in [file : {"none", "whole", "unsynced", "torn"},
                 tmp : {"none", "partial", "unsynced", "whole"}]
    /\ undisturbed \in BOOLEAN /\ termSent \in BOOLEAN
    /\ sent \in 0 .. MaxReloads /\ calls \in 0 .. MaxCalls
    /\ faults \in 0 .. MaxFaults

(* main() before it has loaded anything *)
Blank ==
    [procs |-> [n \in Names |-> 0],
     obj |-> [o \in Objects |-> [name |-> "", cfg |-> "", state |-> "STOPPED"]],
     go |-> [t \in Threads |-> Idle]]

(* main() up to the first AddProcess: the signal handler already runs, and the
   state file is that of the last shutdown *)
Init ==
    /\ procs = Blank.procs /\ obj = Blank.obj
    /\ made = 0 /\ cancelled = {} /\ alive = {}
    /\ conf \in Boot /\ adding = conf
    /\ go = [Blank.go EXCEPT ![Main].pc = "add"]
    /\ diff = Nothing /\ sigs = <<>> /\ done = FALSE /\ phase = "up"
    /\ disk = [file |-> "whole", tmp |-> "none"]
    /\ undisturbed = FALSE /\ sent = 0 /\ termSent = FALSE
    /\ calls = 0 /\ faults = 0

-----------------------------------------------------------------------------
(* Helpers *)

At(t, label) == phase = "up" /\ go[t].pc = label
Goto(t, label) == go' = [go EXCEPT ![t].pc = label]
State(o) == obj[o].state
SetState(o, s) == obj' = [obj EXCEPT ![o].state = s]
Mapped(n) == procs[n] # 0
Spare == sent + calls + faults < MaxEvents
Fault == Spare /\ faults < MaxFaults /\ faults' = faults + 1
HasSocket(o) == obj[o].cfg \in Fcgi
SocketMapped == \E n \in Names : Mapped(n) /\ HasSocket(procs[n])

(* pm.mu, a sync.RWMutex.  A critical section is a part of one action, except in
   RangeProcesses, which holds it for reading during all the Restarts of
   "restart-all" and all the Snapshots of "status" and of SaveState.  A writer
   that waits keeps new readers out, also one that reads already. *)
Ranging == {t \in Clients : go[t].op \in {"restart-all", "status"}}
             \cup {t \in {Handler} : go[t].pc = "snapshot"}
Writing(t) == go[t].pc \in {"add", "delete", "readd", "attach", "detach"}
RLock == Ranging = {} \/ \A t \in Threads : ~Writing(t)
WLock == Ranging = {}

(* the operation returns; of its callers only reloadConfiguration keeps the pointer *)
Return(t) ==
    go' = [go EXCEPT ![t] = [@ EXCEPT !.pc = go[t].next,
                               !.obj = IF t = Handler THEN go[t].obj ELSE 0]]

(* Start fails; only the restart goroutine looks at the error *)
StartFails(t) == IF t = Restarter THEN Goto(t, "failed") ELSE Return(t)

(* anyone but the handler entering Start, Stop or Restart *)
Disturb(t) == undisturbed' = (undisturbed /\ t = Handler)

rest == <<adding, disk, sent, termSent, calls>>

(* topologicalSort of the graph d, and its callers' fallback, as the set of names
   they go on with.  The algorithm reaches every name but those that depend on a
   cycle; it gives up when it has not reached as many as d has, so a name that is
   in d as a dependency only can make up for one that is left out. *)
Unreached(d) == UNION {C \in SUBSET DOMAIN d : \A n \in C : d[n] \cap C # {}}
Nodes(d) == DOMAIN d \cup UNION {d[n] : n \in DOMAIN d}
Sorted(d) ==
    LET reached == Nodes(d) \ Unreached(d) IN
    IF Cardinality(reached) = Cardinality(DOMAIN d) THEN reached ELSE DOMAIN d

(* the graph of the processes, which StartAll and StopAll sort *)
SortedProcesses == Sorted([n \in {m \in Names : Mapped(m)} |-> Deps[n][obj[procs[n]].cfg]])

-----------------------------------------------------------------------------
(* Process.Start, Stop and Restart, as the callers here see them *)

StartReserve(t) ==
    LET o == go[t].obj IN
    /\ At(t, "start")
    /\ IF State(o) \in {"RUNNING", "STARTING", "STOPPING"}
       THEN StartFails(t) /\ UNCHANGED obj
       ELSE SetState(o, "STARTING") /\ Goto(t, IF HasSocket(o) THEN "attach" ELSE "fork")
    /\ Disturb(t)
    /\ UNCHANGED <<procs, made, cancelled, alive, conf, diff, sigs, done, phase,
                   faults, rest>>

(* the socket is looked up and attached under pm.mu; a Stop may have come *)
Attach(t) ==
    /\ At(t, "attach") /\ WLock
    /\ IF State(go[t].obj) = "STARTING" THEN Goto(t, "fork") ELSE StartFails(t)
    /\ UNCHANGED <<procs, obj, made, cancelled, alive, conf, diff, sigs, done,
                   phase, undisturbed, faults, rest>>

(* The start context is a child of the object's Context: with that cancelled
   the fork fails.  A child forked while the state changed is killed. *)
StartFork(t) ==
    LET o == go[t].obj IN
    /\ At(t, "fork")
    /\ \/ /\ o \notin cancelled
          /\ IF State(o) = "STARTING"
             THEN SetState(o, "RUNNING") /\ alive' = alive \cup {o} /\ Return(t)
             ELSE UNCHANGED <<obj, alive>> /\ StartFails(t)
          /\ UNCHANGED faults
       \/ /\ IF o \in cancelled THEN UNCHANGED faults ELSE Fault
          /\ SetState(o, "EXITED")
          /\ StartFails(t)
          /\ UNCHANGED alive
    /\ UNCHANGED <<procs, made, cancelled, conf, diff, sigs, done, phase,
                   undisturbed, rest>>

StopReturn(t) ==
    IF go[t].op \in {"restart", "restart-all"} THEN Goto(t, "restarted") ELSE Return(t)

(* Stop, in whatever state the process was, ends with the socket *)
StopEnd(t) == IF HasSocket(go[t].obj) THEN Goto(t, "detach") ELSE StopReturn(t)

StopEnter(t) ==
    LET o == go[t].obj IN
    /\ At(t, "stop")
    /\ IF State(o) \in {"RUNNING", "STOPPING"}
       THEN SetState(o, "STOPPING") /\ Goto(t, "stopwait")
       ELSE SetState(o, "STOPPED") /\ StopEnd(t)
    /\ Disturb(t)
    /\ UNCHANGED <<procs, made, cancelled, alive, conf, diff, sigs, done, phase,
                   faults, rest>>

(* The child is dead and the start context is cancelled, which also ends a
   child that somebody else started meanwhile. *)
StopDone(t) ==
    LET o == go[t].obj IN
    /\ At(t, "stopwait")
    /\ obj' = [obj EXCEPT ![o].state = CASE @ = "STOPPING" -> "STOPPED"
                                         [] @ = "RUNNING"  -> "EXITED"
                                         [] OTHER          -> @]
    /\ alive' = alive \ {o}
    /\ StopEnd(t)
    /\ UNCHANGED <<procs, made, cancelled, conf, diff, sigs, done, phase,
                   undisturbed, faults, rest>>

(* the socket is detached under pm.mu *)
Detach(t) ==
    /\ At(t, "detach") /\ WLock
    /\ StopReturn(t)
    /\ UNCHANGED <<procs, obj, made, cancelled, alive, conf, diff, sigs, done,
                   phase, undisturbed, faults, rest>>

RestartEnter(t) ==
    LET o == go[t].obj IN
    /\ At(t, "restart")
    /\ IF State(o) \in {"FATAL", "STOPPING", "STARTING"}
       THEN Return(t) /\ UNCHANGED obj
       ELSE /\ Goto(t, "stop")
            /\ IF State(o) = "RUNNING" THEN SetState(o, "STOPPING") ELSE UNCHANGED obj
    /\ Disturb(t)
    /\ UNCHANGED <<procs, made, cancelled, alive, conf, diff, sigs, done, phase,
                   faults, rest>>

RestartStart(t) ==
    /\ At(t, "restarted")
    /\ IF State(go[t].obj) \in {"RUNNING", "STARTING"} THEN Return(t) ELSE Goto(t, "start")
    /\ UNCHANGED <<procs, obj, made, cancelled, alive, conf, diff, sigs, done,
                   phase, undisturbed, faults, rest>>

ProcessStep(t) ==
    \/ StartReserve(t) \/ Attach(t) \/ StartFork(t)
    \/ StopEnter(t) \/ StopDone(t) \/ Detach(t) \/ RestartEnter(t) \/ RestartStart(t)

(* a child ends, of itself or because its context is cancelled; monitor()
   records it *)
ChildExit(o) ==
    /\ phase = "up" /\ o \in alive
    /\ IF o \in cancelled THEN UNCHANGED faults ELSE Fault
    /\ alive' = alive \ {o}
    /\ SetState(o, IF State(o) = "STOPPING" THEN "STOPPING" ELSE "EXITED")
    /\ UNCHANGED <<procs, made, cancelled, go, conf, diff, sigs, done, phase,
                   undisturbed, rest>>

-----------------------------------------------------------------------------
(* ProcessManager.AddProcess(c[n]) *)
AddProcess(n, c) ==
    /\ WLock /\ made < MaxObjects
    /\ made' = made + 1
    /\ obj' = [obj EXCEPT ![made + 1] =
                 [name |-> n, cfg |-> c[n], state |-> "STOPPED"]]
    /\ procs' = [procs EXCEPT ![n] = made + 1]

(* main(): the programs of the configuration are added one by one *)
MainAdd ==
    /\ At(Main, "add")
    /\ \/ /\ adding = NoPrograms /\ Goto(Main, "servers")
          /\ UNCHANGED <<made, obj, procs, adding>>
       \/ \E n \in DOMAIN adding :
            /\ AddProcess(n, adding)
            /\ adding' = [m \in DOMAIN adding \ {n} |-> adding[m]]
            /\ UNCHANGED go
    /\ UNCHANGED <<cancelled, alive, conf, diff, sigs, done, phase, undisturbed,
                   faults, disk, sent, termSent, calls>>

(* RestoreState, the monitor loop and the servers: the socket, web and metrics
   servers may fail, and then main returns; otherwise StartAll reads the map *)
MainServers ==
    /\ At(Main, "servers") /\ RLock
    /\ \/ /\ go' = [go EXCEPT ![Main].pc = "startAll",
                                ![Main].todo = SortedProcesses]
          /\ UNCHANGED phase
       \/ phase' = "exit" /\ UNCHANGED go
    /\ UNCHANGED <<procs, obj, made, cancelled, alive, conf, diff, sigs, done,
                   undisturbed, faults, rest>>

(* ProcessManager.StartAll: the next name, looked up when its turn comes *)
StartAll ==
    /\ At(Main, "startAll") /\ (go[Main].todo = {} \/ RLock)
    /\ IF go[Main].todo = {}
       THEN go' = [go EXCEPT ![Main] = [Idle EXCEPT !.pc = "run"]]
       ELSE \E n \in go[Main].todo :
              go' = [go EXCEPT ![Main] = [@ EXCEPT
                       !.todo = go[Main].todo \ {n}, !.obj = procs[n], !.next = "startAll",
                       !.pc = IF Mapped(n) THEN "start" ELSE "startAll"]]
    /\ UNCHANGED <<procs, obj, made, cancelled, alive, conf, diff, sigs, done,
                   phase, undisturbed, faults, rest>>

(* <-done: main returns, and with it the supervisor *)
MainExit ==
    /\ At(Main, "run") /\ done
    /\ phase' = "exit"
    /\ UNCHANGED <<procs, obj, made, cancelled, alive, go, conf, diff, sigs, done,
                   undisturbed, faults, rest>>

-----------------------------------------------------------------------------
(* The signals.  signal.Notify never blocks: with sigChan full it drops. *)
Notify(sig) == sigs' = IF Len(sigs) < SigBuffer THEN Append(sigs, sig) ELSE sigs

Signal ==
    /\ phase = "up" /\ (EarlySignals \/ ~At(Main, "add"))
    /\ \/ /\ Spare /\ sent < MaxReloads /\ sent' = sent + 1
          /\ Notify("HUP") /\ UNCHANGED termSent
       \/ /\ ~termSent /\ termSent' = TRUE
          /\ Notify("TERM") /\ UNCHANGED sent
    /\ UNCHANGED <<procs, obj, made, cancelled, alive, go, adding, conf, diff,
                   done, phase, disk, undisturbed, calls, faults>>

(* handleSignals receives SIGTERM: StopAll reads the map *)
Terminate ==
    /\ At(Handler, "idle") /\ sigs # <<>> /\ Head(sigs) = "TERM" /\ RLock
    /\ sigs' = Tail(sigs)
    /\ go' = [go EXCEPT ![Handler].pc = "stopAll",
                         ![Handler].todo = SortedProcesses]
    /\ undisturbed' =
         /\ go[Main].pc = "run"
         /\ \A t \in Threads \ {Main, Handler} : go[t].pc = "idle"
         /\ \A o \in alive \ cancelled : State(o) = "RUNNING"
    /\ UNCHANGED <<procs, obj, made, cancelled, alive, conf, diff, done, phase,
                   faults, rest>>

(* variant: only the names are compared *)
CompareConfigs_ByName(c) ==
    [removed  |-> {n \in Names : Mapped(n) /\ n \notin DOMAIN c},
     added    |-> {n \in DOMAIN c : ~Mapped(n)},
     modified |-> {}]

(* reloadConfiguration: LoadConfig, which may fail, and CompareConfigs; the
   modified programs are sorted by what they depend on now *)
CompareConfigs(c) ==
    [removed  |-> {n \in Names : Mapped(n) /\ n \notin DOMAIN c},
     added    |-> {n \in DOMAIN c : ~Mapped(n)},
     modified |-> {n \in DOMAIN c : Mapped(n) /\ obj[procs[n]].cfg # c[n]}]

Reload ==
    /\ At(Handler, "idle") /\ sigs # <<>> /\ Head(sigs) = "HUP" /\ RLock
    /\ sigs' = Tail(sigs)
    /\ \/ UNCHANGED <<conf, diff, go>>
       \/ \E c \in Configs :
            /\ conf' = c
            /\ diff' = [CompareConfigs(c) EXCEPT
                          !.modified = Sorted([n \in @ |-> Deps[n][c[n]]])]
            /\ Goto(Handler, "reload")
    /\ UNCHANGED <<procs, obj, made, cancelled, alive, done, phase, undisturbed,
                   faults, rest>>

(* The next removed or modified name is stopped, the next added one added.  The
   sort can have put a name among the modified that the configuration has not:
   AddProcess dereferences its missing configuration, and nothing recovers.
   (If main has just added it, it is stopped first.) *)
ReloadNext ==
    /\ At(Handler, "reload") /\ RLock
    /\ \/ \E n \in IF diff.removed # {} THEN diff.removed ELSE diff.modified :
            IF diff.removed = {} /\ n \notin DOMAIN conf
            THEN phase' = "exit" /\ UNCHANGED <<diff, go>>
            ELSE /\ diff' = IF diff.removed # {} THEN [diff EXCEPT !.removed = @ \ {n}]
                                               ELSE [diff EXCEPT !.modified = @ \ {n}]
                 /\ go' = [go EXCEPT ![Handler] = [@ EXCEPT
                             !.name = n, !.obj = procs[n], !.next = "cancel",
                             !.pc = IF Mapped(n) THEN "stop" ELSE "delete"]]
                 /\ UNCHANGED phase
       \/ \E n \in diff.added :
            /\ diff.removed = {} /\ diff.modified = {}
            /\ diff' = [diff EXCEPT !.added = @ \ {n}]
            /\ go' = [go EXCEPT ![Handler] = [@ EXCEPT !.name = n, !.pc = "readd"]]
            /\ UNCHANGED phase
       \/ /\ diff = Nothing
          /\ go' = [go EXCEPT ![Handler] = Idle]
          /\ UNCHANGED <<diff, phase>>
    /\ UNCHANGED <<procs, obj, made, cancelled, alive, conf, sigs, done,
                   undisturbed, faults, rest>>

(* variant: the context of a removed process stays open *)
ReloadCancel_Skip ==
    /\ At(Handler, "cancel")
    /\ Goto(Handler, "delete")
    /\ UNCHANGED <<procs, obj, made, cancelled, alive, conf, diff, sigs, done,
                   phase, undisturbed, faults, rest>>

(* p.CancelFunc() *)
ReloadCancel ==
    /\ At(Handler, "cancel")
    /\ cancelled' = cancelled \cup {go[Handler].obj}
    /\ Goto(Handler, "delete")
    /\ UNCHANGED <<procs, obj, made, alive, conf, diff, sigs, done, phase,
                   undisturbed, faults, rest>>

(* RemoveProcess; a modified program is in the new configuration as well *)
ReloadDelete ==
    LET n == go[Handler].name IN
    /\ At(Handler, "delete") /\ WLock
    /\ procs' = [procs EXCEPT ![n] = 0]
    /\ go' = [go EXCEPT ![Handler] = [@ EXCEPT !.obj = 0,
                !.pc = IF n \in DOMAIN conf THEN "readd" ELSE "reload"]]
    /\ UNCHANGED <<obj, made, cancelled, alive, conf, diff, sigs, done, phase,
                   undisturbed, faults, rest>>

ReloadAdd ==
    /\ At(Handler, "readd")
    /\ AddProcess(go[Handler].name, conf)
    /\ Goto(Handler, IF conf[go[Handler].name] \in Manual THEN "reload" ELSE "lookup")
    /\ UNCHANGED <<cancelled, alive, conf, diff, sigs, done, phase, undisturbed,
                   faults, rest>>

(* GetProcess(name), then Start *)
ReloadStart ==
    LET n == go[Handler].name IN
    /\ At(Handler, "lookup") /\ RLock
    /\ go' = [go EXCEPT ![Handler] = [@ EXCEPT
                !.obj = procs[n], !.next = "reload",
                !.pc = IF Mapped(n) THEN "start" ELSE "reload"]]
    /\ UNCHANGED <<procs, obj, made, cancelled, alive, conf, diff, sigs, done,
                   phase, undisturbed, faults, rest>>

(* variant: does not wait for a Stop to end *)
StopAllNext_NoWait ==
    /\ At(Handler, "stopAll") /\ (go[Handler].todo = {} \/ RLock)
    /\ \/ /\ go[Handler].todo = {}
          /\ go' = [go EXCEPT ![Handler] = [Idle EXCEPT !.pc = "save"]]
          /\ UNCHANGED obj
       \/ \E n \in go[Handler].todo :
            /\ go' = [go EXCEPT ![Handler].todo = @ \ {n}]
            /\ IF Mapped(n) THEN SetState(procs[n], "STOPPING") ELSE UNCHANGED obj
    /\ UNCHANGED <<procs, made, cancelled, alive, conf, diff, sigs, done,
                   phase, undisturbed, faults, rest>>

(* ProcessManager.StopAll: a process that is STOPPED or STOPPING is passed over *)
StopAllNext ==
    /\ At(Handler, "stopAll") /\ (go[Handler].todo = {} \/ RLock)
    /\ IF go[Handler].todo = {}
       THEN go' = [go EXCEPT ![Handler] = [Idle EXCEPT !.pc = "save"]]
       ELSE \E n \in go[Handler].todo :
              LET o == procs[n]
                  stops == Mapped(n) /\ State(o) \notin {"STOPPED", "STOPPING"}
              IN go' = [go EXCEPT ![Handler] = [@ EXCEPT
                          !.todo = go[Handler].todo \ {n}, !.obj = o, !.next = "stopAll",
                          !.pc = IF stops THEN "stop" ELSE "stopAll"]]
    /\ UNCHANGED <<procs, obj, made, cancelled, alive, conf, diff, sigs, done,
                   phase, undisturbed, faults, rest>>

-----------------------------------------------------------------------------
(* SaveState(path), and the state file after a crash *)

(* RangeProcesses *)
SaveBegin ==
    /\ At(Handler, "save") /\ RLock
    /\ Goto(Handler, "snapshot")
    /\ UNCHANGED <<procs, obj, made, cancelled, alive, conf, diff, sigs, done,
                   phase, undisturbed, faults, rest>>

(* variant: no f.Sync() *)
SaveWrite_NoSync ==
    /\ At(Handler, "snapshot") /\ (SocketMapped => RLock)
    /\ disk' = [disk EXCEPT !.tmp = "unsynced"]
    /\ Goto(Handler, "rename")
    /\ UNCHANGED <<procs, obj, made, cancelled, alive, adding, conf, diff, sigs,
                   done, phase, undisturbed, sent, termSent, calls, faults>>

(* The Snapshots, where a process with a socket reads pm.mu once more; then
   os.WriteFile(path + ".tmp") fails half-way, or f.Sync() brings the data to the
   disk (the error of the latter is ignored). *)
SaveWrite ==
    /\ At(Handler, "snapshot") /\ (SocketMapped => RLock)
    /\ \/ /\ disk' \in [file : {disk.file},
                        tmp : {"whole"} \cup IF SyncFails THEN {"unsynced"} ELSE {}]
          /\ Goto(Handler, "rename")
          /\ UNCHANGED faults
       \/ /\ disk' = [disk EXCEPT !.tmp = "partial"]
          /\ Goto(Handler, "close")
          /\ Fault
    /\ UNCHANGED <<procs, obj, made, cancelled, alive, adding, conf, diff, sigs,
                   done, phase, undisturbed, sent, termSent, calls>>

SaveRename ==
    /\ At(Handler, "rename")
    /\ \/ disk' = [file |-> disk.tmp, tmp |-> "none"] /\ UNCHANGED faults
       \/ UNCHANGED disk /\ Fault
    /\ Goto(Handler, "close")
    /\ UNCHANGED <<procs, obj, made, cancelled, alive, adding, conf, diff, sigs,
                   done, phase, undisturbed, sent, termSent, calls>>

(* variant: the done channel stays open *)
CloseDone_Never ==
    /\ At(Handler, "close")
    /\ Goto(Handler, "gone")
    /\ UNCHANGED <<procs, obj, made, cancelled, alive, conf, diff, sigs, done,
                   phase, undisturbed, faults, rest>>

(* close(done), and the handler returns *)
CloseDone ==
    /\ At(Handler, "close")
    /\ done' = TRUE
    /\ Goto(Handler, "gone")
    /\ UNCHANGED <<procs, obj, made, cancelled, alive, conf, diff, sigs, phase,
                   undisturbed, faults, rest>>

(* The machine goes down, at any moment: the memory is lost, and so may be what
   was not synced. *)
PowerLoss ==
    /\ phase # "down"
    /\ phase' = "down"
    /\ disk' \in [file : IF disk.file = "unsynced" THEN {"torn", "whole"}
                                                 ELSE {disk.file},
                  tmp : {disk.tmp}]
    /\ procs' = Blank.procs /\ obj' = Blank.obj /\ go' = Blank.go
    /\ made' = 0 /\ cancelled' = {} /\ alive' = {} /\ conf' = NoPrograms
    /\ diff' = Nothing /\ sigs' = <<>> /\ done' = FALSE /\ undisturbed' = FALSE
    /\ adding' = NoPrograms
    /\ UNCHANGED <<sent, termSent, calls, faults>>

-----------------------------------------------------------------------------
(* The monitor loop and its restart goroutine *)

(* checkProcesses copies the pointers and checks them without the lock *)
LoopTick(n) ==
    /\ At(Loop, "idle") /\ ~At(Main, "add") /\ Mapped(n) /\ RLock
    /\ State(procs[n]) = "EXITED"
    /\ go' = [go EXCEPT ![Loop] = [@ EXCEPT !.pc = "check", !.obj = procs[n]]]
    /\ UNCHANGED <<procs, obj, made, cancelled, alive, conf, diff, sigs, done,
                   phase, undisturbed, faults, rest>>

(* handleExitedProcess: give up, or schedule a restart (module Supervisor) *)
HandleExited ==
    LET o == go[Loop].obj IN
    /\ At(Loop, "check")
    /\ \/ State(o) # "EXITED" /\ UNCHANGED obj /\ go' = [go EXCEPT ![Loop] = Idle]
       \/ /\ State(o) = "EXITED" /\ SetState(o, "FATAL")
          /\ go' = [go EXCEPT ![Loop] = Idle]
       \/ /\ State(o) = "EXITED" /\ SetState(o, "STARTING") /\ At(Restarter, "idle")
          /\ go' = [go EXCEPT ![Loop] = Idle,
                     ![Restarter] = [@ EXCEPT !.pc = "asleep", !.obj = o]]
    /\ Disturb(Loop)
    /\ UNCHANGED <<procs, made, cancelled, alive, conf, diff, sigs, done, phase,
                   faults, rest>>

(* the restart goroutine after its sleep; its re-check follows at once *)
RestarterWake ==
    LET o == go[Restarter].obj IN
    /\ At(Restarter, "asleep")
    /\ IF State(o) \in {"STARTING", "EXITED"}
       THEN SetState(o, "EXITED") /\ Goto(Restarter, "start")
       ELSE go' = [go EXCEPT ![Restarter] = Idle] /\ UNCHANGED obj
    /\ UNCHANGED <<procs, made, cancelled, alive, conf, diff, sigs, done, phase,
                   undisturbed, faults, rest>>

(* its Start failed: the retries may be exhausted *)
RestarterFailed ==
    LET o == go[Restarter].obj IN
    /\ At(Restarter, "failed")
    /\ \/ UNCHANGED obj
       \/ State(o) \notin {"STOPPED", "STOPPING", "STARTING"} /\ SetState(o, "FATAL")
    /\ go' = [go EXCEPT ![Restarter] = Idle]
    /\ UNCHANGED <<procs, made, cancelled, alive, conf, diff, sigs, done, phase,
                   undisturbed, faults, rest>>

-----------------------------------------------------------------------------
(* A request: start, stop or restart one program or the programs of a group, as
   the map has them now, or "restart-all" or "status", which RangeProcesses runs on
   all of them with pm.mu held *)
Request(t, op, group) ==
    /\ At(t, "idle") /\ Spare /\ calls < MaxCalls /\ ~At(Main, "add") /\ RLock
    /\ calls' = calls + 1
    /\ go' = [go EXCEPT ![t] = [@ EXCEPT !.pc = "serve", !.op = op,
                                  !.todo = {n \in group : Mapped(n)}]]
    /\ UNCHANGED <<procs, obj, made, cancelled, alive, adding, conf, diff, sigs,
                   done, phase, disk, undisturbed, sent, termSent, faults>>

(* StartGroup, StopGroup, RestartGroup: look up the next name, then act on it.
   The Snapshot of a process with a socket takes pm.mu for reading once more. *)
Serve(t) ==
    /\ At(t, "serve") /\ (go[t].todo = {} \/ t \in Ranging \/ RLock)
    /\ IF go[t].todo = {}
       THEN go' = [go EXCEPT ![t] = Idle]
       ELSE \E n \in go[t].todo :
              LET looks == ~Mapped(n) \/ go[t].op = "status" IN
              /\ (go[t].op = "status" /\ Mapped(n) /\ HasSocket(procs[n])) => RLock
              /\ go' = [go EXCEPT ![t] = [@ EXCEPT
                          !.todo = go[t].todo \ {n}, !.obj = IF looks THEN 0 ELSE procs[n],
                          !.next = "serve",
                          !.pc = IF looks THEN "serve"
                                 ELSE IF go[t].op = "restart-all" THEN "restart"
                                 ELSE go[t].op]]
    /\ UNCHANGED <<procs, obj, made, cancelled, alive, conf, diff, sigs, done,
                   phase, undisturbed, faults, rest>>

-----------------------------------------------------------------------------
MainStep == MainAdd \/ MainServers \/ StartAll \/ MainExit

HandlerStep ==
    \/ Terminate \/ Reload \/ ReloadNext \/ ReloadCancel \/ ReloadDelete
    \/ ReloadAdd \/ ReloadStart \/ StopAllNext
    \/ SaveBegin \/ SaveWrite \/ SaveRename \/ CloseDone

Next ==
    \/ MainStep \/ HandlerStep
    \/ \E n \in Names : LoopTick(n)
    \/ HandleExited \/ RestarterWake \/ RestarterFailed
    \/ \E t \in Clients : Serve(t)
    \/ \E t \in Clients, op \in Ops :
         \E group \in IF op \in {"restart-all", "status"} THEN {Names} ELSE Groups :
            Request(t, op, group)
    \/ \E t \in Threads : ProcessStep(t)
    \/ \E o \in Objects : ChildExit(o)
    \/ Signal \/ PowerLoss

(* The steps of Start, Stop and Restart that come to an end of themselves: a Stop
   has its timeouts, and locks are granted.  Start may wait for a hook for ever:
   for the post-stop hook of the last attempt before it reserves the process, for
   its own pre-start hook before it forks. *)
EndingStep(t) ==
    \/ Attach(t) \/ StopEnter(t) \/ StopDone(t) \/ Detach(t)
    \/ RestartEnter(t) \/ RestartStart(t)

(* The goroutines run: the scheduler is fair to them. *)
Fairness ==
    /\ WF_vars(MainStep \/ EndingStep(Main))
    /\ WF_vars(HandlerStep \/ EndingStep(Handler))
    /\ \A t \in Clients : WF_vars(Serve(t) \/ EndingStep(t))

Spec == Init /\ [][Next]_vars /\ Fairness

(* where every hook comes to its end *)
HooksEnd == Spec /\ \A t \in Threads : WF_vars(ProcessStep(t))

-----------------------------------------------------------------------------
(* Properties *)

(* What a sort of cyclic configurations can get wrong.  Looped: the programs that
   depend on a cycle, which it may leave out.  Extras: those that are in a graph as
   dependencies only, which it may visit although they are not in it. *)
AllDeps(n) == UNION {Deps[n][v] : v \in Versions}
Looped == UNION {C \in SUBSET Names : \A n \in C : AllDeps(n) \cap C # {}}
Extras == IF Looped = {} THEN {} ELSE UNION {AllDeps(n) : n \in Names}

(* A running child belongs to the object the map names, so that the API and the
   shutdown can reach it, or its context is cancelled, so that it is killed:
   no reload leaves a second copy of a program behind, whatever pointers the
   clients and the monitor loop hold.  But where there are cycles, a new program
   that a modified one depends on may be added twice. *)
Reachable ==
    \A o \in alive : procs[obj[o].name] = o \/ o \in cancelled \/ obj[o].name \in Extras

(* When a reload is over the map is the configuration: every program of it is
   there with its new settings, and nothing else, except that a program that
   depends on a cycle may be left as it was. *)
ReloadApplies ==
    At(Handler, "idle") /\ go[Main].pc # "add" =>
        \A n \in Names \ Looped : IF n \in DOMAIN conf
                                  THEN Mapped(n) /\ obj[procs[n]].cfg = conf[n]
                                  ELSE ~Mapped(n)

(* The shutdown stops everything that runs but what depends on a cycle or was
   added twice, unless somebody else calls Start, Stop or Restart at the same time
   or the state of a process is wrong when SIGTERM comes (a failed Start can
   overwrite RUNNING, see StoppedIsDead in module Process).  A child whose context
   is cancelled has its SIGKILL. *)
QuietShutdown ==
    phase = "exit" /\ undisturbed =>
        \A o \in alive \ cancelled : obj[o].name \in Looped \cup Extras

(* "Start child processes after all servers are up so that a server startup
   failure does not leave orphaned processes behind"; "all processes stopped,
   exiting": nothing runs when main returns.  It does not hold. *)
NothingLeftRunning == phase = "exit" => alive = {}

(* "fsync the temp file before rename to ensure crash safety": whenever the
   machine goes down, RestoreState finds a whole file or none. *)
StateFileWhole == disk.file # "torn"

(* Every request gets its answer, as the tests of each command expect. *)
RequestsReturn == \A t \in Clients : ~At(t, "idle") ~> go[t].pc = "idle" \/ phase # "up"

(* main or the handler is inside a Start that waits for a hook. *)
HookHangs == \E t \in {Main, Handler} : go[t].pc \in {"start", "fork"}

(* A SIGTERM that sigChan has taken ends the supervisor, whatever reloads are queued
   before it and whatever the clients and the monitor loop do.  Only two things can
   hold it up for ever: a Start that main or the handler is inside waits for a hook,
   or a reader of pm.mu waits for itself (restart-all and status, see
   RequestsReturn, and SaveState). *)
ShutdownEnds ==
    \/ (\E i \in 1 .. Len(sigs) : sigs[i] = "TERM") ~> phase # "up"
    \/ <>[]HookHangs
    \/ <>[](Ranging # {})

(* A SIGTERM that was sent ends the supervisor.  It does not always: sigChan may be
   full. *)
AlwaysEnds == termSent ~> phase # "up"
=============================================================================
