--------------------------- MODULE EventListener ---------------------------
(***************************************************************************)
(* internal/eventlistener (listener.go, manager.go) and its wiring in      *)
(* cmd/gosupervisor/main.go: a child program that is sent process events   *)
(* over the READY/RESULT protocol from a bounded queue.  Listeners do not  *)
(* share state, so there is one; every reload makes a new EventListener    *)
(* for it, a GENERATION.  Two goroutines operate the manager: main, which  *)
(* starts it and stops it when it returns, and handleSignals, which        *)
(* reloads it.  Events are numbered in the order they are emitted.         *)
(* Definitions with an underscore are faulty variants (see Process).       *)
(***************************************************************************)
EXTENDS Integers, Sequences

CONSTANTS
    BufferSize,     \* Config.BufferSize
    AutoStart,      \* Config.AutoStart
    EarlyExit,      \* main may return because a server failed to start
    MaxEvents,      \* bound: events emitted
    MaxReloads      \* bound: reloads

ASSUME ListenerAssumption ==
    /\ BufferSize \in Int /\ MaxEvents \in Nat /\ MaxReloads \in Nat
    /\ AutoStart \in BOOLEAN /\ EarlyExit \in BOOLEAN

Generations == 0 .. MaxReloads
Events == 1 .. MaxEvents

VARIABLES
    lis,        \* the EventListener of each generation
    child,      \* its child process
    listeners,  \* m.listeners: the generation that is reachable
    thr,        \* the goroutines main and signals
    emitted,    \* events emitted so far
    acked,      \* events whose RESULT was OK
    dropped     \* events an overflow dropped

vars == <<lis, child, listeners, thr, emitted, acked, dropped>>

-----------------------------------------------------------------------------
(* newEventQueue, Push, RemoveFirst *)
Capacity == IF BufferSize < 1 THEN 1 ELSE BufferSize

Full(q) == Len(q) >= Capacity

Pushed(q, e) == Append(IF Full(q) THEN Tail(q) ELSE q, e)

RemoveFirst(q) == IF q = <<>> THEN q ELSE Tail(q)

StopPC == {"stopEnter", "stopSignal", "stopWait", "stopKill", "stopKillWait",
           "stopClose", "stopAwait"}

ListenerType ==
    [state : {"", "RUNNING", "STOPPING", "STOPPED"}, queue : Seq(Events),
     closed : BOOLEAN, loop : {"none", "ready", "pop", "write", "result", "end"},
     current : 0 .. MaxEvents]

TypeOK ==
    /\ lis \in [Generations -> ListenerType]
    /\ \A g \in Generations : Len(lis[g].queue) <= Capacity
    /\ child \in [Generations -> {"none", "alive", "signalled", "killed", "dead", "reaped"}]
    /\ listeners \in Generations
    /\ thr \in [{"main", "signals"} ->
                  [pc : {"boot", "run", "swap", "start", "exited"} \cup StopPC,
                   gen : Generations]]
    /\ emitted \in 0 .. MaxEvents
    /\ acked \subseteq Events /\ dropped \subseteq Events

(* newEventListener *)
NewListener == [state |-> "", queue |-> <<>>, closed |-> FALSE, loop |-> "none",
                current |-> 0]

Init ==
    /\ lis = [g \in Generations |-> NewListener]
    /\ child = [g \in Generations |-> "none"]
    /\ listeners = 0
    /\ thr = [t \in {"main", "signals"} |->
                [pc |-> IF t = "main" THEN "boot" ELSE "run", gen |-> 0]]
    /\ emitted = 0 /\ acked = {} /\ dropped = {}

At(t, label) == thr[t].pc = label
Goto(t, label) == thr' = [thr EXCEPT ![t].pc = label]

Running(g) == child[g] \in {"alive", "signalled", "killed"}

-----------------------------------------------------------------------------
(* (l *EventListener) start(), all of it under l.mu; the user lookup, a pipe or
   the fork may fail *)
StartListener(g) ==
    IF ~AutoStart \/ lis[g].state = "RUNNING"
    THEN UNCHANGED <<lis, child>>
    ELSE \/ /\ lis' = [lis EXCEPT ![g].state = "RUNNING", ![g].loop = "ready"]
            /\ child' = [child EXCEPT ![g] = "alive"]
         \/ /\ lis' = [lis EXCEPT ![g].state = "STOPPED"]
            /\ UNCHANGED child

(* main: NewManager, Start *)
ManagerStart ==
    /\ At("main", "boot")
    /\ StartListener(listeners)
    /\ Goto("main", "run")
    /\ UNCHANGED <<listeners, emitted, acked, dropped>>

(* main returns, and its deferred cleanup calls Stop: after SIGTERM, when
   handleSignals has returned, or early *)
ManagerStop ==
    /\ At("main", "run")
    /\ At("signals", "exited") \/ EarlyExit
    /\ thr' = [thr EXCEPT !["main"] = [pc |-> "stopEnter", gen |-> listeners]]
    /\ UNCHANGED <<lis, child, listeners, emitted, acked, dropped>>

(* SIGHUP (main has set the reference before it is in "run"), SIGTERM *)
ReloadBegin ==
    /\ At("signals", "run") /\ ~At("main", "boot")
    /\ listeners < MaxReloads
    /\ Goto("signals", "swap")
    /\ UNCHANGED <<lis, child, listeners, emitted, acked, dropped>>

Terminate ==
    /\ At("signals", "run")
    /\ Goto("signals", "exited")
    /\ UNCHANGED <<lis, child, listeners, emitted, acked, dropped>>

(* Reload swaps the map under m.mu, which Stop holds for reading *)
ReloadSwap ==
    /\ At("signals", "swap")
    /\ thr["main"].pc \notin StopPC
    /\ listeners' = listeners + 1
    /\ thr' = [thr EXCEPT !["signals"] = [pc |-> "stopEnter", gen |-> listeners]]
    /\ UNCHANGED <<lis, child, emitted, acked, dropped>>

ReloadStart ==
    /\ At("signals", "start")
    /\ StartListener(listeners)
    /\ Goto("signals", "run")
    /\ UNCHANGED <<listeners, emitted, acked, dropped>>

(* EmitEvent: called by RecordEvent once main has set the callback, until Stop
   returned.  It takes m.mu for reading, and waits while Reload waits for
   writing. *)
EmitEvent ==
    LET g == listeners
        e == emitted + 1
    IN
    /\ thr["main"].pc \notin {"boot", "exited"}
    /\ ~(At("signals", "swap") /\ thr["main"].pc \in StopPC)
    /\ emitted < MaxEvents
    /\ emitted' = e
    /\ lis' = [lis EXCEPT ![g].queue = Pushed(@, e)]
    /\ dropped' = IF Full(lis[g].queue) THEN dropped \cup {Head(lis[g].queue)} ELSE dropped
    /\ UNCHANGED <<child, listeners, thr, acked>>

-----------------------------------------------------------------------------
(* (l *EventListener) stop(), called by main and by signals *)

StopReturn(t) == Goto(t, IF t = "main" THEN "exited" ELSE "start")

StopEnter(t) ==
    LET g == thr[t].gen IN
    /\ At(t, "stopEnter")
    /\ IF lis[g].state = "RUNNING"
       THEN lis' = [lis EXCEPT ![g].state = "STOPPING"] /\ Goto(t, "stopSignal")
       ELSE UNCHANGED lis /\ StopReturn(t)
    /\ UNCHANGED <<child, listeners, emitted, acked, dropped>>

StopSignal(t) ==
    LET g == thr[t].gen IN
    /\ At(t, "stopSignal")
    /\ child' = IF child[g] = "alive" THEN [child EXCEPT ![g] = "signalled"] ELSE child
    /\ Goto(t, "stopWait")
    /\ UNCHANGED <<lis, listeners, emitted, acked, dropped>>

(* cmd.Wait() returned: before the timer, or after the kill *)
StopWaited(t) ==
    LET g == thr[t].gen IN
    /\ At(t, "stopWait") \/ At(t, "stopKillWait")
    /\ child[g] = "dead"
    /\ child' = [child EXCEPT ![g] = "reaped"]
    /\ Goto(t, "stopClose")
    /\ UNCHANGED <<lis, listeners, emitted, acked, dropped>>

StopTimeout(t) ==
    /\ At(t, "stopWait")
    /\ Goto(t, "stopKill")
    /\ UNCHANGED <<lis, child, listeners, emitted, acked, dropped>>

(* variant: gives up on the child *)
StopKill_Skip(t) ==
    /\ At(t, "stopKill")
    /\ Goto(t, "stopClose")
    /\ UNCHANGED <<lis, child, listeners, emitted, acked, dropped>>

StopKill(t) ==
    LET g == thr[t].gen IN
    /\ At(t, "stopKill")
    /\ child' = IF Running(g) THEN [child EXCEPT ![g] = "killed"] ELSE child
    /\ Goto(t, "stopKillWait")
    /\ UNCHANGED <<lis, listeners, emitted, acked, dropped>>

(* variant: the queue stays open *)
StopClose_NoQueue(t) ==
    /\ At(t, "stopClose")
    /\ Goto(t, "stopAwait")
    /\ UNCHANGED <<lis, child, listeners, emitted, acked, dropped>>

(* cancel(), queue.Close(), stdinR.Close() *)
StopClose(t) ==
    /\ At(t, "stopClose")
    /\ lis' = [lis EXCEPT ![thr[t].gen].closed = TRUE]
    /\ Goto(t, "stopAwait")
    /\ UNCHANGED <<child, listeners, emitted, acked, dropped>>

(* <-done *)
StopAwait(t) ==
    LET g == thr[t].gen IN
    /\ At(t, "stopAwait")
    /\ lis[g].loop = "end"
    /\ lis' = [lis EXCEPT ![g].state = "STOPPED"]
    /\ StopReturn(t)
    /\ UNCHANGED <<child, listeners, emitted, acked, dropped>>

-----------------------------------------------------------------------------
(* (l *EventListener) protocolLoop.  Lines other than READY are skipped.  A line that
   the child wrote before it ended may be read afterwards. *)

LoopGoto(g, label) == lis' = [lis EXCEPT ![g].loop = label]

ReadReady(g) ==
    /\ lis[g].loop = "ready"
    /\ LoopGoto(g, "pop")
    /\ UNCHANGED <<child, listeners, thr, emitted, acked, dropped>>

(* queue.Pop() returns the first event and leaves it in the queue *)
Pop(g) ==
    /\ lis[g].loop = "pop"
    /\ \/ /\ lis[g].queue # <<>>
          /\ lis' = [lis EXCEPT ![g].loop = "write", ![g].current = Head(lis[g].queue)]
       \/ /\ lis[g].queue = <<>> /\ lis[g].closed
          /\ LoopGoto(g, "end")
    /\ UNCHANGED <<child, listeners, thr, emitted, acked, dropped>>

WriteEvent(g) ==
    /\ lis[g].loop = "write"
    /\ LoopGoto(g, IF Running(g) THEN "result" ELSE "end")
    /\ UNCHANGED <<child, listeners, thr, emitted, acked, dropped>>

(* variants: OK does not remove the event; a retry goes to the end of the queue;
   every answer counts as OK *)
ReadResult_Keeps(g) ==
    /\ lis[g].loop = "result"
    /\ LoopGoto(g, "ready")
    /\ acked' = acked \cup {lis[g].current}
    /\ UNCHANGED <<child, listeners, thr, emitted, dropped>>

ReadResult_Requeues(g) ==
    /\ lis[g].loop = "result"
    /\ lis' = [lis EXCEPT ![g].queue = Append(RemoveFirst(@), lis[g].current),
                           ![g].loop = "ready"]
    /\ UNCHANGED <<child, listeners, thr, emitted, acked, dropped>>

ReadResult_Ignores(g) ==
    /\ lis[g].loop = "result"
    /\ lis' = [lis EXCEPT ![g].queue = RemoveFirst(@), ![g].loop = "ready"]
    /\ acked' \in {acked, acked \cup {lis[g].current}}
    /\ UNCHANGED <<child, listeners, thr, emitted, dropped>>

(* readResult: OK removes the first event of the queue, any other payload
   leaves it for a retry *)
ReadResult(g) ==
    /\ lis[g].loop = "result"
    /\ \/ /\ lis' = [lis EXCEPT ![g].queue = RemoveFirst(@), ![g].loop = "ready"]
          /\ acked' = acked \cup {lis[g].current}
       \/ LoopGoto(g, "ready") /\ UNCHANGED acked
    /\ UNCHANGED <<child, listeners, thr, emitted, dropped>>

(* A read fails: the child is gone, closed its stdout or broke the protocol.
   The loop ends; nobody starts it again. *)
ReadFails(g) ==
    /\ lis[g].loop \in {"ready", "result"}
    /\ LoopGoto(g, "end")
    /\ UNCHANGED <<child, listeners, thr, emitted, acked, dropped>>

(* The child exits: of its own accord, at the signal or at SIGKILL. *)
ChildExit(g) ==
    /\ Running(g)
    /\ child' = [child EXCEPT ![g] = "dead"]
    /\ UNCHANGED <<lis, listeners, thr, emitted, acked, dropped>>

-----------------------------------------------------------------------------
StopStep(t) ==
    \/ StopEnter(t) \/ StopSignal(t) \/ StopWaited(t) \/ StopTimeout(t)
    \/ StopKill(t) \/ StopClose(t) \/ StopAwait(t)

LoopStep(g) == ReadReady(g) \/ Pop(g) \/ WriteEvent(g) \/ ReadResult(g) \/ ReadFails(g)

Next ==
    \/ ManagerStart \/ ManagerStop \/ ReloadBegin \/ Terminate \/ ReloadSwap
    \/ ReloadStart \/ EmitEvent
    \/ \E t \in {"main", "signals"} : StopStep(t)
    \/ \E g \in Generations : LoopStep(g) \/ ChildExit(g)

(* Goroutines run, SIGKILL kills, and a pipe whose other end is gone reports it.
   Nothing makes a child speak. *)
Fairness ==
    /\ WF_vars(ReloadSwap) /\ WF_vars(ReloadStart)
    /\ \A t \in {"main", "signals"} : WF_vars(StopStep(t))
    /\ \A g \in Generations :
         /\ WF_vars(Pop(g)) /\ WF_vars(WriteEvent(g))
         /\ WF_vars(~Running(g) /\ ReadFails(g))
         /\ WF_vars(child[g] = "killed" /\ ChildExit(g))

Spec == Init /\ [][Next]_vars /\ Fairness

-----------------------------------------------------------------------------
(* Properties *)

(* An event that was answered with OK is never sent again, although it is
   removed from the queue only after the answer. *)
NoRedelivery ==
    \A g \in Generations : lis[g].loop \in {"write", "result"} =>
                               lis[g].current \notin acked

(* Events reach the child in the order they were emitted, whatever was retried
   or dropped in between. *)
DeliveredInOrder ==
    [][\A g \in Generations : lis'[g].current >= lis[g].current]_vars

(* "so no events are lost", Reload: an event that was emitted is answered with
   OK, waits in the queue of the listener that runs, or was dropped because the
   queue was full. *)
NoneLost ==
    \A e \in 1 .. emitted :
        \/ e \in acked \cup dropped
        \/ \E i \in DOMAIN lis[listeners].queue : lis[listeners].queue[i] = e

(* What holds of it: without an overflow and without a reload nothing is lost. *)
NoneLostQuietly == dropped = {} /\ listeners = 0 => NoneLost

(* "If payload == OK: remove event from queue": the event that is removed is
   the one that was sent. *)
AckRemovesSent ==
    [][\A g \in Generations :
          lis[g].loop = "result" /\ lis'[g].queue # lis[g].queue /\ UNCHANGED emitted =>
              Head(lis[g].queue) = lis[g].current]_vars

(* A reload stops the old child before it starts the new one. *)
OneChild == \A g, h \in Generations : Running(g) /\ Running(h) => g = h

(* Once main has stopped the manager, no child and no protocol loop is left. *)
StopIsFinal ==
    At("main", "exited") => \A g \in Generations :
        ~Running(g) /\ lis[g].loop \in {"none", "end"}

(* stop() returns: a protocol loop blocked in Pop, in a write or in a read
   always lets go, whatever the child does. *)
StopReturns ==
    \A t \in {"main", "signals"} : thr[t].pc \in StopPC ~> thr[t].pc \notin StopPC
=============================================================================
