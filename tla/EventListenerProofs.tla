------------------------ MODULE EventListenerProofs ------------------------
(***************************************************************************)
(* What a listener is sent and in which order, and which children and      *)
(* protocol loops a reload and a stop leave behind, for every queue size   *)
(* and any number of events and reloads.                                   *)
(***************************************************************************)
EXTENDS EventListener, TLAPS

Gs == {"main", "signals"}
Loops == {"none", "ready", "pop", "write", "result", "end"}

-----------------------------------------------------------------------------
(* The delivery.  Sent(g): an event has been popped and not yet answered *)

Sent(g) == lis[g].loop \in {"write", "result"}

(* The queue of a generation is in the order of the events, nothing in it is
   older than the event sent last, and nothing in it was answered with OK. *)
QueueOrder ==
    /\ \A e \in acked : e <= emitted
    /\ \A g \in Generations :
         /\ \A i, j \in 1 .. Len(lis[g].queue) :
              i < j => lis[g].queue[i] < lis[g].queue[j]
         /\ \A i \in 1 .. Len(lis[g].queue) :
              /\ lis[g].current <= lis[g].queue[i] /\ lis[g].queue[i] <= emitted
              /\ lis[g].queue[i] \notin acked
         /\ lis[g].current <= emitted
         /\ Sent(g) => lis[g].current # 0

(* An event belongs to one generation: a reload swaps before the next event. *)
GenerationOrder ==
    /\ \A g \in Generations : g > listeners => lis[g].queue = <<>> /\ lis[g].current = 0
    /\ \A g, h \in Generations : g < h =>
         /\ \A j \in 1 .. Len(lis[h].queue) :
              /\ lis[g].current < lis[h].queue[j]
              /\ \A i \in 1 .. Len(lis[g].queue) : lis[g].queue[i] < lis[h].queue[j]
         /\ lis[h].current # 0 =>
              /\ lis[g].current < lis[h].current
              /\ \A i \in 1 .. Len(lis[g].queue) : lis[g].queue[i] < lis[h].current

(* Without an overflow the event that was sent is still the first one. *)
Quietly ==
    dropped = {} =>
        /\ \A g \in Generations : Sent(g) => /\ lis[g].queue # <<>>
                                             /\ lis[g].queue[1] = lis[g].current
        /\ listeners = 0 =>
             \A e \in 1 .. emitted :
                e \in acked \/ \E i \in 1 .. Len(lis[0].queue) : lis[0].queue[i] = e

-----------------------------------------------------------------------------
(* The children *)

New(g)   == lis[g].state = "" /\ lis[g].loop = "none" /\ child[g] = "none"
Ended(g) == ~Running(g) /\ lis[g].loop \in {"none", "end"}

Stopping(t) == thr[t].pc \in StopPC \ {"stopEnter"}
Swapped == thr["signals"].pc \in StopPC \cup {"start"}

(* Which generation each goroutine is stopping, and which has not started *)
WhoStops ==
    /\ thr["main"].pc \in StopPC => thr["main"].gen = listeners
    /\ Swapped => thr["signals"].gen + 1 = listeners /\ New(listeners)
    /\ thr["main"].pc = "boot" => /\ listeners = 0 /\ New(0)
                                  /\ thr["signals"].pc \in {"run", "exited"}
    /\ thr["signals"].pc = "stopEnter" => lis[thr["signals"].gen].state # "STOPPING"
    /\ lis[listeners].state = "STOPPING" => Stopping("main")
    /\ ~EarlyExit /\ thr["main"].pc \in StopPC \cup {"exited"} =>
         thr["signals"].pc = "exited"
    /\ ~EarlyExit /\ thr["main"].pc = "exited" => lis[listeners].state \in {"", "STOPPED"}

(* What the state of a listener says about its child and its loop *)
StateTells ==
    /\ \A g \in Generations :
         /\ g > listeners => New(g)
         /\ lis[g].state = "" => New(g)
         /\ lis[g].state = "STOPPED" => Ended(g)
         /\ g < listeners /\ ~(thr["signals"].pc \in StopPC /\ thr["signals"].gen = g) =>
              lis[g].state \in {"", "STOPPED"}
    /\ \A t \in Gs : Stopping(t) =>
         /\ lis[thr[t].gen].state = "STOPPING"
         /\ thr[t].pc \in {"stopClose", "stopAwait"} => child[thr[t].gen] = "reaped"

-----------------------------------------------------------------------------
(* Types, and what each form of update does to the listener of a generation *)

USE ListenerAssumption

LEMMA CapacityNat == Capacity \in Nat /\ Capacity >= 1
  BY DEF Capacity

LEMMA Numbers ==
    /\ \A g \in Generations : g \in Nat /\ g <= MaxReloads
    /\ \A g \in Nat : g <= MaxReloads => g \in Generations
    /\ 0 \in Generations
    /\ \A e \in Events : e \in Nat /\ e >= 1
    /\ \A e \in Nat : e >= 1 /\ e <= MaxEvents => e \in Events
  BY DEF Generations, Events

LEMMA QueueFacts ==
    ASSUME NEW q \in Seq(Events)
    PROVE  Len(q) \in Nat /\ \A i \in 1 .. Len(q) : q[i] \in Events
  OBVIOUS

LEMMA EventNat == \A e \in 0 .. MaxEvents : e \in Nat
  OBVIOUS

LEMMA Fields ==
    ASSUME TypeOK, NEW g \in Generations
    PROVE  /\ lis[g] \in ListenerType
           /\ lis[g].state \in {"", "RUNNING", "STOPPING", "STOPPED"}
           /\ lis[g].queue \in Seq(Events) /\ Len(lis[g].queue) \in Nat
           /\ Len(lis[g].queue) <= Capacity
           /\ lis[g].loop \in Loops
           /\ lis[g].current \in 0 .. MaxEvents /\ lis[g].current \in Nat
           /\ \A i \in 1 .. Len(lis[g].queue) : lis[g].queue[i] \in Events
                                                /\ lis[g].queue[i] \in Nat
<1>1. lis[g] \in ListenerType /\ Len(lis[g].queue) <= Capacity
  BY DEF TypeOK
<1>2. /\ lis[g].state \in {"", "RUNNING", "STOPPING", "STOPPED"}
      /\ lis[g].queue \in Seq(Events)
      /\ lis[g].loop \in Loops
      /\ lis[g].current \in 0 .. MaxEvents
  BY <1>1 DEF ListenerType, Loops
<1>3. lis[g].current \in Nat
  BY <1>2, EventNat
<1>4. /\ Len(lis[g].queue) \in Nat
      /\ \A i \in 1 .. Len(lis[g].queue) : lis[g].queue[i] \in Events
  BY <1>2, QueueFacts
<1>5. QED
  BY <1>1, <1>2, <1>3, <1>4, Numbers

LEMMA StateTo ==
    ASSUME TypeOK, NEW g \in Generations, NEW s \in {"", "RUNNING", "STOPPING", "STOPPED"},
           lis' = [lis EXCEPT ![g].state = s]
    PROVE  /\ lis' \in [Generations -> ListenerType]
           /\ \A h \in Generations : h # g => lis'[h] = lis[h]
           /\ lis'[g].state = s /\ lis'[g].queue = lis[g].queue
           /\ lis'[g].loop = lis[g].loop /\ lis'[g].current = lis[g].current
<1>1. lis \in [Generations -> ListenerType]
  BY DEF TypeOK
<1>2. QED
  BY <1>1 DEF ListenerType

LEMMA LoopTo ==
    ASSUME TypeOK, NEW g \in Generations, NEW l \in Loops, LoopGoto(g, l)
    PROVE  /\ lis' \in [Generations -> ListenerType]
           /\ \A h \in Generations : h # g => lis'[h] = lis[h]
           /\ lis'[g].state = lis[g].state /\ lis'[g].queue = lis[g].queue
           /\ lis'[g].loop = l /\ lis'[g].current = lis[g].current
<1>1. lis \in [Generations -> ListenerType]
  BY DEF TypeOK
<1>2. QED
  BY <1>1 DEF ListenerType, Loops, LoopGoto

LEMMA StartTo ==
    ASSUME TypeOK, NEW g \in Generations, StartListener(g)
    PROVE  /\ lis' \in [Generations -> ListenerType]
           /\ \A h \in Generations : h # g => lis'[h] = lis[h] /\ child'[h] = child[h]
           /\ lis'[g].queue = lis[g].queue /\ lis'[g].current = lis[g].current
           /\ child' \in [Generations -> {"none", "alive", "signalled", "killed", "dead", "reaped"}]
           /\ \/ UNCHANGED <<lis, child>>
              \/ lis'[g].state = "RUNNING" /\ lis'[g].loop = "ready" /\ child'[g] = "alive"
              \/ lis'[g].state = "STOPPED" /\ lis'[g].loop = lis[g].loop /\ child'[g] = child[g]
<1>0. lis \in [Generations -> ListenerType] /\ child \in [Generations -> {"none", "alive", "signalled", "killed", "dead", "reaped"}]
  BY DEF TypeOK
<1>1. CASE UNCHANGED <<lis, child>>
  BY <1>0, <1>1
<1>2. CASE /\ lis' = [lis EXCEPT ![g].state = "RUNNING", ![g].loop = "ready"]
           /\ child' = [child EXCEPT ![g] = "alive"]
  BY <1>0, <1>2 DEF ListenerType
<1>3. CASE lis' = [lis EXCEPT ![g].state = "STOPPED"] /\ UNCHANGED child
  BY <1>0, <1>3, StateTo
<1>4. QED
  BY <1>1, <1>2, <1>3 DEF StartListener

LEMMA ClosedTo ==
    ASSUME TypeOK, NEW g \in Generations, lis' = [lis EXCEPT ![g].closed = TRUE]
    PROVE  /\ lis' \in [Generations -> ListenerType]
           /\ \A h \in Generations : /\ lis'[h].queue = lis[h].queue
                                     /\ lis'[h].current = lis[h].current
                                     /\ lis'[h].loop = lis[h].loop
                                     /\ lis'[h].state = lis[h].state
<1>1. lis \in [Generations -> ListenerType]
  BY DEF TypeOK
<1>2. QED
  BY <1>1 DEF ListenerType

LEMMA PopTo ==
    ASSUME TypeOK, NEW g \in Generations, NEW e \in Events,
           lis' = [lis EXCEPT ![g].loop = "write", ![g].current = e]
    PROVE  /\ lis' \in [Generations -> ListenerType]
           /\ \A h \in Generations : h # g => lis'[h] = lis[h]
           /\ lis'[g].state = lis[g].state /\ lis'[g].queue = lis[g].queue
           /\ lis'[g].loop = "write" /\ lis'[g].current = e
<1>1. e \in 0 .. MaxEvents
  BY DEF Events
<1>2. lis \in [Generations -> ListenerType]
  BY DEF TypeOK
<1>3. QED
  BY <1>1, <1>2 DEF ListenerType

LEMMA QueueTo ==
    ASSUME TypeOK, NEW g \in Generations, NEW q \in Seq(Events),
           lis' = [lis EXCEPT ![g].queue = q]
    PROVE  /\ lis' \in [Generations -> ListenerType]
           /\ \A h \in Generations : h # g => lis'[h] = lis[h]
           /\ lis'[g].state = lis[g].state /\ lis'[g].queue = q
           /\ lis'[g].loop = lis[g].loop /\ lis'[g].current = lis[g].current
<1>1. lis \in [Generations -> ListenerType]
  BY DEF TypeOK
<1>2. QED
  BY <1>1 DEF ListenerType

LEMMA AnswerTo ==
    ASSUME TypeOK, NEW g \in Generations, NEW q \in Seq(Events),
           lis' = [lis EXCEPT ![g].queue = q, ![g].loop = "ready"]
    PROVE  /\ lis' \in [Generations -> ListenerType]
           /\ \A h \in Generations : h # g => lis'[h] = lis[h]
           /\ lis'[g].state = lis[g].state /\ lis'[g].queue = q
           /\ lis'[g].loop = "ready" /\ lis'[g].current = lis[g].current
<1>1. lis \in [Generations -> ListenerType]
  BY DEF TypeOK
<1>2. QED
  BY <1>1 DEF ListenerType

(* The queue of newEventQueue: a push drops the first event when it is full *)
LEMMA PushedQueue ==
    ASSUME NEW q \in Seq(Events), NEW e \in Events, Len(q) <= Capacity
    PROVE  /\ Pushed(q, e) \in Seq(Events) /\ Len(Pushed(q, e)) <= Capacity
           /\ Len(Pushed(q, e)) \in Nat
           /\ ~Full(q) => /\ Len(Pushed(q, e)) = Len(q) + 1
                          /\ \A i \in 1 .. Len(q) : Pushed(q, e)[i] = q[i]
                          /\ Pushed(q, e)[Len(q) + 1] = e
           /\ Full(q) => /\ Len(Pushed(q, e)) = Len(q) /\ Len(q) >= 1
                         /\ \A i \in 1 .. Len(q) - 1 : Pushed(q, e)[i] = q[i + 1]
                         /\ Pushed(q, e)[Len(q)] = e
                         /\ Head(q) \in Events
<1>1. CASE ~Full(q)
  <2>1. Pushed(q, e) = Append(q, e) /\ Len(q) < Capacity
    BY <1>1, CapacityNat DEF Pushed, Full
  <2>2. QED
    BY <1>1, <2>1, CapacityNat
<1>2. CASE Full(q)
  <2>1. Pushed(q, e) = Append(Tail(q), e) /\ Len(q) >= 1 /\ q # <<>>
    BY <1>2, CapacityNat DEF Pushed, Full
  <2>2. /\ Tail(q) \in Seq(Events) /\ Len(Tail(q)) = Len(q) - 1
        /\ \A i \in 1 .. Len(q) - 1 : Tail(q)[i] = q[i + 1]
        /\ Head(q) \in Events
    BY <2>1
  <2> DEFINE r == Tail(q)
  <2>3. /\ r \in Seq(Events) /\ Len(r) = Len(q) - 1
        /\ \A i \in 1 .. Len(q) - 1 : r[i] = q[i + 1]
    BY <2>2
  <2> HIDE DEF r
  <2>4. /\ Append(r, e) \in Seq(Events) /\ Len(Append(r, e)) = Len(q)
        /\ \A i \in 1 .. Len(q) - 1 : Append(r, e)[i] = q[i + 1]
        /\ Append(r, e)[Len(q)] = e
    BY <2>1, <2>3
  <2>5. QED
    BY <1>2, <2>1, <2>2, <2>4 DEF r
<1>3. QED
  BY <1>1, <1>2

LEMMA RemovedQueue ==
    ASSUME NEW q \in Seq(Events)
    PROVE  /\ RemoveFirst(q) \in Seq(Events) /\ Len(RemoveFirst(q)) <= Len(q)
           /\ q = <<>> => RemoveFirst(q) = q
           /\ q # <<>> => /\ Len(RemoveFirst(q)) = Len(q) - 1
                          /\ \A i \in 1 .. Len(q) - 1 : RemoveFirst(q)[i] = q[i + 1]
  BY DEF RemoveFirst

LEMMA ThrTo ==
    ASSUME TypeOK, NEW t \in Gs, NEW l \in {"boot", "run", "swap", "start", "exited"} \cup StopPC,
           Goto(t, l)
    PROVE  /\ thr' \in [Gs -> [pc : {"boot", "run", "swap", "start", "exited"} \cup StopPC,
                               gen : Generations]]
           /\ thr'[t].pc = l /\ thr'[t].gen = thr[t].gen
           /\ \A u \in Gs : u # t => thr'[u] = thr[u]
  BY DEF TypeOK, Goto, Gs

LEMMA ThrGenTo ==
    ASSUME TypeOK, NEW t \in Gs, NEW g \in Generations,
           thr' = [thr EXCEPT ![t] = [pc |-> "stopEnter", gen |-> g]]
    PROVE  /\ thr' \in [Gs -> [pc : {"boot", "run", "swap", "start", "exited"} \cup StopPC,
                               gen : Generations]]
           /\ thr'[t].pc = "stopEnter" /\ thr'[t].gen = g
           /\ \A u \in Gs : u # t => thr'[u] = thr[u]
  BY DEF TypeOK, Gs, StopPC

-----------------------------------------------------------------------------
(* Every action keeps the types. *)

PCs == {"boot", "run", "swap", "start", "exited"} \cup StopPC
Children == {"none", "alive", "signalled", "killed", "dead", "reaped"}

(* The bound on the reloads is checked before the swap. *)
SwapRoom == thr["signals"].pc = "swap" => listeners < MaxReloads
TypeInv == TypeOK /\ SwapRoom

(* The actions leave most of the queues alone. *)
SameQueues ==
    \A g \in Generations : lis'[g].queue = lis[g].queue /\ lis'[g].current = lis[g].current

LEMMA TypeFrom ==
    ASSUME TypeOK, lis' \in [Generations -> ListenerType], SameQueues,
           child' \in [Generations -> Children], listeners' \in Generations,
           thr' \in [Gs -> [pc : PCs, gen : Generations]],
           UNCHANGED <<emitted, dropped>>, acked' \subseteq Events, SwapRoom'
    PROVE  TypeInv'
  BY DEF TypeInv, TypeOK, SameQueues, PCs, Children, Gs

LEMMA InitType == Init => TypeInv
<1> SUFFICES ASSUME Init PROVE TypeInv
  OBVIOUS
<1>1. NewListener \in ListenerType /\ NewListener.queue = <<>>
  BY DEF NewListener, ListenerType
<1>2. lis \in [Generations -> ListenerType] /\ \A g \in Generations : lis[g].queue = <<>>
  BY <1>1 DEF Init
<1>3. \A g \in Generations : Len(lis[g].queue) <= Capacity
  BY <1>2, CapacityNat
<1>4. 0 \in Generations
  BY Numbers
<1>5. thr \in [Gs -> [pc : PCs, gen : Generations]]
  BY <1>4 DEF Init, Gs, PCs
<1>6. QED
  BY <1>2, <1>3, <1>4, <1>5 DEF Init, TypeInv, TypeOK, SwapRoom, Gs, PCs

(* StartListener, by main or by a reload *)
LEMMA StartType ==
    ASSUME TypeInv, NEW t \in Gs, StartListener(listeners), Goto(t, "run"),
           UNCHANGED <<listeners, emitted, acked, dropped>>
    PROVE  TypeInv' /\ SameQueues
<1>1. TypeOK /\ listeners \in Generations /\ acked \subseteq Events
  BY DEF TypeInv, TypeOK
<1>2. /\ lis' \in [Generations -> ListenerType] /\ child' \in [Generations -> Children]
      /\ SameQueues
  BY <1>1, StartTo DEF SameQueues, Children
<1>3. thr' \in [Gs -> [pc : PCs, gen : Generations]] /\ SwapRoom'
  BY <1>1, ThrTo DEF PCs, Gs, SwapRoom, TypeInv
<1>4. QED
  BY <1>1, <1>2, <1>3, TypeFrom

(* the goroutines, outside of stop() *)
LEMMA ManagerType ==
    ASSUME TypeInv, ManagerStop \/ ReloadBegin \/ Terminate \/ ReloadSwap
    PROVE  TypeInv' /\ SameQueues
<1>1. /\ TypeOK /\ listeners \in Generations /\ acked \subseteq Events
      /\ lis \in [Generations -> ListenerType] /\ child \in [Generations -> Children]
  BY DEF TypeInv, TypeOK, Children
<1>2. UNCHANGED <<lis, child, emitted, acked, dropped>>
  BY DEF ManagerStop, ReloadBegin, Terminate, ReloadSwap
<1>3. SameQueues
  BY <1>2 DEF SameQueues
<1>4. CASE ManagerStop
  <2>1. thr' = [thr EXCEPT !["main"] = [pc |-> "stopEnter", gen |-> listeners]]
        /\ UNCHANGED listeners
    BY <1>4 DEF ManagerStop
  <2>2. thr' \in [Gs -> [pc : PCs, gen : Generations]] /\ SwapRoom'
    BY <1>1, <2>1, ThrGenTo DEF Gs, PCs, SwapRoom, TypeInv
  <2>3. QED
    BY <1>1, <1>2, <1>3, <2>1, <2>2, TypeFrom
<1>5. CASE ReloadBegin \/ Terminate
  <2>1. /\ UNCHANGED listeners
        /\ \/ Goto("signals", "swap") /\ listeners < MaxReloads
           \/ Goto("signals", "exited")
    BY <1>5 DEF ReloadBegin, Terminate
  <2>2. thr' \in [Gs -> [pc : PCs, gen : Generations]] /\ SwapRoom'
    BY <1>1, <2>1, ThrTo DEF Gs, PCs, SwapRoom
  <2>3. QED
    BY <1>1, <1>2, <1>3, <2>1, <2>2, TypeFrom
<1>6. CASE ReloadSwap
  <2>1. thr' = [thr EXCEPT !["signals"] = [pc |-> "stopEnter", gen |-> listeners]]
        /\ listeners' = listeners + 1
    BY <1>6 DEF ReloadSwap
  <2>a. listeners + 1 \in Generations
    BY <1>1, <1>6, Numbers DEF ReloadSwap, At, TypeInv, SwapRoom
  <2>2. thr' \in [Gs -> [pc : PCs, gen : Generations]] /\ SwapRoom'
    BY <1>1, <2>1, ThrGenTo DEF Gs, PCs, SwapRoom, TypeInv
  <2>3. QED
    BY <1>1, <1>2, <1>3, <2>a, <2>1, <2>2, TypeFrom
<1>7. QED
  BY <1>4, <1>5, <1>6

LEMMA EmitType ==
    ASSUME TypeInv, EmitEvent
    PROVE  /\ TypeInv' /\ emitted + 1 \in Events
           /\ lis' = [lis EXCEPT ![listeners].queue = Pushed(lis[listeners].queue, emitted + 1)]
<1>1. TypeOK /\ listeners \in Generations /\ emitted \in 0 .. MaxEvents
  BY DEF TypeInv, TypeOK
<1>2. /\ emitted < MaxEvents /\ emitted' = emitted + 1
      /\ lis' = [lis EXCEPT ![listeners].queue = Pushed(lis[listeners].queue, emitted + 1)]
      /\ UNCHANGED <<child, listeners, thr, acked>>
  BY DEF EmitEvent
<1>3. emitted + 1 \in Events /\ emitted' \in 0 .. MaxEvents
  BY <1>1, <1>2 DEF Events
<1>4. /\ lis[listeners].queue \in Seq(Events) /\ Len(lis[listeners].queue) <= Capacity
  BY <1>1, Fields
<1> DEFINE q == Pushed(lis[listeners].queue, emitted + 1)
<1>5. /\ q \in Seq(Events) /\ Len(q) <= Capacity
      /\ Full(lis[listeners].queue) => Head(lis[listeners].queue) \in Events
  BY <1>3, <1>4, PushedQueue
<1> HIDE DEF q
<1>6. lis' = [lis EXCEPT ![listeners].queue = q]
  BY <1>2 DEF q
<1>7. /\ lis' \in [Generations -> ListenerType]
      /\ \A h \in Generations : h # listeners => lis'[h] = lis[h]
      /\ lis'[listeners].queue = q
  BY <1>1, <1>5, <1>6, QueueTo
<1>8. \A h \in Generations : Len(lis'[h].queue) <= Capacity
  BY <1>1, <1>5, <1>7, Fields
<1>9. dropped' \subseteq Events
  BY <1>1, <1>5 DEF EmitEvent, TypeOK
<1>10. TypeOK'
  BY <1>1, <1>2, <1>3, <1>7, <1>8, <1>9 DEF TypeOK
<1>11. QED
  BY <1>2, <1>3, <1>10 DEF TypeInv, SwapRoom

(* Every step of stop() *)
LEMMA StopType ==
    ASSUME TypeInv, NEW t \in Gs, StopStep(t)
    PROVE  TypeInv' /\ SameQueues
<1>1. /\ TypeOK /\ listeners \in Generations /\ acked \subseteq Events
      /\ lis \in [Generations -> ListenerType] /\ child \in [Generations -> Children]
      /\ thr[t].gen \in Generations
  BY DEF TypeInv, TypeOK, Children, Gs
<1>2. UNCHANGED <<listeners, emitted, acked, dropped>>
  BY DEF StopStep, StopEnter, StopSignal, StopWaited, StopTimeout, StopKill, StopClose, StopAwait
<1>3. PICK l \in (PCs \ {"swap"}) : Goto(t, l)
  <2>1. "start" \in PCs \ {"swap"} /\ "exited" \in PCs \ {"swap"} /\ StopPC \subseteq PCs \ {"swap"}
    BY DEF PCs, StopPC
  <2>2. QED
    BY <2>1 DEF StopStep, StopEnter, StopSignal, StopWaited, StopTimeout, StopKill,
                StopClose, StopAwait, StopReturn, StopPC
<1>4. thr' \in [Gs -> [pc : PCs, gen : Generations]] /\ SwapRoom'
  BY <1>1, <1>2, <1>3, ThrTo DEF PCs, Gs, SwapRoom, TypeInv
<1>5. child' \in [Generations -> Children]
  BY <1>1 DEF StopStep, StopEnter, StopSignal, StopWaited, StopTimeout, StopKill,
              StopClose, StopAwait, Children
<1>6. \/ UNCHANGED lis
      \/ lis' = [lis EXCEPT ![thr[t].gen].state = "STOPPING"]
      \/ lis' = [lis EXCEPT ![thr[t].gen].state = "STOPPED"]
      \/ lis' = [lis EXCEPT ![thr[t].gen].closed = TRUE]
  BY DEF StopStep, StopEnter, StopSignal, StopWaited, StopTimeout, StopKill, StopClose, StopAwait
<1>7. lis' \in [Generations -> ListenerType] /\ SameQueues
  <2>1. CASE UNCHANGED lis
    BY <1>1, <2>1 DEF SameQueues
  <2>2. CASE \/ lis' = [lis EXCEPT ![thr[t].gen].state = "STOPPING"]
             \/ lis' = [lis EXCEPT ![thr[t].gen].state = "STOPPED"]
    <3>1. PICK s \in {"STOPPING", "STOPPED"} : lis' = [lis EXCEPT ![thr[t].gen].state = s]
      BY <2>2
    <3>2. /\ lis' \in [Generations -> ListenerType]
          /\ \A h \in Generations : h # thr[t].gen => lis'[h] = lis[h]
          /\ lis'[thr[t].gen].queue = lis[thr[t].gen].queue
          /\ lis'[thr[t].gen].current = lis[thr[t].gen].current
      BY <1>1, <3>1, StateTo
    <3>3. QED
      BY <3>2 DEF SameQueues
  <2>3. CASE lis' = [lis EXCEPT ![thr[t].gen].closed = TRUE]
    BY <1>1, <2>3, ClosedTo DEF SameQueues
  <2>4. QED
    BY <1>6, <2>1, <2>2, <2>3
<1>8. QED
  BY <1>1, <1>2, <1>4, <1>5, <1>7, TypeFrom

(* the steps of the protocol loop that only move it, and the end of the child *)
Moves(g) ==
    \/ ReadReady(g) \/ WriteEvent(g) \/ ReadFails(g) \/ ChildExit(g)
    \/ Pop(g) /\ lis[g].queue = <<>>
    \/ ReadResult(g) /\ LoopGoto(g, "ready") /\ UNCHANGED acked

LEMMA MoveType ==
    ASSUME TypeInv, NEW g \in Generations, Moves(g)
    PROVE  TypeInv' /\ SameQueues
<1>1. /\ TypeOK /\ listeners \in Generations /\ acked \subseteq Events
      /\ lis \in [Generations -> ListenerType] /\ child \in [Generations -> Children]
      /\ thr \in [Gs -> [pc : PCs, gen : Generations]]
  BY DEF TypeInv, TypeOK, Children, Gs, PCs
<1>2. UNCHANGED <<listeners, thr, emitted, acked, dropped>>
  BY DEF Moves, ReadReady, WriteEvent, ReadFails, ChildExit, Pop, ReadResult
<1>3. child' \in [Generations -> Children]
  BY <1>1 DEF Moves, ReadReady, WriteEvent, ReadFails, ChildExit, Pop, ReadResult, Children
<1>4. UNCHANGED lis \/ \E l \in Loops : LoopGoto(g, l)
  BY DEF Moves, ReadReady, WriteEvent, ReadFails, ChildExit, Pop, ReadResult, Loops
<1>5. lis' \in [Generations -> ListenerType] /\ SameQueues
  BY <1>1, <1>4, LoopTo DEF SameQueues
<1>6. SwapRoom'
  BY <1>2 DEF TypeInv, SwapRoom
<1>7. QED
  BY <1>1, <1>2, <1>3, <1>5, <1>6, TypeFrom

(* Pop finds an event *)
LEMMA PopType ==
    ASSUME TypeInv, NEW g \in Generations, Pop(g), lis[g].queue # <<>>
    PROVE  /\ TypeInv' /\ lis[g].queue[1] \in Events /\ 1 \in 1 .. Len(lis[g].queue)
           /\ lis' = [lis EXCEPT ![g].loop = "write", ![g].current = lis[g].queue[1]]
           /\ lis[g].loop = "pop"
<1>1. TypeOK /\ lis[g].queue \in Seq(Events)
  BY Fields DEF TypeInv
<1>2. \A q \in Seq(Events) : q # <<>> => 1 \in 1 .. Len(q) /\ Head(q) = q[1] /\ q[1] \in Events
  OBVIOUS
<1>3. /\ lis[g].queue[1] \in Events /\ 1 \in 1 .. Len(lis[g].queue)
      /\ Head(lis[g].queue) = lis[g].queue[1]
  BY <1>1, <1>2
<1>4. /\ lis' = [lis EXCEPT ![g].loop = "write", ![g].current = lis[g].queue[1]]
      /\ lis[g].loop = "pop" /\ UNCHANGED <<child, listeners, thr, emitted, acked, dropped>>
  BY <1>3 DEF Pop
<1>5. /\ lis' \in [Generations -> ListenerType]
      /\ \A h \in Generations : lis'[h].queue = lis[h].queue
  BY <1>1, <1>3, <1>4, PopTo
<1>6. TypeOK'
  BY <1>1, <1>4, <1>5 DEF TypeOK
<1>7. QED
  BY <1>3, <1>4, <1>6 DEF TypeInv, SwapRoom

(* OK: the first event of the queue is removed *)
Acked(g) ==
    /\ ReadResult(g) /\ acked' = acked \cup {lis[g].current}
    /\ lis' = [lis EXCEPT ![g].queue = RemoveFirst(lis[g].queue), ![g].loop = "ready"]

LEMMA AckType ==
    ASSUME TypeInv, NEW g \in Generations, Acked(g), lis[g].current # 0
    PROVE  TypeInv'
<1>1. TypeOK /\ lis[g].queue \in Seq(Events) /\ Len(lis[g].queue) <= Capacity
      /\ Len(lis[g].queue) \in Nat /\ lis[g].current \in Events
  <2>1. TypeOK
    BY DEF TypeInv
  <2>2. \A e \in 0 .. MaxEvents : e # 0 => e \in Events
    BY DEF Events
  <2>3. QED
    BY <2>1, <2>2, Fields
<1> DEFINE q == RemoveFirst(lis[g].queue)
<1>2. q \in Seq(Events) /\ Len(q) <= Len(lis[g].queue)
  BY <1>1, RemovedQueue
<1>3. Len(q) <= Capacity
  <2>1. Len(q) \in Nat
    BY <1>2, QueueFacts
  <2>2. QED
    BY <1>1, <1>2, <2>1, CapacityNat
<1> HIDE DEF q
<1>4. lis' = [lis EXCEPT ![g].queue = q, ![g].loop = "ready"]
  BY DEF Acked, q
<1>5. UNCHANGED <<child, listeners, thr, emitted, dropped>> /\ acked' = acked \cup {lis[g].current}
  BY DEF Acked, ReadResult
<1>6. /\ lis' \in [Generations -> ListenerType]
      /\ \A h \in Generations : h # g => lis'[h] = lis[h]
      /\ lis'[g].queue = q
  BY <1>1, <1>2, <1>4, AnswerTo
<1>7. \A h \in Generations : Len(lis'[h].queue) <= Capacity
  BY <1>1, <1>3, <1>6, Fields
<1>8. TypeOK'
  BY <1>1, <1>5, <1>6, <1>7 DEF TypeOK
<1>9. QED
  BY <1>5, <1>8 DEF TypeInv, SwapRoom

(* The steps, sorted by what they do to the queues *)
LEMMA StepKinds ==
    ASSUME Next
    PROVE  \/ ManagerStart \/ ReloadStart
           \/ ManagerStop \/ ReloadBegin \/ Terminate \/ ReloadSwap
           \/ EmitEvent
           \/ \E t \in Gs : StopStep(t)
           \/ \E g \in Generations : Moves(g)
           \/ \E g \in Generations : Pop(g) /\ lis[g].queue # <<>>
           \/ \E g \in Generations : Acked(g)
  BY DEF Next, LoopStep, Gs, Moves, Acked, ReadResult

-----------------------------------------------------------------------------
(* The delivery *)

DInv == TypeInv /\ QueueOrder /\ GenerationOrder /\ NoRedelivery /\ Quietly

LEMMA InitDelivery == Init => DInv
<1> SUFFICES ASSUME Init PROVE DInv
  OBVIOUS
<1>1. TypeInv
  BY InitType
<1>2. /\ \A g \in Generations : /\ lis[g].queue = <<>> /\ lis[g].current = 0
                                /\ lis[g].loop = "none"
      /\ emitted = 0 /\ acked = {}
  BY DEF Init, NewListener
<1>3. \A g \in Generations : Len(lis[g].queue) = 0 /\ ~Sent(g)
  BY <1>2 DEF Sent
<1>4. QueueOrder /\ GenerationOrder
  BY <1>2, <1>3 DEF QueueOrder, GenerationOrder
<1>5. NoRedelivery /\ Quietly
  BY <1>2, <1>3 DEF NoRedelivery, Quietly
<1>6. QED
  BY <1>1, <1>4, <1>5 DEF DInv

(* A step that leaves the queues alone and sends nothing *)
LEMMA DeliveryFrame ==
    ASSUME DInv, TypeInv', SameQueues, listeners' \in {listeners, listeners + 1},
           UNCHANGED <<emitted, acked, dropped>>,
           \A g \in Generations : lis'[g].loop \in {"write", "result"} => Sent(g)
    PROVE  DInv'
<1>0. listeners \in Nat /\ \A g \in Generations : g \in Nat
  BY Numbers DEF DInv, TypeInv, TypeOK
<1>1. \A g \in Generations : Sent(g)' => Sent(g)
  BY DEF Sent
<1>2. QueueOrder'
  BY <1>1 DEF DInv, QueueOrder, SameQueues
<1>3. GenerationOrder'
  <2>1. \A g \in Generations : g > listeners' => g > listeners
    BY <1>0
  <2>2. \A g \in Generations : g > listeners' => lis'[g].queue = <<>> /\ lis'[g].current = 0
    BY <2>1 DEF DInv, GenerationOrder, SameQueues
  <2>3. QED
    BY <2>2 DEF DInv, GenerationOrder, SameQueues
<1>4. NoRedelivery'
  BY <1>1 DEF DInv, NoRedelivery, SameQueues, Sent
<1>5. Quietly'
  <2> SUFFICES ASSUME dropped' = {} PROVE Quietly'
    BY DEF Quietly
  <2>0. dropped = {} /\ 0 \in Generations
    BY Numbers
  <2>1. \A g \in Generations : Sent(g)' => lis'[g].queue # <<>> /\ lis'[g].queue[1] = lis'[g].current
    BY <1>1, <2>0 DEF DInv, Quietly, SameQueues
  <2>2. listeners' = 0 =>
          \A e \in 1 .. emitted' :
             e \in acked' \/ \E i \in 1 .. Len(lis'[0].queue) : lis'[0].queue[i] = e
    BY <1>0, <2>0 DEF DInv, Quietly, SameQueues
  <2>3. QED
    BY <2>1, <2>2 DEF Quietly
<1>6. QED
  BY <1>2, <1>3, <1>4, <1>5 DEF DInv

LEMMA MoveDelivery ==
    ASSUME DInv, \/ ManagerStart \/ ReloadStart
                 \/ ManagerStop \/ ReloadBegin \/ Terminate \/ ReloadSwap
                 \/ \E t \in Gs : StopStep(t)
                 \/ \E g \in Generations : Moves(g)
    PROVE  DInv'
<1>0. TypeInv /\ TypeOK /\ listeners \in Generations
  BY DEF DInv, TypeInv, TypeOK
<1>1. CASE ManagerStart \/ ReloadStart
  <2>1. PICK t \in Gs : /\ StartListener(listeners) /\ Goto(t, "run")
                        /\ UNCHANGED <<listeners, emitted, acked, dropped>>
    BY <1>1 DEF ManagerStart, ReloadStart, Gs
  <2>2. TypeInv' /\ SameQueues
    BY <1>0, <2>1, StartType
  <2>3. \A g \in Generations : lis'[g].loop \in {"write", "result"} => Sent(g)
    BY <1>0, <2>1, StartTo DEF Sent
  <2>4. QED
    BY <2>1, <2>2, <2>3, DeliveryFrame
<1>2. CASE ManagerStop \/ ReloadBegin \/ Terminate \/ ReloadSwap
  <2>1. TypeInv' /\ SameQueues
    BY <1>0, <1>2, ManagerType
  <2>2. UNCHANGED <<lis, emitted, acked, dropped>> /\ listeners' \in {listeners, listeners + 1}
    BY <1>2 DEF ManagerStop, ReloadBegin, Terminate, ReloadSwap
  <2>3. QED
    BY <2>1, <2>2, DeliveryFrame DEF Sent
<1>3. ASSUME NEW t \in Gs, StopStep(t) PROVE DInv'
  <2>1. TypeInv' /\ SameQueues
    BY <1>0, <1>3, StopType
  <2>2. UNCHANGED <<listeners, emitted, acked, dropped>>
    BY <1>3 DEF StopStep, StopEnter, StopSignal, StopWaited, StopTimeout, StopKill, StopClose, StopAwait
  <2>3. thr[t].gen \in Generations
    BY <1>0 DEF TypeOK, Gs
  <2>4. \/ UNCHANGED lis
        \/ \E s \in {"STOPPING", "STOPPED"} : lis' = [lis EXCEPT ![thr[t].gen].state = s]
        \/ lis' = [lis EXCEPT ![thr[t].gen].closed = TRUE]
    BY <1>3 DEF StopStep, StopEnter, StopSignal, StopWaited, StopTimeout, StopKill, StopClose, StopAwait
  <2>5. \A g \in Generations : lis'[g].loop = lis[g].loop
    <3>1. CASE UNCHANGED lis
      BY <3>1
    <3>2. ASSUME NEW s \in {"STOPPING", "STOPPED"}, lis' = [lis EXCEPT ![thr[t].gen].state = s]
          PROVE  \A g \in Generations : lis'[g].loop = lis[g].loop
      BY <1>0, <2>3, <3>2, StateTo
    <3>3. CASE lis' = [lis EXCEPT ![thr[t].gen].closed = TRUE]
      BY <1>0, <2>3, <3>3, ClosedTo
    <3>4. QED
      BY <2>4, <3>1, <3>2, <3>3
  <2>6. QED
    BY <2>1, <2>2, <2>5, DeliveryFrame DEF Sent
<1>4. ASSUME NEW g \in Generations, Moves(g) PROVE DInv'
  <2>1. TypeInv' /\ SameQueues
    BY <1>0, <1>4, MoveType
  <2>2. UNCHANGED <<listeners, emitted, acked, dropped>>
    BY <1>4 DEF Moves, ReadReady, WriteEvent, ReadFails, ChildExit, Pop, ReadResult
  <2>3. \/ UNCHANGED lis
        \/ \E l \in {"pop", "end", "ready"} : LoopGoto(g, l)
        \/ lis[g].loop = "write" /\ LoopGoto(g, "result")
    BY <1>4 DEF Moves, ReadReady, WriteEvent, ReadFails, ChildExit, Pop, ReadResult
  <2>4. \A h \in Generations : lis'[h].loop \in {"write", "result"} => Sent(h)
    BY <1>0, <2>3, LoopTo DEF Sent, Loops
  <2>5. QED
    BY <2>1, <2>2, <2>4, DeliveryFrame
<1>5. QED
  BY <1>1, <1>2, <1>3, <1>4

(* EmitEvent: the new event is the newest of all *)
LEMMA EmitDelivery == ASSUME DInv, EmitEvent PROVE DInv'
<1> DEFINE G == listeners
           e == emitted + 1
           q == lis[G].queue
           p == Pushed(q, e)
<1>0. TypeInv /\ TypeOK /\ G \in Generations /\ emitted \in Nat /\ e \in Nat
  BY DEF DInv, TypeInv, TypeOK
<1>1. /\ TypeInv' /\ e \in Events /\ lis' = [lis EXCEPT ![G].queue = p]
  BY <1>0, EmitType
<1>2. /\ emitted' = e /\ UNCHANGED <<child, listeners, thr, acked>>
      /\ dropped' = IF Full(q) THEN dropped \cup {Head(q)} ELSE dropped
  BY DEF EmitEvent
<1>3. q \in Seq(Events) /\ Len(q) <= Capacity /\ Len(q) \in Nat
  BY <1>0, Fields
<1>4. /\ p \in Seq(Events) /\ Len(p) \in Nat
      /\ ~Full(q) => /\ Len(p) = Len(q) + 1
                     /\ \A i \in 1 .. Len(q) : p[i] = q[i]
                     /\ p[Len(q) + 1] = e
      /\ Full(q) => /\ Len(p) = Len(q) /\ Len(q) >= 1
                    /\ \A i \in 1 .. Len(q) - 1 : p[i] = q[i + 1]
                    /\ p[Len(q)] = e
  BY <1>1, <1>3, PushedQueue
<1> HIDE DEF p
<1>5. /\ \A h \in Generations : h # G => lis'[h] = lis[h]
      /\ lis'[G].queue = p /\ lis'[G].loop = lis[G].loop /\ lis'[G].current = lis[G].current
  BY <1>0, <1>1, <1>4, QueueTo
<1> HIDE DEF q
<1>6. /\ \A i, j \in 1 .. Len(q) : i < j => q[i] < q[j]
      /\ \A i \in 1 .. Len(q) : q[i] \in Nat /\ q[i] <= emitted
      /\ \A i \in 1 .. Len(q) : lis[G].current <= q[i] /\ q[i] \notin acked
      /\ lis[G].current <= emitted /\ lis[G].current \in Nat
      /\ Sent(G) => lis[G].current # 0
  BY <1>0, Fields DEF DInv, QueueOrder, q
<1>7. \A i \in 1 .. Len(p) : (\E k \in 1 .. Len(q) : p[i] = q[k]) \/ (p[i] = e /\ i = Len(p))
  <2>1. CASE Full(q)
    BY <1>3, <1>4, <2>1
  <2>2. CASE ~Full(q)
    BY <1>3, <1>4, <2>2
  <2>3. QED
    BY <2>1, <2>2
<1>8. \A i, j \in 1 .. Len(p) : i < j => p[i] < p[j]
  <2> SUFFICES ASSUME NEW i \in 1 .. Len(p), NEW j \in 1 .. Len(p), i < j PROVE p[i] < p[j]
    OBVIOUS
  <2>1. CASE Full(q)
    <3>1. i \in 1 .. Len(q) - 1 /\ i + 1 \in 1 .. Len(q) /\ p[i] = q[i + 1]
      BY <1>3, <1>4, <2>1
    <3>2. CASE j = Len(q)
      BY <1>0, <1>4, <1>6, <2>1, <3>1, <3>2
    <3>3. CASE j # Len(q)
      <4>1. j + 1 \in 1 .. Len(q) /\ p[j] = q[j + 1]
        BY <1>3, <1>4, <2>1, <3>3
      <4>2. i + 1 < j + 1
        BY <1>3
      <4>3. QED
        BY <1>6, <3>1, <4>1, <4>2
    <3>4. QED
      BY <3>2, <3>3
  <2>2. CASE ~Full(q)
    <3>1. i \in 1 .. Len(q) /\ p[i] = q[i]
      BY <1>3, <1>4, <2>2
    <3>2. CASE j = Len(q) + 1
      BY <1>0, <1>4, <1>6, <2>2, <3>1, <3>2
    <3>3. CASE j # Len(q) + 1
      <4>1. j \in 1 .. Len(q) /\ p[j] = q[j]
        BY <1>3, <1>4, <2>2, <3>3
      <4>2. QED
        BY <1>6, <3>1, <4>1
    <3>4. QED
      BY <3>2, <3>3
  <2>3. QED
    BY <2>1, <2>2
<1>9. e \notin acked
  BY <1>0 DEF DInv, QueueOrder
<1>10. QueueOrder'
  <2>1. \A i \in 1 .. Len(p) : lis[G].current <= p[i] /\ p[i] <= e /\ p[i] \notin acked
    BY <1>0, <1>6, <1>7, <1>9
  <2>2. lis[G].current <= e /\ \A x \in acked : x <= e
    BY <1>0, <1>6 DEF DInv, QueueOrder, TypeOK, Events
  <2>3. Sent(G)' <=> Sent(G)
    BY <1>2, <1>5 DEF Sent
  <2> DEFINE OK(h) ==
         /\ \A i, j \in 1 .. Len(lis'[h].queue) : i < j => lis'[h].queue[i] < lis'[h].queue[j]
         /\ \A i \in 1 .. Len(lis'[h].queue) :
              /\ lis'[h].current <= lis'[h].queue[i] /\ lis'[h].queue[i] <= e
              /\ lis'[h].queue[i] \notin acked
         /\ lis'[h].current <= e
         /\ Sent(h)' => lis'[h].current # 0
  <2>4. OK(G)
    BY <1>5, <1>6, <1>8, <2>1, <2>2, <2>3
  <2>5. ASSUME NEW h \in Generations, h # G PROVE OK(h)
    <3>1. lis'[h] = lis[h] /\ (Sent(h)' => Sent(h))
      BY <1>5, <2>5 DEF Sent
    <3>2. /\ \A i \in 1 .. Len(lis[h].queue) : lis[h].queue[i] \in Nat
          /\ lis[h].current \in Nat
      BY <1>0, Fields
    <3>3. QED
      BY <1>0, <3>1, <3>2 DEF DInv, QueueOrder
  <2>6. QED
    BY <1>2, <2>2, <2>4, <2>5 DEF QueueOrder
<1>11. GenerationOrder'
  <2>1. \A g \in Generations : g > listeners' => lis'[g].queue = <<>> /\ lis'[g].current = 0
    <3>1. \A g \in Generations : g > G => g # G
      BY <1>0, Numbers
    <3>2. QED
      BY <1>2, <1>5, <3>1 DEF DInv, GenerationOrder
  <2>2. ASSUME NEW g \in Generations, NEW h \in Generations, g < h
        PROVE  /\ \A j \in 1 .. Len(lis'[h].queue) :
                    /\ lis'[g].current < lis'[h].queue[j]
                    /\ \A i \in 1 .. Len(lis'[g].queue) : lis'[g].queue[i] < lis'[h].queue[j]
               /\ lis'[h].current # 0 =>
                    /\ lis'[g].current < lis'[h].current
                    /\ \A i \in 1 .. Len(lis'[g].queue) : lis'[g].queue[i] < lis'[h].current
    <3>0. g \in Nat /\ h \in Nat /\ G \in Nat
      BY <1>0, Numbers
    <3>1. CASE g = G
      <4>1. h > G /\ h # G
        BY <2>2, <3>0, <3>1
      <4>2. lis'[h].queue = <<>> /\ lis'[h].current = 0
        BY <1>5, <4>1 DEF DInv, GenerationOrder
      <4>3. Len(lis'[h].queue) = 0
        BY <4>2
      <4>4. QED
        BY <4>2, <4>3
    <3>2. CASE h = G
      <4>1. g # G /\ lis'[g] = lis[g]
        BY <1>5, <2>2, <3>0, <3>2
      <4>2. /\ \A j \in 1 .. Len(q) : /\ lis[g].current < q[j]
                                      /\ \A i \in 1 .. Len(lis[g].queue) : lis[g].queue[i] < q[j]
            /\ lis[G].current # 0 =>
                 /\ lis[g].current < lis[G].current
                 /\ \A i \in 1 .. Len(lis[g].queue) : lis[g].queue[i] < lis[G].current
        BY <1>0, <2>2, <3>2 DEF DInv, GenerationOrder, q
      <4>3. /\ lis[g].current < e
            /\ \A i \in 1 .. Len(lis[g].queue) : lis[g].queue[i] < e
        <5>1. /\ lis[g].current \in Nat
              /\ \A i \in 1 .. Len(lis[g].queue) : lis[g].queue[i] \in Nat
          BY <1>0, Fields
        <5>2. /\ lis[g].current <= emitted
              /\ \A i \in 1 .. Len(lis[g].queue) : lis[g].queue[i] <= emitted
          BY DEF DInv, QueueOrder
        <5>3. QED
          BY <1>0, <5>1, <5>2
      <4>4. \A j \in 1 .. Len(p) : /\ lis[g].current < p[j]
                                   /\ \A i \in 1 .. Len(lis[g].queue) : lis[g].queue[i] < p[j]
        BY <1>7, <4>2, <4>3
      <4>5. QED
        BY <1>5, <3>2, <4>1, <4>2, <4>4
    <3>3. CASE g # G /\ h # G
      BY <1>5, <2>2, <3>3 DEF DInv, GenerationOrder
    <3>4. QED
      BY <3>1, <3>2, <3>3
  <2>3. QED
    BY <2>1, <2>2 DEF GenerationOrder
<1>12. NoRedelivery'
  <2>1. \A g \in Generations : lis'[g].loop = lis[g].loop /\ lis'[g].current = lis[g].current
    BY <1>5
  <2>2. QED
    BY <1>2, <2>1 DEF DInv, NoRedelivery
<1>13. Quietly'
  <2> SUFFICES ASSUME dropped' = {} PROVE Quietly'
    BY DEF Quietly
  <2>1. ~Full(q) /\ dropped = {}
    BY <1>2
  <2>2. \A g \in Generations : Sent(g)' => lis'[g].queue # <<>> /\ lis'[g].queue[1] = lis'[g].current
    <3> SUFFICES ASSUME NEW g \in Generations, Sent(g)'
                 PROVE  lis'[g].queue # <<>> /\ lis'[g].queue[1] = lis'[g].current
      OBVIOUS
    <3>1. Sent(g)
      BY <1>5 DEF Sent
    <3>2. lis[g].queue # <<>> /\ lis[g].queue[1] = lis[g].current
      BY <2>1, <3>1 DEF DInv, Quietly
    <3>3. CASE g # G
      BY <1>5, <3>2, <3>3
    <3>4. CASE g = G
      <4>1. q # <<>> /\ q[1] = lis[G].current
        BY <3>2, <3>4 DEF q
      <4>2. 1 \in 1 .. Len(q)
        BY <1>3, <4>1
      <4>3. p[1] = q[1] /\ p # <<>>
        BY <1>3, <1>4, <2>1, <4>2
      <4>4. QED
        BY <1>5, <3>4, <4>1, <4>3
    <3>5. QED
      BY <3>3, <3>4
  <2>3. ASSUME listeners' = 0, NEW x \in 1 .. emitted'
        PROVE  x \in acked' \/ \E i \in 1 .. Len(lis'[0].queue) : lis'[0].queue[i] = x
    <3>1. G = 0 /\ lis'[0].queue = p /\ q = lis[0].queue
      BY <1>2, <1>5, <2>3 DEF q
    <3>2. CASE x = e
      <4>1. Len(q) + 1 \in 1 .. Len(p) /\ p[Len(q) + 1] = x
        BY <1>3, <1>4, <2>1, <3>2
      <4>2. QED
        BY <3>1, <4>1
    <3>3. CASE x # e
      <4>1. x \in 1 .. emitted
        BY <1>0, <1>2, <3>3
      <4>2. x \in acked \/ \E i \in 1 .. Len(q) : q[i] = x
        BY <2>1, <3>1, <4>1 DEF DInv, Quietly
      <4>3. \A i \in 1 .. Len(q) : i \in 1 .. Len(p) /\ p[i] = q[i]
        BY <1>3, <1>4, <2>1
      <4>4. QED
        BY <1>2, <3>1, <4>2, <4>3
    <3>4. QED
      BY <3>2, <3>3
  <2>4. QED
    BY <2>2, <2>3 DEF Quietly
<1>14. QED
  BY <1>1, <1>10, <1>11, <1>12, <1>13 DEF DInv

-----------------------------------------------------------------------------
(* Pop: the first event is the oldest of the queue, and newer than what any
   earlier generation has *)
LEMMA PopDelivery ==
    ASSUME DInv, NEW g \in Generations, Pop(g), lis[g].queue # <<>>
    PROVE  DInv' /\ \A h \in Generations : lis'[h].current >= lis[h].current
<1> DEFINE q == lis[g].queue
           e == lis[g].queue[1]
<1>0. TypeInv /\ TypeOK
  BY DEF DInv, TypeInv
<1>1. /\ TypeInv' /\ e \in Events /\ 1 \in 1 .. Len(q)
      /\ lis' = [lis EXCEPT ![g].loop = "write", ![g].current = e]
      /\ UNCHANGED <<listeners, emitted, acked, dropped>>
  BY <1>0, PopType DEF Pop
<1>2. /\ \A h \in Generations : h # g => lis'[h] = lis[h]
      /\ lis'[g].queue = q /\ lis'[g].loop = "write" /\ lis'[g].current = e
  BY <1>0, <1>1, PopTo
<1>3. e \in Nat /\ e >= 1 /\ lis[g].current \in Nat /\ lis[g].current <= e
      /\ e <= emitted /\ e \notin acked
  BY <1>0, <1>1, Fields, Numbers DEF DInv, QueueOrder
<1>4. \A i \in 1 .. Len(q) : e <= q[i] /\ q[i] \in Nat
  <2> TAKE i \in 1 .. Len(q)
  <2>1. q[i] \in Nat /\ Len(q) \in Nat
    BY <1>0, Fields
  <2>2. 1 < i => q[1] < q[i]
    BY <1>1 DEF DInv, QueueOrder
  <2>3. QED
    BY <1>3, <2>1, <2>2
<1>5. \A h \in Generations : h # g => (Sent(h)' <=> Sent(h))
  BY <1>2 DEF Sent
<1>6. QueueOrder'
  <2> DEFINE OK(h) ==
         /\ \A i, j \in 1 .. Len(lis'[h].queue) : i < j => lis'[h].queue[i] < lis'[h].queue[j]
         /\ \A i \in 1 .. Len(lis'[h].queue) :
              /\ lis'[h].current <= lis'[h].queue[i] /\ lis'[h].queue[i] <= emitted
              /\ lis'[h].queue[i] \notin acked
         /\ lis'[h].current <= emitted
         /\ Sent(h)' => lis'[h].current # 0
  <2>1. OK(g)
    BY <1>2, <1>3, <1>4 DEF DInv, QueueOrder
  <2>2. ASSUME NEW h \in Generations, h # g PROVE OK(h)
    BY <1>2, <1>5, <2>2 DEF DInv, QueueOrder
  <2>3. \A x \in acked : x <= emitted
    BY DEF DInv, QueueOrder
  <2>4. \A h \in Generations : OK(h)
    BY <2>1, <2>2
  <2>5. QED
    BY <1>1, <2>3, <2>4 DEF QueueOrder
<1>7. GenerationOrder'
  <2>0. listeners \in Nat /\ g \in Nat
    BY <1>0, Numbers DEF TypeOK
  <2>1. ~(g > listeners)
    <3>1. g > listeners => q = <<>>
      BY DEF DInv, GenerationOrder
    <3>2. QED
      BY <3>1
  <2>2. \A h \in Generations : h > listeners' => lis'[h].queue = <<>> /\ lis'[h].current = 0
    BY <1>1, <1>2, <2>1 DEF DInv, GenerationOrder
  <2>3. ASSUME NEW k \in Generations, NEW h \in Generations, k < h
        PROVE  /\ \A j \in 1 .. Len(lis'[h].queue) :
                    /\ lis'[k].current < lis'[h].queue[j]
                    /\ \A i \in 1 .. Len(lis'[k].queue) : lis'[k].queue[i] < lis'[h].queue[j]
               /\ lis'[h].current # 0 =>
                    /\ lis'[k].current < lis'[h].current
                    /\ \A i \in 1 .. Len(lis'[k].queue) : lis'[k].queue[i] < lis'[h].current
    <3>0. k \in Nat /\ h \in Nat /\ k # h
      BY <2>3, Numbers
    <3>a. /\ \A j \in 1 .. Len(lis[h].queue) :
               /\ lis[k].current < lis[h].queue[j]
               /\ \A i \in 1 .. Len(lis[k].queue) : lis[k].queue[i] < lis[h].queue[j]
          /\ lis[h].current # 0 =>
               /\ lis[k].current < lis[h].current
               /\ \A i \in 1 .. Len(lis[k].queue) : lis[k].queue[i] < lis[h].current
      BY <2>3 DEF DInv, GenerationOrder
    <3>1. CASE k = g
      <4>1. /\ lis'[h] = lis[h] /\ lis'[k].queue = lis[k].queue
            /\ lis'[k].current = lis[k].queue[1]
        BY <1>2, <3>0, <3>1
      <4>2. 1 \in 1 .. Len(lis[k].queue)
        BY <1>1, <3>1
      <4>3. QED
        BY <3>a, <4>1, <4>2
    <3>2. CASE h = g
      <4>1. /\ lis'[k] = lis[k] /\ lis'[h].queue = lis[h].queue
            /\ lis'[h].current = lis[h].queue[1]
        BY <1>2, <3>0, <3>2
      <4>2. 1 \in 1 .. Len(lis[h].queue)
        BY <1>1, <3>2
      <4>3. QED
        BY <3>a, <4>1, <4>2
    <3>3. CASE k # g /\ h # g
      BY <1>2, <2>3, <3>3 DEF DInv, GenerationOrder
    <3>4. QED
      BY <3>1, <3>2, <3>3
  <2>4. QED
    BY <2>2, <2>3 DEF GenerationOrder
<1>8. NoRedelivery'
  <2>1. \A h \in Generations : lis[h].loop \in {"write", "result"} => lis[h].current \notin acked
    BY DEF DInv, NoRedelivery
  <2>2. \A h \in Generations : lis'[h].loop \in {"write", "result"} => lis'[h].current \notin acked
    BY <1>2, <1>3, <2>1
  <2>3. QED
    BY <1>1, <2>2 DEF NoRedelivery
<1>9. Quietly'
  <2> SUFFICES ASSUME dropped' = {} PROVE Quietly'
    BY DEF Quietly
  <2>0. dropped = {} /\ 0 \in Generations
    BY <1>1, Numbers
  <2>1. \A h \in Generations : Sent(h)' => lis'[h].queue # <<>> /\ lis'[h].queue[1] = lis'[h].current
    <3>1. \A h \in Generations : Sent(h) => lis[h].queue # <<>> /\ lis[h].queue[1] = lis[h].current
      BY <2>0 DEF DInv, Quietly
    <3> TAKE h \in Generations
    <3>2. CASE h = g
      <4>1. lis'[h].queue = lis[h].queue /\ lis'[h].current = lis[h].queue[1]
        BY <1>2, <3>2
      <4>2. QED
        BY <3>2, <4>1
    <3>3. CASE h # g
      <4>1. lis'[h] = lis[h] /\ (Sent(h)' <=> Sent(h))
        BY <1>2, <1>5, <3>3
      <4>2. QED
        BY <3>1, <4>1
    <3>4. QED
      BY <3>2, <3>3
  <2>2. lis'[0].queue = lis[0].queue
    BY <1>2, <2>0
  <2>3. listeners' = 0 =>
          \A d \in 1 .. emitted' :
             d \in acked' \/ \E i \in 1 .. Len(lis'[0].queue) : lis'[0].queue[i] = d
    <3>1. listeners = 0 =>
            \A d \in 1 .. emitted :
               d \in acked \/ \E i \in 1 .. Len(lis[0].queue) : lis[0].queue[i] = d
      BY <2>0 DEF DInv, Quietly
    <3>2. UNCHANGED <<listeners, emitted, acked>>
      BY <1>1
    <3>3. QED
      BY <2>2, <3>1, <3>2
  <2>4. QED
    BY <2>1, <2>3 DEF Quietly
<1>10. \A h \in Generations : lis'[h].current >= lis[h].current
  <2>1. \A h \in Generations : lis[h].current \in Nat
    BY <1>0, Fields
  <2>2. QED
    BY <1>2, <1>3, <2>1
<1>11. QED
  BY <1>1, <1>6, <1>7, <1>8, <1>9, <1>10 DEF DInv

(* OK: what is removed was sent before or with the event that is acknowledged,
   so that the event is in no queue any more *)
LEMMA AckDelivery ==
    ASSUME DInv, NEW g \in Generations, Acked(g)
    PROVE  DInv' /\ \A h \in Generations : lis'[h].current = lis[h].current
<1> DEFINE q == lis[g].queue
           c == lis[g].current
           p == RemoveFirst(q)
<1>0. TypeInv /\ TypeOK
  BY DEF DInv, TypeInv
<1>1. Sent(g) /\ lis[g].loop = "result"
  BY DEF Acked, ReadResult, Sent
<1>2. c # 0 /\ c \in Nat /\ c <= emitted /\ emitted \in Nat
  <2>a. c \in Nat
    BY <1>0, Fields
  <2>b. emitted \in Nat
    BY <1>0, EventNat DEF TypeOK
  <2>1. c \in Nat /\ emitted \in Nat
    BY <2>a, <2>b
  <2>2. c # 0 /\ c <= emitted
    BY <1>1 DEF DInv, QueueOrder
  <2>3. QED
    BY <2>1, <2>2
<1>3. TypeInv'
  BY <1>0, <1>2, AckType
<1>4. /\ lis' = [lis EXCEPT ![g].queue = p, ![g].loop = "ready"]
      /\ acked' = acked \cup {c} /\ UNCHANGED <<listeners, emitted, dropped>>
  BY DEF Acked, ReadResult
<1>5. q \in Seq(Events) /\ Len(q) \in Nat
  BY <1>0, Fields
<1>6. /\ p \in Seq(Events) /\ Len(p) \in Nat
      /\ \A i \in 1 .. Len(p) : i + 1 \in 1 .. Len(q) /\ p[i] = q[i + 1] /\ 1 \in 1 .. Len(q)
      /\ q # <<>> => \A i \in 2 .. Len(q) : i - 1 \in 1 .. Len(p) /\ p[i - 1] = q[i]
  <2>1. CASE q = <<>>
    <3>1. p = <<>>
      BY <2>1 DEF RemoveFirst
    <3>2. Len(<<>>) = 0 /\ <<>> \in Seq(Events)
      OBVIOUS
    <3> HIDE DEF p, q
    <3>3. QED
      BY <2>1, <3>1, <3>2
  <2>2. CASE q # <<>>
    <3>1. /\ p \in Seq(Events) /\ Len(p) = Len(q) - 1
          /\ \A i \in 1 .. Len(q) - 1 : p[i] = q[i + 1]
      BY <1>5, <2>2, RemovedQueue
    <3>2. Len(q) >= 1
      BY <1>5, <2>2
    <3> HIDE DEF p, q
    <3>3. QED
      BY <1>5, <3>1, <3>2
  <2>3. QED
    BY <2>1, <2>2
<1> HIDE DEF p
<1>7. /\ \A h \in Generations : h # g => lis'[h] = lis[h]
      /\ lis'[g].queue = p /\ lis'[g].loop = "ready" /\ lis'[g].current = c
  BY <1>0, <1>4, <1>6, AnswerTo
<1>8. /\ \A i, j \in 1 .. Len(q) : i < j => q[i] < q[j]
      /\ \A i \in 1 .. Len(q) : c <= q[i] /\ q[i] <= emitted /\ q[i] \notin acked /\ q[i] \in Nat
  BY <1>0, Fields DEF DInv, QueueOrder
<1> HIDE DEF q, c
<1>9. \A i \in 1 .. Len(p) : p[i] \in Nat /\ c < p[i]
  <2> TAKE i \in 1 .. Len(p)
  <2>1. i + 1 \in 1 .. Len(q) /\ p[i] = q[i + 1] /\ 1 \in 1 .. Len(q) /\ 1 < i + 1
    BY <1>6
  <2>2. q[1] < q[i + 1] /\ c <= q[1] /\ q[1] \in Nat /\ q[i + 1] \in Nat
    BY <1>8, <2>1
  <2>3. QED
    BY <1>2, <2>1, <2>2
(* The event that is acknowledged is in no other generation. *)
<1>10. ASSUME NEW h \in Generations, h # g
       PROVE  /\ \A i \in 1 .. Len(lis[h].queue) : lis[h].queue[i] # c
              /\ lis[h].current # 0 => lis[h].current # c
  <2>0. g \in Nat /\ h \in Nat
    BY Numbers
  <2>1. CASE g < h
    <3>1. /\ \A j \in 1 .. Len(lis[h].queue) : c < lis[h].queue[j]
          /\ lis[h].current # 0 => c < lis[h].current
      BY <2>1 DEF DInv, GenerationOrder, c
    <3>2. /\ \A i \in 1 .. Len(lis[h].queue) : lis[h].queue[i] \in Nat
          /\ lis[h].current \in Nat
      BY <1>0, Fields
    <3>3. QED
      BY <1>2, <3>1, <3>2
  <2>2. CASE h < g
    <3>1. /\ lis[h].current < c
          /\ \A i \in 1 .. Len(lis[h].queue) : lis[h].queue[i] < c
      BY <1>2, <2>2 DEF DInv, GenerationOrder, c
    <3>2. /\ \A i \in 1 .. Len(lis[h].queue) : lis[h].queue[i] \in Nat
          /\ lis[h].current \in Nat
      BY <1>0, Fields
    <3>3. QED
      BY <1>2, <3>1, <3>2
  <2>3. QED
    BY <1>10, <2>0, <2>1, <2>2
<1>11. \A h \in Generations : h # g => (Sent(h)' <=> Sent(h))
  BY <1>7 DEF Sent
<1>12. QueueOrder'
  <2> DEFINE OK(h) ==
         /\ \A i, j \in 1 .. Len(lis'[h].queue) : i < j => lis'[h].queue[i] < lis'[h].queue[j]
         /\ \A i \in 1 .. Len(lis'[h].queue) :
              /\ lis'[h].current <= lis'[h].queue[i] /\ lis'[h].queue[i] <= emitted
              /\ lis'[h].queue[i] \notin acked'
         /\ lis'[h].current <= emitted
         /\ Sent(h)' => lis'[h].current # 0
  <2>1. OK(g)
    <3>1. \A i, j \in 1 .. Len(p) : i < j => p[i] < p[j]
      BY <1>6, <1>8
    <3>2. \A i \in 1 .. Len(p) : c <= p[i] /\ p[i] <= emitted /\ p[i] \notin acked'
      <4> TAKE i \in 1 .. Len(p)
      <4>1. i + 1 \in 1 .. Len(q) /\ p[i] = q[i + 1]
        BY <1>6
      <4>2. p[i] <= emitted /\ p[i] \notin acked
        BY <1>8, <4>1
      <4>3. p[i] \in Nat /\ c < p[i]
        BY <1>9
      <4>4. QED
        BY <1>2, <1>4, <4>2, <4>3
    <3>3. QED
      BY <1>2, <1>7, <3>1, <3>2
  <2>2. ASSUME NEW h \in Generations, h # g PROVE OK(h)
    <3>1. lis'[h] = lis[h] /\ (Sent(h)' => Sent(h))
      BY <1>7, <1>11, <2>2
    <3>2. /\ \A i, j \in 1 .. Len(lis[h].queue) : i < j => lis[h].queue[i] < lis[h].queue[j]
          /\ \A i \in 1 .. Len(lis[h].queue) :
               /\ lis[h].current <= lis[h].queue[i] /\ lis[h].queue[i] <= emitted
               /\ lis[h].queue[i] \notin acked
          /\ lis[h].current <= emitted
          /\ Sent(h) => lis[h].current # 0
      BY DEF DInv, QueueOrder
    <3>3. \A i \in 1 .. Len(lis[h].queue) : lis[h].queue[i] \notin acked'
      BY <1>4, <1>10, <2>2, <3>2
    <3>4. QED
      BY <3>1, <3>2, <3>3
  <2>3. \A x \in acked' : x <= emitted
    BY <1>2, <1>4 DEF DInv, QueueOrder
  <2>4. \A h \in Generations : OK(h)
    BY <2>1, <2>2
  <2>5. QED
    BY <1>4, <2>3, <2>4 DEF QueueOrder
<1>13. GenerationOrder'
  <2>0. listeners \in Nat /\ g \in Nat
    BY <1>0, Numbers DEF TypeOK
  <2>1. ~(g > listeners)
    BY <1>2 DEF DInv, GenerationOrder, c
  <2>2. \A h \in Generations : h > listeners' => lis'[h].queue = <<>> /\ lis'[h].current = 0
    BY <1>4, <1>7, <2>1 DEF DInv, GenerationOrder
  <2>3. ASSUME NEW k \in Generations, NEW h \in Generations, k < h
        PROVE  /\ \A j \in 1 .. Len(lis'[h].queue) :
                    /\ lis'[k].current < lis'[h].queue[j]
                    /\ \A i \in 1 .. Len(lis'[k].queue) : lis'[k].queue[i] < lis'[h].queue[j]
               /\ lis'[h].current # 0 =>
                    /\ lis'[k].current < lis'[h].current
                    /\ \A i \in 1 .. Len(lis'[k].queue) : lis'[k].queue[i] < lis'[h].current
    <3>0. k # h
      BY <2>3, Numbers
    <3>a. /\ \A j \in 1 .. Len(lis[h].queue) :
               /\ lis[k].current < lis[h].queue[j]
               /\ \A i \in 1 .. Len(lis[k].queue) : lis[k].queue[i] < lis[h].queue[j]
          /\ lis[h].current # 0 =>
               /\ lis[k].current < lis[h].current
               /\ \A i \in 1 .. Len(lis[k].queue) : lis[k].queue[i] < lis[h].current
      BY <2>3 DEF DInv, GenerationOrder
    <3>b. \A n \in Generations :
             /\ lis'[n].current = lis[n].current
             /\ \A i \in 1 .. Len(lis'[n].queue) :
                  \E m \in 1 .. Len(lis[n].queue) : lis'[n].queue[i] = lis[n].queue[m]
      <4> TAKE n \in Generations
      <4>1. CASE n = g
        BY <1>6, <1>7, <4>1 DEF q, c
      <4>2. CASE n # g
        BY <1>7, <4>2
      <4>3. QED
        BY <4>1, <4>2
    <3>1. QED
      BY <3>a, <3>b
  <2>4. QED
    BY <2>2, <2>3 DEF GenerationOrder
<1>14. NoRedelivery'
  <2> SUFFICES ASSUME NEW h \in Generations, lis'[h].loop \in {"write", "result"}
               PROVE  lis'[h].current \notin acked'
    BY DEF NoRedelivery
  <2>1. h # g /\ lis'[h] = lis[h]
    BY <1>7
  <2>2. lis[h].current # 0 /\ lis[h].current \notin acked
    BY <2>1 DEF DInv, NoRedelivery, QueueOrder, Sent
  <2>3. QED
    BY <1>4, <1>10, <2>1, <2>2
<1>15. Quietly'
  <2> SUFFICES ASSUME dropped' = {} PROVE Quietly'
    BY DEF Quietly
  <2>0. dropped = {} /\ 0 \in Generations
    BY <1>4, Numbers
  <2>1. \A h \in Generations : Sent(h)' => lis'[h].queue # <<>> /\ lis'[h].queue[1] = lis'[h].current
    <3>1. ~Sent(g)'
      BY <1>7 DEF Sent
    <3>2. QED
      BY <1>7, <1>11, <2>0, <3>1 DEF DInv, Quietly
  <2>2. q # <<>> /\ q[1] = c
    BY <1>1, <2>0 DEF DInv, Quietly, q, c
  <2>3. ASSUME listeners = 0, NEW x \in 1 .. emitted
        PROVE  x \in acked' \/ \E i \in 1 .. Len(lis'[0].queue) : lis'[0].queue[i] = x
    <3>1. x \in acked \/ \E i \in 1 .. Len(lis[0].queue) : lis[0].queue[i] = x
      BY <2>0, <2>3 DEF DInv, Quietly
    <3>2. CASE g # 0
      <4>1. lis'[0] = lis[0]
        BY <1>7, <2>0, <3>2
      <4>2. QED
        BY <1>4, <3>1, <4>1
    <3>3. CASE g = 0
      <4>1. ASSUME NEW i \in 1 .. Len(q), q[i] = x
            PROVE  x = c \/ \E j \in 1 .. Len(p) : p[j] = x
        <5>1. CASE i = 1
          BY <2>2, <4>1, <5>1
        <5>2. CASE i # 1
          <6>1. i \in 2 .. Len(q)
            BY <1>5, <5>2 DEF q
          <6>2. i - 1 \in 1 .. Len(p) /\ p[i - 1] = q[i]
            BY <1>6, <2>2, <6>1
          <6>3. QED
            BY <4>1, <6>2
        <5>3. QED
          BY <5>1, <5>2
      <4>2. lis[0].queue = q /\ lis'[0].queue = p
        BY <1>7, <3>3 DEF q
      <4>3. QED
        BY <1>4, <3>1, <4>1, <4>2
    <3>4. QED
      BY <3>2, <3>3
  <2>4. QED
    BY <1>4, <2>1, <2>3 DEF Quietly
<1>16. \A h \in Generations : lis'[h].current = lis[h].current
  BY <1>7 DEF c
<1>17. QED
  BY <1>3, <1>12, <1>13, <1>14, <1>15, <1>16 DEF DInv

LEMMA NextDelivery == DInv /\ [Next]_vars => DInv'
<1> SUFFICES ASSUME DInv, [Next]_vars PROVE DInv'
  OBVIOUS
<1>1. CASE Next
  BY <1>1, StepKinds, MoveDelivery, EmitDelivery, PopDelivery, AckDelivery
<1>2. CASE UNCHANGED vars
  <2>1. TypeInv'
    BY <1>2 DEF DInv, TypeInv, TypeOK, SwapRoom, vars
  <2>2. QED
    BY <1>2, <2>1, DeliveryFrame DEF vars, SameQueues, Sent
<1>3. QED
  BY <1>1, <1>2

LEMMA DeliveryAlways == Spec => []DInv
  BY InitDelivery, NextDelivery, PTL DEF Spec

(* The types of the listeners, for every buffer size; the queue never holds more
   events than newEventQueue was given room for. *)
THEOREM ListenerTypeCorrect == Spec => []TypeOK
<1>1. DInv => TypeOK
  BY DEF DInv, TypeInv
<1>2. QED
  BY <1>1, DeliveryAlways, PTL

(* An event that was answered with OK is never written to a child again, not
   even by the listener of a later reload. *)
THEOREM NeverRedelivered == Spec => []NoRedelivery
<1>1. DInv => NoRedelivery
  BY DEF DInv
<1>2. QED
  BY <1>1, DeliveryAlways, PTL

(* protocolLoop sends the events of a queue in the order they were emitted,
   whatever was retried, dropped by an overflow or reloaded in between. *)
THEOREM DeliveryInOrder == Spec => DeliveredInOrder
<1>1. DInv /\ [Next]_vars => [\A g \in Generations : lis'[g].current >= lis[g].current]_vars
  <2> SUFFICES ASSUME DInv, Next
               PROVE  \A g \in Generations : lis'[g].current >= lis[g].current
    OBVIOUS
  <2>0. TypeInv /\ TypeOK /\ listeners \in Generations
    BY DEF DInv, TypeInv, TypeOK
  <2>a. \A g \in Generations : lis[g].current \in Nat
    BY <2>0, Fields
  <2>1. SameQueues => \A g \in Generations : lis'[g].current >= lis[g].current
    BY <2>a DEF SameQueues
  <2>2. CASE ManagerStart \/ ReloadStart
    <3>1. PICK t \in Gs : /\ StartListener(listeners) /\ Goto(t, "run")
                          /\ UNCHANGED <<listeners, emitted, acked, dropped>>
      BY <2>2 DEF ManagerStart, ReloadStart, Gs
    <3>2. QED
      BY <2>0, <2>1, <3>1, StartType
  <2>3. CASE ManagerStop \/ ReloadBegin \/ Terminate \/ ReloadSwap
    BY <2>0, <2>1, <2>3, ManagerType
  <2>4. CASE EmitEvent
    <3>1. /\ emitted + 1 \in Events
          /\ lis' = [lis EXCEPT ![listeners].queue = Pushed(lis[listeners].queue, emitted + 1)]
      BY <2>0, <2>4, EmitType
    <3>2. Pushed(lis[listeners].queue, emitted + 1) \in Seq(Events)
      BY <2>0, <3>1, Fields, PushedQueue
    <3>3. \A g \in Generations : lis'[g].current = lis[g].current
      BY <2>0, <3>1, <3>2, QueueTo
    <3>4. QED
      BY <2>a, <3>3
  <2>5. ASSUME NEW t \in Gs, StopStep(t)
        PROVE  \A g \in Generations : lis'[g].current >= lis[g].current
    BY <2>0, <2>1, <2>5, StopType
  <2>6. ASSUME NEW g \in Generations, Moves(g)
        PROVE  \A h \in Generations : lis'[h].current >= lis[h].current
    BY <2>0, <2>1, <2>6, MoveType
  <2>7. ASSUME NEW g \in Generations, Acked(g)
        PROVE  \A h \in Generations : lis'[h].current >= lis[h].current
    BY <2>a, <2>7, AckDelivery
  <2>8. QED
    BY <2>2, <2>3, <2>4, <2>5, <2>6, <2>7, StepKinds, PopDelivery
<1>2. QED
  BY <1>1, DeliveryAlways, PTL DEF Spec, DeliveredInOrder

(* Until a reload or an overflow no event is lost: it waits in the queue or was
   answered with OK. *)
THEOREM NothingLostQuietly == Spec => []NoneLostQuietly
<1>1. DInv => NoneLostQuietly
  <2> SUFFICES ASSUME DInv, dropped = {}, listeners = 0, NEW e \in 1 .. emitted
               PROVE  \/ e \in acked \cup dropped
                      \/ \E i \in DOMAIN lis[listeners].queue : lis[listeners].queue[i] = e
    BY DEF NoneLostQuietly, NoneLost
  <2>1. e \in acked \/ \E i \in 1 .. Len(lis[0].queue) : lis[0].queue[i] = e
    BY DEF DInv, Quietly
  <2>2. lis[0].queue \in Seq(Events)
    BY Fields, Numbers DEF DInv, TypeInv
  <2>3. \A q \in Seq(Events) : DOMAIN q = 1 .. Len(q)
    OBVIOUS
  <2>4. QED
    BY <2>1, <2>2, <2>3
<1>2. QED
  BY <1>1, DeliveryAlways, PTL

-----------------------------------------------------------------------------
(* The children *)

CInv == TypeInv /\ WhoStops /\ StateTells

LEMMA InitChild == Init => CInv
<1> SUFFICES ASSUME Init PROVE CInv
  OBVIOUS
<1>1. TypeInv
  BY InitType
<1>2. /\ \A g \in Generations : New(g)
      /\ thr["main"].pc = "boot" /\ thr["signals"].pc = "run" /\ listeners = 0
      /\ 0 \in Generations
  BY Numbers DEF Init, New, NewListener
<1>3. "boot" \notin StopPC /\ "run" \notin StopPC
  BY DEF StopPC
<1>4. WhoStops
  BY <1>2, <1>3 DEF WhoStops, Swapped, New
<1>5. StateTells
  BY <1>2, <1>3 DEF StateTells, New, Stopping, Gs
<1>6. QED
  BY <1>1, <1>4, <1>5 DEF CInv

(* Facts about the goroutines and the generations that every case needs *)
LEMMA Bearings ==
    ASSUME CInv
    PROVE  /\ TypeInv /\ TypeOK /\ WhoStops /\ StateTells
           /\ listeners \in Generations /\ listeners \in Nat
           /\ \A t \in Gs : thr[t].gen \in Generations /\ thr[t].pc \in PCs
           /\ \A g \in Generations : /\ g \in Nat
                                     /\ lis[g].state \in {"", "RUNNING", "STOPPING", "STOPPED"}
                                     /\ child[g] \in Children
           /\ "main" \in Gs /\ "signals" \in Gs /\ "main" # "signals"
           /\ \A t \in Gs : t = "main" \/ t = "signals"
<1>1. TypeInv /\ TypeOK /\ WhoStops /\ StateTells
  BY DEF CInv, TypeInv
<1>2. listeners \in Generations /\ listeners \in Nat /\ \A g \in Generations : g \in Nat
  BY <1>1, Numbers DEF TypeOK
<1>3. \A t \in Gs : thr[t].gen \in Generations /\ thr[t].pc \in PCs
  BY <1>1 DEF TypeOK, Gs, PCs
<1>4. \A g \in Generations : /\ lis[g].state \in {"", "RUNNING", "STOPPING", "STOPPED"}
                             /\ child[g] \in Children
  BY <1>1, Fields DEF TypeOK, Children
<1>5. QED
  BY <1>1, <1>2, <1>3, <1>4 DEF Gs

(* A step that is neither of main's nor of handleSignals': it moves a protocol
   loop that runs or ends a child that runs. *)
LEMMA ChildFrame ==
    ASSUME CInv, TypeInv', UNCHANGED <<thr, listeners>>,
           \A g \in Generations : /\ lis'[g].state = lis[g].state
                                  /\ New(g) => New(g)'
                                  /\ Ended(g) => Ended(g)'
                                  /\ child[g] = "reaped" => child'[g] = "reaped"
    PROVE  CInv'
<1>0. listeners \in Generations /\ \A t \in Gs : thr[t].gen \in Generations
  BY Bearings
<1>1. WhoStops'
  BY <1>0, Numbers DEF CInv, WhoStops, Swapped, Stopping, Gs
<1>2. StateTells'
  BY <1>0 DEF CInv, StateTells, Stopping, Gs
<1>3. QED
  BY <1>1, <1>2 DEF CInv

LEMMA LoopChild ==
    ASSUME CInv, TypeInv',
           \/ EmitEvent \/ UNCHANGED vars
           \/ \E g \in Generations : LoopStep(g) \/ ChildExit(g)
    PROVE  CInv'
<1>0. TypeInv /\ TypeOK /\ listeners \in Generations
  BY Bearings
<1>1. CASE EmitEvent
  <2>1. /\ emitted + 1 \in Events
        /\ lis' = [lis EXCEPT ![listeners].queue = Pushed(lis[listeners].queue, emitted + 1)]
    BY <1>0, <1>1, EmitType
  <2>2. Pushed(lis[listeners].queue, emitted + 1) \in Seq(Events)
    BY <1>0, <2>1, Fields, PushedQueue
  <2>3. \A g \in Generations : lis'[g].state = lis[g].state /\ lis'[g].loop = lis[g].loop
    BY <1>0, <2>1, <2>2, QueueTo
  <2>4. UNCHANGED <<child, thr, listeners>>
    BY <1>1 DEF EmitEvent
  <2>5. QED
    BY <2>3, <2>4, ChildFrame DEF New, Ended, Running
<1>2. CASE UNCHANGED vars
  BY <1>2, ChildFrame DEF vars, New, Ended, Running
<1>3. ASSUME NEW g \in Generations, LoopStep(g) PROVE CInv'
  <2>1. /\ lis[g].loop \notin {"none", "end"} /\ UNCHANGED <<child, thr, listeners>>
    BY <1>3 DEF LoopStep, ReadReady, Pop, WriteEvent, ReadResult, ReadFails
  <2>2. /\ \A h \in Generations : h # g => lis'[h] = lis[h]
        /\ lis'[g].state = lis[g].state
    <3>1. CASE \E l \in Loops : LoopGoto(g, l)
      BY <1>0, <3>1, LoopTo
    <3>2. CASE Pop(g) /\ lis[g].queue # <<>>
      <4>1. /\ lis[g].queue[1] \in Events
            /\ lis' = [lis EXCEPT ![g].loop = "write", ![g].current = lis[g].queue[1]]
        BY <1>0, <3>2, PopType
      <4>2. QED
        BY <1>0, <4>1, PopTo
    <3>3. CASE lis' = [lis EXCEPT ![g].queue = RemoveFirst(lis[g].queue), ![g].loop = "ready"]
      <4>1. RemoveFirst(lis[g].queue) \in Seq(Events)
        BY <1>0, Fields, RemovedQueue
      <4>2. QED
        BY <1>0, <3>3, <4>1, AnswerTo
    <3>4. QED
      BY <1>3, <3>1, <3>2, <3>3
         DEF LoopStep, ReadReady, Pop, WriteEvent, ReadResult, ReadFails, Loops
  <2>3. \A h \in Generations : /\ lis'[h].state = lis[h].state
                               /\ New(h) => New(h)'
                               /\ Ended(h) => Ended(h)'
    BY <2>1, <2>2 DEF New, Ended, Running
  <2>4. QED
    BY <2>1, <2>3, ChildFrame
<1>4. ASSUME NEW g \in Generations, ChildExit(g) PROVE CInv'
  <2>1. Running(g) /\ child' = [child EXCEPT ![g] = "dead"] /\ UNCHANGED <<lis, thr, listeners>>
    BY <1>4 DEF ChildExit
  <2>2. \A h \in Generations : child'[h] = IF h = g THEN "dead" ELSE child[h]
    BY <1>0, <2>1 DEF TypeOK
  <2>3. \A h \in Generations : /\ lis'[h].state = lis[h].state
                               /\ New(h) => New(h)'
                               /\ Ended(h) => Ended(h)'
                               /\ child[h] = "reaped" => child'[h] = "reaped"
    BY <2>1, <2>2 DEF New, Ended, Running
  <2>4. QED
    BY <2>1, <2>3, ChildFrame
<1>5. QED
  BY <1>1, <1>2, <1>3, <1>4

(* start(), by main or at the end of a reload: the listener is new *)
LEMMA StartChild ==
    ASSUME CInv, TypeInv', ManagerStart \/ ReloadStart PROVE CInv'
<1>0. /\ TypeOK /\ WhoStops /\ StateTells /\ listeners \in Generations /\ listeners \in Nat
      /\ \A g \in Generations : g \in Nat
      /\ \A t \in Gs : thr[t].gen \in Generations
  BY Bearings
<1>1. StartListener(listeners) /\ UNCHANGED listeners
  BY DEF ManagerStart, ReloadStart
<1>2. New(listeners) /\ ~Stopping("main") /\ ~Stopping("signals")
  <2>1. CASE ManagerStart
    <3>1. thr["main"].pc = "boot" /\ thr["signals"].pc \in {"run", "exited"} /\ New(listeners)
      BY <1>0, <2>1 DEF ManagerStart, At, WhoStops
    <3>2. QED
      BY <3>1 DEF Stopping, StopPC
  <2>2. CASE ReloadStart
    <3>1. thr["signals"].pc = "start" /\ New(listeners)
      BY <1>0, <2>2 DEF ReloadStart, At, WhoStops, Swapped
    <3>2. ~Stopping("signals")
      BY <3>1 DEF Stopping, StopPC
    <3>3. ~Stopping("main")
      <4>1. Stopping("main") => thr["main"].gen = listeners /\ lis[listeners].state = "STOPPING"
        BY <1>0 DEF WhoStops, StateTells, Stopping, Gs
      <4>2. QED
        BY <3>1, <4>1 DEF New
    <3>4. QED
      BY <3>1, <3>2, <3>3
  <2>3. QED
    BY <2>1, <2>2
<1>3. /\ \A h \in Generations : h # listeners => lis'[h] = lis[h] /\ child'[h] = child[h]
      /\ \/ lis'[listeners].state = "" /\ lis'[listeners].loop = "none" /\ child'[listeners] = "none"
         \/ lis'[listeners].state = "RUNNING"
         \/ lis'[listeners].state = "STOPPED" /\ lis'[listeners].loop = "none" /\ child'[listeners] = "none"
  BY <1>0, <1>1, <1>2, StartTo DEF New
<1>4. PICK t \in Gs : Goto(t, "run") /\ thr[t].pc \in {"boot", "start"} /\ (t = "main" => thr["main"].pc = "boot")
                      /\ (t = "signals" => thr["signals"].pc = "start")
  BY DEF ManagerStart, ReloadStart, At, Gs
<1>5. /\ thr'[t].pc = "run" /\ \A u \in Gs : u # t => thr'[u] = thr[u]
      /\ \A u \in Gs : thr'[u].gen = thr[u].gen
  BY <1>0, <1>4, ThrTo DEF PCs
<1>6. \A h \in Generations : h # listeners =>
          (New(h)' <=> New(h)) /\ (Ended(h)' <=> Ended(h)) /\ lis'[h].state = lis[h].state
  BY <1>3 DEF New, Ended, Running
<1>7. ~Stopping("main")' /\ ~Stopping("signals")' /\ "run" \notin StopPC
  BY <1>2, <1>5 DEF Stopping, Gs, StopPC
<1>8. thr'["signals"].pc \notin StopPC \cup {"start"}
  <2>1. CASE t = "signals"
    BY <1>5, <1>7, <2>1
  <2>2. CASE t = "main"
    <3>1. thr["signals"].pc \in {"run", "exited"} /\ thr'["signals"] = thr["signals"]
      BY <1>0, <1>4, <1>5, <2>2 DEF WhoStops, Gs
    <3>2. QED
      BY <3>1 DEF StopPC
  <2>3. QED
    BY <2>1, <2>2 DEF Gs
<1>9. WhoStops'
  <2>1. thr'["main"].pc \in StopPC => thr'["main"].gen = listeners'
    BY <1>0, <1>1, <1>5, <1>7 DEF WhoStops, Gs
  <2>2. ~Swapped' /\ thr'["signals"].pc # "stopEnter"
    BY <1>8 DEF Swapped, StopPC
  <2>3. thr'["main"].pc # "boot"
    BY <1>0, <1>4, <1>5 DEF WhoStops, Gs
  <2>4. lis'[listeners'].state # "STOPPING"
    BY <1>1, <1>3
  <2>5. ~(~EarlyExit /\ thr'["main"].pc \in StopPC \cup {"exited"})
    BY <1>0, <1>4, <1>5, <1>7 DEF WhoStops, Gs
  <2>6. QED
    BY <2>1, <2>2, <2>3, <2>4, <2>5 DEF WhoStops
<1>10. StateTells'
  <2>1. ASSUME NEW g \in Generations
        PROVE  /\ g > listeners' => New(g)'
               /\ lis'[g].state = "" => New(g)'
               /\ lis'[g].state = "STOPPED" => Ended(g)'
               /\ g < listeners' => lis'[g].state \in {"", "STOPPED"}
    <3>1. CASE g = listeners
      <4>1. ~(g > listeners') /\ ~(g < listeners')
        BY <1>0, <1>1, <3>1
      <4>2. lis'[g].state \in {"", "STOPPED"} => lis'[g].loop = "none" /\ child'[g] = "none"
        BY <1>3, <3>1
      <4>3. QED
        BY <4>1, <4>2 DEF New, Ended, Running
    <3>2. CASE g # listeners
      <4>1. thr["signals"].pc \notin StopPC
        BY <1>4, <1>5, <1>7, <1>8 DEF Gs, StopPC
      <4>2. QED
        BY <1>0, <1>1, <1>6, <3>2, <4>1 DEF StateTells
    <3>3. QED
      BY <3>1, <3>2
  <2>2. \A u \in Gs : ~Stopping(u)'
    BY <1>7 DEF Gs
  <2>3. QED
    BY <2>1, <2>2 DEF StateTells
<1>11. QED
  BY <1>9, <1>10 DEF CInv

(* main and handleSignals between their calls *)
LEMMA ManagerChild ==
    ASSUME CInv, TypeInv', ManagerStop \/ ReloadBegin \/ Terminate PROVE CInv'
<1>0. /\ TypeOK /\ WhoStops /\ StateTells /\ listeners \in Generations
      /\ \A t \in Gs : thr[t].gen \in Generations
  BY Bearings
<1>1. UNCHANGED <<lis, child, listeners>>
  BY DEF ManagerStop, ReloadBegin, Terminate
<1>2. \A g \in Generations : (New(g)' <=> New(g)) /\ (Ended(g)' <=> Ended(g))
  BY <1>1 DEF New, Ended, Running
<1>3. CASE ManagerStop
  <2>1. /\ thr["main"].pc = "run" /\ (thr["signals"].pc = "exited" \/ EarlyExit)
        /\ thr' = [thr EXCEPT !["main"] = [pc |-> "stopEnter", gen |-> listeners]]
    BY <1>3 DEF ManagerStop, At
  <2>2. /\ thr'["main"].pc = "stopEnter" /\ thr'["main"].gen = listeners
        /\ thr'["signals"] = thr["signals"]
    BY <1>0, <2>1, ThrGenTo DEF Gs
  <2>3. ~Stopping("main") /\ ~Stopping("main")' /\ (Stopping("signals")' <=> Stopping("signals"))
    BY <2>1, <2>2 DEF Stopping, StopPC
  <2>4. WhoStops'
    BY <1>0, <1>1, <1>2, <2>1, <2>2, <2>3, Numbers DEF WhoStops, Swapped, StopPC
  <2>5. StateTells'
    BY <1>0, <1>1, <1>2, <2>2, <2>3 DEF StateTells, Gs
  <2>6. QED
    BY <2>4, <2>5 DEF CInv
<1>4. CASE ReloadBegin \/ Terminate
  <2>1. PICK l \in {"swap", "exited"} : /\ Goto("signals", l)
                                        /\ thr["main"].pc = "boot" => l = "exited"
    BY <1>4 DEF ReloadBegin, Terminate, At
  <2>2. /\ thr'["signals"].pc \in {"swap", "exited"} /\ thr'["main"] = thr["main"]
        /\ thr["main"].pc = "boot" => thr'["signals"].pc = "exited"
        /\ thr'["signals"].gen = thr["signals"].gen
    BY <1>0, <2>1, ThrTo DEF Gs, PCs
  <2>3. thr["signals"].pc = "run"
    BY <1>4 DEF ReloadBegin, Terminate, At
  <2>4. /\ ~Stopping("signals") /\ ~Stopping("signals")' /\ (Stopping("main")' <=> Stopping("main"))
        /\ ~Swapped' /\ thr'["signals"].pc \notin StopPC /\ thr["signals"].pc \notin StopPC
    BY <2>2, <2>3 DEF Stopping, StopPC, Swapped
  <2>5. ~(~EarlyExit /\ thr["main"].pc \in StopPC \cup {"exited"})
    BY <1>0, <2>3 DEF WhoStops
  <2>6. WhoStops'
    BY <1>0, <1>1, <1>2, <2>2, <2>4, <2>5, Numbers DEF WhoStops, StopPC
  <2>7. StateTells'
    BY <1>0, <1>1, <1>2, <2>2, <2>4 DEF StateTells, Gs
  <2>8. QED
    BY <2>6, <2>7 DEF CInv
<1>5. QED
  BY <1>3, <1>4

(* Reload swaps the map: the old listener is about to be stopped, the new one has
   not started *)
LEMMA SwapChild ==
    ASSUME CInv, TypeInv', ReloadSwap PROVE CInv'
<1>0. /\ TypeOK /\ WhoStops /\ StateTells /\ listeners \in Generations /\ listeners \in Nat
      /\ \A g \in Generations : g \in Nat
      /\ \A t \in Gs : thr[t].gen \in Generations
  BY Bearings
<1>1. /\ thr["signals"].pc = "swap" /\ thr["main"].pc \notin StopPC
      /\ listeners' = listeners + 1 /\ UNCHANGED <<lis, child>>
      /\ thr' = [thr EXCEPT !["signals"] = [pc |-> "stopEnter", gen |-> listeners]]
  BY DEF ReloadSwap, At
<1>2. /\ thr'["signals"].pc = "stopEnter" /\ thr'["signals"].gen = listeners
      /\ thr'["main"] = thr["main"]
  BY <1>0, <1>1, ThrGenTo DEF Gs
<1>3. \A g \in Generations : (New(g)' <=> New(g)) /\ (Ended(g)' <=> Ended(g))
  BY <1>1 DEF New, Ended, Running
<1>4. ~Stopping("main") /\ ~Stopping("main")' /\ ~Stopping("signals")'
  BY <1>1, <1>2 DEF Stopping
<1>5. listeners' \in Generations
  BY DEF TypeInv, TypeOK
<1>6. PICK n \in Generations : n = listeners' /\ n > listeners
  BY <1>0, <1>1, <1>5
<1>7. /\ thr["main"].pc # "boot" /\ (thr["main"].pc = "exited" => EarlyExit)
      /\ lis[listeners].state # "STOPPING"
  BY <1>0, <1>1, <1>4 DEF WhoStops
<1>8. New(listeners)' /\ lis'[listeners'].state # "STOPPING"
  <2>1. New(n)
    BY <1>0, <1>6 DEF StateTells
  <2>2. QED
    BY <1>1, <1>6, <2>1 DEF New
<1>9. WhoStops'
  <2>1. thr'["signals"].gen + 1 = listeners' /\ lis'[thr'["signals"].gen].state # "STOPPING"
    BY <1>1, <1>2, <1>7
  <2>2. thr'["main"].pc \notin StopPC /\ thr'["main"].pc # "boot"
        /\ (thr'["main"].pc = "exited" => EarlyExit)
    BY <1>1, <1>2, <1>7
  <2>3. QED
    BY <1>8, <2>1, <2>2 DEF WhoStops
<1>10. StateTells'
  <2>1. ASSUME NEW g \in Generations
        PROVE  /\ g > listeners' => New(g)'
               /\ lis'[g].state = "" => New(g)'
               /\ lis'[g].state = "STOPPED" => Ended(g)'
               /\ g < listeners' /\ ~(thr'["signals"].pc \in StopPC /\ thr'["signals"].gen = g) =>
                    lis'[g].state \in {"", "STOPPED"}
    <3>1. g > listeners' => g > listeners
      BY <1>0, <1>1
    <3>2. "stopEnter" \in StopPC /\ "swap" \notin StopPC
      BY DEF StopPC
    <3>3. g < listeners' /\ g # listeners => g < listeners
      BY <1>0, <1>1
    <3>4. QED
      BY <1>0, <1>1, <1>2, <1>3, <3>1, <3>2, <3>3 DEF StateTells
  <2>2. \A t \in Gs : ~Stopping(t)'
    BY <1>4 DEF Gs
  <2>3. QED
    BY <2>1, <2>2 DEF StateTells
<1>11. QED
  BY <1>9, <1>10 DEF CInv

(* Two goroutines inside stop() are stopping different listeners. *)
LEMMA StopsApart ==
    ASSUME CInv, NEW t \in Gs, NEW u \in Gs, t # u, Stopping(t)
    PROVE  /\ thr[t].gen <= listeners
           /\ Stopping(u) => thr[u].gen # thr[t].gen
           /\ ~New(thr[t].gen)
           /\ t = "main" => ~Swapped /\ thr["main"].pc \in StopPC /\ thr["main"].gen = listeners
           /\ t = "signals" => /\ thr["signals"].gen + 1 = listeners /\ New(listeners)
                               /\ Swapped /\ thr["signals"].pc \in StopPC
                               /\ thr["signals"].gen # listeners
<1>0. /\ WhoStops /\ StateTells /\ listeners \in Nat
      /\ thr["main"].gen \in Nat /\ thr["signals"].gen \in Nat
  BY Bearings
<1>1. \A x \in Gs : Stopping(x) => thr[x].pc \in StopPC /\ lis[thr[x].gen].state = "STOPPING"
  BY <1>0 DEF Stopping, StateTells
<1>2. Stopping("main") => thr["main"].gen = listeners
  BY <1>0, <1>1 DEF WhoStops, Gs
<1>3. Stopping("signals") => /\ thr["signals"].gen + 1 = listeners /\ New(listeners) /\ Swapped
  BY <1>0, <1>1 DEF WhoStops, Gs, Swapped
<1>4. Stopping("main") => ~Swapped
  BY <1>0, <1>1, <1>2 DEF WhoStops, Gs, New
<1>5. ~New(thr[t].gen)
  BY <1>1 DEF New
<1>6. QED
  BY <1>0, <1>1, <1>2, <1>3, <1>4, <1>5 DEF Gs

(* The steps inside stop(): only the child of that listener changes. *)
LEMMA InsideStop ==
    ASSUME CInv, TypeInv', NEW t \in Gs, Stopping(t),
           NEW l \in StopPC \ {"stopEnter"}, Goto(t, l),
           \A g \in Generations : lis'[g].state = lis[g].state /\ lis'[g].loop = lis[g].loop,
           \A g \in Generations : g # thr[t].gen => child'[g] = child[g],
           l \in {"stopClose", "stopAwait"} => child'[thr[t].gen] = "reaped",
           UNCHANGED listeners
    PROVE  CInv'
<1>0. /\ TypeOK /\ WhoStops /\ StateTells /\ listeners \in Generations /\ listeners \in Nat
      /\ \A g \in Generations : g \in Nat
      /\ \A u \in Gs : thr[u].gen \in Generations
      /\ lis[thr[t].gen].state = "STOPPING" /\ thr[t].pc \in StopPC
  BY Bearings DEF StateTells, Stopping
<1>1. /\ thr'[t].pc = l /\ thr'[t].gen = thr[t].gen
      /\ \A u \in Gs : u # t => thr'[u] = thr[u]
  BY <1>0, ThrTo DEF PCs
<1>2. /\ \A u \in Gs : /\ thr'[u].gen = thr[u].gen
                       /\ Stopping(u)' <=> Stopping(u)
                       /\ thr'[u].pc \in StopPC <=> thr[u].pc \in StopPC
                       /\ thr'[u].pc # thr[u].pc =>
                            /\ thr'[u].pc \notin {"start", "boot", "exited", "stopEnter", "run"}
                            /\ thr[u].pc \notin {"start", "boot", "exited", "stopEnter", "run"}
  BY <1>0, <1>1 DEF Stopping, StopPC
<1>3. \A g \in Generations : g # thr[t].gen =>
          /\ New(g)' <=> New(g)
          /\ Ended(g)' <=> Ended(g)
  BY DEF New, Ended, Running
<1>4. thr[t].gen <= listeners /\ (thr[t].gen = listeners => ~Swapped /\ thr["main"].pc # "boot")
  <2>1. thr[t].gen <= listeners /\ (t = "signals" => thr[t].gen # listeners)
        /\ (t = "main" => ~Swapped /\ thr["main"].pc \in StopPC)
    BY StopsApart DEF Gs
  <2>2. QED
    BY <2>1 DEF Gs, StopPC
<1>5. Swapped' <=> Swapped
  BY <1>2 DEF Swapped, Gs
<1>6. WhoStops'
  <2>1. Swapped' => thr'["signals"].gen + 1 = listeners' /\ New(listeners)'
    BY <1>0, <1>2, <1>3, <1>4, <1>5 DEF WhoStops, Gs, New
  <2>2. thr'["main"].pc \in StopPC => thr'["main"].gen = listeners'
    BY <1>0, <1>2 DEF WhoStops, Gs
  <2>3. thr'["main"].pc = "boot" => /\ listeners' = 0 /\ New(0)'
                                    /\ thr'["signals"].pc \in {"run", "exited"}
    <3> SUFFICES ASSUME thr'["main"].pc = "boot"
                 PROVE  listeners' = 0 /\ New(0)' /\ thr'["signals"].pc \in {"run", "exited"}
      OBVIOUS
    <3>1. thr["main"].pc = "boot"
      BY <1>2 DEF Gs
    <3>2. listeners = 0 /\ New(0) /\ thr["signals"].pc \in {"run", "exited"}
      BY <1>0, <3>1 DEF WhoStops
    <3>3. t = "signals" \/ t = "main"
      BY DEF Gs
    <3>4. thr[t].pc \notin StopPC
      BY <3>1, <3>2, <3>3 DEF StopPC
    <3>5. QED
      BY <1>0, <3>4
  <2>4. thr'["signals"].pc = "stopEnter" => lis'[thr'["signals"].gen].state # "STOPPING"
    BY <1>0, <1>2 DEF WhoStops, Gs
  <2>5. lis'[listeners'].state = "STOPPING" => Stopping("main")'
    BY <1>0, <1>2 DEF WhoStops, Gs
  <2>6. ~EarlyExit /\ thr'["main"].pc \in StopPC \cup {"exited"} => thr'["signals"].pc = "exited"
    BY <1>0, <1>2 DEF WhoStops, Gs
  <2>7. ~EarlyExit /\ thr'["main"].pc = "exited" => lis'[listeners'].state \in {"", "STOPPED"}
    BY <1>0, <1>2 DEF WhoStops, Gs
  <2>8. QED
    BY <2>1, <2>2, <2>3, <2>4, <2>5, <2>6, <2>7 DEF WhoStops
<1>7. StateTells'
  <2>1. ASSUME NEW g \in Generations
        PROVE  /\ g > listeners' => New(g)'
               /\ lis'[g].state = "" => New(g)'
               /\ lis'[g].state = "STOPPED" => Ended(g)'
               /\ g < listeners' /\ ~(thr'["signals"].pc \in StopPC /\ thr'["signals"].gen = g) =>
                    lis'[g].state \in {"", "STOPPED"}
    <3>1. CASE g = thr[t].gen
      <4>1. ~(g > listeners') /\ lis'[g].state = "STOPPING" /\ lis[g].state = "STOPPING"
        <5>1. lis[g].state = "STOPPING" /\ lis'[g].state = lis[g].state
          BY <1>0, <3>1
        <5>2. g \in Nat /\ g <= listeners /\ listeners' = listeners /\ listeners \in Nat
          BY <1>0, <1>4, <3>1
        <5>3. QED
          BY <5>1, <5>2
      <4>2. QED
        BY <1>0, <1>2, <4>1 DEF StateTells, Gs
    <3>2. CASE g # thr[t].gen
      BY <1>0, <1>2, <1>3, <3>2 DEF StateTells, Gs
    <3>3. QED
      BY <3>1, <3>2
  <2>2. ASSUME NEW u \in Gs, Stopping(u)'
        PROVE  /\ lis'[thr'[u].gen].state = "STOPPING"
               /\ thr'[u].pc \in {"stopClose", "stopAwait"} => child'[thr'[u].gen] = "reaped"
    <3>1. Stopping(u) /\ thr'[u].gen = thr[u].gen
      BY <1>2, <2>2
    <3>2. CASE u = t
      BY <1>0, <1>1, <3>1, <3>2
    <3>3. CASE u # t
      <4>1. thr[u].gen # thr[t].gen /\ thr'[u] = thr[u]
        BY <1>1, <3>1, <3>3, StopsApart
      <4>2. thr[u].gen \in Generations
        BY <1>0
      <4>3. /\ lis[thr[u].gen].state = "STOPPING"
            /\ thr[u].pc \in {"stopClose", "stopAwait"} => child[thr[u].gen] = "reaped"
        BY <1>0, <3>1 DEF StateTells
      <4>4. /\ lis'[thr[u].gen].state = lis[thr[u].gen].state
            /\ child'[thr[u].gen] = child[thr[u].gen]
        BY <4>1, <4>2
      <4>5. QED
        BY <3>1, <4>1, <4>3, <4>4
    <3>4. QED
      BY <3>2, <3>3
  <2>3. QED
    BY <2>1, <2>2 DEF StateTells
<1>8. QED
  BY <1>6, <1>7 DEF CInv

LEMMA InsideStopChild ==
    ASSUME CInv, TypeInv', NEW t \in Gs,
           StopSignal(t) \/ StopWaited(t) \/ StopTimeout(t) \/ StopKill(t) \/ StopClose(t)
    PROVE  CInv'
<1>0. /\ TypeOK /\ thr[t].gen \in Generations /\ StateTells
      /\ child \in [Generations -> Children]
  BY Bearings DEF TypeOK, Children
<1>1. Stopping(t) /\ UNCHANGED listeners
  BY DEF StopSignal, StopWaited, StopTimeout, StopKill, StopClose, At, Stopping, StopPC
<1>2. \A g \in Generations : g # thr[t].gen => child'[g] = child[g]
  BY <1>0 DEF StopSignal, StopWaited, StopTimeout, StopKill, StopClose
<1>3. \A g \in Generations : lis'[g].state = lis[g].state /\ lis'[g].loop = lis[g].loop
  <2>1. CASE UNCHANGED lis
    BY <2>1
  <2>2. CASE StopClose(t)
    BY <1>0, <2>2, ClosedTo DEF StopClose
  <2>3. QED
    BY <2>1, <2>2 DEF StopSignal, StopWaited, StopTimeout, StopKill
<1>4. CASE StopSignal(t) \/ StopTimeout(t) \/ StopKill(t)
  <2>1. PICK l \in {"stopWait", "stopKill", "stopKillWait"} : Goto(t, l)
    BY <1>4 DEF StopSignal, StopTimeout, StopKill
  <2>2. l \in StopPC \ {"stopEnter"} /\ l \notin {"stopClose", "stopAwait"}
    BY DEF StopPC
  <2>3. QED
    BY <1>1, <1>2, <1>3, <2>1, <2>2, InsideStop
<1>5. CASE StopWaited(t)
  <2>1. Goto(t, "stopClose") /\ child'[thr[t].gen] = "reaped"
    BY <1>0, <1>5 DEF StopWaited
  <2>2. "stopClose" \in StopPC \ {"stopEnter"}
    BY DEF StopPC
  <2>3. QED
    BY <1>1, <1>2, <1>3, <2>1, <2>2, InsideStop
<1>6. CASE StopClose(t)
  <2>1. Goto(t, "stopAwait") /\ thr[t].pc = "stopClose" /\ UNCHANGED child
    BY <1>6 DEF StopClose, At
  <2>2. child'[thr[t].gen] = "reaped"
    BY <1>0, <1>1, <2>1 DEF StateTells
  <2>3. "stopAwait" \in StopPC \ {"stopEnter"}
    BY DEF StopPC
  <2>4. QED
    BY <1>1, <1>2, <1>3, <2>1, <2>2, <2>3, InsideStop
<1>7. QED
  BY <1>4, <1>5, <1>6

(* Which generation a goroutine inside stop() is stopping *)
LEMMA StopsWhom ==
    ASSUME CInv, NEW t \in Gs, thr[t].pc \in StopPC
    PROVE  /\ ~(thr[t].gen > listeners)
           /\ t = "main" => thr[t].gen = listeners
           /\ t = "signals" => /\ thr[t].gen + 1 = listeners /\ thr[t].gen # listeners
                               /\ Swapped /\ New(listeners)
<1>0. WhoStops /\ listeners \in Nat /\ thr[t].gen \in Nat /\ (t = "main" \/ t = "signals")
  BY Bearings
<1>1. CASE t = "main"
  <2>1. thr[t].gen = listeners
    BY <1>0, <1>1 DEF WhoStops
  <2>2. QED
    BY <1>0, <1>1, <2>1
<1>2. CASE t = "signals"
  <2>1. Swapped
    BY <1>2 DEF Swapped
  <2>2. thr[t].gen + 1 = listeners /\ New(listeners)
    BY <1>0, <1>2, <2>1 DEF WhoStops
  <2>3. ~(thr[t].gen > listeners) /\ thr[t].gen # listeners
    BY <1>0, <2>2
  <2>4. QED
    BY <1>2, <2>1, <2>2, <2>3
<1>3. QED
  BY <1>0, <1>1, <1>2

(* Where the generations stand to each other *)
LEMMA OldOrNew ==
    ASSUME CInv, NEW g \in Generations
    PROVE  g < listeners \/ g = listeners \/ g > listeners
<1>1. g \in Nat /\ listeners \in Nat
  BY Bearings
<1>2. QED
  BY <1>1

(* stop() finds a listener that runs *)
LEMMA EnterChild ==
    ASSUME CInv, TypeInv', NEW t \in Gs, StopEnter(t), lis[thr[t].gen].state = "RUNNING"
    PROVE  CInv'
<1> DEFINE g == thr[t].gen
<1>0. /\ TypeOK /\ WhoStops /\ StateTells /\ listeners \in Generations /\ listeners \in Nat
      /\ \A h \in Generations : h \in Nat
      /\ \A u \in Gs : thr[u].gen \in Generations
      /\ g \in Generations /\ g \in Nat
  BY Bearings
<1>1. /\ thr[t].pc = "stopEnter" /\ lis' = [lis EXCEPT ![g].state = "STOPPING"]
      /\ Goto(t, "stopSignal") /\ UNCHANGED <<child, listeners>>
  BY DEF StopEnter, At
<1>2. /\ \A h \in Generations : h # g => lis'[h] = lis[h]
      /\ lis'[g].state = "STOPPING"
  BY <1>0, <1>1, StateTo
<1>3. /\ thr'[t].pc = "stopSignal" /\ thr'[t].gen = g
      /\ \A u \in Gs : u # t => thr'[u] = thr[u]
  BY <1>0, <1>1, ThrTo DEF PCs, StopPC
<1>4. \A h \in Generations : h # g => (New(h)' <=> New(h)) /\ (Ended(h)' <=> Ended(h))
  BY <1>1, <1>2 DEF New, Ended, Running
<1>5. ~New(g) /\ Stopping(t)' /\ ~Stopping(t) /\ {"stopEnter", "stopSignal"} \subseteq StopPC
  BY <1>1, <1>3 DEF New, Stopping, StopPC
<1>6. \A u \in Gs : /\ thr'[u].gen = thr[u].gen
                    /\ thr'[u].pc \in StopPC <=> thr[u].pc \in StopPC
                    /\ u # t => (Stopping(u)' <=> Stopping(u))
  BY <1>1, <1>3, <1>5 DEF Stopping
<1>7. /\ ~(g > listeners)
      /\ t = "main" => g = listeners
      /\ t = "signals" => g + 1 = listeners /\ g # listeners /\ Swapped /\ New(listeners)
  BY <1>1, <1>5, StopsWhom
<1>8. \A u \in Gs : u # t /\ Stopping(u) => thr[u].gen # g
  BY <1>0 DEF StateTells
<1>9. WhoStops'
  <2>1. CASE t = "main"
    <3>1. g = listeners /\ thr'["signals"] = thr["signals"] /\ thr'["main"].pc = "stopSignal"
      BY <1>3, <1>7, <2>1 DEF Gs
    <3>2. ~Swapped /\ ~Swapped' /\ thr["signals"].pc # "stopEnter"
      BY <1>0, <1>5, <3>1 DEF WhoStops, Swapped
    <3>3. ~EarlyExit => thr["signals"].pc = "exited"
      BY <1>0, <1>1, <1>5, <2>1 DEF WhoStops
    <3>4. Stopping("main")' /\ thr'["main"].gen = listeners'
      BY <1>1, <1>3, <1>5, <2>1, <3>1
    <3>5. QED
      BY <3>1, <3>2, <3>3, <3>4 DEF WhoStops
  <2>2. CASE t = "signals"
    <3>1. /\ g + 1 = listeners /\ g # listeners /\ thr'["main"] = thr["main"]
          /\ thr'["signals"].pc = "stopSignal" /\ thr'["signals"].gen = g
      BY <1>0, <1>3, <1>7, <2>2 DEF Gs
    <3>2. Swapped /\ New(listeners) /\ New(listeners)' /\ lis'[listeners].state = lis[listeners].state
      <4>1. Swapped /\ New(listeners)
        BY <1>7, <2>2
      <4>2. lis'[listeners] = lis[listeners] /\ (New(listeners)' <=> New(listeners))
        <5>1. listeners \in Generations /\ listeners # g /\ listeners' = listeners
          BY <1>0, <1>1, <3>1
        <5>2. QED
          BY <1>1, <1>2, <5>1 DEF New
      <4>3. QED
        BY <4>1, <4>2
    <3>3. thr["main"].pc # "boot" /\ ~(~EarlyExit /\ thr["main"].pc \in StopPC \cup {"exited"})
      BY <1>0, <1>1, <2>2 DEF WhoStops
    <3>4. thr["main"].pc \in StopPC => thr["main"].gen = listeners
      BY <1>0 DEF WhoStops
    <3>5. QED
      BY <1>1, <3>1, <3>2, <3>3, <3>4 DEF WhoStops, New
  <2>3. QED
    BY <2>1, <2>2 DEF Gs
<1>10. StateTells'
  <2>1. ASSUME NEW h \in Generations
        PROVE  /\ h > listeners' => New(h)'
               /\ lis'[h].state = "" => New(h)'
               /\ lis'[h].state = "STOPPED" => Ended(h)'
               /\ h < listeners' /\ ~(thr'["signals"].pc \in StopPC /\ thr'["signals"].gen = h) =>
                    lis'[h].state \in {"", "STOPPED"}
    <3>1. CASE h = g
      <4>1. ~(h > listeners') /\ lis'[h].state = "STOPPING" /\ lis[h].state = "RUNNING"
        BY <1>0, <1>1, <1>2, <1>7, <3>1
      <4>2. h < listeners' => thr'["signals"].pc \in StopPC /\ thr'["signals"].gen = h
        BY <1>0, <1>1, <1>6, <4>1 DEF StateTells, Gs
      <4>3. QED
        BY <4>1, <4>2
    <3>2. CASE h # g
      BY <1>0, <1>1, <1>2, <1>4, <1>6, <3>2 DEF StateTells, Gs
    <3>3. QED
      BY <3>1, <3>2
  <2>2. ASSUME NEW u \in Gs, Stopping(u)'
        PROVE  /\ lis'[thr'[u].gen].state = "STOPPING"
               /\ thr'[u].pc \in {"stopClose", "stopAwait"} => child'[thr'[u].gen] = "reaped"
    <3>1. CASE u = t
      BY <1>2, <1>3, <3>1
    <3>2. CASE u # t
      <4>1. Stopping(u) /\ thr'[u] = thr[u] /\ thr[u].gen # g /\ thr[u].gen \in Generations
        BY <1>0, <1>3, <1>6, <1>8, <2>2, <3>2
      <4>2. /\ lis[thr[u].gen].state = "STOPPING"
            /\ thr[u].pc \in {"stopClose", "stopAwait"} => child[thr[u].gen] = "reaped"
        BY <1>0, <4>1 DEF StateTells
      <4>3. lis'[thr[u].gen] = lis[thr[u].gen] /\ child'[thr[u].gen] = child[thr[u].gen]
        BY <1>1, <1>2, <4>1
      <4>4. QED
        BY <4>1, <4>2, <4>3
    <3>3. QED
      BY <3>1, <3>2
  <2>3. QED
    BY <2>1, <2>2 DEF StateTells
<1>11. QED
  BY <1>9, <1>10 DEF CInv

(* stop() returns: the listener did not run, or its child is reaped and its
   protocol loop has ended *)
LEMMA ReturnChild ==
    ASSUME CInv, TypeInv', NEW t \in Gs, StopReturn(t), thr[t].pc \in StopPC,
           \/ thr[t].pc = "stopEnter" /\ UNCHANGED lis /\ lis[thr[t].gen].state # "RUNNING"
           \/ StopAwait(t),
           UNCHANGED <<child, listeners>>
    PROVE  CInv'
<1> DEFINE g == thr[t].gen
           l == IF t = "main" THEN "exited" ELSE "start"
<1>0. /\ TypeOK /\ WhoStops /\ StateTells /\ listeners \in Generations /\ listeners \in Nat
      /\ \A h \in Generations : h \in Nat /\ lis[h].state \in {"", "RUNNING", "STOPPING", "STOPPED"}
      /\ \A u \in Gs : thr[u].gen \in Generations
      /\ g \in Generations /\ g \in Nat
  BY Bearings
<1>1. l \in PCs /\ l \notin StopPC /\ Goto(t, l)
  BY DEF StopReturn, PCs, StopPC
<1>2. /\ thr'[t].pc = l /\ thr'[t].gen = g /\ \A u \in Gs : u # t => thr'[u] = thr[u]
  BY <1>0, <1>1, ThrTo DEF PCs
<1>3. /\ ~(g > listeners)
      /\ t = "main" => g = listeners
      /\ t = "signals" => g + 1 = listeners /\ g # listeners
  BY StopsWhom
<1>4. /\ \A h \in Generations : h # g => lis'[h] = lis[h]
      /\ lis'[g].state \in {"", "STOPPED"} /\ lis'[g].loop = lis[g].loop
      /\ lis'[g].state = "STOPPED" => Ended(g)
      /\ lis'[g].state = "" => New(g)
  <2>1. CASE thr[t].pc = "stopEnter" /\ UNCHANGED lis /\ lis[g].state # "RUNNING"
    <3>1. lis[g].state # "STOPPING"
      <4>1. CASE t = "signals"
        BY <1>0, <2>1, <4>1 DEF WhoStops
      <4>2. CASE t = "main"
        <5>1. ~Stopping("main")
          BY <2>1, <4>2 DEF Stopping
        <5>2. QED
          BY <1>0, <1>3, <4>2, <5>1 DEF WhoStops
      <4>3. QED
        BY <4>1, <4>2 DEF Gs
    <3>2. QED
      BY <1>0, <2>1, <3>1 DEF StateTells
  <2>2. CASE StopAwait(t)
    <3>1. /\ thr[t].pc = "stopAwait" /\ lis[g].loop = "end"
          /\ lis' = [lis EXCEPT ![g].state = "STOPPED"]
      BY <2>2 DEF StopAwait, At
    <3>2. child[g] = "reaped"
      BY <1>0, <3>1 DEF StateTells, Stopping, StopPC
    <3>3. Ended(g)
      BY <3>1, <3>2 DEF Ended, Running
    <3>4. /\ \A h \in Generations : h # g => lis'[h] = lis[h]
          /\ lis'[g].state = "STOPPED" /\ lis'[g].loop = lis[g].loop
      BY <1>0, <3>1, StateTo
    <3>5. QED
      BY <3>3, <3>4
  <2>3. QED
    BY <2>1, <2>2
<1>5. \A h \in Generations : h # g => (New(h)' <=> New(h)) /\ (Ended(h)' <=> Ended(h))
  BY <1>4 DEF New, Ended, Running
<1>6. ASSUME NEW h \in Generations, h = g
      PROVE  (lis'[h].state = "STOPPED" => Ended(h)') /\ (lis'[h].state = "" => New(h)')
  <2>1. child' = child
    OBVIOUS
  <2>2. Ended(h) => Ended(h)'
    BY <1>4, <1>6, <2>1 DEF Ended, Running
  <2>3. New(h) /\ lis'[h].state = "" => New(h)'
    BY <1>4, <1>6, <2>1 DEF New
  <2>4. QED
    BY <1>4, <1>6, <2>2, <2>3
<1>7. ~Stopping(t)' /\ \A u \in Gs : u # t => (Stopping(u)' <=> Stopping(u))
  BY <1>1, <1>2 DEF Stopping
<1>8. WhoStops'
  <2>1. CASE t = "main"
    <3>1. /\ g = listeners /\ thr'["signals"] = thr["signals"] /\ thr'["main"].pc = "exited"
          /\ lis'[listeners'].state \in {"", "STOPPED"}
      BY <1>2, <1>3, <1>4, <2>1 DEF Gs
    <3>2. Swapped' => thr'["signals"].gen + 1 = listeners' /\ New(listeners)'
      <4> SUFFICES ASSUME Swapped' PROVE thr'["signals"].gen + 1 = listeners' /\ New(listeners)'
        OBVIOUS
      <4>1. Swapped
        BY <3>1 DEF Swapped
      <4>2. New(listeners) /\ thr["signals"].gen + 1 = listeners
        BY <1>0, <4>1 DEF WhoStops
      <4>3. lis'[g].state = "" \/ lis'[g].state = "STOPPED"
        BY <1>4
      <4>4. ~StopAwait(t)
        <5>1. StopAwait(t) => Stopping("main")
          BY <2>1 DEF StopAwait, At, Stopping, StopPC
        <5>2. Stopping("main") => lis[listeners].state = "STOPPING"
          BY <1>0, <1>3, <2>1 DEF StateTells, Gs
        <5>3. QED
          BY <4>2, <5>1, <5>2 DEF New
      <4>5. UNCHANGED lis
        BY <4>4
      <4>6. QED
        BY <3>1, <4>2, <4>5 DEF New
    <3>3. thr'["signals"].pc = "stopEnter" => lis'[thr'["signals"].gen].state # "STOPPING"
      <4>1. thr["signals"].gen = g => lis'[thr["signals"].gen].state # "STOPPING"
        BY <1>4
      <4>2. thr["signals"].gen # g => lis'[thr["signals"].gen] = lis[thr["signals"].gen]
        BY <1>0, <1>4 DEF Gs
      <4>3. QED
        BY <1>0, <3>1, <4>1, <4>2 DEF WhoStops
    <3>4. ~EarlyExit => thr["signals"].pc = "exited"
      BY <1>0, <2>1 DEF WhoStops
    <3>5. "exited" \notin StopPC
      BY DEF StopPC
    <3>6. QED
      BY <3>1, <3>2, <3>3, <3>4, <3>5 DEF WhoStops
  <2>2. CASE t = "signals"
    <3>1. /\ g + 1 = listeners /\ g # listeners /\ thr'["main"] = thr["main"]
          /\ thr'["signals"].pc = "start" /\ thr'["signals"].gen = g
          /\ lis'[listeners] = lis[listeners]
      BY <1>0, <1>2, <1>3, <1>4, <2>2 DEF Gs
    <3>2. New(listeners) /\ New(listeners)'
      BY <1>0, <1>5, <2>2, <3>1 DEF WhoStops, Swapped, New
    <3>3. thr["main"].pc # "boot" /\ ~(~EarlyExit /\ thr["main"].pc \in StopPC \cup {"exited"})
      <4>1. thr["signals"].pc \notin {"run", "exited"}
        BY <2>2 DEF StopPC
      <4>2. QED
        BY <1>0, <4>1 DEF WhoStops
    <3>4. thr["main"].pc \in StopPC => thr["main"].gen = listeners
      BY <1>0 DEF WhoStops
    <3>5. QED
      BY <3>1, <3>2, <3>3, <3>4 DEF WhoStops, New
  <2>3. QED
    BY <2>1, <2>2 DEF Gs
<1>9. StateTells'
  <2>1. ASSUME NEW h \in Generations
        PROVE  /\ h > listeners' => New(h)'
               /\ lis'[h].state = "" => New(h)'
               /\ lis'[h].state = "STOPPED" => Ended(h)'
               /\ h < listeners' /\ ~(thr'["signals"].pc \in StopPC /\ thr'["signals"].gen = h) =>
                    lis'[h].state \in {"", "STOPPED"}
    <3>1. CASE h = g
      <4>1. ~(h > listeners')
        BY <1>3, <3>1
      <4>2. QED
        BY <1>4, <1>6, <3>1, <4>1
    <3>2. CASE h # g
      <4>1. lis'[h] = lis[h] /\ (New(h)' <=> New(h)) /\ (Ended(h)' <=> Ended(h))
        BY <1>4, <1>5, <3>2
      <4>2. thr["signals"].pc \in StopPC /\ thr["signals"].gen = h =>
              thr'["signals"].pc \in StopPC /\ thr'["signals"].gen = h
        BY <1>2, <3>2 DEF Gs
      <4>3. QED
        BY <1>0, <4>1, <4>2 DEF StateTells
    <3>3. QED
      BY <3>1, <3>2
  <2>2. ASSUME NEW u \in Gs, Stopping(u)'
        PROVE  /\ lis'[thr'[u].gen].state = "STOPPING"
               /\ thr'[u].pc \in {"stopClose", "stopAwait"} => child'[thr'[u].gen] = "reaped"
    <3>1. u # t /\ Stopping(u) /\ thr'[u] = thr[u] /\ thr[u].pc \in StopPC
      BY <1>2, <1>7, <2>2 DEF Stopping
    <3>2. thr[u].gen # g
      <4>1. CASE t = "main"
        <5>1. thr[u].gen + 1 = listeners
          <6>1. u = "signals"
            BY <3>1, <4>1 DEF Gs
          <6>2. QED
            BY <1>0, <3>1, <6>1 DEF WhoStops, Swapped
        <5>2. g = listeners /\ thr[u].gen \in Nat
          BY <1>0, <1>3, <4>1
        <5>3. \A x \in Nat : x + 1 # x
          OBVIOUS
        <5>4. QED
          BY <5>1, <5>2, <5>3
      <4>2. CASE t = "signals"
        <5>1. u = "main" /\ thr["main"].gen = listeners
          BY <1>0, <3>1, <4>2 DEF Gs, WhoStops
        <5>2. QED
          BY <1>3, <4>2, <5>1
      <4>3. QED
        BY <4>1, <4>2 DEF Gs
    <3>3. lis'[thr[u].gen] = lis[thr[u].gen]
      BY <1>0, <1>4, <3>2
    <3>4. QED
      BY <1>0, <3>1, <3>3 DEF StateTells
  <2>3. QED
    BY <2>1, <2>2 DEF StateTells
<1>10. QED
  BY <1>8, <1>9 DEF CInv

LEMMA StopChild == ASSUME CInv, TypeInv', NEW t \in Gs, StopStep(t) PROVE CInv'
<1>1. CASE StopEnter(t) /\ lis[thr[t].gen].state = "RUNNING"
  BY <1>1, EnterChild
<1>2. CASE StopEnter(t) /\ lis[thr[t].gen].state # "RUNNING"
  <2>1. /\ thr[t].pc = "stopEnter" /\ UNCHANGED lis /\ StopReturn(t)
        /\ UNCHANGED <<child, listeners>>
    BY <1>2 DEF StopEnter, At
  <2>2. QED
    BY <1>2, <2>1, ReturnChild DEF StopPC
<1>3. CASE StopAwait(t)
  <2>1. thr[t].pc = "stopAwait" /\ StopReturn(t) /\ UNCHANGED <<child, listeners>>
    BY <1>3 DEF StopAwait, At
  <2>2. QED
    BY <1>3, <2>1, ReturnChild DEF StopPC
<1>4. QED
  BY <1>1, <1>2, <1>3, InsideStopChild DEF StopStep

LEMMA NextChild == CInv /\ TypeInv' /\ [Next]_vars => CInv'
<1> SUFFICES ASSUME CInv, TypeInv', [Next]_vars PROVE CInv'
  OBVIOUS
<1>1. CASE UNCHANGED vars
  BY <1>1, LoopChild
<1>2. CASE Next
  BY <1>2, LoopChild, StartChild, ManagerChild, SwapChild, StopChild DEF Next, Gs
<1>3. QED
  BY <1>1, <1>2

LEMMA ChildAlways == Spec => []CInv
<1>1. DInv => TypeInv
  BY DEF DInv
<1>2. QED
  BY <1>1, InitChild, NextChild, DeliveryAlways, PTL DEF Spec

(* A reload has stopped the old child before it starts the new one, and the
   stop of main never meets one that is still starting: at no moment do two
   children of a listener run. *)
THEOREM OneChildAtATime == Spec => []OneChild
<1>1. CInv => OneChild
  <2> SUFFICES ASSUME CInv, NEW g \in Generations, NEW h \in Generations,
                      Running(g), Running(h)
               PROVE  g = h
    BY DEF OneChild
  <2>0. /\ WhoStops /\ StateTells /\ listeners \in Nat /\ listeners \in Generations
        /\ \A k \in Generations : /\ k \in Nat
                                  /\ lis[k].state \in {"", "RUNNING", "STOPPING", "STOPPED"}
    BY Bearings
  <2>1. \A k \in Generations : Running(k) => ~New(k) /\ ~Ended(k)
    BY DEF Running, New, Ended
  <2>2. \A k \in Generations : Running(k) =>
          k = listeners \/ (thr["signals"].pc \in StopPC /\ thr["signals"].gen = k)
    <3> SUFFICES ASSUME NEW k \in Generations, Running(k), k # listeners,
                        ~(thr["signals"].pc \in StopPC /\ thr["signals"].gen = k)
                 PROVE  FALSE
      OBVIOUS
    <3>1. CASE k < listeners
      BY <2>0, <2>1, <3>1 DEF StateTells
    <3>2. CASE k > listeners
      BY <2>0, <2>1, <3>2 DEF StateTells
    <3>3. QED
      BY <3>1, <3>2, OldOrNew
  <2>3. thr["signals"].pc \in StopPC => ~Running(listeners)
    BY <2>0, <2>1 DEF WhoStops, Swapped
  <2>4. QED
    BY <2>2, <2>3
<1>2. QED
  BY <1>1, ChildAlways, PTL

(* Where main returns only after handleSignals has (no server failed to start),
   it leaves neither a child nor a protocol loop behind. *)
THEOREM StopLeavesNothing == ~EarlyExit => (Spec => []StopIsFinal)
<1> SUFFICES ASSUME ~EarlyExit PROVE Spec => []StopIsFinal
  OBVIOUS
<1>1. CInv => StopIsFinal
  <2> SUFFICES ASSUME CInv, thr["main"].pc = "exited", NEW g \in Generations
               PROVE  Ended(g)
    BY DEF StopIsFinal, Ended, At
  <2>0. /\ WhoStops /\ StateTells /\ listeners \in Nat /\ g \in Nat
    BY Bearings
  <2>1. thr["signals"].pc = "exited" /\ lis[listeners].state \in {"", "STOPPED"}
    BY <2>0 DEF WhoStops
  <2>2. thr["signals"].pc \notin StopPC
    BY <2>1 DEF StopPC
  <2>3. New(g) => Ended(g)
    BY DEF New, Ended, Running
  <2>4. CASE g = listeners
    BY <2>0, <2>1, <2>3, <2>4 DEF StateTells
  <2>5. CASE g # listeners
    <3>1. CASE g < listeners
      BY <2>0, <2>2, <2>3, <3>1 DEF StateTells
    <3>2. CASE g > listeners
      BY <2>0, <2>3, <3>2 DEF StateTells
    <3>3. QED
      BY <2>5, <3>1, <3>2, OldOrNew
  <2>6. QED
    BY <2>4, <2>5
<1>2. QED
  BY <1>1, ChildAlways, PTL
=============================================================================
