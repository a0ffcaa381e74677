------------------------------ MODULE EventLog ------------------------------
(***************************************************************************)
(* What becomes of a process event: RecordEvent (internal/process/event.go)*)
(* pushes it to the ring buffer and then, without the buffer's lock, lets  *)
(* the broker of internal/web/sse_broker.go broadcast it to the clients of *)
(* the event stream (internal/web/web.go).  Goroutines record concurrently *)
(* and clients come, go and stall.  Events are numbered in the order they  *)
(* are pushed.  The third destination is module EventListener's.           *)
(* Definitions with an underscore are faulty variants (see Process).       *)
(***************************************************************************)
EXTENDS RingBuffer, SequencesExt

CONSTANTS
    Recorders,      \* goroutines that record events
    Clients,        \* connections to /api/v1/events/stream
    ChanSize,       \* capacity of a client's channel (64 in the code)
    MaxEvents       \* bound: events recorded

ASSUME EventLogAssumption ==
    /\ ChanSize \in Nat \ {0} /\ MaxEvents \in Nat
    /\ Values = 1 .. MaxEvents

VARIABLES
    rec,        \* the event each recorder has yet to broadcast, or 0
    recorded,   \* events pushed so far
    clients,    \* b.clients: the connections that are registered
    chan,       \* the channel of each connection
    since,      \* history: events pushed before the connection subscribed
    got,        \* history: events written to the connection
    missed      \* history: events that found its channel full

logVars == <<vars, rec, recorded, clients, chan, since, got, missed>>

LogInit ==
    /\ Init
    /\ rec = [r \in Recorders |-> 0] /\ recorded = 0
    /\ clients = {} /\ chan = [c \in Clients |-> <<>>]
    /\ since = [c \in Clients |-> 0]
    /\ got = [c \in Clients |-> {}] /\ missed = [c \in Clients |-> {}]

-----------------------------------------------------------------------------
(* variant: the event is broadcast before it is in the buffer *)
RecordEvent_Late(r) ==
    /\ rec[r] = 0 /\ recorded < MaxEvents
    /\ recorded' = recorded + 1
    /\ rec' = [rec EXCEPT ![r] = recorded + 1]
    /\ UNCHANGED <<vars, clients, chan, since, got, missed>>

(* RecordEvent: GlobalEventBuffer.Push *)
RecordEvent(r) ==
    /\ rec[r] = 0 /\ recorded < MaxEvents
    /\ Push(recorded + 1)
    /\ recorded' = recorded + 1
    /\ rec' = [rec EXCEPT ![r] = recorded + 1]
    /\ UNCHANGED <<clients, chan, since, got, missed>>

(* variant: a client that is full ends the loop *)
Broadcast_Breaks(r) ==
    /\ rec[r] # 0
    /\ IF \A c \in clients : Len(chan[c]) < ChanSize
       THEN chan' = [c \in Clients |-> IF c \in clients THEN Append(chan[c], rec[r]) ELSE chan[c]]
       ELSE UNCHANGED chan
    /\ missed' = [c \in Clients |-> IF c \in clients /\ Len(chan[c]) >= ChanSize
                                    THEN missed[c] \cup {rec[r]} ELSE missed[c]]
    /\ rec' = [rec EXCEPT ![r] = 0]
    /\ UNCHANGED <<vars, recorded, clients, since, got>>

(* sseFn: a send to every client that never blocks, under b.mu *)
Broadcast(r) ==
    LET stalled == {c \in clients : Len(chan[c]) >= ChanSize} IN
    /\ rec[r] # 0
    /\ chan' = [c \in Clients |-> IF c \in clients \ stalled THEN Append(chan[c], rec[r])
                                                         ELSE chan[c]]
    /\ missed' = [c \in Clients |-> IF c \in stalled THEN missed[c] \cup {rec[r]} ELSE missed[c]]
    /\ rec' = [rec EXCEPT ![r] = 0]
    /\ UNCHANGED <<vars, recorded, clients, since, got>>

-----------------------------------------------------------------------------
(* handleAPIV1EventsStream: subscribe() with a new channel *)
Subscribe(c) ==
    /\ c \notin clients
    /\ clients' = clients \cup {c}
    /\ chan' = [chan EXCEPT ![c] = <<>>]
    /\ since' = [since EXCEPT ![c] = recorded]
    /\ got' = [got EXCEPT ![c] = {}] /\ missed' = [missed EXCEPT ![c] = {}]
    /\ UNCHANGED <<vars, rec, recorded>>

(* its loop: a frame is written to the connection *)
Stream(c) ==
    /\ c \in clients /\ chan[c] # <<>>
    /\ got' = [got EXCEPT ![c] = @ \cup {Head(chan[c])}]
    /\ chan' = [chan EXCEPT ![c] = Tail(@)]
    /\ UNCHANGED <<vars, rec, recorded, clients, since, missed>>

(* ctx.Done(): the deferred unsubscribe(ch), and the channel is forgotten *)
Unsubscribe(c) ==
    /\ c \in clients
    /\ clients' = clients \ {c}
    /\ chan' = [chan EXCEPT ![c] = <<>>]
    /\ since' = [since EXCEPT ![c] = 0]
    /\ got' = [got EXCEPT ![c] = {}] /\ missed' = [missed EXCEPT ![c] = {}]
    /\ UNCHANGED <<vars, rec, recorded>>

LogNext ==
    \/ \E r \in Recorders : RecordEvent(r) \/ Broadcast(r)
    \/ \E c \in Clients : Subscribe(c) \/ Stream(c) \/ Unsubscribe(c)

LogSpec == LogInit /\ [][LogNext]_logVars

-----------------------------------------------------------------------------
(* Properties *)

Seen(c) == got[c] \cup ToSet(chan[c])

(* No gap between history and stream: an event pushed after a client subscribed
   reaches it, unless the client's own channel was full, whatever the other
   clients do; so subscribing first and reading the history then loses nothing. *)
NoGap ==
    \A c \in clients : \A e \in since[c] + 1 .. recorded :
        e \in Seen(c) \cup missed[c] \/ \E r \in Recorders : rec[r] = e

(* A client that sees an event in the stream and asks for the history finds it
   there, unless Capacity newer events have replaced it. *)
StreamedIsLogged ==
    \A c \in clients : \A e \in Seen(c) :
        e \in ToSet(SnapshotAll) \/ recorded - e >= Capacity
=============================================================================
