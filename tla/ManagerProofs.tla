--------------------------- MODULE ManagerProofs ---------------------------
(***************************************************************************)
(* Proofs about module Manager, for every number of programs, clients,     *)
(* reloads and requests.                                                   *)
(*                                                                         *)
(* Control says where the goroutines can be and what they hold there.  On  *)
(* it rest three arguments:                                                *)
(*  - the map: an object that was made is in the map under its name, or    *)
(*    its context is cancelled (Kept); a reload keeps it so because it     *)
(*    cancels before it deletes and deletes before it adds;                *)
(*  - the reload: a program is as the configuration has it unless it is    *)
(*    still in diff, in work, or yet to be added by main (Settles);        *)
(*  - the shutdown: while nobody else calls Start, Stop or Restart, a      *)
(*    child that runs is RUNNING and its name is yet to be visited, or the *)
(*    handler is stopping it (Quiet).                                      *)
(* Each of them excepts the programs that a sort of a cyclic graph can     *)
(* leave out or add (Looped, Extras).  SortedNames says why these are      *)
(* the only ones.                                                          *)
(***************************************************************************)
EXTENDS Manager, FiniteSetTheorems, TLAPS

Starts == {"start", "attach", "fork"}
Stops  == {"stop", "stopwait", "detach"}
Holds  == Starts \cup Stops \cup {"restart", "restarted", "check", "asleep",
                                  "failed", "cancel"}
Shuts  == {"save", "snapshot", "rename", "close", "gone"}

H == go[Handler]

(* The handler works on the name of a program that the reload changes: it has
   left diff and is not as the configuration has it. *)
Replaces == (H.pc \in Stops /\ H.next = "cancel") \/ H.pc = "cancel"
Works == Replaces \/ H.pc \in {"delete", "readd"}

(* Every object that was made has the name of a program and a configuration; the
   children are theirs. *)
Pointers ==
    /\ \A o \in Objects : o <= made => obj[o].name \in Names /\ obj[o].cfg \in Versions
    /\ \A o \in alive : o <= made

ThreadOK(t) ==
    /\ go[t].obj <= made
    /\ go[t].pc \in Holds => go[t].obj # 0
    /\ t # Handler => go[t].next \in {"idle", "startAll", "serve"}
    /\ t \in Clients => (go[t].pc # "idle" => go[t].op \in Ops)

MainOK ==
    /\ go[Main].pc \in {"idle", "add", "servers", "startAll", "run"} \cup Starts
    /\ go[Main].next \in {"idle", "startAll"}

HandlerOK ==
    /\ H.op = "none"
    /\ H.pc \in {"idle", "reload", "cancel", "delete", "readd", "lookup", "stopAll"}
                  \cup Shuts \cup Starts \cup Stops
    /\ H.pc \in Starts => H.next = "reload"
    /\ H.pc \in Stops => H.next \in {"cancel", "stopAll"}
    /\ Works \/ H.pc = "lookup" => H.name \in Names
    /\ H.pc = "readd" => H.name \in DOMAIN conf
    /\ diff.added \subseteq DOMAIN conf
    /\ done => H.pc = "gone"
    /\ H.pc = "rename" => disk.tmp \in {"unsynced", "whole"}

Control ==
    /\ TypeOK /\ Pointers
    /\ \A t \in Threads : ThreadOK(t)
    /\ MainOK /\ HandlerOK

DiskInv ==
    /\ disk.file \notin {"torn", "unsynced"} /\ disk.tmp # "unsynced"
    /\ H.pc = "rename" => disk.tmp = "whole"

Kept ==
    \A o \in Objects :
        o <= made => procs[obj[o].name] = o \/ o \in cancelled \/ obj[o].name \in Extras

Pending == diff.removed \cup diff.modified \cup diff.added

Replacing ==
    /\ Replaces => procs[H.name] = H.obj
    /\ H.pc = "delete" => procs[H.name] = 0 \/ procs[H.name] \in cancelled
    /\ H.pc = "readd" => procs[H.name] = 0 \/ H.name \in Extras
    /\ Works => H.name \notin Pending \/ H.name \in Extras
    /\ \A n \in diff.added : procs[n] = 0 \/ n \in Extras
    /\ \A n \in diff.removed \cup diff.modified : procs[n] # 0 \/ n \in Extras
    /\ diff.removed \cap diff.modified \subseteq Extras
    /\ H.pc = "idle" => diff = Nothing

AsConfigured(n) == IF n \in DOMAIN conf
                   THEN procs[n] # 0 /\ obj[procs[n]].cfg = conf[n]
                   ELSE procs[n] = 0

Booting ==
    go[Main].pc = "add" =>
        /\ sigs = <<>> /\ H.pc = "idle"
        /\ \A n \in DOMAIN adding : procs[n] = 0 /\ n \in DOMAIN conf /\ adding[n] = conf[n]

Settles ==
    \A n \in Names \ Looped :
        \/ n \in Pending
        \/ Works /\ n = H.name
        \/ go[Main].pc = "add" /\ n \in DOMAIN adding
        \/ AsConfigured(n)

MapInv == Kept /\ Replacing /\ Booting /\ Settles

Calm == {"idle", "serve", "start", "stop", "restart", "check"}

(* the shutdown has yet to stop o, or is stopping it *)
Visits(o) ==
    \/ /\ H.pc \in {"stopAll"} \cup Stops
       /\ obj[o].name \in H.todo /\ State(o) = "RUNNING"
    \/ H.pc = "stop" /\ H.obj = o /\ State(o) = "RUNNING"
    \/ H.pc = "stopwait" /\ H.obj = o

(* the children that the shutdown has to end *)
Due == {o \in alive \ cancelled : obj[o].name \notin Looped \cup Extras}

Quiet ==
    undisturbed =>
        /\ go[Main].pc = "run"
        /\ \A t \in Threads \ {Main, Handler} : go[t].pc \in Calm
        /\ H.pc \in {"stopAll"} \cup Stops \cup Shuts
        /\ H.pc \in Stops => H.next = "stopAll"
        /\ \A o \in Due : Visits(o)
        /\ phase = "exit" => H.pc = "gone"

-----------------------------------------------------------------------------
(* The goroutines, and what an update of one of them does *)

LEMMA Bounds ==
    /\ Ops \subseteq {"start", "stop", "restart", "restart-all", "status"}
    /\ Clients \cap {"main", "handler", "loop", "restarter"} = {}
    /\ SigBuffer \in Nat \ {0} /\ EarlySignals \in BOOLEAN /\ SyncFails \in BOOLEAN
    /\ MaxObjects \in Nat /\ MaxReloads \in Nat /\ MaxCalls \in Nat
    /\ MaxFaults \in Nat /\ MaxEvents \in Nat
  BY ManagerAssumption

USE Bounds

LEMMA Ts ==
    /\ Main \in Threads /\ Handler \in Threads /\ Loop \in Threads /\ Restarter \in Threads
    /\ Clients \subseteq Threads
    /\ Main # Handler /\ Main # Loop /\ Main # Restarter /\ Handler # Loop
    /\ Handler # Restarter /\ Loop # Restarter
    /\ \A t \in Clients : t \notin {Main, Handler, Loop, Restarter}
    /\ \A t \in Threads : t \in {Main, Handler, Loop, Restarter} \/ t \in Clients
  BY DEF Threads, Main, Handler, Loop, Restarter

LEMMA Labels ==
    /\ Holds \subseteq PC /\ Shuts \subseteq PC /\ Starts \subseteq PC /\ Stops \subseteq PC
    /\ Starts \subseteq Holds /\ Stops \subseteq Holds
    /\ Shuts \cap Holds = {}
  BY DEF Holds, Shuts, Starts, Stops, PC

LEMMA Refs ==
    /\ 0 \in Ref /\ Objects \subseteq Ref
    /\ \A o \in Ref : o \in Nat /\ (o # 0 => o \in Objects)
    /\ \A o \in Objects : o \in Nat /\ o # 0
    /\ \A o \in Ref : o < MaxObjects => o + 1 \in Objects /\ o + 1 \in Ref
  BY DEF Ref, Objects

LEMMA ConfigFacts ==
    /\ \A c \in Programs : DOMAIN c \subseteq Names /\ \A n \in DOMAIN c : c[n] \in Versions
    /\ \A S \in SUBSET Names : \A c \in [S -> Versions] : c \in Programs
    /\ NoPrograms \in Programs /\ DOMAIN NoPrograms = {}
<1>1. \A c \in Programs : DOMAIN c \subseteq Names /\ \A n \in DOMAIN c : c[n] \in Versions
  BY DEF Programs
<1>2. \A S \in SUBSET Names : \A c \in [S -> Versions] : c \in Programs
  BY DEF Programs
<1>3. {} \in SUBSET Names /\ NoPrograms \in [{} -> Versions] /\ DOMAIN NoPrograms = {}
  BY DEF NoPrograms
<1>4. QED
  BY <1>1, <1>2, <1>3

LEMMA ThreadFields ==
    ASSUME NEW t \in ThreadType
    PROVE  /\ t.pc \in PC /\ t.obj \in Ref /\ t.todo \subseteq Names /\ t.next \in PC
           /\ t.op \in {"none"} \cup Ops /\ t.name \in Names \cup {""}
  BY DEF ThreadType

LEMMA IdleFields ==
    /\ Idle \in ThreadType /\ Idle.pc = "idle" /\ Idle.obj = 0 /\ Idle.next = "idle"
    /\ Idle.op = "none"
  BY Refs DEF Idle, ThreadType, PC

GoOK == go \in [Threads -> ThreadType]

(* go[t] becomes r *)
LEMMA SetTo ==
    ASSUME GoOK, NEW t \in Threads, NEW r \in ThreadType, go' = [go EXCEPT ![t] = r]
    PROVE  GoOK' /\ go'[t] = r /\ \A u \in Threads : u # t => go'[u] = go[u]
  BY DEF GoOK

LEMMA PcTo ==
    ASSUME GoOK, NEW t \in Threads, NEW l \in PC, Goto(t, l)
    PROVE  /\ GoOK'
           /\ go'[t].pc = l /\ go'[t].obj = go[t].obj /\ go'[t].todo = go[t].todo
           /\ go'[t].next = go[t].next /\ go'[t].op = go[t].op /\ go'[t].name = go[t].name
           /\ \A u \in Threads : u # t => go'[u] = go[u]
  BY DEF GoOK, ThreadType, Goto

LEMMA ReturnTo ==
    ASSUME GoOK, NEW t \in Threads, Return(t)
    PROVE  /\ GoOK'
           /\ go'[t].pc = go[t].next /\ go'[t].todo = go[t].todo
           /\ go'[t].obj = IF t = Handler THEN go[t].obj ELSE 0
           /\ go'[t].next = go[t].next /\ go'[t].op = go[t].op /\ go'[t].name = go[t].name
           /\ \A u \in Threads : u # t => go'[u] = go[u]
<1> DEFINE r == [go[t] EXCEPT !.pc = go[t].next, !.obj = IF t = Handler THEN go[t].obj ELSE 0]
<1>1. go[t] \in ThreadType /\ go' = [go EXCEPT ![t] = r]
  BY DEF GoOK, Return
<1>2. /\ r \in ThreadType /\ r.pc = go[t].next /\ r.todo = go[t].todo
      /\ r.obj = IF t = Handler THEN go[t].obj ELSE 0
      /\ r.next = go[t].next /\ r.op = go[t].op /\ r.name = go[t].name
  BY <1>1, Refs DEF ThreadType
<1>3. QED
  BY <1>1, <1>2, SetTo, ZenonT(40)

(* obj[o].state becomes s *)
ObjType == [name : Names \cup {""}, cfg : Versions \cup {""}, state : States]
ObjOK == obj \in [Objects -> ObjType]

SameObjects == \A o \in Objects : obj'[o].name = obj[o].name /\ obj'[o].cfg = obj[o].cfg

LEMMA StateTo ==
    ASSUME ObjOK, NEW o \in Objects, NEW s \in States, SetState(o, s)
    PROVE  /\ ObjOK' /\ SameObjects
           /\ obj'[o].state = s /\ \A p \in Objects : p # o => obj'[p] = obj[p]
<1>1. obj' = [obj EXCEPT ![o].state = s]
  BY DEF SetState
<1>2. \A p \in Objects : obj'[p] = IF p = o THEN [obj[o] EXCEPT !.state = s] ELSE obj[p]
  BY <1>1 DEF ObjOK
<1>3. \A p \in Objects : obj[p] \in ObjType
  BY DEF ObjOK
<1>4. [obj[o] EXCEPT !.state = s] \in ObjType
      /\ [obj[o] EXCEPT !.state = s].name = obj[o].name
      /\ [obj[o] EXCEPT !.state = s].cfg = obj[o].cfg
      /\ [obj[o] EXCEPT !.state = s].state = s
  BY <1>3 DEF ObjType
<1>5. ObjOK'
  BY <1>1, <1>2, <1>3, <1>4 DEF ObjOK
<1>6. QED
  BY <1>2, <1>4, <1>5 DEF SameObjects

LEMMA StateIn == ASSUME ObjOK, NEW o \in Objects PROVE State(o) \in States
  BY DEF ObjOK, ObjType, State

-----------------------------------------------------------------------------
(* Start, Stop and Restart: where their steps lead.  They move one goroutine,
   and return to its caller; no object gets another name or configuration. *)

Returns(t) ==
    /\ go'[t].pc = go[t].next
    /\ go'[t].obj = IF t = Handler THEN go[t].obj ELSE 0

GoesOn(t) ==
    /\ go'[t].obj = go[t].obj
    /\ \/ go[t].pc \in Starts /\ go'[t].pc \in {"attach", "fork"}
       \/ go[t].pc \in Starts /\ go'[t].pc = "failed" /\ t = Restarter
       \/ go[t].pc \in Stops /\ go'[t].pc \in {"stopwait", "detach"}
       \/ go[t].pc \in Stops /\ go'[t].pc = "restarted" /\ go[t].op # "none"
       \/ go[t].pc = "restart" /\ go'[t].pc = "stop"
       \/ go[t].pc = "restarted" /\ go'[t].pc = "start"

Moves(t) ==
    /\ GoOK' /\ \A u \in Threads : u # t => go'[u] = go[u]
    /\ go'[t].todo = go[t].todo /\ go'[t].next = go[t].next
    /\ go'[t].op = go[t].op /\ go'[t].name = go[t].name
    /\ go[t].pc \in Starts \cup Stops \cup {"restart", "restarted"}
    /\ Returns(t) \/ GoesOn(t)

LEMMA GotoMoves ==
    ASSUME GoOK, NEW t \in Threads, NEW l \in PC, Goto(t, l),
           \/ go[t].pc \in Starts /\ l \in {"attach", "fork"}
           \/ go[t].pc \in Starts /\ l = "failed" /\ t = Restarter
           \/ go[t].pc \in Stops /\ l \in {"stopwait", "detach"}
           \/ go[t].pc \in Stops /\ l = "restarted" /\ go[t].op # "none"
           \/ go[t].pc = "restart" /\ l = "stop"
           \/ go[t].pc = "restarted" /\ l = "start"
    PROVE  Moves(t)
<1>1. /\ GoOK' /\ go'[t].pc = l /\ go'[t].obj = go[t].obj /\ go'[t].todo = go[t].todo
      /\ go'[t].next = go[t].next /\ go'[t].op = go[t].op /\ go'[t].name = go[t].name
      /\ \A u \in Threads : u # t => go'[u] = go[u]
  BY PcTo
<1>2. GoesOn(t)
  BY <1>1 DEF GoesOn
<1>3. QED
  BY <1>1, <1>2 DEF Moves

LEMMA ReturnMoves ==
    ASSUME GoOK, NEW t \in Threads, Return(t),
           go[t].pc \in Starts \cup Stops \cup {"restart", "restarted"}
    PROVE  Moves(t)
  BY ReturnTo DEF Moves, Returns

LEMMA FailsMoves ==
    ASSUME GoOK, NEW t \in Threads, StartFails(t), go[t].pc \in Starts
    PROVE  Moves(t)
<1>1. CASE t = Restarter
  <2>1. Goto(t, "failed") /\ "failed" \in PC
    BY <1>1 DEF StartFails, PC
  <2>2. QED
    BY <1>1, <2>1, GotoMoves
<1>2. CASE t # Restarter
  BY <1>2, ReturnMoves DEF StartFails
<1>3. QED
  BY <1>1, <1>2

LEMMA StopReturnMoves ==
    ASSUME GoOK, NEW t \in Threads, StopReturn(t), go[t].pc \in Stops
    PROVE  Moves(t)
<1>1. CASE go[t].op \in {"restart", "restart-all"}
  <2>1. Goto(t, "restarted") /\ "restarted" \in PC /\ go[t].op # "none"
    BY <1>1 DEF StopReturn, PC
  <2>2. QED
    BY <2>1, GotoMoves
<1>2. CASE go[t].op \notin {"restart", "restart-all"}
  BY <1>2, ReturnMoves DEF StopReturn
<1>3. QED
  BY <1>1, <1>2

LEMMA StopEndMoves ==
    ASSUME GoOK, NEW t \in Threads, StopEnd(t), go[t].pc \in Stops
    PROVE  Moves(t)
<1>1. CASE HasSocket(go[t].obj)
  <2>1. Goto(t, "detach") /\ "detach" \in PC
    BY <1>1 DEF StopEnd, PC
  <2>2. QED
    BY <2>1, GotoMoves
<1>2. CASE ~HasSocket(go[t].obj)
  BY <1>2, StopReturnMoves DEF StopEnd
<1>3. QED
  BY <1>1, <1>2

(* What no step of Start, Stop and Restart touches *)
Else == UNCHANGED <<procs, made, cancelled, adding, conf, diff, sigs, done, phase, disk,
                    sent, termSent, calls>>

FaultsOK == faults \in 0 .. MaxFaults

LEMMA FaultStays ==
    /\ FaultsOK /\ Fault => FaultsOK'
    /\ FaultsOK /\ UNCHANGED faults => FaultsOK'
  BY DEF FaultsOK, Fault

LEMMA DisturbStays ==
    ASSUME undisturbed \in BOOLEAN, NEW t, Disturb(t) \/ UNCHANGED undisturbed
    PROVE  undisturbed' \in BOOLEAN
  BY Zenon DEF Disturb

LEMMA UnchangedObjects ==
    ASSUME ObjOK, UNCHANGED obj PROVE ObjOK' /\ SameObjects
  BY DEF ObjOK, SameObjects

LEMMA ProcessMoves ==
    ASSUME GoOK, ObjOK, FaultsOK, undisturbed \in BOOLEAN, NEW t \in Threads,
           go[t].obj \in Objects, ProcessStep(t)
    PROVE  /\ Moves(t) /\ ObjOK' /\ SameObjects /\ Else
           /\ alive' \subseteq alive \cup {go[t].obj}
           /\ FaultsOK' /\ undisturbed' \in BOOLEAN
<1> DEFINE o == go[t].obj
<1>1. CASE StartReserve(t)
  <2>0. go[t].pc = "start" /\ go[t].pc \in Starts /\ Else /\ UNCHANGED <<alive, faults>>
    BY <1>1 DEF StartReserve, At, Starts, Else, rest
  <2>1. CASE State(o) \in {"RUNNING", "STARTING", "STOPPING"}
    <3>1. StartFails(t) /\ UNCHANGED obj
      BY <1>1, <2>1 DEF StartReserve
    <3>2. QED
      BY <1>1, <2>0, <3>1, FailsMoves, UnchangedObjects, FaultStays, DisturbStays DEF StartReserve
  <2>2. CASE State(o) \notin {"RUNNING", "STARTING", "STOPPING"}
    <3>1. SetState(o, "STARTING") /\ Goto(t, IF HasSocket(o) THEN "attach" ELSE "fork")
      BY <1>1, <2>2 DEF StartReserve
    <3>2. Moves(t)
      BY <2>0, <3>1, GotoMoves DEF PC
    <3>3. ObjOK' /\ SameObjects
      BY <3>1, StateTo DEF States
    <3>4. QED
      BY <1>1, <2>0, <3>2, <3>3, FaultStays, DisturbStays DEF StartReserve
  <2>3. QED
    BY <2>1, <2>2
<1>2. CASE Attach(t)
  <2>0. /\ go[t].pc \in Starts /\ Else /\ UNCHANGED <<alive, faults, obj, undisturbed>>
        /\ Goto(t, "fork") \/ StartFails(t)
    BY <1>2 DEF Attach, At, Starts, Else, rest
  <2>1. Moves(t)
    BY <2>0, GotoMoves, FailsMoves DEF PC
  <2>2. QED
    BY <2>0, <2>1, UnchangedObjects, FaultStays, DisturbStays
<1>3. CASE StartFork(t)
  <2>0. go[t].pc \in Starts /\ Else /\ UNCHANGED undisturbed
    BY <1>3 DEF StartFork, At, Starts, Else, rest
  <2>1. /\ SetState(o, "RUNNING") \/ UNCHANGED obj \/ SetState(o, "EXITED")
        /\ alive' = alive \cup {o} \/ UNCHANGED alive
        /\ Return(t) \/ StartFails(t)
        /\ Fault \/ UNCHANGED faults
    BY <1>3 DEF StartFork
  <2>2. Moves(t)
    BY <2>0, <2>1, ReturnMoves, FailsMoves
  <2>3. ObjOK' /\ SameObjects
    BY <2>1, StateTo, UnchangedObjects DEF States
  <2>4. QED
    BY <2>0, <2>1, <2>2, <2>3, FaultStays, DisturbStays
<1>4. CASE StopEnter(t)
  <2>0. /\ go[t].pc \in Stops /\ Else /\ UNCHANGED <<alive, faults>>
        /\ SetState(o, "STOPPING") \/ SetState(o, "STOPPED")
        /\ Goto(t, "stopwait") \/ StopEnd(t)
        /\ Disturb(t)
    BY <1>4 DEF StopEnter, At, Stops, Else, rest
  <2>1. Moves(t)
    BY <2>0, GotoMoves, StopEndMoves DEF PC
  <2>2. ObjOK' /\ SameObjects
    BY <2>0, StateTo DEF States
  <2>3. QED
    BY <2>0, <2>1, <2>2, FaultStays, DisturbStays
<1>5. CASE StopDone(t)
  <2>0. /\ go[t].pc \in Stops /\ Else /\ UNCHANGED <<undisturbed, faults>>
        /\ alive' = alive \ {o} /\ StopEnd(t)
    BY <1>5 DEF StopDone, At, Stops, Else, rest
  <2>1. Moves(t)
    BY <2>0, StopEndMoves
  <2>2. PICK s \in States : SetState(o, s)
    <3>1. SetState(o, CASE State(o) = "STOPPING" -> "STOPPED"
                        [] State(o) = "RUNNING"  -> "EXITED"
                        [] OTHER                 -> State(o))
      BY <1>5 DEF StopDone, SetState, State
    <3>2. State(o) \in States /\ "STOPPED" \in States /\ "EXITED" \in States
      BY StateIn DEF States
    <3>3. QED
      BY <3>1, <3>2
  <2>3. ObjOK' /\ SameObjects
    BY <2>2, StateTo
  <2>4. QED
    BY <2>0, <2>1, <2>3, FaultStays, DisturbStays
<1>6. CASE Detach(t)
  <2>0. /\ go[t].pc \in Stops /\ Else /\ UNCHANGED <<alive, faults, obj, undisturbed>>
        /\ StopReturn(t)
    BY <1>6 DEF Detach, At, Stops, Else, rest
  <2>1. QED
    BY <2>0, StopReturnMoves, UnchangedObjects, FaultStays, DisturbStays
<1>7. CASE RestartEnter(t)
  <2>0. /\ go[t].pc = "restart" /\ Else /\ UNCHANGED <<alive, faults>>
        /\ SetState(o, "STOPPING") \/ UNCHANGED obj
        /\ Return(t) \/ Goto(t, "stop")
        /\ Disturb(t)
    BY <1>7 DEF RestartEnter, At, Else, rest
  <2>1. Moves(t)
    BY <2>0, ReturnMoves, GotoMoves DEF PC
  <2>2. ObjOK' /\ SameObjects
    BY <2>0, StateTo, UnchangedObjects DEF States
  <2>3. QED
    BY <2>0, <2>1, <2>2, FaultStays, DisturbStays
<1>8. CASE RestartStart(t)
  <2>0. /\ go[t].pc = "restarted" /\ Else /\ UNCHANGED <<alive, faults, obj, undisturbed>>
        /\ Return(t) \/ Goto(t, "start")
    BY <1>8 DEF RestartStart, At, Else, rest
  <2>1. Moves(t)
    BY <2>0, ReturnMoves, GotoMoves DEF PC
  <2>2. QED
    BY <2>0, <2>1, UnchangedObjects, FaultStays, DisturbStays
<1>9. QED
  BY <1>1, <1>2, <1>3, <1>4, <1>5, <1>6, <1>7, <1>8 DEF ProcessStep

-----------------------------------------------------------------------------
(* Control: the parts that most steps share *)

Named == \A n \in Names : procs[n] # 0 => obj[procs[n]].name = n /\ procs[n] <= made

TypeMap ==
    /\ procs \in [Names -> Ref] /\ Named /\ ObjOK
    /\ made \in Ref /\ cancelled \subseteq Objects /\ alive \subseteq Objects
    /\ GoOK

TypeConf ==
    /\ adding \in Programs /\ conf \in Programs
    /\ diff \in [removed : SUBSET Names, modified : SUBSET Names, added : SUBSET Names]

TypeSig ==
    /\ sigs \in Seq({"HUP", "TERM"}) /\ Len(sigs) <= SigBuffer
    /\ sent \in 0 .. MaxReloads /\ calls \in 0 .. MaxCalls

TypeFlags == undisturbed \in BOOLEAN /\ termSent \in BOOLEAN /\ done \in BOOLEAN

TypeDisk ==
    /\ disk \in [file : {"none", "whole", "unsynced", "torn"},
                 tmp : {"none", "partial", "unsynced", "whole"}]
    /\ phase \in {"up", "exit", "down"}

LEMMA Types == TypeOK <=> TypeMap /\ TypeConf /\ TypeSig /\ TypeFlags /\ TypeDisk /\ FaultsOK
<1>1. TypeOK => TypeMap /\ TypeConf /\ TypeSig /\ TypeFlags /\ TypeDisk /\ FaultsOK
  BY DEF TypeOK, TypeMap, TypeConf, TypeSig, TypeFlags, TypeDisk, FaultsOK, Named, ObjOK,
         ObjType, GoOK
<1>2. TypeMap /\ TypeConf /\ TypeSig /\ TypeFlags /\ TypeDisk /\ FaultsOK => TypeOK
  BY DEF TypeOK, TypeMap, TypeConf, TypeSig, TypeFlags, TypeDisk, FaultsOK, Named, ObjOK,
         ObjType, GoOK
<1>3. QED
  BY <1>1, <1>2

LEMMA TypesNext ==
    TypeOK' <=> TypeMap' /\ TypeConf' /\ TypeSig' /\ TypeFlags' /\ TypeDisk' /\ FaultsOK'
<1>1. TypeOK' => TypeMap' /\ TypeConf' /\ TypeSig' /\ TypeFlags' /\ TypeDisk' /\ FaultsOK'
  BY DEF TypeOK, TypeMap, TypeConf, TypeSig, TypeFlags, TypeDisk, FaultsOK, Named, ObjOK,
         ObjType, GoOK
<1>2. TypeMap' /\ TypeConf' /\ TypeSig' /\ TypeFlags' /\ TypeDisk' /\ FaultsOK' => TypeOK'
  BY DEF TypeOK, TypeMap, TypeConf, TypeSig, TypeFlags, TypeDisk, FaultsOK, Named, ObjOK,
         ObjType, GoOK
<1>3. QED
  BY <1>1, <1>2

LEMMA ControlFacts ==
    ASSUME Control
    PROVE  /\ TypeMap /\ TypeConf /\ TypeSig /\ TypeFlags /\ TypeDisk /\ FaultsOK
           /\ Pointers /\ MainOK /\ HandlerOK /\ GoOK /\ ObjOK
           /\ \A t \in Threads : ThreadOK(t)
           /\ made \in Ref /\ made \in Nat /\ undisturbed \in BOOLEAN
           /\ \A t \in Threads : /\ go[t].obj \in Ref /\ go[t].obj \in Nat /\ go[t].pc \in PC
                                 /\ go[t].todo \subseteq Names /\ go[t].next \in PC
                                 /\ go[t] \in ThreadType
           /\ \A n \in Names : procs[n] \in Ref /\ (procs[n] # 0 => procs[n] \in Objects)
                               /\ procs[n] <= made
<1>1. /\ TypeMap /\ TypeConf /\ TypeSig /\ TypeFlags /\ TypeDisk /\ FaultsOK
      /\ Pointers /\ MainOK /\ HandlerOK
      /\ \A t \in Threads : ThreadOK(t)
  BY Types DEF Control
<1>2. GoOK /\ ObjOK /\ made \in Ref /\ made \in Nat
  BY <1>1, Refs DEF TypeMap
<1>3. \A t \in Threads : go[t] \in ThreadType
  BY <1>2 DEF GoOK
<1>4. \A t \in Threads : /\ go[t].obj \in Ref /\ go[t].obj \in Nat /\ go[t].pc \in PC
                         /\ go[t].todo \subseteq Names /\ go[t].next \in PC
  BY <1>3, ThreadFields, Refs
<1>5. undisturbed \in BOOLEAN
  BY <1>1 DEF TypeFlags
<1>6. ASSUME NEW n \in Names
      PROVE  procs[n] \in Ref /\ (procs[n] # 0 => procs[n] \in Objects) /\ procs[n] <= made
  <2>1. procs[n] \in Ref /\ (procs[n] # 0 => procs[n] \in Objects /\ procs[n] <= made)
    BY <1>1, Refs DEF TypeMap, Named
  <2>2. QED
    BY <1>2, <2>1
<1>7. QED
  BY <1>1, <1>2, <1>3, <1>4, <1>5, <1>6

LEMMA NextSteps ==
    ASSUME Next
    PROVE  \/ MainStep \/ HandlerStep
           \/ \E n \in Names : LoopTick(n)
           \/ HandleExited \/ RestarterWake \/ RestarterFailed
           \/ \E t \in Clients : Serve(t)
           \/ \E t \in Clients, op \in Ops, group \in SUBSET Names : Request(t, op, group)
           \/ \E t \in Threads : ProcessStep(t)
           \/ \E o \in Objects : ChildExit(o)
           \/ Signal \/ PowerLoss
<1>1. ASSUME NEW t \in Clients, NEW op \in Ops,
             NEW group \in IF op \in {"restart-all", "status"} THEN {Names} ELSE Groups
      PROVE  group \in SUBSET Names
  BY ManagerAssumption
<1>2. QED
  BY <1>1, Zenon DEF Next

(* A goroutine that a step moves is where it may be, the others are where they
   were. *)
MovedOK ==
    /\ \A u \in Threads : go'[u] = go[u] \/ ThreadOK(u)'
    /\ go'[Main] = go[Main] \/ MainOK'
    /\ (go'[Handler] = go[Handler] /\ UNCHANGED <<conf, diff, done, disk>>) \/ HandlerOK'

LEMMA Moved ==
    ASSUME Control, MovedOK, made' \in Nat, made' >= made
    PROVE  (\A u \in Threads : ThreadOK(u)') /\ MainOK' /\ HandlerOK'
<1>0. /\ \A u \in Threads : ThreadOK(u) /\ go[u].obj \in Nat
      /\ MainOK /\ HandlerOK /\ made \in Nat
  BY ControlFacts
<1>1. ASSUME NEW u \in Threads PROVE ThreadOK(u)'
  <2>1. CASE go'[u] = go[u]
    <3>1. go'[u] = go[u] /\ go[u].obj <= made /\ go[u].obj \in Nat
      BY <1>0, <2>1 DEF ThreadOK
    <3>2. go'[u].obj <= made'
      BY <1>0, <3>1
    <3>3. QED
      BY <1>0, <3>1, <3>2 DEF ThreadOK
  <2>2. QED
    BY <2>1 DEF MovedOK
<1>2. MainOK'
  BY <1>0, Ts DEF MovedOK, MainOK
<1>3. HandlerOK'
  BY <1>0, Ts DEF MovedOK, HandlerOK, H, Works, Replaces
<1>4. QED
  BY <1>1, <1>2, <1>3

(* A step that changes neither the map nor the objects' names *)
LEMMA SameMap ==
    ASSUME Control, GoOK', ObjOK', SameObjects, UNCHANGED <<procs, made, cancelled>>,
           \A o \in alive' : o \in Objects /\ o <= made
    PROVE  TypeMap' /\ Pointers'
<1>0. TypeMap /\ Pointers /\ \A n \in Names : procs[n] # 0 => procs[n] \in Objects
  BY ControlFacts
<1>1. Named'
  BY <1>0 DEF TypeMap, Named, SameObjects
<1>2. QED
  BY <1>0, <1>1 DEF TypeMap, Pointers, SameObjects

-----------------------------------------------------------------------------
(* The sort by dependencies.  It visits every name of the graph that does not
   depend on a cycle, and of the others only dependencies; without cycles it
   visits the names of the graph. *)

LEMMA SortedNames ==
    ASSUME NEW S \in SUBSET Names, NEW d \in [S -> SUBSET Names],
           \A n \in S : d[n] \subseteq AllDeps(n)
    PROVE  /\ Sorted(d) \subseteq Names
           /\ S \ Looped \subseteq Sorted(d) /\ Sorted(d) \subseteq S \cup Extras
<1>1. DOMAIN d = S
  OBVIOUS
<1>2. Unreached(d) \subseteq Looped
  <2> SUFFICES ASSUME NEW C \in SUBSET S, \A n \in C : d[n] \cap C # {}
               PROVE  C \subseteq Looped
    BY <1>1 DEF Unreached
  <2>1. C \in SUBSET Names /\ \A n \in C : AllDeps(n) \cap C # {}
    OBVIOUS
  <2>2. QED
    BY <2>1, Zenon DEF Looped
<1>3. S \subseteq Nodes(d) /\ Nodes(d) \subseteq Names
      /\ Nodes(d) \subseteq S \cup UNION {AllDeps(n) : n \in Names}
  BY <1>1 DEF Nodes
<1>4. CASE Looped = {}
  <2>1. Unreached(d) = {} /\ Nodes(d) \ Unreached(d) = Nodes(d)
    BY <1>2, <1>4
  <2>2. IsFiniteSet(Nodes(d)) /\ (Cardinality(Nodes(d)) = Cardinality(S) => Nodes(d) = S)
    <3>1. IsFiniteSet(Names) /\ Nodes(d) \in SUBSET Names /\ S \in SUBSET Nodes(d)
      BY <1>3, ManagerAssumption
    <3>2. IsFiniteSet(Nodes(d))
      BY <3>1, FS_Subset
    <3>3. QED
      BY <3>1, <3>2, FS_Subset
  <2>3. Sorted(d) = S
    BY <1>1, <2>1, <2>2 DEF Sorted
  <2>4. QED
    BY <2>3
<1>5. CASE Looped # {}
  <2>1. Extras = UNION {AllDeps(n) : n \in Names}
    BY <1>5 DEF Extras
  <2>2. Sorted(d) = S \/ Sorted(d) = Nodes(d) \ Unreached(d)
    BY <1>1 DEF Sorted
  <2>3. QED
    BY <1>2, <1>3, <2>1, <2>2
<1>6. QED
  BY <1>4, <1>5

LEMMA DepsOf ==
    ASSUME NEW n \in Names, NEW v \in Versions
    PROVE  Deps[n][v] \in SUBSET Names /\ Deps[n][v] \subseteq AllDeps(n)
  BY ManagerAssumption DEF AllDeps

(* what StartAll and StopAll visit *)
LEMMA SortedMap ==
    ASSUME Control
    PROVE  /\ SortedProcesses \subseteq Names
           /\ \A n \in Names \ Looped : Mapped(n) => n \in SortedProcesses
<1> DEFINE S == {m \in Names : Mapped(m)}
           d == [n \in S |-> Deps[n][obj[procs[n]].cfg]]
<1>1. \A n \in S : obj[procs[n]].cfg \in Versions
  BY ControlFacts DEF Pointers, Mapped
<1>2. d \in [S -> SUBSET Names] /\ \A n \in S : d[n] \subseteq AllDeps(n)
  BY <1>1, DepsOf
<1>3. SortedProcesses = Sorted(d) /\ S \in SUBSET Names
  BY DEF SortedProcesses
<1>4. Sorted(d) \subseteq Names /\ S \ Looped \subseteq Sorted(d)
  <2> HIDE DEF d
  <2> QED
    BY <1>2, <1>3, SortedNames
<1>5. QED
  BY <1>3, <1>4

(* what a reload visits *)
SortedDiff(c) ==
    [CompareConfigs(c) EXCEPT !.modified = Sorted([n \in @ |-> Deps[n][c[n]]])]

LEMMA SortedChanges ==
    ASSUME Control, NEW c \in Programs
    PROVE  /\ SortedDiff(c) \in [removed : SUBSET Names, modified : SUBSET Names,
                                 added : SUBSET Names]
           /\ SortedDiff(c).removed = {n \in Names : procs[n] # 0 /\ n \notin DOMAIN c}
           /\ SortedDiff(c).added = {n \in DOMAIN c : procs[n] = 0}
           /\ \A n \in DOMAIN c \ Looped :
                procs[n] # 0 /\ obj[procs[n]].cfg # c[n] => n \in SortedDiff(c).modified
           /\ \A n \in SortedDiff(c).modified :
                n \in Extras \/ (n \in DOMAIN c /\ procs[n] # 0)
<1> DEFINE M == {n \in DOMAIN c : Mapped(n) /\ obj[procs[n]].cfg # c[n]}
           d == [n \in M |-> Deps[n][c[n]]]
<1>1. DOMAIN c \subseteq Names /\ M \in SUBSET Names
  BY ConfigFacts
<1>2. d \in [M -> SUBSET Names] /\ \A n \in M : d[n] \subseteq AllDeps(n)
  BY <1>1, ConfigFacts, DepsOf
<1> DEFINE R == {n \in Names : Mapped(n) /\ n \notin DOMAIN c}
           A == {n \in DOMAIN c : ~Mapped(n)}
<1>a. CompareConfigs(c) = [removed |-> R, added |-> A, modified |-> M]
  BY DEF CompareConfigs
<1>b. SortedDiff(c) = [CompareConfigs(c) EXCEPT !.modified = Sorted(d)]
  <2>1. CompareConfigs(c).modified = M
    <3> HIDE DEF R, A, M
    <3> QED
      BY <1>a
  <2> HIDE DEF R, A, M
  <2>2. QED
    BY <2>1 DEF SortedDiff
<1>3. /\ SortedDiff(c).removed = R /\ SortedDiff(c).added = A
      /\ SortedDiff(c).modified = Sorted(d)
      /\ SortedDiff(c) = [removed |-> R, modified |-> Sorted(d), added |-> A]
  <2> HIDE DEF R, A, M, d
  <2> QED
    BY <1>a, <1>b
<1>4. /\ Sorted(d) \subseteq Names
      /\ M \ Looped \subseteq Sorted(d) /\ Sorted(d) \subseteq M \cup Extras
  <2> HIDE DEF d
  <2> QED
    BY <1>1, <1>2, SortedNames
<1>5. SortedDiff(c) \in [removed : SUBSET Names, modified : SUBSET Names, added : SUBSET Names]
  <2>1. R \subseteq Names /\ A \subseteq Names
    BY <1>1
  <2> HIDE DEF M, d, R, A
  <2> QED
    BY <1>3, <1>4, <2>1
<1>6. QED
  <2> HIDE DEF d
  <2> QED
    BY <1>3, <1>4, <1>5 DEF Mapped

-----------------------------------------------------------------------------
(* Control: the initial state and each step *)

LEMMA InitControl == Init => Control
<1> SUFFICES ASSUME Init PROVE Control
  OBVIOUS
<1>0. "add" \in PC /\ "STOPPED" \in States
  BY DEF PC, States
<1>1. \A t \in Threads : go[t] = IF t = Main THEN [Idle EXCEPT !.pc = "add"] ELSE Idle
  BY Ts DEF Init, Blank
<1>2. /\ [Idle EXCEPT !.pc = "add"] \in ThreadType
      /\ [Idle EXCEPT !.pc = "add"].pc = "add" /\ [Idle EXCEPT !.pc = "add"].obj = 0
      /\ [Idle EXCEPT !.pc = "add"].next = "idle" /\ [Idle EXCEPT !.pc = "add"].op = "none"
  BY <1>0, IdleFields DEF ThreadType, Idle
<1>3. GoOK
  <2>1. go = [Blank.go EXCEPT ![Main].pc = "add"] /\ Blank.go = [t \in Threads |-> Idle]
    BY DEF Init, Blank
  <2>2. QED
    BY <1>1, <1>2, <2>1, IdleFields DEF GoOK
<1>4. TypeMap
  <2>1. procs = [n \in Names |-> 0]
        /\ obj = [o \in Objects |-> [name |-> "", cfg |-> "", state |-> "STOPPED"]]
    BY DEF Init, Blank
  <2>2. ObjOK
    BY <1>0, <2>1 DEF ObjOK, ObjType
  <2>3. QED
    BY <1>3, <2>1, <2>2, Refs, ZenonT(40) DEF TypeMap, Named, Init
<1>5. TypeConf
  BY ManagerAssumption DEF TypeConf, Init, Nothing
<1>6. TypeSig /\ FaultsOK
  <2>1. Len(<<>>) = 0 /\ <<>> \in Seq({"HUP", "TERM"})
    OBVIOUS
  <2>2. QED
    BY <2>1 DEF TypeSig, FaultsOK, Init
<1>7. TypeFlags /\ TypeDisk
  BY DEF TypeFlags, TypeDisk, Init
<1>8. Pointers
  BY Refs DEF Pointers, Init
<1>9. \A t \in Threads : ThreadOK(t)
  <2>1. made = 0 /\ "idle" \notin Holds /\ "add" \notin Holds
    BY DEF Init, Holds, Starts, Stops
  <2>2. \A t \in Threads : /\ go[t].obj = 0 /\ go[t].pc \in {"idle", "add"} /\ go[t].next = "idle"
                           /\ t \in Clients => go[t].pc = "idle"
    BY <1>1, <1>2, IdleFields, Ts
  <2>3. \A t \in Threads : go[t].obj <= made
    BY <2>1, <2>2
  <2>4. \A t \in Threads : go[t].pc \notin Holds
    BY <2>1, <2>2
  <2>5. QED
    BY <2>2, <2>3, <2>4 DEF ThreadOK
<1>10. MainOK
  BY <1>1, <1>2, Ts DEF MainOK
<1>11. HandlerOK
  <2>1. H = Idle /\ "idle" \notin Stops /\ "idle" \notin Starts
    BY <1>1, Ts DEF H, Stops, Starts
  <2>2. diff.added = {} /\ done = FALSE
    BY DEF Init, Nothing
  <2>3. QED
    BY <2>1, <2>2, IdleFields DEF HandlerOK, Works, Replaces
<1>12. QED
  BY <1>4, <1>5, <1>6, <1>7, <1>8, <1>9, <1>10, <1>11, Types DEF Control

LEMMA ProcessPointer ==
    ASSUME Control, NEW t \in Threads, ProcessStep(t)
    PROVE  go[t].obj \in Objects /\ go[t].obj <= made
<1>1. go[t].pc \in Holds
  BY DEF ProcessStep, StartReserve, Attach, StartFork, StopEnter, StopDone, Detach,
         RestartEnter, RestartStart, At, Holds, Starts, Stops
<1>2. QED
  BY <1>1, ControlFacts, Refs DEF ThreadOK

(* where a step of Start, Stop or Restart leaves its goroutine *)
LEMMA MovesOK ==
    ASSUME Control, NEW t \in Threads, Moves(t), UNCHANGED <<made, conf, diff, done, disk>>,
           go[t].obj # 0
    PROVE  ThreadOK(t)' /\ (t = Main => MainOK') /\ (t = Handler => HandlerOK')
<1>0. ThreadOK(t) /\ MainOK /\ HandlerOK /\ made \in Nat /\ go[t].pc # "idle"
  BY ControlFacts DEF Moves, Starts, Stops
<1>1. /\ go'[t].next = go[t].next /\ go'[t].op = go[t].op /\ go'[t].name = go[t].name
      /\ Returns(t) \/ GoesOn(t)
      /\ go[t].pc \in Starts \cup Stops \cup {"restart", "restarted"}
  BY DEF Moves
<1>2. t # Handler => {"idle", "startAll", "serve"} \cap Holds = {} /\ go[t].next \notin Holds
  BY <1>0 DEF ThreadOK, Holds, Starts, Stops
<1>3. ThreadOK(t)'
  <2>1. go'[t].obj <= made'
    BY <1>0, <1>1 DEF ThreadOK, Returns, GoesOn
  <2>2. go'[t].pc \in Holds => go'[t].obj # 0
    BY <1>1, <1>2 DEF Returns, GoesOn
  <2>3. QED
    BY <1>0, <1>1, <2>1, <2>2 DEF ThreadOK
<1>4. ASSUME t = Main PROVE MainOK'
  <2>1. go[Main].pc \in Starts
    BY <1>0, <1>1, <1>4 DEF MainOK, Starts, Stops
  <2>2. go'[Main].pc \in {"attach", "fork"} \/ go'[Main].pc = go[Main].next
    BY <1>1, <1>4, <2>1, Ts DEF Returns, GoesOn, Starts, Stops
  <2>3. QED
    BY <1>0, <1>1, <1>4, <2>2 DEF MainOK, Starts
<1>5. ASSUME t = Handler PROVE HandlerOK'
  <2>1. H' = go'[t] /\ H = go[t] /\ H.pc \in Starts \cup Stops /\ ~done
    BY <1>0, <1>1, <1>5 DEF H, HandlerOK, Starts, Stops, Shuts
  <2>2. CASE H.pc \in Starts
    <3>1. H.next = "reload" /\ H.pc \notin Stops
      BY <1>0, <2>2 DEF HandlerOK, Starts, Stops
    <3>2. H'.pc \in {"attach", "fork", "reload"}
      BY <1>1, <1>5, <2>1, <2>2, <3>1, Ts DEF Returns, GoesOn, Starts
    <3>3. H'.pc \notin Stops \cup {"cancel", "delete", "readd", "lookup", "rename"}
      BY <3>2 DEF Stops
    <3>4. QED
      BY <1>0, <1>1, <2>1, <3>1, <3>2, <3>3 DEF HandlerOK, Works, Replaces, Starts
  <2>3. CASE H.pc \in Stops
    <3>1. H.next \in {"cancel", "stopAll"} /\ H.op = "none" /\ H.pc \notin Starts
      BY <1>0, <2>3 DEF HandlerOK, Starts, Stops
    <3>2. H'.pc \in {"stopwait", "detach"} \/ H'.pc = H.next
      BY <1>1, <2>1, <2>3, <3>1 DEF Returns, GoesOn, Stops
    <3>3. H'.pc \in Stops \cup {"cancel", "stopAll"} /\ H'.pc \notin Starts
      BY <3>1, <3>2 DEF Stops, Starts
    <3>4. Works' => Works
      BY <1>1, <2>1, <2>3, <3>1, <3>2 DEF Works, Replaces, Stops
    <3>5. H'.pc \notin {"readd", "lookup", "rename"}
      BY <3>3 DEF Stops
    <3>6. QED
      BY <1>0, <1>1, <2>1, <3>1, <3>3, <3>4, <3>5 DEF HandlerOK
  <2>4. QED
    BY <2>1, <2>2, <2>3
<1>6. QED
  BY <1>3, <1>4, <1>5

LEMMA ProcessControl == ASSUME Control, NEW t \in Threads, ProcessStep(t) PROVE Control'
<1>0. /\ TypeMap /\ TypeConf /\ TypeSig /\ TypeFlags /\ TypeDisk /\ FaultsOK /\ Pointers
      /\ made \in Nat
  BY ControlFacts
<1>1. go[t].obj \in Objects /\ go[t].obj <= made /\ go[t].obj # 0
  BY ProcessPointer, Refs
<1>2. /\ Moves(t) /\ ObjOK' /\ SameObjects /\ Else /\ GoOK'
      /\ alive' \subseteq alive \cup {go[t].obj}
      /\ FaultsOK' /\ undisturbed' \in BOOLEAN
  BY <1>1, ControlFacts, ProcessMoves DEF Moves
<1>3. TypeMap' /\ Pointers'
  <2>1. \A o \in alive' : o \in Objects /\ o <= made
    BY <1>0, <1>1, <1>2 DEF TypeMap, Pointers
  <2>2. QED
    BY <1>2, <2>1, SameMap DEF Else
<1>4. TypeConf' /\ TypeSig' /\ TypeDisk'
  BY <1>0, <1>2 DEF TypeConf, TypeSig, TypeDisk, Else
<1>5. TypeFlags'
  <2>1. UNCHANGED <<termSent, done>>
    BY <1>2 DEF Else
  <2>2. QED
    BY <1>0, <1>2, <2>1, Zenon DEF TypeFlags
<1>6. ThreadOK(t)' /\ (t = Main => MainOK') /\ (t = Handler => HandlerOK')
  BY <1>1, <1>2, MovesOK DEF Else
<1>7. (\A u \in Threads : ThreadOK(u)') /\ MainOK' /\ HandlerOK'
  <2>1. made' = made /\ UNCHANGED <<conf, diff, done, disk>>
    BY <1>2 DEF Else
  <2>2. MovedOK
    BY <1>2, <1>6, <2>1, Ts DEF Moves, MovedOK
  <2>3. made' \in Nat /\ made' >= made
    BY <1>0, <2>1
  <2>4. QED
    BY <2>2, <2>3, Moved
<1>8. QED
  BY <1>2, <1>3, <1>4, <1>5, <1>7, TypesNext DEF Control

(* A step that leaves the map alone *)
LEMMA GoControl ==
    ASSUME Control, GoOK', MovedOK,
           ObjOK', SameObjects, UNCHANGED <<procs, made, cancelled>>, alive' \subseteq alive,
           TypeConf', TypeSig', TypeFlags', TypeDisk', FaultsOK'
    PROVE  Control'
<1>0. TypeMap /\ Pointers /\ made \in Nat
  BY ControlFacts
<1>1. \A o \in alive' : o \in Objects /\ o <= made
  BY <1>0 DEF TypeMap, Pointers
<1>2. TypeMap' /\ Pointers'
  BY <1>1, SameMap
<1>3. made' \in Nat /\ made' >= made
  BY <1>0
<1>4. (\A u \in Threads : ThreadOK(u)') /\ MainOK' /\ HandlerOK'
  BY <1>3, Moved
<1>5. QED
  BY <1>2, <1>4, TypesNext DEF Control

(* What stays typed when it stays *)
LEMMA TypeFrame ==
    ASSUME Control
    PROVE  /\ UNCHANGED <<adding, conf, diff>> => TypeConf'
           /\ UNCHANGED <<sigs, sent, calls>> => TypeSig'
           /\ UNCHANGED <<undisturbed, termSent, done>> => TypeFlags'
           /\ UNCHANGED <<disk, phase>> => TypeDisk'
           /\ UNCHANGED faults => FaultsOK'
           /\ UNCHANGED obj => ObjOK' /\ SameObjects
<1>0. TypeConf /\ TypeSig /\ TypeFlags /\ TypeDisk /\ FaultsOK /\ ObjOK
  BY ControlFacts
<1>1. UNCHANGED <<adding, conf, diff>> => TypeConf'
  BY <1>0 DEF TypeConf
<1>2. UNCHANGED <<sigs, sent, calls>> => TypeSig'
  BY <1>0 DEF TypeSig
<1>3. UNCHANGED <<undisturbed, termSent, done>> => TypeFlags'
  BY <1>0 DEF TypeFlags
<1>4. UNCHANGED <<disk, phase>> => TypeDisk'
  BY <1>0 DEF TypeDisk
<1>5. UNCHANGED faults => FaultsOK'
  BY <1>0 DEF FaultsOK
<1>6. UNCHANGED obj => ObjOK' /\ SameObjects
  BY <1>0, UnchangedObjects
<1>7. QED
  BY <1>1, <1>2, <1>3, <1>4, <1>5, <1>6

LEMMA DisturbFlags ==
    ASSUME Control, NEW t, Disturb(t), UNCHANGED <<termSent, done>>
    PROVE  TypeFlags'
<1>1. TypeFlags /\ undisturbed \in BOOLEAN
  BY ControlFacts
<1>2. undisturbed' \in BOOLEAN
  BY <1>1, DisturbStays
<1>3. QED
  BY <1>1, <1>2, Zenon DEF TypeFlags

(* A child exits: nobody moves. *)
LEMMA ExitControl == ASSUME Control, NEW o \in Objects, ChildExit(o) PROVE Control'
<1>0. /\ ObjOK /\ GoOK /\ FaultsOK /\ State(o) \in States
      /\ \A t \in Threads : ThreadOK(t)
  BY ControlFacts, StateIn
<1>1. /\ UNCHANGED <<procs, made, cancelled, go, conf, diff, sigs, done, phase, undisturbed,
                     adding, disk, sent, termSent, calls>>
      /\ alive' \subseteq alive /\ (Fault \/ UNCHANGED faults)
      /\ SetState(o, "STOPPING") \/ SetState(o, "EXITED")
  BY DEF ChildExit, rest
<1>2. ObjOK' /\ SameObjects
  BY <1>0, <1>1, StateTo DEF States
<1>3. FaultsOK' /\ GoOK'
  BY <1>0, <1>1, FaultStays DEF GoOK
<1>4. TypeConf' /\ TypeSig' /\ TypeFlags' /\ TypeDisk'
  BY <1>1, TypeFrame
<1>5. MovedOK
  BY <1>1 DEF MovedOK
<1>6. QED
  BY <1>1, <1>2, <1>3, <1>4, <1>5, GoControl

(* A signal arrives. *)
LEMMA SignalControl == ASSUME Control, Signal PROVE Control'
<1>0. /\ GoOK /\ TypeSig /\ TypeFlags /\ \A t \in Threads : ThreadOK(t)
  BY ControlFacts
<1>1. /\ UNCHANGED <<procs, obj, made, cancelled, alive, go, adding, conf, diff, done, phase,
                     disk, undisturbed, calls, faults>>
      /\ \/ sent < MaxReloads /\ sent' = sent + 1 /\ Notify("HUP") /\ UNCHANGED termSent
         \/ termSent' = TRUE /\ Notify("TERM") /\ UNCHANGED sent
  BY DEF Signal
<1>2. TypeSig'
  <2>1. sigs \in Seq({"HUP", "TERM"}) /\ Len(sigs) <= SigBuffer /\ Len(sigs) \in Nat
    BY <1>0 DEF TypeSig
  <2>2. sent' \in 0 .. MaxReloads
    BY <1>0, <1>1 DEF TypeSig
  <2>3. PICK x \in {"HUP", "TERM"} : Notify(x)
    BY <1>1
  <2>4. CASE Len(sigs) < SigBuffer
    <3>1. sigs' = Append(sigs, x)
      BY <2>3, <2>4 DEF Notify
    <3>2. sigs' \in Seq({"HUP", "TERM"}) /\ Len(sigs') = Len(sigs) + 1
      BY <2>1, <2>3, <3>1
    <3>3. QED
      BY <1>0, <1>1, <2>1, <2>2, <2>4, <3>2 DEF TypeSig
  <2>5. CASE ~(Len(sigs) < SigBuffer)
    BY <1>0, <1>1, <2>1, <2>2, <2>3, <2>5 DEF TypeSig, Notify
  <2>6. QED
    BY <2>4, <2>5
<1>3. TypeFlags'
  BY <1>0, <1>1 DEF TypeFlags
<1>4. TypeConf' /\ TypeDisk' /\ FaultsOK' /\ ObjOK' /\ SameObjects /\ GoOK'
  BY <1>0, <1>1, TypeFrame DEF GoOK
<1>5. MovedOK
  BY <1>1 DEF MovedOK
<1>6. QED
  BY <1>1, <1>2, <1>3, <1>4, <1>5, GoControl

(* The machine goes down. *)
LEMMA PowerControl == ASSUME Control, PowerLoss PROVE Control'
<1>0. TypeFlags /\ TypeSig /\ TypeDisk /\ FaultsOK
  BY ControlFacts
<1>1. /\ go' = [t \in Threads |-> Idle] /\ procs' = [n \in Names |-> 0]
      /\ obj' = [o \in Objects |-> [name |-> "", cfg |-> "", state |-> "STOPPED"]]
      /\ made' = 0 /\ cancelled' = {} /\ alive' = {} /\ conf' = NoPrograms
      /\ diff' = Nothing /\ sigs' = <<>> /\ done' = FALSE /\ undisturbed' = FALSE
      /\ adding' = NoPrograms /\ phase' = "down"
      /\ UNCHANGED <<sent, termSent, calls, faults>>
  BY DEF PowerLoss, Blank
<1>2. GoOK' /\ \A t \in Threads : go'[t] = Idle
  BY <1>1, IdleFields DEF GoOK
<1>3. TypeMap'
  <2>1. ObjOK'
    BY <1>1 DEF ObjOK, ObjType, States
  <2>2. QED
    BY <1>1, <1>2, <2>1, Refs DEF TypeMap, Named
<1>4. TypeConf'
  BY <1>1, ConfigFacts DEF TypeConf, Nothing
<1>5. TypeSig' /\ FaultsOK'
  <2>1. Len(<<>>) <= SigBuffer /\ <<>> \in Seq({"HUP", "TERM"})
    OBVIOUS
  <2>2. TypeSig'
    BY <1>0, <1>1, <2>1 DEF TypeSig
  <2>3. FaultsOK'
    BY <1>0, <1>1 DEF FaultsOK
  <2>4. QED
    BY <2>2, <2>3
<1>6. TypeFlags'
  BY <1>0, <1>1 DEF TypeFlags
<1>7. TypeDisk'
  BY <1>0, <1>1 DEF TypeDisk, PowerLoss
<1>8. Pointers'
  <2>1. \A o \in Objects : ~(o <= 0)
    BY Refs
  <2>2. QED
    BY <1>1, <2>1 DEF Pointers
<1>9. \A t \in Threads : ThreadOK(t)'
  <2>1. "idle" \notin Holds
    BY DEF Holds, Starts, Stops
  <2>2. \A t \in Threads : go'[t].obj <= made'
    <3>1. \A t \in Threads : go'[t].obj = 0
      BY <1>2, IdleFields
    <3>2. made' = 0
      BY <1>1
    <3>3. QED
      BY <3>1, <3>2
  <2>3. QED
    BY <1>2, <2>1, <2>2, IdleFields DEF ThreadOK
<1>10. MainOK'
  BY <1>2, IdleFields, Ts DEF MainOK
<1>11. HandlerOK'
  <2>1. H' = Idle /\ "idle" \notin Stops /\ "idle" \notin Starts
    BY <1>2, Ts DEF H, Stops, Starts
  <2>2. diff'.added = {} /\ done' = FALSE
    BY <1>1 DEF Nothing
  <2>3. QED
    BY <2>1, <2>2, IdleFields DEF HandlerOK, Works, Replaces
<1>12. QED
  BY <1>3, <1>4, <1>5, <1>6, <1>7, <1>8, <1>9, <1>10, <1>11, TypesNext DEF Control

(* The monitor loop and its restart goroutine *)
LEMMA LoopControl ==
    ASSUME Control,
           (\E n \in Names : LoopTick(n)) \/ HandleExited \/ RestarterWake \/ RestarterFailed
    PROVE  Control'
<1>0. /\ ObjOK /\ GoOK /\ \A t \in Threads : ThreadOK(t) /\ go[t] \in ThreadType
      /\ \A n \in Names : procs[n] \in Ref /\ (procs[n] # 0 => procs[n] \in Objects)
                          /\ procs[n] <= made
      /\ \A t \in Threads : go[t].obj # 0 => go[t].obj \in Objects
  BY ControlFacts, Refs
<1>a. "idle" \notin Holds /\ "check" \in PC /\ "asleep" \in PC /\ "start" \in PC
      /\ ThreadOK(Loop) /\ ThreadOK(Restarter) /\ 0 <= made
  BY <1>0, ControlFacts, Ts DEF PC, Holds, Starts, Stops
<1>b. \A u \in Threads : u \notin Clients /\ u # Handler /\ go'[u] = Idle => ThreadOK(u)'
        \/ made' # made
  BY <1>a, IdleFields DEF ThreadOK
<1>1. ASSUME NEW n \in Names, LoopTick(n) PROVE Control'
  <2> DEFINE r == [go[Loop] EXCEPT !.pc = "check", !.obj = procs[n]]
  <2>1. /\ go' = [go EXCEPT ![Loop] = r] /\ procs[n] # 0
        /\ UNCHANGED <<procs, obj, made, cancelled, alive, conf, diff, sigs, done, phase,
                       undisturbed, faults, adding, disk, sent, termSent, calls>>
    BY <1>1 DEF LoopTick, Mapped, rest
  <2>2. /\ r \in ThreadType /\ r.pc = "check" /\ r.obj = procs[n] /\ r.next = go[Loop].next
    BY <1>0, <1>a, Ts DEF ThreadType
  <2>3. GoOK' /\ go'[Loop] = r /\ \A u \in Threads : u # Loop => go'[u] = go[u]
    BY <1>0, <2>1, <2>2, SetTo, Ts
  <2>4. ThreadOK(Loop)'
    BY <1>0, <1>a, <2>1, <2>2, <2>3, Ts DEF ThreadOK
  <2>5. MovedOK
    BY <2>1, <2>3, <2>4, Ts DEF MovedOK
  <2>6. QED
    BY <2>1, <2>3, <2>5, TypeFrame, GoControl
<1>2. CASE HandleExited
  <2> DEFINE o == go[Loop].obj
             r == [go[Restarter] EXCEPT !.pc = "asleep", !.obj = o]
  <2>1. /\ go[Loop].pc = "check" /\ Disturb(Loop)
        /\ \/ UNCHANGED obj /\ go' = [go EXCEPT ![Loop] = Idle]
           \/ SetState(o, "FATAL") /\ go' = [go EXCEPT ![Loop] = Idle]
           \/ SetState(o, "STARTING") /\ go' = [go EXCEPT ![Loop] = Idle, ![Restarter] = r]
        /\ UNCHANGED <<procs, made, cancelled, alive, conf, diff, sigs, done, phase, faults,
                       adding, disk, sent, termSent, calls>>
    BY <1>2, Ts DEF HandleExited, At, rest
  <2>2. o # 0 /\ o \in Objects /\ o <= made
    <3>1. "check" \in Holds
      BY DEF Holds
    <3>2. QED
      BY <1>0, <1>a, <2>1, <3>1, Ts DEF ThreadOK
  <2>3. ObjOK' /\ SameObjects
    BY <1>0, <2>1, <2>2, StateTo, UnchangedObjects DEF States
  <2>4. /\ r \in ThreadType /\ r.pc = "asleep" /\ r.obj = o /\ r.next = go[Restarter].next
    BY <1>0, <1>a, Ts DEF ThreadType
  <2>5. GoOK' /\ go'[Loop] = Idle /\ (go'[Restarter] = r \/ go'[Restarter] = go[Restarter])
        /\ \A u \in Threads : u # Loop /\ u # Restarter => go'[u] = go[u]
    BY <1>0, <2>1, <2>4, IdleFields, Ts DEF GoOK
  <2>6. ThreadOK(Loop)'
    BY <1>b, <2>1, <2>5, Ts
  <2>7. go'[Restarter] = r => ThreadOK(Restarter)'
    BY <1>a, <2>1, <2>2, <2>4, Ts DEF ThreadOK
  <2>8. MovedOK
    BY <2>1, <2>5, <2>6, <2>7, Ts DEF MovedOK
  <2>9. QED
    BY <2>1, <2>3, <2>5, <2>8, TypeFrame, DisturbFlags, GoControl
<1>3. CASE RestarterWake \/ RestarterFailed
  <2> DEFINE o == go[Restarter].obj
  <2>1. /\ go[Restarter].pc \in {"asleep", "failed"}
        /\ SetState(o, "EXITED") \/ SetState(o, "FATAL") \/ UNCHANGED obj
        /\ Goto(Restarter, "start") \/ go' = [go EXCEPT ![Restarter] = Idle]
        /\ UNCHANGED <<procs, made, cancelled, alive, conf, diff, sigs, done, phase,
                       undisturbed, faults, adding, disk, sent, termSent, calls>>
    BY <1>3 DEF RestarterWake, RestarterFailed, At, rest
  <2>2. o # 0 /\ o \in Objects /\ o <= made
    <3>1. {"asleep", "failed"} \subseteq Holds
      BY DEF Holds
    <3>2. QED
      BY <1>0, <1>a, <2>1, <3>1, Ts DEF ThreadOK
  <2>3. ObjOK' /\ SameObjects
    BY <1>0, <2>1, <2>2, StateTo, UnchangedObjects DEF States
  <2>4. /\ GoOK' /\ \A u \in Threads : u # Restarter => go'[u] = go[u]
        /\ \/ go'[Restarter] = Idle
           \/ go'[Restarter].obj = o /\ go'[Restarter].next = go[Restarter].next
    BY <1>0, <1>a, <2>1, PcTo, SetTo, IdleFields, Ts
  <2>5. ThreadOK(Restarter)'
    <3>1. CASE go'[Restarter] = Idle
      BY <1>b, <2>1, <3>1, Ts
    <3>2. CASE go'[Restarter].obj = o /\ go'[Restarter].next = go[Restarter].next
      BY <1>a, <2>1, <2>2, <3>2, Ts DEF ThreadOK
    <3>3. QED
      BY <2>4, <3>1, <3>2
  <2>6. MovedOK
    BY <2>1, <2>4, <2>5, Ts DEF MovedOK
  <2>7. QED
    BY <2>1, <2>3, <2>4, <2>6, TypeFrame, GoControl
<1>4. QED
  BY <1>1, <1>2, <1>3

(* The requests *)
LEMMA RequestControl ==
    ASSUME Control, NEW t \in Clients,
           \/ Serve(t)
           \/ \E op \in Ops, group \in SUBSET Names : Request(t, op, group)
    PROVE  Control'
<1>0. /\ GoOK /\ ThreadOK(t) /\ go[t] \in ThreadType /\ t \in Threads
      /\ t # Main /\ t # Handler /\ 0 <= made /\ go[t].todo \subseteq Names
      /\ \A n \in Names : procs[n] \in Ref /\ procs[n] <= made
  BY ControlFacts, Ts
<1>a. "serve" \in PC /\ "serve" \notin Holds /\ "idle" \notin Holds
  BY DEF PC, Holds, Starts, Stops
<1>1. CASE Serve(t)
  <2>1. /\ go[t].pc = "serve" /\ go[t].op \in Ops
        /\ UNCHANGED <<procs, obj, made, cancelled, alive, conf, diff, sigs, done, phase,
                       undisturbed, faults, adding, disk, sent, termSent, calls>>
    BY <1>0, <1>1 DEF Serve, At, rest, ThreadOK
  <2>2. CASE go[t].todo = {}
    <3>1. go' = [go EXCEPT ![t] = Idle]
      BY <1>1, <2>2 DEF Serve
    <3>2. GoOK' /\ go'[t] = Idle /\ \A u \in Threads : u # t => go'[u] = go[u]
      BY <1>0, <3>1, SetTo, IdleFields
    <3>3. ThreadOK(t)'
      BY <1>0, <1>a, <2>1, <3>2, IdleFields DEF ThreadOK
    <3>4. MovedOK
      BY <1>0, <2>1, <3>2, <3>3, Ts DEF MovedOK
    <3>5. QED
      BY <2>1, <3>2, <3>4, TypeFrame, GoControl
  <2>3. CASE go[t].todo # {}
    <3> DEFINE looks(n) == ~Mapped(n) \/ go[t].op = "status"
               p(n) == IF looks(n) THEN "serve"
                       ELSE IF go[t].op = "restart-all" THEN "restart"
                       ELSE go[t].op
               r(n) == [go[t] EXCEPT !.todo = go[t].todo \ {n},
                                     !.obj = IF looks(n) THEN 0 ELSE procs[n],
                                     !.next = "serve", !.pc = p(n)]
    <3>1. PICK n \in go[t].todo : go' = [go EXCEPT ![t] = r(n)]
      BY <1>1, <2>3 DEF Serve
    <3>2. n \in Names
      BY <1>0
    <3>3. p(n) \in {"serve", "restart", "start", "stop"} /\ (p(n) \in Holds => ~looks(n))
      <4>1. CASE looks(n)
        <5>1. p(n) = "serve"
          BY <4>1
        <5>2. QED
          BY <1>a, <5>1
      <4>2. CASE ~looks(n)
        <5>1. go[t].op \in {"start", "stop", "restart", "restart-all"}
          BY <2>1, <4>2
        <5>2. p(n) = IF go[t].op = "restart-all" THEN "restart" ELSE go[t].op
          BY <4>2
        <5>3. QED
          BY <4>2, <5>1, <5>2
      <4>3. QED
        BY <4>1, <4>2
    <3>4. {"serve", "restart", "start", "stop"} \subseteq PC
      BY DEF PC
    <3>5. (IF looks(n) THEN 0 ELSE procs[n]) \in Ref
      BY <1>0, <3>2, Refs
    <3>6. /\ r(n) \in ThreadType /\ r(n).pc = p(n) /\ r(n).next = "serve"
          /\ r(n).op = go[t].op /\ r(n).obj = IF looks(n) THEN 0 ELSE procs[n]
      <4> HIDE DEF p, looks
      <4>1. p(n) \in PC /\ "serve" \in PC /\ go[t].todo \ {n} \subseteq Names
        BY <1>0, <3>3, <3>4
      <4>2. QED
        BY <1>0, <3>5, <4>1 DEF ThreadType
    <3>7. GoOK' /\ go'[t] = r(n) /\ \A u \in Threads : u # t => go'[u] = go[u]
      <4> HIDE DEF r
      <4> QED
        BY <1>0, <3>1, <3>6, SetTo
    <3>8. ThreadOK(t)'
      <4>1. r(n).obj <= made /\ (p(n) \in Holds => r(n).obj # 0)
        <5> HIDE DEF r, p
        <5>1. looks(n) => r(n).obj = 0
          BY <3>6
        <5>2. ~looks(n) => r(n).obj = procs[n] /\ procs[n] # 0 /\ procs[n] <= made
          BY <1>0, <3>2, <3>6 DEF Mapped
        <5>3. QED
          BY <1>0, <3>3, <5>1, <5>2
      <4>2. go'[t].obj <= made' /\ (go'[t].pc \in Holds => go'[t].obj # 0)
        <5> HIDE DEF r, p
        <5> QED
          BY <2>1, <3>6, <3>7, <4>1
      <4>3. go'[t].next = "serve" /\ go'[t].op \in Ops
        <5> HIDE DEF r, p
        <5> QED
          BY <2>1, <3>6, <3>7
      <4>4. QED
        BY <4>2, <4>3 DEF ThreadOK
    <3>9. MovedOK
      BY <1>0, <2>1, <3>7, <3>8, Ts DEF MovedOK
    <3>10. QED
      BY <2>1, <3>7, <3>9, TypeFrame, GoControl
  <2>4. QED
    BY <2>2, <2>3
<1>2. ASSUME NEW op \in Ops, NEW group \in SUBSET Names,
             Request(t, op, group)
      PROVE  Control'
  <2> DEFINE r == [go[t] EXCEPT !.pc = "serve", !.op = op,
                         !.todo = {n \in group : Mapped(n)}]
  <2>1. /\ go' = [go EXCEPT ![t] = r] /\ calls < MaxCalls /\ calls' = calls + 1
        /\ UNCHANGED <<procs, obj, made, cancelled, alive, adding, conf, diff, sigs, done,
                       phase, disk, undisturbed, sent, termSent, faults>>
    BY <1>2 DEF Request
  <2>2. {n \in group : Mapped(n)} \subseteq Names
    OBVIOUS
  <2>3. /\ r \in ThreadType /\ r.pc = "serve" /\ r.op = op /\ r.obj = go[t].obj
        /\ r.next = go[t].next
    BY <1>0, <1>a, <2>2 DEF ThreadType
  <2>4. GoOK' /\ go'[t] = r /\ \A u \in Threads : u # t => go'[u] = go[u]
    BY <1>0, <2>1, <2>3, SetTo
  <2>5. ThreadOK(t)'
    BY <1>0, <1>a, <2>1, <2>3, <2>4 DEF ThreadOK
  <2>6. TypeSig'
    <3>1. TypeSig
      BY ControlFacts
    <3>2. calls' \in 0 .. MaxCalls
      BY <2>1, <3>1 DEF TypeSig
    <3>3. QED
      BY <2>1, <3>1, <3>2 DEF TypeSig
  <2>7. MovedOK
    BY <1>0, <2>1, <2>4, <2>5, Ts DEF MovedOK
  <2>8. QED
    BY <2>1, <2>4, <2>6, <2>7, TypeFrame, GoControl
<1>3. QED
  BY <1>1, <1>2

(* AddProcess: the next object, under a name that is not in the map *)
LEMMA AddMap ==
    ASSUME Control, NEW n \in Names, NEW c \in Programs, n \in DOMAIN c, AddProcess(n, c),
           GoOK', UNCHANGED <<cancelled, alive>>
    PROVE  /\ TypeMap' /\ Pointers' /\ made' \in Nat /\ made' >= made
           /\ made' = made + 1 /\ made + 1 \in Objects /\ made \in Nat
           /\ procs'[n] = made + 1 /\ \A m \in Names : m # n => procs'[m] = procs[m]
           /\ obj'[made + 1].name = n /\ obj'[made + 1].cfg = c[n]
           /\ \A o \in Objects : o # made + 1 => obj'[o] = obj[o]
<1>0. /\ TypeMap /\ Pointers /\ ObjOK /\ made \in Ref /\ made \in Nat
      /\ procs \in [Names -> Ref] /\ Named
  BY ControlFacts DEF TypeMap
<1> DEFINE r == [name |-> n, cfg |-> c[n], state |-> "STOPPED"]
<1>1. /\ made' = made + 1 /\ obj' = [obj EXCEPT ![made + 1] = r]
      /\ procs' = [procs EXCEPT ![n] = made + 1] /\ made < MaxObjects
  BY DEF AddProcess
<1>2. made + 1 \in Objects /\ made + 1 \in Ref
  BY <1>0, <1>1, Refs
<1>3. r \in ObjType
  BY ConfigFacts DEF ObjType, States
<1>4. /\ ObjOK' /\ obj'[made + 1] = r
      /\ \A o \in Objects : o # made + 1 => obj'[o] = obj[o]
  <2> HIDE DEF r
  <2> QED
    BY <1>0, <1>1, <1>2, <1>3 DEF ObjOK
<1>5. /\ procs' \in [Names -> Ref] /\ procs'[n] = made + 1
      /\ \A m \in Names : m # n => procs'[m] = procs[m]
  BY <1>0, <1>1, <1>2
<1>6. made' \in Nat /\ made' >= made /\ \A o \in Nat : o <= made => o <= made' /\ o # made + 1
  BY <1>0, <1>1
<1>7. obj'[made + 1].name = n /\ obj'[made + 1].cfg = c[n]
  BY <1>4
<1>8. Named'
  <2> SUFFICES ASSUME NEW m \in Names, procs'[m] # 0
               PROVE  obj'[procs'[m]].name = m /\ procs'[m] <= made'
    BY DEF Named
  <2>1. CASE m = n
    BY <1>1, <1>5, <1>6, <1>7, <2>1
  <2>2. CASE m # n
    <3>1. procs'[m] = procs[m] /\ procs[m] \in Objects /\ procs[m] \in Nat
          /\ procs[m] <= made /\ obj[procs[m]].name = m
      BY <1>0, <1>5, <2>2, Refs DEF Named
    <3>2. QED
      BY <1>4, <1>6, <3>1
  <2>3. QED
    BY <2>1, <2>2
<1>9. TypeMap'
  BY <1>0, <1>1, <1>2, <1>4, <1>5, <1>8 DEF TypeMap
<1>10. Pointers'
  <2>1. ASSUME NEW o \in Objects, o <= made'
        PROVE  obj'[o].name \in Names /\ obj'[o].cfg \in Versions
    <3>1. CASE o = made + 1
      BY <1>7, <3>1, ConfigFacts
    <3>2. CASE o # made + 1
      <4>1. o \in Nat /\ o <= made + 1
        BY <1>1, <2>1, Refs
      <4>2. o <= made
        BY <1>0, <3>2, <4>1
      <4>3. QED
        BY <1>0, <1>4, <3>2, <4>2 DEF Pointers
    <3>3. QED
      BY <3>1, <3>2
  <2>2. ASSUME NEW o \in alive' PROVE o <= made'
    <3>1. o \in Objects /\ o <= made /\ o \in Nat
      BY <1>0, Refs DEF TypeMap, Pointers
    <3>2. QED
      BY <1>6, <3>1
  <2>3. QED
    BY <2>1, <2>2 DEF Pointers
<1>11. QED
  BY <1>0, <1>1, <1>2, <1>4, <1>5, <1>6, <1>7, <1>9, <1>10

(* main *)
LEMMA MainControl == ASSUME Control, MainStep PROVE Control'
<1>0. /\ GoOK /\ ThreadOK(Main) /\ go[Main] \in ThreadType /\ MainOK /\ 0 <= made
      /\ go[Main].todo \subseteq Names /\ TypeConf /\ TypeDisk /\ made \in Nat
      /\ \A n \in Names : procs[n] \in Ref /\ procs[n] <= made
  BY ControlFacts, Ts
<1>a. /\ {"servers", "startAll", "run", "start", "idle", "add"} \subseteq PC
      /\ {"servers", "startAll", "run", "idle", "add"} \cap Holds = {}
  BY DEF PC, Holds, Starts, Stops
<1>b. ASSUME GoOK', \A u \in Threads : u # Main => go'[u] = go[u], MainOK',
             UNCHANGED <<made, conf, diff, done, disk>>,
             go'[Main].obj <= made, go'[Main].pc \in Holds => go'[Main].obj # 0
      PROVE  MovedOK
  <2>1. ThreadOK(Main)'
    BY <1>b, Ts DEF ThreadOK, MainOK
  <2>2. QED
    BY <1>b, <2>1, Ts DEF MovedOK
<1>1. CASE MainAdd
  <2>0. UNCHANGED <<cancelled, alive, conf, diff, sigs, done, phase, undisturbed, faults, disk,
                    sent, termSent, calls>> /\ go[Main].pc = "add"
    BY <1>1 DEF MainAdd, At
  <2>1. CASE Goto(Main, "servers") /\ UNCHANGED <<made, obj, procs, adding>>
    <3>1. /\ GoOK' /\ go'[Main].pc = "servers" /\ go'[Main].obj = go[Main].obj
          /\ go'[Main].next = go[Main].next
          /\ \A u \in Threads : u # Main => go'[u] = go[u]
      BY <1>0, <1>a, <2>1, PcTo, Ts
    <3>2. MainOK' /\ go'[Main].obj <= made /\ go'[Main].pc \notin Holds
      BY <1>0, <1>a, <3>1 DEF MainOK, ThreadOK
    <3>3. MovedOK
      BY <1>b, <2>0, <2>1, <3>1, <3>2
    <3>4. QED
      BY <2>0, <2>1, <3>1, <3>3, TypeFrame, GoControl
  <2>2. ASSUME NEW n \in DOMAIN adding, AddProcess(n, adding),
               adding' = [m \in DOMAIN adding \ {n} |-> adding[m]], UNCHANGED go
        PROVE  Control'
    <3>1. n \in Names /\ adding \in Programs /\ DOMAIN adding \subseteq Names
      BY <1>0, ConfigFacts DEF TypeConf
    <3>2. GoOK'
      BY <1>0, <2>2 DEF GoOK
    <3>3. TypeMap' /\ Pointers' /\ made' \in Nat /\ made' >= made
      BY <2>0, <2>2, <3>1, <3>2, AddMap
    <3>4. adding' \in Programs
      <4>1. DOMAIN adding \ {n} \in SUBSET Names
        BY <3>1
      <4>2. adding' \in [DOMAIN adding \ {n} -> Versions]
        BY <2>2, <3>1, ConfigFacts
      <4>3. QED
        BY <4>1, <4>2, ConfigFacts
    <3>5. TypeConf'
      BY <1>0, <2>0, <3>4 DEF TypeConf
    <3>6. MovedOK
      BY <2>0, <2>2 DEF MovedOK
    <3>7. (\A u \in Threads : ThreadOK(u)') /\ MainOK' /\ HandlerOK'
      BY <3>3, <3>6, Moved
    <3>8. TypeSig' /\ TypeFlags' /\ TypeDisk' /\ FaultsOK'
      BY <2>0, TypeFrame
    <3>9. QED
      BY <3>3, <3>5, <3>7, <3>8, TypesNext DEF Control
  <2>3. QED
    BY <1>1, <2>1, <2>2 DEF MainAdd
<1>2. CASE MainServers
  <2>0. /\ UNCHANGED <<procs, obj, made, cancelled, alive, conf, diff, sigs, done, undisturbed,
                       faults, adding, disk, sent, termSent, calls>>
        /\ \/ /\ go' = [go EXCEPT ![Main].pc = "startAll",
                                    ![Main].todo = SortedProcesses]
              /\ UNCHANGED phase
           \/ phase' = "exit" /\ UNCHANGED go
    BY <1>2 DEF MainServers, rest
  <2>1. TypeDisk'
    BY <1>0, <2>0 DEF TypeDisk
  <2>2. CASE UNCHANGED go
    <3>1. MovedOK /\ GoOK'
      BY <1>0, <2>0, <2>2 DEF MovedOK, GoOK
    <3>2. QED
      BY <2>0, <2>1, <3>1, TypeFrame, GoControl
  <2>3. CASE go' = [go EXCEPT ![Main].pc = "startAll", ![Main].todo = SortedProcesses]
    <3> DEFINE S == SortedProcesses
               r == [go[Main] EXCEPT !.pc = "startAll", !.todo = S]
    <3>1. S \subseteq Names
      BY SortedMap
    <3>2. go' = [go EXCEPT ![Main] = r]
      <4> HIDE DEF S
      <4> QED
        BY <1>0, <2>3, Ts DEF GoOK, S
    <3>3. /\ r \in ThreadType /\ r.pc = "startAll" /\ r.next = go[Main].next
          /\ r.obj = go[Main].obj
      <4> HIDE DEF S
      <4> QED
        BY <1>0, <1>a, <3>1 DEF ThreadType
    <3>4. GoOK' /\ go'[Main] = r /\ \A u \in Threads : u # Main => go'[u] = go[u]
      <4> HIDE DEF r
      <4> QED
        BY <1>0, <3>2, <3>3, SetTo, Ts
    <3>5. MainOK' /\ go'[Main].obj <= made /\ go'[Main].pc \notin Holds
      <4> HIDE DEF r
      <4> QED
        BY <1>0, <1>a, <3>3, <3>4 DEF MainOK, ThreadOK
    <3>6. MovedOK
      BY <1>b, <2>0, <3>4, <3>5
    <3>7. QED
      BY <2>0, <2>1, <3>4, <3>6, TypeFrame, GoControl
  <2>4. QED
    BY <2>0, <2>2, <2>3
<1>3. CASE StartAll
  <2>0. UNCHANGED <<procs, obj, made, cancelled, alive, conf, diff, sigs, done, phase,
                    undisturbed, faults, adding, disk, sent, termSent, calls>>
    BY <1>3 DEF StartAll, rest
  <2>1. CASE go[Main].todo = {}
    <3> DEFINE r == [Idle EXCEPT !.pc = "run"]
    <3>1. go' = [go EXCEPT ![Main] = r]
      BY <1>3, <2>1 DEF StartAll
    <3>2. r \in ThreadType /\ r.pc = "run" /\ r.next = "idle" /\ r.obj = 0
      BY <1>a, IdleFields DEF ThreadType, Idle
    <3>3. GoOK' /\ go'[Main] = r /\ \A u \in Threads : u # Main => go'[u] = go[u]
      BY <1>0, <3>1, <3>2, SetTo, Ts
    <3>4. MainOK' /\ go'[Main].obj <= made /\ go'[Main].pc \notin Holds
      <4> HIDE DEF r
      <4> QED
        BY <1>0, <1>a, <3>2, <3>3 DEF MainOK
    <3>5. MovedOK
      BY <1>b, <2>0, <3>3, <3>4
    <3>6. QED
      BY <2>0, <3>3, <3>5, TypeFrame, GoControl
  <2>2. CASE go[Main].todo # {}
    <3> DEFINE l(n) == IF Mapped(n) THEN "start" ELSE "startAll"
               r(n) == [go[Main] EXCEPT !.todo = go[Main].todo \ {n}, !.obj = procs[n],
                                        !.next = "startAll", !.pc = l(n)]
    <3>1. PICK n \in go[Main].todo : go' = [go EXCEPT ![Main] = r(n)]
      BY <1>3, <2>2 DEF StartAll
    <3>2. n \in Names /\ procs[n] \in Ref /\ procs[n] <= made
      BY <1>0
    <3>3. l(n) \in PC /\ l(n) \in {"start", "startAll"} /\ (l(n) \in Holds => procs[n] # 0)
      BY <1>a DEF Mapped
    <3>4. /\ r(n) \in ThreadType /\ r(n).pc = l(n) /\ r(n).next = "startAll"
          /\ r(n).obj = procs[n]
      <4> HIDE DEF l
      <4> QED
        BY <1>0, <1>a, <3>2, <3>3 DEF ThreadType
    <3>5. GoOK' /\ go'[Main] = r(n) /\ \A u \in Threads : u # Main => go'[u] = go[u]
      <4> HIDE DEF r
      <4> QED
        BY <1>0, <3>1, <3>4, SetTo, Ts
    <3>6. MainOK' /\ go'[Main].obj <= made /\ (go'[Main].pc \in Holds => go'[Main].obj # 0)
      <4> HIDE DEF r, l
      <4> QED
        BY <3>2, <3>3, <3>4, <3>5 DEF MainOK, Starts
    <3>7. MovedOK
      BY <1>b, <2>0, <3>5, <3>6
    <3>8. QED
      BY <2>0, <3>5, <3>7, TypeFrame, GoControl
  <2>3. QED
    BY <2>1, <2>2
<1>4. CASE MainExit
  <2>1. /\ UNCHANGED <<procs, obj, made, cancelled, alive, go, conf, diff, sigs, done,
                       undisturbed, faults, adding, disk, sent, termSent, calls>>
        /\ phase' = "exit"
    BY <1>4 DEF MainExit, rest
  <2>2. TypeDisk' /\ MovedOK /\ GoOK'
    BY <1>0, <2>1 DEF TypeDisk, MovedOK, GoOK
  <2>3. QED
    BY <2>1, <2>2, TypeFrame, GoControl
<1>5. QED
  BY <1>1, <1>2, <1>3, <1>4 DEF MainStep

(* The handler: its record becomes r *)
LEMMA HandlerMoves ==
    ASSUME Control, NEW r \in ThreadType, go' = [go EXCEPT ![Handler] = r],
           r.obj <= made', r.pc \in Holds => r.obj # 0, HandlerOK'
    PROVE  MovedOK /\ GoOK' /\ H' = r /\ \A u \in Threads : u # Handler => go'[u] = go[u]
<1>1. GoOK' /\ go'[Handler] = r /\ \A u \in Threads : u # Handler => go'[u] = go[u]
  BY ControlFacts, SetTo, Ts
<1>2. ThreadOK(Handler)'
  BY <1>1, Ts DEF ThreadOK
<1>3. QED
  BY <1>1, <1>2, Ts DEF MovedOK, H

(* the steps that only move its pc *)
LEMMA HandlerGoto ==
    ASSUME Control, NEW l \in PC, Goto(Handler, l), UNCHANGED made,
           l \in Holds => H.obj # 0, HandlerOK'
    PROVE  /\ MovedOK /\ GoOK' /\ \A u \in Threads : u # Handler => go'[u] = go[u]
<1>0. GoOK /\ ThreadOK(Handler)
  BY ControlFacts, Ts
<1>1. /\ GoOK' /\ go'[Handler].pc = l /\ go'[Handler].obj = go[Handler].obj
      /\ go'[Handler].next = go[Handler].next /\ go'[Handler].op = go[Handler].op
      /\ \A u \in Threads : u # Handler => go'[u] = go[u]
  BY <1>0, PcTo, Ts
<1>2. ThreadOK(Handler)'
  BY <1>0, <1>1, Ts DEF ThreadOK, H
<1>3. QED
  BY <1>1, <1>2, Ts DEF MovedOK

(* what HandlerOK asks of the labels outside of Start, Stop and the reload *)
LEMMA HandlerAt ==
    ASSUME HandlerOK, H'.op = "none",
           H'.pc \in {"idle", "reload", "stopAll"} \cup Shuts,
           diff'.added \subseteq DOMAIN conf', done' => H'.pc = "gone",
           H'.pc = "rename" => disk'.tmp \in {"unsynced", "whole"}
    PROVE  HandlerOK'
<1>1. H'.pc \notin Starts \cup Stops \cup {"cancel", "delete", "readd", "lookup"}
  BY DEF Starts, Stops, Shuts
<1>2. QED
  BY <1>1 DEF HandlerOK, Works, Replaces

LEMMA HandlerPc ==
    ASSUME Control, NEW l \in PC, Goto(Handler, l)
    PROVE  /\ H'.pc = l /\ H'.op = "none" /\ H'.name = H.name /\ H'.obj = H.obj
           /\ H'.next = H.next /\ H'.todo = H.todo /\ H.op = "none"
  BY ControlFacts, PcTo, Ts DEF H, HandlerOK

LEMMA SetsHandler ==
    ASSUME GoOK, NEW r \in ThreadType, go' = [go EXCEPT ![Handler] = r]
    PROVE  H' = r
  BY SetTo, Ts DEF H

(* the shutdown *)
LEMMA ShutControl ==
    ASSUME Control, SaveBegin \/ SaveWrite \/ SaveRename \/ CloseDone
    PROVE  Control'
<1>0. /\ HandlerOK /\ TypeDisk /\ TypeFlags /\ FaultsOK /\ diff.added \subseteq DOMAIN conf
  BY ControlFacts DEF HandlerOK
<1>1. /\ UNCHANGED <<procs, obj, made, cancelled, alive, adding, conf, diff, sigs, phase,
                     undisturbed, sent, termSent, calls>>
      /\ H.pc \in {"save", "snapshot", "rename", "close"}
  BY DEF SaveBegin, SaveWrite, SaveRename, CloseDone, rest, At, H
<1>2. ~done
  BY <1>0, <1>1 DEF HandlerOK
<1>3. PICK l \in {"snapshot", "rename", "close", "gone"} :
        Goto(Handler, l) /\ (l # "gone" => UNCHANGED done) /\ (l = "gone" => done' = TRUE)
  BY DEF SaveBegin, SaveWrite, SaveRename, CloseDone
<1>4. l \in PC /\ l \notin Holds /\ l \in Shuts
  BY DEF PC, Holds, Starts, Stops, Shuts
<1>5. H'.pc = l /\ H'.op = "none"
  BY <1>3, <1>4, HandlerPc
<1>6. HandlerOK'
  <2>1. l = "rename" => disk'.tmp \in {"unsynced", "whole"}
    <3>1. CASE SaveWrite
      BY <1>3, <1>5, <3>1, HandlerPc DEF SaveWrite, PC
    <3>2. CASE SaveBegin \/ SaveRename \/ CloseDone
      BY <1>5, <3>2, HandlerPc DEF SaveBegin, SaveRename, CloseDone, PC
    <3>3. QED
      BY <3>1, <3>2
  <2>2. QED
    BY <1>0, <1>1, <1>2, <1>3, <1>4, <1>5, <2>1, HandlerAt
<1>7. MovedOK /\ GoOK'
  BY <1>1, <1>3, <1>4, <1>6, HandlerGoto
<1>8. TypeDisk'
  <2>1. disk \in [file : {"none", "whole", "unsynced", "torn"},
                  tmp : {"none", "partial", "unsynced", "whole"}]
    BY <1>0 DEF TypeDisk
  <2>2. disk' \in [file : {"none", "whole", "unsynced", "torn"},
                   tmp : {"none", "partial", "unsynced", "whole"}]
    <3>1. CASE SaveBegin \/ CloseDone
      BY <2>1, <3>1 DEF SaveBegin, CloseDone, rest
    <3>2. CASE SaveWrite
      BY <2>1, <3>2 DEF SaveWrite
    <3>3. CASE SaveRename
      <4>1. disk.tmp \in {"unsynced", "whole"}
        BY <1>0, <3>3 DEF SaveRename, At, HandlerOK, H
      <4>2. QED
        BY <2>1, <3>3, <4>1 DEF SaveRename
    <3>4. QED
      BY <3>1, <3>2, <3>3
  <2>3. QED
    BY <1>0, <1>1, <2>2 DEF TypeDisk
<1>9. FaultsOK'
  <2>1. Fault \/ UNCHANGED faults
    BY DEF SaveBegin, SaveWrite, SaveRename, CloseDone
  <2>2. QED
    BY <1>0, <2>1, FaultStays
<1>10. TypeFlags'
  BY <1>0, <1>1, <1>3 DEF TypeFlags
<1>11. QED
  BY <1>1, <1>7, <1>8, <1>9, <1>10, TypeFrame, GoControl

(* a signal is received, and the queue of StopAll is worked off *)
LEMMA ReceiveSig ==
    ASSUME Control, sigs # <<>>, sigs' = Tail(sigs), UNCHANGED <<sent, calls>>
    PROVE  TypeSig'
<1>1. TypeSig
  BY ControlFacts
<1>2. /\ sigs \in Seq({"HUP", "TERM"}) /\ Len(sigs) <= SigBuffer /\ Len(sigs) \in Nat
  BY <1>1 DEF TypeSig
<1>3. sigs' \in Seq({"HUP", "TERM"}) /\ Len(sigs') = Len(sigs) - 1
  BY <1>2
<1>4. QED
  BY <1>1, <1>2, <1>3 DEF TypeSig

LEMMA TerminateControl == ASSUME Control, Terminate PROVE Control'
<1> DEFINE S == SortedProcesses
           r == [H EXCEPT !.pc = "stopAll", !.todo = S]
<1>0. /\ HandlerOK /\ TypeFlags /\ GoOK /\ ThreadOK(Handler) /\ H \in ThreadType
  BY ControlFacts, Ts DEF H
<1>1. /\ go' = [go EXCEPT ![Handler].pc = "stopAll", ![Handler].todo = S]
      /\ H.pc = "idle" /\ sigs # <<>> /\ sigs' = Tail(sigs)
      /\ UNCHANGED <<procs, obj, made, cancelled, alive, conf, diff, done, phase, faults,
                     adding, disk, sent, termSent, calls>>
  BY DEF Terminate, At, H, rest
<1>2. go' = [go EXCEPT ![Handler] = r]
  <2> HIDE DEF S
  <2> QED
    BY <1>0, <1>1, Ts DEF GoOK, H
<1>3. S \subseteq Names /\ "stopAll" \in PC /\ "stopAll" \notin Holds
  BY SortedMap DEF PC, Holds, Starts, Stops
<1>4. /\ r \in ThreadType /\ r.pc = "stopAll" /\ r.op = H.op /\ r.obj = H.obj
  <2> HIDE DEF S
  <2> QED
    BY <1>0, <1>3 DEF ThreadType
<1> HIDE DEF r
<1>5. H' = r
  BY <1>0, <1>2, <1>4, SetsHandler
<1>6. HandlerOK'
  <2>1. diff'.added \subseteq DOMAIN conf' /\ ~done' /\ H.op = "none"
    BY <1>0, <1>1 DEF HandlerOK
  <2>2. QED
    BY <1>0, <1>4, <1>5, <2>1, HandlerAt
<1>7. MovedOK /\ GoOK'
  BY <1>0, <1>1, <1>2, <1>3, <1>4, <1>6, HandlerMoves DEF ThreadOK, H
<1>8. undisturbed' \in BOOLEAN
  BY Zenon DEF Terminate
<1>9. TypeFlags'
  BY <1>0, <1>1, <1>8, Zenon DEF TypeFlags
<1>10. TypeSig'
  BY <1>1, ReceiveSig
<1>11. QED
  BY <1>1, <1>7, <1>9, <1>10, TypeFrame, GoControl

LEMMA StopAllControl == ASSUME Control, StopAllNext PROVE Control'
<1>0. /\ HandlerOK /\ GoOK /\ H \in ThreadType /\ ~done /\ 0 <= made
      /\ diff.added \subseteq DOMAIN conf /\ H.op = "none" /\ H.todo \subseteq Names
      /\ \A n \in Names : procs[n] \in Ref /\ procs[n] <= made
  <2>1. /\ HandlerOK /\ GoOK /\ H \in ThreadType /\ made \in Nat /\ H.todo \subseteq Names
        /\ \A n \in Names : procs[n] \in Ref /\ procs[n] <= made
    BY ControlFacts, Ts DEF H
  <2>2. H.pc = "stopAll"
    BY DEF StopAllNext, At, H
  <2>3. QED
    BY <2>1, <2>2 DEF HandlerOK
<1>1. UNCHANGED <<procs, obj, made, cancelled, alive, conf, diff, sigs, done, phase,
                  undisturbed, faults, adding, disk, sent, termSent, calls>>
  BY DEF StopAllNext, rest
<1>2. CASE H.todo = {}
  <2> DEFINE r == [Idle EXCEPT !.pc = "save"]
  <2>1. go' = [go EXCEPT ![Handler] = r]
    BY <1>2 DEF StopAllNext, H
  <2>2. /\ r \in ThreadType /\ r.pc = "save" /\ r.op = "none" /\ r.obj = 0
    BY IdleFields DEF ThreadType, Idle, PC
  <2> HIDE DEF r
  <2>3. H' = r /\ "save" \notin Holds /\ "save" \in Shuts
    BY <1>0, <2>1, <2>2, SetsHandler DEF Holds, Starts, Stops, Shuts
  <2>4. HandlerOK'
    BY <1>0, <1>1, <2>2, <2>3, HandlerAt
  <2>5. MovedOK /\ GoOK'
    BY <1>0, <1>1, <2>1, <2>2, <2>3, <2>4, HandlerMoves
  <2>6. QED
    BY <1>1, <2>5, TypeFrame, GoControl
<1>3. CASE H.todo # {}
  <2> DEFINE stops(n) == Mapped(n) /\ State(procs[n]) \notin {"STOPPED", "STOPPING"}
             l(n) == IF stops(n) THEN "stop" ELSE "stopAll"
             r(n) == [H EXCEPT !.todo = H.todo \ {n}, !.obj = procs[n],
                               !.next = "stopAll", !.pc = l(n)]
  <2>1. PICK n \in H.todo : go' = [go EXCEPT ![Handler] = r(n)]
    BY <1>3 DEF StopAllNext, H
  <2>2. n \in Names /\ procs[n] \in Ref /\ procs[n] <= made
    BY <1>0
  <2>3. l(n) \in {"stop", "stopAll"} /\ (l(n) = "stop" => procs[n] # 0)
    BY DEF Mapped
  <2>4. "stop" \in PC /\ "stopAll" \in PC /\ "stopAll" \notin Holds
        /\ "stop" \in Stops /\ "stop" \notin Starts
    BY DEF PC, Holds, Starts, Stops
  <2>5. /\ r(n) \in ThreadType /\ r(n).pc = l(n) /\ r(n).next = "stopAll" /\ r(n).op = H.op
        /\ r(n).obj = procs[n]
    <3> HIDE DEF l
    <3>1. l(n) \in PC /\ H.todo \ {n} \subseteq Names
      BY <1>0, <2>3, <2>4
    <3>2. QED
      BY <1>0, <2>2, <2>4, <3>1 DEF ThreadType
  <2> HIDE DEF r, l
  <2>6. H' = r(n)
    BY <1>0, <2>1, <2>5, SetsHandler
  <2>7. HandlerOK'
    <3>1. CASE l(n) = "stopAll"
      BY <1>0, <1>1, <2>5, <2>6, <3>1, HandlerAt
    <3>2. CASE l(n) = "stop"
      BY <1>0, <1>1, <2>4, <2>5, <2>6, <3>2 DEF HandlerOK, Works, Replaces
    <3>3. QED
      BY <2>3, <3>1, <3>2
  <2>8. MovedOK /\ GoOK'
    BY <1>0, <1>1, <2>1, <2>2, <2>3, <2>4, <2>5, <2>7, HandlerMoves
  <2>9. QED
    BY <1>1, <2>8, TypeFrame, GoControl
<1>4. QED
  BY <1>2, <1>3

(* reloadConfiguration *)
LEMMA ReloadControl == ASSUME Control, Reload PROVE Control'
<1>0. /\ HandlerOK /\ GoOK /\ TypeConf /\ ~done /\ H.pc = "idle" /\ H.op = "none"
      /\ diff.added \subseteq DOMAIN conf
  BY ControlFacts DEF HandlerOK, Reload, At, H
<1>1. /\ sigs # <<>> /\ sigs' = Tail(sigs)
      /\ UNCHANGED <<procs, obj, made, cancelled, alive, done, phase, undisturbed, faults,
                     adding, disk, sent, termSent, calls>>
  BY DEF Reload, rest
<1>2. TypeSig'
  BY <1>1, ReceiveSig
<1>3. CASE UNCHANGED <<conf, diff, go>>
  <2>1. MovedOK /\ GoOK'
    BY <1>0, <1>1, <1>3 DEF MovedOK, GoOK
  <2>2. QED
    BY <1>1, <1>2, <1>3, <2>1, TypeFrame, GoControl
<1>4. ASSUME NEW c \in Programs, conf' = c, diff' = SortedDiff(c), Goto(Handler, "reload")
      PROVE  Control'
  <2>1. DOMAIN c \subseteq Names
    BY ConfigFacts
  <2>2. /\ diff' \in [removed : SUBSET Names, modified : SUBSET Names, added : SUBSET Names]
        /\ diff'.added \subseteq DOMAIN c
    BY <1>4, <2>1, SortedChanges
  <2>3. TypeConf'
    BY <1>0, <1>1, <1>4, <2>2 DEF TypeConf
  <2>4. "reload" \in PC /\ "reload" \notin Holds
    BY DEF PC, Holds, Starts, Stops
  <2>5. H'.pc = "reload" /\ H'.op = "none"
    BY <1>4, <2>4, HandlerPc
  <2>6. HandlerOK'
    BY <1>0, <1>1, <1>4, <2>2, <2>5, HandlerAt
  <2>7. MovedOK /\ GoOK'
    BY <1>1, <1>4, <2>4, <2>6, HandlerGoto
  <2>8. QED
    BY <1>1, <1>2, <2>3, <2>7, TypeFrame, GoControl
<1>5. QED
  BY <1>3, <1>4, ManagerAssumption DEF Reload, SortedDiff

LEMMA ReloadNextControl == ASSUME Control, ReloadNext PROVE Control'
<1>0. /\ HandlerOK /\ GoOK /\ TypeConf /\ H \in ThreadType /\ made \in Nat /\ ThreadOK(Handler)
      /\ \A n \in Names : procs[n] \in Ref /\ procs[n] <= made
  BY ControlFacts, Ts DEF H
<1>1. /\ H.pc = "reload"
      /\ UNCHANGED <<procs, obj, made, cancelled, alive, conf, sigs, done, undisturbed,
                     faults, adding, disk, sent, termSent, calls>>
  BY DEF ReloadNext, At, rest, H
<1>2. ~done /\ H.op = "none" /\ diff.added \subseteq DOMAIN conf /\ diff.added \subseteq Names
      /\ diff.removed \subseteq Names /\ diff.modified \subseteq Names
  BY <1>0, <1>1 DEF HandlerOK, TypeConf
<1>a. /\ {"stop", "delete", "readd", "idle"} \subseteq PC
      /\ {"stop", "delete", "readd"} \cap Starts = {}
      /\ "stop" \in Stops /\ "delete" \notin Stops /\ "readd" \notin Stops
      /\ "delete" \notin Holds /\ "readd" \notin Holds /\ "idle" \notin Holds
  BY DEF PC, Holds, Starts, Stops
<1> DEFINE l(n) == IF Mapped(n) THEN "stop" ELSE "delete"
           r(n) == [H EXCEPT !.name = n, !.obj = procs[n], !.next = "cancel", !.pc = l(n)]
           q(n) == [H EXCEPT !.name = n, !.pc = "readd"]
           gone == IF diff.removed # {} THEN diff.removed ELSE diff.modified
<1>3. ASSUME NEW n \in gone, go' = [go EXCEPT ![Handler] = r(n)], UNCHANGED phase,
             diff' = IF diff.removed # {} THEN [diff EXCEPT !.removed = @ \ {n}]
                                          ELSE [diff EXCEPT !.modified = @ \ {n}]
      PROVE  Control'
  <2>1. n \in Names /\ procs[n] \in Ref /\ procs[n] <= made
    BY <1>0, <1>2
  <2>2. TypeConf' /\ diff'.added = diff.added
    BY <1>0, <1>1, <1>3 DEF TypeConf
  <2>3. l(n) \in {"stop", "delete"} /\ (l(n) = "stop" => procs[n] # 0)
    BY DEF Mapped
  <2>4. /\ r(n) \in ThreadType /\ r(n).pc = l(n) /\ r(n).next = "cancel" /\ r(n).op = H.op
        /\ r(n).obj = procs[n] /\ r(n).name = n
    <3> HIDE DEF l
    <3>1. l(n) \in PC /\ "cancel" \in PC
      BY <1>a, <2>3 DEF PC
    <3>2. QED
      BY <1>0, <2>1, <3>1 DEF ThreadType
  <2> HIDE DEF r, l
  <2>5. H' = r(n)
    BY <1>0, <1>3, <2>4, SetsHandler
  <2>6. HandlerOK'
    BY <1>1, <1>2, <1>a, <2>1, <2>2, <2>3, <2>4, <2>5 DEF HandlerOK
  <2>7. MovedOK /\ GoOK'
    BY <1>1, <1>3, <1>a, <2>1, <2>3, <2>4, <2>6, HandlerMoves
  <2>8. QED
    BY <1>1, <1>3, <2>2, <2>7, TypeFrame, GoControl
<1>4. ASSUME NEW n \in diff.added, diff' = [diff EXCEPT !.added = @ \ {n}],
             go' = [go EXCEPT ![Handler] = q(n)], UNCHANGED phase
      PROVE  Control'
  <2>1. n \in Names /\ n \in DOMAIN conf
    BY <1>2
  <2>2. TypeConf' /\ diff'.added \subseteq DOMAIN conf
    BY <1>0, <1>1, <1>2, <1>4 DEF TypeConf
  <2>3. /\ q(n) \in ThreadType /\ q(n).pc = "readd" /\ q(n).op = H.op /\ q(n).name = n
        /\ q(n).obj = H.obj /\ q(n).next = H.next
    BY <1>0, <1>a, <2>1 DEF ThreadType
  <2> HIDE DEF q
  <2>4. H' = q(n)
    BY <1>0, <1>4, <2>3, SetsHandler
  <2>5. HandlerOK'
    BY <1>1, <1>2, <1>a, <2>1, <2>2, <2>3, <2>4 DEF HandlerOK
  <2>6. MovedOK /\ GoOK'
    BY <1>0, <1>1, <1>4, <1>a, <2>3, <2>5, HandlerMoves DEF ThreadOK, H
  <2>7. QED
    BY <1>1, <1>4, <2>2, <2>6, TypeFrame, GoControl
<1>5. CASE go' = [go EXCEPT ![Handler] = Idle] /\ UNCHANGED <<diff, phase>>
  <2>0. Idle \in ThreadType /\ Idle.obj = 0
    BY IdleFields
  <2>1. H' = Idle /\ Idle.obj <= made /\ Idle \in ThreadType
    <3>1. 0 <= made
      BY <1>0
    <3>2. H' = Idle
      BY <1>0, <1>5, <2>0, SetsHandler
    <3>3. QED
      BY <2>0, <3>1, <3>2
  <2>2. HandlerOK'
    BY <1>0, <1>1, <1>2, <1>5, <2>1, IdleFields, HandlerAt
  <2>3. MovedOK /\ GoOK'
    BY <1>1, <1>5, <1>a, <2>1, <2>2, IdleFields, HandlerMoves
  <2>4. QED
    BY <1>1, <1>5, <2>3, TypeFrame, GoControl
<1>6. CASE phase' = "exit" /\ UNCHANGED <<diff, go>>
  <2>1. TypeDisk'
    BY <1>1, <1>6, ControlFacts DEF TypeDisk
  <2>2. MovedOK /\ GoOK'
    BY <1>0, <1>1, <1>6 DEF MovedOK, GoOK
  <2>3. QED
    BY <1>1, <1>6, <2>1, <2>2, TypeFrame, GoControl
<1>7. QED
  BY <1>3, <1>4, <1>5, <1>6 DEF ReloadNext, H

LEMMA ReloadStepControl ==
    ASSUME Control, ReloadCancel \/ ReloadDelete \/ ReloadAdd \/ ReloadStart
    PROVE  Control'
<1>0. /\ HandlerOK /\ GoOK /\ TypeConf /\ TypeMap /\ Pointers /\ H \in ThreadType
      /\ made \in Nat /\ ThreadOK(Handler) /\ 0 <= made
      /\ \A n \in Names : procs[n] \in Ref /\ procs[n] <= made
  <2>1. made \in Nat
    BY ControlFacts
  <2>2. QED
    BY <2>1, ControlFacts, Ts DEF H
<1>1. /\ H.pc \in {"cancel", "delete", "readd", "lookup"}
      /\ UNCHANGED <<alive, conf, diff, sigs, done, phase, undisturbed, faults, adding, disk,
                     sent, termSent, calls>>
  BY DEF ReloadCancel, ReloadDelete, ReloadAdd, ReloadStart, At, rest, H
<1>2. ~done /\ H.op = "none" /\ diff.added \subseteq DOMAIN conf /\ H.name \in Names
  BY <1>0, <1>1 DEF HandlerOK, Works, Replaces
<1>3. TypeConf' /\ TypeSig' /\ TypeFlags' /\ TypeDisk' /\ FaultsOK'
  BY <1>1, TypeFrame
<1>a. /\ {"delete", "readd", "reload", "lookup", "start"} \subseteq PC
      /\ {"delete", "readd", "reload", "lookup"} \cap (Holds \cup Starts \cup Stops) = {}
      /\ "start" \in Starts /\ "start" \notin Stops
  BY DEF PC, Holds, Starts, Stops
<1>4. CASE ReloadCancel
  <2>1. /\ cancelled' = cancelled \cup {H.obj} /\ Goto(Handler, "delete") /\ H.pc = "cancel"
        /\ UNCHANGED <<procs, obj, made>>
    BY <1>4 DEF ReloadCancel, At, H
  <2>2. H'.pc = "delete" /\ H'.op = "none" /\ H'.name = H.name
    BY <1>a, <2>1, HandlerPc
  <2>3. HandlerOK'
    BY <1>1, <1>2, <1>a, <2>2 DEF HandlerOK
  <2>4. MovedOK /\ GoOK'
    BY <1>a, <2>1, <2>3, HandlerGoto
  <2>5. H.obj \in Objects
    <3>1. "cancel" \in Holds /\ H.obj \in Ref
      BY <1>0, ThreadFields DEF Holds
    <3>2. QED
      BY <1>0, <2>1, <3>1, Refs DEF ThreadOK, H
  <2>6. TypeMap' /\ Pointers'
    BY <1>0, <1>1, <2>1, <2>4, <2>5 DEF TypeMap, Pointers, Named, ObjOK
  <2>7. (\A u \in Threads : ThreadOK(u)') /\ MainOK' /\ HandlerOK'
    <3>1. made' \in Nat /\ made' >= made
      BY <1>0, <2>1
    <3>2. QED
      BY <2>4, <3>1, Moved
  <2>8. QED
    BY <1>3, <2>6, <2>7, TypesNext DEF Control
<1>5. CASE ReloadDelete
  <2> DEFINE n == H.name
             l == IF n \in DOMAIN conf THEN "readd" ELSE "reload"
             r == [H EXCEPT !.obj = 0, !.pc = l]
  <2>1. /\ procs' = [procs EXCEPT ![n] = 0] /\ go' = [go EXCEPT ![Handler] = r]
        /\ UNCHANGED <<obj, made, cancelled>>
    BY <1>5 DEF ReloadDelete, H
  <2>2. l \in PC /\ l \in {"readd", "reload"} /\ (l = "readd" => n \in DOMAIN conf)
    BY <1>a
  <2>3. /\ r \in ThreadType /\ r.pc = l /\ r.op = H.op /\ r.obj = 0 /\ r.name = H.name
        /\ r.next = H.next
    <3> HIDE DEF l
    <3> QED
      BY <1>0, <2>2, Refs DEF ThreadType
  <2> HIDE DEF r, l
  <2>4. H' = r
    BY <1>0, <2>1, <2>3, SetsHandler
  <2>5. HandlerOK'
    BY <1>1, <1>2, <1>a, <2>2, <2>3, <2>4 DEF HandlerOK
  <2>6. MovedOK /\ GoOK'
    BY <1>0, <1>a, <2>1, <2>2, <2>3, <2>5, HandlerMoves
  <2>7. TypeMap' /\ Pointers'
    <3>1. procs' \in [Names -> Ref] /\ procs'[n] = 0
          /\ \A m \in Names : m # n => procs'[m] = procs[m]
      BY <1>0, <1>2, <2>1, Refs DEF TypeMap
    <3>2. Named'
      BY <1>0, <2>1, <3>1 DEF TypeMap, Named
    <3>3. QED
      BY <1>0, <1>1, <2>1, <2>6, <3>1, <3>2 DEF TypeMap, Pointers, ObjOK
  <2>8. (\A u \in Threads : ThreadOK(u)') /\ MainOK' /\ HandlerOK'
    <3>1. made' \in Nat /\ made' >= made
      BY <1>0, <2>1
    <3>2. QED
      BY <2>6, <3>1, Moved
  <2>9. QED
    BY <1>3, <2>7, <2>8, TypesNext DEF Control
<1>6. CASE ReloadAdd
  <2> DEFINE n == H.name
             l == IF conf[n] \in Manual THEN "reload" ELSE "lookup"
  <2>1. AddProcess(n, conf) /\ Goto(Handler, l) /\ UNCHANGED cancelled /\ H.pc = "readd"
    BY <1>6 DEF ReloadAdd, At, H
  <2>2. l \in PC /\ l \in {"reload", "lookup"} /\ n \in DOMAIN conf /\ conf \in Programs
    BY <1>0, <1>a, <2>1 DEF HandlerOK, TypeConf
  <2> HIDE DEF l
  <2>3. H'.pc = l /\ H'.op = "none" /\ H'.name = n
    BY <2>1, <2>2, HandlerPc
  <2>4. HandlerOK'
    BY <1>1, <1>2, <1>a, <2>2, <2>3 DEF HandlerOK, Works, Replaces
  <2>5. /\ GoOK' /\ go'[Handler].pc = l /\ go'[Handler].obj = go[Handler].obj
        /\ \A u \in Threads : u # Handler => go'[u] = go[u]
    BY <1>0, <2>1, <2>2, PcTo, Ts
  <2>6. TypeMap' /\ Pointers' /\ made' \in Nat /\ made' >= made
    BY <1>1, <1>2, <2>1, <2>2, <2>5, AddMap
  <2>7. ThreadOK(Handler)'
    <3>1. go[Handler].obj <= made /\ go[Handler].obj \in Nat
      BY <1>0, ControlFacts, Ts DEF ThreadOK
    <3>2. go'[Handler].obj <= made'
      BY <1>0, <2>5, <2>6, <3>1
    <3>3. go'[Handler].pc \notin Holds
      BY <1>a, <2>2, <2>5
    <3>4. QED
      BY <3>2, <3>3, Ts DEF ThreadOK
  <2>8. MovedOK
    BY <2>4, <2>5, <2>7, Ts DEF MovedOK
  <2>9. (\A u \in Threads : ThreadOK(u)') /\ MainOK' /\ HandlerOK'
    BY <2>6, <2>8, Moved
  <2>10. QED
    BY <1>3, <2>6, <2>9, TypesNext DEF Control
<1>7. CASE ReloadStart
  <2> DEFINE n == H.name
             l == IF Mapped(n) THEN "start" ELSE "reload"
             r == [H EXCEPT !.obj = procs[n], !.next = "reload", !.pc = l]
  <2>1. /\ go' = [go EXCEPT ![Handler] = r] /\ UNCHANGED <<procs, obj, made, cancelled>>
    BY <1>7 DEF ReloadStart, H
  <2>2. l \in PC /\ l \in {"start", "reload"} /\ (l = "start" => procs[n] # 0)
    BY <1>a DEF Mapped
  <2>3. procs[n] \in Ref /\ procs[n] <= made
    BY <1>0, <1>2
  <2>4. /\ r \in ThreadType /\ r.pc = l /\ r.op = H.op /\ r.obj = procs[n]
        /\ r.next = "reload"
    <3> HIDE DEF l
    <3> QED
      BY <1>0, <1>a, <2>2, <2>3 DEF ThreadType
  <2> HIDE DEF r, l
  <2>5. H' = r
    BY <1>0, <2>1, <2>4, SetsHandler
  <2>6. HandlerOK'
    BY <1>1, <1>2, <1>a, <2>2, <2>4, <2>5 DEF HandlerOK, Works, Replaces
  <2>7. MovedOK /\ GoOK'
    BY <1>0, <1>a, <2>1, <2>2, <2>3, <2>4, <2>6, HandlerMoves
  <2>8. QED
    BY <1>1, <1>3, <2>1, <2>7, TypeFrame, GoControl
<1>8. QED
  BY <1>4, <1>5, <1>6, <1>7

LEMMA NextControl == Control /\ [Next]_vars => Control'
<1> SUFFICES ASSUME Control, [Next]_vars PROVE Control'
  OBVIOUS
<1>1. CASE HandlerStep
  BY <1>1, TerminateControl, ReloadControl, ReloadNextControl, ReloadStepControl,
     StopAllControl, ShutControl DEF HandlerStep
<1>2. CASE UNCHANGED vars
  <2>1. UNCHANGED <<procs, obj, made, cancelled, alive, go, adding, conf, diff, sigs, done,
                    phase, disk, undisturbed, sent, termSent, calls, faults>>
    BY <1>2 DEF vars
  <2>2. MovedOK /\ GoOK'
    BY <2>1, ControlFacts DEF MovedOK, GoOK
  <2>3. QED
    BY <2>1, <2>2, TypeFrame, GoControl
<1>3. ASSUME NEW t \in Clients,
             Serve(t) \/ \E op \in Ops, group \in SUBSET Names : Request(t, op, group)
      PROVE  Control'
  BY <1>3, RequestControl
<1>4. QED
  BY <1>1, <1>2, <1>3, MainControl, LoopControl, ProcessControl, ExitControl, SignalControl,
     PowerControl, NextSteps

LEMMA AlwaysControl == Spec => []Control
  BY InitControl, NextControl, PTL DEF Spec

(* Every goroutine, object and file of the supervisor keeps its type; in
   particular the map names an object under the object's own name. *)
THEOREM ManagerTypeCorrect == Spec => []TypeOK
<1>1. Control => TypeOK
  BY DEF Control
<1>2. QED
  BY <1>1, AlwaysControl, PTL
-----------------------------------------------------------------------------
(* The steps that leave the map, the configuration and the state file alone:
   those of everyone but the handler, after main has added the programs *)

Aside ==
    /\ go'[Handler] = go[Handler] /\ GoOK'
    /\ SameObjects /\ UNCHANGED <<procs, made, cancelled, conf, diff, adding, disk>>
    /\ go'[Main].pc = "add" => go[Main].pc = "add"
    /\ UNCHANGED sigs \/ Signal
    /\ go[Main].pc = "add" => go'[Main].pc = "add" \/ adding = NoPrograms

AddsOne == MainAdd /\ adding # NoPrograms

LEMMA AsideSteps ==
    ASSUME Control, [Next]_vars, ~AddsOne, ~HandlerStep, ~ProcessStep(Handler), ~PowerLoss
    PROVE  Aside
<1>0. /\ GoOK /\ ObjOK /\ FaultsOK /\ undisturbed \in BOOLEAN
      /\ \A t \in Threads : go[t].obj # 0 => go[t].obj \in Objects
      /\ \A n \in Names : procs[n] \in Ref
      /\ \A t \in Threads : ThreadOK(t) /\ go[t] \in ThreadType
  BY ControlFacts, Refs
<1>1. CASE MainStep
  <2>a. DOMAIN NoPrograms = {} /\ "servers" \in PC
    BY ConfigFacts DEF PC
  <2>1. /\ UNCHANGED <<procs, made, obj, cancelled, conf, diff, adding, disk, sigs>>
        /\ \A u \in Threads : u # Main => go'[u] = go[u]
        /\ go[Main].pc = "add" => adding = NoPrograms
        /\ go'[Main].pc = "add" => go[Main].pc = "add"
    <3>1. CASE MainAdd
      <4>1. /\ UNCHANGED <<procs, made, obj, cancelled, conf, diff, adding, disk, sigs>>
            /\ go[Main].pc = "add" /\ adding = NoPrograms /\ Goto(Main, "servers")
        BY <2>a, <3>1 DEF AddsOne, MainAdd, At
      <4>2. QED
        BY <1>0, <2>a, <4>1, PcTo, Ts
    <3>2. CASE MainServers
      <4>1. /\ UNCHANGED <<procs, made, obj, cancelled, conf, diff, adding, disk, sigs>>
            /\ go[Main].pc # "add"
        BY <3>2 DEF MainServers, At, rest
      <4>2. \A u \in Threads : u # Main => go'[u] = go[u]
        BY <1>0, <3>2, Ts DEF MainServers, GoOK
      <4>3. CASE go' = [go EXCEPT ![Main].pc = "startAll",
                                  ![Main].todo = SortedProcesses]
        <5>1. go'[Main].pc = "startAll"
          BY <1>0, <4>3, Ts DEF GoOK, ThreadType
        <5>2. QED
          BY <4>1, <4>2, <5>1
      <4>4. CASE UNCHANGED go
        BY <4>1, <4>4
      <4>5. QED
        BY <3>2, <4>3, <4>4 DEF MainServers
    <3>3. CASE StartAll
      <4>1. /\ UNCHANGED <<procs, made, obj, cancelled, conf, diff, adding, disk, sigs>>
            /\ go[Main].pc # "add"
        BY <3>3 DEF StartAll, At, rest
      <4>2. \A u \in Threads : u # Main => go'[u] = go[u]
        BY <1>0, <3>3, Ts DEF StartAll, GoOK
      <4>3. go'[Main].pc \in {"run", "start", "startAll"}
        <5>1. CASE go' = [go EXCEPT ![Main] = [Idle EXCEPT !.pc = "run"]]
          BY <1>0, <5>1, Ts DEF GoOK, Idle
        <5>2. ASSUME NEW n \in go[Main].todo,
                     go' = [go EXCEPT ![Main] = [go[Main] EXCEPT
                       !.todo = go[Main].todo \ {n}, !.obj = procs[n], !.next = "startAll",
                       !.pc = IF Mapped(n) THEN "start" ELSE "startAll"]]
              PROVE  go'[Main].pc \in {"start", "startAll"}
          BY <1>0, <5>2, Ts DEF GoOK, ThreadType
        <5>3. QED
          BY <3>3, <5>1, <5>2 DEF StartAll
      <4>4. QED
        BY <4>1, <4>2, <4>3
    <3>4. CASE MainExit
      BY <3>4 DEF MainExit, At, rest
    <3>5. QED
      BY <1>1, <3>1, <3>2, <3>3, <3>4 DEF MainStep
  <2>3. Control'
    BY <1>1, MainControl
  <2>4. GoOK'
    BY <2>3 DEF Control, TypeOK, GoOK
  <2>5. QED
    BY <2>1, <2>4, <1>0, Ts DEF Aside, SameObjects
<1>2. CASE UNCHANGED vars \/ Signal
  BY <1>0, <1>2 DEF vars, Signal, Aside, SameObjects, GoOK
<1>3. CASE \E o \in Objects : ChildExit(o)
  <2>1. PICK o \in Objects : ChildExit(o)
    BY <1>3
  <2>2. SetState(o, "STOPPING") \/ SetState(o, "EXITED")
    BY <2>1 DEF ChildExit
  <2>3. SameObjects
    BY <1>0, <2>2, StateTo DEF States
  <2>4. QED
    BY <1>0, <2>1, <2>3 DEF ChildExit, Aside, GoOK, rest
<1>4. CASE \E t \in Threads : ProcessStep(t)
  <2>1. PICK t \in Threads : ProcessStep(t)
    BY <1>4
  <2>2. t # Handler /\ go[t].obj \in Objects
    BY <2>1, ProcessPointer
  <2>3. Moves(t) /\ SameObjects /\ Else
    BY <1>0, <2>1, <2>2, ProcessMoves
  <2>4. t = Main => go[t].pc # "add" /\ go'[t].pc # "add"
    <3>1. t = Main => go[t].next # "add"
      BY ControlFacts DEF MainOK
    <3>2. QED
      BY <2>3, <3>1 DEF Moves, Returns, GoesOn, Starts, Stops
  <2>5. QED
    BY <2>2, <2>3, <2>4, Ts DEF Moves, Else, Aside
<1>5. CASE \/ (\E n \in Names : LoopTick(n)) \/ HandleExited \/ RestarterWake \/ RestarterFailed
  <2>1. Control'
    BY <1>5, LoopControl
  <2>2. GoOK'
    BY <2>1 DEF Control, TypeOK, GoOK
  <2>3. /\ UNCHANGED <<procs, made, cancelled, conf, diff, adding, disk, sigs>>
        /\ \A u \in Threads : u # Loop /\ u # Restarter => go'[u] = go[u]
    BY <1>0, <1>5, Ts DEF LoopTick, HandleExited, RestarterWake, RestarterFailed, rest, Goto, GoOK
  <2>4. SameObjects
    <3>1. CASE UNCHANGED obj
      BY <1>0, <3>1, UnchangedObjects
    <3>2. PICK t \in {Loop, Restarter}, s \in States :
            /\ UNCHANGED obj \/ SetState(go[t].obj, s)
            /\ UNCHANGED obj \/ go[t].pc \in {"check", "asleep", "failed"}
      BY <1>5 DEF LoopTick, HandleExited, RestarterWake, RestarterFailed, At, States
    <3>3. CASE SetState(go[t].obj, s) /\ go[t].pc \in {"check", "asleep", "failed"}
      <4>1. go[t].obj \in Objects
        BY <1>0, <3>3, Ts DEF ThreadOK, Holds
      <4>2. QED
        BY <1>0, <3>3, <4>1, StateTo
    <3>4. QED
      BY <3>1, <3>2, <3>3
  <2>5. QED
    BY <2>2, <2>3, <2>4, Ts DEF Aside
<1>6. CASE \/ \E t \in Clients : Serve(t)
           \/ \E t \in Clients, op \in Ops, group \in SUBSET Names : Request(t, op, group)
  <2>1. PICK t \in Clients :
           \/ Serve(t)
           \/ \E op \in Ops, group \in SUBSET Names : Request(t, op, group)
    BY <1>6
  <2>2. Control'
    BY <2>1, RequestControl
  <2>3. GoOK'
    BY <2>2 DEF Control, TypeOK, GoOK
  <2>4. /\ UNCHANGED <<procs, made, obj, cancelled, conf, diff, adding, disk, sigs>>
        /\ \A u \in Threads : u # t => go'[u] = go[u]
    BY <1>0, <2>1, Ts DEF Serve, Request, rest, GoOK
  <2>5. QED
    BY <2>3, <2>4, Ts DEF Aside, SameObjects
<1>7. QED
  BY <1>1, <1>2, <1>3, <1>4, <1>5, <1>6, NextSteps

-----------------------------------------------------------------------------
(* The steps of the handler that do not change the map *)

Onward ==
    /\ go'[Main] = go[Main] /\ SameObjects
    /\ UNCHANGED <<procs, made, cancelled, conf, diff, adding>>
    /\ H.pc # "idle" \/ sigs # <<>>
    /\ H'.pc \notin {"idle", "delete", "readd"}
    /\ Works => Works' /\ H'.name = H.name
    /\ Replaces' => Replaces /\ H'.obj = H.obj /\ H'.name = H.name

LEMMA HandlerProcess ==
    ASSUME Control, ProcessStep(Handler)
    PROVE  /\ Onward /\ Else /\ Moves(Handler) /\ SameObjects
           /\ H'.pc \in Starts \cup Stops \cup {"reload", "cancel", "stopAll"}
           /\ H.obj \in Objects /\ alive' \subseteq alive \cup {H.obj}
<1>0. /\ GoOK /\ ObjOK /\ FaultsOK /\ undisturbed \in BOOLEAN /\ HandlerOK /\ Handler \in Threads
      /\ go[Handler].obj \in Objects
  BY ControlFacts, ProcessPointer, Ts
<1>1. Moves(Handler) /\ SameObjects /\ Else /\ alive' \subseteq alive \cup {H.obj}
  BY <1>0, ProcessMoves DEF H
<1>2. /\ H'.next = H.next /\ H'.name = H.name /\ H'.obj = H.obj /\ H.op = "none"
      /\ go'[Main] = go[Main]
  BY <1>0, <1>1, Ts DEF Moves, Returns, GoesOn, HandlerOK, H
<1>3. H.pc \in Starts \cup Stops
  BY <1>0, <1>1 DEF Moves, HandlerOK, Starts, Stops, Shuts, H
<1>4. \/ H.pc \in Starts /\ H'.pc \in Starts \cup {"reload"}
      \/ H.pc \in Stops /\ H'.pc \in Stops \cup {H.next}
  <2>1. CASE Returns(Handler)
    <3>1. H'.pc = H.next
      BY <2>1 DEF Returns, H
    <3>2. QED
      BY <1>0, <1>3, <3>1 DEF HandlerOK
  <2>2. CASE GoesOn(Handler)
    BY <1>0, <1>2, <1>3, <2>2, Ts DEF GoesOn, H, Starts, Stops
  <2>3. QED
    BY <1>1, <2>1, <2>2 DEF Moves
<1>5. H.pc \in Stops => H.next \in {"cancel", "stopAll"}
  BY <1>0 DEF HandlerOK
<1>6. H'.pc \in Starts \cup Stops \cup {"reload", "cancel", "stopAll"}
  BY <1>4, <1>5
<1>7. Onward
  <2>1. H.pc # "idle" /\ H'.pc \notin {"idle", "delete", "readd"}
    BY <1>3, <1>6 DEF Starts, Stops
  <2>2. Works <=> H.pc \in Stops /\ H.next = "cancel"
    BY <1>3 DEF Works, Replaces, Starts, Stops
  <2>3. Works' <=> Replaces'
    BY <2>1 DEF Works
  <2>4. Works' <=> Works
    BY <1>2, <1>4, <1>5, <2>2, <2>3 DEF Works, Replaces, Starts, Stops
  <2>5. Works => Replaces
    BY <2>2 DEF Replaces
  <2>6. QED
    BY <1>1, <1>2, <2>1, <2>3, <2>4, <2>5 DEF Onward, Else
<1>8. QED
  BY <1>0, <1>1, <1>6, <1>7 DEF H

(* StopAll and the end of the shutdown *)
LEMMA ShutOnward ==
    ASSUME Control,
           \/ Terminate \/ StopAllNext \/ ReloadStart
           \/ SaveBegin \/ SaveWrite \/ SaveRename \/ CloseDone
    PROVE  /\ Onward
           /\ H'.pc = "rename" => SaveWrite
           /\ ~SaveWrite /\ ~SaveRename => UNCHANGED disk
<1>0. /\ GoOK /\ HandlerOK /\ H \in ThreadType /\ Handler \in Threads /\ Main # Handler
      /\ Main \in Threads /\ ObjOK /\ Control
  BY ControlFacts, Ts DEF H
<1>a. UNCHANGED obj => SameObjects
  BY <1>0, UnchangedObjects
<1>b. {"snapshot", "rename", "close", "gone"} \subseteq PC
  BY DEF PC
<1>1. ASSUME NEW l, H.pc \in {"idle", "stopAll", "lookup"} \cup Shuts, H'.pc = l,
             l \in {"stopAll", "save", "snapshot", "rename", "close", "gone", "start", "reload"}
                \/ (l = "stop" /\ H'.next = "stopAll"),
             UNCHANGED <<procs, obj, made, cancelled, conf, diff, adding>>,
             H.pc # "idle" \/ sigs # <<>>, go'[Main] = go[Main]
      PROVE  Onward
  <2>1. ~Works /\ ~Works'
    BY <1>1 DEF Works, Replaces, Shuts, Stops
  <2>2. QED
    BY <1>1, <1>a, <2>1 DEF Onward, Works
<1>2. CASE Terminate
  <2>1. /\ H.pc = "idle" /\ sigs # <<>>
        /\ UNCHANGED <<procs, obj, made, cancelled, conf, diff, adding, disk>>
    BY <1>2 DEF Terminate, At, H, rest
  <2>2. H'.pc = "stopAll" /\ go'[Main] = go[Main]
    BY <1>0, <1>2 DEF Terminate, GoOK, H, ThreadType
  <2>3. Onward
    BY <1>1, <2>1, <2>2
  <2>4. QED
    BY <2>1, <2>2, <2>3
<1>3. CASE StopAllNext
  <2>1. H.pc = "stopAll" /\ UNCHANGED <<procs, obj, made, cancelled, conf, diff, adding, disk>>
    BY <1>3 DEF StopAllNext, At, H, rest
  <2>2. go'[Main] = go[Main]
    BY <1>0, <1>3 DEF StopAllNext, GoOK
  <2>3. H'.pc \in {"save", "stopAll"} \/ (H'.pc = "stop" /\ H'.next = "stopAll")
    <3>1. CASE H.todo = {}
      <4>1. go' = [go EXCEPT ![Handler] = [Idle EXCEPT !.pc = "save"]]
        BY <1>3, <3>1 DEF StopAllNext, H
      <4>2. QED
        BY <1>0, <4>1 DEF GoOK, H, Idle
    <3>2. CASE H.todo # {}
      <4> DEFINE stops(n) == Mapped(n) /\ State(procs[n]) \notin {"STOPPED", "STOPPING"}
                 r(n) == [H EXCEPT !.todo = H.todo \ {n}, !.obj = procs[n], !.next = "stopAll",
                                   !.pc = IF stops(n) THEN "stop" ELSE "stopAll"]
      <4>1. PICK n \in H.todo : go' = [go EXCEPT ![Handler] = r(n)]
        BY <1>3, <3>2 DEF StopAllNext, H
      <4>2. r(n).pc \in {"stop", "stopAll"} /\ r(n).next = "stopAll"
        BY <1>0 DEF ThreadType
      <4> HIDE DEF r
      <4>3. QED
        BY <1>0, <4>1, <4>2 DEF GoOK, H
    <3>3. QED
      BY <3>1, <3>2
  <2>4. Onward
    BY <1>1, <2>1, <2>2, <2>3
  <2>5. QED
    BY <2>1, <2>3, <2>4
<1>4. CASE ReloadStart
  <2>1. H.pc = "lookup" /\ UNCHANGED <<procs, obj, made, cancelled, conf, diff, adding, disk>>
    BY <1>4 DEF ReloadStart, At, H, rest
  <2>2. go'[Main] = go[Main]
    BY <1>0, <1>4 DEF ReloadStart, GoOK
  <2>3. H'.pc \in {"start", "reload"}
    BY <1>0, <1>4 DEF ReloadStart, H, GoOK, ThreadType
  <2>4. Onward
    BY <1>1, <2>1, <2>2, <2>3
  <2>5. QED
    BY <2>1, <2>3, <2>4
<1>5. CASE SaveBegin \/ SaveWrite \/ SaveRename \/ CloseDone
  <2>1. /\ H.pc \in Shuts /\ UNCHANGED <<procs, obj, made, cancelled, conf, diff, adding>>
        /\ ~SaveWrite /\ ~SaveRename => UNCHANGED disk
    BY <1>5 DEF SaveBegin, SaveWrite, SaveRename, CloseDone, At, H, rest, Shuts
  <2>2. PICK l \in {"snapshot", "rename", "close", "gone"} :
              Goto(Handler, l) /\ (l = "rename" => SaveWrite)
    BY <1>5 DEF SaveBegin, SaveWrite, SaveRename, CloseDone
  <2>3. H'.pc = l /\ go'[Main] = go[Main]
    BY <1>0, <1>b, <2>2, PcTo DEF H
  <2>4. Onward
    BY <1>1, <2>1, <2>3 DEF Shuts
  <2>5. QED
    BY <2>1, <2>2, <2>3, <2>4
<1>6. QED
  BY <1>2, <1>3, <1>4, <1>5

(* The steps of a reload that change the map or what is left to do *)
ReloadSteps == Reload \/ ReloadNext \/ ReloadCancel \/ ReloadDelete \/ ReloadAdd

(* where ReloadNext leads *)
StopsOne ==
    \E n \in Names :
        /\ \/ n \in diff.removed /\ diff' = [diff EXCEPT !.removed = @ \ {n}]
           \/ diff.removed = {} /\ n \in diff.modified /\ n \in DOMAIN conf
              /\ diff' = [diff EXCEPT !.modified = @ \ {n}]
        /\ H'.name = n /\ H'.obj = procs[n] /\ H'.next = "cancel"
        /\ H'.pc = IF Mapped(n) THEN "stop" ELSE "delete"

AddsNext ==
    \E n \in diff.added :
        /\ diff.removed = {} /\ diff.modified = {}
        /\ diff' = [diff EXCEPT !.added = @ \ {n}]
        /\ H'.name = n /\ H'.pc = "readd"

EndsReload == diff = Nothing /\ H' = Idle /\ UNCHANGED diff

LEMMA ReloadNextTo ==
    ASSUME Control, ReloadNext
    PROVE  StopsOne \/ AddsNext \/ EndsReload \/ UNCHANGED <<diff, go>>
<1>0. /\ GoOK /\ H \in ThreadType /\ Handler \in Threads
      /\ diff.added \subseteq Names /\ diff.removed \subseteq Names
      /\ diff.modified \subseteq Names
  BY ControlFacts, Ts DEF H, TypeConf
<1> DEFINE l(n) == IF Mapped(n) THEN "stop" ELSE "delete"
           r(n) == [H EXCEPT !.name = n, !.obj = procs[n], !.next = "cancel", !.pc = l(n)]
           q(n) == [H EXCEPT !.name = n, !.pc = "readd"]
           gone == IF diff.removed # {} THEN diff.removed ELSE diff.modified
<1>1. ASSUME NEW n \in gone, diff.removed # {} \/ n \in DOMAIN conf,
             go' = [go EXCEPT ![Handler] = r(n)],
             diff' = IF diff.removed # {} THEN [diff EXCEPT !.removed = @ \ {n}]
                                          ELSE [diff EXCEPT !.modified = @ \ {n}]
      PROVE  StopsOne
  <2>1. r(n).name = n /\ r(n).obj = procs[n] /\ r(n).next = "cancel" /\ r(n).pc = l(n)
    <3> HIDE DEF l
    <3> QED
      BY <1>0 DEF ThreadType
  <2>2. H' = r(n)
    <3> HIDE DEF r
    <3> QED
      BY <1>0, <1>1 DEF GoOK, H
  <2> HIDE DEF r
  <2>3. n \in Names
    BY <1>0, <1>1
  <2>4. \/ n \in diff.removed /\ diff' = [diff EXCEPT !.removed = @ \ {n}]
        \/ /\ diff.removed = {} /\ n \in diff.modified /\ n \in DOMAIN conf
           /\ diff' = [diff EXCEPT !.modified = @ \ {n}]
    BY <1>1
  <2>5. QED
    BY <2>1, <2>2, <2>3, <2>4 DEF StopsOne
<1>2. ASSUME NEW n \in diff.added, diff.removed = {}, diff.modified = {},
             diff' = [diff EXCEPT !.added = @ \ {n}],
             go' = [go EXCEPT ![Handler] = q(n)]
      PROVE  AddsNext
  <2>1. q(n).name = n /\ q(n).pc = "readd"
    BY <1>0 DEF ThreadType
  <2>2. H' = q(n)
    <3> HIDE DEF q
    <3> QED
      BY <1>0, <1>2 DEF GoOK, H
  <2> HIDE DEF q
  <2>3. QED
    BY <1>2, <2>1, <2>2 DEF AddsNext
<1>3. ASSUME go' = [go EXCEPT ![Handler] = Idle], diff = Nothing, UNCHANGED diff
      PROVE  EndsReload
  BY <1>0, <1>3 DEF GoOK, H, EndsReload
<1>4. QED
  BY <1>1, <1>2, <1>3 DEF ReloadNext, H

LEMMA ReloadHandler ==
    ASSUME Control, ReloadSteps
    PROVE  /\ UNCHANGED <<disk, adding>> /\ H'.pc # "rename" /\ go'[Main] = go[Main]
           /\ H.pc # "idle" \/ sigs # <<>>
<1>0. /\ GoOK /\ HandlerOK /\ H \in ThreadType /\ Handler \in Threads /\ Main # Handler
      /\ Main \in Threads
  BY ControlFacts, Ts DEF H
<1>1. UNCHANGED <<disk, adding>> /\ (H.pc # "idle" \/ sigs # <<>>)
  BY DEF ReloadSteps, Reload, ReloadNext, ReloadCancel, ReloadDelete, ReloadAdd, At, H, rest
<1>2. CASE Reload
  <2>1. UNCHANGED go \/ Goto(Handler, "reload")
    BY <1>2 DEF Reload
  <2>2. H.pc = "idle"
    BY <1>2 DEF Reload, At, H
  <2>3. QED
    BY <1>0, <1>1, <2>1, <2>2, PcTo DEF H, PC
<1>3. CASE ReloadNext
  <2>1. go'[Main] = go[Main]
    BY <1>0, <1>3 DEF ReloadNext, GoOK
  <2>2. H'.pc # "rename"
    <3>1. StopsOne => H'.pc \in {"stop", "delete"}
      BY DEF StopsOne
    <3>2. AddsNext => H'.pc = "readd"
      BY DEF AddsNext
    <3>3. EndsReload => H'.pc = "idle"
      BY IdleFields DEF EndsReload
    <3>4. UNCHANGED go => H'.pc = "reload"
      BY <1>3 DEF ReloadNext, At, H
    <3>5. QED
      BY <1>3, <3>1, <3>2, <3>3, <3>4, ReloadNextTo
  <2>3. QED
    BY <1>1, <2>1, <2>2
<1>4. CASE ReloadCancel
  BY <1>0, <1>1, <1>4, PcTo DEF ReloadCancel, H, PC
<1>5. CASE ReloadDelete
  BY <1>0, <1>1, <1>5 DEF ReloadDelete, GoOK, H, ThreadType
<1>6. CASE ReloadAdd
  <2>1. PICK l \in {"reload", "lookup"} : Goto(Handler, l)
    BY <1>6 DEF ReloadAdd
  <2>2. QED
    BY <1>0, <1>1, <2>1, PcTo DEF H, PC
<1>7. QED
  BY <1>2, <1>3, <1>4, <1>5, <1>6 DEF ReloadSteps

LEMMA HandlerSteps ==
    ASSUME HandlerStep
    PROVE  \/ ReloadSteps
           \/ Terminate \/ StopAllNext \/ ReloadStart
           \/ SaveBegin \/ SaveWrite \/ SaveRename \/ CloseDone
  BY DEF HandlerStep, ReloadSteps

-----------------------------------------------------------------------------
(* The state file *)

LEMMA InitDisk == Init => DiskInv
<1>1. Init => disk.file = "whole" /\ disk.tmp = "none" /\ go = [Blank.go EXCEPT ![Main].pc = "add"]
  BY DEF Init
<1>2. Blank.go = [t \in Threads |-> Idle]
  BY DEF Blank
<1>3. Init => H.pc = "idle"
  BY <1>1, <1>2, Ts, IdleFields DEF H
<1>4. QED
  BY <1>1, <1>3 DEF DiskInv

LEMMA NextDisk ==
    ASSUME Control, DiskInv, ~SyncFails, [Next]_vars PROVE DiskInv'
<1>0. /\ GoOK /\ TypeDisk /\ Handler \in Threads /\ HandlerOK /\ Main # Handler
  BY ControlFacts, Ts
<1>1. CASE UNCHANGED disk /\ (H'.pc = "rename" => H.pc = "rename")
  BY <1>1 DEF DiskInv
<1>2. CASE AddsOne
  BY <1>0, <1>1, <1>2, ConfigFacts DEF AddsOne, MainAdd, H, NoPrograms
<1>3. CASE HandlerStep
  <2>1. CASE SaveWrite
    <3>1. CASE disk' \in [file : {disk.file}, tmp : {"whole"} \cup {}]
      BY <3>1 DEF DiskInv
    <3>2. CASE disk' = [disk EXCEPT !.tmp = "partial"] /\ Goto(Handler, "close")
      <4>1. H'.pc = "close"
        BY <1>0, <3>2, PcTo DEF H, PC
      <4>2. QED
        BY <1>0, <3>2, <4>1 DEF DiskInv, TypeDisk
    <3>3. QED
      BY <2>1, <3>1, <3>2 DEF SaveWrite
  <2>2. CASE SaveRename
    <3>1. H'.pc = "close" /\ H.pc = "rename"
      BY <1>0, <2>2, PcTo DEF SaveRename, H, PC, At
    <3>2. QED
      BY <1>0, <2>2, <3>1 DEF SaveRename, DiskInv, TypeDisk
  <2>3. CASE ~SaveWrite /\ ~SaveRename
    <3>1. UNCHANGED disk /\ H'.pc # "rename"
      BY <1>3, <2>3, HandlerSteps, ShutOnward, ReloadHandler
    <3>2. QED
      BY <1>1, <3>1
  <2>4. QED
    BY <2>1, <2>2, <2>3
<1>4. CASE ProcessStep(Handler)
  <2>1. UNCHANGED disk /\ H'.pc # "rename"
    BY <1>4, HandlerProcess DEF Else, Starts, Stops
  <2>2. QED
    BY <1>1, <2>1
<1>5. CASE PowerLoss
  <2>1. go' = [t \in Threads |-> Idle]
    BY <1>5 DEF PowerLoss, Blank
  <2>2. H'.pc = "idle"
    BY <2>1, IdleFields, Ts DEF H
  <2>3. QED
    BY <1>0, <1>5, <2>2 DEF PowerLoss, DiskInv, TypeDisk
<1>6. CASE ~AddsOne /\ ~HandlerStep /\ ~ProcessStep(Handler) /\ ~PowerLoss
  BY <1>1, <1>6, AsideSteps DEF Aside, H
<1>7. QED
  BY <1>2, <1>3, <1>4, <1>5, <1>6

(* "fsync the temp file before rename": as long as f.Sync() brings the data to
   the disk, no crash at any moment of SaveState leaves a torn state file. *)
THEOREM StateFileSafe == ASSUME ~SyncFails PROVE Spec => []StateFileWhole
<1>1. Init => DiskInv
  BY InitDisk
<1>2. Control /\ DiskInv /\ [Next]_vars => DiskInv'
  BY NextDisk
<1>3. DiskInv => StateFileWhole
  BY DEF DiskInv, StateFileWhole
<1>4. QED
  BY <1>1, <1>2, <1>3, AlwaysControl, PTL DEF Spec

-----------------------------------------------------------------------------
(* The map and the reload *)

MapFacts == Control /\ MapInv /\ ~EarlySignals

(* what MapInv needs to know of the objects *)
LEMMA ObjectFacts ==
    ASSUME Control
    PROVE  /\ \A n \in Names : procs[n] # 0 => procs[n] \in Objects /\ obj[procs[n]].name = n
           /\ \A o \in Objects : o <= made => obj[o].name \in Names
           /\ \A o \in Objects : o # 0 /\ o \in Nat
           /\ made \in Nat /\ DOMAIN conf \subseteq Names /\ DOMAIN adding \subseteq Names
           /\ Pending \subseteq Names
<1>1. TypeMap /\ Pointers /\ TypeConf /\ made \in Nat
  BY ControlFacts
<1>2. QED
  BY <1>1, ControlFacts, Refs, ConfigFacts DEF TypeMap, Named, Pointers, TypeConf, Pending

(* The map, the objects and the configuration stay. *)
LEMMA SameConfigured ==
    ASSUME Control, SameObjects, UNCHANGED <<procs, made, cancelled, conf>>
    PROVE  (Kept => Kept') /\ \A n \in Names : AsConfigured(n) => AsConfigured(n)'
<1>1. Kept => Kept'
  BY ObjectFacts DEF Kept, SameObjects
<1>2. ASSUME NEW n \in Names, AsConfigured(n) PROVE AsConfigured(n)'
  BY <1>2, ObjectFacts DEF AsConfigured, SameObjects
<1>3. QED
  BY <1>1, <1>2

LEMMA AsideMap == ASSUME MapFacts, Aside PROVE MapInv'
<1>0. Control /\ Kept /\ Replacing /\ Booting /\ Settles
  BY DEF MapFacts, MapInv
<1>1. Kept' /\ \A n \in Names : AsConfigured(n) => AsConfigured(n)'
  BY <1>0, SameConfigured DEF Aside
<1>2. H' = H /\ UNCHANGED <<procs, cancelled, conf, diff, adding>>
  BY DEF Aside, H
<1>3. (Works' <=> Works) /\ (Replaces' <=> Replaces) /\ UNCHANGED Pending
  BY <1>2 DEF Works, Replaces, Pending
<1>4. Replacing'
  BY <1>0, <1>2, <1>3 DEF Replacing
<1>5. Booting'
  <2>1. go'[Main].pc = "add" => go[Main].pc = "add" /\ UNCHANGED sigs
    BY DEF Aside, Signal, At, MapFacts
  <2>2. QED
    BY <1>0, <1>2, <2>1 DEF Booting
<1>6. Settles'
  <2>1. DOMAIN NoPrograms = {}
    BY ConfigFacts
  <2>2. go[Main].pc = "add" => go'[Main].pc = "add" \/ adding = NoPrograms
    BY DEF Aside
  <2>3. QED
    BY <1>0, <1>1, <1>2, <1>3, <2>1, <2>2 DEF Settles
<1>7. QED
  BY <1>1, <1>4, <1>5, <1>6 DEF MapInv

LEMMA OnwardMap == ASSUME MapFacts, Onward PROVE MapInv'
<1>0. Control /\ Kept /\ Replacing /\ Booting /\ Settles
  BY DEF MapFacts, MapInv
<1>1. Kept' /\ \A n \in Names : AsConfigured(n) => AsConfigured(n)'
  BY <1>0, SameConfigured DEF Onward
<1>2. /\ UNCHANGED <<procs, cancelled, conf, diff, adding>> /\ UNCHANGED Pending
      /\ go'[Main] = go[Main]
  BY DEF Onward, Pending
<1>3. go[Main].pc # "add"
  BY <1>0 DEF Onward, Booting
<1>4. Works' => Replaces'
  BY DEF Onward, Works
<1>5. Replacing'
  <2>1. Replaces' => Replaces /\ H'.obj = H.obj /\ H'.name = H.name
    BY DEF Onward
  <2>2. Replaces => Works
    BY DEF Works
  <2>3. H'.pc \notin {"idle", "delete", "readd"}
    BY DEF Onward
  <2>4. QED
    BY <1>0, <1>2, <1>4, <2>1, <2>2, <2>3 DEF Replacing
<1>6. Booting'
  BY <1>2, <1>3 DEF Booting
<1>7. Settles'
  BY <1>0, <1>1, <1>2, <1>3 DEF Settles, Onward
<1>8. QED
  BY <1>1, <1>5, <1>6, <1>7 DEF MapInv

LEMMA ReloadMap == ASSUME MapFacts, Reload PROVE MapInv'
<1>0. Control /\ Kept /\ Replacing /\ Booting /\ Settles
  BY DEF MapFacts, MapInv
<1>1. /\ go'[Main] = go[Main] /\ go[Main].pc # "add"
      /\ UNCHANGED <<procs, obj, made, cancelled, adding>> /\ sigs # <<>>
      /\ H.pc = "idle"
  <2>1. sigs # <<>>
    BY DEF Reload
  <2>2. QED
    BY <1>0, <2>1, ReloadHandler DEF Reload, ReloadSteps, rest, At, H, Booting
<1>2. Kept' /\ Booting'
  BY <1>0, <1>1 DEF Kept, Booting
<1>3. CASE UNCHANGED <<conf, diff, go>>
  <2>1. H' = H /\ UNCHANGED Pending /\ (Works' <=> Works) /\ (Replaces' <=> Replaces)
    BY <1>3 DEF H, Pending, Works, Replaces
  <2>2. Replacing'
    BY <1>0, <1>1, <1>3, <2>1 DEF Replacing
  <2>3. Settles'
    BY <1>0, <1>1, <1>3, <2>1 DEF Settles, AsConfigured
  <2>4. QED
    BY <1>2, <2>2, <2>3 DEF MapInv
<1>4. ASSUME NEW c \in Programs, conf' = c, diff' = SortedDiff(c), Goto(Handler, "reload")
      PROVE  MapInv'
  <2>1. H'.pc = "reload"
    BY <1>0, <1>4, HandlerPc DEF PC
  <2>2. ~Works' /\ ~Replaces'
    BY <2>1 DEF Works, Replaces, Stops
  <2>3. /\ diff'.removed = {n \in Names : procs[n] # 0 /\ n \notin DOMAIN c}
        /\ diff'.added = {n \in DOMAIN c : procs[n] = 0}
        /\ \A n \in DOMAIN c \ Looped :
             procs[n] # 0 /\ obj[procs[n]].cfg # c[n] => n \in diff'.modified
        /\ \A n \in diff'.modified : n \in Extras \/ (n \in DOMAIN c /\ procs[n] # 0)
    BY <1>0, <1>4, SortedChanges
  <2>4. Replacing'
    BY <1>1, <2>1, <2>2, <2>3 DEF Replacing
  <2>5. Settles'
    BY <1>1, <1>4, <2>3 DEF Settles, AsConfigured, Pending
  <2>6. QED
    BY <1>2, <2>4, <2>5 DEF MapInv
<1>5. QED
  BY <1>3, <1>4, ManagerAssumption DEF Reload, SortedDiff

LEMMA ReloadNextMap == ASSUME MapFacts, ReloadNext PROVE MapInv'
<1>0. Control /\ Kept /\ Replacing /\ Booting /\ Settles /\ TypeConf
  BY ControlFacts DEF MapFacts, MapInv
<1>1. /\ go'[Main] = go[Main] /\ go[Main].pc # "add" /\ H.pc = "reload"
      /\ UNCHANGED <<procs, obj, made, cancelled, conf, adding>>
  BY <1>0, ReloadHandler DEF ReloadNext, ReloadSteps, rest, At, H, Booting
<1>2. Kept' /\ Booting' /\ \A n \in Names : AsConfigured(n)' <=> AsConfigured(n)
  BY <1>0, <1>1 DEF Kept, Booting, AsConfigured
<1>3. ~Works /\ \A n \in Names \ Looped : n \in Pending \/ AsConfigured(n)
  BY <1>0, <1>1 DEF Settles, Works, Replaces, Stops
<1>4. CASE StopsOne
  <2>1. PICK n \in Names :
          /\ \/ n \in diff.removed /\ diff' = [diff EXCEPT !.removed = @ \ {n}]
             \/ diff.removed = {} /\ n \in diff.modified /\ n \in DOMAIN conf
                /\ diff' = [diff EXCEPT !.modified = @ \ {n}]
          /\ H'.name = n /\ H'.obj = procs[n] /\ H'.next = "cancel"
          /\ H'.pc = IF Mapped(n) THEN "stop" ELSE "delete"
    BY <1>4 DEF StopsOne
  <2>2. n \notin Extras =>
            n \notin diff.added /\ ~(n \in diff.removed /\ n \in diff.modified)
    BY <1>0, <2>1 DEF Replacing
  <2>3. /\ diff'.removed \subseteq diff.removed /\ diff'.modified \subseteq diff.modified
        /\ diff'.added = diff.added
        /\ n \notin Extras => n \notin diff'.removed /\ n \notin diff'.modified
        /\ \A m \in Pending : m = n \/ m \in Pending'
    BY <1>0, <2>1, <2>2 DEF TypeConf, Pending
  <2>4. H'.pc = (IF procs[n] # 0 THEN "stop" ELSE "delete")
    BY <2>1 DEF Mapped
  <2>5. Works'
    BY <2>1, <2>4 DEF Works, Replaces, Stops
  <2>6. Replacing'
    <3>1. (Replaces' => procs'[n] = H'.obj) /\ (H'.pc = "delete" => procs'[n] = 0)
      BY <1>1, <2>1, <2>4
    <3>2. H'.pc # "readd" /\ H'.pc # "idle"
      BY <2>4
    <3>3. n \notin Pending' \/ n \in Extras
      BY <2>2, <2>3 DEF Pending
    <3>4. QED
      BY <1>0, <1>1, <2>1, <2>3, <3>1, <3>2, <3>3 DEF Replacing
  <2>7. Settles'
    BY <1>2, <1>3, <2>1, <2>3, <2>5 DEF Settles
  <2>8. QED
    BY <1>2, <2>6, <2>7 DEF MapInv
<1>5. CASE AddsNext
  <2>1. PICK n \in diff.added :
          /\ diff.removed = {} /\ diff.modified = {}
          /\ diff' = [diff EXCEPT !.added = @ \ {n}]
          /\ H'.name = n /\ H'.pc = "readd"
    BY <1>5 DEF AddsNext
  <2>2. /\ diff'.removed = {} /\ diff'.modified = {} /\ diff'.added = diff.added \ {n}
        /\ Pending' = Pending \ {n}
    BY <1>0, <2>1 DEF TypeConf, Pending
  <2>3. Works' /\ ~Replaces' /\ (procs[n] = 0 \/ n \in Extras)
    BY <1>0, <2>1 DEF Works, Replaces, Stops, Replacing
  <2>4. Replacing'
    BY <1>0, <1>1, <2>1, <2>2, <2>3 DEF Replacing
  <2>5. Settles'
    BY <1>2, <1>3, <2>1, <2>2, <2>3 DEF Settles
  <2>6. QED
    BY <1>2, <2>4, <2>5 DEF MapInv
<1>6. CASE EndsReload
  <2>1. H'.pc = "idle" /\ UNCHANGED diff /\ diff = Nothing /\ UNCHANGED Pending
    BY <1>6, IdleFields DEF EndsReload, Pending
  <2>2. ~Works' /\ ~Replaces'
    BY <2>1 DEF Works, Replaces, Stops
  <2>3. Replacing'
    BY <1>0, <1>1, <2>1, <2>2 DEF Replacing
  <2>4. Settles'
    BY <1>2, <1>3, <2>1 DEF Settles
  <2>5. QED
    BY <1>2, <2>3, <2>4 DEF MapInv
<1>7. CASE UNCHANGED <<diff, go>>
  <2>1. H' = H /\ UNCHANGED Pending /\ ~Works' /\ ~Replaces'
    BY <1>3, <1>7 DEF H, Pending, Works, Replaces
  <2>2. Replacing'
    BY <1>0, <1>1, <1>7, <2>1 DEF Replacing
  <2>3. Settles'
    BY <1>2, <1>3, <2>1 DEF Settles
  <2>4. QED
    BY <1>2, <2>2, <2>3 DEF MapInv
<1>8. QED
  BY <1>0, <1>4, <1>5, <1>6, <1>7, ReloadNextTo

LEMMA ReloadCancelMap == ASSUME MapFacts, ReloadCancel PROVE MapInv'
<1>0. Control /\ Kept /\ Replacing /\ Booting /\ Settles
  BY DEF MapFacts, MapInv
<1>1. /\ go'[Main] = go[Main] /\ go[Main].pc # "add" /\ H.pc = "cancel"
      /\ UNCHANGED <<procs, obj, made, conf, adding, diff>>
      /\ cancelled' = cancelled \cup {H.obj} /\ Goto(Handler, "delete")
  BY <1>0, ReloadHandler DEF ReloadCancel, ReloadSteps, rest, At, H, Booting
<1>2. H'.pc = "delete" /\ H'.name = H.name
  BY <1>0, <1>1, HandlerPc DEF PC
<1>3. /\ Works /\ Replaces /\ Works' /\ ~Replaces' /\ UNCHANGED Pending
      /\ procs[H.name] = H.obj
  BY <1>0, <1>1, <1>2 DEF Works, Replaces, Stops, Pending, Replacing
<1>4. Kept' /\ Booting'
  BY <1>0, <1>1 DEF Kept, Booting
<1>5. Replacing'
  BY <1>0, <1>1, <1>2, <1>3 DEF Replacing
<1>6. Settles'
  BY <1>0, <1>1, <1>2, <1>3 DEF Settles, AsConfigured
<1>7. QED
  BY <1>4, <1>5, <1>6 DEF MapInv

LEMMA ReloadDeleteMap == ASSUME MapFacts, ReloadDelete PROVE MapInv'
<1>0. Control /\ Kept /\ Replacing /\ Booting /\ Settles /\ GoOK /\ H \in ThreadType
      /\ procs \in [Names -> Ref] /\ HandlerOK /\ Handler \in Threads
  BY ControlFacts, Ts DEF MapFacts, MapInv, TypeMap, H
<1> DEFINE n == H.name
           l == IF n \in DOMAIN conf THEN "readd" ELSE "reload"
           r == [H EXCEPT !.obj = 0, !.pc = l]
<1>1. /\ go'[Main] = go[Main] /\ go[Main].pc # "add" /\ H.pc = "delete"
      /\ UNCHANGED <<obj, made, conf, adding, diff, cancelled>>
      /\ procs' = [procs EXCEPT ![n] = 0] /\ go' = [go EXCEPT ![Handler] = r]
  BY <1>0, ReloadHandler DEF ReloadDelete, ReloadSteps, rest, At, H, Booting
<1>2. r.pc = l /\ r.name = n
  <2> HIDE DEF l
  <2> QED
    BY <1>0 DEF ThreadType
<1>3. H'.pc = l /\ H'.name = n
  <2> HIDE DEF r
  <2> QED
    BY <1>0, <1>1, <1>2 DEF GoOK, H
<1> HIDE DEF r
<1>4. /\ Works /\ n \in Names /\ (n \notin Pending \/ n \in Extras) /\ UNCHANGED Pending
      /\ procs[n] = 0 \/ procs[n] \in cancelled
  BY <1>0, <1>1 DEF Works, HandlerOK, Replacing, Pending
<1>5. procs'[n] = 0 /\ \A m \in Names : m # n => procs'[m] = procs[m]
  BY <1>0, <1>1, <1>4
<1>6. Kept'
  <2> SUFFICES ASSUME NEW o \in Objects, o <= made
               PROVE  procs'[obj[o].name] = o \/ o \in cancelled \/ obj[o].name \in Extras
    BY <1>1 DEF Kept
  <2>1. /\ obj[o].name \in Names /\ o # 0
        /\ procs[obj[o].name] = o \/ o \in cancelled \/ obj[o].name \in Extras
    BY <1>0, ObjectFacts DEF Kept
  <2>2. QED
    BY <1>4, <1>5, <2>1
<1>7. Booting'
  BY <1>1 DEF Booting
<1>8. ~Replaces' /\ (Works' <=> l = "readd") /\ (l = "readd" <=> n \in DOMAIN conf)
      /\ l \in {"readd", "reload"}
  BY <1>3 DEF Works, Replaces, Stops
<1> HIDE DEF l
<1>9. Replacing'
  <2>1. Pending \subseteq Names
    BY <1>0, ObjectFacts
  <2>2. QED
    BY <1>0, <1>1, <1>3, <1>4, <1>5, <1>8, <2>1 DEF Replacing, Pending
<1>10. Settles'
  <2> SUFFICES ASSUME NEW m \in Names \ Looped
               PROVE  m \in Pending' \/ (Works' /\ m = H'.name) \/ AsConfigured(m)'
    BY DEF Settles
  <2>1. CASE m = n
    BY <1>1, <1>3, <1>5, <1>8, <2>1 DEF AsConfigured
  <2>2. CASE m # n
    <3>1. m \in Pending \/ AsConfigured(m)
      BY <1>0, <1>1, <2>2 DEF Settles
    <3>2. QED
      BY <1>1, <1>4, <1>5, <2>2, <3>1 DEF AsConfigured
  <2>3. QED
    BY <2>1, <2>2
<1>11. QED
  BY <1>6, <1>7, <1>9, <1>10 DEF MapInv

(* AddProcess for a name that the map does not have, or may have twice *)
LEMMA AddKeeps ==
    ASSUME Control, Kept, NEW n \in Names, NEW c \in Programs, n \in DOMAIN c,
           AddProcess(n, c), GoOK', UNCHANGED <<cancelled, alive, conf>>, procs[n] = 0 \/ n \in Extras
    PROVE  /\ Kept' /\ procs'[n] # 0 /\ \A m \in Names : m # n => procs'[m] = procs[m]
           /\ \A m \in Names : m # n => (AsConfigured(m) => AsConfigured(m)')
           /\ (n \in DOMAIN conf /\ c[n] = conf[n]) => AsConfigured(n)'
<1>0. /\ made' = made + 1 /\ made + 1 \in Objects /\ made \in Nat
      /\ procs'[n] = made + 1 /\ \A m \in Names : m # n => procs'[m] = procs[m]
      /\ obj'[made + 1].name = n /\ obj'[made + 1].cfg = c[n]
      /\ \A o \in Objects : o # made + 1 => obj'[o] = obj[o]
  BY AddMap
<1>1. procs'[n] # 0
  BY <1>0
<1>2. Kept'
  <2> SUFFICES ASSUME NEW o \in Objects, o <= made'
               PROVE  procs'[obj'[o].name] = o \/ o \in cancelled \/ obj'[o].name \in Extras
    BY DEF Kept
  <2>1. CASE o = made + 1
    BY <1>0, <2>1
  <2>2. CASE o # made + 1
    <3>1. o \in Nat /\ o # 0
      BY ObjectFacts
    <3>2. o <= made
      BY <1>0, <2>2, <3>1
    <3>3. /\ obj[o].name \in Names
          /\ procs[obj[o].name] = o \/ o \in cancelled \/ obj[o].name \in Extras
      BY <3>2, ObjectFacts DEF Kept
    <3>4. QED
      BY <1>0, <2>2, <3>1, <3>3
  <2>3. QED
    BY <2>1, <2>2
<1>3. ASSUME NEW m \in Names, m # n, AsConfigured(m) PROVE AsConfigured(m)'
  <2>1. procs[m] # 0 => procs[m] \in Objects /\ procs[m] # made + 1
    <3>1. procs[m] # 0 => procs[m] \in Objects /\ procs[m] <= made
      BY ControlFacts
    <3>2. QED
      BY <1>0, <3>1, Refs
  <2>2. QED
    BY <1>0, <1>3, <2>1 DEF AsConfigured
<1>4. (n \in DOMAIN conf /\ c[n] = conf[n]) => AsConfigured(n)'
  BY <1>0, <1>1 DEF AsConfigured
<1>5. QED
  BY <1>0, <1>1, <1>2, <1>3, <1>4

LEMMA ReloadAddMap == ASSUME MapFacts, ReloadAdd PROVE MapInv'
<1>0. Control /\ Kept /\ Replacing /\ Booting /\ Settles /\ HandlerOK /\ conf \in Programs
      /\ GoOK /\ Handler \in Threads
  BY ControlFacts, Ts DEF MapFacts, MapInv, TypeConf
<1>a. H.pc = "readd"
  BY DEF ReloadAdd, At, H
<1>b. PICK n \in Names : n = H.name
  BY <1>0, <1>a DEF HandlerOK, Works
<1>1. /\ go'[Main] = go[Main] /\ go[Main].pc # "add" /\ H.pc = "readd"
      /\ UNCHANGED <<conf, adding, diff, cancelled, alive>> /\ AddProcess(n, conf)
  BY <1>0, <1>b, ReloadHandler DEF ReloadAdd, ReloadSteps, rest, At, H, Booting
<1>2. PICK l \in {"reload", "lookup"} : Goto(Handler, l)
  BY DEF ReloadAdd
<1>3. H'.pc = l /\ GoOK'
  BY <1>0, <1>2, PcTo DEF H, PC
<1>4. /\ Works /\ n \in Names /\ n \in DOMAIN conf /\ UNCHANGED Pending
      /\ n \notin Pending \/ n \in Extras
      /\ procs[n] = 0 \/ n \in Extras
  BY <1>0, <1>1, <1>b DEF Works, HandlerOK, Replacing, Pending
<1>5. /\ Kept' /\ procs'[n] # 0 /\ \A m \in Names : m # n => procs'[m] = procs[m]
      /\ \A m \in Names : m # n => (AsConfigured(m) => AsConfigured(m)')
      /\ AsConfigured(n)'
  BY <1>0, <1>1, <1>3, <1>4, AddKeeps
<1>6. ~Works' /\ ~Replaces'
  BY <1>3 DEF Works, Replaces, Stops
<1>7. Replacing'
  <2>1. Pending \subseteq Names
    BY <1>0, ObjectFacts
  <2>2. QED
    BY <1>0, <1>1, <1>3, <1>4, <1>5, <1>6, <2>1 DEF Replacing, Pending
<1>8. Booting'
  BY <1>1 DEF Booting
<1>9. Settles'
  BY <1>0, <1>1, <1>4, <1>5, <1>b DEF Settles
<1>10. QED
  BY <1>5, <1>7, <1>8, <1>9 DEF MapInv

LEMMA MainAddMap == ASSUME MapFacts, AddsOne PROVE MapInv'
<1>0. Control /\ Kept /\ Replacing /\ Booting /\ Settles /\ GoOK /\ adding \in Programs
      /\ DOMAIN adding \subseteq Names
  BY ControlFacts, ObjectFacts DEF MapFacts, MapInv, TypeConf
<1>1. PICK n \in DOMAIN adding :
        /\ AddProcess(n, adding) /\ UNCHANGED <<go, conf, diff, sigs, cancelled, alive>>
        /\ adding' = [m \in DOMAIN adding \ {n} |-> adding[m]] /\ go[Main].pc = "add"
  BY DEF AddsOne, MainAdd, At
<1>2. /\ n \in Names /\ sigs = <<>> /\ H.pc = "idle" /\ procs[n] = 0
      /\ \A m \in DOMAIN adding : m \in DOMAIN conf /\ adding[m] = conf[m] /\ procs[m] = 0
      /\ GoOK'
  BY <1>0, <1>1 DEF Booting, GoOK
<1>3. /\ Kept' /\ procs'[n] # 0 /\ \A m \in Names : m # n => procs'[m] = procs[m]
      /\ \A m \in Names : m # n => (AsConfigured(m) => AsConfigured(m)')
      /\ AsConfigured(n)'
  BY <1>0, <1>1, <1>2, AddKeeps
<1>4. /\ H' = H /\ diff = Nothing /\ diff' = Nothing /\ ~Works /\ ~Works' /\ ~Replaces'
      /\ Pending = {} /\ Pending' = {}
  BY <1>0, <1>1, <1>2 DEF H, Replacing, Works, Replaces, Stops, Pending, Nothing
<1>5. DOMAIN adding' = DOMAIN adding \ {n} /\ \A m \in DOMAIN adding' : adding'[m] = adding[m]
  BY <1>1
<1>6. Replacing'
  BY <1>2, <1>4 DEF Replacing, Nothing
<1>7. Booting'
  BY <1>0, <1>1, <1>2, <1>3, <1>4, <1>5 DEF Booting
<1>8. Settles'
  BY <1>0, <1>1, <1>3, <1>4, <1>5 DEF Settles
<1>9. QED
  BY <1>3, <1>6, <1>7, <1>8 DEF MapInv

(* nothing is made: at the start, and when the machine is down *)
LEMMA BlankMap ==
    ASSUME procs = [n \in Names |-> 0], made = 0, diff = Nothing, H.pc = "idle", sigs = <<>>,
           conf \in Programs, adding = conf, DOMAIN conf = {} \/ go[Main].pc = "add"
    PROVE  MapInv
<1>1. \A o \in Objects : ~(o <= made)
  BY Refs
<1>2. ~Works /\ ~Replaces
  BY DEF Works, Replaces, Stops
<1>3. Kept /\ Replacing
  BY <1>1, <1>2 DEF Kept, Replacing, Nothing
<1>4. DOMAIN conf \subseteq Names
  BY ConfigFacts
<1>5. Booting
  BY <1>4 DEF Booting
<1>6. Settles
  BY <1>4 DEF Settles, AsConfigured
<1>7. QED
  BY <1>3, <1>5, <1>6 DEF MapInv

LEMMA InitMap == Init => MapInv
<1> SUFFICES ASSUME Init PROVE MapInv
  OBVIOUS
<1>1. /\ procs = [n \in Names |-> 0] /\ made = 0 /\ diff = Nothing /\ sigs = <<>>
      /\ conf \in Programs /\ adding = conf
      /\ go = [[t \in Threads |-> Idle] EXCEPT ![Main].pc = "add"]
  BY ManagerAssumption DEF Init, Blank
<1>2. H.pc = "idle" /\ go[Main].pc = "add"
  BY <1>1, Ts, IdleFields DEF H, Idle
<1>3. QED
  BY <1>1, <1>2, BlankMap

LEMMA PowerMap == ASSUME PowerLoss PROVE MapInv'
<1>1. /\ procs' = [n \in Names |-> 0] /\ made' = 0 /\ diff' = Nothing /\ sigs' = <<>>
      /\ conf' = NoPrograms /\ adding' = NoPrograms /\ go' = [t \in Threads |-> Idle]
  BY DEF PowerLoss, Blank
<1>2. H'.pc = "idle" /\ go'[Main].pc = "idle"
  BY <1>1, Ts, IdleFields DEF H
<1>3. \A o \in Objects : ~(o <= made')
  BY <1>1, Refs
<1>4. ~Works' /\ ~Replaces'
  BY <1>2 DEF Works, Replaces, Stops
<1>5. Kept' /\ Replacing' /\ Booting'
  BY <1>1, <1>2, <1>3, <1>4 DEF Kept, Replacing, Nothing, Booting
<1>6. Settles'
  BY <1>1, ConfigFacts DEF Settles, AsConfigured
<1>7. QED
  BY <1>5, <1>6 DEF MapInv

LEMMA NextMap == ASSUME MapFacts, [Next]_vars PROVE MapInv'
<1>0. Control
  BY DEF MapFacts
<1>1. CASE HandlerStep
  <2>1. CASE ReloadSteps
    BY <2>1, ReloadMap, ReloadNextMap, ReloadCancelMap, ReloadDeleteMap, ReloadAddMap
       DEF ReloadSteps
  <2>2. CASE ~ReloadSteps
    <3>1. Onward
      BY <1>0, <1>1, <2>2, HandlerSteps, ShutOnward
    <3>2. QED
      BY <3>1, OnwardMap
  <2>3. QED
    BY <2>1, <2>2
<1>2. CASE ProcessStep(Handler)
  <2>1. Onward
    BY <1>0, <1>2, HandlerProcess
  <2>2. QED
    BY <2>1, OnwardMap
<1>3. CASE ~AddsOne /\ ~HandlerStep /\ ~ProcessStep(Handler) /\ ~PowerLoss
  <2>1. Aside
    BY <1>0, <1>3, AsideSteps
  <2>2. QED
    BY <2>1, AsideMap
<1>4. QED
  BY <1>1, <1>2, <1>3, MainAddMap, PowerMap

LEMMA AlwaysMap == ASSUME ~EarlySignals PROVE Spec => [](Control /\ MapInv)
<1>1. Init => MapInv
  BY InitMap
<1>2. Control /\ MapInv /\ [Next]_vars => MapInv'
  BY NextMap DEF MapFacts
<1>3. QED
  BY <1>1, <1>2, AlwaysControl, PTL DEF Spec

(* When no signal comes before main has added the programs, every running child
   is reached through the map or has its context cancelled, however many
   reloads come and whoever holds a pointer to a removed process; programs that a
   cyclic configuration names as dependencies only are excepted, and there are none
   where no configuration is cyclic.  (main.go, reloadConfiguration) *)
THEOREM ChildrenReachable == ASSUME ~EarlySignals PROVE Spec => []Reachable
<1>1. Control /\ MapInv => Reachable
  <2> SUFFICES ASSUME Control, MapInv, NEW o \in alive
               PROVE  procs[obj[o].name] = o \/ o \in cancelled \/ obj[o].name \in Extras
    BY DEF Reachable
  <2>1. TypeMap /\ Pointers /\ Kept
    BY ControlFacts DEF MapInv
  <2>2. QED
    BY <2>1 DEF TypeMap, Pointers, Kept
<1>2. QED
  BY <1>1, AlwaysMap, PTL

(* Under the same condition the map is the configuration whenever no reload is
   under way: each program of it with its settings, and nothing else, except what
   the sort of the modified programs can leave out (Looped).  (main.go,
   reloadConfiguration; process.go, topologicalSort) *)
THEOREM ReloadsApply == ASSUME ~EarlySignals PROVE Spec => []ReloadApplies
<1>1. Control /\ MapInv => ReloadApplies
  <2> SUFFICES ASSUME Control, MapInv, H.pc = "idle", go[Main].pc # "add",
                      NEW n \in Names \ Looped
               PROVE  AsConfigured(n)
    BY DEF ReloadApplies, At, H, AsConfigured, Mapped
  <2>1. diff = Nothing /\ ~Works
    BY DEF MapInv, Replacing, Works, Replaces, Stops
  <2>2. Pending = {}
    BY <2>1 DEF Pending, Nothing
  <2>3. QED
    BY <2>1, <2>2 DEF MapInv, Settles
<1>2. QED
  BY <1>1, AlwaysMap, PTL

-----------------------------------------------------------------------------
(* The shutdown *)

QuietFacts == Control /\ Quiet

(* Nobody but the handler has called Start, Stop or Restart. *)
LEMMA QuietNow ==
    ASSUME Quiet, undisturbed
    PROVE  /\ go[Main].pc = "run"
           /\ \A t \in Threads \ {Main, Handler} : go[t].pc \in Calm
           /\ H.pc \in {"stopAll"} \cup Stops \cup Shuts
           /\ H.pc \in Stops => H.next = "stopAll"
           /\ \A o \in Due : Visits(o)
           /\ phase = "exit" => H.pc = "gone"
  BY DEF Quiet

LEMMA QuietNext ==
    ASSUME ~undisturbed' \/
           /\ go'[Main].pc = "run"
           /\ \A t \in Threads \ {Main, Handler} : go'[t].pc \in Calm
           /\ H'.pc \in {"stopAll"} \cup Stops \cup Shuts
           /\ H'.pc \in Stops => H'.next = "stopAll"
           /\ \A o \in Due' : Visits(o)'
           /\ phase' = "exit" => H'.pc = "gone"
    PROVE  Quiet'
  BY DEF Quiet

(* The handler stays where it is, and so does each child that runs. *)
LEMMA QuietFrame ==
    ASSUME QuietFacts, undisturbed' => undisturbed, go'[Handler] = go[Handler],
           UNCHANGED cancelled, alive' \subseteq alive, \A o \in alive' : obj'[o] = obj[o],
           undisturbed => go'[Main].pc = "run",
           undisturbed' => \A t \in Threads \ {Main, Handler} : go'[t].pc \in Calm,
           phase' = "exit" => phase = "exit" \/ H.pc = "gone"
    PROVE  Quiet'
<1>1. CASE ~undisturbed'
  BY <1>1, QuietNext
<1>2. CASE undisturbed'
  <2>1. H' = H
    BY DEF H
  <2>2. /\ H.pc \in {"stopAll"} \cup Stops \cup Shuts
        /\ H.pc \in Stops => H.next = "stopAll"
        /\ \A o \in Due : Visits(o)
        /\ phase = "exit" => H.pc = "gone"
    BY <1>2, QuietNow DEF QuietFacts
  <2>3. \A o \in Due' : Visits(o)'
    BY <2>1, <2>2 DEF Visits, State, Due
  <2>4. QED
    BY <1>2, <2>1, <2>2, <2>3, QuietNext
<1>3. QED
  BY <1>1, <1>2

LEMMA NotDisturbed ==
    ASSUME NEW t, Disturb(t) \/ UNCHANGED undisturbed
    PROVE  /\ undisturbed' => undisturbed
           /\ Disturb(t) /\ t # Handler => ~undisturbed'
<1>1. undisturbed' => undisturbed
  BY Zenon DEF Disturb
<1>2. Disturb(t) /\ t # Handler => ~undisturbed'
  BY Zenon DEF Disturb
<1>3. QED
  BY <1>1, <1>2

(* Start, Stop or Restart of somebody else *)
LEMMA ProcessQuiet ==
    ASSUME QuietFacts, NEW t \in Threads, t # Handler, ProcessStep(t)
    PROVE  ~undisturbed'
<1>1. CASE StartReserve(t) \/ StopEnter(t) \/ RestartEnter(t)
  <2>1. Disturb(t)
    BY <1>1 DEF StartReserve, StopEnter, RestartEnter
  <2>2. QED
    BY <2>1, NotDisturbed
<1>2. CASE Attach(t) \/ StartFork(t) \/ StopDone(t) \/ Detach(t) \/ RestartStart(t)
  <2>1. /\ go[t].pc \in {"attach", "fork", "stopwait", "detach", "restarted"}
        /\ UNCHANGED undisturbed
    BY <1>2 DEF Attach, StartFork, StopDone, Detach, RestartStart, At
  <2>2. go[t].pc \notin Calm /\ go[t].pc # "run"
    BY <2>1 DEF Calm
  <2>3. ~undisturbed
    BY <2>2, QuietNow DEF QuietFacts
  <2>4. QED
    BY <2>1, <2>3, Zenon
<1>3. QED
  BY <1>1, <1>2 DEF ProcessStep

LEMMA OthersQuiet ==
    ASSUME QuietFacts,
           \/ UNCHANGED vars \/ Signal \/ MainStep
           \/ \E o \in Objects : ChildExit(o)
           \/ \E n \in Names : LoopTick(n)
           \/ HandleExited \/ RestarterWake \/ RestarterFailed
           \/ \E t \in Clients : Serve(t)
           \/ \E t \in Clients, op \in Ops, group \in SUBSET Names : Request(t, op, group)
    PROVE  Quiet'
<1>0. /\ GoOK /\ ObjOK /\ HandlerOK /\ \A t \in Threads : ThreadOK(t) /\ go[t] \in ThreadType
      /\ undisturbed =>
          /\ go[Main].pc = "run"
          /\ \A t \in Threads \ {Main, Handler} : go[t].pc \in Calm
      /\ alive \subseteq Objects
  BY ControlFacts, QuietNow DEF QuietFacts, TypeMap
<1>1. CASE UNCHANGED vars \/ Signal
  <2>1. UNCHANGED <<go, obj, alive, cancelled, phase, undisturbed>>
    BY <1>1 DEF vars, Signal
  <2>2. undisturbed' => undisturbed
    BY <2>1, Zenon
  <2>3. QED
    BY <1>0, <2>1, <2>2, QuietFrame
<1>2. CASE MainStep
  <2>1. UNCHANGED undisturbed
    BY <1>2 DEF MainStep, MainAdd, MainServers, StartAll, MainExit
  <2>2. undisturbed' => undisturbed
    BY <2>1, Zenon
  <2>3. CASE undisturbed
    <3>1. MainExit
      BY <1>0, <1>2, <2>3 DEF MainStep, MainAdd, MainServers, StartAll, At
    <3>2. UNCHANGED <<go, obj, alive, cancelled>> /\ done
      BY <3>1 DEF MainExit
    <3>3. H.pc = "gone"
      BY <1>0, <3>2 DEF HandlerOK
    <3>4. QED
      BY <1>0, <2>2, <3>2, <3>3, QuietFrame
  <2>4. QED
    BY <2>2, <2>3, QuietNext
<1>3. CASE \E o \in Objects : ChildExit(o)
  <2>1. PICK o \in Objects : ChildExit(o)
    BY <1>3
  <2>2. /\ UNCHANGED <<go, cancelled, phase, undisturbed>> /\ alive' = alive \ {o}
        /\ SetState(o, "STOPPING") \/ SetState(o, "EXITED")
    BY <2>1 DEF ChildExit
  <2>3. \A p \in Objects : p # o => obj'[p] = obj[p]
    BY <1>0, <2>2, StateTo DEF States
  <2>4. undisturbed' => undisturbed
    BY <2>2, Zenon
  <2>5. QED
    BY <1>0, <2>2, <2>3, <2>4, QuietFrame
<1>4. CASE \E n \in Names : LoopTick(n)
  <2>1. PICK n \in Names : LoopTick(n)
    BY <1>4
  <2>2. /\ UNCHANGED <<obj, alive, cancelled, phase, undisturbed>>
        /\ go' = [go EXCEPT ![Loop] = [@ EXCEPT !.pc = "check", !.obj = procs[n]]]
    BY <2>1 DEF LoopTick
  <2>3. \A u \in Threads : u # Loop => go'[u] = go[u]
    BY <1>0, <2>2 DEF GoOK
  <2>4. go'[Loop].pc = "check"
    BY <1>0, <2>2, Ts DEF GoOK, ThreadType
  <2>5. undisturbed' => undisturbed
    BY <2>2, Zenon
  <2>6. QED
    BY <1>0, <2>2, <2>3, <2>4, <2>5, Ts, QuietFrame DEF Calm
<1>5. CASE HandleExited
  BY <1>5, NotDisturbed, QuietNext, Ts DEF HandleExited
<1>6. CASE RestarterWake \/ RestarterFailed
  <2>1. go[Restarter].pc \in {"asleep", "failed"} /\ UNCHANGED undisturbed
    BY <1>6 DEF RestarterWake, RestarterFailed, At
  <2>2. ~undisturbed
    BY <1>0, <2>1, Ts DEF Calm
  <2>3. ~undisturbed'
    BY <2>1, <2>2, Zenon
  <2>4. QED
    BY <2>3, QuietNext
<1>7. ASSUME NEW t \in Clients, Serve(t) PROVE Quiet'
  <2>1. /\ UNCHANGED <<obj, alive, cancelled, phase, undisturbed>> /\ go[t].pc = "serve"
    BY <1>7 DEF Serve, At
  <2>2. \A u \in Threads : u # t => go'[u] = go[u]
    BY <1>0, <1>7, Ts DEF Serve, GoOK
  <2>3. go'[t].pc \in Calm
    <3> DEFINE looks(n) == ~Mapped(n) \/ go[t].op = "status"
               l(n) == IF looks(n) THEN "serve"
                       ELSE IF go[t].op = "restart-all" THEN "restart" ELSE go[t].op
               r(n) == [go[t] EXCEPT !.todo = go[t].todo \ {n},
                                     !.obj = IF looks(n) THEN 0 ELSE procs[n],
                                     !.next = "serve", !.pc = l(n)]
    <3>0. go[t] \in ThreadType /\ t \in Threads /\ go[t].op \in Ops
      BY <1>0, <2>1, Ts DEF ThreadOK
    <3>1. CASE go' = [go EXCEPT ![t] = Idle]
      BY <1>0, <3>0, <3>1, IdleFields DEF GoOK, Calm
    <3>2. ASSUME NEW n \in go[t].todo, go' = [go EXCEPT ![t] = r(n)] PROVE go'[t].pc \in Calm
      <4>1. l(n) \in Calm
        BY <3>0 DEF Calm
      <4>2. r(n).pc = l(n)
        <5> HIDE DEF l, looks
        <5> QED
          BY <3>0 DEF ThreadType
      <4> HIDE DEF r, l
      <4>3. QED
        BY <1>0, <3>0, <3>2, <4>1, <4>2 DEF GoOK
    <3>3. QED
      BY <1>7, <3>1, <3>2 DEF Serve
  <2>4. undisturbed' => undisturbed
    BY <2>1, Zenon
  <2>5. QED
    BY <1>0, <2>1, <2>2, <2>3, <2>4, Ts, QuietFrame
<1>8. ASSUME NEW t \in Clients, NEW op \in Ops, NEW group, Request(t, op, group) PROVE Quiet'
  <2>1. /\ UNCHANGED <<obj, alive, cancelled, phase, undisturbed>>
        /\ go' = [go EXCEPT ![t] = [@ EXCEPT !.pc = "serve", !.op = op,
                                         !.todo = {n \in group : Mapped(n)}]]
    BY <1>8 DEF Request
  <2>2. \A u \in Threads : u # t => go'[u] = go[u]
    BY <1>0, <2>1, Ts DEF GoOK
  <2>3. go'[t].pc = "serve"
    BY <1>0, <2>1, Ts DEF GoOK, ThreadType
  <2>4. undisturbed' => undisturbed
    BY <2>1, Zenon
  <2>5. QED
    BY <1>0, <2>1, <2>2, <2>3, <2>4, Ts, QuietFrame DEF Calm
<1>9. QED
  BY <1>1, <1>2, <1>3, <1>4, <1>5, <1>6, <1>7, <1>8

LEMMA TerminateQuiet == ASSUME MapFacts, Terminate PROVE Quiet'
<1>0. /\ Control /\ Kept /\ GoOK /\ H \in ThreadType /\ Handler \in Threads /\ Main # Handler
      /\ Main \in Threads /\ alive \subseteq Objects /\ \A o \in alive : o <= made
  BY ControlFacts, Ts DEF MapFacts, MapInv, TypeMap, Pointers, H
<1> DEFINE T == SortedProcesses
<1>1. /\ UNCHANGED <<procs, obj, cancelled, alive, phase>> /\ phase = "up"
      /\ go' = [go EXCEPT ![Handler].pc = "stopAll", ![Handler].todo = T]
  BY DEF Terminate, At
<1>2. H'.pc = "stopAll" /\ H'.todo = T
  <2> HIDE DEF T
  <2> QED
    BY <1>0, <1>1 DEF GoOK, H, ThreadType
<1>3. \A u \in Threads : u # Handler => go'[u] = go[u]
  BY <1>0, <1>1 DEF GoOK
<1>4. undisturbed' => /\ go[Main].pc = "run"
                      /\ \A t \in Threads \ {Main, Handler} : go[t].pc = "idle"
                      /\ \A o \in alive \ cancelled : State(o) = "RUNNING"
  BY Zenon DEF Terminate
<1>5. ASSUME undisturbed', NEW o \in Due' PROVE Visits(o)'
  <2>1. State(o) = "RUNNING" /\ State(o)' = "RUNNING" /\ obj'[o].name = obj[o].name
    BY <1>1, <1>4, <1>5 DEF State, Due
  <2>2. /\ obj[o].name \in Names \ Looped /\ procs[obj[o].name] = o /\ o # 0
        /\ obj[o].name \in T
    <3>1. o \in alive \ cancelled /\ obj[o].name \notin Looped \cup Extras
      BY <1>1, <1>5 DEF Due
    <3>2. obj[o].name \in Names \ Looped /\ procs[obj[o].name] = o /\ o # 0
      BY <1>0, <3>1, ObjectFacts DEF Kept
    <3>3. QED
      BY <1>0, <3>2, SortedMap DEF Mapped
  <2> HIDE DEF T
  <2>3. QED
    BY <1>2, <2>1, <2>2 DEF Visits
<1>6. QED
  BY <1>0, <1>1, <1>2, <1>3, <1>4, <1>5, QuietNext DEF Calm, Stops

LEMMA StopAllQuiet == ASSUME MapFacts, Quiet, StopAllNext PROVE Quiet'
<1>0. /\ Control /\ Kept /\ GoOK /\ H \in ThreadType /\ Handler \in Threads /\ Main # Handler
      /\ Main \in Threads /\ alive \subseteq Objects /\ \A o \in alive : o <= made
  BY ControlFacts, Ts DEF MapFacts, MapInv, TypeMap, Pointers, H
<1>1. /\ UNCHANGED <<procs, obj, cancelled, alive, phase, undisturbed>> /\ phase = "up"
      /\ H.pc = "stopAll" /\ Due' = Due
  BY DEF StopAllNext, At, H, Due
<1>2. \A u \in Threads : u # Handler => go'[u] = go[u]
  BY <1>0 DEF StopAllNext, GoOK
<1>3. SUFFICES ASSUME undisturbed'
               PROVE  /\ H'.pc \in {"stopAll"} \cup Stops \cup Shuts
                      /\ H'.pc \in Stops => H'.next = "stopAll"
                      /\ \A o \in Due : Visits(o)'
  <2>1. undisturbed' => undisturbed
    BY <1>1, Zenon
  <2>2. undisturbed => /\ go[Main].pc = "run"
                       /\ \A t \in Threads \ {Main, Handler} : go[t].pc \in Calm
    BY QuietNow
  <2>3. CASE ~undisturbed'
    BY <2>3, QuietNext
  <2>4. CASE undisturbed'
    BY <1>0, <1>1, <1>2, <1>3, <2>1, <2>2, <2>4, QuietNext
  <2>5. QED
    BY <2>3, <2>4
<1>4. undisturbed
  BY <1>1, <1>3, Zenon
<1>5. \A o \in Due : obj[o].name \in H.todo /\ State(o) = "RUNNING"
  BY <1>1, <1>4, QuietNow DEF Visits
<1>6. \A o \in Due :
        obj[o].name \in Names /\ procs[obj[o].name] = o /\ o # 0
  BY <1>0, ObjectFacts DEF Kept, Due
<1>7. CASE H.todo = {}
  <2>1. go' = [go EXCEPT ![Handler] = [Idle EXCEPT !.pc = "save"]]
    BY <1>7 DEF StopAllNext, H
  <2>2. H'.pc = "save"
    BY <1>0, <2>1 DEF GoOK, H, Idle
  <2>3. QED
    BY <1>5, <1>7, <2>2 DEF Shuts, Stops
<1>8. CASE H.todo # {}
  <2> DEFINE stops(n) == Mapped(n) /\ State(procs[n]) \notin {"STOPPED", "STOPPING"}
             l(n) == IF stops(n) THEN "stop" ELSE "stopAll"
             r(n) == [H EXCEPT !.todo = H.todo \ {n}, !.obj = procs[n], !.next = "stopAll",
                               !.pc = l(n)]
  <2>1. PICK n \in H.todo : go' = [go EXCEPT ![Handler] = r(n)]
    BY <1>8 DEF StopAllNext, H
  <2>2. /\ r(n).pc = l(n) /\ r(n).next = "stopAll" /\ r(n).obj = procs[n]
        /\ r(n).todo = H.todo \ {n}
    <3> HIDE DEF l
    <3> QED
      BY <1>0 DEF ThreadType
  <2>3. H' = r(n)
    <3> HIDE DEF r
    <3> QED
      BY <1>0, <2>1 DEF GoOK, H
  <2>4. l(n) \in {"stop", "stopAll"}
    OBVIOUS
  <2>5. ASSUME NEW o \in Due PROVE Visits(o)'
    <3>1. State(o)' = "RUNNING" /\ obj'[o].name = obj[o].name
      BY <1>1, <1>5 DEF State
    <3>2. CASE obj[o].name = n
      <4>1. procs[n] = o /\ o # 0 /\ State(o) = "RUNNING"
        BY <1>5, <1>6, <3>2
      <4>2. l(n) = "stop"
        BY <4>1 DEF Mapped
      <4> HIDE DEF l, r
      <4>3. H'.pc = "stop" /\ H'.obj = o
        BY <2>2, <2>3, <4>1, <4>2
      <4>4. QED
        BY <3>1, <4>3 DEF Visits
    <3>3. CASE obj[o].name # n
      <4> HIDE DEF l, r
      <4>1. H'.pc \in {"stop", "stopAll"} /\ obj[o].name \in H'.todo
        BY <1>5, <2>2, <2>3, <2>4, <3>3
      <4>2. QED
        BY <3>1, <4>1 DEF Visits, Stops
    <3>4. QED
      BY <3>2, <3>3
  <2> HIDE DEF l, r
  <2>6. QED
    BY <2>2, <2>3, <2>4, <2>5 DEF Stops
<1>9. QED
  BY <1>7, <1>8

LEMMA ShutQuiet ==
    ASSUME QuietFacts, SaveBegin \/ SaveWrite \/ SaveRename \/ CloseDone
    PROVE  Quiet'
<1>0. GoOK /\ Handler \in Threads /\ Main # Handler /\ Main \in Threads
  BY ControlFacts, Ts DEF QuietFacts
<1>1. /\ UNCHANGED <<obj, cancelled, alive, phase, undisturbed>> /\ phase = "up"
      /\ H.pc \in {"save", "snapshot", "rename", "close"}
  BY DEF SaveBegin, SaveWrite, SaveRename, CloseDone, At, H
<1>2. PICK l \in {"snapshot", "rename", "close", "gone"} : Goto(Handler, l)
  BY DEF SaveBegin, SaveWrite, SaveRename, CloseDone
<1>3. H'.pc = l /\ \A u \in Threads : u # Handler => go'[u] = go[u]
  BY <1>0, <1>2, PcTo DEF H, PC
<1>4. CASE ~undisturbed'
  BY <1>4, QuietNext
<1>5. CASE undisturbed'
  <2>1. undisturbed
    BY <1>1, <1>5, Zenon
  <2>2. /\ go[Main].pc = "run"
        /\ \A t \in Threads \ {Main, Handler} : go[t].pc \in Calm
        /\ \A o \in Due : Visits(o)
    BY <2>1, QuietNow DEF QuietFacts
  <2>3. Due = {} /\ Due' = Due
    BY <1>1, <2>2 DEF Visits, Stops, Due
  <2>4. QED
    BY <1>0, <1>1, <1>3, <2>2, <2>3, QuietNext DEF Stops, Shuts
<1>6. QED
  BY <1>4, <1>5

LEMMA ReloadQuiet == ASSUME QuietFacts, ReloadSteps \/ ReloadStart PROVE Quiet'
<1>1. /\ UNCHANGED undisturbed
      /\ H.pc \in {"idle", "reload", "cancel", "delete", "readd", "lookup"}
  BY DEF ReloadSteps, Reload, ReloadNext, ReloadCancel, ReloadDelete, ReloadAdd, ReloadStart,
         At, H
<1>2. ~undisturbed
  BY <1>1, QuietNow DEF QuietFacts, Stops, Shuts
<1>3. ~undisturbed'
  BY <1>1, <1>2, Zenon
<1>4. QED
  BY <1>3, QuietNext

(* a Stop of the handler *)
LEMMA StopQuiet == ASSUME QuietFacts, ProcessStep(Handler) PROVE Quiet'
<1>0. /\ Control /\ GoOK /\ ObjOK /\ Handler \in Threads /\ Main # Handler /\ Main \in Threads
      /\ Moves(Handler) /\ SameObjects /\ Else /\ H.obj \in Objects /\ alive \subseteq Objects
      /\ HandlerOK
  BY ControlFacts, HandlerProcess, Ts DEF QuietFacts, TypeMap
<1>1. undisturbed' => undisturbed
  BY NotDisturbed DEF ProcessStep, StartReserve, Attach, StartFork, StopEnter, StopDone, Detach,
     RestartEnter, RestartStart
<1>2. CASE ~undisturbed
  BY <1>1, <1>2, QuietNext
<1>3. CASE undisturbed
  <2>1. /\ go[Main].pc = "run" /\ \A t \in Threads \ {Main, Handler} : go[t].pc \in Calm
        /\ H.pc \in {"stopAll"} \cup Stops \cup Shuts
        /\ H.pc \in Stops => H.next = "stopAll"
        /\ \A o \in Due : Visits(o)
        /\ phase = "exit" => H.pc = "gone"
    BY <1>3, QuietNow DEF QuietFacts
  <2>2. H.pc \in Stops /\ H.next = "stopAll" /\ phase # "exit"
    BY <1>0, <2>1 DEF Moves, H, Starts, Stops, Shuts
  <2>3. /\ H'.next = H.next /\ H'.todo = H.todo /\ H'.obj = H.obj
        /\ \A u \in Threads : u # Handler => go'[u] = go[u]
    BY <1>0 DEF Moves, Returns, GoesOn, H
  <2>4. H'.pc \in {"stopwait", "detach", "stopAll"}
    BY <1>0, <2>2 DEF Moves, Returns, GoesOn, H, HandlerOK, Starts, Stops
  <2>0. /\ StopEnter(Handler) \/ StopDone(Handler) \/ Detach(Handler)
        /\ Due' \subseteq Due /\ Due \subseteq Objects
    <3>1. StopEnter(Handler) \/ StopDone(Handler) \/ Detach(Handler)
      BY <2>2 DEF ProcessStep, StartReserve, Attach, StartFork, RestartEnter, RestartStart, At, H,
         Stops
    <3>2. alive' \subseteq alive /\ cancelled' = cancelled
      BY <3>1 DEF StopEnter, StopDone, Detach
    <3>3. QED
      BY <1>0, <3>1, <3>2 DEF Due, SameObjects
  <2>5. \A o \in Due' : Visits(o)'
    <3>1. CASE StopEnter(Handler)
      <4>1. /\ H.pc = "stop" /\ UNCHANGED <<alive, cancelled>>
            /\ \/ SetState(H.obj, "STOPPING") /\ Goto(Handler, "stopwait")
               \/ SetState(H.obj, "STOPPED") /\ State(H.obj) \notin {"RUNNING", "STOPPING"}
        BY <3>1 DEF StopEnter, At, H
      <4>2. \A p \in Objects : p # H.obj => obj'[p] = obj[p]
        BY <1>0, <4>1, StateTo DEF States
      <4>3. ASSUME NEW o \in Due, o # H.obj PROVE Visits(o)'
        <5>1. obj'[o] = obj[o] /\ State(o) = "RUNNING" /\ obj[o].name \in H.todo
          BY <2>0, <2>1, <4>1, <4>2, <4>3 DEF Visits
        <5>2. QED
          BY <2>3, <2>4, <5>1 DEF Visits, State, Stops
      <4>4. ASSUME H.obj \in Due PROVE Visits(H.obj)'
        <5>1. State(H.obj) = "RUNNING"
          BY <2>1, <4>1, <4>4 DEF Visits
        <5>2. H'.pc = "stopwait"
          BY <1>0, <4>1, <5>1, PcTo DEF H, PC
        <5>3. QED
          BY <2>3, <5>2 DEF Visits
      <4>5. QED
        BY <2>0, <2>3, <4>3, <4>4
    <3>2. CASE StopDone(Handler)
      <4>1. /\ H.pc = "stopwait" /\ UNCHANGED cancelled /\ alive' = alive \ {H.obj}
        BY <3>2 DEF StopDone, At, H
      <4>2. \A p \in Objects : p # H.obj => obj'[p] = obj[p]
        BY <1>0, <3>2 DEF StopDone, H, ObjOK
      <4>3. ASSUME NEW o \in Due' PROVE Visits(o)'
        <5>0. o # H.obj
          BY <4>1, <4>3 DEF Due
        <5>1. obj'[o] = obj[o] /\ State(o) = "RUNNING" /\ obj[o].name \in H.todo
          BY <2>0, <2>1, <4>1, <4>2, <4>3, <5>0 DEF Visits
        <5>2. QED
          BY <2>3, <2>4, <5>1 DEF Visits, State, Stops
      <4>4. QED
        BY <4>3
    <3>3. CASE Detach(Handler)
      <4>1. H.pc = "detach" /\ UNCHANGED <<obj, alive, cancelled>>
        BY <3>3 DEF Detach, At, H
      <4>2. QED
        BY <2>0, <2>1, <2>3, <2>4, <4>1 DEF Visits, State, Stops
    <3>4. QED
      BY <2>0, <3>1, <3>2, <3>3
  <2>6. phase' # "exit"
    BY <1>0, <2>2 DEF Else
  <2>7. QED
    BY <1>0, <2>1, <2>2, <2>3, <2>4, <2>5, <2>6, QuietNext DEF Stops
<1>4. QED
  BY <1>2, <1>3

LEMMA NextQuiet == ASSUME MapFacts, Quiet, [Next]_vars PROVE Quiet'
<1>0. QuietFacts /\ Control
  BY DEF QuietFacts, MapFacts
<1>1. CASE HandlerStep
  BY <1>0, <1>1, TerminateQuiet, StopAllQuiet, ShutQuiet, ReloadQuiet, HandlerSteps
<1>2. CASE \E t \in Threads : ProcessStep(t)
  BY <1>0, <1>2, ProcessQuiet, StopQuiet, QuietNext
<1>3. CASE PowerLoss
  <2>1. undisturbed' = FALSE
    BY <1>3 DEF PowerLoss
  <2>2. QED
    BY <2>1, QuietNext
<1>4. QED
  BY <1>0, <1>1, <1>2, <1>3, OthersQuiet, NextSteps

(* A shutdown that nobody else disturbs leaves no child behind but those whose
   context is cancelled and those that the sort of cyclic dependencies can pass
   over: when main returns, StopAll has visited every other program that ran and
   has seen its child end.  (main.go, handleSignals; process.go, StopAll and
   topologicalSort) *)
THEOREM ShutdownStopsAll == ASSUME ~EarlySignals PROVE Spec => []QuietShutdown
<1>1. Init => Quiet
  BY DEF Init, Quiet
<1>2. Control /\ MapInv /\ Quiet /\ [Next]_vars => Quiet'
  BY NextQuiet DEF MapFacts
<1>3. Quiet => QuietShutdown
  <2> SUFFICES ASSUME Quiet, phase = "exit", undisturbed PROVE Due = {}
    BY DEF QuietShutdown, Due
  <2>1. H.pc = "gone" /\ \A o \in Due : Visits(o)
    BY QuietNow
  <2>2. QED
    BY <2>1 DEF Visits, Stops
<1>4. QED
  BY <1>1, <1>2, <1>3, AlwaysMap, PTL DEF Spec
=============================================================================
