-------------------------- MODULE FcgiSocketProofs --------------------------
(***************************************************************************)
(* The shared socket of an fcgi program, for any number of processes,      *)
(* goroutines, managers, calls and failures.                               *)
(***************************************************************************)
EXTENDS FcgiSocket, FiniteSetTheorems, TLAPS

(* The managers that exist are numbered 1 .. sockets; one that does not exist
   yet was never attached, listened on or closed, and one that is closed is not
   in the map. *)
Numbering ==
    /\ entry <= sockets
    /\ closed \subseteq 1 .. sockets
    /\ entry \notin closed
    /\ \A t \in Starters :
         /\ start[t].sm <= sockets
         /\ start[t].pc \notin {"idle", "lookup"} => start[t].sm # 0
    /\ \A s \in Sockets : s > sockets => refCount[s] = 0

SocketInv == TypeOK /\ Numbering /\ NoDeadEntry

(* Which Starts hold a reference to the socket or are making it, and which
   processes have a reference *)
Attached(t) == start[t].pc \in {"recheck", "spawn"}
Creates(t)  == start[t].pc \in {"listen", "mode", "attach"}
Holds(x)    == \/ st[x] = "RUNNING" \/ stop[x] # 0
               \/ \E t \in Starters : Attached(t) /\ start[t].x = x

Holders == {x \in Procs : Holds(x)}

OneCall ==
    /\ loop = {}
    /\ \A t, u \in Starters : ~At(t, "idle") /\ ~At(u, "idle") => t = u
    /\ \A x, y \in Procs : stop[x] # 0 /\ stop[y] # 0 => x = y
    /\ \A t \in Starters, x \in Procs : ~At(t, "idle") => stop[x] = 0
    /\ \A x \in Procs :
         /\ st[x] \in {"STOPPED", "STARTING", "RUNNING"}
         /\ st[x] = "STARTING" <=> \E t \in Starters : ~At(t, "idle") /\ start[t].x = x
         /\ stop[x] # 0 => st[x] = "STOPPED" /\ stop[x] = 1

Counted ==
    /\ \A x \in Procs : Holds(x) => entry # 0
    /\ \A x \in Procs : st[x] = "RUNNING" => fd[x] = entry
    /\ \A t \in Starters : Attached(t) \/ Creates(t) => entry # 0 /\ start[t].sm = entry
    /\ \A t \in Starters : Creates(t) => Holders = {}
    /\ entry # 0 => refCount[entry] = Cardinality(Holders)

Listening ==
    /\ \A s \in Sockets : s # entry => listener[s] = "nil"
    /\ \A t \in Starters : start[t].pc = "listen" => listener[entry] = "nil"
    /\ entry # 0 =>
         /\ listener[entry] = "open" \/ \E t \in Starters : start[t].pc = "listen"
         /\ Holders # {} \/ \E t \in Starters : Creates(t)

OrderlyInv == orderly => OneCall /\ Counted /\ Listening

-----------------------------------------------------------------------------
(* What the ways to write p.State and the place in Start do *)

Places == [Starters -> [pc : PCs, x : Procs, sm : 0 .. MaxSockets]]

LEMMA IdlePlace ==
    /\ Idle \in [pc : PCs, x : Procs, sm : 0 .. MaxSockets]
    /\ Idle.pc = "idle" /\ Idle.sm = 0
<1>1. (CHOOSE x \in Procs : TRUE) \in Procs
  BY FcgiAssumption
<1>2. QED
  BY <1>1, FcgiAssumption DEF Idle, PCs

LEMMA StTo ==
    ASSUME TypeOK, NEW x \in Procs, NEW s \in States, st' = [st EXCEPT ![x] = s]
    PROVE  /\ st' \in [Procs -> States]
           /\ \A y \in Procs : st'[y] = IF y = x THEN s ELSE st[y]
  BY DEF TypeOK

LEMMA PcTo ==
    ASSUME TypeOK, NEW t \in Starters, NEW label \in PCs, Goto(t, label)
    PROVE  /\ start' \in Places
           /\ start'[t] = [start[t] EXCEPT !.pc = label]
           /\ start'[t].pc = label /\ start'[t].sm = start[t].sm /\ start'[t].x = start[t].x
           /\ \A u \in Starters : u # t => start'[u] = start[u]
  BY DEF TypeOK, Goto, PCs, Places

LEMMA IdleTo ==
    ASSUME TypeOK, NEW t \in Starters, Return(t)
    PROVE  /\ start' \in Places
           /\ start'[t].pc = "idle" /\ start'[t].sm = 0
           /\ \A u \in Starters : u # t => start'[u] = start[u]
<1>1. start' = [start EXCEPT ![t] = Idle] /\ start \in Places
  BY DEF Return, TypeOK, Places
<1>2. start' \in Places /\ start'[t] = Idle /\ \A u \in Starters : u # t => start'[u] = start[u]
  BY <1>1, IdlePlace DEF Places
<1>3. QED
  BY <1>2, IdlePlace

LEMMA ManagerTo ==
    ASSUME TypeOK, NEW t \in Starters, NEW label \in PCs, NEW s \in 0 .. MaxSockets,
           start' = [start EXCEPT ![t].pc = label, ![t].sm = s]
    PROVE  /\ start' \in Places
           /\ start'[t].pc = label /\ start'[t].sm = s /\ start'[t].x = start[t].x
           /\ \A u \in Starters : u # t => start'[u] = start[u]
  BY DEF TypeOK, PCs, Places

LEMMA FailsTo ==
    ASSUME TypeOK, NEW t \in Starters, StartFails(t)
    PROVE  /\ st' \in [Procs -> States]
           /\ start' \in Places
           /\ start'[t].pc = "idle" /\ start'[t].sm = 0
           /\ \A u \in Starters : u # t => start'[u] = start[u]
<1>1. "EXITED" \in States /\ start[t].x \in Procs
  BY DEF States, TypeOK
<1>2. st' = [st EXCEPT ![start[t].x] = "EXITED"] /\ Return(t)
  BY DEF StartFails
<1>3. st' \in [Procs -> States]
  BY <1>1, <1>2, StTo
<1>4. QED
  BY <1>2, <1>3, IdleTo

LEMMA CountTo ==
    ASSUME TypeOK, NEW s \in Sockets, NEW n \in Nat, refCount' = [refCount EXCEPT ![s] = n]
    PROVE  /\ refCount' \in [Sockets -> Nat]
           /\ \A r \in Sockets : refCount'[r] = IF r = s THEN n ELSE refCount[r]
  BY DEF TypeOK

LEMMA ListenerTo ==
    ASSUME TypeOK, NEW s \in Sockets, NEW l \in {"nil", "open"},
           listener' = [listener EXCEPT ![s] = l]
    PROVE  /\ listener' \in [Sockets -> {"nil", "open"}]
           /\ \A r \in Sockets : listener'[r] = IF r = s THEN l ELSE listener[r]
  BY DEF TypeOK

LEMMA FaultTo ==
    ASSUME TypeOK, Fault
    PROVE  faults' \in 0 .. MaxFaults /\ orderly' \in BOOLEAN
<1>1. faults \in 0 .. MaxFaults /\ MaxFaults \in Nat
  BY FcgiAssumption DEF TypeOK
<1>2. faults < MaxFaults /\ faults' = faults + 1 /\ orderly' = FALSE
  BY DEF Fault
<1>3. faults' \in 0 .. MaxFaults
  BY <1>1, <1>2
<1>4. orderly' \in BOOLEAN
  BY <1>2, Zenon
<1>5. QED
  BY <1>3, <1>4

(* A failure is a fault, or what went before made it fail. *)
LEMMA FailsIfTo ==
    ASSUME TypeOK, NEW must \in BOOLEAN, FailsIf(must)
    PROVE  faults' \in 0 .. MaxFaults /\ orderly' \in BOOLEAN
<1>1. CASE must
  BY <1>1 DEF FailsIf, TypeOK
<1>2. CASE ~must
  BY <1>2, FaultTo DEF FailsIf
<1>3. QED
  BY <1>1, <1>2

(* One Detach by the manager of the map: a reference less, and with the last one
   the manager is closed and gone from the map. *)
LEMMA DetachTo ==
    ASSUME SocketInv, DetachEntry
    PROVE  /\ refCount' \in [Sockets -> Nat]
           /\ listener' \in [Sockets -> {"nil", "open"}]
           /\ entry' \in {0, entry}
           /\ entry' # 0 => UNCHANGED <<listener, closed>>
           /\ closed' \subseteq closed \cup {entry}
           /\ closed' \in SUBSET Sockets
           /\ entry' \notin closed' /\ 0 \notin closed'
           /\ \A s \in Sockets : s # entry => refCount'[s] = refCount[s]
           /\ closed' \subseteq 1 .. sockets
<1>0. /\ entry \in 0 .. MaxSockets /\ sockets \in 0 .. MaxSockets /\ MaxSockets \in Nat
      /\ refCount \in [Sockets -> Nat] /\ listener \in [Sockets -> {"nil", "open"}]
      /\ closed \in SUBSET Sockets /\ closed \subseteq 1 .. sockets /\ entry <= sockets
      /\ entry \notin closed
  BY FcgiAssumption DEF SocketInv, TypeOK, Numbering
<1>1. CASE entry = 0 \/ refCount[entry] = 0
  <2>1. UNCHANGED <<entry, refCount, listener, closed>>
    BY <1>1 DEF DetachEntry
  <2>2. QED
    BY <1>0, <2>1 DEF Sockets
<1>2. CASE entry # 0 /\ refCount[entry] # 0
  <2>1. entry \in Sockets /\ refCount[entry] \in Nat /\ refCount[entry] - 1 \in Nat
    BY <1>0, <1>2 DEF Sockets
  <2>2. refCount' = [refCount EXCEPT ![entry] = refCount[entry] - 1]
    BY <1>2 DEF DetachEntry
  <2>3. CASE refCount[entry] = 1
    <3>1. /\ closed' = closed \cup {entry} /\ entry' = 0
          /\ listener' = [listener EXCEPT ![entry] = "nil"]
      BY <1>2, <2>3 DEF DetachEntry
    <3>2. QED
      BY <1>0, <2>1, <2>2, <3>1 DEF Sockets
  <2>4. CASE refCount[entry] # 1
    <3>1. UNCHANGED <<entry, listener, closed>>
      BY <1>2, <2>4 DEF DetachEntry
    <3>2. QED
      BY <1>0, <2>1, <2>2, <3>1 DEF Sockets
  <2>5. QED
    BY <2>3, <2>4
<1>3. QED
  BY <1>1, <1>2

-----------------------------------------------------------------------------
(* Init and every action keep SocketInv. *)

USE FcgiAssumption

(* The facts about the types that the steps below use *)
LEMMA Ranges ==
    ASSUME SocketInv
    PROVE  /\ entry \in Nat /\ sockets \in Nat
           /\ entry # 0 => entry \in Sockets /\ refCount[entry] \in Nat
           /\ \A s \in Sockets : s # 0 /\ s \in Nat
           /\ sockets < MaxSockets => sockets + 1 \in Sockets
           /\ sockets + 1 \in Sockets => refCount[sockets + 1] = 0
           /\ \A x \in Procs : stop[x] \in Nat
           /\ \A t \in Starters : start[t].x \in Procs /\ start[t].pc \in PCs
           /\ entry \in 0 .. MaxSockets
           /\ sockets < MaxSockets => sockets + 1 \in 0 .. MaxSockets
           /\ 0 \notin closed
           /\ \A t \in Starters : start[t].pc \notin {"idle", "lookup"} => start[t].sm \in Sockets
<1>1. /\ entry \in 0 .. MaxSockets /\ sockets \in 0 .. MaxSockets /\ MaxSockets \in Nat
      /\ refCount \in [Sockets -> Nat] /\ stop \in [Procs -> Nat] /\ closed \in SUBSET Sockets
      /\ start \in Places
      /\ \A s \in Sockets : s > sockets => refCount[s] = 0
      /\ \A t \in Starters : start[t].pc \notin {"idle", "lookup"} => start[t].sm # 0
  BY DEF SocketInv, TypeOK, Numbering, Places
<1>2. \A t \in Starters : /\ start[t].x \in Procs /\ start[t].pc \in PCs
                          /\ start[t].sm \in 0 .. MaxSockets
  BY <1>1 DEF Places
<1>3. QED
  BY <1>1, <1>2 DEF Sockets

LEMMA InitSafe == Init => SocketInv
<1> SUFFICES ASSUME Init PROVE SocketInv
  OBVIOUS
<1>1. start \in Places /\ \A t \in Starters : start[t].pc = "idle" /\ start[t].sm = 0
  BY IdlePlace DEF Init, Places
<1>2. TypeOK
  BY <1>1 DEF Init, TypeOK, States, Sockets, Places
<1>3. Numbering /\ NoDeadEntry
  BY <1>1 DEF Init, Numbering, NoDeadEntry, Sockets
<1>4. QED
  BY <1>2, <1>3 DEF SocketInv

(* A step that leaves the managers alone and does not move a Start that is about
   to listen *)
LEMMA StartFrame ==
    ASSUME SocketInv, TypeOK', UNCHANGED <<entry, sockets, listener, closed>>,
           \A s \in Sockets : s > sockets => refCount'[s] = refCount[s],
           \A t \in Starters :
              /\ start'[t].sm <= sockets
              /\ start'[t].pc \notin {"idle", "lookup"} => start'[t].sm # 0
              /\ start[t].pc = "listen" =>
                   start'[t].pc = "listen" /\ start'[t].sm = start[t].sm
    PROVE  SocketInv'
<1>1. Numbering'
  BY DEF SocketInv, Numbering
<1>2. NoDeadEntry'
  BY DEF SocketInv, NoDeadEntry, At
<1>3. QED
  BY <1>1, <1>2 DEF SocketInv

LEMMA StartCallSafe ==
    ASSUME SocketInv, NEW t \in Starters, NEW x \in Procs, StartCall(t, x) PROVE SocketInv'
<1>1. /\ start' = [start EXCEPT ![t] = [pc |-> "lookup", x |-> x, sm |-> 0]]
      /\ st' = [st EXCEPT ![x] = "STARTING"] /\ start[t].pc = "idle"
  BY DEF StartCall, At
<1>2. /\ start' \in Places /\ start'[t].pc = "lookup" /\ start'[t].sm = 0
      /\ \A u \in Starters : u # t => start'[u] = start[u]
  BY <1>1 DEF SocketInv, TypeOK, Places, PCs
<1>3. st' \in [Procs -> States]
  BY <1>1, StTo DEF States, SocketInv
<1>4. calls' \in 0 .. MaxCalls
  BY DEF StartCall, SocketInv, TypeOK
<1>5. orderly' \in BOOLEAN
  BY ZenonT(40) DEF StartCall, SocketInv, TypeOK
<1>6. UNCHANGED <<fd, stop, loop, entry, sockets, refCount, listener, closed, faults>>
  BY DEF StartCall
<1>7. TypeOK'
  BY <1>2, <1>3, <1>4, <1>5, <1>6 DEF SocketInv, TypeOK, Places
<1>8. QED
  BY <1>1, <1>2, <1>6, <1>7, StartFrame, Ranges DEF SocketInv, Numbering

(* A reference to a manager that exists *)
LEMMA AttachSafe ==
    ASSUME SocketInv, NEW t \in Starters, NEW s \in 1 .. sockets, Attach(t, s),
           start[t].pc \in {"lookup", "attach"},
           UNCHANGED <<fd, stop, loop, entry, sockets, listener, closed, calls>>
    PROVE  SocketInv'
<1>1. s \in Sockets /\ s \in 0 .. MaxSockets /\ s # 0 /\ s <= sockets /\ sockets \in Nat
  BY DEF Sockets, TypeOK, SocketInv
<1>2. CASE /\ FailsIf(~(s \notin closed /\ listener[s] = "open"))
           /\ StartFails(t) /\ UNCHANGED refCount
  <2>1. faults' \in 0 .. MaxFaults /\ orderly' \in BOOLEAN
    BY <1>2, FailsIfTo DEF SocketInv
  <2>2. TypeOK'
    BY <1>2, <2>1, FailsTo DEF TypeOK, SocketInv, Places
  <2>3. QED
    BY <1>1, <1>2, <2>2, FailsTo, StartFrame DEF SocketInv, Numbering
<1>3. CASE /\ refCount' = [refCount EXCEPT ![s] = refCount[s] + 1]
           /\ start' = [start EXCEPT ![t].pc = "recheck", ![t].sm = s]
           /\ UNCHANGED <<st, faults, orderly>>
  <2>2. refCount[s] + 1 \in Nat
    BY <1>1 DEF TypeOK, SocketInv
  <2>3. /\ refCount' \in [Sockets -> Nat]
        /\ \A r \in Sockets : r # s => refCount'[r] = refCount[r]
    BY <1>1, <1>3, <2>2, CountTo DEF SocketInv
  <2>4. /\ start' \in Places
        /\ start'[t].pc = "recheck" /\ start'[t].sm = s
        /\ \A u \in Starters : u # t => start'[u] = start[u]
    BY <1>1, <1>3, ManagerTo DEF PCs, SocketInv
  <2>5. TypeOK'
    BY <1>3, <2>3, <2>4 DEF TypeOK, SocketInv, Places
  <2>6. \A r \in Sockets : r > sockets => refCount'[r] = refCount[r]
    BY <1>1, <2>3 DEF Sockets
  <2>7. QED
    BY <1>1, <2>4, <2>5, <2>6, StartFrame DEF SocketInv, Numbering
<1>4. QED
  BY <1>2, <1>3 DEF Attach

LEMMA LookupSafe == ASSUME SocketInv, NEW t \in Starters, Lookup(t) PROVE SocketInv'
<1>0. start[t].pc = "lookup"
  BY DEF Lookup, At
<1>1. CASE entry # 0
  <2>1. entry \in 1 .. sockets
    BY <1>1 DEF TypeOK, SocketInv, Numbering
  <2>2. QED
    BY <1>0, <1>1, <2>1, AttachSafe DEF Lookup
<1>2. CASE entry = 0
  <2>1. /\ sockets < MaxSockets /\ sockets' = sockets + 1 /\ entry' = sockets + 1
        /\ start' = [start EXCEPT ![t].pc = "listen", ![t].sm = sockets + 1]
        /\ UNCHANGED <<st, fd, refCount, stop, loop, listener, closed, calls, faults, orderly>>
    BY <1>2 DEF Lookup
  <2>2. sockets + 1 \in 0 .. MaxSockets /\ sockets \in Nat
    BY <2>1 DEF TypeOK, SocketInv
  <2>3. /\ start' \in Places
        /\ start'[t].pc = "listen" /\ start'[t].sm = sockets + 1
        /\ \A u \in Starters : u # t => start'[u] = start[u]
    BY <2>1, <2>2, ManagerTo DEF PCs, SocketInv
  <2>4. TypeOK'
    BY <2>1, <2>2, <2>3 DEF TypeOK, Places, SocketInv
  <2>5. NoDeadEntry'
    BY <2>1, <2>3 DEF NoDeadEntry, At
  <2>6. Numbering'
    <3>1. \A u \in Starters : /\ start'[u].sm \in Nat /\ start'[u].sm <= sockets + 1
                              /\ start'[u].pc \notin {"idle", "lookup"} => start'[u].sm # 0
      BY <2>2, <2>3 DEF SocketInv, Numbering, Places
    <3>2. closed' \subseteq 1 .. sockets' /\ entry' \notin closed'
      BY <2>1, <2>2 DEF SocketInv, Numbering
    <3>3. \A s \in Sockets : s > sockets + 1 => refCount[s] = 0
      BY <2>2 DEF SocketInv, Numbering, Sockets
    <3>4. /\ \A u \in Starters : /\ start'[u].sm <= sockets'
                                 /\ start'[u].pc \notin {"idle", "lookup"} => start'[u].sm # 0
          /\ \A s \in Sockets : s > sockets' => refCount'[s] = 0
          /\ entry' <= sockets'
      <4>1. sockets' = sockets + 1 /\ entry' = sockets + 1 /\ refCount' = refCount
        BY <2>1
      <4>2. \A s \in Sockets : s > sockets' => refCount'[s] = 0
        BY <3>3, <4>1
      <4>3. \A u \in Starters : start'[u].sm <= sockets'
        BY <3>1, <4>1
      <4>4. QED
        BY <2>2, <3>1, <4>1, <4>2, <4>3
    <3>5. QED
      BY <3>2, <3>4 DEF Numbering
  <2>7. QED
    BY <2>4, <2>5, <2>6 DEF SocketInv
<1>3. QED
  BY <1>1, <1>2

(* The manager is given up: the entry goes, and every Start but this one stays. *)
LEMMA GiveUpSafe ==
    ASSUME SocketInv, NEW t \in Starters, StartFails(t), entry' = 0,
           listener' \in [Sockets -> {"nil", "open"}],
           faults' \in 0 .. MaxFaults, orderly' \in BOOLEAN,
           UNCHANGED <<fd, stop, loop, sockets, refCount, closed, calls>>
    PROVE  SocketInv'
<1>1. /\ st' \in [Procs -> States] /\ start' \in Places
      /\ start'[t].pc = "idle" /\ start'[t].sm = 0
      /\ \A u \in Starters : u # t => start'[u] = start[u]
  BY FailsTo DEF SocketInv
<1>2. TypeOK'
  BY <1>1 DEF TypeOK, SocketInv, Places
<1>3. Numbering'
  BY <1>1, Ranges DEF SocketInv, Numbering
<1>4. NoDeadEntry'
  BY DEF NoDeadEntry
<1>5. QED
  BY <1>2, <1>3, <1>4 DEF SocketInv

LEMMA ListenSafe == ASSUME SocketInv, NEW t \in Starters, Listen(t) PROVE SocketInv'
<1> DEFINE s == start[t].sm
           taken == \E other \in Sockets : listener[other] = "open"
<1>0. s \in Sockets /\ start[t].pc = "listen"
  BY Ranges DEF Listen, At
<1>1. UNCHANGED <<fd, stop, loop, sockets, refCount, closed, calls>>
  BY DEF Listen
<1>2. CASE /\ listener' = [listener EXCEPT ![s] = "open"]
           /\ Goto(t, "mode") /\ UNCHANGED <<st, entry, faults, orderly>>
  <2>1. /\ listener' \in [Sockets -> {"nil", "open"}]
        /\ \A r \in Sockets : listener'[r] = IF r = s THEN "open" ELSE listener[r]
    BY <1>0, <1>2, ListenerTo DEF SocketInv
  <2>2. /\ start' \in Places /\ start'[t].sm = s /\ start'[t].pc = "mode"
        /\ \A u \in Starters : u # t => start'[u] = start[u]
    BY <1>2, PcTo DEF PCs, SocketInv
  <2>3. TypeOK'
    BY <1>1, <1>2, <2>1, <2>2 DEF TypeOK, SocketInv, Places
  <2>4. Numbering'
    BY <1>0, <1>1, <1>2, <2>2 DEF SocketInv, Numbering
  <2>5. NoDeadEntry'
    <3>1. CASE entry = 0
      BY <1>2, <3>1 DEF NoDeadEntry
    <3>2. CASE entry = s
      BY <1>0, <1>1, <1>2, <2>1, <3>2 DEF NoDeadEntry, SocketInv, Numbering
    <3>3. CASE entry # 0 /\ entry # s
      <4>1. CASE entry \notin closed /\ listener[entry] = "open"
        BY <1>1, <1>2, <2>1, <3>3, <4>1, Ranges DEF NoDeadEntry
      <4>2. CASE \E u \in Starters : At(u, "listen") /\ start[u].sm = entry
        <5>1. PICK u \in Starters : At(u, "listen") /\ start[u].sm = entry
          BY <4>2
        <5>2. u # t /\ start'[u] = start[u]
          BY <2>2, <3>3, <5>1
        <5>3. QED
          BY <1>2, <5>1, <5>2 DEF NoDeadEntry, At
      <4>3. QED
        BY <3>3, <4>1, <4>2 DEF SocketInv, NoDeadEntry
    <3>4. QED
      BY <3>1, <3>2, <3>3
  <2>6. QED
    BY <2>3, <2>4, <2>5 DEF SocketInv
<1>3. CASE FailsIf(taken) /\ entry' = 0 /\ StartFails(t) /\ UNCHANGED listener
  <2>1. faults' \in 0 .. MaxFaults /\ orderly' \in BOOLEAN
    BY <1>3, FailsIfTo DEF SocketInv
  <2>2. QED
    BY <1>1, <1>3, <2>1, GiveUpSafe DEF SocketInv, TypeOK
<1>4. QED
  BY <1>2, <1>3 DEF Listen

LEMMA ApplyModeSafe == ASSUME SocketInv, NEW t \in Starters, ApplyMode(t) PROVE SocketInv'
<1> DEFINE s == start[t].sm
<1>0. s \in Sockets /\ start[t].pc = "mode"
  BY Ranges DEF ApplyMode, At
<1>1. UNCHANGED <<fd, stop, loop, sockets, refCount, closed, calls>>
  BY DEF ApplyMode
<1>2. CASE Goto(t, "attach") /\ UNCHANGED <<st, entry, listener, faults, orderly>>
  <2>1. /\ start' \in Places /\ start'[t].sm = s /\ start'[t].pc = "attach"
        /\ \A u \in Starters : u # t => start'[u] = start[u]
    BY <1>2, PcTo DEF PCs, SocketInv
  <2>2. TypeOK'
    BY <1>1, <1>2, <2>1 DEF TypeOK, SocketInv, Places
  <2>3. QED
    BY <1>0, <1>1, <1>2, <2>1, <2>2, StartFrame DEF SocketInv, Numbering
<1>3. CASE /\ Fault /\ listener' = [listener EXCEPT ![s] = "nil"]
           /\ entry' = 0 /\ StartFails(t)
  <2>1. listener' \in [Sockets -> {"nil", "open"}]
    BY <1>0, <1>3, ListenerTo DEF SocketInv
  <2>2. faults' \in 0 .. MaxFaults /\ orderly' \in BOOLEAN
    BY <1>3, FaultTo DEF SocketInv
  <2>3. QED
    BY <1>1, <1>3, <2>1, <2>2, GiveUpSafe
<1>4. QED
  BY <1>2, <1>3 DEF ApplyMode

LEMMA AttachNewSafe == ASSUME SocketInv, NEW t \in Starters, AttachNew(t) PROVE SocketInv'
<1>0. start[t].pc = "attach"
  BY DEF AttachNew, At
<1>1. start[t].sm \in 1 .. sockets
  BY <1>0, Ranges DEF SocketInv, Numbering, Sockets
<1>2. QED
  BY <1>0, <1>1, AttachSafe DEF AttachNew

LEMMA RecheckSafe == ASSUME SocketInv, NEW t \in Starters, Recheck(t) PROVE SocketInv'
<1> DEFINE s == start[t].sm
<1>0. s \in Sockets /\ s <= sockets /\ start[t].pc = "recheck" /\ sockets \in Nat
  BY Ranges DEF Recheck, At, SocketInv, Numbering
<1>1. UNCHANGED <<st, fd, stop, loop, entry, sockets, listener, closed, calls, faults, orderly>>
  BY DEF Recheck
<1>2. /\ start' \in Places
      /\ start'[t].sm \in {0, s}
      /\ start'[t].pc = "idle" \/ start'[t].sm = s
      /\ \A u \in Starters : u # t => start'[u] = start[u]
  <2>1. CASE Return(t)
    BY <2>1, IdleTo DEF SocketInv
  <2>2. CASE Goto(t, "spawn")
    BY <2>2, PcTo DEF SocketInv, PCs
  <2>3. QED
    BY <2>1, <2>2 DEF Recheck
<1>3. /\ refCount' \in [Sockets -> Nat]
      /\ \A r \in Sockets : r # s => refCount'[r] = refCount[r]
  <2>1. refCount \in [Sockets -> Nat]
    BY DEF SocketInv, TypeOK
  <2>2. \/ UNCHANGED refCount
        \/ refCount' = [refCount EXCEPT ![s] = IF refCount[s] = 0 THEN 0 ELSE refCount[s] - 1]
    BY DEF Recheck
  <2>3. QED
    BY <1>0, <2>1, <2>2
<1>4. TypeOK'
  BY <1>1, <1>2, <1>3 DEF TypeOK, SocketInv, Places
<1>5. \A r \in Sockets : r > sockets => refCount'[r] = refCount[r]
  BY <1>0, <1>3 DEF Sockets
<1>6. QED
  BY <1>0, <1>1, <1>2, <1>4, <1>5, StartFrame, Ranges DEF SocketInv, Numbering

LEMMA SpawnSafe == ASSUME SocketInv, NEW t \in Starters, Spawn(t) PROVE SocketInv'
<1> DEFINE x == start[t].x
<1>0. /\ x \in Procs /\ start[t].pc = "spawn" /\ start[t].sm \in 0 .. MaxSockets
      /\ sockets \in Nat
  BY Ranges DEF Spawn, At, SocketInv, TypeOK
<1>1. UNCHANGED <<stop, loop, entry, sockets, refCount, listener, closed, calls>>
  BY DEF Spawn
<1>2. /\ st' \in [Procs -> States] /\ fd' \in [Procs -> 0 .. MaxSockets] /\ start' \in Places
      /\ start'[t].pc = "idle" /\ start'[t].sm = 0
      /\ \A u \in Starters : u # t => start'[u] = start[u]
      /\ faults' \in 0 .. MaxFaults /\ orderly' \in BOOLEAN
  <2>1. CASE Fault /\ StartFails(t) /\ UNCHANGED fd
    BY <2>1, FailsTo, FaultTo DEF SocketInv, TypeOK
  <2>2. CASE /\ IF st[x] = "STARTING"
                THEN /\ st' = [st EXCEPT ![x] = "RUNNING"]
                     /\ fd' = [fd EXCEPT ![x] = start[t].sm]
                ELSE UNCHANGED <<st, fd>>
             /\ Return(t)
             /\ UNCHANGED <<faults, orderly>>
    <3>1. st' \in [Procs -> States] /\ fd' \in [Procs -> 0 .. MaxSockets]
      BY <1>0, <2>2 DEF TypeOK, States, SocketInv
    <3>2. QED
      BY <2>2, <3>1, IdleTo DEF SocketInv, TypeOK
  <2>3. QED
    BY <2>1, <2>2 DEF Spawn
<1>3. TypeOK'
  BY <1>1, <1>2 DEF SocketInv, TypeOK, Places
<1>4. QED
  BY <1>0, <1>1, <1>2, <1>3, StartFrame DEF SocketInv, Numbering

LEMMA ChildExitSafe == ASSUME SocketInv, NEW x \in Procs, ChildExit(x) PROVE SocketInv'
<1>1. /\ st' = [st EXCEPT ![x] = "EXITED"] /\ Fault
      /\ UNCHANGED <<fd, start, stop, loop, entry, sockets, refCount, listener, closed, calls>>
  BY DEF ChildExit
<1>2. TypeOK'
  BY <1>1, StTo, FaultTo DEF TypeOK, SocketInv, States
<1>3. QED
  BY <1>1, <1>2, StartFrame DEF SocketInv, Numbering

LEMMA StopCallSafe == ASSUME SocketInv, NEW x \in Procs, StopCall(x) PROVE SocketInv'
<1>1. /\ st' = [st EXCEPT ![x] = "STOPPED"] /\ stop' = [stop EXCEPT ![x] = @ + 1]
      /\ UNCHANGED <<fd, start, loop, entry, sockets, refCount, listener, closed, faults>>
      /\ calls < MaxCalls /\ calls' = calls + 1
  BY DEF StopCall
<1>2. orderly' \in BOOLEAN
  BY ZenonT(40) DEF StopCall, SocketInv, TypeOK
<1>3. TypeOK'
  BY <1>1, <1>2, StTo DEF TypeOK, SocketInv, States
<1>4. QED
  BY <1>1, <1>3, StartFrame DEF SocketInv, Numbering

LEMMA DetachSafe ==
    ASSUME SocketInv, DetachEntry, stop' \in [Procs -> Nat], loop' \in SUBSET Procs,
           UNCHANGED <<st, fd, start, sockets, calls, faults, orderly>>
    PROVE  SocketInv'
<1>1. TypeOK'
  BY DetachTo DEF TypeOK, SocketInv
<1>2. entry \in 0 .. sockets /\ entry' \in {0, entry} /\ sockets \in Nat
  BY DetachTo DEF TypeOK, SocketInv, Numbering
<1>3. \A s \in Sockets : s > sockets => refCount'[s] = 0
  <2>1. \A s \in Sockets : s > sockets => s # entry /\ refCount[s] = 0
    BY <1>2 DEF SocketInv, Numbering, Sockets
  <2>2. \A s \in Sockets : s # entry => refCount'[s] = refCount[s]
    BY DetachTo
  <2>3. QED
    BY <2>1, <2>2
<1>4. Numbering'
  BY <1>2, <1>3, DetachTo DEF SocketInv, Numbering
<1>5. NoDeadEntry'
  BY DetachTo DEF SocketInv, NoDeadEntry, At
<1>6. QED
  BY <1>1, <1>4, <1>5 DEF SocketInv

LEMMA StopDetachSafe == ASSUME SocketInv, NEW x \in Procs, StopDetach(x) PROVE SocketInv'
<1>1. /\ DetachEntry /\ UNCHANGED <<st, fd, start, loop, sockets, calls, faults, orderly>>
      /\ stop[x] # 0 /\ stop' = [stop EXCEPT ![x] = stop[x] - 1]
  BY DEF StopDetach
<1>2. stop' \in [Procs -> Nat]
  BY <1>1 DEF SocketInv, TypeOK
<1>3. QED
  BY <1>1, <1>2, DetachSafe DEF SocketInv, TypeOK

LEMMA LoopTickSafe == ASSUME SocketInv, NEW x \in Procs, LoopTick(x) PROVE SocketInv'
<1>1. UNCHANGED <<fd, start, stop, entry, sockets, refCount, listener, closed, calls, faults,
                  orderly>>
  BY DEF LoopTick
<1>2. TypeOK'
  BY <1>1 DEF LoopTick, States, TypeOK, SocketInv
<1>3. QED
  BY <1>1, <1>2, StartFrame DEF SocketInv, Numbering

LEMMA LoopDetachSafe == ASSUME SocketInv, NEW x \in Procs, LoopDetach(x) PROVE SocketInv'
<1>1. UNCHANGED <<st, fd, start, stop, sockets, calls, faults, orderly>> /\ loop' = {}
  BY DEF LoopDetach
<1>2. CASE DetachEntry
  BY <1>1, <1>2, DetachSafe DEF SocketInv, TypeOK
<1>3. CASE UNCHANGED <<entry, refCount, listener, closed>>
  <2>1. TypeOK'
    BY <1>1, <1>3 DEF SocketInv, TypeOK
  <2>2. QED
    BY <1>1, <1>3, <2>1, StartFrame DEF SocketInv, Numbering
<1>4. QED
  BY <1>2, <1>3 DEF LoopDetach

LEMMA NextSafe == SocketInv /\ [Next]_vars => SocketInv'
<1> SUFFICES ASSUME SocketInv, [Next]_vars PROVE SocketInv'
  OBVIOUS
<1>1. CASE UNCHANGED vars
  <2>1. TypeOK'
    BY <1>1 DEF vars, TypeOK, SocketInv
  <2>2. QED
    BY <1>1, <2>1, StartFrame DEF vars, SocketInv, Numbering
<1>2. CASE Next
  BY <1>2, StartCallSafe, LookupSafe, ListenSafe, ApplyModeSafe, AttachNewSafe,
     RecheckSafe, SpawnSafe, ChildExitSafe, StopCallSafe, StopDetachSafe,
     LoopTickSafe, LoopDetachSafe DEF Next
<1>3. QED
  BY <1>1, <1>2

(* However Starts, Stops, failures and ticks of any number of processes and
   goroutines interleave, and whoever deletes whose entry, the map never keeps a
   manager that is closed or has given up: what a Start finds there listens, or
   is about to. *)
THEOREM NoDeadManager == Spec => []NoDeadEntry
<1>1. SocketInv => NoDeadEntry
  BY DEF SocketInv
<1>2. QED
  BY <1>1, InitSafe, NextSafe, PTL DEF Spec

-----------------------------------------------------------------------------
(* While the calls come one after the other and nothing fails, the count of
   references is the number of processes that run, are being stopped or are
   about to be forked, and the socket in the map is the only one that listens. *)

LEMMA HoldersFinite ==
    /\ IsFiniteSet(Holders) /\ Cardinality(Holders) \in Nat
    /\ Cardinality(Holders) = 0 <=> Holders = {}
<1>1. Holders \in SUBSET Procs
  BY DEF Holders
<1>2. IsFiniteSet(Holders)
  BY <1>1, FS_Subset
<1>3. QED
  BY <1>2, FS_CardinalityType, FS_EmptySet

LEMMA InitOrderly == Init => OrderlyInv
<1> SUFFICES ASSUME Init PROVE OneCall /\ Counted /\ Listening
  BY DEF OrderlyInv
<1>1. /\ \A x \in Procs : st[x] = "STOPPED" /\ stop[x] = 0
      /\ \A t \in Starters : start[t].pc = "idle"
      /\ loop = {} /\ entry = 0 /\ \A s \in Sockets : listener[s] = "nil"
  BY IdlePlace DEF Init
<1>2. QED
  BY <1>1 DEF OneCall, Counted, Listening, Holds, Creates, Attached, At

LEMMA StartCallOrderly ==
    ASSUME SocketInv, OrderlyInv, NEW t \in Starters, NEW x \in Procs, StartCall(t, x), orderly'
    PROVE  OrderlyInv'
<1>1. OneCall /\ Counted /\ Listening /\ Quiet
  BY DEF StartCall, OrderlyInv
<1>2. /\ \A u \in Starters : start[u].pc = "idle"
      /\ \A y \in Procs : stop[y] = 0 /\ st[y] # "STARTING"
  BY <1>1 DEF Quiet, At, OneCall
<1>3. /\ \A y \in Procs : st'[y] = IF y = x THEN "STARTING" ELSE st[y]
      /\ start'[t].pc = "lookup" /\ start'[t].x = x
      /\ \A u \in Starters : u # t => start'[u] = start[u]
  <2>1. /\ st' = [st EXCEPT ![x] = "STARTING"]
        /\ start' = [start EXCEPT ![t] = [pc |-> "lookup", x |-> x, sm |-> 0]]
    BY DEF StartCall
  <2>2. \A y \in Procs : st'[y] = IF y = x THEN "STARTING" ELSE st[y]
    BY <2>1, StTo DEF States, SocketInv
  <2>3. QED
    BY <2>1, <2>2 DEF SocketInv, TypeOK
<1>4. st[x] # "RUNNING" /\ UNCHANGED <<fd, stop, loop, entry, refCount, listener>>
  BY DEF StartCall
<1>5. /\ \A y \in Procs : Holds(y)' <=> Holds(y)
      /\ \A u \in Starters : /\ ~Creates(u) /\ ~Creates(u)' /\ ~Attached(u)'
                             /\ start'[u].pc # "listen"
  BY <1>2, <1>3, <1>4 DEF Holds, Creates, Attached
<1>6. Holders' = Holders
  BY <1>5 DEF Holders
<1>7. OneCall'
  BY <1>1, <1>2, <1>3, <1>4 DEF OneCall, At
<1>8. Counted'
  BY <1>1, <1>3, <1>4, <1>5, <1>6 DEF Counted
<1>9. Listening'
  BY <1>1, <1>2, <1>3, <1>4, <1>5, <1>6 DEF Listening
<1>10. QED
  BY <1>7, <1>8, <1>9 DEF OrderlyInv

(* A step of a Start that goes on *)
LEMMA OneCallKept ==
    ASSUME OneCall, UNCHANGED <<st, stop, loop>>,
           \A u \in Starters : /\ start'[u].x = start[u].x
                               /\ start'[u].pc = "idle" <=> start[u].pc = "idle"
    PROVE  OneCall'
  BY DEF OneCall, At

(* Attach, by the Start that found a manager or by the one that made it *)
LEMMA AttachOrderly ==
    ASSUME SocketInv, OneCall, Counted, Listening, NEW t \in Starters, Attach(t, entry),
           start[t].pc \in {"lookup", "attach"}, entry # 0, orderly',
           UNCHANGED <<fd, stop, loop, entry, sockets, listener, closed, calls>>
    PROVE  OrderlyInv'
<1> DEFINE x == start[t].x
<1>0. /\ entry \in Sockets /\ refCount[entry] \in Nat /\ entry \in 0 .. MaxSockets
      /\ x \in Procs
  BY Ranges
<1>1. /\ st[x] = "STARTING" /\ stop[x] = 0 /\ \A y \in Procs : stop[y] = 0
      /\ \A u \in Starters : u # t => start[u].pc = "idle"
  BY <1>0 DEF OneCall, At
<1>a. ~Holds(x) /\ \A u \in Starters : ~Attached(u) /\ (u # t => ~Creates(u))
  BY <1>1 DEF Holds, Attached, Creates
<1>2. listener[entry] = "open" /\ entry \notin closed
  BY <1>1 DEF Listening, SocketInv, Numbering
<1>3. /\ refCount' = [refCount EXCEPT ![entry] = refCount[entry] + 1]
      /\ start' = [start EXCEPT ![t].pc = "recheck", ![t].sm = entry]
      /\ UNCHANGED st
  BY <1>2 DEF Attach, FailsIf, Fault
<1>4. /\ start'[t].sm = entry /\ start'[t].pc = "recheck" /\ start'[t].x = x
      /\ \A u \in Starters : u # t => start'[u] = start[u]
  BY <1>0, <1>3, ManagerTo DEF PCs, SocketInv
<1>5. /\ \A y \in Procs : Holds(y)' <=> (Holds(y) \/ y = x)
      /\ \A u \in Starters : ~Creates(u)' /\ start'[u].pc # "listen" /\ (Attached(u)' <=> u = t)
  BY <1>0, <1>1, <1>a, <1>3, <1>4 DEF Holds, Creates, Attached
<1>6. Holders' = Holders \cup {x} /\ x \notin Holders
  BY <1>0, <1>a, <1>5 DEF Holders
<1>7. Cardinality(Holders') = Cardinality(Holders) + 1
  BY <1>6, HoldersFinite, FS_AddElement
<1>8. refCount'[entry] = refCount[entry] + 1
  BY <1>0, <1>3 DEF TypeOK, SocketInv
<1>9. OneCall'
  <2>1. \A u \in Starters : /\ start'[u].x = start[u].x
                            /\ start'[u].pc = "idle" <=> start[u].pc = "idle"
    BY <1>4
  <2>2. QED
    BY <1>3, <2>1, OneCallKept
<1>10. Counted'
  BY <1>3, <1>4, <1>5, <1>7, <1>8 DEF Counted
<1>11. Listening'
  BY <1>2, <1>4, <1>5, <1>6 DEF Listening
<1>12. QED
  BY <1>9, <1>10, <1>11 DEF OrderlyInv

LEMMA LookupOrderly ==
    ASSUME SocketInv, OrderlyInv, NEW t \in Starters, Lookup(t), orderly' PROVE OrderlyInv'
<1>0. start[t].pc = "lookup"
  BY DEF Lookup, At
<1>1. OneCall /\ Counted /\ Listening
  <2>1. orderly
    BY DEF Lookup, Attach, FailsIf, Fault
  <2>2. QED
    BY <2>1 DEF OrderlyInv
<1>2. CASE entry # 0
  BY <1>0, <1>1, <1>2, AttachOrderly DEF Lookup
<1>3. CASE entry = 0
  <2>1. /\ sockets < MaxSockets /\ sockets' = sockets + 1 /\ entry' = sockets + 1
        /\ start' = [start EXCEPT ![t].pc = "listen", ![t].sm = sockets + 1]
        /\ UNCHANGED <<st, fd, refCount, stop, loop, listener, closed>>
    BY <1>3 DEF Lookup
  <2>2. /\ sockets + 1 \in 0 .. MaxSockets /\ sockets + 1 \in Sockets
        /\ refCount[sockets + 1] = 0 /\ sockets + 1 # 0 /\ sockets + 1 # entry
        /\ start[t].x \in Procs
    BY <1>3, <2>1, Ranges
  <2>3. /\ start'[t].sm = sockets + 1 /\ start'[t].pc = "listen" /\ start'[t].x = start[t].x
        /\ \A u \in Starters : u # t => start'[u] = start[u]
    BY <2>1, <2>2, ManagerTo DEF PCs, SocketInv
  <2>4. /\ \A y \in Procs : ~Holds(y)
        /\ \A u \in Starters : ~Attached(u) /\ ~Creates(u)
        /\ \A u \in Starters : u # t => start[u].pc = "idle"
    BY <1>0, <1>1, <1>3 DEF Counted, OneCall, At
  <2>5. /\ \A y \in Procs : ~Holds(y)' /\ st'[y] # "RUNNING"
        /\ \A u \in Starters : ~Attached(u)' /\ (Creates(u)' <=> u = t)
    BY <2>1, <2>3, <2>4 DEF Holds, Creates, Attached
  <2>6. Holders' = {} /\ Cardinality(Holders') = 0
    BY <2>5, FS_EmptySet DEF Holders
  <2>7. OneCall'
    <3>1. \A u \in Starters : /\ start'[u].x = start[u].x
                              /\ start'[u].pc = "idle" <=> start[u].pc = "idle"
      BY <1>0, <2>3
    <3>2. QED
      BY <1>1, <2>1, <3>1, OneCallKept
  <2>8. Counted'
    BY <2>1, <2>2, <2>3, <2>5, <2>6 DEF Counted
  <2>9. Listening'
    BY <1>1, <1>3, <2>1, <2>2, <2>3, <2>5, Ranges DEF Listening
  <2>10. QED
    BY <2>7, <2>8, <2>9 DEF OrderlyInv
<1>4. QED
  BY <1>2, <1>3

(* sm.Listen() cannot find the address taken *)
LEMMA ListenOrderly ==
    ASSUME SocketInv, OrderlyInv, NEW t \in Starters, Listen(t), orderly' PROVE OrderlyInv'
<1>1. start[t].pc = "listen"
  BY DEF Listen, At
<1>2. orderly /\ ~Fault
  BY DEF Listen, FailsIf, Fault
<1>3. OneCall /\ Counted /\ Listening
  BY <1>2 DEF OrderlyInv
<1>4. /\ Creates(t) /\ start[t].sm = entry /\ entry # 0 /\ listener[entry] = "nil"
      /\ \A s \in Sockets : listener[s] = "nil"
      /\ \A y \in Procs : ~Holds(y)
  BY <1>1, <1>3 DEF Counted, Listening, Creates, Holders
<1>5. /\ listener' = [listener EXCEPT ![entry] = "open"] /\ Goto(t, "mode")
      /\ UNCHANGED <<st, fd, entry, stop, loop, sockets, refCount, closed>>
  BY <1>2, <1>4 DEF Listen, FailsIf
<1>6. /\ start'[t].sm = start[t].sm /\ start'[t].pc = "mode" /\ start'[t].x = start[t].x
      /\ \A u \in Starters : u # t => start'[u] = start[u]
  BY <1>5, PcTo DEF PCs, SocketInv
<1>7. \A r \in Sockets : listener'[r] = IF r = entry THEN "open" ELSE listener[r]
  BY <1>4, <1>5, Ranges, ListenerTo DEF SocketInv
<1>a. \A u \in Starters : (Attached(u)' <=> Attached(u)) /\ (Creates(u)' <=> Creates(u))
  BY <1>1, <1>6 DEF Creates, Attached
<1>8. \A y \in Procs : ~Holds(y)'
  BY <1>1, <1>4, <1>5, <1>6 DEF Holds, Attached
<1>9. Holders' = {} /\ Holders = {}
  BY <1>4, <1>8 DEF Holders
<1>10. \A u \in Starters : start'[u].pc # "listen"
  BY <1>1, <1>3, <1>6 DEF OneCall, At
<1>11. OneCall'
  BY <1>1, <1>3, <1>5, <1>6 DEF OneCall, At
<1>12. Counted'
  <2>1. \A u \in Starters : start'[u].sm = start[u].sm
    BY <1>6
  <2>2. \A y \in Procs : st'[y] # "RUNNING"
    BY <1>8 DEF Holds
  <2>3. QED
    BY <1>3, <1>5, <1>8, <1>9, <1>a, <2>1, <2>2 DEF Counted
<1>13. Listening'
  BY <1>3, <1>4, <1>5, <1>7, <1>a, <1>10, Ranges DEF Listening
<1>14. QED
  BY <1>11, <1>12, <1>13 DEF OrderlyInv

(* A step of a Start that does not touch the managers, the states or who is
   attached *)
LEMMA MoveOrderly ==
    ASSUME SocketInv, OneCall, Counted, Listening, NEW t \in Starters, NEW label \in PCs,
           Goto(t, label), start[t].pc \notin {"idle", "lookup", "listen"},
           label \notin {"idle", "lookup", "listen"},
           start[t].pc \in {"recheck", "spawn"} <=> label \in {"recheck", "spawn"},
           UNCHANGED <<st, fd, entry, stop, loop, refCount, listener>>
    PROVE  OrderlyInv'
<1>1. /\ start'[t].sm = start[t].sm /\ start'[t].pc = label /\ start'[t].x = start[t].x
      /\ \A u \in Starters : u # t => start'[u] = start[u]
  BY PcTo DEF SocketInv
<1>2. \A u \in Starters : /\ start'[u].x = start[u].x /\ start'[u].sm = start[u].sm
                          /\ start'[u].pc = "idle" <=> start[u].pc = "idle"
                          /\ start'[u].pc = "listen" <=> start[u].pc = "listen"
  BY <1>1
<1>3. \A u \in Starters : (Attached(u)' <=> Attached(u)) /\ (Creates(u)' <=> Creates(u))
  <2>1. start[t].pc \in PCs
    BY Ranges
  <2>2. (Attached(t)' <=> Attached(t)) /\ (Creates(t)' <=> Creates(t))
    BY <1>1, <2>1 DEF Attached, Creates, PCs
  <2>3. \A u \in Starters : u # t => (Attached(u)' <=> Attached(u)) /\ (Creates(u)' <=> Creates(u))
    BY <1>1 DEF Attached, Creates
  <2>4. QED
    BY <2>2, <2>3
<1>4. \A y \in Procs : Holds(y)' <=> Holds(y)
  BY <1>2, <1>3 DEF Holds
<1>5. Holders' = Holders
  BY <1>4 DEF Holders
<1>6. OneCall'
  BY <1>2 DEF OneCall, At
<1>7. Counted'
  BY <1>2, <1>3, <1>4, <1>5 DEF Counted
<1>8. Listening'
  BY <1>2, <1>3, <1>5 DEF Listening
<1>9. QED
  BY <1>6, <1>7, <1>8 DEF OrderlyInv

LEMMA ApplyModeOrderly ==
    ASSUME SocketInv, OrderlyInv, NEW t \in Starters, ApplyMode(t), orderly' PROVE OrderlyInv'
<1>1. start[t].pc = "mode"
  BY DEF ApplyMode, At
<1>2. orderly /\ ~Fault
  BY DEF ApplyMode, Fault
<1>3. OneCall /\ Counted /\ Listening
  BY <1>2 DEF OrderlyInv
<1>4. /\ Goto(t, "attach")
      /\ UNCHANGED <<st, fd, entry, stop, loop, sockets, refCount, listener, closed>>
  BY <1>2 DEF ApplyMode
<1>5. QED
  BY <1>1, <1>3, <1>4, MoveOrderly DEF PCs

LEMMA AttachNewOrderly ==
    ASSUME SocketInv, OrderlyInv, NEW t \in Starters, AttachNew(t), orderly' PROVE OrderlyInv'
<1>0. orderly /\ start[t].pc = "attach"
  BY DEF AttachNew, At, Attach, FailsIf, Fault
<1>1. OneCall /\ Counted /\ Listening
  BY <1>0 DEF OrderlyInv
<1>2. start[t].sm = entry /\ entry # 0
  BY <1>0, <1>1 DEF Counted, Creates
<1>3. QED
  BY <1>0, <1>1, <1>2, AttachOrderly DEF AttachNew

LEMMA RecheckOrderly ==
    ASSUME SocketInv, OrderlyInv, NEW t \in Starters, Recheck(t), orderly' PROVE OrderlyInv'
<1>1. OneCall /\ Counted /\ Listening /\ start[t].pc = "recheck"
  BY DEF Recheck, OrderlyInv, At
<1>2. st[start[t].x] = "STARTING"
  BY <1>1, Ranges DEF OneCall, At
<1>3. Goto(t, "spawn") /\ UNCHANGED <<st, fd, entry, stop, loop, refCount, listener>>
  BY <1>2 DEF Recheck
<1>4. QED
  BY <1>1, <1>3, MoveOrderly DEF PCs

LEMMA SpawnOrderly ==
    ASSUME SocketInv, OrderlyInv, NEW t \in Starters, Spawn(t), orderly' PROVE OrderlyInv'
<1> DEFINE x == start[t].x
<1>1. start[t].pc = "spawn" /\ x \in Procs
  BY Ranges DEF Spawn, At
<1>2. orderly /\ ~Fault
  BY DEF Spawn, Fault
<1>3. OneCall /\ Counted /\ Listening
  BY <1>2 DEF OrderlyInv
<1>4. st[x] = "STARTING" /\ Attached(t) /\ start[t].sm = entry
  BY <1>1, <1>3 DEF OneCall, At, Attached, Counted
<1>5. /\ st' = [st EXCEPT ![x] = "RUNNING"] /\ Return(t)
      /\ fd' = [fd EXCEPT ![x] = entry]
      /\ UNCHANGED <<entry, stop, loop, refCount, listener>>
  BY <1>2, <1>4 DEF Spawn
<1>6. /\ start'[t].pc = "idle"
      /\ \A u \in Starters : u # t => start'[u] = start[u] /\ start[u].pc = "idle"
  BY <1>1, <1>3, <1>5, IdleTo DEF SocketInv, OneCall, At
<1>7. \A y \in Procs : /\ st'[y] = IF y = x THEN "RUNNING" ELSE st[y]
                       /\ fd'[y] = IF y = x THEN entry ELSE fd[y]
  BY <1>1, <1>5, StTo DEF States, SocketInv, TypeOK
<1>a. \A u \in Starters : start'[u].pc = "idle" /\ ~Creates(u)' /\ ~Attached(u)' /\ ~Creates(u)
  BY <1>1, <1>6 DEF Creates, Attached
<1>8. \A y \in Procs : Holds(y)' <=> Holds(y)
  <2>1. \A u \in Starters : Attached(u) => u = t
    BY <1>6 DEF Attached
  <2>2. \A y \in Procs : Holds(y) <=> st[y] = "RUNNING" \/ stop[y] # 0 \/ y = x
    BY <1>4, <2>1 DEF Holds
  <2>3. \A y \in Procs : Holds(y)' <=> st'[y] = "RUNNING" \/ stop[y] # 0
    BY <1>5, <1>a DEF Holds
  <2>4. QED
    BY <1>1, <1>7, <2>2, <2>3
<1>9. Holders' = Holders
  BY <1>8 DEF Holders
<1>10. OneCall'
  <2>1. \A y \in Procs : stop[y] = 0
    BY <1>1, <1>3 DEF OneCall, At
  <2>2. \A y \in Procs : st'[y] \in {"STOPPED", "RUNNING"}
    <3>1. \A y \in Procs : st[y] = "STARTING" => y = x
      BY <1>3, <1>6 DEF OneCall, At
    <3>2. QED
      BY <1>3, <1>7, <3>1 DEF OneCall
  <2>3. QED
    BY <1>3, <1>5, <1>a, <2>1, <2>2 DEF OneCall, At
<1>11. Counted'
  BY <1>3, <1>5, <1>7, <1>8, <1>9, <1>a DEF Counted
<1>12. Listening'
  BY <1>1, <1>3, <1>5, <1>6, <1>9, <1>a DEF Listening
<1>13. QED
  BY <1>10, <1>11, <1>12 DEF OrderlyInv

LEMMA StopCallOrderly ==
    ASSUME SocketInv, OrderlyInv, NEW x \in Procs, StopCall(x), orderly' PROVE OrderlyInv'
<1>1. OneCall /\ Counted /\ Listening /\ Quiet /\ st[x] = "RUNNING"
  BY DEF StopCall, OrderlyInv
<1>2. /\ \A u \in Starters : start[u].pc = "idle" /\ ~Creates(u) /\ ~Attached(u)
      /\ \A y \in Procs : stop[y] = 0
  BY <1>1 DEF Quiet, At, Creates, Attached
<1>3. /\ st' = [st EXCEPT ![x] = "STOPPED"] /\ stop' = [stop EXCEPT ![x] = stop[x] + 1]
      /\ UNCHANGED <<fd, start, loop, entry, refCount, listener>>
  BY DEF StopCall
<1>4. \A y \in Procs : st'[y] = IF y = x THEN "STOPPED" ELSE st[y]
  BY <1>3, StTo DEF States, SocketInv
<1>5. \A y \in Procs : stop'[y] = IF y = x THEN 1 ELSE 0
  BY <1>2, <1>3 DEF TypeOK, SocketInv
<1>a. \A u \in Starters : start'[u].pc = "idle" /\ ~Creates(u)' /\ ~Attached(u)'
  BY <1>2, <1>3 DEF Creates, Attached
<1>6. \A y \in Procs : Holds(y)' <=> Holds(y)
  BY <1>1, <1>2, <1>4, <1>5, <1>a DEF Holds
<1>7. Holders' = Holders
  BY <1>6 DEF Holders
<1>8. OneCall'
  BY <1>1, <1>2, <1>3, <1>4, <1>5, <1>a DEF OneCall, At
<1>9. Counted'
  BY <1>1, <1>3, <1>4, <1>6, <1>7, <1>a DEF Counted
<1>10. Listening'
  BY <1>1, <1>2, <1>3, <1>a, <1>7 DEF Listening
<1>11. QED
  BY <1>8, <1>9, <1>10 DEF OrderlyInv

(* the last one out closes the socket, and no other *)
LEMMA StopDetachOrderly ==
    ASSUME SocketInv, OrderlyInv, NEW x \in Procs, StopDetach(x), orderly' PROVE OrderlyInv'
<1>1. OneCall /\ Counted /\ Listening /\ stop[x] # 0 /\ DetachEntry
  BY DEF StopDetach, OrderlyInv
<1>2. /\ stop' = [stop EXCEPT ![x] = stop[x] - 1]
      /\ UNCHANGED <<st, fd, start, loop>>
  BY DEF StopDetach
<1>3. /\ Holds(x) /\ st[x] = "STOPPED" /\ stop[x] = 1 /\ entry # 0
      /\ \A u \in Starters : start[u].pc = "idle"
  BY <1>1 DEF OneCall, Counted, Holds, At
<1>4. /\ x \in Holders
      /\ \A u \in Starters : ~Creates(u) /\ ~Attached(u) /\ ~Creates(u)' /\ ~Attached(u)'
      /\ \A u \in Starters : start'[u].pc = "idle"
  BY <1>2, <1>3 DEF Holders, Creates, Attached
<1>5. refCount[entry] = Cardinality(Holders) /\ refCount[entry] # 0 /\ refCount[entry] \in Nat
  BY <1>1, <1>3, <1>4, HoldersFinite DEF Counted
<1>6. \A y \in Procs : stop'[y] = 0 /\ (y # x => stop[y] = 0)
  BY <1>1, <1>2, <1>3 DEF TypeOK, SocketInv, OneCall
<1>7. \A y \in Procs : Holds(y)' <=> Holds(y) /\ y # x
  BY <1>2, <1>3, <1>4, <1>6 DEF Holds
<1>8. Holders' = Holders \ {x}
  BY <1>7 DEF Holders
<1>9. Cardinality(Holders') = refCount[entry] - 1
  BY <1>4, <1>5, <1>8, HoldersFinite, FS_RemoveElement
<1>10. OneCall'
  BY <1>1, <1>2, <1>3, <1>4, <1>6 DEF OneCall, At
<1>12. CASE refCount[entry] = 1
  <2>1. Holders' = {}
    <3>1. IsFiniteSet(Holders') /\ Cardinality(Holders') = 0
      BY <1>8, <1>9, <1>12, HoldersFinite, FS_RemoveElement
    <3>2. QED
      BY <3>1, FS_EmptySet
  <2>2. \A y \in Procs : ~Holds(y)' /\ st'[y] # "RUNNING"
    BY <2>1 DEF Holders, Holds
  <2>3. entry' = 0 /\ listener' = [listener EXCEPT ![entry] = "nil"]
    BY <1>1, <1>3, <1>12 DEF DetachEntry
  <2>4. Counted'
    BY <1>4, <2>1, <2>2, <2>3 DEF Counted
  <2>5. \A s \in Sockets : listener'[s] = "nil"
    BY <1>1, <1>3, <2>3, Ranges, ListenerTo DEF Listening, SocketInv
  <2>6. Listening'
    BY <1>4, <2>3, <2>5 DEF Listening
  <2>7. QED
    BY <1>10, <2>4, <2>6 DEF OrderlyInv
<1>13. CASE refCount[entry] # 1
  <2>1. /\ refCount' = [refCount EXCEPT ![entry] = refCount[entry] - 1]
        /\ UNCHANGED <<entry, listener>>
    BY <1>1, <1>3, <1>5, <1>13 DEF DetachEntry
  <2>2. refCount'[entry] = refCount[entry] - 1
    BY <1>3, <2>1, Ranges DEF TypeOK, SocketInv
  <2>3. Holders' # {}
    <3>1. Cardinality(Holders') # 0
      BY <1>5, <1>9, <1>13
    <3>2. QED
      BY <3>1, FS_EmptySet
  <2>4. Counted'
    BY <1>1, <1>2, <1>4, <1>7, <1>9, <2>1, <2>2 DEF Counted
  <2>5. Listening'
    BY <1>1, <1>2, <1>3, <1>4, <2>1, <2>3 DEF Listening
  <2>6. QED
    BY <1>10, <2>4, <2>5 DEF OrderlyInv
<1>14. QED
  BY <1>12, <1>13

(* An exit is a failure, and without one the loop finds nothing to do. *)
LEMMA OthersOrderly ==
    ASSUME SocketInv, OrderlyInv, NEW x \in Procs, orderly',
           ChildExit(x) \/ LoopTick(x) \/ LoopDetach(x)
    PROVE  OrderlyInv'
<1>1. ~ChildExit(x)
  BY DEF ChildExit, Fault
<1>2. CASE LoopTick(x) \/ LoopDetach(x)
  <2>1. OneCall
    BY <1>2 DEF LoopTick, LoopDetach, OrderlyInv
  <2>2. QED
    BY <1>2, <2>1 DEF OneCall, LoopTick, LoopDetach
<1>3. QED
  BY <1>1, <1>2

LEMMA NextOrderly == SocketInv /\ OrderlyInv /\ [Next]_vars => OrderlyInv'
<1> SUFFICES ASSUME SocketInv, OrderlyInv, [Next]_vars, orderly' PROVE OrderlyInv'
  BY DEF OrderlyInv
<1>1. CASE UNCHANGED vars
  <2>1. OneCall /\ Counted /\ Listening
    BY <1>1 DEF vars, OrderlyInv
  <2>2. \A u \in Starters : (Attached(u)' <=> Attached(u)) /\ (Creates(u)' <=> Creates(u))
    BY <1>1 DEF vars, Attached, Creates
  <2>3. \A y \in Procs : Holds(y)' <=> Holds(y)
    BY <1>1, <2>2 DEF vars, Holds
  <2>4. Holders' = Holders
    BY <2>3 DEF Holders
  <2>5. OneCall'
    BY <1>1, <2>1 DEF vars, OneCall, At
  <2>6. Counted' /\ Listening'
    BY <1>1, <2>1, <2>2, <2>3, <2>4 DEF vars, Counted, Listening
  <2>7. QED
    BY <2>5, <2>6 DEF OrderlyInv
<1>2. CASE Next
  BY <1>2, StartCallOrderly, LookupOrderly, ListenOrderly, ApplyModeOrderly,
     AttachNewOrderly, RecheckOrderly, SpawnOrderly, StopCallOrderly,
     StopDetachOrderly, OthersOrderly DEF Next
<1>3. QED
  BY <1>1, <1>2

(* "The socket outlives individual child processes and is closed only when the
   last child exits": any number of processes, started and stopped one after
   the other with nothing failing, share one socket that listens while one of
   them runs and is closed when all have stopped. *)
THEOREM OrderlySocketLife == Spec => []OrderlyLife
<1>1. SocketInv /\ OrderlyInv => OrderlyLife
  <2> SUFFICES ASSUME SocketInv, OneCall, Counted, Listening
               PROVE  SocketWhileRunning /\ ClosedWhenAllStopped
    BY DEF OrderlyInv, OrderlyLife
  <2>1. SocketWhileRunning
    <3> SUFFICES ASSUME NEW x \in Procs, st[x] = "RUNNING" PROVE listener[fd[x]] = "open"
      BY DEF SocketWhileRunning
    <3>1. entry # 0 /\ fd[x] = entry /\ Holders # {}
      BY DEF Counted, Holds, Holders
    <3>2. \A t \in Starters : start[t].pc # "listen"
      BY <3>1 DEF Counted, Creates
    <3>3. QED
      BY <3>1, <3>2 DEF Listening
  <2>2. ClosedWhenAllStopped
    <3> SUFFICES ASSUME Quiet, \A x \in Procs : st[x] \in {"STOPPED", "FATAL"}
                 PROVE  \A s \in Sockets : listener[s] = "nil"
      BY DEF ClosedWhenAllStopped
    <3>1. /\ \A t \in Starters : ~Creates(t) /\ ~Attached(t)
          /\ \A x \in Procs : stop[x] = 0
      BY DEF Quiet, At, Attached, Creates
    <3>2. \A x \in Procs : ~Holds(x)
      BY <3>1 DEF Holds
    <3>3. entry = 0
      BY <3>1, <3>2 DEF Listening, Holders
    <3>4. QED
      BY <3>3, Ranges DEF Listening
  <2>3. QED
    BY <2>1, <2>2
<1>2. QED
  BY <1>1, InitSafe, NextSafe, InitOrderly, NextOrderly, PTL DEF Spec
=============================================================================
