--------------------------- MODULE EventLogProofs ---------------------------
(***************************************************************************)
(* Proofs about modules RingBuffer and EventLog.                           *)
(*                                                                         *)
(* The ring buffer implements Recent, for every capacity and every type of *)
(* element.                                                                *)
(*                                                                         *)
(* What the broker sends is what the ring buffer holds: the inductive      *)
(* invariant says which numbers are in the buffer (Logged), that nobody    *)
(* holds an event that was not pushed (PushedFirst), and, per client, that *)
(* an event is seen, missed or still on its way (NoGap itself is           *)
(* inductive).                                                             *)
(***************************************************************************)
EXTENDS EventLog, TLAPS

-----------------------------------------------------------------------------
(* The ring buffer *)

(* The indices, as numbers *)
LEMMA IndexRange ==
  /\ 0 \in Index
  /\ \A q \in Index : q \in Nat /\ q < Capacity
  /\ \A q \in Nat : q < Capacity => q \in Index
  BY CapacityAssumption DEF Index

(* The only modulus the code takes is of a number below twice the capacity. *)
LEMMA WrapOnce ==
  ASSUME NEW k \in Nat, k < 2 * Capacity
  PROVE  k % Capacity = IF k < Capacity THEN k ELSE k - Capacity
  BY CapacityAssumption

(* Where snapshotAll finds value i of a full buffer, and what a step of the
   write position does to it. *)
Slot(q, i) == (q + i - 1) % Capacity

LEMMA SlotValue ==
  ASSUME NEW q \in Index, NEW i \in 1 .. Capacity
  PROVE  /\ Slot(q, i) = IF q + i - 1 < Capacity THEN q + i - 1 ELSE q + i - 1 - Capacity
         /\ Slot(q, i) \in Index
<1>1. q \in Nat /\ q < Capacity
  BY IndexRange
<1>2. q + i - 1 \in Nat /\ q + i - 1 < 2 * Capacity
  BY <1>1, CapacityAssumption
<1>3. Slot(q, i) = IF q + i - 1 < Capacity THEN q + i - 1 ELSE q + i - 1 - Capacity
  <2> DEFINE k == q + i - 1
  <2>1. k \in Nat /\ k < 2 * Capacity
    BY <1>2
  <2> HIDE DEF k
  <2>2. k % Capacity = IF k < Capacity THEN k ELSE k - Capacity
    BY <2>1, WrapOnce
  <2>3. QED
    BY <1>1, <2>2, CapacityAssumption DEF k, Slot
<1>4. QED
  BY <1>1, <1>3, IndexRange, CapacityAssumption

LEMMA NextIndex ==
  ASSUME NEW q \in Index
  PROVE  /\ (q + 1) % Capacity \in Index
         /\ (q + 1) % Capacity = IF q + 1 = Capacity THEN 0 ELSE q + 1
<1>1. q \in Nat /\ q < Capacity
  BY IndexRange
<1>2. (q + 1) % Capacity = IF q + 1 = Capacity THEN 0 ELSE q + 1
  BY <1>1, WrapOnce, CapacityAssumption
<1>3. QED
  BY <1>1, <1>2, IndexRange, CapacityAssumption

LEMMA SlotShift ==
  ASSUME NEW q \in Index, NEW i \in 1 .. Capacity
  PROVE  /\ i < Capacity => /\ Slot((q + 1) % Capacity, i) = Slot(q, i + 1)
                            /\ Slot(q, i + 1) # q
         /\ i = Capacity => Slot((q + 1) % Capacity, i) = q
<1>1. q \in Nat /\ q < Capacity
  BY IndexRange
<1>2. CASE i < Capacity
  <2>1. i + 1 \in 1 .. Capacity
    BY <1>2, CapacityAssumption
  <2>2. Slot(q, i + 1) = IF q + i < Capacity THEN q + i ELSE q + i - Capacity
    BY <1>1, <2>1, SlotValue, CapacityAssumption
  <2>3. CASE q + 1 = Capacity
    <3>1. (q + 1) % Capacity = 0
      BY <2>3, NextIndex
    <3>2. Slot(0, i) = i - 1
      BY <1>2, SlotValue, IndexRange, CapacityAssumption
    <3>3. QED
      BY <1>1, <1>2, <2>2, <2>3, <3>1, <3>2, CapacityAssumption
  <2>4. CASE q + 1 # Capacity
    <3>1. (q + 1) % Capacity = q + 1 /\ q + 1 \in Index
      BY <1>1, <2>4, NextIndex, IndexRange, CapacityAssumption
    <3>2. Slot(q + 1, i) = IF q + i < Capacity THEN q + i ELSE q + i - Capacity
      BY <1>1, <3>1, SlotValue, CapacityAssumption
    <3>3. QED
      BY <1>1, <1>2, <2>2, <3>1, <3>2, CapacityAssumption
  <2>5. QED
    BY <2>3, <2>4
<1>3. CASE i = Capacity
  <2>1. CASE q + 1 = Capacity
    <3>1. (q + 1) % Capacity = 0
      BY <2>1, NextIndex
    <3>2. QED
      BY <1>1, <1>3, <2>1, <3>1, SlotValue, IndexRange, CapacityAssumption
  <2>2. CASE q + 1 # Capacity
    <3>1. (q + 1) % Capacity = q + 1 /\ q + 1 \in Index
      BY <1>1, <2>2, NextIndex, IndexRange, CapacityAssumption
    <3>2. Slot(q + 1, i) = q
      BY <1>1, <1>3, <3>1, SlotValue, CapacityAssumption
    <3>3. QED
      BY <1>3, <3>1, <3>2
  <2>3. QED
    BY <2>1, <2>2
<1>4. QED
  BY <1>2, <1>3, CapacityAssumption

-----------------------------------------------------------------------------
LEMMA InitType == Init => TypeOK
  BY IndexRange DEF Init, TypeOK

(* Every Push keeps the types. *)
LEMMA PushType == ASSUME TypeOK, NEW v \in Values, Push(v) PROVE TypeOK'
  BY NextIndex DEF TypeOK, Push

LEMMA NextType == TypeOK /\ [Next]_vars => TypeOK'
<1> SUFFICES ASSUME TypeOK, [Next]_vars PROVE TypeOK'
  OBVIOUS
<1>1. CASE Next
  BY <1>1, PushType DEF Next
<1>2. CASE UNCHANGED vars
  BY <1>2 DEF TypeOK, vars
<1>3. QED
  BY <1>1, <1>2

(* The array, the write position and the flag stay within their types: Push
   never writes outside the array. *)
THEOREM RingTypeCorrect == Spec => []TypeOK
  BY InitType, NextType, PTL DEF Spec

-----------------------------------------------------------------------------
(* Push on a buffer that has room appends to the snapshot. *)
LEMMA PushAppends ==
  ASSUME TypeOK, NEW v \in Values, Push(v), ~full
  PROVE  SnapshotAll' = Append(SnapshotAll, v)
<1>1. pos \in Nat /\ pos < Capacity /\ pos \in Index
  BY IndexRange DEF TypeOK
<1>2. SnapshotAll = [i \in 1 .. pos |-> buf[i - 1]]
  BY DEF SnapshotAll, Size
<1>3. \A i \in 1 .. pos + 1 : buf'[i - 1] = IF i <= pos THEN buf[i - 1] ELSE v
  <2> TAKE i \in 1 .. pos + 1
  <2>1. i - 1 \in Index
    BY <1>1, IndexRange, CapacityAssumption
  <2>2. QED
    BY <1>1, <2>1 DEF Push, TypeOK
<1>4. SnapshotAll' = [i \in 1 .. pos + 1 |-> buf'[i - 1]]
  <2>1. CASE pos + 1 = Capacity
    <3>1. pos' = 0 /\ full'
      BY <1>1, <2>1, NextIndex DEF Push
    <3>2. SnapshotAll' = [i \in 1 .. Capacity |-> buf'[Slot(0, i)]]
      BY <3>1 DEF SnapshotAll, Size, Slot
    <3>3. \A i \in 1 .. Capacity : Slot(0, i) = i - 1
      BY SlotValue, IndexRange, CapacityAssumption
    <3>4. QED
      BY <2>1, <3>2, <3>3
  <2>2. CASE pos + 1 # Capacity
    <3>1. pos' = pos + 1 /\ pos' # 0
      BY <1>1, <2>2, NextIndex DEF Push
    <3>2. full' = FALSE
      BY <3>1 DEF Push
    <3>3. QED
      BY <3>1, <3>2 DEF SnapshotAll, Size
  <2>3. QED
    BY <2>1, <2>2
<1>5. SnapshotAll' = [i \in 1 .. pos + 1 |-> IF i <= pos THEN buf[i - 1] ELSE v]
  BY <1>3, <1>4
<1>6. \A i \in 1 .. pos : buf[i - 1] \in Values \cup {Zero}
  BY <1>1, IndexRange, CapacityAssumption DEF TypeOK
<1>7. SnapshotAll \in Seq(Values \cup {Zero}) /\ Len(SnapshotAll) = pos
  BY <1>1, <1>2, <1>6
<1>8. QED
  BY <1>1, <1>2, <1>5, <1>7

(* Push on a full buffer drops the oldest value. *)
LEMMA PushShifts ==
  ASSUME TypeOK, NEW v \in Values, Push(v), full
  PROVE  SnapshotAll' = Append(Tail(SnapshotAll), v)
<1>1. pos \in Index /\ pos' = (pos + 1) % Capacity /\ full'
  BY DEF TypeOK, Push
<1>2. SnapshotAll = [i \in 1 .. Capacity |-> buf[Slot(pos, i)]]
  BY DEF SnapshotAll, Size, Slot
<1>3. SnapshotAll' = [i \in 1 .. Capacity |-> buf'[Slot(pos', i)]]
  BY <1>1 DEF SnapshotAll, Size, Slot
<1>4. \A i \in 1 .. Capacity :
        buf'[Slot(pos', i)] = IF i < Capacity THEN buf[Slot(pos, i + 1)] ELSE v
  <2> TAKE i \in 1 .. Capacity
  <2>1. Slot(pos', i) \in Index
    BY <1>1, NextIndex, SlotValue
  <2>2. CASE i < Capacity
    BY <1>1, <2>1, <2>2, SlotShift DEF Push, TypeOK
  <2>3. CASE i = Capacity
    BY <1>1, <2>1, <2>3, SlotShift DEF Push, TypeOK
  <2>4. QED
    BY <2>2, <2>3, CapacityAssumption
<1>5. SnapshotAll' = [i \in 1 .. Capacity |->
                        IF i < Capacity THEN buf[Slot(pos, i + 1)] ELSE v]
  BY <1>3, <1>4
<1>6. \A i \in 1 .. Capacity : buf[Slot(pos, i)] \in Values \cup {Zero}
  BY <1>1, SlotValue DEF TypeOK
<1>7. SnapshotAll \in Seq(Values \cup {Zero}) /\ Len(SnapshotAll) = Capacity
  BY <1>2, <1>6, CapacityAssumption
<1>8. /\ Tail(SnapshotAll) = [i \in 1 .. Capacity - 1 |-> buf[Slot(pos, i + 1)]]
      /\ Tail(SnapshotAll) \in Seq(Values \cup {Zero})
  BY <1>2, <1>7, CapacityAssumption
<1>9. Len(Tail(SnapshotAll)) = Capacity - 1
  BY <1>7, CapacityAssumption
<1> DEFINE rest == Tail(SnapshotAll)
<1>10. /\ rest = [i \in 1 .. Capacity - 1 |-> buf[Slot(pos, i + 1)]]
       /\ rest \in Seq(Values \cup {Zero}) /\ Len(rest) = Capacity - 1
  BY <1>8, <1>9
<1> HIDE DEF rest
<1>11. Append(rest, v) = [i \in 1 .. Capacity |-> IF i < Capacity THEN rest[i] ELSE v]
  BY <1>10, CapacityAssumption
<1>12. \A i \in 1 .. Capacity :
         (IF i < Capacity THEN rest[i] ELSE v)
           = IF i < Capacity THEN buf[Slot(pos, i + 1)] ELSE v
  BY <1>10, CapacityAssumption
<1>13. Append(rest, v) = SnapshotAll'
  BY <1>5, <1>11, <1>12
<1>14. QED
  BY <1>13 DEF rest

(* Every step of the ring buffer is a step of the bounded history it stands
   for: the wrap-around of Push and the index arithmetic of snapshotAll never
   lose, repeat or reorder a value. *)
THEOREM RingKeepsHistory == Spec => KeepsHistory
<1>1. Init => History!Init
  BY CapacityAssumption DEF Init, History!Init, SnapshotAll, Size
<1>2. TypeOK /\ [Next]_vars => [History!Next]_SnapshotAll
  <2> SUFFICES ASSUME TypeOK, [Next]_vars PROVE History!Next \/ SnapshotAll' = SnapshotAll
    OBVIOUS
  <2>1. CASE Next
    <3>1. PICK v \in Values : Push(v)
      BY <2>1 DEF Next
    <3>2. History!Push(v)
      <4>1. CASE full
        <5>1. Len(SnapshotAll) = Capacity
          BY <4>1, CapacityAssumption DEF SnapshotAll, Size
        <5>2. QED
          BY <3>1, <4>1, <5>1, PushShifts, CapacityAssumption DEF History!Push
      <4>2. CASE ~full
        <5>1. SnapshotAll = [i \in 1 .. pos |-> buf[i - 1]] /\ pos \in Nat /\ pos < Capacity
          BY <4>2, IndexRange DEF SnapshotAll, Size, TypeOK
        <5>2. Len(SnapshotAll) = pos
          BY <5>1
        <5>3. QED
          BY <3>1, <4>2, <5>1, <5>2, PushAppends DEF History!Push
      <4>3. QED
        BY <4>1, <4>2
    <3>3. QED
      BY <3>2 DEF History!Next
  <2>2. CASE UNCHANGED vars
    BY <2>2 DEF vars, SnapshotAll, Size
  <2>3. QED
    BY <2>1, <2>2
<1>3. QED
  BY <1>1, <1>2, InitType, NextType, PTL DEF Spec, KeepsHistory, History!Spec

-----------------------------------------------------------------------------
(* The two readers' indices, for the last m of n values. *)
LEMMA LastSlot ==
  ASSUME TypeOK, NEW m \in 0 .. Size, NEW i \in 1 .. m
  PROVE  /\ Size - m + i \in 1 .. Size
         /\ buf[(pos - m + i - 1 + Capacity) % Capacity] = SnapshotAll[Size - m + i]
<1>1. pos \in Nat /\ pos < Capacity /\ Size \in Nat /\ Size <= Capacity
  BY IndexRange, CapacityAssumption DEF TypeOK, Size
<1>2. Size - m + i \in 1 .. Size
  BY <1>1
<1>3. CASE full
  <2>1. Size = Capacity
    BY <1>3 DEF Size
  <2>2. SnapshotAll[Size - m + i] = buf[(pos + (Size - m + i) - 1) % Capacity]
    BY <1>2, <1>3 DEF SnapshotAll
  <2>3. pos + (Size - m + i) - 1 = pos - m + i - 1 + Capacity
    BY <1>1, <2>1
  <2>4. QED
    BY <1>2, <2>2, <2>3
<1>4. CASE ~full
  <2>1. Size = pos
    BY <1>4 DEF Size
  <2>2. SnapshotAll[Size - m + i] = buf[(Size - m + i) - 1]
    BY <1>2, <1>4 DEF SnapshotAll
  <2> DEFINE k == pos - m + i - 1 + Capacity
  <2>3. k \in Nat /\ k >= Capacity /\ k < 2 * Capacity /\ k - Capacity = (Size - m + i) - 1
    BY <1>1, <2>1, CapacityAssumption
  <2> HIDE DEF k
  <2>4. k % Capacity = k - Capacity
    BY <2>3, WrapOnce, CapacityAssumption
  <2>5. buf[k % Capacity] = SnapshotAll[Size - m + i]
    BY <2>2, <2>3, <2>4
  <2>6. QED
    BY <1>2, <2>5 DEF k
<1>5. QED
  BY <1>3, <1>4

(* A limited snapshot is the end of the full one: GET /events?limit=n shows
   the n newest events, in every state and for every limit. *)
THEOREM RingLimitedIsSuffix == Spec => []LimitedIsSuffix
<1>1. TypeOK => LimitedIsSuffix
  <2> SUFFICES ASSUME TypeOK, NEW limit \in 1 .. Capacity + 1
               PROVE  LET all == SnapshotAll
                          n   == IF limit > Len(all) THEN Len(all) ELSE limit
                      IN  Snapshot(limit) = SubSeq(all, Len(all) - n + 1, Len(all))
    BY DEF LimitedIsSuffix
  <2>1. Size \in Nat
    BY IndexRange, CapacityAssumption DEF TypeOK, Size
  <2>2. Len(SnapshotAll) = Size
    BY <2>1 DEF SnapshotAll
  <2> DEFINE m == IF limit > Size THEN Size ELSE limit
  <2>3. m \in 0 .. Size
    BY <2>1
  <2>4. Snapshot(limit) = [i \in 1 .. m |-> buf[(pos - m + i - 1 + Capacity) % Capacity]]
    BY CapacityAssumption DEF Snapshot, SnapshotLast
  <2> HIDE DEF m
  <2>5. Snapshot(limit) = [i \in 1 .. m |-> SnapshotAll[Size - m + i]]
    BY <2>3, <2>4, LastSlot
  <2>6. SubSeq(SnapshotAll, Size - m + 1, Size) = [i \in 1 .. m |-> SnapshotAll[Size - m + i]]
    BY <2>1, <2>3
  <2>7. QED
    BY <2>2, <2>5, <2>6 DEF m
<1>2. QED
  BY <1>1, InitType, NextType, PTL DEF Spec

-----------------------------------------------------------------------------
(* The event log *)

Number == 1 .. MaxEvents

LogTypeOK ==
    /\ TypeOK
    /\ rec \in [Recorders -> 0 .. MaxEvents]
    /\ recorded \in 0 .. MaxEvents
    /\ clients \subseteq Clients
    /\ chan \in [Clients -> Seq(Number)]
    /\ since \in [Clients -> 0 .. MaxEvents]
    /\ got \in [Clients -> SUBSET Number]
    /\ missed \in [Clients -> SUBSET Number]

(* The buffer holds the newest events, in the order of their numbers. *)
Logged ==
    /\ ~full => pos = recorded
    /\ \A i \in 1 .. Size : SnapshotAll[i] = recorded - Size + i

(* Nobody broadcasts or sees an event before it is in the buffer. *)
PushedFirst ==
    /\ \A r \in Recorders : rec[r] <= recorded
    /\ \A c \in Clients : \A e \in Seen(c) : e <= recorded

-----------------------------------------------------------------------------
(* What a channel holds *)

LEMMA InChannel ==
    ASSUME NEW s \in Seq(Number)
    PROVE  /\ \A e : e \in ToSet(s) <=> \E i \in 1 .. Len(s) : s[i] = e
           /\ ToSet(s) \subseteq Number
  BY DEF ToSet

LEMMA SendAdds ==
    ASSUME NEW s \in Seq(Number), NEW e \in Number
    PROVE  Append(s, e) \in Seq(Number) /\ ToSet(Append(s, e)) = ToSet(s) \cup {e}
<1>1. Append(s, e) \in Seq(Number) /\ Len(Append(s, e)) = Len(s) + 1 /\ Len(s) \in Nat
  OBVIOUS
<1>2. \A i \in 1 .. Len(s) + 1 : Append(s, e)[i] = IF i <= Len(s) THEN s[i] ELSE e
  OBVIOUS
<1>3. ASSUME NEW x PROVE x \in ToSet(Append(s, e)) <=> x \in ToSet(s) \cup {e}
  <2>1. x \in ToSet(Append(s, e)) <=> \E i \in 1 .. Len(s) + 1 : Append(s, e)[i] = x
    BY <1>1, InChannel
  <2>2. x \in ToSet(s) <=> \E i \in 1 .. Len(s) : s[i] = x
    BY InChannel
  <2>3. QED
    BY <1>1, <1>2, <2>1, <2>2
<1>4. QED
  BY <1>1, <1>3

LEMMA ReceiveTakes ==
    ASSUME NEW s \in Seq(Number), s # <<>>
    PROVE  /\ Tail(s) \in Seq(Number) /\ Head(s) \in Number
           /\ ToSet(s) = ToSet(Tail(s)) \cup {Head(s)}
<1>1. /\ Tail(s) \in Seq(Number) /\ Head(s) \in Number /\ Head(s) = s[1]
      /\ Len(s) \in Nat /\ Len(s) >= 1 /\ Len(Tail(s)) = Len(s) - 1
  OBVIOUS
<1>2. \A i \in 1 .. Len(s) - 1 : Tail(s)[i] = s[i + 1]
  OBVIOUS
<1>3. ASSUME NEW x PROVE x \in ToSet(s) <=> x \in ToSet(Tail(s)) \cup {Head(s)}
  <2>1. x \in ToSet(s) <=> \E i \in 1 .. Len(s) : s[i] = x
    BY InChannel
  <2>a. \A e : e \in ToSet(Tail(s)) <=> \E i \in 1 .. Len(Tail(s)) : Tail(s)[i] = e
    BY <1>1, InChannel
  <2>2. x \in ToSet(Tail(s)) <=> \E i \in 1 .. Len(s) - 1 : s[i + 1] = x
    BY <1>1, <1>2, <2>a
  <2>3. ASSUME NEW i \in 1 .. Len(s), s[i] = x
        PROVE  x = s[1] \/ \E j \in 1 .. Len(s) - 1 : s[j + 1] = x
    <3>1. CASE i = 1
      BY <2>3, <3>1
    <3>2. CASE i # 1
      <4>1. i - 1 \in 1 .. Len(s) - 1 /\ (i - 1) + 1 = i
        BY <1>1, <3>2
      <4>2. QED
        BY <2>3, <4>1
    <3>3. QED
      BY <3>1, <3>2
  <2>4. ASSUME NEW j \in 1 .. Len(s) - 1 PROVE j + 1 \in 1 .. Len(s)
    BY <1>1
  <2>5. 1 \in 1 .. Len(s)
    BY <1>1
  <2>6. QED
    BY <1>1, <2>1, <2>2, <2>3, <2>4, <2>5
<1>4. QED
  BY <1>1, <1>3

-----------------------------------------------------------------------------
(* Types *)

LEMMA LogInitType == LogInit => LogTypeOK
<1> SUFFICES ASSUME LogInit PROVE LogTypeOK
  OBVIOUS
<1>1. TypeOK
  BY InitType DEF LogInit
<1>2. 0 \in 0 .. MaxEvents /\ <<>> \in Seq(Number)
  BY EventLogAssumption
<1>3. QED
  BY <1>1, <1>2 DEF LogInit, LogTypeOK

LEMMA Held ==
    ASSUME LogTypeOK, NEW r \in Recorders, rec[r] # 0
    PROVE  rec[r] \in Number /\ rec[r] \in Nat
  BY EventLogAssumption DEF LogTypeOK, Number

LEMMA RecordType ==
    ASSUME LogTypeOK, NEW r \in Recorders, RecordEvent(r)
    PROVE  LogTypeOK' /\ recorded + 1 \in Number /\ recorded + 1 \in Values
<1>1. recorded + 1 \in Number /\ recorded + 1 \in Values /\ recorded + 1 \in 0 .. MaxEvents
  BY EventLogAssumption DEF LogTypeOK, RecordEvent, Number
<1>2. TypeOK'
  BY <1>1, PushType DEF LogTypeOK, RecordEvent
<1>3. rec' \in [Recorders -> 0 .. MaxEvents] /\ recorded' \in 0 .. MaxEvents
  BY <1>1 DEF LogTypeOK, RecordEvent
<1>4. QED
  BY <1>1, <1>2, <1>3 DEF LogTypeOK, RecordEvent

LEMMA BroadcastType ==
    ASSUME LogTypeOK, NEW r \in Recorders, Broadcast(r)
    PROVE  LogTypeOK'
<1>1. rec[r] \in Number
  BY Held DEF Broadcast
<1>2. chan' \in [Clients -> Seq(Number)]
  <2>1. \A c \in Clients : chan[c] \in Seq(Number) /\ Append(chan[c], rec[r]) \in Seq(Number)
    BY <1>1, SendAdds DEF LogTypeOK
  <2>2. QED
    BY <2>1 DEF Broadcast
<1>3. missed' \in [Clients -> SUBSET Number]
  <2>1. \A c \in Clients : missed[c] \in SUBSET Number /\ missed[c] \cup {rec[r]} \in SUBSET Number
    BY <1>1 DEF LogTypeOK
  <2>2. QED
    BY <2>1 DEF Broadcast
<1>4. rec' \in [Recorders -> 0 .. MaxEvents]
  BY EventLogAssumption DEF LogTypeOK, Broadcast
<1>5. TypeOK'
  BY DEF LogTypeOK, Broadcast, TypeOK, vars
<1>6. QED
  BY <1>2, <1>3, <1>4, <1>5 DEF LogTypeOK, Broadcast

LEMMA ClientType ==
    ASSUME LogTypeOK, NEW c \in Clients, Subscribe(c) \/ Stream(c) \/ Unsubscribe(c)
    PROVE  LogTypeOK'
<1>0. TypeOK' /\ UNCHANGED <<rec, recorded>>
  BY DEF LogTypeOK, Subscribe, Stream, Unsubscribe, TypeOK, vars
<1>1. CASE Subscribe(c) \/ Unsubscribe(c)
  <2>1. <<>> \in Seq(Number) /\ {} \in SUBSET Number /\ 0 \in 0 .. MaxEvents
    BY EventLogAssumption
  <2>2. clients' \subseteq Clients
    BY <1>1 DEF Subscribe, Unsubscribe, LogTypeOK
  <2>3. chan' \in [Clients -> Seq(Number)]
    BY <1>1, <2>1 DEF Subscribe, Unsubscribe, LogTypeOK
  <2>4. since' \in [Clients -> 0 .. MaxEvents]
    BY <1>1, <2>1 DEF Subscribe, Unsubscribe, LogTypeOK
  <2>5. got' \in [Clients -> SUBSET Number] /\ missed' \in [Clients -> SUBSET Number]
    BY <1>1, <2>1 DEF Subscribe, Unsubscribe, LogTypeOK
  <2>6. QED
    BY <1>0, <2>2, <2>3, <2>4, <2>5 DEF LogTypeOK
<1>2. CASE Stream(c)
  <2>1. Tail(chan[c]) \in Seq(Number) /\ Head(chan[c]) \in Number
    BY <1>2, ReceiveTakes DEF Stream, LogTypeOK
  <2>2. chan' \in [Clients -> Seq(Number)]
    BY <1>2, <2>1 DEF Stream, LogTypeOK
  <2>3. got[c] \cup {Head(chan[c])} \in SUBSET Number
    BY <2>1 DEF LogTypeOK
  <2>4. got' \in [Clients -> SUBSET Number]
    BY <1>2, <2>3 DEF Stream, LogTypeOK
  <2>5. QED
    BY <1>0, <1>2, <2>2, <2>4 DEF Stream, LogTypeOK
<1>3. QED
  BY <1>1, <1>2

-----------------------------------------------------------------------------
(* What an action does to the events a client sees *)

LEMMA BroadcastSees ==
    ASSUME LogTypeOK, NEW r \in Recorders, Broadcast(r), NEW c \in Clients
    PROVE  /\ Seen(c) \subseteq Seen(c)' /\ missed[c] \subseteq missed'[c]
           /\ Seen(c)' \subseteq Seen(c) \cup {rec[r]}
           /\ c \in clients => rec[r] \in Seen(c)' \cup missed'[c]
<1>0. rec[r] \in Number /\ chan[c] \in Seq(Number) /\ got'[c] = got[c]
  BY Held DEF Broadcast, LogTypeOK
<1>1. \/ /\ ToSet(chan'[c]) = ToSet(chan[c]) \cup {rec[r]} /\ missed'[c] = missed[c]
      \/ /\ chan'[c] = chan[c] /\ missed'[c] = missed[c] /\ c \notin clients
      \/ /\ chan'[c] = chan[c] /\ missed'[c] = missed[c] \cup {rec[r]}
  <2>1. CASE c \notin clients
    BY <2>1 DEF Broadcast
  <2>2. CASE c \in clients /\ Len(chan[c]) >= ChanSize
    BY <2>2 DEF Broadcast
  <2>3. CASE c \in clients /\ ~(Len(chan[c]) >= ChanSize)
    <3>1. chan'[c] = Append(chan[c], rec[r]) /\ missed'[c] = missed[c]
      BY <2>3 DEF Broadcast
    <3>2. QED
      BY <1>0, <3>1, SendAdds
  <2>4. QED
    BY <2>1, <2>2, <2>3
<1>2. QED
  BY <1>0, <1>1 DEF Seen

LEMMA StreamSees ==
    ASSUME LogTypeOK, NEW c \in Clients, Stream(c), NEW d \in Clients
    PROVE  Seen(d)' = Seen(d)
<1>1. CASE d = c
  <2>1. /\ got'[d] = got[d] \cup {Head(chan[d])} /\ chan'[d] = Tail(chan[d])
        /\ chan[d] \in Seq(Number) /\ chan[d] # <<>>
    BY <1>1 DEF Stream, LogTypeOK
  <2>2. ToSet(chan[d]) = ToSet(Tail(chan[d])) \cup {Head(chan[d])}
    BY <2>1, ReceiveTakes
  <2>3. QED
    BY <2>1, <2>2 DEF Seen
<1>2. CASE d # c
  BY <1>2 DEF Stream, LogTypeOK, Seen
<1>3. QED
  BY <1>1, <1>2

(* A client that comes or goes has seen nothing. *)
LEMMA ComesAndGoes ==
    ASSUME LogTypeOK, NEW c \in Clients, Subscribe(c) \/ Unsubscribe(c)
    PROVE  /\ Seen(c)' = {}
           /\ \A d \in Clients : d # c => /\ Seen(d)' = Seen(d) /\ missed'[d] = missed[d]
                                          /\ since'[d] = since[d]
                                          /\ d \in clients' <=> d \in clients
           /\ c \in clients' => since'[c] = recorded
           /\ UNCHANGED <<vars, rec, recorded>>
<1>1. got'[c] = {} /\ chan'[c] = <<>>
  BY DEF Subscribe, Unsubscribe, LogTypeOK
<1>2. ToSet(<<>>) = {}
  BY DEF ToSet
<1>3. Seen(c)' = {}
  BY <1>1, <1>2 DEF Seen
<1>4. \A d \in Clients : d # c => /\ Seen(d)' = Seen(d) /\ missed'[d] = missed[d]
                                  /\ since'[d] = since[d]
                                  /\ d \in clients' <=> d \in clients
  BY DEF Subscribe, Unsubscribe, LogTypeOK, Seen
<1>5. c \in clients' => since'[c] = recorded
  BY DEF Subscribe, Unsubscribe, LogTypeOK
<1>6. QED
  BY <1>3, <1>4, <1>5 DEF Subscribe, Unsubscribe

-----------------------------------------------------------------------------
(* The buffer holds the newest events. *)

LEMMA Sizes ==
    ASSUME LogTypeOK
    PROVE  /\ Size \in Nat /\ recorded \in Nat /\ Capacity \in Nat /\ pos \in Nat
           /\ SnapshotAll \in Seq(Values \cup {Zero}) /\ Len(SnapshotAll) = Size
<1>1. pos \in Nat /\ Capacity \in Nat /\ Size \in Nat
  BY IndexRange, CapacityAssumption DEF LogTypeOK, TypeOK, Size
<1>2. recorded \in Nat
  BY EventLogAssumption DEF LogTypeOK
<1>3. ASSUME NEW i \in 1 .. Size
      PROVE  (IF full THEN buf[(pos + i - 1) % Capacity] ELSE buf[i - 1]) \in Values \cup {Zero}
  <2>1. CASE full
    <3>1. i \in 1 .. Capacity /\ pos \in Index
      BY <2>1 DEF Size, LogTypeOK, TypeOK
    <3>2. Slot(pos, i) \in Index
      BY <3>1, SlotValue
    <3>3. QED
      BY <2>1, <3>2 DEF Slot, LogTypeOK, TypeOK
  <2>2. CASE ~full
    <3>1. i - 1 \in Nat /\ i - 1 < Capacity
      BY <1>1, <2>2, IndexRange DEF Size, LogTypeOK, TypeOK
    <3>2. QED
      BY <2>2, <3>1, IndexRange DEF LogTypeOK, TypeOK
  <2>3. QED
    BY <2>1, <2>2
<1>4. QED
  BY <1>1, <1>2, <1>3 DEF SnapshotAll

LEMMA RecordLogs ==
    ASSUME LogTypeOK, Logged, NEW r \in Recorders, RecordEvent(r)
    PROVE  Logged'
<1>0. /\ Push(recorded + 1) /\ recorded' = recorded + 1 /\ TypeOK
      /\ recorded + 1 \in Values /\ LogTypeOK'
  BY RecordType DEF RecordEvent, LogTypeOK
<1>1. /\ Size \in Nat /\ recorded \in Nat /\ Capacity \in Nat /\ pos \in Nat /\ Capacity > 0
      /\ SnapshotAll \in Seq(Values \cup {Zero}) /\ Len(SnapshotAll) = Size
  BY <1>0, Sizes, CapacityAssumption
<1>a. Len(SnapshotAll') = Size'
  <2>1. Size' \in Nat
    BY <1>0, IndexRange, CapacityAssumption DEF LogTypeOK, TypeOK, Size
  <2>2. QED
    BY <2>1 DEF SnapshotAll
<1>2. \A i \in 1 .. Size : SnapshotAll[i] = recorded - Size + i
  BY DEF Logged
<1>3. CASE ~full
  <2>1. SnapshotAll' = Append(SnapshotAll, recorded + 1)
    BY <1>0, <1>3, PushAppends
  <2>2. Size' = Size + 1
    BY <1>1, <1>a, <2>1
  <2>3. \A i \in 1 .. Size + 1 : SnapshotAll'[i] = IF i <= Size THEN SnapshotAll[i] ELSE recorded + 1
    BY <1>1, <2>1
  <2>4. ASSUME NEW i \in 1 .. Size' PROVE SnapshotAll'[i] = recorded' - Size' + i
    <3>1. CASE i <= Size
      <4>1. SnapshotAll'[i] = recorded - Size + i
        BY <1>1, <1>2, <2>2, <2>3, <3>1
      <4>2. QED
        BY <1>0, <1>1, <2>2, <4>1
    <3>2. CASE ~(i <= Size)
      <4>1. i = Size + 1 /\ SnapshotAll'[i] = recorded + 1
        BY <1>1, <2>2, <2>3, <3>2
      <4>2. QED
        BY <1>0, <1>1, <2>2, <4>1
    <3>3. QED
      BY <3>1, <3>2
  <2>5. ~full' => pos' = recorded'
    <3>1. full' \/ pos' # 0
      BY <1>0 DEF Push
    <3>2. pos' = (pos + 1) % Capacity /\ pos \in Index
      BY <1>0 DEF Push, TypeOK
    <3>3. pos' # 0 => pos' = pos + 1
      BY <3>2, NextIndex
    <3>4. ~full' => pos' # 0
      BY <1>0 DEF Push
    <3>5. QED
      BY <1>0, <1>3, <3>3, <3>4 DEF Logged
  <2>6. QED
    BY <2>4, <2>5 DEF Logged
<1>4. CASE full
  <2>1. SnapshotAll' = Append(Tail(SnapshotAll), recorded + 1)
    BY <1>0, <1>4, PushShifts
  <2>2. full' /\ Size' = Size /\ Size = Capacity
    BY <1>0, <1>4 DEF Push, Size
  <2>3. \A i \in 1 .. Size : SnapshotAll'[i] = IF i < Size THEN SnapshotAll[i + 1] ELSE recorded + 1
    BY <1>1, <2>1, <2>2
  <2>4. ASSUME NEW i \in 1 .. Size' PROVE SnapshotAll'[i] = recorded' - Size' + i
    <3>1. CASE i < Size
      <4>1. i + 1 \in 1 .. Size /\ SnapshotAll'[i] = SnapshotAll[i + 1]
        BY <1>1, <2>2, <2>3, <3>1
      <4>2. SnapshotAll'[i] = recorded - Size + (i + 1)
        BY <1>2, <4>1
      <4>3. QED
        BY <1>0, <1>1, <2>2, <4>2
    <3>2. CASE ~(i < Size)
      <4>1. i = Size /\ SnapshotAll'[i] = recorded + 1
        BY <1>1, <2>2, <2>3, <3>2
      <4>2. QED
        BY <1>0, <1>1, <2>2, <4>1
    <3>3. QED
      BY <3>1, <3>2
  <2>5. QED
    BY <2>2, <2>4 DEF Logged
<1>5. QED
  BY <1>3, <1>4

-----------------------------------------------------------------------------
(* The invariant *)

LogInv == LogTypeOK /\ Logged /\ PushedFirst /\ NoGap

LEMMA LogInitInv == LogInit => LogInv
<1> SUFFICES ASSUME LogInit PROVE LogInv
  OBVIOUS
<1>1. LogTypeOK
  BY LogInitType
<1>2. Logged
  <2>1. Size = 0 /\ pos = 0 /\ recorded = 0
    BY DEF LogInit, Init, Size
  <2>2. QED
    BY <2>1 DEF Logged
<1>3. PushedFirst
  <2>1. ToSet(<<>>) = {}
    BY DEF ToSet
  <2>2. \A c \in Clients : Seen(c) = {}
    BY <2>1 DEF LogInit, Seen
  <2>3. QED
    BY <2>2 DEF PushedFirst, LogInit
<1>4. NoGap
  BY DEF NoGap, LogInit
<1>5. QED
  BY <1>1, <1>2, <1>3, <1>4 DEF LogInv

LEMMA RecordInv == ASSUME LogInv, NEW r \in Recorders, RecordEvent(r) PROVE LogInv'
<1>0. /\ LogTypeOK /\ Logged /\ PushedFirst /\ NoGap /\ recorded \in Nat
      /\ recorded' = recorded + 1 /\ rec[r] = 0
      /\ UNCHANGED <<clients, chan, since, got, missed>>
  BY EventLogAssumption DEF LogInv, RecordEvent, LogTypeOK
<1>1. LogTypeOK' /\ Logged'
  BY <1>0, RecordType, RecordLogs
<1>2. rec'[r] = recorded + 1 /\ \A q \in Recorders : q # r => rec'[q] = rec[q]
  BY <1>0 DEF RecordEvent, LogTypeOK
<1>3. PushedFirst'
  <2>1. ASSUME NEW q \in Recorders PROVE rec'[q] <= recorded'
    <3>1. rec[q] \in Nat /\ rec[q] <= recorded
      BY <1>0, EventLogAssumption DEF LogTypeOK, PushedFirst
    <3>2. QED
      BY <1>0, <1>2, <3>1
  <2>2. ASSUME NEW c \in Clients, NEW e \in Seen(c)' PROVE e <= recorded'
    <3>1. e \in Seen(c)
      BY <1>0, <2>2 DEF Seen
    <3>2. e \in Nat
      <4>1. chan[c] \in Seq(Number) /\ got[c] \subseteq Number
        BY <1>0 DEF LogTypeOK
      <4>2. e \in Number
        BY <3>1, <4>1, InChannel DEF Seen
      <4>3. QED
        BY <4>2 DEF Number
    <3>3. e <= recorded
      BY <1>0, <3>1 DEF PushedFirst
    <3>4. QED
      BY <1>0, <3>2, <3>3
  <2>3. QED
    BY <2>1, <2>2 DEF PushedFirst
<1>4. NoGap'
  <2> SUFFICES ASSUME NEW c \in clients, NEW e \in since[c] + 1 .. recorded + 1
               PROVE  e \in Seen(c)' \cup missed'[c] \/ \E q \in Recorders : rec'[q] = e
    BY <1>0 DEF NoGap
  <2>1. since[c] \in Nat /\ e \in Nat /\ e >= 1
    BY <1>0, EventLogAssumption DEF LogTypeOK
  <2>2. CASE e = recorded + 1
    BY <1>2, <2>2
  <2>3. CASE e # recorded + 1
    <3>1. e \in since[c] + 1 .. recorded
      BY <1>0, <2>1, <2>3
    <3>2. e \in Seen(c) \cup missed[c] \/ \E q \in Recorders : rec[q] = e
      BY <1>0, <3>1 DEF NoGap
    <3>3. \A q \in Recorders : rec[q] = e => rec'[q] = e
      BY <1>0, <1>2, <2>1
    <3>4. QED
      BY <1>0, <3>2, <3>3 DEF Seen
  <2>4. QED
    BY <2>2, <2>3
<1>5. QED
  BY <1>1, <1>3, <1>4 DEF LogInv

(* Nothing that happens to the clients changes the buffer. *)
LEMMA LoggedFrame == ASSUME Logged, UNCHANGED <<vars, recorded>> PROVE Logged'
<1>1. UNCHANGED <<buf, pos, full, recorded>>
  BY DEF vars
<1>2. Size' = Size /\ SnapshotAll' = SnapshotAll
  BY <1>1 DEF Size, SnapshotAll
<1>3. QED
  BY <1>1, <1>2 DEF Logged

LEMMA BroadcastInv == ASSUME LogInv, NEW r \in Recorders, Broadcast(r) PROVE LogInv'
<1>0. /\ LogTypeOK /\ Logged /\ PushedFirst /\ NoGap /\ rec[r] # 0
      /\ UNCHANGED <<vars, recorded, clients, since, got>>
  BY DEF LogInv, Broadcast
<1>1. LogTypeOK' /\ Logged'
  BY <1>0, BroadcastType, LoggedFrame
<1>2. rec'[r] = 0 /\ \A q \in Recorders : q # r => rec'[q] = rec[q]
  BY <1>0 DEF Broadcast, LogTypeOK
<1>3. PushedFirst'
  <2>1. ASSUME NEW q \in Recorders PROVE rec'[q] <= recorded'
    <3>1. rec[q] <= recorded /\ 0 <= recorded
      BY <1>0, EventLogAssumption DEF PushedFirst, LogTypeOK
    <3>2. QED
      BY <1>0, <1>2, <3>1
  <2>2. ASSUME NEW c \in Clients, NEW e \in Seen(c)' PROVE e <= recorded'
    <3>1. e \in Seen(c) \cup {rec[r]}
      BY <1>0, <2>2, BroadcastSees
    <3>2. QED
      BY <1>0, <3>1 DEF PushedFirst
  <2>3. QED
    BY <2>1, <2>2 DEF PushedFirst
<1>4. NoGap'
  <2> SUFFICES ASSUME NEW c \in clients, NEW e \in since[c] + 1 .. recorded
               PROVE  e \in Seen(c)' \cup missed'[c] \/ \E q \in Recorders : rec'[q] = e
    BY <1>0 DEF NoGap
  <2>1. /\ Seen(c) \subseteq Seen(c)' /\ missed[c] \subseteq missed'[c]
        /\ rec[r] \in Seen(c)' \cup missed'[c]
    BY <1>0, BroadcastSees DEF LogTypeOK
  <2>2. e \in Seen(c) \cup missed[c] \/ \E q \in Recorders : rec[q] = e
    BY <1>0 DEF NoGap
  <2>3. QED
    BY <1>2, <2>1, <2>2
<1>5. QED
  BY <1>1, <1>3, <1>4 DEF LogInv

LEMMA ClientInv ==
    ASSUME LogInv, NEW c \in Clients, Subscribe(c) \/ Stream(c) \/ Unsubscribe(c)
    PROVE  LogInv'
<1>0. /\ LogTypeOK /\ Logged /\ PushedFirst /\ NoGap /\ recorded \in Nat
      /\ UNCHANGED <<vars, rec, recorded>>
  BY EventLogAssumption DEF LogInv, LogTypeOK, Subscribe, Stream, Unsubscribe
<1>1. LogTypeOK' /\ Logged'
  BY <1>0, ClientType, LoggedFrame
<1>2. CASE Stream(c)
  <2>1. UNCHANGED <<clients, since, missed>> /\ \A d \in Clients : Seen(d)' = Seen(d)
    BY <1>0, <1>2, StreamSees DEF Stream
  <2>2. PushedFirst'
    BY <1>0, <2>1 DEF PushedFirst
  <2>3. NoGap'
    BY <1>0, <2>1 DEF NoGap, LogTypeOK
  <2>4. QED
    BY <1>1, <2>2, <2>3 DEF LogInv
<1>3. CASE Subscribe(c) \/ Unsubscribe(c)
  <2>1. /\ Seen(c)' = {}
        /\ \A d \in Clients : d # c => /\ Seen(d)' = Seen(d) /\ missed'[d] = missed[d]
                                       /\ since'[d] = since[d]
                                       /\ d \in clients' <=> d \in clients
        /\ c \in clients' => since'[c] = recorded
    BY <1>0, <1>3, ComesAndGoes
  <2>2. PushedFirst'
    BY <1>0, <2>1 DEF PushedFirst
  <2>3. NoGap'
    <3> SUFFICES ASSUME NEW d \in clients', NEW e \in since'[d] + 1 .. recorded
                 PROVE  e \in Seen(d)' \cup missed'[d] \/ \E q \in Recorders : rec'[q] = e
      BY <1>0 DEF NoGap
    <3>1. d \in Clients
      BY <1>1 DEF LogTypeOK
    <3>2. d # c
      BY <1>0, <2>1
    <3>3. d \in clients /\ e \in since[d] + 1 .. recorded
      BY <2>1, <3>1, <3>2
    <3>4. QED
      BY <1>0, <2>1, <3>1, <3>2, <3>3 DEF NoGap
  <2>4. QED
    BY <1>1, <2>2, <2>3 DEF LogInv
<1>4. QED
  BY <1>2, <1>3

LEMMA LogNextInv == LogInv /\ [LogNext]_logVars => LogInv'
<1> SUFFICES ASSUME LogInv, [LogNext]_logVars PROVE LogInv'
  OBVIOUS
<1>1. CASE LogNext
  BY <1>1, RecordInv, BroadcastInv, ClientInv DEF LogNext
<1>2. CASE UNCHANGED logVars
  <2>1. UNCHANGED <<vars, rec, recorded, clients, chan, since, got, missed>>
    BY <1>2 DEF logVars
  <2>2. LogTypeOK'
    BY <2>1 DEF LogInv, LogTypeOK, TypeOK, vars
  <2>3. Logged'
    BY <2>1, LoggedFrame DEF LogInv
  <2>4. PushedFirst' /\ NoGap'
    BY <2>1 DEF LogInv, PushedFirst, NoGap, Seen
  <2>5. QED
    BY <2>2, <2>3, <2>4 DEF LogInv
<1>3. QED
  BY <1>1, <1>2

LEMMA LogAlways == LogSpec => []LogInv
  BY LogInitInv, LogNextInv, PTL DEF LogSpec

(* Whatever the recorders and the other clients do, an event recorded after a
   client subscribed reaches it, found its own channel full, or is about to be
   broadcast. *)
THEOREM NoEventBetween == LogSpec => []NoGap
<1>1. LogInv => NoGap
  BY DEF LogInv
<1>2. QED
  BY <1>1, LogAlways, PTL

(* RecordEvent pushes before it broadcasts: the history a client asks for after
   the stream showed it an event has the event, or Capacity newer ones. *)
THEOREM StreamFollowsLog == LogSpec => []StreamedIsLogged
<1>1. LogInv => StreamedIsLogged
  <2> SUFFICES ASSUME LogInv, NEW c \in clients, NEW e \in Seen(c),
                      ~(recorded - e >= Capacity)
               PROVE  e \in ToSet(SnapshotAll)
    BY DEF StreamedIsLogged
  <2>0. /\ LogTypeOK /\ Logged /\ PushedFirst /\ c \in Clients
    BY DEF LogInv, LogTypeOK
  <2>1. /\ Size \in Nat /\ recorded \in Nat /\ Capacity \in Nat /\ pos \in Nat
        /\ DOMAIN SnapshotAll = 1 .. Size
    BY <2>0, Sizes DEF SnapshotAll
  <2>2. e \in Nat /\ e >= 1 /\ e <= recorded
    <3>1. chan[c] \in Seq(Number) /\ got[c] \subseteq Number
      BY <2>0 DEF LogTypeOK
    <3>2. e \in Number
      BY <3>1, InChannel DEF Seen
    <3>3. QED
      BY <2>0, <3>2 DEF Number, PushedFirst
  <2>3. Size = Capacity \/ Size = recorded
    BY <2>0 DEF Size, Logged
  <2>4. e - recorded + Size \in 1 .. Size
    BY <2>1, <2>2, <2>3
  <2>5. SnapshotAll[e - recorded + Size] = e
    <3>1. SnapshotAll[e - recorded + Size] = recorded - Size + (e - recorded + Size)
      BY <2>0, <2>4 DEF Logged
    <3>2. QED
      BY <2>1, <2>2, <3>1
  <2>6. QED
    BY <2>1, <2>4, <2>5 DEF ToSet
<1>2. QED
  BY <1>1, LogAlways, PTL
=============================================================================
