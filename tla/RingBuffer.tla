----------------------------- MODULE RingBuffer -----------------------------
(***************************************************************************)
(* internal/process/ringbuffer.go, with the reader of event.go: a circular *)
(* array behind a mutex.  Every operation is one critical section.         *)
(* Definitions with an underscore are faulty variants (see Process).       *)
(***************************************************************************)
EXTENDS Integers, Sequences

CONSTANTS
    Values,     \* what is pushed: events, resource samples
    Zero,       \* the zero value of the element type
    Capacity    \* 500 for events, 60 for resource samples

ASSUME CapacityAssumption == Capacity \in Nat \ {0}

VARIABLES buf, pos, full

vars == <<buf, pos, full>>

Index == 0 .. Capacity - 1      \* Go slices start at 0

TypeOK ==
    /\ buf \in [Index -> Values \cup {Zero}]
    /\ pos \in Index
    /\ full \in BOOLEAN

(* NewRingBuffer *)
Init ==
    /\ buf = [i \in Index |-> Zero]
    /\ pos = 0
    /\ full = FALSE

(* variant: the wrap-around is not remembered *)
Push_NotFull(v) ==
    /\ buf' = [buf EXCEPT ![pos] = v]
    /\ pos' = (pos + 1) % Capacity
    /\ UNCHANGED full

Push(v) ==
    /\ buf' = [buf EXCEPT ![pos] = v]
    /\ pos' = (pos + 1) % Capacity
    /\ full' = (full \/ pos' = 0)

Next == \E v \in Values : Push(v)

Spec == Init /\ [][Next]_vars

-----------------------------------------------------------------------------
(* Len() *)
Size == IF full THEN Capacity ELSE pos

(* snapshotAll() *)
SnapshotAll ==
    [i \in 1 .. Size |-> IF full THEN buf[(pos + i - 1) % Capacity] ELSE buf[i - 1]]

(* variant: does not subtract before it wraps *)
SnapshotLast_FromPos(n) ==
    LET m == IF n > Size THEN Size ELSE n
    IN  [i \in 1 .. m |-> buf[(pos + i - 1) % Capacity]]

(* snapshotLast(n) *)
SnapshotLast(n) ==
    LET m == IF n > Size THEN Size ELSE n
    IN  [i \in 1 .. m |-> buf[(pos - m + i - 1 + Capacity) % Capacity]]

(* EventBuffer.Snapshot(limit) *)
Snapshot(limit) == IF limit <= 0 THEN SnapshotAll ELSE SnapshotLast(limit)

-----------------------------------------------------------------------------
(* The array, read from the oldest slot across its end, is the bounded history
   of Recent: nothing is lost, repeated or reordered when pos wraps around. *)
History == INSTANCE Recent WITH recent <- SnapshotAll

KeepsHistory == History!Spec

(* The two readers compute their indices differently (one only wraps when the
   buffer is full, the other subtracts before it wraps), and agree: a limited
   snapshot is the end of the full one, whatever the limit. *)
LimitedIsSuffix ==
    \A limit \in 1 .. Capacity + 1 :
        LET all == SnapshotAll
            n   == IF limit > Len(all) THEN Len(all) ELSE limit
        IN  Snapshot(limit) = SubSeq(all, Len(all) - n + 1, Len(all))
=============================================================================
