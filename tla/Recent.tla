------------------------------- MODULE Recent -------------------------------
(***************************************************************************)
(* What the event log and the resource history promise their readers: the  *)
(* most recent Capacity values, oldest first.                              *)
(***************************************************************************)
EXTENDS Naturals, Sequences

CONSTANTS Values, Capacity

VARIABLE recent

Init == recent = <<>>

Push(v) ==
    recent' = Append(IF Len(recent) < Capacity THEN recent ELSE Tail(recent), v)

Next == \E v \in Values : Push(v)

Spec == Init /\ [][Next]_recent
=============================================================================
