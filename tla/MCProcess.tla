------------------------------ MODULE MCProcess ------------------------------
(* process.go by itself: the callers of its API and no monitor loop. *)
EXTENDS Process, TLC

Symmetry == Permutations(Operators)
==============================================================================
