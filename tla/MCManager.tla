----------------------------- MODULE MCManager -----------------------------
(***************************************************************************)
(* Module Manager with programs that depend on each other: "a" depends on  *)
(* itself, which LoadConfig only warns about, and on "b", which one of the *)
(* configurations has and the others have not; "c" depends on nothing.     *)
(* From {a} to the other {a}, the sort visits "b" in place of "a", and the *)
(* supervisor panics; from {a} to {a, b} it adds "b" twice and leaves "a"  *)
(* as it was; when {a} is shut down, it passes "a" over.                   *)
(***************************************************************************)
EXTENDS Manager

MCDeps == [n \in Names |-> [v \in Versions |-> IF n = "a" THEN {"a", "b"} ELSE {}]]

MCBoot == {[n \in {"a"} |-> "v1"], [n \in {"c"} |-> "v1"]}

MCConfigs == {[n \in {"a"} |-> "v2"], [n \in {"a", "b"} |-> "v2"], [n \in {"c"} |-> "v3"]}

(* programs that depend on nothing *)
NoDeps == [n \in Names |-> [v \in Versions |-> {}]]
=============================================================================
