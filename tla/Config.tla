-------------------------------- MODULE Config --------------------------------
(***************************************************************************)
(* internal/config/config.go: ValidateConfig with its depth-first search   *)
(* for cycles of DependsOn, and ExpandProgramConfig, which turns a program *)
(* into processes.  Names of programs are numbers, ordered as their        *)
(* strings are.  The name of a process is a pair: <<p, 0>> is the name of  *)
(* the program p itself, <<p, i>> the i-th that its template makes with a  *)
(* process_num.  Lists of dependencies are sets, taken in any order.       *)
(* Definitions with an underscore are faulty variants (see Process).       *)
(***************************************************************************)
EXTENDS Integers, FiniteSets, SequencesExt

CONSTANTS
    Programs,       \* names of the program and fcgi-program sections
    Fcgi,           \* the fcgi-program sections
    Unknown,        \* names that only occur in DependsOn
    NumProcs        \* numprocs of a program that has more than one process

ASSUME ConfigAssumption ==
    /\ IsFiniteSet(Programs) /\ Programs \subseteq Nat
    /\ Fcgi \subseteq Programs
    /\ IsFiniteSet(Unknown) /\ Unknown \subseteq Nat /\ Unknown \cap Programs = {}
    /\ NumProcs \in Nat \ {0, 1}

Names == Programs \cup Unknown

VARIABLES
    dependsOn,  \* DependsOn of each program
    color,      \* findDependencyCycle: white, gray (on the stack) or black
    stack,      \* its recursion: the program and the dependencies still to look at
    cycle,      \* its result: a cycle was found
    pc          \* "validate", "loaded", "sort", then "sorted" or "fallback"

configVars == <<dependsOn, color, stack, cycle, pc>>

White == [n \in Names |-> "white"]

ConfigInit ==
    /\ dependsOn \in [Programs -> SUBSET Names]
    /\ color = White
    /\ stack = <<>>
    /\ cycle = FALSE
    /\ pc = "validate"

-----------------------------------------------------------------------------
(* findDependencyCycle *)

Frame(n) == [name |-> n, todo |-> dependsOn[n]]

Found(result) ==
    /\ cycle' = result
    /\ pc' = "loaded"
    /\ color' = White /\ stack' = <<>>

(* a program that was not reached yet *)
DfsRoot(n) ==
    /\ pc = "validate" /\ stack = <<>>
    /\ color[n] = "white"
    /\ color' = [color EXCEPT ![n] = "gray"]
    /\ stack' = <<Frame(n)>>
    /\ UNCHANGED <<cycle, pc>>

(* variant: every name that was seen before closes a cycle *)
DfsEdge_NotWhite(dep) ==
    /\ pc = "validate" /\ stack # <<>>
    /\ dep \in Last(stack).todo
    /\ IF color[dep] # "white" THEN Found(TRUE)
       ELSE LET rest == Append(Front(stack), [Last(stack) EXCEPT !.todo = @ \ {dep}]) IN
            /\ color' = [color EXCEPT ![dep] = IF dep \in Programs THEN "gray" ELSE "black"]
            /\ stack' = IF dep \in Programs THEN Append(rest, Frame(dep)) ELSE rest
            /\ UNCHANGED <<cycle, pc>>

(* one dependency of the program on top; a name without a section has none of its own *)
DfsEdge(dep) ==
    LET rest == Append(Front(stack), [Last(stack) EXCEPT !.todo = @ \ {dep}]) IN
    /\ pc = "validate" /\ stack # <<>>
    /\ dep \in Last(stack).todo
    /\ CASE color[dep] = "gray"  -> Found(TRUE)
         [] color[dep] = "white" ->
              /\ color' = [color EXCEPT ![dep] = IF dep \in Programs THEN "gray" ELSE "black"]
              /\ stack' = IF dep \in Programs THEN Append(rest, Frame(dep)) ELSE rest
              /\ UNCHANGED <<cycle, pc>>
         [] color[dep] = "black" -> stack' = rest /\ UNCHANGED <<color, cycle, pc>>

(* the program on top is explored *)
DfsReturn ==
    /\ pc = "validate" /\ stack # <<>>
    /\ Last(stack).todo = {}
    /\ color' = [color EXCEPT ![Last(stack).name] = "black"]
    /\ stack' = Front(stack)
    /\ UNCHANGED <<cycle, pc>>

DfsEnd ==
    /\ pc = "validate" /\ stack = <<>>
    /\ \A n \in Programs : color[n] # "white"
    /\ Found(FALSE)

Validate ==
    /\ \/ \E n \in Programs : DfsRoot(n)
       \/ \E dep \in Names : DfsEdge(dep)
       \/ DfsReturn
       \/ DfsEnd
    /\ UNCHANGED dependsOn

(* what else ValidateConfig says of a program's dependencies: a program may not name
   an fcgi-program, nothing may name what has no section, or itself *)
Warned ==
    \/ cycle
    \/ \E p \in Programs : \E dep \in dependsOn[p] :
          \/ dep = p
          \/ dep \notin (IF p \in Fcgi THEN Programs ELSE Programs \ Fcgi)

-----------------------------------------------------------------------------
(* ExpandProgramConfig and AddProcess: the names that a program adds to the map.  A
   program with numprocs = 1 is "single"; with more, its template has a process_num
   ("numbered"), or it has not, as the default, and every process has the same name. *)
Instances(p, expansion) ==
    IF expansion = "numbered" THEN {p} \X (1 .. NumProcs) ELSE {<<p, 0>>}

ProgramOf(n) == n[1]

-----------------------------------------------------------------------------
(* Programs that wait for each other: the definition of a cycle. *)
CyclicPrograms ==
    \E S \in (SUBSET Programs) \ {{}} : \A p \in S : dependsOn[p] \cap S # {}

(* The search reports a cycle if and only if there is one, in whatever order it meets
   the programs and their dependencies. *)
CycleReported == pc # "validate" => (cycle <=> CyclicPrograms)
=============================================================================
