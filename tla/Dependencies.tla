---------------------------- MODULE Dependencies ----------------------------
(***************************************************************************)
(* From the configuration to the order in which StartAll, StopAll and the  *)
(* group operations visit the processes (internal/process/process.go).     *)
(* Config validates the programs and expands them.  topologicalSort and    *)
(* topologicalSortForGroup are Kahn's algorithm over the DependsOn lists;  *)
(* one action is one turn of its loop.  Go's map iteration and sort.Slice  *)
(* leave the order of equals open, and so does the model.                  *)
(***************************************************************************)
EXTENDS Config

CONSTANTS
    Expansions,     \* how programs are expanded
    MaxExpanded,    \* bound: programs that are not single
    Priorities      \* values of Config.Priority

ASSUME DependenciesAssumption ==
    /\ Expansions \subseteq {"single", "plain", "numbered"}
    /\ Priorities \subseteq Int

VARIABLES
    expansion,  \* numprocs and process_name of each program
    kind,       \* "all" processes or those of a "group" are sorted
    priority,   \* Config.Priority
    group,      \* the programs of that group
    inDegree,   \* dependencies of each node that are not visited yet
    queue,      \* nodes whose dependencies are all visited
    order       \* the result

vars == <<configVars, expansion, kind, priority, group, inDegree, queue, order>>

loaded == <<dependsOn, color, stack, cycle, expansion, kind, priority, group>>

-----------------------------------------------------------------------------
(* pm.Processes, and what each process has from its program *)
Processes == UNION {Instances(p, expansion[p]) : p \in Programs}

DependsOn(n) == dependsOn[ProgramOf(n)] \X {0}

Priority(n) == priority[ProgramOf(n)]

(* the nodes of the graph: topologicalSort adds every name that is depended on;
   the group's sort stays within the group *)
Nodes ==
    IF kind = "all"
    THEN Processes \cup UNION {DependsOn(n) : n \in Processes}
    ELSE {n \in Processes : ProgramOf(n) \in group}

Deps(n) == IF n \in Processes THEN DependsOn(n) \cap Nodes ELSE {}

(* sortByPriority; a name without a process compares with nothing *)
SortedByPriority(s) ==
    ToSet(s) \subseteq Processes =>
        \A i, j \in DOMAIN s : i < j => Priority(s[i]) <= Priority(s[j])

(* the group's sort keeps its queue in the order of the names *)
NameBefore(m, n) == m[1] < n[1] \/ (m[1] = n[1] /\ m[2] < n[2])

SortedByName(s) == \A i, j \in DOMAIN s : i < j => NameBefore(s[i], s[j])

Arrangements(set) == {s \in [1 .. Cardinality(set) -> set] : ToSet(s) = set}

Init ==
    /\ ConfigInit
    /\ expansion = [p \in Programs |-> "single"]
    /\ kind = "all"
    /\ priority = [p \in Programs |-> CHOOSE x \in Priorities : TRUE]
    /\ group = {}
    /\ inDegree = <<>> /\ queue = <<>> /\ order = <<>>

(* The processes are added and a sort begins.  What validation does not look at is
   chosen here: the expansions and, as far as the sort looks at them, priorities or
   the group.  (All priorities equal leave every order open that others do.) *)
Begin ==
    /\ pc = "loaded" /\ pc' = "sort"
    /\ expansion' \in [Programs -> Expansions]
    /\ Cardinality({p \in Programs : expansion'[p] # "single"}) <= MaxExpanded
    /\ \/ kind' = "all" /\ priority' \in [Programs -> Priorities] /\ UNCHANGED group
       \/ kind' = "group" /\ group' \in SUBSET Programs /\ UNCHANGED priority
    /\ UNCHANGED <<dependsOn, color, stack, cycle, order>>
    /\ inDegree' = [n \in Nodes' |-> Cardinality(Deps(n)')]
    /\ queue' \in Arrangements({n \in Nodes' : Deps(n)' = {}})
    /\ IF kind' = "all" THEN SortedByPriority(queue)' ELSE SortedByName(queue)'

(* variants: a node is ready with its first dependency; the queue is replaced *)
Visit_Eager ==
    LET waiting == {n \in Nodes : Head(queue) \in Deps(n)}
        ready   == waiting \ ToSet(order \o queue)
    IN
    /\ pc = "sort" /\ queue # <<>>
    /\ order' = Append(order, Head(queue))
    /\ inDegree' = [n \in Nodes |-> IF n \in waiting THEN inDegree[n] - 1 ELSE inDegree[n]]
    /\ \E batch \in Arrangements(ready) : queue' = Tail(queue) \o batch
    /\ UNCHANGED <<loaded, pc>>

Visit_Replaces ==
    LET waiting == {n \in Nodes : Head(queue) \in Deps(n)} IN
    /\ pc = "sort" /\ queue # <<>>
    /\ order' = Append(order, Head(queue))
    /\ inDegree' = [n \in Nodes |-> IF n \in waiting THEN inDegree[n] - 1 ELSE inDegree[n]]
    /\ queue' \in Arrangements({n \in waiting : inDegree[n] = 1})
    /\ UNCHANGED <<loaded, pc>>

(* one node leaves the queue, and those that waited only for it enter *)
Visit ==
    LET current == Head(queue)
        waiting == {n \in Nodes : current \in Deps(n)}
        ready   == {n \in waiting : inDegree[n] = 1}
    IN
    /\ pc = "sort" /\ queue # <<>>
    /\ order' = Append(order, current)
    /\ inDegree' = [n \in Nodes |-> IF n \in waiting THEN inDegree[n] - 1 ELSE inDegree[n]]
    /\ \E batch \in Arrangements(ready) :
         LET all == Tail(queue) \o batch IN
         IF kind = "all" THEN SortedByPriority(batch) /\ queue' = all
         ELSE queue' \in Arrangements(ToSet(all)) /\ SortedByName(queue')
    /\ UNCHANGED <<loaded, pc>>

(* topologicalSort compares lengths, and its callers fall back to the map's own
   order when it reports a cycle *)
FinishAll ==
    /\ pc = "sort" /\ queue = <<>> /\ kind = "all"
    /\ IF Len(order) = Cardinality(Processes)
       THEN pc' = "sorted" /\ UNCHANGED order
       ELSE pc' = "fallback" /\ order' \in Arrangements(Processes)
    /\ UNCHANGED <<loaded, inDegree, queue>>

(* variant: members on a cycle are left out *)
FinishGroup_Drops ==
    /\ pc = "sort" /\ queue = <<>> /\ kind = "group"
    /\ pc' = "sorted"
    /\ UNCHANGED <<loaded, inDegree, queue, order>>

(* topologicalSortForGroup appends the members it did not reach *)
FinishGroup ==
    /\ pc = "sort" /\ queue = <<>> /\ kind = "group"
    /\ \E rest \in Arrangements(Nodes \ ToSet(order)) :
         /\ order' = order \o rest
         /\ pc' = IF rest = <<>> THEN "sorted" ELSE "fallback"
    /\ UNCHANGED <<loaded, inDegree, queue>>

Load == Validate /\ UNCHANGED <<expansion, kind, priority, group, inDegree, queue, order>>

Next == Load \/ Begin \/ Visit \/ FinishAll \/ FinishGroup

Spec == Init /\ [][Next]_vars

-----------------------------------------------------------------------------
(* Properties *)

(* the processes that the caller's loop starts, stops or restarts *)
Visited == ToSet(order) \cap Processes

Members == IF kind = "all" THEN Processes ELSE Nodes

(* names that processes depend on and no process has *)
Missing == (UNION {DependsOn(n) : n \in Processes}) \ Processes

(* No process is started before one that it depends on, unless the sort gave up
   (and, read backwards, the dependents are stopped first).  Of a group this
   says what depends on what inside it: its sort leaves out dependencies on other
   processes, and on a program whose processes are numbered. *)
DependenciesFirst ==
    pc \in {"sort", "sorted"} => \A i \in DOMAIN order :
        Deps(order[i]) \subseteq {order[j] : j \in 1 .. i - 1}

(* A configuration that validation has nothing to say about is started in order: the
   sort gives up on what was reported only, unless a program depends on one whose
   processes are numbered, which validation does not see. *)
ValidatedIsSorted ==
    pc = "fallback" => Warned \/ \E p, q \in Programs :
                                   q \in dependsOn[p] /\ expansion[q] = "numbered"

(* Whatever the dependencies among them are, every process is visited, once. *)
EveryoneVisited ==
    pc \in {"sorted", "fallback"} /\ Missing = {} =>
        Visited = Members /\ IsInjective(order)

(* Without the exceptions: a configuration without warnings is started in order; *)
DependenciesHonoured == pc = "fallback" => Warned

(* every process is visited. *)
NobodySkipped ==
    pc \in {"sorted", "fallback"} => Visited = Members

(* "launch N identical workers": a program with numprocs = N has N processes. *)
AllInstances ==
    pc = "sort" => \A p \in Programs :
        expansion[p] # "single" => Cardinality(Instances(p, expansion[p])) = NumProcs

(* "priority-based tiebreaking": of the nodes that are ready, one of the lowest
   priority number is next. *)
LowestPriorityFirst ==
    [][kind = "all" /\ Visit => \A n \in ToSet(queue) \cap Processes :
          Head(queue) \in Processes => Priority(Head(queue)) <= Priority(n)]_vars
=============================================================================
