\* Every dependency graph of three programs, cycles and a missing
\* name included, for all processes and for every group; one program may have two processes.
SPECIFICATION Spec
CONSTANTS
    Programs = {1, 2, 3}
    Fcgi = {}
    Unknown = {9}
    NumProcs = 2
    Expansions = {"single", "numbered"}
    MaxExpanded = 1
    Priorities = {0}
\* The sort ends.
CHECK_DEADLOCK FALSE
INVARIANTS CycleReported DependenciesFirst ValidatedIsSorted EveryoneVisited
