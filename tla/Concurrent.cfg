\* Two callers whose operations interleave at every unlock of p.mu.
SPECIFICATION ProcessSpec
CONSTANTS
    Operators = {o1, o2}
    Workers = {}
    MaxAttempts = 4
    MaxCalls = 4
    MaxFaults = 1
    Codes = {1}
    User = FALSE
    StopSecs = 1
    KillTimely = TRUE
    StopAsGroup = FALSE
    HealthCheck = FALSE
    UnhealthyThreshold = 1
SYMMETRY Symmetry
\* With no call left to make the process is at rest.
CHECK_DEADLOCK FALSE
INVARIANTS WaitChClosedOnce ExitConfirmed MonitorOwnsChild NoEscape StopConfirmsDeath
