\* One caller at a time, every operation, killed children may linger.
SPECIFICATION ProcessSpec
CONSTANTS
    Operators = {o1}
    Workers = {}
    MaxAttempts = 3
    MaxCalls = 3
    MaxFaults = 2
    Codes = {1}
    User = TRUE
    StopSecs = 1
    KillTimely = FALSE
    StopAsGroup = FALSE
    HealthCheck = TRUE
    UnhealthyThreshold = 1
\* With no call left to make the process is at rest; CallsReturn excludes a
\* caller that is stuck.
CHECK_DEADLOCK FALSE
INVARIANTS TypeOK StateTellsTruth
PROPERTIES GracefulStop CallsReturn
