\* A Stop after the restart goroutine's last look at the state.
SPECIFICATION Spec
CONSTANTS
    Operators = {o1}
    Loop = lp
    Restarters = {r1}
    Workers = {lp, r1}
    MaxAttempts = 8
    MaxCalls = 2
    MaxFaults = 2
    Codes = {1}
    User = FALSE
    StopSecs = 1
    KillTimely = TRUE
    StopAsGroup = FALSE
    HealthCheck = FALSE
    UnhealthyThreshold = 1
    AutoRestart = TRUE
    StartRetries = 1
    StartSecs = 1
    HealthCheckRestart = FALSE
    RestartMaxCount = 0
    RestartCodes = {}
    NoRestartCodes = {}
    ExitCodes = {}
PROPERTY RestarterRespectsStop
