\* Health checks that restart: the loop's own Restart runs beside two calls of the
\* operator, restart goroutines and the health checkers of several attempts.
SPECIFICATION Spec
CONSTANTS
    Operators = {o1}
    Loop = lp
    Restarters = {r1}
    Workers = {lp, r1}
    MaxAttempts = 3
    MaxCalls = 2
    MaxFaults = 0
    Codes = {1}
    User = FALSE
    StopSecs = 0
    KillTimely = TRUE
    StopAsGroup = FALSE
    HealthCheck = TRUE
    UnhealthyThreshold = 1
    AutoRestart = TRUE
    StartRetries = 1
    StartSecs = 1
    HealthCheckRestart = TRUE
    RestartMaxCount = 0
    RestartCodes = {1}
    NoRestartCodes = {}
    ExitCodes = {}
\* The bound on attempts stops the loop inside its own Start.
CHECK_DEADLOCK FALSE
INVARIANTS OneChecker NewestRuns
