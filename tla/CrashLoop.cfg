\* The loop restarts a program that fails at each of its starts, while the operator
\* calls the API twice: a start, and one that races two scheduled restarts.  The four
\* attempts are one more than StartRetries, the first call and the second restarter
\* allow; without StartSecs no run is stable, so that nothing resets the count.
SPECIFICATION Spec
CONSTANTS
    Operators = {o1}
    Loop = lp
    Restarters = {r1, r2}
    Workers = {lp, r1, r2}
    MaxAttempts = 4
    MaxCalls = 2
    MaxFaults = 3
    Codes = {1}
    User = FALSE
    StopSecs = 1
    KillTimely = TRUE
    StopAsGroup = FALSE
    HealthCheck = FALSE
    UnhealthyThreshold = 1
    AutoRestart = TRUE
    StartRetries = 1
    StartSecs = 0
    HealthCheckRestart = FALSE
    RestartMaxCount = 0
    RestartCodes = {}
    NoRestartCodes = {2}
    ExitCodes = {0}
\* The bounds on attempts and on restart goroutines may stop everyone.
CHECK_DEADLOCK FALSE
INVARIANTS  NoLimbo
