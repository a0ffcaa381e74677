\* Starts, stops, failures and ticks in every order.
SPECIFICATION Spec
CONSTANTS
    Procs = {x1, x2}
    Starters = {t1, t2}
    AutoRestart = TRUE
    Serial = FALSE
    MaxSockets = 3
    MaxCalls = 4
    MaxFaults = 2
\* With no call left to make the program is at rest.
CHECK_DEADLOCK FALSE
INVARIANTS  OrderlyLife
