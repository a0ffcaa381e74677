\* Two clients, one request per two ticks (a second), a burst of two; cleanups in time
\* to forget a client that was at its limit.
SPECIFICATION Spec
CONSTANTS
    Clients = {c1, c2}
    Rate = 1
    Cost = 2
    Burst = 4
    Second = 2
    Interval = 4
    Horizon = 10
\* The clock stops at Horizon.
CHECK_DEADLOCK FALSE
INVARIANT RateBound
PROPERTY RetryAfter
