\* A full queue, retries, a reload and a shutdown.
SPECIFICATION Spec
CONSTANTS
    BufferSize = 2
    AutoStart = TRUE
    EarlyExit = FALSE
    MaxEvents = 4
    MaxReloads = 1
\* After SIGTERM everything stops.
CHECK_DEADLOCK FALSE
INVARIANTS NoRedelivery NoneLostQuietly OneChild StopIsFinal
PROPERTIES DeliveredInOrder StopReturns
