\* Start-up, reloads, API requests, crashing programs and a shutdown.
SPECIFICATION Spec
CONSTANTS
    Names = {"a", "b", "c"}
    Versions = {"v1", "v2", "v3"}
    Manual = {"v2"}
    Fcgi = {"v3"}
    Deps <- MCDeps
    Boot <- MCBoot
    Configs <- MCConfigs
    Ops = {"restart", "restart-all", "status"}
    Groups = {{"c"}}
    Clients = {c1}
    SigBuffer = 1
    EarlySignals = FALSE
    SyncFails = FALSE
    MaxObjects = 3
    MaxReloads = 1
    MaxCalls = 1
    MaxFaults = 1
    MaxEvents = 2
\* After the shutdown nothing runs.
CHECK_DEADLOCK FALSE
INVARIANTS Reachable ReloadApplies QuietShutdown StateFileWhole
PROPERTY ShutdownEnds
