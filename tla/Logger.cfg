\* One process, two children that overlap, files of two lines and one backup; one failure.
SPECIFICATION Spec
CONSTANTS
    Processes = {"p"}
    Starts = 2
    MaxSize = 2
    BackupCount = 1
    MaxLines = 7
    FollowLines = 5
    Faults = {"rename", "compress", "remove", "open", "close", "crash"}
    MaxFaults = 1
\* The children exit.
CHECK_DEADLOCK FALSE
INVARIANTS  SizeBound FollowsInOrder
