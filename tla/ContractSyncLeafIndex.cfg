SPECIFICATION Spec
CONSTANTS
    Modes = {"block"}
    Kind = "insertion"
    ChunkSize = 1
    MaxRange = 1
    MaxTip = 3
    MaxLogs = 2
    MaxFaults = 1
    MaxDrops = 0
INVARIANTS
    RecordComplete
CHECK_DEADLOCK FALSE
