SPECIFICATION FairSpec
CONSTANTS
    Modes = {"block", "sequence"}
    Kind = "message"
    ChunkSize = 1
    MaxRange = 1
    MaxTip = 4
    MaxLogs = 3
    MaxFaults = 1
    MaxDrops = 1
INVARIANTS
    SyncSound
PROPERTIES
    GapClosed
    EventuallyStored
CHECK_DEADLOCK FALSE
