SPECIFICATION Spec
CONSTANTS
    FromBlock = 1
    ChunkSize = 1
    MaxTip = 3
    MaxPayments = 1
    MaxCrashes = 1
    MaxStale = 0
INVARIANTS
    ProcessedIsCounted
CHECK_DEADLOCK FALSE
