SPECIFICATION QueueSpec
CONSTANTS
    r1 = r1
    r2 = r2
    QueueOrigins <- QueueOfTwo
    QueueLength = 2
    Id <- IdSpread
    MaxTime = 1
    MaxQueueRetries = 0
INVARIANTS
    NonceOrder
CHECK_DEADLOCK FALSE
