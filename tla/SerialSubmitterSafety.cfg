SPECIFICATION PartsSpec
CONSTANTS
    o1 = o1
    o2 = o2
    Origins <- TwoOrigins
    NumMessages = 2
    Filtered <- FirstOfEach
    NotContract <- NoMessages
    LateInclusion = FALSE
    MaxFaults = 3
    NoOp = NoOp
    r1 = r1
    r2 = r2
    QueueOrigins <- QueueOfOne
    QueueLength = 5
    Id <- IdByReverseNonce
    MaxTime = 3
    MaxQueueRetries = 4
    PolicyLists <- MCPolicyLists
    Estimates <- MCEstimates
    GasLimit = 6
    MaxPaid = 5
    MaxAttempts = 4
    MaxLost = 1
    c1 = c1
    c2 = c2
    ma = ma
    mb = mb
    mx = mx
    my = my
    Clients = {c1, c2}
    Messages = {ma, mb, mx}
    Batch <- TwoBatches
    Admissible = {ma, mb}
    Routed = {ma, mb}
    MaxInserted = 2
    MaxRestarts = 1
SYMMETRY OriginSymmetry
INVARIANTS
    OneOperationPerMessage
    NothingLost
    CommittedNeverRetried
    SubmissionDataFresh
    CommittedStaysDelivered
    QueueSound
    EnforcerSound
    OneRootPerIndex
    CheckpointsProvable
    AnswersAgree
    AnswersInOrder
CHECK_DEADLOCK FALSE
