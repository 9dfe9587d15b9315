SPECIFICATION ServicesSpec
CONSTANTS
    FromBlock = 1
    ChunkSize = 1
    MaxTip = 5
    MaxPayments = 2
    MaxCrashes = 2
    MaxStale = 1
    Signers = {v}
    MaxInsertions = 3
    MaxWrong = 1
    MaxAgentCrashes = 1
    ProviderCount = 2
    RpcCallers = {a, b}
    FailingCallers = {}
    ProviderMaxHeight = 1
    MaxRequests = 2
INVARIANTS
    PaymentsExact
PROPERTIES
    EventuallyProcessed
    ImplementsStore
    EventuallyPublished
    StalledProviderYields
CHECK_DEADLOCK FALSE
