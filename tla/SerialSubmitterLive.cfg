SPECIFICATION FairSpec
CONSTANTS
    o1 = o1
    o2 = o2
    Origins <- OneOrigin
    NumMessages = 3
    Filtered <- NoMessages
    NotContract <- SecondOfO1
    LateInclusion = TRUE
    MaxFaults = 1
    NoOp = NoOp
PROPERTIES
    FirstAttemptsInOrder
    EventuallyProcessed
CHECK_DEADLOCK FALSE
