SPECIFICATION Spec
CONSTANTS
    o1 = o1
    o2 = o2
    Origins <- OneOrigin
    NumMessages = 1
    Filtered <- NoMessages
    NotContract <- NoMessages
    LateInclusion = TRUE
    MaxFaults = 2
    NoOp = NoOp
INVARIANTS
    CommittedStaysDelivered
CHECK_DEADLOCK FALSE
