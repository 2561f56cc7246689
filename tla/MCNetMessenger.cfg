SPECIFICATION Spec
CONSTANTS
    s1 = s1
    s2 = s2
    Sender <- MCSender
    Nobody = Nobody
    Capacity = 2
    MaxNest = 1
    MaxSent = 5
INVARIANTS
    TypeOK
    NoLostWake
    InOrder
PROPERTIES
    ImplementsMailbox
    HandledInTheEnd
CHECK_DEADLOCK FALSE
