SPECIFICATION Spec
CONSTANTS
    s1 = s1
    s2 = s2
    Sender <- MCSender
    Nobody = Nobody
    Capacity = 4
    MaxNest = 3
    MaxSent = 4
INVARIANTS
    HandledOnce
    NothingLeftBehind
CHECK_DEADLOCK FALSE
