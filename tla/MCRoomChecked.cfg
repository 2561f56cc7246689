SPECIFICATION Spec
CONSTANTS
    n1 = n1
    n2 = n2
    r1 = r1
    r2 = r2
    Node <- MCNode
    Room <- MCRoom
    NoRoom = NoRoom
    NoNode = NoNode
    Absent = Absent
    MaxFaults = 0
    MaxFlight = 2
INVARIANT RoomCheckedExists
CHECK_DEADLOCK FALSE
