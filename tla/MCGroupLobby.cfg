SPECIFICATION Spec
CONSTANTS
    n1 = n1
    n2 = n2
    r1 = r1
    r2 = r2
    Node <- MCNode
    Room <- MCRoom
    NoRoom = NoRoom
    NoNode = NoNode
    Absent = Absent
    MaxFaults = 1
    MaxFlight = 1
INVARIANTS
    TypeOK
    BlockedGone
    UpToDate
PROPERTIES
    AttachedRoomCloses
    IdNeverRegresses
    RequestAnswered
CHECK_DEADLOCK FALSE
