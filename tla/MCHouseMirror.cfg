SPECIFICATION Spec
CONSTANTS
    n1 = n1
    n2 = n2
    n3 = n3
    r1 = r1
    dht = dht
    ctz = ctz
    Node <- MCNode
    Room <- MCRoom
    Group <- MCGroup
    Peer <- MCPeer
    Id <- MCId
    NoRoom = NoRoom
    NoNode = NoNode
    Absent = Absent
    NoItem = NoItem
    Self = 1
    Hosted = r1
    MaxUnder = 1
INVARIANTS
    TypeOK
    Mirrors
    NamesFound
    UsersShown
    RoomsShown
    PlayersFresh
SYMMETRY MCSymmetry
CHECK_DEADLOCK FALSE
