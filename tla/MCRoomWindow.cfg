SPECIFICATION Spec
CONSTANTS
    dht = dht
    ctz = ctz
    h = h
    o = o
    Group <- MCGroup
    Host = h
    Other = o
    MaxSeqs = 2
    Request = 2
    MaxSent <- MCMaxSent
    MaxNet = 3
    MaxLost = 1
INVARIANTS
    TypeOK
    FilteredOnce
    NothingLost
    WindowFollowsRoom
    PlayingShown
SYMMETRY MCSymmetry
CHECK_DEADLOCK FALSE
