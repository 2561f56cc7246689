SPECIFICATION Spec
CONSTANTS
    h1 = h1
    h2 = h2
    p1 = p1
    p2 = p2
    None = None
    Host <- MCOneHost
    Player <- MCPlayers
    Locked <- MCLocked
    MaxPlayers = 2
    MaxTries = 2
    MaxCancels = 1
    MaxUpdates = 1
    MaxFlight = 1
INVARIANTS
    TypeOK
    NotOverfull
    SeatsAgree
    WindowShowsRoom
SYMMETRY MCSymmetry
CHECK_DEADLOCK FALSE
