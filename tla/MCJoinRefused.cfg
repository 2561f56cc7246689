SPECIFICATION Spec
CONSTANTS
    h1 = h1
    h2 = h2
    p1 = p1
    p2 = p2
    None = None
    Host <- MCOneHost
    Player <- MCPlayers
    Locked <- MCLocked
    MaxPlayers = 2
    MaxTries = 1
    MaxCancels = 0
    MaxUpdates = 0
    MaxFlight = 1
PROPERTIES
    JoinAnswered
CHECK_DEADLOCK FALSE
