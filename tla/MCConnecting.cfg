SPECIFICATION Spec
CONSTANTS
    MaxTries = 2
    MaxGuiQueue = 1
    MaxDhtFails = 2
    MaxGrpDrops = 1
    MaxCtzDrops = 1
    HelpOff = FALSE
INVARIANTS
    TypeOK
    NoMissedJoin
    IpFlagHonest
    UpdateHonest
    GroupHasClient
PROPERTIES
    Reconnects
    HelpComes
CHECK_DEADLOCK FALSE
