SPECIFICATION Spec
CONSTANTS
    u = u
    v = v
    p = p
    q = q
    mine = mine
    theirs = theirs
    Cred <- MCCred
    Addr <- MCAddr
    Bad = Bad
    Lists <- MCLists
    Nobody = Nobody
    MaxAsks <- MCMaxAsks
    MaxAsked = 3
INVARIANTS
    TypeOK
    ValidatedPair
    IgnoreListApplied
    AskAnswered
CHECK_DEADLOCK FALSE
