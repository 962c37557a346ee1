SPECIFICATION FairSpec
CONSTANTS
    p1 = p1
    p2 = p2
    s1 = s1
    Ids = {s1}
    Procs <- TwoProcs
    IdOf <- SameId
    MaxCrashes = 1
    MaxFailures = 1
    MayRevoke = TRUE
    None = None
INVARIANTS
    TypeOK
    OneOwner
    SettledIsSpared
PROPERTIES
    LeftoversGo
    RevokedContainerDies
