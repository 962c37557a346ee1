SPECIFICATION Spec
CONSTANTS
    p1 = p1
    p2 = p2
    Procs <- TwoProcs
    Flavors = {"claude", "codex"}
    LockAttempts = 2
    MaxGen <- GenBounds
    WriteFailures = {"before", "torn", "after"}
    MaxIncidents <- IncidentBounds
    None = None
SYMMETRY SwapProcs
INVARIANTS
    TypeOK
    TokenIsKept
    PendingIsRetried
PROPERTIES
    RevokedStartsNoWrite
CHECK_DEADLOCK FALSE
