SPECIFICATION Spec
CONSTANTS
    p1 = p1
    p2 = p2
    Procs <- TwoProcs
    Flavors = {"codex"}
    LockAttempts = 2
    MaxGen <- GenBounds
    WriteFailures = {"before"}
    MaxIncidents <- IncidentBounds
    None = None
INVARIANT
    TokenUsedByOne
CHECK_DEADLOCK FALSE
