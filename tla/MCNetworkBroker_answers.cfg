SPECIFICATION Spec
CONSTANTS
    Requests = {r1, r2}
    Presses = {p1, p2}
    Messages <- AllMessages
    PinnedRules = {"pinned"}
    RecordedExpects <- Recorded
    Labelled = {"uuid"}
    IOFails = FALSE
    MayClose = FALSE
    None = None
INVARIANTS Inv AllowIsJustified DenyIsJustified
SYMMETRY Symmetry
CHECK_DEADLOCK FALSE
