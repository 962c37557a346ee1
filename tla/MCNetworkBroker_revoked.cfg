SPECIFICATION Spec
CONSTANTS
    Requests = {r1}
    Presses = {p1}
    Messages <- CredentialQuestion
    PinnedRules = {"pinned"}
    RecordedExpects = {}
    Labelled = {}
    IOFails = FALSE
    MayClose = FALSE
    None = None
INVARIANTS NeverBareAfterRevocation
SYMMETRY Symmetry
CHECK_DEADLOCK FALSE
