SPECIFICATION FairSpec
CONSTANTS
    Requests = {r1, r2}
    Presses = {p1}
    Messages <- OneQuestion
    PinnedRules = {"pinned"}
    RecordedExpects = {}
    Labelled = {}
    IOFails = FALSE
    MayClose = FALSE
    None = None
PROPERTIES AlwaysAnswered
CHECK_DEADLOCK FALSE
