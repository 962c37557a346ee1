SPECIFICATION FairSpec
CONSTANTS
    Requests = {r1, r2}
    Presses = {p1}
    Messages <- OneQuestion
    PinnedRules = {"pinned"}
    RecordedExpects = {}
    Labelled = {}
    IOFails = TRUE
    MayClose = TRUE
    None = None
INVARIANTS TypeOK TimerGuardsGroup MembersCanBePressed
PROPERTIES WaiterIsAnswered
CHECK_DEADLOCK FALSE
