SPECIFICATION FairSpec
CONSTANTS
    Requests = {r1, r2}
    Presses = {p1}
    Commands <- OneCapability
    Keys = {"ask"}
    PromptEnabled = TRUE
    IOFails = TRUE
    MayClose = TRUE
    Verdicts = {"pass"}
    Leavers = {r1}
    None = None
PROPERTIES WaiterIsReleased
CHECK_DEADLOCK FALSE
CONSTRAINT CleanupBeforeClose
