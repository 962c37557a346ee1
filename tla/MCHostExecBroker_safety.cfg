SPECIFICATION Spec
CONSTANTS
    Requests = {r1, r2}
    Presses = {p1}
    Commands <- EveryRule
    Keys = {"ask", "open", "shut", "other"}
    PromptEnabled = TRUE
    IOFails = TRUE
    MayClose = FALSE
    Verdicts = {"pass", "prompt", "error"}
    Leavers = {r1}
    None = None
INVARIANTS TypeOK RunIsJustified TimerGuardsGroup CancelledLeavesNoCard
PROPERTIES CancelledIsNotStarted
CHECK_DEADLOCK FALSE
