SPECIFICATION Spec
CONSTANTS
    Runtimes = {r1, r2, r3}
    OpIds = {o1}
    StaleOp = stale
    NoOp = generated
    NoRuntime = nobody
    Requests <- ChatAndFile
    MaxSteps = 2
    MaxAttempts = 2
    MaxConfirmations = 0
    Sent = {"pause", "cancel", "resume", "retry", "delete", "close"}
    MayOverlap = FALSE
    MayCrash = TRUE
    MayOverrun = FALSE
INVARIANTS CancelledIsSettled
PROPERTIES EndedStepsStayEnded
CHECK_DEADLOCK FALSE
