SPECIFICATION Spec
CONSTANTS
    Runtimes = {r1}
    OpIds = {}
    StaleOp = stale
    NoOp = generated
    NoRuntime = nobody
    Requests <- OnlyFile
    MaxSteps = 2
    MaxAttempts = 2
    MaxConfirmations = 1
    Sent = {"pause"}
    MayOverlap = FALSE
    MayCrash = FALSE
    MayOverrun = FALSE
INVARIANTS PausedIsResumable
CHECK_DEADLOCK FALSE
