SPECIFICATION Spec
CONSTANTS
    Runtimes = {r1, r2}
    OpIds = {}
    StaleOp = stale
    NoOp = generated
    NoRuntime = nobody
    Requests <- OnlyChat
    MaxSteps = 2
    MaxAttempts = 2
    MaxConfirmations = 0
    Sent = {"pause", "cancel", "resume", "delete"}
    MayOverlap = TRUE
    MayCrash = TRUE
    MayOverrun = FALSE
SYMMETRY Symmetry
INVARIANTS OneRunningAttempt IInv
PROPERTIES ImplementsLifecycle
CHECK_DEADLOCK FALSE
