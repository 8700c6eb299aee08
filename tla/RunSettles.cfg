SPECIFICATION FairSpec
CONSTANTS
    Runtimes = {r1}
    OpIds = {}
    StaleOp = stale
    NoOp = generated
    NoRuntime = nobody
    Requests <- ChatAndFile
    MaxSteps = 3
    MaxAttempts = 2
    MaxConfirmations = 2
    Sent = {"pause", "cancel", "resume", "retry", "approve", "reject", "memory", "delete"}
    MayOverlap = FALSE
    MayCrash = FALSE
    MayOverrun = TRUE
INVARIANTS WaitingIsAnswerable DoneWasApproved
PROPERTIES RequestsSettle WaitingEnds
CHECK_DEADLOCK FALSE
