SPECIFICATION Spec
CONSTANTS
    c1 = c1
    c2 = c2
    Files <- TwoFiles
    Existing <- OneOld
    Calls = {c1, c2}
    MaxLaunches = 3
    MaxEdits = 1
    MayOverlap = FALSE
INVARIANTS
    ClaimedOnce
    ReplacedHasCopy
    FailedIsOld
    AnswerIsDurable

    
CHECK_DEADLOCK FALSE
