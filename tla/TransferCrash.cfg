SPECIFICATION Spec
CONSTANTS
    c1 = c1
    c2 = c2
    Files <- TwoFiles
    Existing <- OneOld
    Calls = {c1}
    MaxLaunches = 3
    MaxEdits = 0
    MayOverlap = FALSE
INVARIANTS
    OldOrNew
CHECK_DEADLOCK FALSE
