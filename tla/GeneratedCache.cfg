SPECIFICATION Spec
CONSTANTS
    c1 = c1
    c2 = c2
    Commits = {c1, c2}
    Deltas = 2
    Drafts = TRUE
    Mode = "append"
    MaxEdits = 1
    MaxLaunches = 2
INVARIANTS
    WrittenOnce
    AnsweredWasWritten
    
SYMMETRY Symmetry
CHECK_DEADLOCK FALSE
