SPECIFICATION Spec
CONSTANTS
    s1 = s1
    s2 = s2
    Paths = {"p", "q"}
    Slots = {s1, s2}
    Files <- TwoProjects
    First = "a"
    Starter = "p"
    Markdown = {}
    MaxTexts = 3
    MaxOps = 3
INVARIANTS
    NoSilentOverwrite
    SavedWhereItBelongs
    DraftsAreKept
    BusyIsWork
SYMMETRY Symmetry
CHECK_DEADLOCK FALSE
