SPECIFICATION Spec
CONSTANTS
    Operations = {o1, o2, o3}
    Conditions <- TwoOrFailing
INVARIANTS
    Recoverable
    AnsweredStays
    ListedIsOnDisk
SYMMETRY Symmetry
CHECK_DEADLOCK FALSE
