SPECIFICATION Spec
CONSTANTS
    o1 = o1
    o2 = o2
    Tasks = {t1}
    Operations = {o1, o2}
    Units = 2
    Budgets = {1, 2}
    MaxLaunches = 2
INVARIANTS
    CompletedRanEverything
    RunsWithinBudget
    CancelledForGood
    CommandOnce
PROPERTIES
    RunningEnds
CHECK_DEADLOCK FALSE
