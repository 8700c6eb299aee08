SPECIFICATION FairSpec
CONSTANTS
    Runtimes = {p1, p2}
    Calls = {c1, c2}
    MaxCalls = 2
    MaxTokens = 3
    Caps = {2}
    Bills = {2, 3}
    MaxAttempts = 2
    Environment <- Everything
INVARIANTS BInv BilledWithinBudget TokensWithinBudget ChargedOnce SentIsAccounted
PROPERTIES ReservationsEnd
CHECK_DEADLOCK FALSE
