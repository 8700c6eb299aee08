SPECIFICATION Spec
CONSTANTS
    a1=a1 a2=a2
    before=before after=after edited=edited
    Attempts = {a1, a2}
    RunOf <- OneRun
    StepOf <- OneStep
    KeyOf <- OneKey
    Texts = {before, after, edited}
    Wanted = {after}
    Original = before
    NoAttempt = NoAttempt
    AtOnce = 2
    MaxEdits = 1
INVARIANTS JInv AnswerIsJournaled OnlyCrashLeavesBehind
PROPERTIES ImplementsWrites EveryWriteEnds
CHECK_DEADLOCK FALSE
