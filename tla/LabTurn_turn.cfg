SPECIFICATION FairSpec
CONSTANTS
    Turns = {t1}
    Docs = {a}
    MaxToolCalls = 4
    MaxRoundTrips = 2
    MaxRefusals = 3
    MaxCrashes = 1
INVARIANTS
    WithinBudgets
    RefusalsAreTraced
    
    AnswersAreWhole

    
CHECK_DEADLOCK FALSE
