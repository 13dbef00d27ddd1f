SPECIFICATION Spec
CONSTANTS
    w1 = w1  w2 = w2
    j1 = j1  j2 = j2
    Workers = {w1, w2}
    Jobs = {j1, j2}
    LeaseSeconds = 1
    Stalls = FALSE
    MaxTime = 2
    MaxAttempts = 2
SYMMETRY Symmetry
INVARIANTS
    GenerationCountsAttempts
    
    
PROPERTIES TakenOnlyWhenLapsed 
CHECK_DEADLOCK FALSE
