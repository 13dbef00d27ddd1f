SPECIFICATION Spec
CONSTANTS
    w1 = w1  w2 = w2
    c1 = c1  c2 = c2
    o1 = o1  o2 = o2
    Workers = {w1, w2}
    Calls = {c1}
    MaxToolCalls = 1
    Outputs = {o1, o2}
    Stalls = TRUE
    Upgrades = FALSE
    MaxFaults = 2
    MaxAttempts = 3
INVARIANTS OncePerRun CompletedIsEvidenced
CHECK_DEADLOCK FALSE
