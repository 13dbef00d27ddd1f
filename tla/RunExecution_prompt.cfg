SPECIFICATION Spec
CONSTANTS
    w1 = w1  w2 = w2
    c1 = c1  c2 = c2
    o1 = o1
    Workers = {w1, w2}
    Calls = {c1, c2}
    MaxToolCalls = 1
    Outputs = {o1}
    Stalls = FALSE
    Upgrades = TRUE
    MaxFaults = 2
    MaxAttempts = 4
SYMMETRY Symmetry
INVARIANTS
    TablesAgree
    EndedLedgerIsClosed
    GenerationsInOrder
PROPERTIES ImplementsLifecycle
CHECK_DEADLOCK FALSE
