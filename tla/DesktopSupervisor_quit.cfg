SPECIFICATION Spec
CONSTANTS
    Callers = {win, quitter, r1}
    Window = win
    Quitter = quitter
    MaxSpawns = 2
    MaxBackends = 2
    KillFails = TRUE
    Darwin = FALSE
    MaxRequests = 2
INVARIANTS
    SupervisedAndConnected
    QuitLeavesNoExecutor
CHECK_DEADLOCK FALSE
