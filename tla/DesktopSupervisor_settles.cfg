SPECIFICATION Spec
CONSTANTS
    Callers = {win, quitter, r1}
    Window = win
    Quitter = quitter
    MaxSpawns = 2
    MaxBackends = 1
    KillFails = TRUE
    Darwin = TRUE
    MaxRequests = 2
PROPERTIES
    CallsSettle
    ShutdownSettles
CHECK_DEADLOCK FALSE
