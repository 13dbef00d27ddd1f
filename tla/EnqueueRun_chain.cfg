SPECIFICATION Spec
CONSTANTS
    Specs = {s1, s2}
    Keys = {k1, k2, k3}
    Experiments = {e1}
    Outcomes = {"failed"}
    SaveDelay = 0
    MaxAdmissions = 3
    MaxRuns = 3
    MaxTime = 3
SYMMETRY Symmetry
INVARIANTS
    KeyNamesOneRun
    RunsAreAdmitted
    RetriesMoveForward
CHECK_DEADLOCK FALSE
