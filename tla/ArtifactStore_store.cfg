SPECIFICATION Spec
CONSTANTS
    Procs = {p1, p2}
    Contents = {x}
    Projects = {j1, j2}
    MaxVault = 2
    MaxKeys = 2
SYMMETRY Symmetry
INVARIANTS
    ReadableUntilPurged
    
PROPERTIES
    TombstonesAreFinal
