SPECIFICATION Spec
CONSTANTS
    s1 = s1
    s2 = s2
    f1 = f1
    f2 = f2
    NoFile = NoFile
    Callers = {s1}
    Files = {f1, f2}
    MaxRules = 3
    Floor = 1
SYMMETRY FileSymmetry
CHECK_DEADLOCK FALSE
INVARIANTS NoSupersedeCycle  SyncConverges
