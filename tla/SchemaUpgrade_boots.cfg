SPECIFICATION Spec
CONSTANTS
    p1 = p1
    p2 = p2
    r1 = r1
    r2 = r2
    Procs = {p1, p2}
    Rows = {r1, r2}
    Starts <- MCStarts
    MaxCrashes = 1
    MaxBoots = 3
CHECK_DEADLOCK FALSE
SYMMETRY ProcSymmetry
INVARIANTS StampIsTrue
PROPERTIES RestartsDisturbNothing
