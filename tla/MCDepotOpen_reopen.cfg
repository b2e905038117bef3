SPECIFICATION Spec
CONSTANTS
    r1 = r1  r2 = r2
    None = None
    Procs = {1, 2}
    Rows = {r1, r2}
    InitialDbs <- NoDepot
    MaxStarts = 4  MaxCrashes = 1
INVARIANTS
    NoAssertionFails
CHECK_DEADLOCK FALSE
