SPECIFICATION Spec
CONSTANTS
    r1 = r1  r2 = r2
    None = None
    Procs = {1, 2}
    Rows = {r1, r2}
    InitialDbs <- AnyDb
    MaxStarts = 4  MaxCrashes = 1
INVARIANTS
    ReadyIsCurrent
PROPERTIES
    NothingLost
    EveryoneEnds
CHECK_DEADLOCK FALSE
