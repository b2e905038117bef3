SPECIFICATION HFairSpec
CONSTANTS
    d0 = d0  d1 = d1  d2 = d2  d3 = d3  m0 = m0  m1 = m1
    Absent = Absent  None = None  Torn = Torn  Hollow = Hollow
    Paths = {1, 2}
    Data = {d0, d1}
    Meta = {m0, m1}
    MaxSerial = 6
    Roots <- ModeRoots
    InitialTrees <- PlainBase
    UserEntries <- NoEntries
    MaxEdits = 0  MaxCrashes = 0  MaxFaults = 0
    BusyEdits = FALSE
INVARIANTS
    OriginalRestored
PROPERTIES
    ImplementsRootStack
    ActivatedComplete
CHECK_DEADLOCK FALSE
