SPECIFICATION HFairSpec
CONSTANTS
    d0 = d0  d1 = d1  d2 = d2  d3 = d3  m0 = m0  m1 = m1
    Absent = Absent  None = None  Torn = Torn  Hollow = Hollow
    Paths = {1}
    Data = {d0, d1, d2, d3}
    Meta = {m0, m1}
    MaxSerial = 6
    Roots <- TwoRoots
    InitialTrees <- PlainBase
    UserEntries <- AnyFile
    MaxEdits = 2  MaxCrashes = 0  MaxFaults = 0
    BusyEdits = FALSE
INVARIANTS
    PromisesKept
    UninstallUndoesInstall
PROPERTIES
    RestorableSucceeds
CHECK_DEADLOCK FALSE
