SPECIFICATION HFairSpec
CONSTANTS
    d0 = d0  d1 = d1  d2 = d2  d3 = d3  m0 = m0  m1 = m1
    Absent = Absent  None = None  Torn = Torn  Hollow = Hollow
    Paths = {1, 2}
    Data = {d0, d1, d2}
    Meta = {m0}
    MaxSerial = 4
    Roots <- FewRoots
    InitialTrees <- FewBases
    UserEntries <- AnyData
    MaxEdits = 1  MaxCrashes = 1  MaxFaults = 1
    BusyEdits = TRUE
INVARIANTS
    TypeOK
    RowsArePreceded
PROPERTIES
    CommandsEnd
CHECK_DEADLOCK FALSE
