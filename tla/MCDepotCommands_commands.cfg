SPECIFICATION TroubledSpec
CONSTANTS
    d0 = d0  d1 = d1  d2 = d2  d3 = d3  m0 = m0
    None = None  Absent = Absent  Torn = Torn  Hollow = Hollow  Null = Null
    Data = {d0, d1, d2, d3}
    Meta = {m0}
    Paths = {1, 2}
    MaxSerial = 6
    Roots <- AllRoots
    InitialTrees <- Bases
    UserEntries <- UserData
    MaxEdits = 1  MaxCrashes = 1  MaxFaults = 1
    BusyEdits = FALSE
    NameOf <- RootName
    CommandLines <- Lines
    MaxCommands = 3
    MaxClock = 1  MaxBuild = 1
INVARIANTS
    AnswersRight
PROPERTIES
    UpgradeSafe
    SupersededHarmless
    RowsAsMeant
CHECK_DEADLOCK FALSE
