SPECIFICATION Spec
CONSTANTS
    None = None  NoTables = NoTables
    Me = me  Reader = reader  Procs = {me, reader}
    Builds = {"8A1", "8A2"}  Projects = {"bar", "foo", "foo_prime"}  Groups = {"g"}
    Keys <- Columns  Texts <- Strings  SortedKeys <- AsText
    PropType <- Types  PropKind <- Kinds  SortedProps <- Known  SortedProjects <- Names
    Plists <- SomePlists  InitialTables <- TwoTables
    MaxCommands = 2  MaxTries = 2  MaxCrashes = 1  MaxReads = 1
INVARIANTS
    TypeOK
    EditKept
    SearchSound
    PrintedRight
PROPERTIES
    StoredWhole
    RoundTrip
    MergeKeeps
    CommandsEnd
CHECK_DEADLOCK FALSE
