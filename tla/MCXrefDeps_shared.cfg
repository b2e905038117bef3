SPECIFICATION Spec
CONSTANTS
    A = A  B = B  lib = lib  tool = tool  bad = bad
    None = None  NoTables = NoTables
    Procs = {1, 2}
    Projects = {A, B}
    Paths = {lib, tool}
    Links <- ToolLinks
    Unreadable = {}
    Roots <- SmallRoots
    Traces <- LibTrace
    InitialTables <- Used
    MaxCommands = 3  MaxCrashes = 1
PROPERTIES
    DependenciesJustified
    UnownedKept
    CommandsEnd
CHECK_DEADLOCK FALSE
