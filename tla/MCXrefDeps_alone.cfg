SPECIFICATION Spec
CONSTANTS
    A = A  B = B  lib = lib  tool = tool  bad = bad
    None = None  NoTables = NoTables
    Procs = {1}
    Projects = {A, B}
    Paths = {lib, tool, bad}
    Links <- ToolLinks
    Unreadable = {bad}
    Roots <- SomeRoots
    Traces <- SomeTraces
    InitialTables <- Started
    MaxCommands = 5  MaxCrashes = 1
PROPERTIES
    RegisterReplaces
    LoadKeepsAll
    UnresolvedKept
    DependenciesKept
CHECK_DEADLOCK FALSE
