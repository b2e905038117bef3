SPECIFICATION Spec
CONSTANTS
    None = None
    Pids = {1, 2}  Threads = {"a"}  First = 1
    Fds = {0, 1, 2}  TraceFds = {1, 2}
    Ops <- AllOps  Names <- SomeNames
    RedirectRoot <- root  BuildRoot <- root  DstRoot <- Dst
    Exceptions <- Tmp  Files <- SomeFiles  Links <- SomeLinks  Scripts <- SomeScripts
    Envs <- Passed  Settings <- NoSettings  InitialEnvs <- PlainOrAll
    Inherited <- FirstWritable
    MaxCalls = 3
INVARIANTS
    TypeOK
    LogKept
    AllTraced
    CrashExplained
PROPERTIES
    WritableKept
CHECK_DEADLOCK FALSE
