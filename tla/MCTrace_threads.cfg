SPECIFICATION Spec
CONSTANTS
    None = None
    Pids = {1, 2}  Threads = {"a", "b"}  First = 1
    Fds = {0, 1}  TraceFds = {1}
    Ops <- TwoOps  Names <- OneName
    RedirectRoot <- root  BuildRoot <- root  DstRoot <- Dst
    Exceptions <- Tmp  Files <- SomeFiles  Links <- SomeLinks  Scripts <- SomeScripts
    Envs <- JustCleared  Settings <- JustCleared  InitialEnvs <- Redirecting
    Inherited <- NothingOpen
    MaxCalls = 3
INVARIANTS
    NothingMissed
PROPERTIES
    CallsReturn
CHECK_DEADLOCK FALSE
