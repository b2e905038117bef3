-------------------------------- MODULE Trace -------------------------------
(***************************************************************************)
(* darwintrace.dylib inside the processes of a build                       *)
(* (darwintrace/darwintrace.c).  The library is loaded into every process  *)
(* whose environment inserts it and stands between the program and open,   *)
(* readlink, execve, posix_spawn and close: it redirects paths into the    *)
(* build root, writes a line for each access to one log that all processes *)
(* share, keeps the descriptor of that log from being closed, and forces   *)
(* its own variables into the environment of every program started.        *)
(*                                                                         *)
(* A step is a system call of the library, or one of its globals read or   *)
(* written: the globals are shared by the threads of the process, set up   *)
(* once (pthread_once) and read without a lock.  Only the search for the   *)
(* descriptor of the log is one step for its several calls (Scan).  fork,  *)
(* dup2, setenv and exit are the program's own and do not pass through the *)
(* library.                                                                *)
(***************************************************************************)
EXTENDS Integers, SequencesExt

CONSTANTS
    Pids, Threads, None,
    First,          \* the process darwinbuild starts
    Fds, TraceFds,  \* descriptors; those from DARWINTRACE_START_FD to STOP_FD
    Ops,            \* the functions programs call
    Names,          \* paths as programs give them: sequences of "/" and components
    RedirectRoot,   \* the value of DARWINTRACE_REDIRECT
    BuildRoot,      \* the value of DARWIN_BUILDROOT
    DstRoot,        \* the roots DARWINTRACE_IGNORE_ROOTS is about, as one
    Exceptions,     \* darwintrace_exceptions
    Files,          \* the paths at which there is something
    Links,          \* the symbolic links among them, with their targets
    Scripts,        \* the scripts among them, with their interpreters
    Envs,           \* environments programs pass on
    Settings,       \* environments they give themselves
    InitialEnvs,    \* environments of the first process
    Inherited,      \* the descriptors it inherits
    MaxCalls        \* bound on calls of the programs

ASSUME TraceAssumption ==
    /\ First \in Pids /\ None \notin Pids
    /\ Fds \subseteq Nat /\ TraceFds \subseteq Fds /\ MaxCalls \in Nat

VARIABLES
    image,      \* the globals of the library and the environment of each process
    fds,        \* the descriptors of each process: what they are open for
    thread,     \* where each thread is
    made,       \* the accesses of each image that the log is about
    log,        \* the lines of the log
    calls       \* calls still to come

vars == <<image, fds, thread, made, log, calls>>

EnvVars == {"LOG", "IGNORE_ROOTS", "REDIRECT", "BUILDROOT"}
Env == [set : SUBSET EnvVars, libs : SUBSET {"darwintrace", "other"}]
Unset == -2

ASSUME EnvAssumption == Envs \cup Settings \cup InitialEnvs \subseteq Env
ASSUME InheritedAssumption == Inherited \in [Fds -> {"free", "read", "write", "log"}]

Image == [state : {"none", "running", "gone", "crashed"}, env : Env, loaded : BOOLEAN,
          once : {"no", "running", "done"}, fd : TraceFds \cup {Unset},
          log_path : BOOLEAN, redirect : BOOLEAN, buildroot : BOOLEAN,
          ignores : BOOLEAN, dylib : BOOLEAN, pid : Pids \cup {None}]

(* A program just started: nothing in it is set up. *)
Started(e) == [state |-> "running", env |-> e, loaded |-> "darwintrace" \in e.libs,
               once |-> "no", fd |-> Unset, log_path |-> FALSE, redirect |-> FALSE,
               buildroot |-> FALSE, ignores |-> FALSE, dylib |-> FALSE, pid |-> None]
NoEnv == [set |-> {}, libs |-> {}]
Unborn == [Started(NoEnv) EXCEPT !.state = "none"]

InProgram == [at |-> "program", op |-> "none", name |-> <<>>, path |-> <<>>,
              fd |-> Unset, env |-> NoEnv]
Absent == [InProgram EXCEPT !.at = "absent"]
Alone(t) == [u \in Threads |-> IF u = t THEN InProgram ELSE Absent]

(***************************************************************************)
(* Paths.                                                                  *)
(***************************************************************************)
UnderAny(roots, path) == \E r \in roots : IsPrefix(r, path)

redirect_path(path) ==
    IF Head(path) = "/" /\ ~UnderAny(Exceptions \cup {BuildRoot, RedirectRoot}, path)
    THEN RedirectRoot \o path ELSE path

RsrcForkSpec == <<"/", "..namedfork", "/", "rsrc">>

cleanup_path(path) ==
    LET fork  == Len(path) > Len(RsrcForkSpec) /\ IsSuffix(RsrcForkSpec, path)
        plain == IF fork THEN SubSeq(path, 1, Len(path) - Len(RsrcForkSpec)) ELSE path
        Emit(out, c) == IF c = "/" /\ out # <<>> /\ Last(out) = "/" THEN out
                        ELSE Append(out, c)
    IN  FoldLeft(Emit, <<>>, plain)

(* The file system: what a path leads to. *)
Exists(path) == cleanup_path(path) \in Files
IsLink(path) == cleanup_path(path) \in DOMAIN Links
Resolved(path) == IF IsLink(path) THEN Links[cleanup_path(path)] ELSE cleanup_path(path)

Line(p, tag, path) == [pid |-> image[p].pid, tag |-> tag, path |-> path]
Access(tag, path)  == [tag |-> tag, path |-> path]
Ignored(p, path)   == image[p].ignores /\ IsPrefix(DstRoot, path)

(* write(2) on the log's descriptor reaches the log while it is the log's. *)
logpath(p, lines) ==
    log' = IF fds[p][image[p].fd] = "log"
           THEN log \cup {l \in lines : ~Ignored(p, l.path)} ELSE log
-----------------------------------------------------------------------------
Init == \E e \in InitialEnvs :
    /\ image = [p \in Pids |-> IF p = First THEN Started(e) ELSE Unborn]
    /\ fds = [p \in Pids |-> IF p = First THEN Inherited ELSE [f \in Fds |-> "free"]]
    /\ thread = [p \in Pids |-> IF p = First THEN [t \in Threads |-> InProgram]
                                             ELSE [t \in Threads |-> Absent]]
    /\ made = [p \in Pids |-> {}] /\ log = {} /\ calls = MaxCalls

At(p, t, label) == image[p].state = "running" /\ thread[p][t].at = label
Goto(p, t, label) == thread' = [thread EXCEPT ![p][t].at = label]
Return(p, t) == thread' = [thread EXCEPT ![p][t] = InProgram]
Free(p) == {f \in Fds : fds[p][f] = "free"}
Lowest(S) == {f \in S : \A g \in S : f <= g}

(* The program calls a function the library interposes. *)
Called(p, t, call) ==
    /\ At(p, t, "program") /\ image[p].loaded /\ calls > 0
    /\ calls' = calls - 1
    /\ thread' = [thread EXCEPT ![p][t] = call]
    /\ UNCHANGED <<image, fds, made, log>>

Call(p, t) ==
    \/ \E op \in Ops \cap {"open", "open to write", "readlink"}, name \in Names :
         Called(p, t, [InProgram EXCEPT !.at = "redirect", !.op = op, !.name = name])
    \/ \E op \in Ops \cap {"execve", "posix_spawn"}, name \in Names, e \in Envs :
         Called(p, t, [InProgram EXCEPT !.at = "redirect", !.op = op, !.name = name, !.env = e])
    \/ \E op \in Ops \cap {"close"}, f \in Fds :
         Called(p, t, [InProgram EXCEPT !.at = "close test", !.op = op, !.fd = f])

(***************************************************************************)
(* darwintrace_redirect_path is the first thing a call does.  It reads     *)
(* globals that darwintrace_setup may not have set yet, or not both.       *)
(***************************************************************************)
Redirect(p, t) ==
    LET c == thread[p][t]
        next == IF c.op \in {"execve", "posix_spawn"} THEN "setup" ELSE "call"
        bare == Head(c.name) # "/" \/ UnderAny(Exceptions, c.name)
    IN  /\ At(p, t, "redirect")
        /\ image[p].redirect => bare \/ image[p].buildroot
        /\ thread' = [thread EXCEPT ![p][t].at = next,
               ![p][t].path = IF image[p].redirect THEN redirect_path(c.name) ELSE c.name]
        /\ UNCHANGED <<image, fds, made, log, calls>>

(* strlen(NULL): there is a redirection and no build root. *)
RedirectCrashes(p, t) ==
    /\ At(p, t, "redirect")
    /\ image[p].redirect /\ ~image[p].buildroot
    /\ Head(thread[p][t].name) = "/" /\ ~UnderAny(Exceptions, thread[p][t].name)
    /\ image' = [image EXCEPT ![p].state = "crashed"]
    /\ UNCHANGED <<fds, thread, made, log, calls>>

(* open(2) and readlink(2) themselves.  Only O_WRONLY and O_CREAT keep an  *)
(* open out of the log: the other ones may write too (O_RDWR).             *)
Open(p, t) ==
    LET c == thread[p][t]
    IN  /\ At(p, t, "call") /\ c.op \in {"open", "open to write"}
        /\ Exists(c.path)
        /\ \E f \in Lowest(Free(p)), use \in {"read", "write"} :
             /\ c.op = "open to write" => use = "write"
             /\ fds' = [fds EXCEPT ![p][f] = use]
        /\ IF c.op = "open"
           THEN /\ Goto(p, t, "setup")
                /\ made' = [made EXCEPT ![p] = @ \cup {Access("open", Resolved(c.path))}]
           ELSE Return(p, t) /\ UNCHANGED made
        /\ UNCHANGED <<image, log, calls>>

Readlink(p, t) ==
    LET c == thread[p][t]
    IN  /\ At(p, t, "call") /\ c.op = "readlink" /\ IsLink(c.path)
        /\ Goto(p, t, "setup")
        /\ made' = [made EXCEPT ![p] = @ \cup {Access("readlink", cleanup_path(c.path))}]
        /\ UNCHANGED <<image, fds, log, calls>>

CallFails(p, t) ==
    /\ At(p, t, "call")
    /\ Return(p, t)
    /\ UNCHANGED <<image, fds, made, log, calls>>

(***************************************************************************)
(* pthread_once: one thread sets up, the others wait until it has.         *)
(***************************************************************************)
AfterSetup(p, t) == IF thread[p][t].op \in {"open", "readlink"} THEN "log" ELSE "log exec"

(* Mutated form: a flag, set by the first thread to come, in place of pthread_once. *)
SetupFlagged(p, t) ==
    /\ At(p, t, "setup") /\ image[p].once = "no"
    /\ image' = [image EXCEPT ![p].once = "done"]
    /\ Goto(p, t, IF "LOG" \in image[p].env.set THEN "open log" ELSE "get redirect")
    /\ UNCHANGED <<fds, made, log, calls>>

SetupDone(p, t) ==
    /\ At(p, t, "setup") /\ image[p].once = "done"
    /\ Goto(p, t, AfterSetup(p, t))
    /\ UNCHANGED <<image, fds, made, log, calls>>

SetupStarts(p, t) ==
    /\ At(p, t, "setup") /\ image[p].once = "no"
    /\ image' = [image EXCEPT ![p].once = "running"]
    /\ Goto(p, t, IF "LOG" \in image[p].env.set THEN "open log" ELSE "get redirect")
    /\ UNCHANGED <<fds, made, log, calls>>

(* Mutated form: gives up when the log cannot be opened.                   *)
OpenLogGivesUp(p, t) ==
    /\ At(p, t, "open log")
    /\ \/ \E f \in Lowest(Free(p)) :
             /\ fds' = [fds EXCEPT ![p][f] = "log"]
             /\ thread' = [thread EXCEPT ![p][t].at = "scan", ![p][t].fd = f]
       \/ UNCHANGED fds /\ Return(p, t)
    /\ UNCHANGED <<image, made, log, calls>>

(* The log is opened wherever there is room; the open may fail. *)
OpenLog(p, t) ==
    /\ At(p, t, "open log")
    /\ \/ \E f \in Lowest(Free(p)) :
             /\ fds' = [fds EXCEPT ![p][f] = "log"]
             /\ thread' = [thread EXCEPT ![p][t].at = "scan", ![p][t].fd = f]
       \/ UNCHANGED fds /\ Goto(p, t, "scan")
    /\ UNCHANGED <<image, made, log, calls>>

(* Mutated form: takes the first descriptor of the range.                  *)
AnyDescriptor(p) == TraceFds

(* The first descriptor of the range on which write(2) says EBADF, which   *)
(* it says of a descriptor open for reading too.                           *)
NotWritable(p) == {f \in TraceFds : fds[p][f] \in {"free", "read"}}

(* The test, dup2 and the assignment of darwintrace_fd as one step: what   *)
(* another thread may open or close between them is left out.              *)
Scan(p, t) ==
    /\ At(p, t, "scan")
    /\ IF NotWritable(p) # {} /\ thread[p][t].fd # Unset
       THEN \E new \in Lowest(NotWritable(p)) :
              /\ fds' = [fds EXCEPT ![p][new] = "log"]
              /\ image' = [image EXCEPT ![p].log_path = TRUE, ![p].fd = new]
              /\ Goto(p, t, "close log")
       ELSE /\ image' = [image EXCEPT ![p].log_path = TRUE]
            /\ Goto(p, t, "get redirect")
            /\ UNCHANGED fds
    /\ UNCHANGED <<made, log, calls>>

(* dup2 has made the descriptor to keep; the first one goes. *)
CloseLog(p, t) ==
    /\ At(p, t, "close log")
    /\ fds' = [fds EXCEPT ![p][thread[p][t].fd] = "free"]
    /\ Goto(p, t, "get redirect")
    /\ UNCHANGED <<image, made, log, calls>>

(* Mutated forms: without the process, without the build root, and without *)
(* the line of the access that made the library set up.                    *)
GetNoPid(p, t) ==
    /\ At(p, t, "get buildroot")
    /\ image' = [image EXCEPT
           ![p].buildroot = "BUILDROOT" \in image[p].env.set,
           ![p].ignores = "IGNORE_ROOTS" \in image[p].env.set,
           ![p].dylib = "darwintrace" \in image[p].env.libs,
           ![p].once = "done"]
    /\ Goto(p, t, AfterSetup(p, t))
    /\ UNCHANGED <<fds, made, log, calls>>

GetNoBuildroot(p, t) ==
    /\ At(p, t, "get buildroot")
    /\ image' = [image EXCEPT ![p].pid = p, ![p].once = "done",
           ![p].ignores = "IGNORE_ROOTS" \in image[p].env.set,
           ![p].dylib = "darwintrace" \in image[p].env.libs]
    /\ Goto(p, t, AfterSetup(p, t))
    /\ UNCHANGED <<fds, made, log, calls>>

GetRedirect(p, t) ==
    /\ At(p, t, "get redirect")
    /\ image' = [image EXCEPT ![p].redirect = "REDIRECT" \in image[p].env.set]
    /\ Goto(p, t, "get buildroot")
    /\ UNCHANGED <<fds, made, log, calls>>

GetBuildroot(p, t) ==
    /\ At(p, t, "get buildroot")
    /\ image' = [image EXCEPT
           ![p].buildroot = "BUILDROOT" \in image[p].env.set,
           ![p].pid = p,
           ![p].ignores = "IGNORE_ROOTS" \in image[p].env.set,
           ![p].dylib = "darwintrace" \in image[p].env.libs,
           ![p].once = "done"]
    /\ Goto(p, t, AfterSetup(p, t))
    /\ UNCHANGED <<fds, made, log, calls>>

(***************************************************************************)
(* The lines of a call.                                                    *)
(***************************************************************************)
Log(p, t) ==
    LET c == thread[p][t]
        path == IF c.op = "open" THEN Resolved(c.path) ELSE cleanup_path(c.path)
    IN  /\ At(p, t, "log")
        /\ IF image[p].fd >= 0 THEN logpath(p, {Line(p, c.op, path)}) ELSE UNCHANGED log
        /\ Return(p, t)
        /\ UNCHANGED <<image, fds, made, calls>>

(* Of an absolute link both names; of a script that can be read its interpreter too. *)
ExecPaths(path, readable) ==
    (IF Head(path) = "/" /\ IsLink(path) THEN {cleanup_path(path)} ELSE {})
    \cup (IF readable THEN {Resolved(path)} ELSE {})
    \cup (IF readable /\ Resolved(path) \in DOMAIN Scripts
          THEN {cleanup_path(Scripts[Resolved(path)])} ELSE {})

LogExec(p, t) ==
    /\ At(p, t, "log exec")
    /\ \E readable \in BOOLEAN :
         LET path  == thread[p][t].path
             paths == IF Exists(path) THEN ExecPaths(path, readable) ELSE {}
         IN  /\ IF image[p].fd >= 0
                THEN logpath(p, {Line(p, "execve", x) : x \in paths}) ELSE UNCHANGED log
             /\ made' = [made EXCEPT ![p] = @ \cup {Access("execve", x) : x \in paths}]
    /\ Goto(p, t, "exec")
    /\ UNCHANGED <<image, fds, calls>>

(* Mutated form: the libraries the program passes are left as they are.    *)
KeepsLibraries(p, e) ==
    [set  |-> (e.set \ {"LOG", "IGNORE_ROOTS"})
              \cup (IF image[p].log_path THEN {"LOG"} ELSE {})
              \cup (IF image[p].ignores THEN {"IGNORE_ROOTS"} ELSE {}),
     libs |-> IF image[p].dylib /\ e.libs = {} THEN {"darwintrace"} ELSE e.libs]

(***************************************************************************)
(* Three variables are forced, from what the set-up saw; whatever the      *)
(* program passes for them is dropped.                                     *)
(***************************************************************************)
make_environ(p, e) ==
    [set  |-> (e.set \ {"LOG", "IGNORE_ROOTS"})
              \cup (IF image[p].log_path THEN {"LOG"} ELSE {})
              \cup (IF image[p].ignores THEN {"IGNORE_ROOTS"} ELSE {}),
     libs |-> IF image[p].dylib THEN e.libs \cup {"darwintrace"} ELSE {}]

(* The log's descriptor is close-on-exec; one left over by a full range is not. *)
AcrossExec(p) ==
    [f \in Fds |-> IF f = image[p].fd /\ fds[p][f] = "log" THEN "free" ELSE fds[p][f]]

Execve(p, t) ==
    LET c == thread[p][t]
    IN  /\ At(p, t, "exec") /\ c.op = "execve" /\ Exists(c.path)
        /\ image' = [image EXCEPT ![p] = Started(make_environ(p, c.env))]
        /\ fds' = [fds EXCEPT ![p] = AcrossExec(p)]
        /\ thread' = [thread EXCEPT ![p] = Alone(t)]
        /\ made' = [made EXCEPT ![p] = {}]
        /\ UNCHANGED <<log, calls>>

PosixSpawn(p, t) ==
    LET c == thread[p][t]
    IN  /\ At(p, t, "exec") /\ c.op = "posix_spawn" /\ Exists(c.path)
        /\ \E q \in Pids :
             /\ image[q].state = "none"
             /\ image' = [image EXCEPT ![q] = Started(make_environ(p, c.env))]
             /\ fds' = [fds EXCEPT ![q] = AcrossExec(p)]
             /\ thread' = [thread EXCEPT ![p][t] = InProgram, ![q] = Alone(t)]
        /\ UNCHANGED <<made, log, calls>>

ExecFails(p, t) ==
    /\ At(p, t, "exec")
    /\ Return(p, t)
    /\ UNCHANGED <<image, fds, made, log, calls>>

(* Mutated form: the child of a fork may close it.                         *)
CloseTestParent(p, t) ==
    /\ At(p, t, "close test")
    /\ IF image[p].fd # Unset /\ thread[p][t].fd = image[p].fd /\ image[p].pid = p
       THEN Return(p, t) ELSE Goto(p, t, "close")
    /\ UNCHANGED <<image, fds, made, log, calls>>

(***************************************************************************)
(* darwintrace_close looks at the descriptor and then closes.              *)
(***************************************************************************)
CloseTest(p, t) ==
    /\ At(p, t, "close test")
    /\ IF image[p].fd # Unset /\ thread[p][t].fd = image[p].fd
       THEN Return(p, t) ELSE Goto(p, t, "close")
    /\ UNCHANGED <<image, fds, made, log, calls>>

Close(p, t) ==
    /\ At(p, t, "close")
    /\ fds' = [fds EXCEPT ![p][thread[p][t].fd] = "free"]
    /\ Return(p, t)
    /\ UNCHANGED <<image, made, log, calls>>
-----------------------------------------------------------------------------
(* What the program does past the library. *)
Fork(p, t) ==
    /\ At(p, t, "program") /\ calls > 0 /\ calls' = calls - 1
    /\ \E q \in Pids :
         /\ image[q].state = "none"
         /\ image' = [image EXCEPT ![q] = image[p]]
         /\ fds' = [fds EXCEPT ![q] = fds[p]]
         /\ thread' = [thread EXCEPT ![q] = Alone(t)]
    /\ UNCHANGED <<made, log>>

Setenv(p, t) ==
    /\ At(p, t, "program") /\ calls > 0 /\ calls' = calls - 1
    /\ \E e \in Settings \ {image[p].env} : image' = [image EXCEPT ![p].env = e]
    /\ UNCHANGED <<fds, thread, made, log>>

Exit(p, t) ==
    /\ At(p, t, "program")
    /\ image' = [image EXCEPT ![p].state = "gone"]
    /\ UNCHANGED <<fds, thread, made, log, calls>>

Setup(p, t) == \/ SetupDone(p, t) \/ SetupStarts(p, t) \/ OpenLog(p, t) \/ Scan(p, t)
               \/ CloseLog(p, t) \/ GetRedirect(p, t) \/ GetBuildroot(p, t)

Library(p, t) == \/ Redirect(p, t) \/ RedirectCrashes(p, t)
                 \/ Open(p, t) \/ Readlink(p, t) \/ CallFails(p, t) \/ Setup(p, t)
                 \/ Log(p, t) \/ LogExec(p, t)
                 \/ Execve(p, t) \/ PosixSpawn(p, t) \/ ExecFails(p, t)
                 \/ CloseTest(p, t) \/ Close(p, t)

Program(p, t) == Call(p, t) \/ Fork(p, t) \/ Setenv(p, t) \/ Exit(p, t)

Next == \E p \in Pids, t \in Threads : Library(p, t) \/ Program(p, t)

(* The kernel goes on running a thread that can run. *)
Fairness == \A p \in Pids, t \in Threads : WF_vars(Library(p, t))

Spec == Init /\ [][Next]_vars /\ Fairness
-----------------------------------------------------------------------------
(* Every variable keeps its form.                                          *)
TypeOK ==
    /\ image \in [Pids -> Image]
    /\ fds \in [Pids -> [Fds -> {"free", "read", "write", "log"}]]
    /\ \A p \in Pids, t \in Threads : thread[p][t].fd \in Fds \cup {Unset}
    /\ \A l \in log : l.pid \in Pids
    /\ calls \in 0..MaxCalls

(* The thread is between an access and its line. *)
Logging(p, t) == thread[p][t].at \in {"setup", "open log", "scan", "close log",
                                      "get redirect", "get buildroot", "log"}

(* While a process has the log open, every access of its program that a    *)
(* build can depend on is in the log, the first one included although the  *)
(* log was opened because of it, unless it is under an ignored root or its *)
(* line is about to be written.                                            *)
NothingMissed == \A p \in Pids :
    /\ image[p].state = "running" /\ image[p].once = "done"
    /\ image[p].fd >= 0 /\ fds[p][image[p].fd] = "log"
    => \A a \in made[p] :
          \/ Line(p, a.tag, a.path) \in log
          \/ Ignored(p, a.path)
          \/ \E t \in Threads : Logging(p, t)

(* The log's descriptor stays the log's: whatever descriptors the program  *)
(* closes, in the image that opened it and in its forked children.         *)
LogKept == \A p \in Pids :
    image[p].state = "running" /\ image[p].fd >= 0 => fds[p][image[p].fd] = "log"

(* Tracing reaches every descendant of a traced process, whatever          *)
(* environment each program passes to the next.                            *)
AllTraced == \A p \in Pids : image[p].state = "running" =>
    image[p].loaded /\ "LOG" \in image[p].env.set

(* A process dies of the library only if it is told to redirect and not    *)
(* where the build root is.                                                *)
CrashExplained == \A p \in Pids : image[p].state = "crashed" =>
    "REDIRECT" \in image[p].env.set /\ "BUILDROOT" \notin image[p].env.set

(* A descriptor the program can write to is lost to the program only when  *)
(* it closes it: setting up takes none of them.                            *)
WritableKept == [][\A p \in Pids, f \in Fds :
    image[p].state = "running" /\ fds[p][f] = "write" /\ fds'[p][f] # "write"
    => \E t \in Threads : At(p, t, "close") /\ thread[p][t].fd = f]_vars

(* A call returns, or the process ends, or it is the child of a fork that  *)
(* another thread's set-up was running in: no thread of it will finish     *)
(* that set-up.                                                            *)
Orphaned(p) ==
    /\ image[p].once = "running" /\ \E t \in Threads : thread[p][t].at = "absent"
    /\ \A t \in Threads : thread[p][t].at \notin
          {"open log", "scan", "close log", "get redirect", "get buildroot"}

CallsReturn == \A p \in Pids, t \in Threads :
    At(p, t, "redirect") ~> \/ thread[p][t].at \in {"program", "absent"}
                            \/ image[p].state # "running" \/ Orphaned(p)
=============================================================================
