----------------------------- MODULE TraceProofs ----------------------------
(***************************************************************************)
(* What darwintrace guarantees for any number of processes, any            *)
(* descriptors, any paths and any environments that programs pass on.      *)
(***************************************************************************)
EXTENDS Trace, TLAPS

Labels == {"program", "absent", "redirect", "call", "setup", "open log", "scan", "close log",
           "get redirect", "get buildroot", "log", "log exec", "exec", "close test", "close"}
NamesOrNone == Names \cup {<<>>}
Redirected  == NamesOrNone \cup {RedirectRoot \o n : n \in NamesOrNone}
Calls == [at : Labels, op : Ops \cup {"none"}, name : NamesOrNone,
          path : Redirected, fd : Fds \cup {Unset}, env : Env]
Uses  == {"free", "read", "write", "log"}

Typed == /\ image \in [Pids -> Image]
         /\ fds \in [Pids -> [Fds -> Uses]]
         /\ thread \in [Pids -> [Threads -> Calls]]

-----------------------------------------------------------------------------
LEMMA DescriptorFacts == /\ Unset \notin Nat /\ Unset \notin Fds
                         /\ TraceFds \subseteq Fds /\ First \in Pids
                         /\ \A f \in Fds : f >= 0
BY TraceAssumption DEF Unset

LEMMA NoEnvType == NoEnv \in Env
BY DEF NoEnv, Env

LEMMA StartedType ==
    ASSUME NEW e \in Env
    PROVE  /\ Started(e) \in Image
           /\ Started(e).state = "running" /\ Started(e).env = e /\ Started(e).once = "no"
           /\ Started(e).loaded = ("darwintrace" \in e.libs)
           /\ Started(e).fd = Unset /\ Started(e).redirect = FALSE
BY DEF Started, Image, Unset

LEMMA UnbornType == Unborn \in Image /\ Unborn.state = "none"
<1> DEFINE s == Started(NoEnv)
<1>1. s \in Image /\ Unborn = [s EXCEPT !.state = "none"]
  BY NoEnvType, StartedType DEF Unborn
<1> HIDE DEF s
<1> QED BY <1>1 DEF Image

LEMMA UnbornOnce ==
    Unborn.once = "no" /\ Unborn.redirect = FALSE /\ Unborn.state = "none"
<1> DEFINE s == Started(NoEnv)
<1>1. s \in Image /\ Unborn = [s EXCEPT !.state = "none"] /\ s.once = "no"
      /\ s.redirect = FALSE
  BY NoEnvType, StartedType DEF Unborn
<1> HIDE DEF s
<1> QED BY <1>1 DEF Image

LEMMA InProgramType == /\ InProgram \in Calls /\ InProgram.at = "program"
                       /\ InProgram.env = NoEnv /\ InProgram.fd = Unset
                       /\ Absent \in Calls /\ Absent.at = "absent"
BY NoEnvType DEF InProgram, Absent, Calls, Labels, Redirected, NamesOrNone

LEMMA AloneType ==
    ASSUME NEW t \in Threads
    PROVE  /\ Alone(t) \in [Threads -> Calls]
           /\ Alone(t)[t] = InProgram
           /\ \A u \in Threads \ {t} : Alone(t)[u] = Absent
BY InProgramType DEF Alone

LEMMA make_environType ==
    ASSUME NEW p \in Pids, Typed, NEW e \in Env
    PROVE  make_environ(p, e) \in Env
<1>1. e.set \subseteq EnvVars /\ e.libs \subseteq {"darwintrace", "other"}
  BY DEF Env
<1> QED BY <1>1 DEF make_environ, Env, EnvVars

LEMMA redirect_pathType == ASSUME NEW n \in NamesOrNone PROVE redirect_path(n) \in Redirected
BY DEF redirect_path, Redirected

(* The three ways in which a step of a library call moves its thread.      *)
LEMMA GotoEffect ==
    ASSUME Typed, NEW p \in Pids, NEW t \in Threads, NEW l \in Labels, Goto(p, t, l)
    PROVE  /\ thread' \in [Pids -> [Threads -> Calls]]
           /\ thread'[p][t] = [thread[p][t] EXCEPT !.at = l]
           /\ thread'[p][t].at = l /\ thread'[p][t].fd = thread[p][t].fd
           /\ thread'[p][t].env = thread[p][t].env /\ thread'[p][t].op = thread[p][t].op
           /\ \A u \in Threads \ {t} : thread'[p][u] = thread[p][u]
           /\ \A q \in Pids \ {p} : thread'[q] = thread[q]
<1> DEFINE c == [thread[p][t] EXCEPT !.at = l]
<1>1. thread[p] \in [Threads -> Calls] /\ thread[p][t] \in Calls
  BY DEF Typed
<1>2. c \in Calls /\ c.at = l /\ c.fd = thread[p][t].fd /\ c.env = thread[p][t].env
      /\ c.op = thread[p][t].op
  BY <1>1 DEF Calls
<1>3. thread' = [thread EXCEPT ![p] = [thread[p] EXCEPT ![t] = c]]
  BY DEF Goto
<1> HIDE DEF c
<1>4. [thread[p] EXCEPT ![t] = c] \in [Threads -> Calls]
  BY <1>1, <1>2
<1>5. thread'[p] = [thread[p] EXCEPT ![t] = c]
  BY <1>3 DEF Typed
<1> QED BY <1>1, <1>2, <1>3, <1>4, <1>5 DEF Typed, c

Moved(p, t, l) == /\ thread'[p][t].at = l
                  /\ \A u \in Threads \ {t} : thread'[p][u] = thread[p][u]
                  /\ \A q \in Pids \ {p} : thread'[q] = thread[q]

LEMMA GotoMoves ==
    ASSUME Typed, NEW p \in Pids, NEW t \in Threads, NEW l \in Labels, Goto(p, t, l)
    PROVE  Moved(p, t, l)
<1> DEFINE c == [thread[p][t] EXCEPT !.at = l]
<1>1. thread' = [thread EXCEPT ![p][t] = c]
  BY DEF Goto
<1>2. c.at = l
  BY DEF Typed, Calls
<1> HIDE DEF c
<1> QED BY <1>1, <1>2 DEF Typed, Moved

LEMMA GotoFd ==
    ASSUME Typed, NEW p \in Pids, NEW t \in Threads, NEW l \in Labels, Goto(p, t, l)
    PROVE  thread'[p][t].fd = thread[p][t].fd
<1> DEFINE c == [thread[p][t] EXCEPT !.at = l]
<1>1. thread' = [thread EXCEPT ![p][t] = c]
  BY DEF Goto
<1>2. c.fd = thread[p][t].fd
  BY DEF Typed, Calls
<1> HIDE DEF c
<1> QED BY <1>1, <1>2 DEF Typed

LEMMA ReturnMoves ==
    ASSUME Typed, NEW p \in Pids, NEW t \in Threads, Return(p, t)
    PROVE  Moved(p, t, "program")
BY InProgramType DEF Typed, Return, Moved

LEMMA ReturnEffect ==
    ASSUME Typed, NEW p \in Pids, NEW t \in Threads, Return(p, t)
    PROVE  /\ thread' \in [Pids -> [Threads -> Calls]]
           /\ thread'[p][t] = InProgram
           /\ \A u \in Threads \ {t} : thread'[p][u] = thread[p][u]
           /\ \A q \in Pids \ {p} : thread'[q] = thread[q]
BY InProgramType DEF Typed, Return

LEMMA CallEffect ==
    ASSUME Typed, NEW p \in Pids, NEW t \in Threads, NEW c \in Calls,
           thread' = [thread EXCEPT ![p][t] = c]
    PROVE  /\ thread' \in [Pids -> [Threads -> Calls]]
           /\ thread'[p][t] = c
           /\ \A u \in Threads \ {t} : thread'[p][u] = thread[p][u]
           /\ \A q \in Pids \ {p} : thread'[q] = thread[q]
BY DEF Typed

(* A descriptor of a process changes its use.                              *)
LEMMA UseEffect ==
    ASSUME Typed, NEW p \in Pids, NEW f \in Fds, NEW use \in Uses,
           fds' = [fds EXCEPT ![p][f] = use]
    PROVE  /\ fds' \in [Pids -> [Fds -> Uses]]
           /\ fds'[p][f] = use
           /\ \A g \in Fds \ {f} : fds'[p][g] = fds[p][g]
           /\ \A q \in Pids \ {p} : fds'[q] = fds[q]
BY DEF Typed

(* So does one of the globals.                                             *)
LEMMA ImageEffect ==
    ASSUME Typed, NEW p \in Pids, NEW i \in Image, image' = [image EXCEPT ![p] = i]
    PROVE  /\ image' \in [Pids -> Image]
           /\ image'[p] = i
           /\ \A q \in Pids \ {p} : image'[q] = image[q]
BY DEF Typed

LEMMA Here ==
    ASSUME Typed, NEW p \in Pids, NEW t \in Threads
    PROVE  /\ image[p] \in Image /\ fds[p] \in [Fds -> Uses] /\ thread[p] \in [Threads -> Calls]
           /\ thread[p][t] \in Calls
BY DEF Typed

-----------------------------------------------------------------------------
(* The steps, by what they change.                                         *)
LEMMA InitTyped == Init => Typed
<1> SUFFICES ASSUME Init PROVE Typed
  OBVIOUS
<1>1. PICK e \in InitialEnvs :
          /\ image = [p \in Pids |-> IF p = First THEN Started(e) ELSE Unborn]
          /\ fds = [p \in Pids |-> IF p = First THEN Inherited ELSE [f \in Fds |-> "free"]]
          /\ thread = [p \in Pids |-> IF p = First THEN [t \in Threads |-> InProgram]
                                                   ELSE [t \in Threads |-> Absent]]
  BY DEF Init
<1>2. image \in [Pids -> Image]
  BY <1>1, EnvAssumption, StartedType, UnbornType
<1>3. fds \in [Pids -> [Fds -> Uses]]
  BY <1>1, InheritedAssumption DEF Uses
<1>4. thread \in [Pids -> [Threads -> Calls]]
  BY <1>1, InProgramType
<1> QED BY <1>2, <1>3, <1>4 DEF Typed

LEMMA CallShape ==
    ASSUME NEW p \in Pids, NEW t \in Threads, Call(p, t)
    PROVE  \E c \in Calls :
               /\ \/ c.at = "redirect" /\ c.fd = Unset
                  \/ c.at = "close test" /\ c.fd \in Fds
               /\ Called(p, t, c)
<1> DEFINE a(op, name) == [InProgram EXCEPT !.at = "redirect", !.op = op, !.name = name]
           b(op, name, e) ==
               [InProgram EXCEPT !.at = "redirect", !.op = op, !.name = name, !.env = e]
           d(op, f) == [InProgram EXCEPT !.at = "close test", !.op = op, !.fd = f]
<1>1. ASSUME NEW op \in Ops, NEW name \in Names
      PROVE  a(op, name) \in Calls /\ a(op, name).at = "redirect" /\ a(op, name).fd = Unset
  BY InProgramType DEF Calls, Labels, NamesOrNone
<1>2. ASSUME NEW op \in Ops, NEW name \in Names, NEW e \in Envs
      PROVE  /\ b(op, name, e) \in Calls /\ b(op, name, e).at = "redirect"
             /\ b(op, name, e).fd = Unset
  BY InProgramType, EnvAssumption DEF Calls, Labels, NamesOrNone
<1>3. ASSUME NEW op \in Ops, NEW f \in Fds
      PROVE  d(op, f) \in Calls /\ d(op, f).at = "close test" /\ d(op, f).fd = f
  BY InProgramType DEF Calls, Labels, NamesOrNone
<1>4. \/ \E op \in Ops, name \in Names : Called(p, t, a(op, name))
      \/ \E op \in Ops, name \in Names, e \in Envs : Called(p, t, b(op, name, e))
      \/ \E op \in Ops, f \in Fds : Called(p, t, d(op, f))
  BY DEF Call
<1> HIDE DEF a, b, d
<1>5. CASE \E op \in Ops, name \in Names : Called(p, t, a(op, name))
  <2>1. PICK op \in Ops, name \in Names : Called(p, t, a(op, name))
    BY <1>5
  <2> DEFINE c == a(op, name)
  <2>2. c \in Calls /\ c.at = "redirect" /\ c.fd = Unset
    BY <1>1
  <2>3. Called(p, t, c)
    BY <2>1
  <2> HIDE DEF c
  <2> QED BY <2>2, <2>3
<1>6. CASE \E op \in Ops, name \in Names, e \in Envs : Called(p, t, b(op, name, e))
  <2>1. PICK op \in Ops, name \in Names, e \in Envs : Called(p, t, b(op, name, e))
    BY <1>6
  <2> DEFINE c == b(op, name, e)
  <2>2. c \in Calls /\ c.at = "redirect" /\ c.fd = Unset
    BY <1>2
  <2>3. Called(p, t, c)
    BY <2>1
  <2> HIDE DEF c
  <2> QED BY <2>2, <2>3
<1>7. CASE \E op \in Ops, f \in Fds : Called(p, t, d(op, f))
  <2>1. PICK op \in Ops, f \in Fds : Called(p, t, d(op, f))
    BY <1>7
  <2>2. d(op, f) \in Calls /\ d(op, f).at = "close test" /\ d(op, f).fd \in Fds
    BY <1>3
  <2> QED BY <2>1, <2>2
<1> QED BY <1>4, <1>5, <1>6, <1>7

LEMMA CallTyped == ASSUME Typed, NEW p \in Pids, NEW t \in Threads, Call(p, t) PROVE Typed'
<1>1. PICK c \in Calls : Called(p, t, c)
  BY CallShape
<1>2. thread' = [thread EXCEPT ![p][t] = c] /\ UNCHANGED <<image, fds>>
  BY <1>1 DEF Called
<1> QED BY <1>2, CallEffect DEF Typed

LEMMA RedirectTyped == ASSUME Typed, NEW p \in Pids, NEW t \in Threads, Redirect(p, t) PROVE Typed'
<1> DEFINE c == thread[p][t]
           next == IF c.op \in {"execve", "posix_spawn"} THEN "setup" ELSE "call"
           path == IF image[p].redirect THEN redirect_path(c.name) ELSE c.name
           d == [[c EXCEPT !.at = next] EXCEPT !.path = path]
<1>1. c \in Calls
  BY Here
<1>2. path \in Redirected
  BY <1>1, redirect_pathType DEF Calls, Redirected
<1>3. next \in Labels
  BY DEF Labels
<1>4. thread' = [thread EXCEPT ![p][t] = d]
  BY Here DEF Redirect, Typed
<1> HIDE DEF path, next
<1>5. d \in Calls
  BY <1>1, <1>2, <1>3 DEF Calls
<1> HIDE DEF c, d
<1>6. thread' \in [Pids -> [Threads -> Calls]]
  BY <1>4, <1>5, CallEffect
<1> QED BY <1>6 DEF Redirect, Typed

LEMMA QuietTyped ==
    ASSUME Typed, NEW p \in Pids, NEW t \in Threads,
           \/ CallFails(p, t) \/ SetupDone(p, t) \/ Log(p, t) \/ LogExec(p, t) \/ ExecFails(p, t)
           \/ CloseTest(p, t) \/ Readlink(p, t)
    PROVE  /\ Typed' /\ UNCHANGED <<image, fds>>
           /\ \/ Return(p, t)
              \/ \E l \in {"setup", "log", "log exec", "exec", "close"} : Goto(p, t, l)
<1>1. /\ UNCHANGED <<image, fds>>
      /\ \/ Return(p, t)
         \/ \E l \in {"setup", "log", "log exec", "exec", "close"} : Goto(p, t, l)
  BY DEF CallFails, SetupDone, Log, LogExec, ExecFails, CloseTest, Readlink, AfterSetup
<1> QED BY <1>1, GotoEffect, ReturnEffect DEF Typed, Labels

LEMMA OpenTyped == ASSUME Typed, NEW p \in Pids, NEW t \in Threads, Open(p, t) PROVE Typed'
<1>1. PICK f \in Fds, use \in Uses : fds' = [fds EXCEPT ![p][f] = use]
  BY DEF Open, Lowest, Free, Uses
<1>2. Return(p, t) \/ Goto(p, t, "setup")
  BY DEF Open
<1> QED BY <1>1, <1>2, UseEffect, GotoEffect, ReturnEffect DEF Open, Typed, Labels

LEMMA SetupStartsTyped ==
    ASSUME Typed, NEW p \in Pids, NEW t \in Threads, SetupStarts(p, t) PROVE Typed'
<1> DEFINE i == [image[p] EXCEPT !.once = "running"]
<1>1. i \in Image
  BY Here DEF Image
<1>2. image' = [image EXCEPT ![p] = i]
  BY DEF SetupStarts
<1> HIDE DEF i
<1>3. Goto(p, t, "open log") \/ Goto(p, t, "get redirect")
  BY DEF SetupStarts
<1>4. image' \in [Pids -> Image]
  BY <1>1, <1>2, ImageEffect
<1>5. thread' \in [Pids -> [Threads -> Calls]]
  BY <1>3, GotoEffect DEF Labels
<1> QED BY <1>4, <1>5 DEF SetupStarts, Typed

LEMMA OpenLogTyped == ASSUME Typed, NEW p \in Pids, NEW t \in Threads, OpenLog(p, t) PROVE Typed'
<1>1. CASE UNCHANGED fds /\ Goto(p, t, "scan")
  BY <1>1, GotoEffect DEF OpenLog, Typed, Labels
<1>2. ASSUME NEW f \in Fds, fds' = [fds EXCEPT ![p][f] = "log"],
             thread' = [thread EXCEPT ![p][t].at = "scan", ![p][t].fd = f]
      PROVE  Typed'
  <2> DEFINE d == [[thread[p][t] EXCEPT !.at = "scan"] EXCEPT !.fd = f]
  <2>1. d \in Calls
    <3> DEFINE c == [thread[p][t] EXCEPT !.at = "scan"]
    <3>1. "scan" \in Labels
      BY DEF Labels
    <3>2. c \in Calls
      BY <3>1, Here DEF Calls
    <3>3. d = [c EXCEPT !.fd = f]
      OBVIOUS
    <3> HIDE DEF c, d
    <3> QED BY <3>2, <3>3 DEF Calls
  <2>2. thread' = [thread EXCEPT ![p][t] = d]
    BY <1>2, Here DEF Typed
  <2> HIDE DEF d
  <2>3. thread' \in [Pids -> [Threads -> Calls]]
    BY <2>1, <2>2, CallEffect
  <2>4. fds' \in [Pids -> [Fds -> Uses]]
    BY <1>2, UseEffect DEF Uses
  <2> QED BY <2>3, <2>4 DEF OpenLog, Typed
<1> QED BY <1>1, <1>2 DEF OpenLog, Lowest, Free

LEMMA ScanTyped == ASSUME Typed, NEW p \in Pids, NEW t \in Threads, Scan(p, t) PROVE Typed'
<1>1. ASSUME NEW f \in TraceFds, fds' = [fds EXCEPT ![p][f] = "log"],
             image' = [image EXCEPT ![p].log_path = TRUE, ![p].fd = f], Goto(p, t, "close log")
      PROVE  Typed'
  <2> DEFINE i == [[image[p] EXCEPT !.log_path = TRUE] EXCEPT !.fd = f]
  <2>1. i \in Image
    BY Here DEF Image
  <2>2. image' = [image EXCEPT ![p] = i]
    BY <1>1 DEF Typed
  <2> HIDE DEF i
  <2>3. image' \in [Pids -> Image]
    BY <2>1, <2>2, ImageEffect
  <2>4. thread' \in [Pids -> [Threads -> Calls]]
    BY <1>1, GotoEffect DEF Labels
  <2>5. fds' \in [Pids -> [Fds -> Uses]]
    BY <1>1, UseEffect, DescriptorFacts DEF Uses
  <2> QED BY <2>3, <2>4, <2>5 DEF Typed
<1>2. CASE image' = [image EXCEPT ![p].log_path = TRUE] /\ Goto(p, t, "get redirect") /\ UNCHANGED fds
  <2> DEFINE i == [image[p] EXCEPT !.log_path = TRUE]
  <2>1. i \in Image
    BY Here DEF Image
  <2>2. image' = [image EXCEPT ![p] = i]
    BY <1>2
  <2> HIDE DEF i
  <2>3. image' \in [Pids -> Image]
    BY <2>1, <2>2, ImageEffect
  <2>4. thread' \in [Pids -> [Threads -> Calls]]
    BY <1>2, GotoEffect DEF Labels
  <2> QED BY <1>2, <2>3, <2>4 DEF Typed
<1> QED BY <1>1, <1>2 DEF Scan, Lowest, NotWritable

LEMMA ScanEffect ==
    ASSUME Typed, NEW p \in Pids, NEW t \in Threads, Scan(p, t)
    PROVE  /\ \A q \in Pids \ {p} : image'[q] = image[q]
           /\ \/ image'[p] = [image[p] EXCEPT !.log_path = TRUE]
              \/ \E f \in TraceFds : image'[p] = [[image[p] EXCEPT !.log_path = TRUE] EXCEPT !.fd = f]
<1>1. CASE image' = [image EXCEPT ![p].log_path = TRUE]
  BY <1>1 DEF Typed
<1>2. ASSUME NEW f \in TraceFds, image' = [image EXCEPT ![p].log_path = TRUE, ![p].fd = f]
      PROVE  /\ \A q \in Pids \ {p} : image'[q] = image[q]
             /\ image'[p] = [[image[p] EXCEPT !.log_path = TRUE] EXCEPT !.fd = f]
  BY <1>2 DEF Typed
<1> QED BY <1>1, <1>2 DEF Scan, Lowest, NotWritable

LEMMA CloseLogTyped == ASSUME Typed, NEW p \in Pids, NEW t \in Threads, CloseLog(p, t) PROVE Typed'
<1>1. Goto(p, t, "get redirect") /\ UNCHANGED image
  BY DEF CloseLog
<1>2. fds' \in [Pids -> [Fds -> Uses]]
  BY Here DEF CloseLog, Typed, Uses
<1> QED BY <1>1, <1>2, GotoEffect DEF Typed, Labels

LEMMA GetRedirectTyped ==
    ASSUME Typed, NEW p \in Pids, NEW t \in Threads, GetRedirect(p, t) PROVE Typed'
<1> DEFINE b == "REDIRECT" \in image[p].env.set
           i == [image[p] EXCEPT !.redirect = b]
<1>1. image' = [image EXCEPT ![p] = i]
  BY DEF GetRedirect
<1>2. b \in BOOLEAN
  OBVIOUS
<1> HIDE DEF b
<1>3. i \in Image
  BY <1>2, Here DEF Image
<1> HIDE DEF i
<1>4. image' \in [Pids -> Image]
  BY <1>1, <1>3, ImageEffect
<1>5. thread' \in [Pids -> [Threads -> Calls]]
  BY GotoEffect DEF GetRedirect, Labels
<1> QED BY <1>4, <1>5 DEF GetRedirect, Typed

(* The globals after the set-up.                                           *)
SetUp(p) == [image[p] EXCEPT !.buildroot = "BUILDROOT" \in image[p].env.set,
                             !.pid = p,
                             !.ignores = "IGNORE_ROOTS" \in image[p].env.set,
                             !.dylib = "darwintrace" \in image[p].env.libs,
                             !.once = "done"]

LEMMA GetBuildrootEffect ==
    ASSUME Typed, NEW p \in Pids, NEW t \in Threads, GetBuildroot(p, t)
    PROVE  Typed' /\ image' = [image EXCEPT ![p] = SetUp(p)] /\ SetUp(p) \in Image
<1>1. SetUp(p) \in Image
  <2> DEFINE b(v) == v \in image[p].env.set
             l    == "darwintrace" \in image[p].env.libs
             i1 == [image[p] EXCEPT !.buildroot = b("BUILDROOT")]
             i2 == [i1 EXCEPT !.pid = p]
             i3 == [i2 EXCEPT !.ignores = b("IGNORE_ROOTS")]
             i4 == [i3 EXCEPT !.dylib = l]
             i5 == [i4 EXCEPT !.once = "done"]
  <2>1. SetUp(p) = i5
    BY Here DEF SetUp, Image
  <2>2. l \in BOOLEAN /\ \A v : b(v) \in BOOLEAN
    OBVIOUS
  <2> HIDE DEF b, l
  <2>3. i1 \in Image
    BY <2>2, Here DEF Image
  <2> HIDE DEF i1
  <2>4. i2 \in Image
    BY <2>3 DEF Image
  <2> HIDE DEF i2
  <2>5. i3 \in Image
    BY <2>2, <2>4 DEF Image
  <2> HIDE DEF i3
  <2>6. i4 \in Image
    BY <2>2, <2>5 DEF Image
  <2> HIDE DEF i4
  <2>7. i5 \in Image
    BY <2>6 DEF Image
  <2> QED BY <2>1, <2>7
<1>2. image' = [image EXCEPT ![p] = SetUp(p)]
  BY DEF GetBuildroot, SetUp, Typed
<1>3. AfterSetup(p, t) \in Labels
  BY DEF AfterSetup, Labels
<1>4. image' \in [Pids -> Image]
  BY <1>1, <1>2, ImageEffect
<1>5. thread' \in [Pids -> [Threads -> Calls]]
  BY <1>3, GotoEffect DEF GetBuildroot
<1> QED BY <1>1, <1>2, <1>4, <1>5 DEF GetBuildroot, Typed

LEMMA CloseTyped == ASSUME Typed, NEW p \in Pids, NEW t \in Threads, Close(p, t) PROVE Typed'
<1>1. fds' \in [Pids -> [Fds -> Uses]]
  BY Here DEF Close, Typed, Uses
<1> QED BY <1>1, ReturnEffect DEF Close, Typed

LEMMA AcrossExecType ==
    ASSUME Typed, NEW p \in Pids
    PROVE  /\ AcrossExec(p) \in [Fds -> Uses]
           /\ \A f \in Fds : AcrossExec(p)[f] # fds[p][f] =>
                 fds[p][f] = "log" /\ f = image[p].fd /\ AcrossExec(p)[f] = "free"
BY Here DEF AcrossExec, Uses, Typed

(* A new program in its process, or in a new one.                          *)
LEMMA ExecveEffect ==
    ASSUME Typed, NEW p \in Pids, NEW t \in Threads, Execve(p, t)
    PROVE  /\ Typed'
           /\ image'[p] = Started(make_environ(p, thread[p][t].env))
           /\ make_environ(p, thread[p][t].env) \in Env
           /\ \A q \in Pids \ {p} : image'[q] = image[q]
           /\ fds'[p] = AcrossExec(p) /\ \A q \in Pids \ {p} : fds'[q] = fds[q]
           /\ thread'[p] = Alone(t) /\ \A q \in Pids \ {p} : thread'[q] = thread[q]
<1> DEFINE e == make_environ(p, thread[p][t].env)
<1>1. e \in Env
  BY Here, make_environType DEF Calls
<1> HIDE DEF e
<1>2. Started(e) \in Image
  BY <1>1, StartedType
<1>3. /\ image' = [image EXCEPT ![p] = Started(e)]
      /\ fds' = [fds EXCEPT ![p] = AcrossExec(p)]
      /\ thread' = [thread EXCEPT ![p] = Alone(t)]
  BY DEF Execve, e
<1>4. AcrossExec(p) \in [Fds -> Uses] /\ Alone(t) \in [Threads -> Calls]
  BY AcrossExecType, AloneType
<1>5. Typed'
  BY <1>2, <1>3, <1>4 DEF Typed
<1>6. e = make_environ(p, thread[p][t].env)
  BY DEF e
<1> QED BY <1>1, <1>3, <1>5, <1>6 DEF Typed

(* Process q is new, started by thread t of p with environment e.          *)
Spawned(p, t, q, e) ==
    /\ image[q].state = "none"
    /\ image'[q] = Started(e)
    /\ \A r \in Pids \ {q} : image'[r] = image[r] /\ fds'[r] = fds[r]
    /\ fds'[q] = AcrossExec(p)
    /\ thread'[q] = Alone(t) /\ thread'[p][t] = InProgram
    /\ \A u \in Threads \ {t} : thread'[p][u] = thread[p][u]
    /\ \A r \in Pids \ {p, q} : thread'[r] = thread[r]

LEMMA PosixSpawnEffect ==
    ASSUME Typed, NEW p \in Pids, NEW t \in Threads, PosixSpawn(p, t)
    PROVE  /\ Typed' /\ make_environ(p, thread[p][t].env) \in Env
           /\ \E q \in Pids \ {p} : Spawned(p, t, q, make_environ(p, thread[p][t].env))
<1> DEFINE e == make_environ(p, thread[p][t].env)
<1>1. e \in Env
  BY Here, make_environType DEF Calls
<1> HIDE DEF e
<1>2. Started(e) \in Image
  BY <1>1, StartedType
<1>3. PICK q \in Pids :
        /\ image[q].state = "none" /\ image[p].state = "running"
        /\ image' = [image EXCEPT ![q] = Started(e)]
        /\ fds' = [fds EXCEPT ![q] = AcrossExec(p)]
        /\ thread' = [thread EXCEPT ![p][t] = InProgram, ![q] = Alone(t)]
  BY DEF PosixSpawn, At, e
<1>4. AcrossExec(p) \in [Fds -> Uses] /\ Alone(t) \in [Threads -> Calls] /\ InProgram \in Calls
  BY AcrossExecType, AloneType, InProgramType
<1>5. q # p
  BY <1>3
<1>6. image' \in [Pids -> Image] /\ fds' \in [Pids -> [Fds -> Uses]]
  BY <1>2, <1>3, <1>4 DEF Typed
<1>7. thread' \in [Pids -> [Threads -> Calls]]
  BY <1>3, <1>4, <1>5 DEF Typed
<1>8. /\ thread'[q] = Alone(t) /\ thread'[p][t] = InProgram
      /\ \A u \in Threads \ {t} : thread'[p][u] = thread[p][u]
      /\ \A r \in Pids \ {p, q} : thread'[r] = thread[r]
  BY <1>3, <1>5 DEF Typed
<1>9. e = make_environ(p, thread[p][t].env)
  BY DEF e
<1>10. \A r \in Pids \ {q} : image'[r] = image[r] /\ fds'[r] = fds[r]
  BY <1>3 DEF Typed
<1>11. image'[q] = Started(e) /\ fds'[q] = AcrossExec(p)
  BY <1>3 DEF Typed
<1>12. Spawned(p, t, q, e)
  BY <1>3, <1>8, <1>10, <1>11 DEF Spawned
<1> QED BY <1>1, <1>5, <1>6, <1>7, <1>9, <1>12 DEF Typed

LEMMA ForkEffect ==
    ASSUME Typed, NEW p \in Pids, NEW t \in Threads, Fork(p, t)
    PROVE  /\ Typed'
           /\ \E q \in Pids \ {p} :
                /\ image[q].state = "none"
                /\ image'[q] = image[p] /\ fds'[q] = fds[p] /\ thread'[q] = Alone(t)
                /\ \A r \in Pids \ {q} : /\ image'[r] = image[r] /\ fds'[r] = fds[r]
                                         /\ thread'[r] = thread[r]
<1>1. PICK q \in Pids :
        /\ image[q].state = "none" /\ image[p].state = "running"
        /\ image' = [image EXCEPT ![q] = image[p]]
        /\ fds' = [fds EXCEPT ![q] = fds[p]]
        /\ thread' = [thread EXCEPT ![q] = Alone(t)]
  BY DEF Fork, At
<1>2. Alone(t) \in [Threads -> Calls] /\ q # p
  BY <1>1, AloneType
<1> QED BY <1>1, <1>2 DEF Typed

LEMMA StateTyped ==
    ASSUME Typed, NEW p \in Pids, NEW t \in Threads, Exit(p, t) \/ RedirectCrashes(p, t)
    PROVE  /\ Typed' /\ UNCHANGED <<fds, thread>>
           /\ \E s \in {"gone", "crashed"} : image'[p] = [image[p] EXCEPT !.state = s]
           /\ \A q \in Pids \ {p} : image'[q] = image[q]
<1>1. PICK s \in {"gone", "crashed"} : image' = [image EXCEPT ![p] = [image[p] EXCEPT !.state = s]]
  BY DEF Exit, RedirectCrashes
<1> DEFINE i == [image[p] EXCEPT !.state = s]
<1>2. i \in Image
  BY Here DEF Image
<1>3. i = [image[p] EXCEPT !.state = s]
  OBVIOUS
<1> HIDE DEF i
<1>4. image' \in [Pids -> Image] /\ image'[p] = i /\ \A q \in Pids \ {p} : image'[q] = image[q]
  BY <1>1, <1>2, <1>3, ImageEffect
<1> QED BY <1>3, <1>4 DEF Exit, RedirectCrashes, Typed

LEMMA StateKept ==
    ASSUME Typed, NEW p \in Pids, NEW t \in Threads, Exit(p, t) \/ RedirectCrashes(p, t)
    PROVE  /\ image'[p].state \in {"gone", "crashed"}
           /\ image'[p].once = image[p].once /\ image'[p].fd = image[p].fd
           /\ image'[p].pid = image[p].pid /\ image'[p].ignores = image[p].ignores
<1>1. PICK s \in {"gone", "crashed"} : image'[p] = [image[p] EXCEPT !.state = s]
  BY StateTyped
<1> QED BY <1>1, Here DEF Image

LEMMA SetenvEffect ==
    ASSUME Typed, NEW p \in Pids, NEW t \in Threads, Setenv(p, t)
    PROVE  /\ Typed' /\ UNCHANGED <<fds, thread>>
           /\ \E e \in Settings : image'[p] = [image[p] EXCEPT !.env = e]
           /\ \A q \in Pids \ {p} : image'[q] = image[q]
<1>1. PICK e \in Settings : image' = [image EXCEPT ![p] = [image[p] EXCEPT !.env = e]]
  BY DEF Setenv
<1> DEFINE i == [image[p] EXCEPT !.env = e]
<1>2. i \in Image
  BY Here, EnvAssumption DEF Image
<1>3. i = [image[p] EXCEPT !.env = e]
  OBVIOUS
<1> HIDE DEF i
<1>4. image' \in [Pids -> Image] /\ image'[p] = i /\ \A q \in Pids \ {p} : image'[q] = image[q]
  BY <1>1, <1>2, <1>3, ImageEffect
<1> QED BY <1>1, <1>3, <1>4 DEF Setenv, Typed

LEMMA NextTyped == Typed /\ [Next]_vars => Typed'
<1> SUFFICES ASSUME Typed, [Next]_vars PROVE Typed'
  OBVIOUS
<1>1. ASSUME NEW p \in Pids, NEW t \in Threads, Library(p, t) \/ Program(p, t) PROVE Typed'
  <2>1. CASE Program(p, t)
    BY <2>1, CallTyped, ForkEffect, SetenvEffect, StateTyped DEF Program
  <2>2. CASE Setup(p, t)
    BY <2>2, QuietTyped, SetupStartsTyped, OpenLogTyped, ScanTyped, CloseLogTyped,
       GetRedirectTyped, GetBuildrootEffect DEF Setup
  <2>3. CASE Library(p, t) /\ ~Setup(p, t)
    BY <2>3, QuietTyped, RedirectTyped, StateTyped, OpenTyped, ExecveEffect, PosixSpawnEffect,
       CloseTyped DEF Library
  <2> QED BY <1>1, <2>1, <2>2, <2>3
<1>2. CASE UNCHANGED vars
  BY <1>2 DEF vars, Typed
<1> QED BY <1>1, <1>2 DEF Next

(* Every process, descriptor and thread keeps its form.                    *)
THEOREM TraceTypes == Spec => []Typed
BY InitTyped, NextTyped, PTL DEF Spec

-----------------------------------------------------------------------------
(* Tracing is handed down.                                                 *)
TracedSettings ==
    \A e \in Settings \cup InitialEnvs : "LOG" \in e.set /\ "darwintrace" \in e.libs

TracedAt(p) == image[p].state # "none" =>
    /\ image[p].loaded /\ "LOG" \in image[p].env.set /\ "darwintrace" \in image[p].env.libs
    /\ image[p].once = "done" => image[p].log_path /\ image[p].dylib
    /\ \A t \in Threads :
         /\ thread[p][t].at \in {"close log", "get redirect", "get buildroot"}
            => image[p].log_path
         /\ thread[p][t].at \in {"log exec", "exec"} => image[p].once = "done"

Tracing == \A p \in Pids : TracedAt(p)

LEMMA StartedTraced ==
    ASSUME NEW e \in Env, "LOG" \in e.set, "darwintrace" \in e.libs, NEW p \in Pids, NEW t \in Threads,
           image'[p] = Started(e), thread'[p] = Alone(t)
    PROVE  TracedAt(p)'
<1>1. \A u \in Threads : thread'[p][u].at \in {"program", "absent"}
  BY AloneType, InProgramType
<1>2. Started(e).loaded /\ Started(e).env = e /\ Started(e).once = "no"
  BY DEF Started
<1> QED BY <1>1, <1>2 DEF TracedAt

LEMMA OthersTraced ==
    ASSUME Tracing, NEW p \in Pids, TracedAt(p)',
           \A q \in Pids \ {p} : image'[q] = image[q] /\ thread'[q] = thread[q]
    PROVE  Tracing'
<1>1. \A q \in Pids \ {p} : TracedAt(q)'
  BY DEF Tracing, TracedAt
<1> QED BY <1>1 DEF Tracing

(* A step of one thread that leaves the globals alone.                     *)
LEMMA MoveTraced ==
    ASSUME Tracing, NEW p \in Pids, NEW t \in Threads, UNCHANGED image,
           NEW l, Moved(p, t, l),
           l \in {"close log", "get redirect", "get buildroot"} => image[p].log_path,
           l \in {"log exec", "exec"} => image[p].once = "done"
    PROVE  Tracing'
<1>1. TracedAt(p)'
  BY DEF Tracing, TracedAt, Moved
<1>2. \A q \in Pids \ {p} : image'[q] = image[q] /\ thread'[q] = thread[q]
  BY DEF Moved
<1> QED BY <1>1, <1>2, OthersTraced

LEMMA LibraryTraced ==
    ASSUME Typed, Tracing, NEW p \in Pids, NEW t \in Threads, Library(p, t)
    PROVE  Tracing'
<1> DEFINE e == make_environ(p, thread[p][t].env)
<1>0. image[p].state = "running" /\ TracedAt(p) /\ image[p] \in Image
  BY Here DEF Library, Setup, At, Tracing, Redirect, RedirectCrashes, Open, Readlink, CallFails,
              SetupDone, SetupStarts, OpenLog, Scan, CloseLog, GetRedirect, GetBuildroot, Log,
              LogExec, Execve, PosixSpawn, ExecFails, CloseTest, Close
<1>1. CASE CallFails(p, t) \/ Log(p, t) \/ ExecFails(p, t) \/ Close(p, t)
  <2>1. Return(p, t) /\ UNCHANGED image
    BY <1>1 DEF CallFails, Log, ExecFails, Close
  <2>2. Moved(p, t, "program")
    BY <2>1, ReturnMoves
  <2> QED BY <2>1, <2>2, MoveTraced
<1>2. CASE SetupDone(p, t) \/ LogExec(p, t)
  <2>1. PICK l \in Labels : Goto(p, t, l) /\ l \in {"log", "log exec", "exec"}
    BY <1>2 DEF SetupDone, AfterSetup, LogExec, Labels
  <2>2. image[p].once = "done" /\ UNCHANGED image
    BY <1>0, <1>2 DEF SetupDone, LogExec, At, TracedAt
  <2>3. Moved(p, t, l)
    BY <2>1, GotoMoves
  <2> QED BY <2>1, <2>2, <2>3, MoveTraced
<1>3. CASE CloseTest(p, t) \/ Readlink(p, t) \/ Open(p, t)
  <2>1. UNCHANGED image /\ (Return(p, t) \/ \E l \in {"setup", "close"} : Goto(p, t, l))
    BY <1>3 DEF CloseTest, Readlink, Open
  <2>2. PICK l \in {"program", "setup", "close"} : Moved(p, t, l)
    BY <2>1, ReturnMoves, GotoMoves DEF Labels
  <2> QED BY <2>1, <2>2, MoveTraced
<1>4. CASE Redirect(p, t)
  <2>1. UNCHANGED image
    BY <1>4 DEF Redirect
  <2>2. PICK l \in {"setup", "call"} : Moved(p, t, l)
    BY <1>4, Here DEF Redirect, Typed, Calls, Moved
  <2> QED BY <2>1, <2>2, MoveTraced
<1>5. CASE OpenLog(p, t)
  <2>1. UNCHANGED image
    BY <1>5 DEF OpenLog
  <2>2. CASE Goto(p, t, "scan")
    <3>1. Moved(p, t, "scan")
      BY <2>2, GotoMoves DEF Labels
    <3> QED BY <2>1, <3>1, MoveTraced
  <2>3. CASE \E f \in Fds : thread' = [thread EXCEPT ![p][t].at = "scan", ![p][t].fd = f]
    <3>1. PICK f \in Fds : thread' = [thread EXCEPT ![p][t].at = "scan", ![p][t].fd = f]
      BY <2>3
    <3> DEFINE d == [[thread[p][t] EXCEPT !.at = "scan"] EXCEPT !.fd = f]
    <3>2. thread' = [thread EXCEPT ![p][t] = d]
      BY <3>1 DEF Typed
    <3>3. d.at = "scan"
      BY Here DEF Calls
    <3> HIDE DEF d
    <3>4. Moved(p, t, "scan")
      BY <3>2, <3>3 DEF Typed, Moved
    <3> QED BY <2>1, <3>4, MoveTraced
  <2> QED BY <1>5, <2>2, <2>3 DEF OpenLog, Lowest, Free
<1>6. CASE CloseLog(p, t)
  <2>1. Goto(p, t, "get redirect") /\ UNCHANGED image /\ image[p].log_path
    BY <1>0, <1>6 DEF CloseLog, At, TracedAt
  <2>2. Moved(p, t, "get redirect")
    BY <2>1, GotoMoves DEF Labels
  <2> QED BY <2>1, <2>2, MoveTraced
<1>7. CASE SetupStarts(p, t)
  <2>1. /\ Goto(p, t, "open log") /\ image[p].once = "no"
        /\ image' = [image EXCEPT ![p] = [image[p] EXCEPT !.once = "running"]]
    BY <1>0, <1>7 DEF SetupStarts, TracedAt
  <2>2. Moved(p, t, "open log")
    BY <2>1, GotoMoves DEF Labels
  <2>3. /\ \A q \in Pids \ {p} : image'[q] = image[q]
        /\ image'[p].state = "running" /\ image'[p].loaded = image[p].loaded
        /\ image'[p].env = image[p].env /\ image'[p].once = "running"
        /\ image'[p].log_path = image[p].log_path
    BY <1>0, <2>1 DEF Typed, Image
  <2>4. TracedAt(p)'
    BY <1>0, <2>1, <2>2, <2>3 DEF TracedAt, Moved
  <2>5. \A q \in Pids \ {p} : thread'[q] = thread[q]
    BY <2>2 DEF Moved
  <2> QED BY <2>3, <2>4, <2>5, OthersTraced
<1>8. CASE Scan(p, t)
  <2>1. PICK l \in {"close log", "get redirect"} : Goto(p, t, l)
    BY <1>8 DEF Scan
  <2>2. Moved(p, t, l)
    BY <2>1, GotoMoves DEF Labels
  <2>3. /\ \A q \in Pids \ {p} : image'[q] = image[q]
        /\ image'[p].state = "running" /\ image'[p].loaded = image[p].loaded
        /\ image'[p].env = image[p].env /\ image'[p].once = image[p].once
        /\ image'[p].log_path = TRUE /\ image'[p].dylib = image[p].dylib
    <3>1. /\ \A q \in Pids \ {p} : image'[q] = image[q]
          /\ \/ image'[p] = [image[p] EXCEPT !.log_path = TRUE]
             \/ \E f \in TraceFds : image'[p] = [[image[p] EXCEPT !.log_path = TRUE] EXCEPT !.fd = f]
      BY <1>8, ScanEffect
    <3>2. CASE image'[p] = [image[p] EXCEPT !.log_path = TRUE]
      BY <1>0, <3>1, <3>2 DEF Image
    <3>3. CASE \E f \in TraceFds : image'[p] = [[image[p] EXCEPT !.log_path = TRUE] EXCEPT !.fd = f]
      BY <1>0, <3>1, <3>3 DEF Image
    <3> QED BY <3>1, <3>2, <3>3
  <2>4. TracedAt(p)'
    BY <1>0, <2>2, <2>3 DEF TracedAt, Moved
  <2>5. \A q \in Pids \ {p} : thread'[q] = thread[q]
    BY <2>2 DEF Moved
  <2> QED BY <2>3, <2>4, <2>5, OthersTraced
<1>9. CASE GetRedirect(p, t)
  <2>1. Goto(p, t, "get buildroot") /\ At(p, t, "get redirect")
    BY <1>9 DEF GetRedirect
  <2>2. Moved(p, t, "get buildroot")
    BY <2>1, GotoMoves DEF Labels
  <2>3. /\ \A q \in Pids \ {p} : image'[q] = image[q]
        /\ image'[p].state = "running" /\ image'[p].loaded = image[p].loaded
        /\ image'[p].env = image[p].env /\ image'[p].once = image[p].once
        /\ image'[p].log_path = image[p].log_path /\ image'[p].dylib = image[p].dylib
    BY <1>0, <1>9 DEF GetRedirect, Typed, Image
  <2>4. TracedAt(p)'
    BY <1>0, <2>1, <2>2, <2>3 DEF TracedAt, At, Moved
  <2>5. \A q \in Pids \ {p} : thread'[q] = thread[q]
    BY <2>2 DEF Moved
  <2> QED BY <2>3, <2>4, <2>5, OthersTraced
<1>10. CASE GetBuildroot(p, t)
  <2>1. /\ At(p, t, "get buildroot") /\ Goto(p, t, AfterSetup(p, t))
        /\ AfterSetup(p, t) \in {"log", "log exec"}
    BY <1>10 DEF GetBuildroot, AfterSetup
  <2>2. PICK l \in {"log", "log exec"} : Moved(p, t, l)
    <3> DEFINE l == AfterSetup(p, t)
    <3>1. l \in Labels /\ Goto(p, t, l) /\ l \in {"log", "log exec"}
      BY <2>1 DEF Labels
    <3> HIDE DEF l
    <3> QED BY <3>1, GotoMoves
  <2>3. image' = [image EXCEPT ![p] = SetUp(p)] /\ SetUp(p) \in Image
    BY <1>10, GetBuildrootEffect
  <2>4. /\ \A q \in Pids \ {p} : image'[q] = image[q]
        /\ image'[p].state = "running" /\ image'[p].loaded = image[p].loaded
        /\ image'[p].env = image[p].env /\ image'[p].once = "done"
        /\ image'[p].log_path = image[p].log_path
        /\ image'[p].dylib = ("darwintrace" \in image[p].env.libs)
    BY <1>0, <2>3 DEF Typed, SetUp, Image
  <2>5. image[p].log_path /\ "darwintrace" \in image[p].env.libs
    BY <1>0, <2>1 DEF At, TracedAt
  <2>6. TracedAt(p)'
    BY <1>0, <2>2, <2>4, <2>5 DEF TracedAt, Moved
  <2>7. \A q \in Pids \ {p} : thread'[q] = thread[q]
    BY <2>2 DEF Moved
  <2> QED BY <2>4, <2>6, <2>7, OthersTraced
<1>11. \/ "LOG" \in e.set /\ "darwintrace" \in e.libs
       \/ ~(Execve(p, t) \/ PosixSpawn(p, t))
  <2>1. Execve(p, t) \/ PosixSpawn(p, t) => image[p].log_path /\ image[p].dylib
    BY <1>0 DEF Execve, PosixSpawn, At, TracedAt
  <2> QED BY <2>1 DEF make_environ
<1> HIDE DEF e
<1>12. CASE Execve(p, t)
  <2>1. image'[p] = Started(e) /\ e \in Env /\ thread'[p] = Alone(t)
    BY <1>12, ExecveEffect DEF e
  <2>2. \A q \in Pids \ {p} : image'[q] = image[q] /\ thread'[q] = thread[q]
    BY <1>12, ExecveEffect
  <2>3. TracedAt(p)'
    BY <1>11, <1>12, <2>1, StartedTraced
  <2> QED BY <2>2, <2>3, OthersTraced
<1>13. CASE PosixSpawn(p, t)
  <2>1. PICK q \in Pids \ {p} :
            /\ image'[q] = Started(e) /\ e \in Env
            /\ \A r \in Pids \ {q} : image'[r] = image[r]
            /\ thread'[q] = Alone(t) /\ thread'[p][t] = InProgram
            /\ \A u \in Threads \ {t} : thread'[p][u] = thread[p][u]
            /\ \A r \in Pids \ {p, q} : thread'[r] = thread[r]
    BY <1>13, PosixSpawnEffect DEF e, Spawned
  <2>2. TracedAt(q)'
    BY <1>11, <1>13, <2>1, StartedTraced
  <2>3. TracedAt(p)'
    BY <1>0, <2>1, InProgramType DEF TracedAt
  <2>4. \A r \in Pids \ {p, q} : TracedAt(r)'
    BY <2>1 DEF Tracing, TracedAt
  <2> QED BY <2>2, <2>3, <2>4 DEF Tracing
<1>14. CASE RedirectCrashes(p, t)
  <2>1. PICK s \in {"gone", "crashed"} : image'[p] = [image[p] EXCEPT !.state = s]
    BY <1>14, StateTyped
  <2>2. UNCHANGED thread /\ \A q \in Pids \ {p} : image'[q] = image[q]
    BY <1>14, StateTyped
  <2>3. /\ image'[p].loaded = image[p].loaded /\ image'[p].env = image[p].env
        /\ image'[p].once = image[p].once /\ image'[p].log_path = image[p].log_path
        /\ image'[p].dylib = image[p].dylib
    BY <1>0, <2>1 DEF Image
  <2>4. TracedAt(p)'
    BY <1>0, <2>2, <2>3 DEF TracedAt
  <2> QED BY <2>2, <2>4, OthersTraced
<1> QED BY <1>1, <1>2, <1>3, <1>4, <1>5, <1>6, <1>7, <1>8, <1>9, <1>10, <1>12, <1>13, <1>14
        DEF Library, Setup

LEMMA ProgramTraced ==
    ASSUME TracedSettings, Typed, Tracing, NEW p \in Pids, NEW t \in Threads, Program(p, t)
    PROVE  Tracing'
<1>0. image[p].state = "running" /\ TracedAt(p) /\ image[p] \in Image
  BY Here DEF Program, Call, Called, Fork, Setenv, Exit, At, Tracing
<1>1. CASE Call(p, t)
  <2>1. PICK c \in Calls : c.at \in {"redirect", "close test"} /\ Called(p, t, c)
    BY <1>1, CallShape
  <2>2. Moved(p, t, c.at) /\ UNCHANGED image
    BY <2>1, CallEffect DEF Called, Moved
  <2> QED BY <2>1, <2>2, MoveTraced
<1>2. CASE Fork(p, t)
  <2>1. PICK q \in Pids \ {p} :
            /\ image'[q] = image[p] /\ thread'[q] = Alone(t)
            /\ \A r \in Pids \ {q} : image'[r] = image[r] /\ thread'[r] = thread[r]
    BY <1>2, ForkEffect
  <2>2. \A u \in Threads : thread'[q][u].at \in {"program", "absent"}
    BY <2>1, AloneType, InProgramType
  <2>3. TracedAt(q)'
    BY <1>0, <2>1, <2>2 DEF TracedAt
  <2> QED BY <2>1, <2>3 DEF Tracing, TracedAt
<1>3. CASE Setenv(p, t)
  <2>1. PICK e \in Settings : image'[p] = [image[p] EXCEPT !.env = e]
    BY <1>3, SetenvEffect
  <2>2. UNCHANGED thread /\ \A q \in Pids \ {p} : image'[q] = image[q]
    BY <1>3, SetenvEffect
  <2>3. /\ image'[p].loaded = image[p].loaded /\ image'[p].env = e
        /\ image'[p].once = image[p].once /\ image'[p].log_path = image[p].log_path
        /\ image'[p].dylib = image[p].dylib
    BY <1>0, <2>1 DEF Image
  <2>4. "LOG" \in e.set /\ "darwintrace" \in e.libs
    BY DEF TracedSettings
  <2>5. TracedAt(p)'
    BY <1>0, <2>2, <2>3, <2>4 DEF TracedAt
  <2> QED BY <2>2, <2>5, OthersTraced
<1>4. CASE Exit(p, t)
  <2>1. PICK s \in {"gone", "crashed"} : image'[p] = [image[p] EXCEPT !.state = s]
    BY <1>4, StateTyped
  <2>2. UNCHANGED thread /\ \A q \in Pids \ {p} : image'[q] = image[q]
    BY <1>4, StateTyped
  <2>3. /\ image'[p].loaded = image[p].loaded /\ image'[p].env = image[p].env
        /\ image'[p].once = image[p].once /\ image'[p].log_path = image[p].log_path
        /\ image'[p].dylib = image[p].dylib
    BY <1>0, <2>1 DEF Image
  <2>4. TracedAt(p)'
    BY <1>0, <2>2, <2>3 DEF TracedAt
  <2> QED BY <2>2, <2>4, OthersTraced
<1> QED BY <1>1, <1>2, <1>3, <1>4 DEF Program

(* As long as no program takes the log or the library from its own         *)
(* environment, every descendant is traced, whatever environment programs  *)
(* pass on to the next (darwintrace.c:447-530).                            *)
THEOREM EveryoneTraced == TracedSettings /\ Spec => []AllTraced
<1>1. TracedSettings /\ Init => Tracing
  <2> SUFFICES ASSUME TracedSettings, Init PROVE Tracing
    OBVIOUS
  <2>1. PICK e \in InitialEnvs :
            /\ image = [p \in Pids |-> IF p = First THEN Started(e) ELSE Unborn]
            /\ thread = [p \in Pids |-> IF p = First THEN [t \in Threads |-> InProgram]
                                                     ELSE [t \in Threads |-> Absent]]
    BY DEF Init
  <2>2. "LOG" \in e.set /\ "darwintrace" \in e.libs /\ e \in Env
    BY EnvAssumption DEF TracedSettings
  <2>3. \A p \in Pids, t \in Threads : thread[p][t].at \in {"program", "absent"}
    BY <2>1, InProgramType
  <2>4. TracedAt(First)
    BY <2>1, <2>2, <2>3, StartedType, DescriptorFacts DEF TracedAt
  <2>5. \A p \in Pids \ {First} : image[p].state = "none"
    BY <2>1, UnbornType
  <2> QED BY <2>4, <2>5 DEF Tracing, TracedAt
<1>2. TracedSettings /\ Typed /\ Tracing /\ [Next]_vars => Tracing'
  <2> SUFFICES ASSUME TracedSettings, Typed, Tracing, [Next]_vars PROVE Tracing'
    OBVIOUS
  <2>1. CASE UNCHANGED vars
    BY <2>1 DEF vars, Tracing, TracedAt
  <2> QED BY <2>1, LibraryTraced, ProgramTraced DEF Next
<1>3. Tracing => AllTraced
  BY DEF Tracing, TracedAt, AllTraced
<1> SUFFICES ASSUME TracedSettings PROVE Spec => []AllTraced
  OBVIOUS
<1>4. Init => Tracing
  BY <1>1
<1>5. Typed /\ Tracing /\ [Next]_vars => Tracing'
  BY <1>2
<1> QED BY <1>3, <1>4, <1>5, TraceTypes, PTL DEF Spec

-----------------------------------------------------------------------------
(* The log and the descriptors of a program with one thread.               *)
Single == \A t, u \in Threads : t = u

LogAt(p) == image[p].fd # Unset => fds[p][image[p].fd] = "log"

HoldsLog(p, t) == thread[p][t].fd \in Fds /\ fds[p][thread[p][t].fd] = "log"

KeptThread(p, t) ==
    /\ thread[p][t].at \in {"redirect", "call", "setup", "open log"} => thread[p][t].fd = Unset
    /\ thread[p][t].at = "scan" => thread[p][t].fd = Unset \/ HoldsLog(p, t)
    /\ thread[p][t].at = "close log" => HoldsLog(p, t) /\ thread[p][t].fd # image[p].fd
    /\ thread[p][t].at = "close test" => thread[p][t].fd \in Fds
    /\ thread[p][t].at = "close" => thread[p][t].fd # image[p].fd

KeptAt(p) == image[p].state = "running" => LogAt(p) /\ \A t \in Threads : KeptThread(p, t)
Keeping == \A p \in Pids : KeptAt(p)

LEMMA FrameKept ==
    ASSUME Keeping, NEW q \in Pids,
           image'[q] = image[q], fds'[q] = fds[q], thread'[q] = thread[q]
    PROVE  KeptAt(q)'
<1> SUFFICES ASSUME image[q].state = "running" PROVE LogAt(q)' /\ \A t \in Threads : KeptThread(q, t)'
  BY DEF KeptAt
<1>1. LogAt(q) /\ \A t \in Threads : KeptThread(q, t)
  BY DEF Keeping, KeptAt
<1>2. LogAt(q)'
  BY <1>1 DEF LogAt
<1>3. \A t \in Threads : KeptThread(q, t)'
  BY <1>1 DEF KeptThread, HoldsLog
<1> QED BY <1>2, <1>3

LEMMA OthersKept ==
    ASSUME Keeping, NEW p \in Pids, KeptAt(p)',
           \A q \in Pids \ {p} : image'[q] = image[q] /\ fds'[q] = fds[q] /\ thread'[q] = thread[q]
    PROVE  Keeping'
<1>1. \A q \in Pids \ {p} : KeptAt(q)'
  BY FrameKept
<1> QED BY <1>1 DEF Keeping

(* A thread that does not hold the log moves, and no descriptor changes.   *)
LEMMA LocalKept ==
    ASSUME Single, Keeping, NEW p \in Pids, NEW t \in Threads,
           image[p].state = "running", image'[p].fd = image[p].fd, UNCHANGED fds,
           \A q \in Pids \ {p} : image'[q] = image[q],
           NEW l, Moved(p, t, l), l # "close log",
           l \in {"redirect", "call", "setup", "open log", "scan"} => thread'[p][t].fd = Unset,
           l = "close test" => thread'[p][t].fd \in Fds,
           l = "close" => thread'[p][t].fd # image[p].fd
    PROVE  Keeping'
<1>1. LogAt(p)'
  BY DEF Keeping, KeptAt, LogAt
<1>2. thread'[p][t].at = l /\ \A q \in Pids \ {p} : thread'[q] = thread[q]
  BY DEF Moved
<1>3. KeptThread(p, t)'
  BY <1>2 DEF KeptThread
<1>4. KeptAt(p)'
  BY <1>1, <1>3 DEF KeptAt, Single
<1> QED BY <1>2, <1>4, OthersKept

(* The same, of a thread that is not moved but whose globals change.       *)
LEMMA StillKept ==
    ASSUME Keeping, NEW p \in Pids, image[p].state = "running", image'[p].fd = image[p].fd,
           UNCHANGED <<fds, thread>>, \A q \in Pids \ {p} : image'[q] = image[q]
    PROVE  Keeping'
<1>1. LogAt(p) /\ \A u \in Threads : KeptThread(p, u)
  BY DEF Keeping, KeptAt
<1>2. LogAt(p)'
  BY <1>1 DEF LogAt
<1>3. \A u \in Threads : KeptThread(p, u)'
  BY <1>1 DEF KeptThread, HoldsLog
<1>4. KeptAt(p)'
  BY <1>2, <1>3 DEF KeptAt
<1> QED BY <1>4, OthersKept

LEMMA AloneKept ==
    ASSUME NEW p \in Pids, NEW t \in Threads, thread'[p] = Alone(t), LogAt(p)'
    PROVE  KeptAt(p)'
<1>1. \A u \in Threads : thread'[p][u].at \in {"program", "absent"}
  BY AloneType, InProgramType
<1>2. \A u \in Threads : KeptThread(p, u)'
  BY <1>1 DEF KeptThread
<1> QED BY <1>2 DEF KeptAt

(* A free descriptor is taken.                                             *)
LEMMA OpensKept ==
    ASSUME Single, Typed, Keeping, NEW p \in Pids, NEW t \in Threads,
           Open(p, t) \/ OpenLog(p, t)
    PROVE  Keeping'
<1>0. LogAt(p) /\ KeptThread(p, t) /\ image[p] \in Image /\ thread[p][t] \in Calls
  BY Here DEF Open, OpenLog, At, Keeping, KeptAt
<1>1. UNCHANGED image /\ thread[p][t].fd = Unset
  BY <1>0 DEF Open, OpenLog, At, KeptThread
<1>2. CASE Goto(p, t, "scan") /\ UNCHANGED fds
  <2>1. Moved(p, t, "scan") /\ thread'[p][t].fd = Unset
    BY <1>1, <1>2, GotoMoves, GotoFd DEF Labels
  <2>2. image[p].state = "running"
    BY DEF Open, OpenLog, At
  <2> QED BY <1>1, <1>2, <2>1, <2>2, LocalKept
<1>3. ASSUME NEW f \in Free(p), NEW use \in {"read", "write"},
             fds' = [fds EXCEPT ![p][f] = use], Goto(p, t, "setup") \/ Return(p, t)
      PROVE  Keeping'
  <2>1. /\ fds'[p][f] = use /\ \A g \in Fds \ {f} : fds'[p][g] = fds[p][g]
        /\ \A q \in Pids \ {p} : fds'[q] = fds[q]
    <3>1. f \in Fds /\ use \in Uses
      BY DEF Free, Uses
    <3> QED BY <1>3, <3>1, UseEffect
  <2>2. LogAt(p)'
    BY <1>0, <1>1, <2>1, <1>3, DescriptorFacts DEF LogAt, Free, Image
  <2>3. thread'[p][t].at \in {"setup", "program"} /\ thread'[p][t].fd = Unset
        /\ \A q \in Pids \ {p} : thread'[q] = thread[q]
    <3>1. CASE Goto(p, t, "setup")
      BY <1>1, <3>1, GotoMoves, GotoFd DEF Labels, Moved
    <3>2. CASE Return(p, t)
      BY <3>2, ReturnEffect, InProgramType
    <3> QED BY <1>3, <3>1, <3>2
  <2>4. KeptThread(p, t)'
    BY <2>3 DEF KeptThread
  <2>5. KeptAt(p)'
    BY <2>2, <2>4 DEF KeptAt, Single
  <2> QED BY <1>1, <2>1, <2>3, <2>5, OthersKept
<1>4. ASSUME NEW f \in Free(p), fds' = [fds EXCEPT ![p][f] = "log"],
             thread' = [thread EXCEPT ![p][t].at = "scan", ![p][t].fd = f]
      PROVE  Keeping'
  <2>1. /\ fds'[p][f] = "log" /\ \A g \in Fds \ {f} : fds'[p][g] = fds[p][g]
        /\ \A q \in Pids \ {p} : fds'[q] = fds[q]
    <3>1. f \in Fds /\ "log" \in Uses
      BY DEF Free, Uses
    <3> QED BY <1>4, <3>1, UseEffect
  <2>2. LogAt(p)'
    BY <1>0, <1>1, <2>1, DescriptorFacts DEF LogAt, Image
  <2>3. thread'[p][t].at = "scan" /\ thread'[p][t].fd = f
        /\ \A q \in Pids \ {p} : thread'[q] = thread[q]
    <3> DEFINE d == [[thread[p][t] EXCEPT !.at = "scan"] EXCEPT !.fd = f]
    <3>1. thread' = [thread EXCEPT ![p][t] = d]
      BY <1>4 DEF Typed
    <3>2. d.at = "scan" /\ d.fd = f
      BY <1>0 DEF Calls
    <3> HIDE DEF d
    <3> QED BY <3>1, <3>2 DEF Typed
  <2>4. KeptThread(p, t)'
    BY <1>4, <2>1, <2>3 DEF KeptThread, HoldsLog, Free
  <2>5. KeptAt(p)'
    BY <2>2, <2>4 DEF KeptAt, Single
  <2> QED BY <1>1, <2>1, <2>3, <2>5, OthersKept
<1>5. CASE Open(p, t)
  <2>1. PICK f \in Free(p), use \in {"read", "write"} : fds' = [fds EXCEPT ![p][f] = use]
    BY <1>5 DEF Open, Lowest
  <2>2. Goto(p, t, "setup") \/ Return(p, t)
    BY <1>5 DEF Open
  <2> QED BY <1>3, <2>1, <2>2
<1>6. CASE OpenLog(p, t)
  BY <1>2, <1>4, <1>6 DEF OpenLog, Lowest
<1> QED BY <1>5, <1>6

(* The log gets its descriptor and leaves the one it was opened at; the    *)
(* program closes another.                                                 *)
LEMMA ClosesKept ==
    ASSUME Single, Typed, Keeping, NEW p \in Pids, NEW t \in Threads,
           Scan(p, t) \/ CloseLog(p, t) \/ Close(p, t)
    PROVE  Keeping'
<1>0. /\ image[p].state = "running" /\ LogAt(p) /\ KeptThread(p, t)
      /\ image[p] \in Image /\ thread[p][t] \in Calls
  BY Here DEF Scan, CloseLog, Close, At, Keeping, KeptAt
<1>1. ASSUME NEW l \in {"get redirect", "program"}, Moved(p, t, l), UNCHANGED image,
             fds' = [fds EXCEPT ![p][thread[p][t].fd] = "free"],
             thread[p][t].fd # image[p].fd
      PROVE  Keeping'
  <2>1. /\ \A g \in Fds \ {thread[p][t].fd} : fds'[p][g] = fds[p][g]
        /\ \A q \in Pids \ {p} : fds'[q] = fds[q]
    BY <1>1 DEF Typed
  <2>2. LogAt(p)'
    <3>1. image[p].fd # Unset => image[p].fd \in Fds \ {thread[p][t].fd}
      BY <1>0, <1>1, DescriptorFacts DEF Image
    <3> QED BY <1>0, <1>1, <2>1, <3>1 DEF LogAt
  <2>3. thread'[p][t].at = l /\ \A q \in Pids \ {p} : thread'[q] = thread[q]
    BY <1>1 DEF Moved
  <2>4. KeptThread(p, t)'
    BY <1>1, <2>3 DEF KeptThread
  <2>5. KeptAt(p)'
    BY <2>2, <2>4 DEF KeptAt, Single
  <2> QED BY <1>1, <2>1, <2>3, <2>5, OthersKept
<1>2. CASE Close(p, t)
  <2>1. Moved(p, t, "program")
    BY <1>2, ReturnMoves DEF Close
  <2>2. /\ fds' = [fds EXCEPT ![p][thread[p][t].fd] = "free"] /\ UNCHANGED image
        /\ thread[p][t].fd # image[p].fd
    BY <1>0, <1>2 DEF Close, At, KeptThread
  <2> QED BY <1>1, <2>1, <2>2
<1>3. CASE CloseLog(p, t)
  <2>1. Moved(p, t, "get redirect")
    BY <1>3, GotoMoves DEF CloseLog, Labels
  <2>2. /\ fds' = [fds EXCEPT ![p][thread[p][t].fd] = "free"] /\ UNCHANGED image
        /\ thread[p][t].fd # image[p].fd
    BY <1>0, <1>3 DEF CloseLog, At, KeptThread
  <2> QED BY <1>1, <2>1, <2>2
<1>4. CASE image' = [image EXCEPT ![p].log_path = TRUE] /\ Goto(p, t, "get redirect")
           /\ UNCHANGED fds
  <2>1. image'[p].fd = image[p].fd /\ \A q \in Pids \ {p} : image'[q] = image[q]
    BY <1>0, <1>4 DEF Typed, Image
  <2>2. Moved(p, t, "get redirect")
    BY <1>4, GotoMoves DEF Labels
  <2> QED BY <1>0, <1>4, <2>1, <2>2, LocalKept
<1>5. ASSUME NEW new \in NotWritable(p), fds' = [fds EXCEPT ![p][new] = "log"],
             image' = [image EXCEPT ![p].log_path = TRUE, ![p].fd = new],
             Goto(p, t, "close log"), HoldsLog(p, t)
      PROVE  Keeping'
  <2>0. new \in Fds /\ new \in TraceFds /\ fds[p][new] # "log"
    BY DescriptorFacts DEF NotWritable
  <2>1. /\ fds'[p][new] = "log" /\ \A g \in Fds \ {new} : fds'[p][g] = fds[p][g]
        /\ \A q \in Pids \ {p} : fds'[q] = fds[q]
    <3>1. "log" \in Uses
      BY DEF Uses
    <3> QED BY <1>5, <2>0, <3>1, UseEffect
  <2>2. image'[p].fd = new /\ \A q \in Pids \ {p} : image'[q] = image[q]
    <3>1. /\ image'[p] = [[image[p] EXCEPT !.log_path = TRUE] EXCEPT !.fd = new]
          /\ \A q \in Pids \ {p} : image'[q] = image[q]
      BY <1>5 DEF Typed
    <3> QED BY <1>0, <3>1 DEF Image
  <2>3. LogAt(p)'
    BY <2>1, <2>2 DEF LogAt
  <2>4. Moved(p, t, "close log") /\ thread'[p][t].fd = thread[p][t].fd
    BY <1>5, GotoMoves, GotoFd DEF Labels
  <2>5. thread'[p][t].at = "close log" /\ \A q \in Pids \ {p} : thread'[q] = thread[q]
    BY <2>4 DEF Moved
  <2>6. HoldsLog(p, t)' /\ thread'[p][t].fd # image'[p].fd
    BY <1>5, <2>0, <2>1, <2>2, <2>4 DEF HoldsLog
  <2>7. KeptThread(p, t)'
    BY <2>5, <2>6 DEF KeptThread
  <2>8. KeptAt(p)'
    BY <2>3, <2>7 DEF KeptAt, Single
  <2> QED BY <2>1, <2>2, <2>5, <2>8, OthersKept
<1>6. CASE Scan(p, t)
  <2>1. thread[p][t].fd = Unset \/ HoldsLog(p, t)
    BY <1>0, <1>6 DEF Scan, At, KeptThread
  <2>2. \/ /\ image' = [image EXCEPT ![p].log_path = TRUE] /\ Goto(p, t, "get redirect")
           /\ UNCHANGED fds
        \/ /\ thread[p][t].fd # Unset
           /\ \E new \in NotWritable(p) :
                /\ fds' = [fds EXCEPT ![p][new] = "log"]
                /\ image' = [image EXCEPT ![p].log_path = TRUE, ![p].fd = new]
                /\ Goto(p, t, "close log")
    BY <1>6 DEF Scan, Lowest
  <2> QED BY <1>4, <1>5, <2>1, <2>2
<1> QED BY <1>2, <1>3, <1>6

LEMMA LibraryKept ==
    ASSUME Single, Typed, Keeping, NEW p \in Pids, NEW t \in Threads, Library(p, t)
    PROVE  Keeping'
<1>0. /\ image[p].state = "running" /\ LogAt(p) /\ KeptThread(p, t)
      /\ image[p] \in Image /\ Fds \subseteq Nat /\ thread[p][t] \in Calls
  <2>1. image[p].state = "running"
    BY DEF Library, Setup, At, Redirect, RedirectCrashes, Open, Readlink, CallFails,
           SetupDone, SetupStarts, OpenLog, Scan, CloseLog, GetRedirect, GetBuildroot, Log,
           LogExec, Execve, PosixSpawn, ExecFails, CloseTest, Close
  <2> QED BY <2>1, Here, TraceAssumption DEF Keeping, KeptAt
<1>1. CASE CallFails(p, t) \/ Log(p, t) \/ ExecFails(p, t)
  <2>1. Return(p, t) /\ UNCHANGED <<image, fds>>
    BY <1>1 DEF CallFails, Log, ExecFails
  <2>2. Moved(p, t, "program")
    BY <2>1, ReturnMoves
  <2> QED BY <1>0, <2>1, <2>2, LocalKept
<1>2. CASE SetupDone(p, t) \/ LogExec(p, t)
  <2>1. PICK l \in Labels : Goto(p, t, l) /\ l \in {"log", "log exec", "exec"}
    BY <1>2 DEF SetupDone, AfterSetup, LogExec, Labels
  <2>2. UNCHANGED <<image, fds>>
    BY <1>2 DEF SetupDone, LogExec
  <2>3. Moved(p, t, l)
    BY <2>1, GotoMoves
  <2> QED BY <1>0, <2>1, <2>2, <2>3, LocalKept
<1>3. CASE Readlink(p, t)
  <2>1. Goto(p, t, "setup") /\ UNCHANGED <<image, fds>> /\ thread[p][t].fd = Unset
    BY <1>0, <1>3 DEF Readlink, At, KeptThread
  <2>2. Moved(p, t, "setup") /\ thread'[p][t].fd = Unset
    BY <2>1, GotoMoves, GotoFd DEF Labels
  <2> QED BY <1>0, <2>1, <2>2, LocalKept
<1>4. CASE Redirect(p, t)
  <2>1. UNCHANGED <<image, fds>> /\ thread[p][t].fd = Unset
    BY <1>0, <1>4 DEF Redirect, At, KeptThread
  <2>2. PICK l \in {"setup", "call"} : Moved(p, t, l)
    BY <1>4, Here DEF Redirect, Typed, Calls, Moved
  <2>3. thread'[p][t].fd = Unset
    BY <1>4, <2>1, Here DEF Redirect, Typed, Calls
  <2> QED BY <1>0, <2>1, <2>2, <2>3, LocalKept
<1>5. CASE CloseTest(p, t)
  <2>1. UNCHANGED <<image, fds>>
    BY <1>5 DEF CloseTest
  <2>2. CASE Return(p, t)
    <3>1. Moved(p, t, "program")
      BY <2>2, ReturnMoves
    <3> QED BY <1>0, <2>1, <3>1, LocalKept
  <2>3. CASE Goto(p, t, "close") /\ thread[p][t].fd # image[p].fd
    <3>1. Moved(p, t, "close") /\ thread'[p][t].fd # image[p].fd
      BY <2>3, GotoMoves, GotoFd DEF Labels
    <3> QED BY <1>0, <2>1, <3>1, LocalKept
  <2>4. thread[p][t].fd \in Fds
    BY <1>0, <1>5 DEF CloseTest, At, KeptThread
  <2> QED BY <1>5, <2>2, <2>3, <2>4, DescriptorFacts DEF CloseTest
<1>6. CASE SetupStarts(p, t)
  <2>1. PICK l \in {"open log", "get redirect"} : Goto(p, t, l)
    BY <1>6 DEF SetupStarts
  <2>2. image' = [image EXCEPT ![p] = [image[p] EXCEPT !.once = "running"]] /\ UNCHANGED fds
    BY <1>6 DEF SetupStarts
  <2>3. image'[p].fd = image[p].fd /\ \A q \in Pids \ {p} : image'[q] = image[q]
    BY <1>0, <2>2 DEF Typed, Image
  <2>4. thread[p][t].fd = Unset
    BY <1>0, <1>6 DEF SetupStarts, At, KeptThread
  <2>5. Moved(p, t, l) /\ thread'[p][t].fd = Unset
    BY <2>1, <2>4, GotoMoves, GotoFd DEF Labels
  <2> QED BY <1>0, <2>2, <2>3, <2>5, LocalKept
<1>7. CASE GetRedirect(p, t)
  <2>1. Goto(p, t, "get buildroot") /\ UNCHANGED fds
    BY <1>7 DEF GetRedirect
  <2>2. image'[p].fd = image[p].fd /\ \A q \in Pids \ {p} : image'[q] = image[q]
    BY <1>0, <1>7 DEF GetRedirect, Typed, Image
  <2>3. Moved(p, t, "get buildroot")
    BY <2>1, GotoMoves DEF Labels
  <2> QED BY <1>0, <2>1, <2>2, <2>3, LocalKept
<1>8. CASE GetBuildroot(p, t)
  <2>1. PICK l \in {"log", "log exec"} : Goto(p, t, l)
    BY <1>8 DEF GetBuildroot, AfterSetup
  <2>2. image' = [image EXCEPT ![p] = SetUp(p)]
    BY <1>8, GetBuildrootEffect
  <2>3. image'[p].fd = image[p].fd /\ \A q \in Pids \ {p} : image'[q] = image[q]
    BY <1>0, <2>2 DEF SetUp, Typed, Image
  <2>4. Moved(p, t, l) /\ UNCHANGED fds
    BY <1>8, <2>1, GotoMoves DEF Labels, GetBuildroot
  <2> QED BY <1>0, <2>3, <2>4, LocalKept
<1>9. CASE RedirectCrashes(p, t)
  <2>1. UNCHANGED <<fds, thread>> /\ \A q \in Pids \ {p} : image'[q] = image[q]
    BY <1>9, StateTyped
  <2>2. image'[p].fd = image[p].fd
    BY <1>9, StateKept
  <2> QED BY <1>0, <2>1, <2>2, StillKept
<1>10. CASE Open(p, t) \/ OpenLog(p, t)
  BY <1>10, OpensKept
<1>11. CASE Scan(p, t) \/ CloseLog(p, t) \/ Close(p, t)
  BY <1>11, ClosesKept
<1>12. CASE Execve(p, t)
  <2>1. PICK e \in Env : image'[p] = Started(e)
    BY <1>12, ExecveEffect
  <2>2. /\ thread'[p] = Alone(t)
        /\ \A q \in Pids \ {p} : image'[q] = image[q] /\ fds'[q] = fds[q] /\ thread'[q] = thread[q]
    BY <1>12, ExecveEffect
  <2>3. LogAt(p)'
    BY <2>1, StartedType DEF LogAt
  <2>4. KeptAt(p)'
    BY <2>2, <2>3, AloneKept
  <2> QED BY <2>2, <2>4, OthersKept
<1>13. CASE PosixSpawn(p, t)
  <2>1. PICK q \in Pids \ {p} :
            /\ \E e : e \in Env /\ image'[q] = Started(e)
            /\ \A r \in Pids \ {q} : image'[r] = image[r] /\ fds'[r] = fds[r]
            /\ thread'[q] = Alone(t) /\ thread'[p][t] = InProgram
            /\ \A r \in Pids \ {p, q} : thread'[r] = thread[r]
    BY <1>13, PosixSpawnEffect DEF Spawned
  <2>2. LogAt(q)'
    <3>1. PICK e \in Env : image'[q] = Started(e)
      BY <2>1
    <3>2. image'[q].fd = Unset
      BY <3>1, StartedType
    <3> QED BY <3>2 DEF LogAt
  <2>3. KeptAt(q)'
    BY <2>1, <2>2, AloneKept
  <2>4. LogAt(p)'
    BY <1>0, <2>1 DEF LogAt
  <2>5. KeptThread(p, t)'
    BY <2>1, InProgramType DEF KeptThread
  <2>6. KeptAt(p)'
    BY <2>4, <2>5 DEF KeptAt, Single
  <2>7. \A r \in Pids \ {p, q} : KeptAt(r)'
    BY <2>1, FrameKept
  <2> QED BY <2>3, <2>6, <2>7 DEF Keeping
<1> QED BY <1>1, <1>2, <1>3, <1>4, <1>5, <1>6, <1>7, <1>8, <1>9, <1>10, <1>11, <1>12, <1>13
        DEF Library, Setup

LEMMA ProgramKept ==
    ASSUME Single, Typed, Keeping, NEW p \in Pids, NEW t \in Threads, Program(p, t)
    PROVE  Keeping'
<1>0. /\ image[p].state = "running" /\ LogAt(p) /\ image[p] \in Image
  BY Here DEF Program, Call, Called, Fork, Setenv, Exit, At, Keeping, KeptAt
<1>1. CASE Call(p, t)
  <2>1. PICK c \in Calls :
            /\ \/ c.at = "redirect" /\ c.fd = Unset
               \/ c.at = "close test" /\ c.fd \in Fds
            /\ Called(p, t, c)
    BY <1>1, CallShape
  <2>2. UNCHANGED <<image, fds>> /\ thread' = [thread EXCEPT ![p][t] = c]
    BY <2>1 DEF Called
  <2>3. Moved(p, t, c.at) /\ thread'[p][t].fd = c.fd
    BY <2>2, CallEffect DEF Moved
  <2> QED BY <1>0, <2>1, <2>2, <2>3, LocalKept
<1>2. CASE Fork(p, t)
  <2>1. PICK q \in Pids \ {p} :
            /\ image'[q] = image[p] /\ fds'[q] = fds[p] /\ thread'[q] = Alone(t)
            /\ \A r \in Pids \ {q} : /\ image'[r] = image[r] /\ fds'[r] = fds[r]
                                     /\ thread'[r] = thread[r]
    BY <1>2, ForkEffect
  <2>2. LogAt(q)'
    BY <1>0, <2>1 DEF LogAt
  <2>3. KeptAt(q)'
    BY <2>1, <2>2, AloneKept
  <2> QED BY <2>1, <2>3, OthersKept
<1>3. CASE Setenv(p, t)
  <2>1. UNCHANGED <<fds, thread>> /\ \A q \in Pids \ {p} : image'[q] = image[q]
    BY <1>3, SetenvEffect
  <2>2. image'[p].fd = image[p].fd
    BY <1>0, <1>3, SetenvEffect DEF Image
  <2> QED BY <1>0, <2>1, <2>2, StillKept
<1>4. CASE Exit(p, t)
  <2>1. UNCHANGED <<fds, thread>> /\ \A q \in Pids \ {p} : image'[q] = image[q]
    BY <1>4, StateTyped
  <2>2. image'[p].fd = image[p].fd
    BY <1>4, StateKept
  <2> QED BY <1>0, <2>1, <2>2, StillKept
<1> QED BY <1>1, <1>2, <1>3, <1>4 DEF Program

LEMMA InitKept == Init => Keeping
<1> SUFFICES ASSUME Init PROVE Keeping
  OBVIOUS
<1>1. PICK e \in InitialEnvs :
          /\ image = [p \in Pids |-> IF p = First THEN Started(e) ELSE Unborn]
          /\ thread = [p \in Pids |-> IF p = First THEN [t \in Threads |-> InProgram]
                                                   ELSE [t \in Threads |-> Absent]]
  BY DEF Init
<1>2. \A p \in Pids, t \in Threads : thread[p][t].at \in {"program", "absent"}
  BY <1>1, InProgramType
<1>3. \A p \in Pids, t \in Threads : KeptThread(p, t)
  BY <1>2 DEF KeptThread
<1>4. \A p \in Pids : image[p].state = "running" => image[p].fd = Unset
  BY <1>1, EnvAssumption, StartedType, UnbornType
<1>5. \A p \in Pids : KeptAt(p)
  BY <1>3, <1>4 DEF KeptAt, LogAt
<1> QED BY <1>5 DEF Keeping

LEMMA NextKept == Single /\ Typed /\ Keeping /\ [Next]_vars => Keeping'
<1> SUFFICES ASSUME Single, Typed, Keeping, [Next]_vars PROVE Keeping'
  OBVIOUS
<1>1. CASE UNCHANGED vars
  <2>1. \A p \in Pids : KeptAt(p)'
    BY <1>1, FrameKept DEF vars
  <2> QED BY <2>1 DEF Keeping
<1>2. ASSUME NEW p \in Pids, NEW t \in Threads, Library(p, t) \/ Program(p, t) PROVE Keeping'
  BY <1>2, LibraryKept, ProgramKept
<1> QED BY <1>1, <1>2 DEF Next

(* Whatever descriptors a program with one thread closes, forks and        *)
(* executes, the descriptor the library writes to is the log's: the test   *)
(* of darwintrace_close is enough (darwintrace.c:641-652).                 *)
THEOREM LogStays == Single /\ Spec => []LogKept
<1> SUFFICES ASSUME Single PROVE Spec => []LogKept
  OBVIOUS
<1>1. Typed /\ Keeping => LogKept
  <2> SUFFICES ASSUME Typed, Keeping, NEW p \in Pids, image[p].state = "running", image[p].fd >= 0
               PROVE  fds[p][image[p].fd] = "log"
    BY DEF LogKept
  <2>1. image[p].fd # Unset
    BY DEF Unset
  <2> QED BY <2>1 DEF Keeping, KeptAt, LogAt
<1>2. Typed /\ Keeping /\ [Next]_vars => Keeping'
  BY NextKept
<1> QED BY <1>1, <1>2, InitKept, TraceTypes, PTL DEF Spec

-----------------------------------------------------------------------------
(* What a program has open for writing.                                    *)
KeptWritable(p, f) ==
    image[p].state = "running" /\ fds[p][f] = "write" /\ fds'[p][f] # "write"
    => \E t \in Threads : At(p, t, "close") /\ thread[p][t].fd = f

LEMMA LibraryWritable ==
    ASSUME Typed, Keeping, NEW p \in Pids, NEW t \in Threads, Library(p, t),
           NEW q \in Pids, NEW f \in Fds
    PROVE  KeptWritable(q, f)
<1> SUFFICES ASSUME image[q].state = "running", fds[q][f] = "write", fds'[q][f] # "write"
             PROVE  \E u \in Threads : At(q, u, "close") /\ thread[q][u].fd = f
  BY DEF KeptWritable
<1>1. CASE Redirect(p, t) \/ RedirectCrashes(p, t) \/ Readlink(p, t) \/ CallFails(p, t)
           \/ SetupDone(p, t) \/ SetupStarts(p, t) \/ GetRedirect(p, t) \/ GetBuildroot(p, t)
           \/ Log(p, t) \/ LogExec(p, t) \/ ExecFails(p, t) \/ CloseTest(p, t)
  BY <1>1 DEF Redirect, RedirectCrashes, Readlink, CallFails, SetupDone, SetupStarts,
              GetRedirect, GetBuildroot, Log, LogExec, ExecFails, CloseTest
<1>2. ASSUME NEW g \in Fds, NEW use \in Uses, fds' = [fds EXCEPT ![p][g] = use],
             fds[p][g] # "write"
      PROVE  FALSE
  BY <1>2, UseEffect
<1>3. CASE Open(p, t) \/ OpenLog(p, t)
  <2>1. PICK g \in Free(p), use \in {"read", "write", "log"} : fds' = [fds EXCEPT ![p][g] = use]
    BY <1>3 DEF Open, OpenLog, Lowest
  <2> QED BY <1>2, <2>1 DEF Free, Uses
<1>4. CASE Scan(p, t)
  <2>1. PICK g \in NotWritable(p) : fds' = [fds EXCEPT ![p][g] = "log"]
    BY <1>4 DEF Scan, Lowest
  <2>2. g \in Fds /\ fds[p][g] # "write"
    BY <2>1, DescriptorFacts DEF NotWritable
  <2> QED BY <1>2, <2>1, <2>2 DEF Uses
<1>5. CASE CloseLog(p, t)
  <2>1. HoldsLog(p, t)
    BY <1>5 DEF CloseLog, At, Keeping, KeptAt, KeptThread
  <2>2. fds' = [fds EXCEPT ![p][thread[p][t].fd] = "free"]
    BY <1>5 DEF CloseLog
  <2> QED BY <1>2, <2>1, <2>2 DEF HoldsLog, Uses
<1>6. CASE Close(p, t)
  <2>1. At(p, t, "close") /\ fds' = [fds EXCEPT ![p][thread[p][t].fd] = "free"]
    BY <1>6 DEF Close
  <2>2. q = p /\ f = thread[p][t].fd
    BY <2>1 DEF Typed
  <2> QED BY <2>1, <2>2
<1>7. CASE Execve(p, t)
  <2>1. fds'[p] = AcrossExec(p) /\ \A r \in Pids \ {p} : fds'[r] = fds[r]
    BY <1>7, ExecveEffect
  <2> QED BY <2>1, AcrossExecType
<1>8. CASE PosixSpawn(p, t)
  <2>1. PICK r \in Pids : image[r].state = "none" /\ \A s \in Pids \ {r} : fds'[s] = fds[s]
    BY <1>8, PosixSpawnEffect DEF Spawned
  <2> QED BY <2>1
<1> QED BY <1>1, <1>3, <1>4, <1>5, <1>6, <1>7, <1>8 DEF Library, Setup

LEMMA ProgramWritable ==
    ASSUME Typed, NEW p \in Pids, NEW t \in Threads, Program(p, t), NEW q \in Pids, NEW f \in Fds
    PROVE  KeptWritable(q, f)
<1>1. CASE Fork(p, t)
  <2>1. PICK r \in Pids : image[r].state = "none" /\ \A s \in Pids \ {r} : fds'[s] = fds[s]
    BY <1>1, ForkEffect
  <2> QED BY <2>1 DEF KeptWritable
<1>2. CASE ~Fork(p, t)
  BY <1>2 DEF Program, Call, Called, Setenv, Exit, KeptWritable
<1> QED BY <1>1, <1>2

(* No descriptor a program with one thread can write to is lost to it      *)
(* before the program closes it: the scan of the set-up takes none, and    *)
(* what the set-up closes is its own (darwintrace.c:152-159).              *)
THEOREM WritableStays == Single /\ Spec => WritableKept
<1> SUFFICES ASSUME Single PROVE Spec => WritableKept
  OBVIOUS
<1>1. Typed /\ Keeping /\ [Next]_vars => [\A p \in Pids, f \in Fds : KeptWritable(p, f)]_vars
  <2> SUFFICES ASSUME Typed, Keeping, Next, NEW q \in Pids, NEW f \in Fds PROVE KeptWritable(q, f)
    OBVIOUS
  <2> QED BY LibraryWritable, ProgramWritable DEF Next
<1>2. Typed /\ Keeping /\ [Next]_vars => Keeping'
  BY NextKept
<1>3. WritableKept <=> [][\A p \in Pids, f \in Fds : KeptWritable(p, f)]_vars
  BY DEF WritableKept, KeptWritable
<1> QED BY <1>1, <1>2, <1>3, InitKept, TraceTypes, PTL DEF Spec
-----------------------------------------------------------------------------
(* The set-up runs once.  A thread is in it while it runs, no two are, and *)
(* lines are written and programs executed once it is over.                *)
Places == {"open log", "scan", "close log", "get redirect", "get buildroot"}

Placed(p) ==
    /\ \A t \in Threads : thread[p][t].at \in Places => image[p].once = "running"
    /\ \A t, u \in Threads :
          thread[p][t].at \in Places /\ thread[p][u].at \in Places => t = u
    /\ \A t \in Threads : thread[p][t].at \in {"log", "log exec", "exec"}
          => image[p].once = "done"
    /\ image[p].once = "done" => image[p].pid \in Pids

OnePlace == \A p \in Pids : Placed(p)

(* A step of one thread, as far as the set-up is concerned.                *)
Step(p, t) ==
    /\ \A q \in Pids \ {p} : image'[q] = image[q] /\ thread'[q] = thread[q]
    /\ \A u \in Threads \ {t} : thread'[p][u] = thread[p][u]

LEMMA ImageWritten ==
    ASSUME Typed, NEW p \in Pids, NEW i, image' = [image EXCEPT ![p] = i]
    PROVE  image'[p] = i /\ \A q \in Pids \ {p} : image'[q] = image[q]
BY DEF Typed

LEMMA SetupStartsEffect ==
    ASSUME Typed, NEW p \in Pids, NEW t \in Threads, SetupStarts(p, t)
    PROVE  /\ image[p].once = "no" /\ image'[p].once = "running"
           /\ image'[p].state = image[p].state
           /\ \A q \in Pids \ {p} : image'[q] = image[q]
<1> DEFINE i == [image[p] EXCEPT !.once = "running"]
<1>1. image' = [image EXCEPT ![p] = i] /\ image[p].once = "no"
  BY DEF SetupStarts
<1>2. i.once = "running" /\ i.state = image[p].state
  BY Here DEF Image
<1> HIDE DEF i
<1> QED BY <1>1, <1>2, ImageWritten

LEMMA GetRedirectEffect ==
    ASSUME Typed, NEW p \in Pids, NEW t \in Threads, GetRedirect(p, t)
    PROVE  /\ image'[p].once = image[p].once /\ image'[p].state = image[p].state
           /\ \A q \in Pids \ {p} : image'[q] = image[q]
<1> DEFINE i == [image[p] EXCEPT !.redirect = "REDIRECT" \in image[p].env.set]
<1>1. image' = [image EXCEPT ![p] = i]
  BY DEF GetRedirect
<1>2. i.once = image[p].once /\ i.state = image[p].state
  BY Here DEF Image
<1> HIDE DEF i
<1> QED BY <1>1, <1>2, ImageWritten

LEMMA PlacedStep ==
    ASSUME OnePlace, NEW p \in Pids, NEW t \in Threads, Step(p, t),
           \/ image'[p].once = image[p].once
           \/ image[p].once = "no" /\ image'[p].once = "running"
           \/ thread[p][t].at \in Places /\ image'[p].once = "done",
           thread'[p][t].at \in Places =>
               /\ image'[p].once = "running"
               /\ thread[p][t].at \in Places \/ image[p].once # "running",
           thread'[p][t].at \in {"log", "log exec", "exec"} => image'[p].once = "done",
           image'[p].once = "done" => image'[p].pid \in Pids
    PROVE  OnePlace'
<1>1. Placed(p)
  BY DEF OnePlace
<1>2. \A u \in Threads \ {t} : thread'[p][u].at \in Places =>
          image'[p].once = "running" /\ thread'[p][t].at \notin Places
  BY <1>1 DEF Placed, Step
<1>3. \A u \in Threads \ {t} :
          thread'[p][u].at \in {"log", "log exec", "exec"} => image'[p].once = "done"
  BY <1>1 DEF Placed, Step
<1>4. \A u, v \in Threads \ {t} :
          thread'[p][u].at \in Places /\ thread'[p][v].at \in Places => u = v
  BY <1>1 DEF Placed, Step
<1>5. Placed(p)'
  <2>1. \A u \in Threads : thread'[p][u].at \in Places => image'[p].once = "running"
    BY <1>2
  <2>2. \A u, v \in Threads :
          thread'[p][u].at \in Places /\ thread'[p][v].at \in Places => u = v
    <3> SUFFICES ASSUME NEW u \in Threads, NEW v \in Threads,
                        thread'[p][u].at \in Places, thread'[p][v].at \in Places
                 PROVE  u = v
      OBVIOUS
    <3>1. CASE u = t
      BY <1>2, <3>1
    <3>2. CASE v = t
      BY <1>2, <3>2
    <3> QED BY <1>4, <3>1, <3>2
  <2>3. \A u \in Threads :
          thread'[p][u].at \in {"log", "log exec", "exec"} => image'[p].once = "done"
    BY <1>3
  <2> QED BY <2>1, <2>2, <2>3 DEF Placed, Places
<1>6. \A q \in Pids \ {p} : Placed(q)'
  <2> SUFFICES ASSUME NEW q \in Pids \ {p} PROVE Placed(q)'
    OBVIOUS
  <2>1. Placed(q) /\ image'[q] = image[q] /\ thread'[q] = thread[q]
    BY DEF OnePlace, Step
  <2> QED BY <2>1 DEF Placed
<1> QED BY <1>5, <1>6 DEF OnePlace

(* A step that leaves the globals alone, to a label outside the set-up.    *)
LEMMA MovePlaced ==
    ASSUME OnePlace, NEW p \in Pids, NEW t \in Threads, UNCHANGED image,
           NEW l, Moved(p, t, l), l \in Places => thread[p][t].at \in Places,
           l \in {"log", "log exec", "exec"} => image[p].once = "done"
    PROVE  OnePlace'
<1>1. Placed(p) /\ Step(p, t)
  BY DEF OnePlace, Moved, Step
<1>2. thread'[p][t].at = l
  BY DEF Moved
<1>3. l \in Places => image[p].once = "running"
  BY <1>1 DEF Placed
<1>4. image[p].once = "done" => image[p].pid \in Pids
  BY <1>1 DEF Placed
<1> QED BY <1>1, <1>2, <1>3, <1>4, PlacedStep

(* A process whose one thread is in its program.                           *)
LEMMA AlonePlaced ==
    ASSUME NEW p \in Pids, NEW t \in Threads, thread'[p] = Alone(t),
           image'[p].once = "done" => image'[p].pid \in Pids
    PROVE  Placed(p)'
<1>1. \A u \in Threads : thread'[p][u].at \in {"program", "absent"}
  BY AloneType, InProgramType
<1> QED BY <1>1 DEF Placed, Places

LEMMA OthersPlaced ==
    ASSUME OnePlace, NEW p \in Pids, Placed(p)',
           \A q \in Pids \ {p} : image'[q] = image[q] /\ thread'[q] = thread[q]
    PROVE  OnePlace'
<1>1. \A q \in Pids \ {p} : Placed(q)'
  BY DEF OnePlace, Placed, Places
<1> QED BY <1>1 DEF OnePlace

(* The other globals change while the set-up, or the lack of it, goes on.  *)
LEMMA GlobalsPlaced ==
    ASSUME OnePlace, NEW p \in Pids, image'[p].once = image[p].once,
           image'[p].pid = image[p].pid, UNCHANGED thread,
           \A q \in Pids \ {p} : image'[q] = image[q]
    PROVE  OnePlace'
<1>1. Placed(p)'
  BY DEF OnePlace, Placed, Places
<1> QED BY <1>1, OthersPlaced

(* The thread that leaves the set-up leaves it done.                       *)
LEMMA LibraryPlaced ==
    ASSUME Typed, OnePlace, NEW p \in Pids, NEW t \in Threads, Library(p, t)
    PROVE  OnePlace'
<1>0. Placed(p) /\ image[p] \in Image /\ "running" # "done" /\ "no" # "done"
  BY Here DEF OnePlace
<1>1. CASE CallFails(p, t) \/ Log(p, t) \/ ExecFails(p, t) \/ Close(p, t)
  <2>1. Return(p, t) /\ UNCHANGED image
    BY <1>1 DEF CallFails, Log, ExecFails, Close
  <2>2. Moved(p, t, "program")
    BY <2>1, ReturnMoves
  <2> QED BY <2>1, <2>2, MovePlaced DEF Places
<1>2. CASE SetupDone(p, t) \/ LogExec(p, t)
  <2>1. PICK l \in Labels : Goto(p, t, l) /\ l \in {"log", "log exec", "exec"}
    BY <1>2 DEF SetupDone, AfterSetup, LogExec, Labels
  <2>2. image[p].once = "done" /\ UNCHANGED image
    BY <1>0, <1>2 DEF SetupDone, LogExec, At, Placed
  <2>3. Moved(p, t, l)
    BY <2>1, GotoMoves
  <2> QED BY <2>1, <2>2, <2>3, MovePlaced DEF Places
<1>3. CASE CloseTest(p, t) \/ Readlink(p, t) \/ Open(p, t) \/ Redirect(p, t)
  <2>1. UNCHANGED image
    BY <1>3 DEF CloseTest, Readlink, Open, Redirect
  <2>2. PICK l \in {"program", "call", "setup", "close"} : Moved(p, t, l)
    <3>1. CASE Redirect(p, t)
      BY <3>1, Here DEF Redirect, Typed, Calls, Moved
    <3>2. CASE ~Redirect(p, t)
      <4>1. Return(p, t) \/ \E l \in {"setup", "close"} : Goto(p, t, l)
        BY <1>3, <3>2 DEF CloseTest, Readlink, Open
      <4> QED BY <4>1, ReturnMoves, GotoMoves DEF Labels
    <3> QED BY <3>1, <3>2
  <2> QED BY <2>1, <2>2, MovePlaced DEF Places
<1>4. CASE OpenLog(p, t)
  <2>1. UNCHANGED image /\ thread[p][t].at \in Places
    BY <1>4 DEF OpenLog, At, Places
  <2>2. Moved(p, t, "scan")
    <3>1. CASE Goto(p, t, "scan")
      BY <3>1, GotoMoves DEF Labels
    <3>2. CASE \E f \in Fds : thread' = [thread EXCEPT ![p][t].at = "scan", ![p][t].fd = f]
      <4>1. PICK f \in Fds : thread' = [thread EXCEPT ![p][t].at = "scan", ![p][t].fd = f]
        BY <3>2
      <4> DEFINE d == [[thread[p][t] EXCEPT !.at = "scan"] EXCEPT !.fd = f]
      <4>2. thread' = [thread EXCEPT ![p][t] = d]
        BY <4>1 DEF Typed
      <4>3. d.at = "scan"
        BY Here DEF Calls
      <4> HIDE DEF d
      <4> QED BY <4>2, <4>3 DEF Typed, Moved
    <3> QED BY <1>4, <3>1, <3>2 DEF OpenLog, Lowest, Free
  <2> QED BY <2>1, <2>2, MovePlaced DEF Places
<1>5. CASE CloseLog(p, t)
  <2>1. Goto(p, t, "get redirect") /\ UNCHANGED image /\ thread[p][t].at \in Places
    BY <1>5 DEF CloseLog, At, Places
  <2>2. Moved(p, t, "get redirect")
    BY <2>1, GotoMoves DEF Labels
  <2> QED BY <2>1, <2>2, MovePlaced DEF Places
<1>6. CASE SetupStarts(p, t)
  <2>1. PICK l \in {"open log", "get redirect"} : Goto(p, t, l)
    BY <1>6 DEF SetupStarts
  <2>3. /\ \A q \in Pids \ {p} : image'[q] = image[q]
        /\ image[p].once = "no" /\ image'[p].once = "running"
    BY <1>0, <1>6, SetupStartsEffect
  <2>4. Moved(p, t, l)
    BY <2>1, GotoMoves DEF Labels
  <2>5. Step(p, t) /\ thread'[p][t].at = l
    BY <2>3, <2>4 DEF Moved, Step
  <2> QED BY <2>3, <2>5, PlacedStep DEF Places
<1>7. CASE Scan(p, t) \/ GetRedirect(p, t)
  <2>1. PICK l \in {"close log", "get redirect", "get buildroot"} : Goto(p, t, l)
    BY <1>7 DEF Scan, GetRedirect
  <2>2. Moved(p, t, l)
    BY <2>1, GotoMoves DEF Labels
  <2>3. /\ \A q \in Pids \ {p} : image'[q] = image[q]
        /\ image'[p].once = image[p].once
    <3>1. CASE GetRedirect(p, t)
      BY <1>0, <3>1 DEF GetRedirect, Typed, Image
    <3>2. CASE Scan(p, t)
      <4>1. /\ \A q \in Pids \ {p} : image'[q] = image[q]
            /\ \/ image'[p] = [image[p] EXCEPT !.log_path = TRUE]
               \/ \E f \in TraceFds :
                     image'[p] = [[image[p] EXCEPT !.log_path = TRUE] EXCEPT !.fd = f]
        BY <3>2, ScanEffect
      <4> QED BY <1>0, <4>1 DEF Image
    <3> QED BY <1>7, <3>1, <3>2
  <2>4. thread[p][t].at \in Places /\ image[p].once = "running"
    BY <1>0, <1>7 DEF Scan, GetRedirect, At, Placed, Places
  <2>5. Step(p, t) /\ thread'[p][t].at = l
    BY <2>2, <2>3 DEF Moved, Step
  <2> QED BY <1>0, <2>3, <2>4, <2>5, PlacedStep DEF Places
<1>8. CASE GetBuildroot(p, t)
  <2>1. PICK l \in {"log", "log exec"} : Goto(p, t, l)
    BY <1>8 DEF GetBuildroot, AfterSetup
  <2>2. image' = [image EXCEPT ![p] = SetUp(p)]
    BY <1>8, GetBuildrootEffect
  <2>3. /\ \A q \in Pids \ {p} : image'[q] = image[q]
        /\ image'[p].once = "done" /\ image'[p].pid = p
    BY <1>0, <2>2 DEF SetUp, Typed, Image
  <2>4. thread[p][t].at \in Places
    BY <1>8 DEF GetBuildroot, At, Places
  <2>5. Moved(p, t, l)
    BY <2>1, GotoMoves DEF Labels
  <2>6. Step(p, t) /\ thread'[p][t].at = l
    BY <2>3, <2>5 DEF Moved, Step
  <2> QED BY <2>3, <2>4, <2>6, PlacedStep DEF Places
<1>9. CASE RedirectCrashes(p, t)
  <2>1. UNCHANGED thread /\ \A q \in Pids \ {p} : image'[q] = image[q]
    BY <1>9, StateTyped
  <2>2. image'[p].once = image[p].once /\ image'[p].pid = image[p].pid
    BY <1>9, StateKept
  <2> QED BY <2>1, <2>2, GlobalsPlaced
<1>10. CASE Execve(p, t)
  <2>1. PICK e \in Env : image'[p] = Started(e)
    BY <1>10, ExecveEffect
  <2>2. /\ thread'[p] = Alone(t)
        /\ \A q \in Pids \ {p} : image'[q] = image[q] /\ thread'[q] = thread[q]
    BY <1>10, ExecveEffect
  <2>3. image'[p].once = "no"
    BY <2>1, StartedType
  <2>4. Placed(p)'
    BY <2>2, <2>3, AlonePlaced
  <2> QED BY <2>2, <2>4, OthersPlaced
<1>11. CASE PosixSpawn(p, t)
  <2>0. PICK q \in Pids \ {p}, e \in Env : Spawned(p, t, q, e)
    BY <1>11, PosixSpawnEffect
  <2>1. /\ image[q].state = "none" /\ image'[q] = Started(e) /\ fds'[q] = AcrossExec(p)
        /\ \A r \in Pids \ {q} : image'[r] = image[r] /\ fds'[r] = fds[r]
        /\ thread'[q] = Alone(t) /\ thread'[p][t] = InProgram
        /\ \A u \in Threads \ {t} : thread'[p][u] = thread[p][u]
        /\ \A r \in Pids \ {p, q} : thread'[r] = thread[r]
    BY <2>0 DEF Spawned
  <2>2. image'[q].once = "no"
    BY <2>1, StartedType
  <2>3. Placed(q)'
    BY <2>1, <2>2, AlonePlaced
  <2>4. Placed(p)'
    <3>1. image'[p] = image[p] /\ thread'[p][t].at = "program"
      BY <2>1, InProgramType
    <3> QED BY <1>0, <2>1, <3>1 DEF Placed, Places
  <2>5. \A r \in Pids \ {p, q} : Placed(r)'
    BY <2>1 DEF OnePlace, Placed, Places
  <2> QED BY <2>3, <2>4, <2>5 DEF OnePlace
<1> QED BY <1>1, <1>2, <1>3, <1>4, <1>5, <1>6, <1>7, <1>8, <1>9, <1>10, <1>11
        DEF Library, Setup

LEMMA ProgramPlaced ==
    ASSUME Typed, OnePlace, NEW p \in Pids, NEW t \in Threads, Program(p, t)
    PROVE  OnePlace'
<1>0. Placed(p) /\ image[p] \in Image
  BY Here DEF OnePlace
<1>1. CASE Call(p, t)
  <2>1. PICK c \in Calls : c.at \in {"redirect", "close test"} /\ Called(p, t, c)
    BY <1>1, CallShape
  <2>2. UNCHANGED image /\ thread' = [thread EXCEPT ![p][t] = c]
    BY <2>1 DEF Called
  <2>3. Moved(p, t, c.at)
    BY <2>2, CallEffect DEF Moved
  <2> QED BY <2>1, <2>2, <2>3, MovePlaced DEF Places
<1>2. CASE Fork(p, t)
  <2>1. PICK q \in Pids \ {p} :
            /\ image'[q] = image[p] /\ thread'[q] = Alone(t)
            /\ \A r \in Pids \ {q} : image'[r] = image[r] /\ thread'[r] = thread[r]
    BY <1>2, ForkEffect
  <2>2. image'[q].once = "done" => image'[q].pid \in Pids
    BY <1>0, <2>1 DEF Placed
  <2>3. Placed(q)'
    BY <2>1, <2>2, AlonePlaced
  <2> QED BY <2>1, <2>3, OthersPlaced
<1>3. CASE Setenv(p, t)
  <2>1. UNCHANGED thread /\ \A q \in Pids \ {p} : image'[q] = image[q]
    BY <1>3, SetenvEffect
  <2>2. image'[p].once = image[p].once /\ image'[p].pid = image[p].pid
    BY <1>0, <1>3, SetenvEffect DEF Image
  <2> QED BY <2>1, <2>2, GlobalsPlaced
<1>4. CASE Exit(p, t)
  <2>1. UNCHANGED thread /\ \A q \in Pids \ {p} : image'[q] = image[q]
    BY <1>4, StateTyped
  <2>2. image'[p].once = image[p].once /\ image'[p].pid = image[p].pid
    BY <1>4, StateKept
  <2> QED BY <2>1, <2>2, GlobalsPlaced
<1> QED BY <1>1, <1>2, <1>3, <1>4 DEF Program

LEMMA InitPlaced == Init => OnePlace
<1> SUFFICES ASSUME Init PROVE OnePlace
  OBVIOUS
<1>1. PICK e \in InitialEnvs :
          /\ image = [p \in Pids |-> IF p = First THEN Started(e) ELSE Unborn]
          /\ thread = [p \in Pids |-> IF p = First THEN [t \in Threads |-> InProgram]
                                                   ELSE [t \in Threads |-> Absent]]
  BY DEF Init
<1>2. \A p \in Pids, t \in Threads : thread[p][t].at \in {"program", "absent"}
  BY <1>1, InProgramType
<1>3. \A p \in Pids : image[p].once = "no"
  BY <1>1, EnvAssumption, StartedType, UnbornOnce
<1> QED BY <1>2, <1>3 DEF OnePlace, Placed, Places

LEMMA NextPlaced == Typed /\ OnePlace /\ [Next]_vars => OnePlace'
<1> SUFFICES ASSUME Typed, OnePlace, [Next]_vars PROVE OnePlace'
  OBVIOUS
<1>1. CASE UNCHANGED vars
  BY <1>1 DEF vars, OnePlace, Placed, Places
<1>2. ASSUME NEW p \in Pids, NEW t \in Threads, Library(p, t) \/ Program(p, t) PROVE OnePlace'
  BY <1>2, LibraryPlaced, ProgramPlaced
<1> QED BY <1>1, <1>2 DEF Next

-----------------------------------------------------------------------------
(* What the log holds is of processes there are, and calls are counted.    *)
Counted == calls \in 0..MaxCalls /\ DOMAIN made = Pids /\ \A l \in log : l.pid \in Pids

LEMMA LogpathCounted ==
    ASSUME NEW p \in Pids, image[p].pid \in Pids, \A l \in log : l.pid \in Pids,
           NEW lines, logpath(p, lines), \A l \in lines : l.pid = image[p].pid
    PROVE  log \subseteq log' /\ \A l \in log' : l.pid \in Pids
BY DEF logpath

LEMMA LibraryCounted ==
    ASSUME OnePlace, Counted, NEW p \in Pids, NEW t \in Threads, Library(p, t)
    PROVE  Counted' /\ log \subseteq log'
<1>1. CASE Log(p, t)
  <2> DEFINE c == thread[p][t]
  <2>1. image[p].pid \in Pids
    BY <1>1 DEF Log, At, OnePlace, Placed
  <2>2. \/ UNCHANGED log
        \/ \E path : logpath(p, {Line(p, c.op, path)})
    BY <1>1 DEF Log
  <2>3. ASSUME NEW path, logpath(p, {Line(p, c.op, path)})
        PROVE  log \subseteq log' /\ \A l \in log' : l.pid \in Pids
    <3>1. \A l \in {Line(p, c.op, path)} : l.pid = image[p].pid
      BY DEF Line
    <3> QED BY <2>1, <2>3, <3>1, LogpathCounted DEF Counted
  <2>4. log \subseteq log' /\ \A l \in log' : l.pid \in Pids
    BY <2>2, <2>3 DEF Counted
  <2> QED BY <1>1, <2>4 DEF Log, Counted
<1>2. CASE LogExec(p, t)
  <2>1. image[p].pid \in Pids
    BY <1>2 DEF LogExec, At, OnePlace, Placed
  <2>2. \/ UNCHANGED log
        \/ \E paths : logpath(p, {Line(p, "execve", x) : x \in paths})
    BY <1>2 DEF LogExec
  <2>3. ASSUME NEW paths, logpath(p, {Line(p, "execve", x) : x \in paths})
        PROVE  log \subseteq log' /\ \A l \in log' : l.pid \in Pids
    <3>1. \A l \in {Line(p, "execve", x) : x \in paths} : l.pid = image[p].pid
      BY DEF Line
    <3> QED BY <2>1, <2>3, <3>1, LogpathCounted DEF Counted
  <2>4. log \subseteq log' /\ \A l \in log' : l.pid \in Pids
    BY <2>2, <2>3 DEF Counted
  <2> QED BY <1>2, <2>4 DEF LogExec, Counted
<1>3. CASE UNCHANGED <<log, calls>>
  <2>1. DOMAIN made' = Pids
    BY <1>3 DEF Counted, Library, Setup, Redirect, RedirectCrashes, Open, Readlink, CallFails,
           SetupDone, SetupStarts, OpenLog, Scan, CloseLog, GetRedirect, GetBuildroot, Log,
           LogExec, Execve, PosixSpawn, ExecFails, CloseTest, Close
  <2> QED BY <1>3, <2>1 DEF Counted
<1> QED BY <1>1, <1>2, <1>3 DEF Library, Setup, Redirect, RedirectCrashes, Open, Readlink,
      CallFails, SetupDone, SetupStarts, OpenLog, Scan, CloseLog, GetRedirect, GetBuildroot,
      Execve, PosixSpawn, ExecFails, CloseTest, Close

LEMMA ProgramCounted ==
    ASSUME Counted, NEW p \in Pids, NEW t \in Threads, Program(p, t)
    PROVE  Counted' /\ UNCHANGED <<log, made>>
<1>1. UNCHANGED <<log, made>>
  BY DEF Program, Call, Called, Fork, Setenv, Exit
<1>2. calls' = calls \/ (calls > 0 /\ calls' = calls - 1)
  BY DEF Program, Call, Called, Fork, Setenv, Exit
<1>3. calls' \in 0..MaxCalls
  BY <1>2, TraceAssumption DEF Counted
<1> QED BY <1>1, <1>3 DEF Counted

LEMMA InitCounted == Init => Counted
BY TraceAssumption DEF Init, Counted

LEMMA NextCounted == OnePlace /\ Counted /\ [Next]_vars => Counted'
<1> SUFFICES ASSUME OnePlace, Counted, [Next]_vars PROVE Counted'
  OBVIOUS
<1>1. CASE UNCHANGED vars
  BY <1>1 DEF vars, Counted
<1>2. ASSUME NEW p \in Pids, NEW t \in Threads, Library(p, t) \/ Program(p, t) PROVE Counted'
  BY <1>2, LibraryCounted, ProgramCounted
<1> QED BY <1>1, <1>2 DEF Next

LEMMA TraceOrder == Spec => [](Typed /\ OnePlace /\ Counted)
BY TraceTypes, InitPlaced, NextPlaced, InitCounted, NextCounted, PTL DEF Spec

(* Every variable keeps its form, and every line of the log names a        *)
(* process: none is written before the set-up has asked for the process's  *)
(* number (darwintrace.c:169).                                         *)
THEOREM LinesHaveProcess == Spec => []TypeOK
<1>1. Typed /\ OnePlace /\ Counted => TypeOK
  <2> SUFFICES ASSUME Typed, Counted PROVE TypeOK
    OBVIOUS
  <2>1. \A p \in Pids, t \in Threads : thread[p][t].fd \in Fds \cup {Unset}
    BY Here DEF Calls
  <2> QED BY <2>1 DEF Typed, Counted, TypeOK, Uses
<1> QED BY <1>1, TraceOrder, PTL

-----------------------------------------------------------------------------
(* Every access the log is about is in the log, or under an ignored root,  *)
(* or the thread that made it still is on its way to the line; the log     *)
(* that the set-up could not open has none.                                *)
AccessPath(op, path) == IF op = "open" THEN Resolved(path) ELSE cleanup_path(path)

Pending(p, t, a) ==
    /\ Logging(p, t) /\ thread[p][t].op \in {"open", "readlink"}
    /\ a.tag = thread[p][t].op
    /\ a.path = AccessPath(thread[p][t].op, thread[p][t].path)

Written(p, a) ==
    image[p].fd >= 0 /\ fds[p][image[p].fd] = "log"
    => Line(p, a.tag, a.path) \in log \/ Ignored(p, a.path)

Noted(p) ==
    /\ image[p].state = "none" => made[p] = {}
    /\ \A a \in made[p] : \/ \E t \in Threads : Pending(p, t, a)
                          \/ image[p].once = "done" /\ Written(p, a)

AllNoted == \A p \in Pids : Noted(p)

(* Once the set-up is over, nothing opens the log again, and the process   *)
(* writes its lines as before.                                             *)
Holding(p) == image[p].once = "done" =>
    /\ image'[p].once = "done" /\ image'[p].fd = image[p].fd
    /\ image'[p].pid = image[p].pid /\ image'[p].ignores = image[p].ignores
    /\ fds'[p][image[p].fd] = "log" => fds[p][image[p].fd] = "log"

LEMMA WrittenStays ==
    ASSUME NEW p \in Pids, NEW a, image[p].once = "done", Written(p, a), Holding(p),
           log \subseteq log'
    PROVE  image'[p].once = "done" /\ Written(p, a)'
BY DEF Written, Holding, Line, Ignored

(* The step of one thread of one process.                                  *)
Alters(p, t) ==
    /\ Step(p, t) /\ log \subseteq log'
    /\ \A q \in Pids \ {p} : fds'[q] = fds[q] /\ made'[q] = made[q]

LEMMA StillNoted ==
    ASSUME AllNoted, NEW q \in Pids, image'[q] = image[q], fds'[q] = fds[q],
           thread'[q] = thread[q], made'[q] = made[q], log \subseteq log'
    PROVE  Noted(q)'
<1>1. Noted(q) /\ Holding(q)
  BY DEF AllNoted, Holding
<1>2. \A t \in Threads, a \in made[q] : Pending(q, t, a) => Pending(q, t, a)'
  BY DEF Pending, Logging
<1>3. \A a \in made[q] : image[q].once = "done" /\ Written(q, a)
          => image'[q].once = "done" /\ Written(q, a)'
  BY <1>1, WrittenStays
<1> QED BY <1>1, <1>2, <1>3 DEF Noted

LEMMA NotedStep ==
    ASSUME AllNoted, NEW p \in Pids, NEW t \in Threads, Alters(p, t), Holding(p),
           image[p].state # "none", image'[p].state # "none",
           \A a \in made'[p] : \/ a \in made[p] \/ Pending(p, t, a)'
                               \/ image'[p].once = "done" /\ Written(p, a)',
           \A a : Pending(p, t, a) => \/ Pending(p, t, a)'
                                      \/ image'[p].once = "done" /\ Written(p, a)'
    PROVE  AllNoted'
<1>1. Noted(p)
  BY DEF AllNoted
<1>2. \A u \in Threads \ {t}, a \in made[p] : Pending(p, u, a) => Pending(p, u, a)'
  BY DEF Pending, Logging, Alters, Step
<1>3. \A a \in made[p] : image[p].once = "done" /\ Written(p, a)
          => image'[p].once = "done" /\ Written(p, a)'
  BY WrittenStays DEF Alters
<1>4. ASSUME NEW a \in made'[p]
      PROVE  \/ \E u \in Threads : Pending(p, u, a)'
             \/ image'[p].once = "done" /\ Written(p, a)'
  <2>1. CASE a \in made[p]
    <3>1. CASE \E u \in Threads : Pending(p, u, a)
      <4>1. PICK u \in Threads : Pending(p, u, a)
        BY <3>1
      <4>2. CASE u = t
        BY <4>1, <4>2
      <4>3. CASE u # t
        BY <1>2, <2>1, <4>1, <4>3
      <4> QED BY <4>2, <4>3
    <3>2. CASE image[p].once = "done" /\ Written(p, a)
      BY <1>3, <2>1, <3>2
    <3> QED BY <1>1, <2>1, <3>1, <3>2 DEF Noted
  <2>2. CASE a \notin made[p]
    BY <2>2
  <2> QED BY <2>1, <2>2
<1>5. Noted(p)'
  BY <1>4 DEF Noted
<1>6. \A q \in Pids \ {p} : Noted(q)'
  BY StillNoted DEF Alters, Step
<1> QED BY <1>5, <1>6 DEF AllNoted

(* A thread that has no line to write has none afterwards.                 *)
LEMMA QuietNoted ==
    ASSUME AllNoted, NEW p \in Pids, NEW t \in Threads, Alters(p, t), Holding(p),
           image[p].state # "none", image'[p].state # "none",
           made'[p] = made[p], ~Logging(p, t)
    PROVE  AllNoted'
<1>1. \A a : ~Pending(p, t, a)
  BY DEF Pending
<1> QED BY <1>1, NotedStep

(* A thread with a line to write goes on towards it.                       *)
Onward == {"setup", "open log", "scan", "close log", "get redirect", "get buildroot"}

LEMMA OnwardNoted ==
    ASSUME AllNoted, NEW p \in Pids, NEW t \in Threads, Alters(p, t), Holding(p),
           image[p].state # "none", image'[p].state # "none", made'[p] = made[p],
           thread'[p][t].op = thread[p][t].op, thread'[p][t].path = thread[p][t].path,
           \/ thread'[p][t].at \in Onward
           \/ thread'[p][t].at = AfterSetup(p, t)
    PROVE  AllNoted'
<1>1. \A a : Pending(p, t, a) => Pending(p, t, a)'
  BY DEF Pending, Logging, Onward, AfterSetup
<1> QED BY <1>1, NotedStep

(* A step to another label carries what the call is about.                 *)
LEMMA GotoCarries ==
    ASSUME Typed, NEW p \in Pids, NEW t \in Threads, NEW l, Goto(p, t, l)
    PROVE  /\ thread'[p][t].at = l /\ thread'[p][t].op = thread[p][t].op
           /\ thread'[p][t].path = thread[p][t].path
           /\ \A u \in Threads \ {t} : thread'[p][u] = thread[p][u]
           /\ \A q \in Pids \ {p} : thread'[q] = thread[q]
<1> DEFINE c == [thread[p][t] EXCEPT !.at = l]
<1>1. thread' = [thread EXCEPT ![p][t] = c]
  BY DEF Goto
<1>2. /\ c.at = l /\ c.op = thread[p][t].op /\ c.path = thread[p][t].path
  BY DEF Typed, Calls
<1> HIDE DEF c
<1> QED BY <1>1, <1>2 DEF Typed

LEMMA OpenLogCarries ==
    ASSUME Typed, NEW p \in Pids, NEW t \in Threads, OpenLog(p, t)
    PROVE  /\ thread'[p][t].at = "scan" /\ thread'[p][t].op = thread[p][t].op
           /\ thread'[p][t].path = thread[p][t].path
           /\ \A u \in Threads \ {t} : thread'[p][u] = thread[p][u]
           /\ \A q \in Pids \ {p} : thread'[q] = thread[q] /\ fds'[q] = fds[q]
<1>1. CASE Goto(p, t, "scan") /\ UNCHANGED fds
  BY <1>1, GotoCarries
<1>2. ASSUME NEW f \in Fds, fds' = [fds EXCEPT ![p][f] = "log"],
             thread' = [thread EXCEPT ![p][t].at = "scan", ![p][t].fd = f]
      PROVE  /\ thread'[p][t].at = "scan" /\ thread'[p][t].op = thread[p][t].op
             /\ thread'[p][t].path = thread[p][t].path
             /\ \A u \in Threads \ {t} : thread'[p][u] = thread[p][u]
             /\ \A q \in Pids \ {p} : thread'[q] = thread[q] /\ fds'[q] = fds[q]
  <2> DEFINE d == [[thread[p][t] EXCEPT !.at = "scan"] EXCEPT !.fd = f]
  <2>1. thread' = [thread EXCEPT ![p][t] = d]
    BY <1>2 DEF Typed
  <2>2. d.at = "scan" /\ d.op = thread[p][t].op /\ d.path = thread[p][t].path
    BY Here DEF Calls
  <2> HIDE DEF d
  <2> QED BY <1>2, <2>1, <2>2 DEF Typed
<1> QED BY <1>1, <1>2 DEF OpenLog, Lowest, Free

LEMMA SetupNoted ==
    ASSUME Typed, OnePlace, AllNoted, NEW p \in Pids, NEW t \in Threads, Setup(p, t)
    PROVE  AllNoted'
<1>0. /\ Placed(p) /\ image[p] \in Image /\ image[p].state = "running" /\ UNCHANGED <<made, log>>
      /\ "running" # "none" /\ "running" # "done" /\ "no" # "done"
  BY Here DEF OnePlace, Setup, At, SetupDone, SetupStarts, OpenLog, Scan, CloseLog,
              GetRedirect, GetBuildroot
<1> SUFFICES /\ \A q \in Pids \ {p} : /\ image'[q] = image[q] /\ fds'[q] = fds[q]
                                      /\ thread'[q] = thread[q]
             /\ \A u \in Threads \ {t} : thread'[p][u] = thread[p][u]
             /\ Holding(p) /\ image'[p].state = "running"
             /\ thread'[p][t].op = thread[p][t].op /\ thread'[p][t].path = thread[p][t].path
             /\ \/ thread'[p][t].at \in Onward
                \/ thread'[p][t].at = AfterSetup(p, t)
  <2>1. (\A q \in Pids \ {p} : /\ image'[q] = image[q] /\ fds'[q] = fds[q]
                               /\ thread'[q] = thread[q])
        /\ (\A u \in Threads \ {t} : thread'[p][u] = thread[p][u]) => Alters(p, t)
    BY <1>0 DEF Alters, Step
  <2> QED BY <1>0, <2>1, OnwardNoted
<1>1. CASE SetupDone(p, t)
  <2>1. UNCHANGED <<image, fds>> /\ Goto(p, t, AfterSetup(p, t))
    BY <1>1 DEF SetupDone
  <2>2. Holding(p)
    BY <2>1 DEF Holding
  <2> QED BY <1>0, <2>1, <2>2, GotoCarries
<1>2. CASE SetupStarts(p, t)
  <2>1. PICK l \in {"open log", "get redirect"} : Goto(p, t, l)
    BY <1>2 DEF SetupStarts
  <2>2. UNCHANGED fds /\ image[p].once = "no" /\ image[p].state = "running"
    BY <1>0, <1>2 DEF SetupStarts, At
  <2>3. /\ \A q \in Pids \ {p} : image'[q] = image[q]
        /\ image'[p].state = "running"
    BY <1>0, <1>2, <2>2, SetupStartsEffect
  <2>4. Holding(p)
    BY <1>0, <2>2 DEF Holding
  <2> QED BY <2>1, <2>2, <2>3, <2>4, GotoCarries DEF Onward
<1>3. ASSUME thread[p][t].at \in Places PROVE Holding(p)
  BY <1>0, <1>3 DEF Holding, Placed
<1>4. CASE OpenLog(p, t)
  <2>1. UNCHANGED image /\ Holding(p)
    BY <1>3, <1>4 DEF OpenLog, At, Places
  <2> QED BY <1>0, <1>4, <2>1, OpenLogCarries DEF Onward
<1>5. CASE Scan(p, t)
  <2>1. Holding(p)
    BY <1>3, <1>5 DEF Scan, At, Places
  <2>2. PICK l \in {"close log", "get redirect"} : Goto(p, t, l)
    BY <1>5 DEF Scan
  <2>3. /\ \A q \in Pids \ {p} : image'[q] = image[q]
        /\ \/ image'[p] = [image[p] EXCEPT !.log_path = TRUE]
           \/ \E f \in TraceFds :
                 image'[p] = [[image[p] EXCEPT !.log_path = TRUE] EXCEPT !.fd = f]
    BY <1>5, ScanEffect
  <2>4. image'[p].state = "running"
    BY <1>0, <2>3 DEF Image
  <2>5. \A q \in Pids \ {p} : fds'[q] = fds[q]
    <3>1. UNCHANGED fds \/ \E f : fds' = [fds EXCEPT ![p][f] = "log"]
      BY <1>5 DEF Scan
    <3> QED BY <3>1 DEF Typed
  <2>6. \A q \in Pids \ {p} : image'[q] = image[q]
    BY <2>3
  <2> QED BY <2>1, <2>2, <2>4, <2>5, <2>6, GotoCarries DEF Onward
<1>6. CASE CloseLog(p, t)
  <2>1. Holding(p)
    BY <1>3, <1>6 DEF CloseLog, At, Places
  <2>2. UNCHANGED image /\ Goto(p, t, "get redirect")
    BY <1>6 DEF CloseLog
  <2>3. \A q \in Pids \ {p} : fds'[q] = fds[q]
    BY <1>6 DEF CloseLog, Typed
  <2> QED BY <1>0, <2>1, <2>2, <2>3, GotoCarries DEF Onward
<1>7. CASE GetRedirect(p, t)
  <2>1. Holding(p)
    BY <1>3, <1>7 DEF GetRedirect, At, Places
  <2>2. UNCHANGED fds /\ Goto(p, t, "get buildroot")
    BY <1>7 DEF GetRedirect
  <2>3. image'[p].state = "running" /\ \A q \in Pids \ {p} : image'[q] = image[q]
    BY <1>0, <1>7 DEF GetRedirect, Typed, Image
  <2> QED BY <2>1, <2>2, <2>3, GotoCarries DEF Onward
<1>8. CASE GetBuildroot(p, t)
  <2>1. Holding(p)
    BY <1>3, <1>8 DEF GetBuildroot, At, Places
  <2>2. UNCHANGED fds /\ Goto(p, t, AfterSetup(p, t))
    BY <1>8 DEF GetBuildroot
  <2>3. image' = [image EXCEPT ![p] = SetUp(p)]
    BY <1>8, GetBuildrootEffect
  <2>4. image'[p].state = "running" /\ \A q \in Pids \ {p} : image'[q] = image[q]
    BY <1>0, <2>3 DEF SetUp, Typed, Image
  <2> QED BY <2>1, <2>2, <2>4, GotoCarries
<1> QED BY <1>1, <1>2, <1>4, <1>5, <1>6, <1>7, <1>8 DEF Setup

(* The line of a call is written, or the log is lost, or the path ignored. *)
LEMMA LogNoted ==
    ASSUME Typed, OnePlace, Counted, AllNoted, NEW p \in Pids, NEW t \in Threads, Log(p, t)
    PROVE  AllNoted'
<1> DEFINE c == thread[p][t]
           path == AccessPath(c.op, c.path)
<1>1. /\ UNCHANGED <<image, fds, made>> /\ Return(p, t) /\ image[p].state = "running"
      /\ image[p].once = "done" /\ "running" # "none"
  BY DEF Log, At, OnePlace, Placed
<1>2. log \subseteq log'
  BY LibraryCounted DEF Library
<1>3. Alters(p, t)
  BY <1>1, <1>2, ReturnEffect DEF Alters, Step
<1>4. Holding(p)
  BY <1>1 DEF Holding
<1>5. ASSUME NEW a, Pending(p, t, a) PROVE Written(p, a)'
  <2>1. a.tag = c.op /\ a.path = path
    BY <1>5 DEF Pending
  <2>2. image[p].fd >= 0 => logpath(p, {Line(p, a.tag, a.path)})
    BY <2>1 DEF Log, AccessPath
  <2>3. Line(p, a.tag, a.path).path = a.path
    BY DEF Line
  <2>4. ASSUME image[p].fd >= 0, fds[p][image[p].fd] = "log"
        PROVE  Line(p, a.tag, a.path) \in log' \/ Ignored(p, a.path)
    BY <2>2, <2>3, <2>4 DEF logpath
  <2>5. Line(p, a.tag, a.path)' = Line(p, a.tag, a.path)
        /\ (Ignored(p, a.path)' <=> Ignored(p, a.path))
    BY <1>1 DEF Line, Ignored
  <2> QED BY <1>1, <2>4, <2>5 DEF Written
<1>6. \A a \in made'[p] : a \in made[p]
  BY <1>1
<1>7. \A a : Pending(p, t, a) => image'[p].once = "done" /\ Written(p, a)'
  BY <1>1, <1>5
<1> QED BY <1>1, <1>3, <1>4, <1>6, <1>7, NotedStep

(* The lines of an execution are written before it is tried.               *)
LEMMA LogExecNoted ==
    ASSUME Typed, OnePlace, Counted, AllNoted, NEW p \in Pids, NEW t \in Threads, LogExec(p, t)
    PROVE  AllNoted'
<1>1. /\ UNCHANGED <<image, fds>> /\ Goto(p, t, "exec") /\ image[p].state = "running"
      /\ image[p].once = "done" /\ "running" # "none" /\ ~Logging(p, t)
  BY DEF LogExec, At, OnePlace, Placed, Logging
<1>2. log \subseteq log'
  BY LibraryCounted DEF Library
<1>3. PICK paths :
          /\ image[p].fd >= 0 => logpath(p, {Line(p, "execve", x) : x \in paths})
          /\ made' = [made EXCEPT ![p] = @ \cup {Access("execve", x) : x \in paths}]
  BY DEF LogExec
<1>4. Alters(p, t)
  BY <1>1, <1>2, <1>3, GotoEffect DEF Alters, Step, Labels, Counted
<1>5. Holding(p)
  BY <1>1 DEF Holding
<1>6. ASSUME NEW x \in paths PROVE Written(p, Access("execve", x))'
  <2>1. Line(p, "execve", x) \in {Line(p, "execve", y) : y \in paths}
    OBVIOUS
  <2>2. Line(p, "execve", x).path = x
    BY DEF Line
  <2>3. ASSUME image[p].fd >= 0, fds[p][image[p].fd] = "log"
        PROVE  Line(p, "execve", x) \in log' \/ Ignored(p, x)
    BY <1>3, <2>1, <2>2, <2>3 DEF logpath
  <2>4. Line(p, "execve", x)' = Line(p, "execve", x)
        /\ (Ignored(p, x)' <=> Ignored(p, x))
    BY <1>1 DEF Line, Ignored
  <2>5. Access("execve", x).tag = "execve" /\ Access("execve", x).path = x
    BY DEF Access
  <2> QED BY <1>1, <2>3, <2>4, <2>5 DEF Written
<1>7. \A a \in made'[p] : a \in made[p] \/ (image'[p].once = "done" /\ Written(p, a)')
  <2>1. made'[p] = made[p] \cup {Access("execve", x) : x \in paths}
    BY <1>3 DEF Counted
  <2> QED BY <1>1, <1>6, <2>1
<1>8. \A a : ~Pending(p, t, a)
  BY <1>1 DEF Pending
<1> QED BY <1>1, <1>4, <1>5, <1>7, <1>8, NotedStep

(* An access is made.                                                      *)
LEMMA AccessNoted ==
    ASSUME Typed, OnePlace, Counted, AllNoted, NEW p \in Pids, NEW t \in Threads,
           Goto(p, t, "setup"), At(p, t, "call"), UNCHANGED <<image, log>>,
           thread[p][t].op \in {"open", "readlink"},
           \A q \in Pids \ {p} : fds'[q] = fds[q],
           image[p].once = "done" =>
               (fds'[p][image[p].fd] = "log" => fds[p][image[p].fd] = "log"),
           made' = [made EXCEPT ![p] = @ \cup
               {Access(thread[p][t].op, AccessPath(thread[p][t].op, thread[p][t].path))}]
    PROVE  AllNoted'
<1>0. PICK new :
          new = Access(thread[p][t].op, AccessPath(thread[p][t].op, thread[p][t].path))
  OBVIOUS
<1>1. image[p].state = "running" /\ "running" # "none" /\ ~Logging(p, t)
  BY DEF At, Logging
<1>2. /\ thread'[p][t].at = "setup" /\ thread'[p][t].op = thread[p][t].op
      /\ thread'[p][t].path = thread[p][t].path /\ Step(p, t)
  BY GotoCarries DEF Step
<1>3. made'[p] = made[p] \cup {new} /\ \A q \in Pids \ {p} : made'[q] = made[q]
  BY <1>0 DEF Counted
<1>4. Alters(p, t) /\ Holding(p)
  BY <1>2, <1>3 DEF Alters, Holding
<1>5. Pending(p, t, new)'
  <2>1. /\ new.tag = thread[p][t].op
        /\ new.path = AccessPath(thread[p][t].op, thread[p][t].path)
    BY <1>0 DEF Access
  <2> QED BY <1>2, <2>1 DEF Pending, Logging
<1>6. \A a \in made'[p] : a \in made[p] \/ Pending(p, t, a)'
  BY <1>3, <1>5
<1>7. \A a : ~Pending(p, t, a)
  BY <1>1 DEF Pending
<1> QED BY <1>1, <1>4, <1>6, <1>7, NotedStep

(* What a new program in a process has made so far.                        *)
LEMMA NothingNoted == ASSUME NEW p \in Pids, made'[p] = {} PROVE Noted(p)'
BY DEF Noted

LEMMA LibraryNoted ==
    ASSUME Typed, OnePlace, Counted, AllNoted, NEW p \in Pids, NEW t \in Threads, Library(p, t)
    PROVE  AllNoted'
<1>0. /\ Placed(p) /\ image[p] \in Image /\ image[p].state = "running" /\ "running" # "none"
      /\ "running" # "done" /\ "no" # "done" /\ log \subseteq log'
  <2>1. image[p].state = "running"
    BY DEF Library, Setup, At, Redirect, RedirectCrashes, Open, Readlink, CallFails,
           SetupDone, SetupStarts, OpenLog, Scan, CloseLog, GetRedirect, GetBuildroot, Log,
           LogExec, Execve, PosixSpawn, ExecFails, CloseTest, Close
  <2> QED BY <2>1, Here, LibraryCounted DEF OnePlace
<1>1. CASE CallFails(p, t) \/ ExecFails(p, t) \/ CloseTest(p, t)
  <2>1. /\ Return(p, t) \/ Goto(p, t, "close")
        /\ UNCHANGED <<image, fds, made>> /\ ~Logging(p, t)
    BY <1>1 DEF CallFails, ExecFails, CloseTest, Logging, At
  <2>2. Step(p, t)
    BY <2>1, ReturnEffect, GotoCarries DEF Step
  <2>3. Alters(p, t) /\ Holding(p)
    BY <1>0, <2>1, <2>2 DEF Alters, Holding
  <2> QED BY <1>0, <2>1, <2>3, QuietNoted
<1>2. CASE Close(p, t)
  <2>1. /\ Return(p, t) /\ UNCHANGED <<image, made>> /\ ~Logging(p, t)
        /\ fds' = [fds EXCEPT ![p][thread[p][t].fd] = "free"]
    BY <1>2 DEF Close, Logging, At
  <2>2. Step(p, t)
    BY <2>1, ReturnEffect DEF Step
  <2>3. /\ \A q \in Pids \ {p} : fds'[q] = fds[q]
        /\ \A f : fds'[p][f] = "log" => fds[p][f] = "log"
    BY <2>1 DEF Typed
  <2>4. Alters(p, t) /\ Holding(p)
    BY <1>0, <2>1, <2>2, <2>3 DEF Alters, Holding
  <2> QED BY <1>0, <2>1, <2>4, QuietNoted
<1>3. CASE Redirect(p, t)
  <2>1. UNCHANGED <<image, fds, made>> /\ ~Logging(p, t)
    BY <1>3 DEF Redirect, Logging, At
  <2>2. Step(p, t)
    BY <1>3, <2>1 DEF Redirect, Typed, Step
  <2>3. Alters(p, t) /\ Holding(p)
    BY <1>0, <2>1, <2>2 DEF Alters, Holding
  <2> QED BY <1>0, <2>1, <2>3, QuietNoted
<1>4. CASE Open(p, t)
  <2>1. PICK f \in Free(p), use \in {"read", "write"} : fds' = [fds EXCEPT ![p][f] = use]
    BY <1>4 DEF Open, Lowest
  <2>2. /\ \A q \in Pids \ {p} : fds'[q] = fds[q]
        /\ \A g : fds'[p][g] = "log" => fds[p][g] = "log"
    BY <2>1 DEF Typed, Free
  <2>3. UNCHANGED <<image, log>> /\ At(p, t, "call") /\ ~Logging(p, t)
    BY <1>4 DEF Open, Logging, At
  <2>4. CASE thread[p][t].op = "open"
    <3>1. /\ Goto(p, t, "setup")
          /\ made' = [made EXCEPT ![p] = @ \cup
               {Access(thread[p][t].op, AccessPath(thread[p][t].op, thread[p][t].path))}]
      BY <1>4, <2>4 DEF Open, AccessPath
    <3> QED BY <2>2, <2>3, <2>4, <3>1, AccessNoted
  <2>5. CASE thread[p][t].op # "open"
    <3>1. Return(p, t) /\ UNCHANGED made
      BY <1>4, <2>5 DEF Open
    <3>2. Step(p, t)
      BY <2>3, <3>1, ReturnEffect DEF Step
    <3>3. Alters(p, t) /\ Holding(p)
      BY <1>0, <2>2, <2>3, <3>1, <3>2 DEF Alters, Holding
    <3> QED BY <1>0, <2>3, <3>1, <3>3, QuietNoted
  <2> QED BY <2>4, <2>5
<1>5. CASE Readlink(p, t)
  <2>1. /\ UNCHANGED <<image, fds, log>> /\ At(p, t, "call") /\ Goto(p, t, "setup")
        /\ thread[p][t].op = "readlink"
        /\ made' = [made EXCEPT ![p] = @ \cup
             {Access(thread[p][t].op, AccessPath(thread[p][t].op, thread[p][t].path))}]
    BY <1>5 DEF Readlink, AccessPath
  <2> QED BY <2>1, AccessNoted
<1>6. CASE RedirectCrashes(p, t)
  <2>1. UNCHANGED <<fds, thread, made>> /\ \A q \in Pids \ {p} : image'[q] = image[q]
    BY <1>6, StateTyped DEF RedirectCrashes
  <2>2. /\ image'[p].state # "none" /\ image'[p].once = image[p].once
        /\ image'[p].fd = image[p].fd /\ image'[p].pid = image[p].pid
        /\ image'[p].ignores = image[p].ignores
    BY <1>6, StateKept
  <2>3. Alters(p, t) /\ Holding(p)
    BY <1>0, <2>1, <2>2 DEF Alters, Holding, Step
  <2>4. ~Logging(p, t)
    BY <1>6 DEF RedirectCrashes, At, Logging
  <2> QED BY <1>0, <2>1, <2>2, <2>3, <2>4, QuietNoted
<1>7. CASE Execve(p, t)
  <2>1. \A q \in Pids \ {p} : image'[q] = image[q] /\ fds'[q] = fds[q] /\ thread'[q] = thread[q]
    BY <1>7, ExecveEffect
  <2>2. made'[p] = {} /\ \A q \in Pids \ {p} : made'[q] = made[q]
    BY <1>7 DEF Execve, Counted
  <2>3. \A q \in Pids \ {p} : Noted(q)'
    BY <1>0, <2>1, <2>2, StillNoted
  <2> QED BY <2>2, <2>3, NothingNoted DEF AllNoted
<1>8. CASE PosixSpawn(p, t)
  <2>0. PICK q \in Pids \ {p}, e \in Env : Spawned(p, t, q, e)
    BY <1>8, PosixSpawnEffect
  <2>1. /\ image[q].state = "none" /\ image'[q] = Started(e) /\ fds'[q] = AcrossExec(p)
        /\ \A r \in Pids \ {q} : image'[r] = image[r] /\ fds'[r] = fds[r]
        /\ thread'[q] = Alone(t) /\ thread'[p][t] = InProgram
        /\ \A u \in Threads \ {t} : thread'[p][u] = thread[p][u]
        /\ \A r \in Pids \ {p, q} : thread'[r] = thread[r]
    BY <2>0 DEF Spawned
  <2>2. UNCHANGED made /\ ~Logging(p, t)
    BY <1>8 DEF PosixSpawn, At, Logging
  <2>3. made'[q] = {}
    BY <2>1, <2>2 DEF AllNoted, Noted
  <2>4. Noted(q)'
    BY <2>3, NothingNoted
  <2>5. \A r \in Pids \ {p, q} : Noted(r)'
    BY <1>0, <2>1, <2>2, StillNoted
  <2>6. Noted(p)'
    <3>1. Noted(p) /\ Holding(p) /\ image'[p] = image[p]
      BY <2>1 DEF AllNoted, Holding
    <3>2. \A u \in Threads : \A a : Pending(p, u, a) => Pending(p, u, a)'
      BY <2>1, <2>2 DEF Pending, Logging
    <3>3. \A a \in made[p] : image[p].once = "done" /\ Written(p, a)
              => image'[p].once = "done" /\ Written(p, a)'
      BY <1>0, <3>1, WrittenStays
    <3> QED BY <1>0, <2>2, <3>1, <3>2, <3>3 DEF Noted
  <2> QED BY <2>4, <2>5, <2>6 DEF AllNoted
<1> QED BY <1>1, <1>2, <1>3, <1>4, <1>5, <1>6, <1>7, <1>8, SetupNoted, LogNoted, LogExecNoted
        DEF Library

LEMMA ProgramNoted ==
    ASSUME Typed, OnePlace, Counted, AllNoted, NEW p \in Pids, NEW t \in Threads, Program(p, t)
    PROVE  AllNoted'
<1>0. /\ image[p] \in Image /\ image[p].state = "running" /\ "running" # "none"
      /\ ~Logging(p, t) /\ UNCHANGED <<made, log>>
  BY Here, ProgramCounted DEF Program, Call, Called, Fork, Setenv, Exit, At, Logging
<1>1. CASE Call(p, t)
  <2>1. PICK c \in Calls : Called(p, t, c)
    BY <1>1, CallShape
  <2>2. UNCHANGED <<image, fds>> /\ thread' = [thread EXCEPT ![p][t] = c]
    BY <2>1 DEF Called
  <2>3. Step(p, t)
    BY <2>2, CallEffect DEF Step
  <2>4. Alters(p, t) /\ Holding(p)
    BY <1>0, <2>2, <2>3 DEF Alters, Holding
  <2> QED BY <1>0, <2>2, <2>4, QuietNoted
<1>2. CASE Fork(p, t)
  <2>1. PICK q \in Pids \ {p} :
            /\ image[q].state = "none"
            /\ image'[q] = image[p] /\ fds'[q] = fds[p] /\ thread'[q] = Alone(t)
            /\ \A r \in Pids \ {q} : /\ image'[r] = image[r] /\ fds'[r] = fds[r]
                                     /\ thread'[r] = thread[r]
    BY <1>2, ForkEffect
  <2>2. made'[q] = {}
    BY <1>0, <2>1 DEF AllNoted, Noted
  <2>3. \A r \in Pids \ {q} : Noted(r)'
    BY <1>0, <2>1, StillNoted
  <2> QED BY <2>2, <2>3, NothingNoted DEF AllNoted
<1>3. CASE Setenv(p, t) \/ Exit(p, t)
  <2>1. UNCHANGED <<fds, thread>> /\ \A q \in Pids \ {p} : image'[q] = image[q]
    BY <1>3, SetenvEffect, StateTyped
  <2>2. /\ image'[p].state # "none" /\ image'[p].once = image[p].once
        /\ image'[p].fd = image[p].fd /\ image'[p].pid = image[p].pid
        /\ image'[p].ignores = image[p].ignores
    <3>1. CASE Setenv(p, t)
      <4>1. PICK e \in Settings : image'[p] = [image[p] EXCEPT !.env = e]
        BY <3>1, SetenvEffect
      <4> QED BY <1>0, <4>1, Here DEF Image
    <3>2. CASE Exit(p, t)
      BY <3>2, StateKept
    <3> QED BY <1>3, <3>1, <3>2
  <2>3. Alters(p, t) /\ Holding(p)
    BY <1>0, <2>1, <2>2 DEF Alters, Holding, Step
  <2> QED BY <1>0, <2>2, <2>3, QuietNoted
<1> QED BY <1>1, <1>2, <1>3 DEF Program

LEMMA NextNoted == Typed /\ OnePlace /\ Counted /\ AllNoted /\ [Next]_vars => AllNoted'
<1> SUFFICES ASSUME Typed, OnePlace, Counted, AllNoted, [Next]_vars PROVE AllNoted'
  OBVIOUS
<1>1. CASE UNCHANGED vars
  <2>1. \A q \in Pids : Noted(q)'
    BY <1>1, StillNoted DEF vars
  <2> QED BY <2>1 DEF AllNoted
<1>2. ASSUME NEW p \in Pids, NEW t \in Threads, Library(p, t) \/ Program(p, t) PROVE AllNoted'
  BY <1>2, LibraryNoted, ProgramNoted
<1> QED BY <1>1, <1>2 DEF Next

(* Whatever the threads of a process do while one of them sets the library *)
(* up, every access the program has made is in the log, or under an        *)
(* ignored root, or on its way there, the one that made the library open   *)
(* the log included: the threads that come during the set-up wait for it   *)
(* (darwintrace.c:224-227).                                                *)
THEOREM EveryAccessLogged == Spec => []NothingMissed
<1>1. Init => AllNoted
  BY DEF Init, AllNoted, Noted
<1>2. AllNoted => NothingMissed
  BY DEF AllNoted, Noted, Written, Pending, NothingMissed
<1> QED BY <1>1, <1>2, NextNoted, TraceOrder, PTL DEF Spec

-----------------------------------------------------------------------------
(* The two variables the redirection needs are read one after the other.   *)
HalfSet(p) ==
    /\ image[p].redirect => "REDIRECT" \in image[p].env.set
    /\ image[p].redirect /\ ~image[p].buildroot
       => "BUILDROOT" \notin image[p].env.set \/ image[p].once = "running"
    /\ image[p].state = "crashed" => image[p].redirect /\ ~image[p].buildroot

Redirecting == \A p \in Pids : HalfSet(p)

LEMMA OthersHalf ==
    ASSUME Redirecting, NEW p \in Pids, HalfSet(p)',
           \A q \in Pids \ {p} : image'[q] = image[q]
    PROVE  Redirecting'
BY DEF Redirecting, HalfSet

LEMMA StartedHalf ==
    ASSUME NEW e \in Env, NEW p \in Pids, image'[p] = Started(e)
    PROVE  HalfSet(p)'
BY StartedType DEF HalfSet

LEMMA LibraryHalf ==
    ASSUME Typed, OnePlace, Redirecting, NEW p \in Pids, NEW t \in Threads, Library(p, t)
    PROVE  Redirecting'
<1>0. /\ HalfSet(p) /\ Placed(p) /\ image[p] \in Image /\ image[p].state = "running"
      /\ "running" # "crashed" /\ "running" # "done"
  BY Here DEF Redirecting, OnePlace, Library, Setup, At, Redirect, RedirectCrashes, Open,
              Readlink, CallFails, SetupDone, SetupStarts, OpenLog, Scan, CloseLog,
              GetRedirect, GetBuildroot, Log, LogExec, Execve, PosixSpawn, ExecFails,
              CloseTest, Close
<1>1. CASE UNCHANGED image
  BY <1>1 DEF Redirecting, HalfSet
<1>2. CASE SetupStarts(p, t)
  <2>1. /\ image' = [image EXCEPT ![p] = [image[p] EXCEPT !.once = "running"]]
    BY <1>2 DEF SetupStarts
  <2>2. /\ \A q \in Pids \ {p} : image'[q] = image[q]
        /\ image'[p].redirect = image[p].redirect /\ image'[p].env = image[p].env
        /\ image'[p].once = "running" /\ image'[p].state = "running"
    BY <1>0, <2>1 DEF Typed, Image
  <2>3. HalfSet(p)'
    BY <1>0, <2>2 DEF HalfSet
  <2> QED BY <2>2, <2>3, OthersHalf
<1>3. CASE Scan(p, t)
  <2>1. /\ \A q \in Pids \ {p} : image'[q] = image[q]
        /\ \/ image'[p] = [image[p] EXCEPT !.log_path = TRUE]
           \/ \E f \in TraceFds :
                 image'[p] = [[image[p] EXCEPT !.log_path = TRUE] EXCEPT !.fd = f]
    BY <1>3, ScanEffect
  <2>2. /\ image'[p].redirect = image[p].redirect /\ image'[p].env = image[p].env
        /\ image'[p].buildroot = image[p].buildroot
        /\ image'[p].once = image[p].once /\ image'[p].state = image[p].state
    BY <1>0, <2>1 DEF Image
  <2>3. HalfSet(p)'
    BY <1>0, <2>2 DEF HalfSet
  <2> QED BY <2>1, <2>3, OthersHalf
<1>4. CASE GetRedirect(p, t)
  <2>1. image[p].once = "running"
    BY <1>0, <1>4 DEF GetRedirect, At, Placed, Places
  <2>2. /\ \A q \in Pids \ {p} : image'[q] = image[q]
        /\ image'[p].redirect = ("REDIRECT" \in image[p].env.set)
        /\ image'[p].env = image[p].env /\ image'[p].once = "running"
        /\ image'[p].state = "running"
    BY <1>0, <1>4, <2>1 DEF GetRedirect, Typed, Image
  <2>3. HalfSet(p)'
    BY <2>2 DEF HalfSet
  <2> QED BY <2>2, <2>3, OthersHalf
<1>5. CASE GetBuildroot(p, t)
  <2>1. image' = [image EXCEPT ![p] = SetUp(p)]
    BY <1>5, GetBuildrootEffect
  <2>2. /\ \A q \in Pids \ {p} : image'[q] = image[q]
        /\ image'[p].redirect = image[p].redirect /\ image'[p].env = image[p].env
        /\ image'[p].buildroot = ("BUILDROOT" \in image[p].env.set)
        /\ image'[p].state = "running"
    BY <1>0, <2>1 DEF SetUp, Typed, Image
  <2>3. HalfSet(p)'
    BY <1>0, <2>2 DEF HalfSet
  <2> QED BY <2>2, <2>3, OthersHalf
<1>6. CASE RedirectCrashes(p, t)
  <2>1. image[p].redirect /\ ~image[p].buildroot
    BY <1>6 DEF RedirectCrashes
  <2>2. \A q \in Pids \ {p} : image'[q] = image[q]
    BY <1>6, StateTyped
  <2>3. /\ image'[p].redirect = image[p].redirect /\ image'[p].env = image[p].env
        /\ image'[p].buildroot = image[p].buildroot
        /\ image'[p].once = image[p].once
    BY <1>0, <1>6, StateTyped, StateKept DEF Image
  <2>4. HalfSet(p)'
    BY <1>0, <2>1, <2>3 DEF HalfSet
  <2> QED BY <2>2, <2>4, OthersHalf
<1>7. CASE Execve(p, t)
  <2>1. PICK e \in Env : image'[p] = Started(e)
    BY <1>7, ExecveEffect
  <2>2. \A q \in Pids \ {p} : image'[q] = image[q]
    BY <1>7, ExecveEffect
  <2> QED BY <2>1, <2>2, StartedHalf, OthersHalf
<1>8. CASE PosixSpawn(p, t)
  <2>0. PICK q \in Pids \ {p}, e \in Env : Spawned(p, t, q, e)
    BY <1>8, PosixSpawnEffect
  <2>1. /\ image[q].state = "none" /\ image'[q] = Started(e) /\ fds'[q] = AcrossExec(p)
        /\ \A r \in Pids \ {q} : image'[r] = image[r] /\ fds'[r] = fds[r]
        /\ thread'[q] = Alone(t) /\ thread'[p][t] = InProgram
        /\ \A u \in Threads \ {t} : thread'[p][u] = thread[p][u]
        /\ \A r \in Pids \ {p, q} : thread'[r] = thread[r]
    BY <2>0 DEF Spawned
  <2> QED BY <2>1, StartedHalf, OthersHalf
<1> QED BY <1>1, <1>2, <1>3, <1>4, <1>5, <1>6, <1>7, <1>8
        DEF Library, Setup, Redirect, Open, Readlink, CallFails, SetupDone, OpenLog, CloseLog,
            Log, LogExec, ExecFails, CloseTest, Close

LEMMA ProgramHalf ==
    ASSUME Settings = {}, Typed, Redirecting, NEW p \in Pids, NEW t \in Threads, Program(p, t)
    PROVE  Redirecting'
<1>0. HalfSet(p) /\ image[p] \in Image
  BY Here DEF Redirecting
<1>1. CASE Call(p, t)
  <2>1. UNCHANGED image
    BY <1>1 DEF Call, Called
  <2> QED BY <2>1 DEF Redirecting, HalfSet
<1>2. CASE Fork(p, t)
  <2>1. PICK q \in Pids \ {p} :
            /\ image'[q] = image[p] /\ \A r \in Pids \ {q} : image'[r] = image[r]
    BY <1>2, ForkEffect
  <2>2. HalfSet(q)'
    BY <1>0, <2>1 DEF HalfSet
  <2> QED BY <2>1, <2>2, OthersHalf
<1>3. CASE Exit(p, t)
  <2>1. image' = [image EXCEPT ![p] = [image[p] EXCEPT !.state = "gone"]]
    BY <1>3 DEF Exit
  <2>2. /\ \A q \in Pids \ {p} : image'[q] = image[q]
        /\ image'[p].redirect = image[p].redirect /\ image'[p].env = image[p].env
        /\ image'[p].buildroot = image[p].buildroot
        /\ image'[p].once = image[p].once /\ image'[p].state = "gone"
    BY <1>0, <2>1 DEF Typed, Image
  <2>3. HalfSet(p)'
    BY <1>0, <2>2 DEF HalfSet
  <2> QED BY <2>2, <2>3, OthersHalf
<1>4. ~Setenv(p, t)
  BY DEF Setenv
<1> QED BY <1>1, <1>2, <1>3, <1>4 DEF Program

LEMMA InitHalf == Init => Redirecting
<1> SUFFICES ASSUME Init PROVE Redirecting
  OBVIOUS
<1>1. PICK e \in InitialEnvs :
          image = [p \in Pids |-> IF p = First THEN Started(e) ELSE Unborn]
  BY DEF Init
<1>2. \A p \in Pids : ~image[p].redirect /\ image[p].state # "crashed"
  BY <1>1, EnvAssumption, StartedType, UnbornOnce
<1> QED BY <1>2 DEF Redirecting, HalfSet

LEMMA NextHalf ==
    Settings = {} /\ Typed /\ OnePlace /\ Redirecting /\ [Next]_vars => Redirecting'
<1> SUFFICES ASSUME Settings = {}, Typed, OnePlace, Redirecting, [Next]_vars
             PROVE  Redirecting'
  OBVIOUS
<1>1. CASE UNCHANGED vars
  BY <1>1 DEF vars, Redirecting, HalfSet
<1>2. ASSUME NEW p \in Pids, NEW t \in Threads, Library(p, t) \/ Program(p, t) PROVE Redirecting'
  BY <1>2, LibraryHalf, ProgramHalf
<1> QED BY <1>1, <1>2 DEF Next

(* While programs leave their own environment alone, a process of any      *)
(* number of threads dies of the library only when there is a redirection  *)
(* and no build root, or while a set-up has read the one variable and not  *)
(* the other: the calls look at the globals before they wait for it        *)
(* (darwintrace.c:124-142, 165-167).                                       *)
CrashPlaced == \A p \in Pids : image[p].state = "crashed" =>
    /\ "REDIRECT" \in image[p].env.set
    /\ "BUILDROOT" \notin image[p].env.set \/ image[p].once = "running"

THEOREM CrashesPlaced == Settings = {} /\ Spec => []CrashPlaced
<1> SUFFICES ASSUME Settings = {} PROVE Spec => []CrashPlaced
  OBVIOUS
<1>1. Redirecting => CrashPlaced
  BY DEF Redirecting, HalfSet, CrashPlaced
<1>2. Typed /\ OnePlace /\ Redirecting /\ [Next]_vars => Redirecting'
  BY NextHalf
<1> QED BY <1>1, <1>2, InitHalf, TraceOrder, PTL DEF Spec

(* With one thread, a set-up that runs is where that thread is.            *)
Occupied(p) ==
    image[p].state \in {"running", "crashed"} /\ image[p].once = "running"
    => image[p].state = "running" /\ \A t \in Threads : thread[p][t].at \in Places

AllOccupied == \A p \in Pids : Occupied(p)

LEMMA OccupiedStep ==
    ASSUME Single, AllOccupied, NEW p \in Pids, NEW t \in Threads,
           \A q \in Pids \ {p} : image'[q] = image[q] /\ thread'[q] = thread[q],
           \/ image'[p].once # "running"
           \/ image'[p].state = "gone"
           \/ image'[p].state = "running" /\ thread'[p][t].at \in Places
    PROVE  AllOccupied'
<1>1. Occupied(p)'
  BY DEF Occupied, Single, Places
<1>2. \A q \in Pids \ {p} : Occupied(q)'
  BY DEF AllOccupied, Occupied, Places
<1> QED BY <1>1, <1>2 DEF AllOccupied

LEMMA LibraryOccupied ==
    ASSUME Single, Typed, OnePlace, AllOccupied, NEW p \in Pids, NEW t \in Threads, Library(p, t)
    PROVE  AllOccupied'
<1>0. /\ Occupied(p) /\ Placed(p) /\ image[p] \in Image /\ image[p].state = "running"
      /\ "running" # "done" /\ "running" # "no" /\ "running" # "none"
  BY Here DEF AllOccupied, OnePlace, Library, Setup, At, Redirect, RedirectCrashes, Open,
              Readlink, CallFails, SetupDone, SetupStarts, OpenLog, Scan, CloseLog,
              GetRedirect, GetBuildroot, Log, LogExec, Execve, PosixSpawn, ExecFails,
              CloseTest, Close
<1>1. ASSUME thread[p][t].at \notin Places PROVE image[p].once # "running"
  BY <1>0, <1>1 DEF Occupied
<1>2. CASE CallFails(p, t) \/ Log(p, t) \/ ExecFails(p, t) \/ Close(p, t) \/ CloseTest(p, t)
           \/ Readlink(p, t) \/ Open(p, t) \/ SetupDone(p, t) \/ LogExec(p, t)
  <2>1. /\ UNCHANGED image /\ thread[p][t].at \notin Places
        /\ Return(p, t) \/ \E l : Goto(p, t, l)
    BY <1>2 DEF CallFails, Log, ExecFails, Close, CloseTest, Readlink, Open, SetupDone,
                LogExec, At, Places
  <2>2. \A q \in Pids \ {p} : thread'[q] = thread[q]
    BY <2>1, ReturnEffect, GotoCarries
  <2>3. image'[p].once # "running" /\ \A q \in Pids \ {p} : image'[q] = image[q]
    BY <1>1, <2>1
  <2> QED BY <2>2, <2>3, OccupiedStep
<1>3. CASE Redirect(p, t) \/ RedirectCrashes(p, t)
  <2>1. thread[p][t].at \notin Places /\ \A q \in Pids \ {p} : thread'[q] = thread[q]
    BY <1>3 DEF Redirect, RedirectCrashes, At, Places, Typed
  <2>2. image'[p].once = image[p].once /\ \A q \in Pids \ {p} : image'[q] = image[q]
    <3>1. CASE Redirect(p, t)
      BY <3>1 DEF Redirect
    <3>2. CASE RedirectCrashes(p, t)
      BY <1>0, <3>2, StateTyped, StateKept DEF Image
    <3> QED BY <1>3, <3>1, <3>2
  <2> QED BY <1>1, <2>1, <2>2, OccupiedStep
<1>4. CASE OpenLog(p, t) \/ CloseLog(p, t)
  <2>1. UNCHANGED image
    BY <1>4 DEF OpenLog, CloseLog
  <2>2. thread'[p][t].at \in Places /\ \A q \in Pids \ {p} : thread'[q] = thread[q]
    <3>1. CASE OpenLog(p, t)
      BY <3>1, OpenLogCarries DEF Places
    <3>2. CASE CloseLog(p, t)
      <4>1. Goto(p, t, "get redirect")
        BY <3>2 DEF CloseLog
      <4>2. Moved(p, t, "get redirect")
        BY <4>1, GotoMoves DEF Labels
      <4> QED BY <4>2 DEF Moved, Places
    <3> QED BY <1>4, <3>1, <3>2
  <2> QED BY <1>0, <2>1, <2>2, OccupiedStep
<1>5. CASE SetupStarts(p, t) \/ Scan(p, t) \/ GetRedirect(p, t)
  <2>1. PICK l \in Places : Goto(p, t, l)
    BY <1>5 DEF SetupStarts, Scan, GetRedirect, Places
  <2>2. thread'[p][t].at \in Places /\ \A q \in Pids \ {p} : thread'[q] = thread[q]
    BY <2>1, GotoCarries
  <2>3. image'[p].state = "running" /\ \A q \in Pids \ {p} : image'[q] = image[q]
    <3>1. CASE SetupStarts(p, t)
      BY <1>0, <3>1, SetupStartsEffect
    <3>2. CASE GetRedirect(p, t)
      BY <1>0, <3>2, GetRedirectEffect
    <3>3. CASE Scan(p, t)
      <4>1. /\ \A q \in Pids \ {p} : image'[q] = image[q]
            /\ \/ image'[p] = [image[p] EXCEPT !.log_path = TRUE]
               \/ \E f \in TraceFds :
                     image'[p] = [[image[p] EXCEPT !.log_path = TRUE] EXCEPT !.fd = f]
        BY <3>3, ScanEffect
      <4> QED BY <1>0, <4>1 DEF Image
    <3> QED BY <1>5, <3>1, <3>2, <3>3
  <2> QED BY <2>2, <2>3, OccupiedStep
<1>6. CASE GetBuildroot(p, t)
  <2>1. Goto(p, t, AfterSetup(p, t)) /\ image' = [image EXCEPT ![p] = SetUp(p)]
    BY <1>6, GetBuildrootEffect DEF GetBuildroot
  <2>2. \A q \in Pids \ {p} : thread'[q] = thread[q]
    BY <2>1, GotoCarries
  <2>3. image'[p].once = "done" /\ \A q \in Pids \ {p} : image'[q] = image[q]
    BY <1>0, <2>1 DEF SetUp, Typed, Image
  <2> QED BY <1>0, <2>2, <2>3, OccupiedStep
<1>7. CASE Execve(p, t)
  <2>1. PICK e \in Env : image'[p] = Started(e)
    BY <1>7, ExecveEffect
  <2>2. \A q \in Pids \ {p} : image'[q] = image[q] /\ thread'[q] = thread[q]
    BY <1>7, ExecveEffect
  <2>3. image'[p].once = "no"
    BY <2>1, StartedType
  <2> QED BY <1>0, <2>2, <2>3, OccupiedStep
<1>8. CASE PosixSpawn(p, t)
  <2>0. PICK q \in Pids \ {p}, e \in Env : Spawned(p, t, q, e)
    BY <1>8, PosixSpawnEffect
  <2>1. /\ image[q].state = "none" /\ image'[q] = Started(e) /\ fds'[q] = AcrossExec(p)
        /\ \A r \in Pids \ {q} : image'[r] = image[r] /\ fds'[r] = fds[r]
        /\ thread'[q] = Alone(t) /\ thread'[p][t] = InProgram
        /\ \A u \in Threads \ {t} : thread'[p][u] = thread[p][u]
        /\ \A r \in Pids \ {p, q} : thread'[r] = thread[r]
    BY <2>0 DEF Spawned
  <2>2. image'[q].once = "no" /\ "no" # "running"
    BY <2>1, StartedType
  <2>3. image'[p].once # "running"
    <3>1. thread[p][t].at = "exec"
      BY <1>8 DEF PosixSpawn, At
    <3>2. thread[p][t].at \notin Places /\ image'[p] = image[p]
      BY <2>1, <3>1 DEF Places
    <3> QED BY <1>1, <3>2
  <2>4. \A r \in Pids \ {p, q} : Occupied(r)'
    BY <2>1 DEF AllOccupied, Occupied, Places
  <2>5. Occupied(p)' /\ Occupied(q)'
    BY <2>2, <2>3 DEF Occupied
  <2> QED BY <2>4, <2>5 DEF AllOccupied
<1> QED BY <1>2, <1>3, <1>4, <1>5, <1>6, <1>7, <1>8 DEF Library, Setup

LEMMA ProgramOccupied ==
    ASSUME Single, Typed, AllOccupied, NEW p \in Pids, NEW t \in Threads, Program(p, t)
    PROVE  AllOccupied'
<1>0. /\ image[p] \in Image /\ image[p].state = "running" /\ image[p].once # "running"
  <2>1. image[p].state = "running" /\ thread[p][t].at \notin Places
    BY DEF Program, Call, Called, Fork, Setenv, Exit, At, Places
  <2> QED BY <2>1, Here DEF AllOccupied, Occupied
<1>1. CASE Call(p, t)
  <2>1. PICK c \in Calls : Called(p, t, c)
    BY <1>1, CallShape
  <2>2. UNCHANGED image /\ \A q \in Pids \ {p} : thread'[q] = thread[q]
    BY <2>1, CallEffect DEF Called
  <2> QED BY <1>0, <2>2, OccupiedStep
<1>2. CASE Fork(p, t)
  <2>1. PICK q \in Pids \ {p} :
            /\ image'[q] = image[p]
            /\ \A r \in Pids \ {q} : image'[r] = image[r] /\ thread'[r] = thread[r]
    BY <1>2, ForkEffect
  <2> QED BY <1>0, <2>1, OccupiedStep
<1>3. CASE Setenv(p, t) \/ Exit(p, t)
  <2>1. UNCHANGED thread /\ \A q \in Pids \ {p} : image'[q] = image[q]
    BY <1>3, SetenvEffect, StateTyped
  <2>2. image'[p].once = image[p].once
    <3>1. CASE Setenv(p, t)
      BY <1>0, <3>1, SetenvEffect DEF Image
    <3>2. CASE Exit(p, t)
      BY <1>0, <3>2, StateTyped, StateKept DEF Image
    <3> QED BY <1>3, <3>1, <3>2
  <2> QED BY <1>0, <2>1, <2>2, OccupiedStep
<1> QED BY <1>1, <1>2, <1>3 DEF Program

LEMMA InitOccupied == Init => AllOccupied
<1> SUFFICES ASSUME Init PROVE AllOccupied
  OBVIOUS
<1>1. PICK e \in InitialEnvs :
          image = [p \in Pids |-> IF p = First THEN Started(e) ELSE Unborn]
  BY DEF Init
<1>2. \A p \in Pids : image[p].once = "no"
  BY <1>1, EnvAssumption, StartedType, UnbornOnce
<1> QED BY <1>2 DEF AllOccupied, Occupied

LEMMA NextOccupied ==
    Single /\ Typed /\ OnePlace /\ AllOccupied /\ [Next]_vars => AllOccupied'
<1> SUFFICES ASSUME Single, Typed, OnePlace, AllOccupied, [Next]_vars
             PROVE  AllOccupied'
  OBVIOUS
<1>1. CASE UNCHANGED vars
  BY <1>1 DEF vars, AllOccupied, Occupied, Places
<1>2. ASSUME NEW p \in Pids, NEW t \in Threads, Library(p, t) \/ Program(p, t)
      PROVE  AllOccupied'
  BY <1>2, LibraryOccupied, ProgramOccupied
<1> QED BY <1>1, <1>2 DEF Next

(* With one thread there is no such moment: the process dies only where it *)
(* is told to redirect and not where the build root is.                    *)
THEOREM CrashesExplained == Single /\ Settings = {} /\ Spec => []CrashExplained
<1> SUFFICES ASSUME Single, Settings = {} PROVE Spec => []CrashExplained
  OBVIOUS
<1>1. CrashPlaced /\ AllOccupied => CrashExplained
  BY DEF CrashPlaced, AllOccupied, Occupied, CrashExplained
<1>2. Typed /\ OnePlace /\ AllOccupied /\ [Next]_vars => AllOccupied'
  BY NextOccupied
<1>3. Spec => []AllOccupied
  BY <1>2, InitOccupied, TraceOrder, PTL DEF Spec
<1>4. Spec => []CrashPlaced
  BY CrashesPlaced
<1> QED BY <1>1, <1>3, <1>4, PTL
=============================================================================
