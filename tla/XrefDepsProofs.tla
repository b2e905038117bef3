--------------------------- MODULE XrefDepsProofs ---------------------------
(***************************************************************************)
(* What holds of the commands of XrefDeps for any number of processes,     *)
(* projects and files: DepsInv is inductive, and from it follow the two    *)
(* properties that survive statements failing on a locked database.  For   *)
(* one process at a time the last part proves the other four: register     *)
(* and loadDeps store what they were given, and resolveDeps loses nothing. *)
(***************************************************************************)
EXTENDS XrefDeps, TLAPS

(* What a step of c leaves alone. *)
OthersRest(c) == \A d \in Procs \ {c} : /\ tx'[d] = tx[d]
                                        /\ view'[d] = view[d]
                                        /\ proc'[d] = proc[d]

(* The SQL statements, as far as the commands depend on them.              *)
LEMMA ReadEffect ==
    ASSUME SqliteType(AllTables), NEW c \in Procs, Read(c)
    PROVE  /\ SqliteType(AllTables)'
           /\ db' = db
           /\ \A d \in Procs \ {c} : tx'[d] = tx[d] /\ view'[d] = view[d]
           /\ Reading(c)' => view'[c] = Tables(c)
           /\ CanRead(c) /\ tx[c] # "auto" => Reading(c)'
           /\ Reading(c) => Reading(c)'
           /\ Writing(c)' <=> Writing(c)
           /\ tx'[c] = "auto" <=> tx[c] = "auto"
<1>1. CASE tx[c] = "begun" /\ CanRead(c)
  BY <1>1 DEF Read, SqliteType, Modes, Reading, Writing, Tables
<1>2. CASE ~(tx[c] = "begun" /\ CanRead(c))
  BY <1>2 DEF Read, SqliteType, Modes, Reading, Writing, Tables, sqlite
<1> QED BY <1>1, <1>2

LEMMA WriteEffect ==
    ASSUME SqliteType(AllTables), NEW c \in Procs, NEW t \in AllTables, Write(c, t)
    PROVE  /\ SqliteType(AllTables)'
           /\ db' = db
           /\ \A d \in Procs \ {c} : tx'[d] = tx[d] /\ view'[d] = view[d]
           /\ \/ Writing(c)' /\ Reading(c)' /\ view'[c] = t
              \/ tx'[c] = tx[c] /\ view'[c] = view[c]
           /\ Reading(c) => Reading(c)'
           /\ tx[c] # "auto" => tx'[c] # "auto"
<1>1. CASE CanWrite(c)
  BY <1>1 DEF Write, SqliteType, Modes, Reading, Writing
<1>2. CASE ~CanWrite(c)
  BY <1>2 DEF Write, SqliteType, Modes, Reading, Writing, sqlite
<1> QED BY <1>1, <1>2

LEMMA CommitEffect ==
    ASSUME SqliteType(AllTables), NEW c \in Procs, Commit(c),
           Reading(c) => view[c] \in AllTables,
           Reading(c) /\ ~Writing(c) => view[c] = db
    PROVE  /\ SqliteType(AllTables)'
           /\ \A d \in Procs \ {c} : tx'[d] = tx[d] /\ view'[d] = view[d]
           /\ \/ db' = db
              \/ /\ Writing(c) /\ db' = view[c] /\ tx'[c] = "auto"
                 /\ \A d \in Procs \ {c} : ~Reading(d)
           /\ \/ tx'[c] = "auto"
              \/ /\ db' = db /\ Writing(c) /\ tx'[c] = "pending"
                 /\ view'[c] = view[c]
<1>1. CASE CanCommit(c)
  <2>1. /\ tx' = [tx EXCEPT ![c] = "auto"]
        /\ view' = [view EXCEPT ![c] = NoTables]
        /\ db' = Tables(c)
    BY <1>1 DEF Commit, Release
  <2>2. Tables(c) \in AllTables
    BY DEF Tables, SqliteType
  <2>3. SqliteType(AllTables)'
    BY <2>1, <2>2 DEF SqliteType, Modes
  <2>4. CASE Writing(c)
    <3>1. \A d \in Procs \ {c} : ~Reading(d)
      BY <1>1, <2>4 DEF CanCommit, NobodyElse, Reading
    <3>2. Reading(c)
      BY <2>4 DEF Writing, Reading
    <3> QED BY <2>1, <2>3, <2>4, <3>1, <3>2 DEF Tables, SqliteType
  <2>5. CASE ~Writing(c)
    BY <2>1, <2>3, <2>5 DEF Tables, SqliteType
  <2> QED BY <2>4, <2>5
<1>2. CASE ~CanCommit(c)
  BY <1>2 DEF Commit, CanCommit, SqliteType, Modes
<1> QED BY <1>1, <1>2

LEMMA CloseEffect ==
    ASSUME SqliteType(AllTables), NEW c \in Procs, Close(c)
    PROVE  /\ SqliteType(AllTables)'
           /\ db' = db
           /\ tx'[c] = "auto"
           /\ \A d \in Procs \ {c} : tx'[d] = tx[d] /\ view'[d] = view[d]
BY DEF Close, Release, SqliteType, Modes

(* A process that another one's step does not touch relies on what it      *)
(* relied on before: either the tables are the same, or it reads nothing.  *)
LEMMA OthersKeep ==
    ASSUME DepsInv, NEW c \in Procs, NEW d \in Procs \ {c}, OthersRest(c),
           db' = db \/ ~Reading(d)
    PROVE  Placed(d)' /\ Seeing(d)' /\ Looking(d)' /\ Merging(d)'
<1> d \in Procs /\ tx'[d] = tx[d] /\ view'[d] = view[d] /\ proc'[d] = proc[d]
  BY DEF OthersRest
<1>0. Placed(d) /\ Seeing(d) /\ Looking(d) /\ Merging(d)
  BY DEF DepsInv
<1>1. Placed(d)'
  BY <1>0 DEF Placed
<1>2. Reading(d)' = Reading(d) /\ Writing(d)' = Writing(d)
  BY DEF Reading, Writing
<1>3. CASE db' = db
  <2>1. \A p, q \in Projects : Justified(p, q)' <=> Justified(p, q)
    BY <1>3 DEF Justified, Known
  <2>2. \A q \in proc[d].merged : Justified(proc[d].project, q)' <=> Justified(proc[d].project, q)
    BY <1>3 DEF Justified, Known
  <2>3. Worked(d, view[d]) => Worked(d, view[d])'
    BY <1>3, <2>1 DEF Worked, Owners, Known
  <2>4. Seeing(d)'
    BY <1>0, <1>2, <1>3, <2>3 DEF Seeing
  <2>5. Looking(d)'
    BY <1>0, <1>2, <1>3 DEF Looking
  <2>6. Merging(d)'
    BY <1>0, <1>2, <2>2 DEF Merging
  <2> QED BY <1>1, <2>4, <2>5, <2>6
<1>4. CASE ~Reading(d)
  <2>1. ~Writing(d)
    BY <1>4 DEF Reading, Writing
  <2>2. proc[d].paths = {} /\ proc[d].merged = {} /\ proc[d].at \notin {"exists", "processed"}
    BY <1>0, <1>4 DEF Looking, Merging
  <2> QED BY <1>1, <1>2, <1>4, <2>1, <2>2 DEF Seeing, Looking, Merging
<1> QED BY <1>3, <1>4

LEMMA StepKeeps ==
    ASSUME DepsInv, NEW c \in Procs, TypeOK', OthersRest(c),
           db' = db \/ \A d \in Procs \ {c} : ~Reading(d),
           Placed(c)', Seeing(c)', Looking(c)', Merging(c)'
    PROVE  DepsInv'
<1>1. ASSUME NEW d \in Procs PROVE Placed(d)' /\ Seeing(d)' /\ Looking(d)' /\ Merging(d)'
  <2>1. CASE d = c
    BY <2>1
  <2>2. CASE d # c
    BY <2>2, OthersKeep
  <2> QED BY <2>1, <2>2
<1> QED BY <1>1 DEF DepsInv

(***************************************************************************)
(* What a statement leaves of the invariant of its own process.            *)
(***************************************************************************)
LEMMA TablesWorked ==
    ASSUME DepsInv, NEW c \in Procs
    PROVE  /\ Tables(c) \in AllTables
           /\ Worked(c, Tables(c))
           /\ Reading(c) => Tables(c) = view[c]
<1>1. Seeing(c) /\ db \in AllTables
  BY DEF DepsInv, TypeOK, SqliteType
<1>2. Worked(c, db)
  BY DEF Worked, Known, Justified
<1>3. Writing(c) => Reading(c)
  BY DEF Writing, Reading
<1> QED BY <1>1, <1>2, <1>3 DEF Seeing, Tables

(* The command goes on; only resolveDeps goes from one project to the next.*)
SameCommand(c) == /\ proc'[c].cmd = proc[c].cmd
                  /\ proc'[c].project = proc[c].project \/ proc[c].cmd \in Resolving

LEMMA WorkedStays ==
    ASSUME NEW c \in Procs, NEW t, db' = db, SameCommand(c), Worked(c, t)
    PROVE  IF proc'[c].cmd \in Resolving
           THEN /\ t.files = db'.files
                /\ t.unresolved \subseteq db'.unresolved
                /\ \A p \in Projects, f \in Paths :
                     <<p, f>> \in db'.unresolved \ t.unresolved => Owners(db', f) # {}
                /\ \A p, q \in Projects : <<p, q>> \in Known(t) => Justified(p, q)'
           ELSE /\ Known(t) = Known(db')
                /\ \A p \in Projects, f \in Paths :
                     <<p, f>> \in db'.unresolved \ t.unresolved =>
                       proc'[c].cmd = "register" /\ proc'[c].project = p
BY DEF Worked, SameCommand, Owners, Known, Justified

LEMMA ReadSees ==
    ASSUME DepsInv, NEW c \in Procs, Read(c), SameCommand(c)
    PROVE  Seeing(c)'
<1>1. Tables(c) \in AllTables /\ Worked(c, Tables(c)) /\ (Reading(c) => Tables(c) = view[c])
  BY TablesWorked
<1>2. /\ db' = db
      /\ Reading(c)' => view'[c] = Tables(c)
      /\ Writing(c)' <=> Writing(c)
  BY ReadEffect DEF DepsInv, TypeOK
<1>3. Reading(c)' => view'[c] \in AllTables
  BY <1>1, <1>2
<1>4. Reading(c)' /\ ~Writing(c)' => view'[c] = db'
  BY <1>1, <1>2 DEF DepsInv, Seeing, Tables
<1>5. ASSUME Writing(c)' PROVE Worked(c, view[c])'
  <2>1. view'[c] = Tables(c)
    BY <1>2, <1>5 DEF Writing, Reading
  <2>2. PICK t : t = Tables(c)
    OBVIOUS
  <2>3. Worked(c, t) /\ view'[c] = t
    BY <1>1, <2>1, <2>2
  <2> QED BY <1>2, <2>3, WorkedStays DEF Worked, Owners, Known
<1> QED BY <1>3, <1>4, <1>5 DEF Seeing

LEMMA WriteSees ==
    ASSUME DepsInv, NEW c \in Procs, NEW t \in AllTables, Worked(c, t), Write(c, t),
           SameCommand(c)
    PROVE  Seeing(c)'
<1>1. Seeing(c)
  BY DEF DepsInv
<1>2. /\ db' = db
      /\ \/ Writing(c)' /\ Reading(c)' /\ view'[c] = t
         \/ tx'[c] = tx[c] /\ view'[c] = view[c]
  BY WriteEffect DEF DepsInv, TypeOK
<1>3. CASE Writing(c)' /\ Reading(c)' /\ view'[c] = t
  <2>1. Worked(c, view[c])'
    BY <1>2, <1>3, WorkedStays DEF Worked, Owners, Known
  <2> QED BY <1>3, <2>1 DEF Seeing
<1>4. CASE tx'[c] = tx[c] /\ view'[c] = view[c]
  <2>1. Reading(c)' = Reading(c) /\ Writing(c)' = Writing(c)
    BY <1>4 DEF Reading, Writing
  <2>2. ASSUME Worked(c, view[c]) PROVE Worked(c, view[c])'
    <3>1. PICK u : u = view[c]
      OBVIOUS
    <3>2. Worked(c, u) /\ view'[c] = u
      BY <1>4, <2>2, <3>1
    <3> QED BY <1>2, <3>2, WorkedStays DEF Worked, Owners, Known
  <2> QED BY <1>1, <1>2, <1>4, <2>1, <2>2 DEF Seeing
<1> QED BY <1>2, <1>3, <1>4

(***************************************************************************)
(* A step of c within a command: r is what becomes of proc[c].  What it    *)
(* notes must be true of the tables, and it must be reading them.          *)
(***************************************************************************)
Follows(c, r) ==
    /\ r \in Commands
    /\ r.cmd = proc[c].cmd
    /\ r.project = proc[c].project \/ proc[c].cmd \in Resolving
    /\ r.at \in InTransaction \cup {"next", "exit", "begin"}
    /\ r.at \in InTransaction => proc[c].at \in InTransaction
    /\ r.at \in {"prune_files", "prune_unresolved", "root", "file"} => r.cmd = "register"
    /\ r.at = "trace" => r.cmd = "loadDeps"
    /\ r.at \notin {"prune_files", "prune_unresolved", "root", "file", "trace", "exit"}
         => r.cmd \in Resolving
    /\ r.at \in InTransaction \cup {"begin"} => r.project \in Projects
    /\ r.at = "file" => r.todo # <<>>

Notes(r) ==
    /\ r.paths # {} => r.at \in {"owner", "exists", "processed"}
    /\ \A f \in r.paths : <<r.project, f>> \in db.unresolved
    /\ r.at \in {"exists", "processed"} => /\ <<r.project, r.path>> \in db.unresolved
                                           /\ <<r.owner, r.path>> \in db.files
    /\ r.merged # {} => r.at \in {"dependencies", "delete_property", "set_property"}
    /\ \A q \in r.merged : Justified(r.project, q)

Looks(r) == r.paths # {} \/ r.merged # {} \/ r.at \in {"exists", "processed"}

Becomes(c, r) == proc' = [proc EXCEPT ![c] = r] /\ UNCHANGED budget

LEMMA StatementStep ==
    ASSUME DepsInv, NEW c \in Procs, NEW r, Follows(c, r), Notes(r), Becomes(c, r),
           SqliteType(AllTables)', db' = db,
           \A d \in Procs \ {c} : tx'[d] = tx[d] /\ view'[d] = view[d],
           tx[c] # "auto" => tx'[c] # "auto",
           Looks(r) => Reading(c)',
           Seeing(c)'
    PROVE  DepsInv'
<1>1. r \in Commands /\ proc'[c] = r /\ proc' \in [Procs -> Commands]
  BY DEF Follows, Becomes, DepsInv, TypeOK
<1>2. TypeOK'
  BY <1>1 DEF TypeOK, Becomes, DepsInv
<1>3. OthersRest(c)
  BY DEF OthersRest, Becomes, DepsInv, TypeOK
<1>4. Placed(c)'
  <2>1. proc[c].at \in InTransaction => tx[c] # "auto"
    BY DEF DepsInv, Placed
  <2>2. r.at \in InTransaction => tx'[c] # "auto"
    BY <2>1 DEF Follows
  <2> QED BY <1>1, <2>2 DEF Placed, Follows, InTransaction, Resolving
<1>5. Looking(c)'
  BY <1>1 DEF Looking, Notes, Looks
<1>6. Merging(c)'
  <2>1. \A q \in r.merged : Justified(r.project, q)'
    BY DEF Notes, Justified, Known
  <2> QED BY <1>1, <2>1 DEF Merging, Notes, Looks
<1> QED BY <1>2, <1>3, <1>4, <1>5, <1>6, StepKeeps

LEMMA QuietStep ==
    ASSUME DepsInv, NEW c \in Procs, NEW r, Follows(c, r), Notes(r), Becomes(c, r),
           Looks(r) => Reading(c), UNCHANGED sqlite
    PROVE  DepsInv'
<1>1. /\ db' = db /\ tx' = tx /\ view' = view
  BY DEF sqlite
<1>2. SqliteType(AllTables)'
  BY <1>1 DEF SqliteType, DepsInv, TypeOK
<1>3. Reading(c)' = Reading(c) /\ Writing(c)' = Writing(c)
  BY <1>1 DEF Reading, Writing
<1>4. proc'[c] = r /\ SameCommand(c)
  BY DEF Follows, Becomes, DepsInv, TypeOK, SameCommand
<1>5. Seeing(c)'
  <2>1. Seeing(c)
    BY DEF DepsInv
  <2>2. ASSUME Worked(c, view[c]) PROVE Worked(c, view[c])'
    <3>1. PICK u : u = view[c]
      OBVIOUS
    <3>2. Worked(c, u) /\ view'[c] = u
      BY <1>1, <2>2, <3>1
    <3> QED BY <1>1, <1>4, <3>2, WorkedStays DEF Worked, Owners, Known
  <2> QED BY <1>1, <1>3, <2>1, <2>2 DEF Seeing
<1> QED BY <1>1, <1>2, <1>3, <1>5, StatementStep

LEMMA ReadStep ==
    ASSUME DepsInv, NEW c \in Procs, NEW r, Follows(c, r), Notes(r), Becomes(c, r),
           Looks(r) => Reading(c) \/ (CanRead(c) /\ tx[c] # "auto"), Read(c)
    PROVE  DepsInv'
<1>1. /\ SqliteType(AllTables)' /\ db' = db
      /\ \A d \in Procs \ {c} : tx'[d] = tx[d] /\ view'[d] = view[d]
      /\ CanRead(c) /\ tx[c] # "auto" => Reading(c)'
      /\ Reading(c) => Reading(c)'
      /\ tx[c] # "auto" => tx'[c] # "auto"
  BY ReadEffect DEF DepsInv, TypeOK
<1>2. SameCommand(c)
  BY DEF Follows, Becomes, DepsInv, TypeOK, SameCommand
<1>3. Seeing(c)'
  BY <1>2, ReadSees
<1> QED BY <1>1, <1>3, StatementStep

LEMMA WriteStep ==
    ASSUME DepsInv, NEW c \in Procs, NEW r, Follows(c, r), Notes(r), Becomes(c, r),
           Looks(r) => Reading(c),
           NEW t \in AllTables, Worked(c, t), Write(c, t)
    PROVE  DepsInv'
<1>1. /\ SqliteType(AllTables)' /\ db' = db
      /\ \A d \in Procs \ {c} : tx'[d] = tx[d] /\ view'[d] = view[d]
      /\ Reading(c) => Reading(c)'
      /\ tx[c] # "auto" => tx'[c] # "auto"
  BY WriteEffect DEF DepsInv, TypeOK
<1>2. SameCommand(c)
  BY DEF Follows, Becomes, DepsInv, TypeOK, SameCommand
<1>3. Seeing(c)'
  BY <1>2, WriteSees
<1> QED BY <1>1, <1>3, StatementStep

(***************************************************************************)
(* The actions, one by one.                                                *)
(***************************************************************************)
LEMMA Here ==
    ASSUME DepsInv, NEW c \in Procs
    PROVE  /\ proc \in [Procs -> Commands] /\ proc[c] \in Commands
           /\ db \in AllTables
           /\ Placed(c) /\ Looking(c) /\ Merging(c)
           /\ proc[c].paths # {} => proc[c].at \in {"owner", "exists", "processed"}
           /\ proc[c].merged # {} => proc[c].at \in {"dependencies", "delete_property", "set_property"}
BY DEF DepsInv, TypeOK, SqliteType, Looking, Merging

(* Outside the loop over the paths and the merge a command has noted nothing. *)
LEMMA NothingNoted ==
    ASSUME NEW r, r.paths = {}, r.merged = {}, r.at \notin {"exists", "processed"}
    PROVE  Notes(r) /\ ~Looks(r)
BY DEF Notes, Looks

(* A command that only moves on. *)
LEMMA Moves ==
    ASSUME NEW was \in Commands, NEW label \in Labels
    PROVE  LET r == [was EXCEPT !.at = label]
           IN  /\ r \in Commands /\ r.at = label
               /\ r.cmd = was.cmd /\ r.project = was.project
               /\ r.paths = was.paths /\ r.path = was.path /\ r.owner = was.owner
               /\ r.merged = was.merged
BY DEF Commands

LEMMA Merged ==
    ASSUME NEW was \in Commands, NEW left \in SUBSET Projects
    PROVE  LET r == [was EXCEPT !.merged = left]
           IN  /\ r \in Commands /\ r.at = was.at /\ r.cmd = was.cmd
               /\ r.project = was.project /\ r.paths = was.paths /\ r.merged = left
BY DEF Commands

(* The steps a command can be at, without the set of them all. *)
LEMMA LabelNames ==
    /\ "exited" \in Labels /\ "begin" \in Labels /\ "prune_files" \in Labels
    /\ "prune_unresolved" \in Labels /\ "root" \in Labels /\ "file" \in Labels
    /\ "trace" \in Labels /\ "exit" \in Labels /\ "list" \in Labels
    /\ "next" \in Labels /\ "unresolved" \in Labels /\ "owner" \in Labels
    /\ "exists" \in Labels /\ "processed" \in Labels /\ "dependencies" \in Labels
    /\ "delete_property" \in Labels /\ "set_property" \in Labels /\ "commit" \in Labels
BY DEF Labels

LEMMA QuietActions ==
    ASSUME DepsInv, NEW c \in Procs,
           \/ BeginFails(c) \/ OpenFile(c) \/ OpenFails(c) \/ NextProject(c) \/ NoMoreProjects(c)
    PROVE  DepsInv'
<1>0. {"next", "exit"} \subseteq Labels
  BY DEF Labels
<1>1. CASE BeginFails(c)
  <2> DEFINE r == [proc[c] EXCEPT !.at = "next"]
  <2>1. Becomes(c, r) /\ UNCHANGED sqlite /\ proc[c].at = "begin" /\ tx[c] # "auto"
    BY <1>1, Here DEF BeginFails, At, Goto, Becomes
  <2>2. /\ r \in Commands /\ r.at = "next" /\ r.cmd = proc[c].cmd
        /\ r.project = proc[c].project /\ r.paths = proc[c].paths /\ r.merged = proc[c].merged
    BY <1>0, Here, Moves
  <2> HIDE DEF r
  <2>3. Follows(c, r)
    BY <2>1, <2>2, Here DEF Follows, Placed, InTransaction
  <2>4. Notes(r) /\ ~Looks(r)
    BY <2>1, <2>2, Here, NothingNoted
  <2> QED BY <2>1, <2>3, <2>4, QuietStep
<1>2. CASE OpenFile(c)
  <2> DEFINE r == [proc[c] EXCEPT !.at = "file", !.links = Links[Head(proc[c].todo)]]
  <2>1. Becomes(c, r) /\ UNCHANGED sqlite /\ proc[c].at = "root" /\ proc[c].todo # <<>>
    BY <1>2, Here DEF OpenFile, At, Becomes
  <2>2. Links[Head(proc[c].todo)] \in Seq(Paths)
    <3>1. proc[c].todo \in Seq(Paths)
      BY Here DEF Commands
    <3>2. Head(proc[c].todo) \in Paths
      BY <2>1, <3>1
    <3> QED BY <3>2, LinksAssumption
  <2>3. /\ r \in Commands /\ r.at = "file" /\ r.cmd = proc[c].cmd
        /\ r.project = proc[c].project /\ r.paths = proc[c].paths /\ r.merged = proc[c].merged
        /\ r.todo = proc[c].todo
    BY <2>2, Here, LabelNames DEF Commands
  <2> HIDE DEF r
  <2>4. Follows(c, r)
    BY <2>1, <2>3, Here DEF Follows, Placed, InTransaction
  <2>5. Notes(r) /\ ~Looks(r)
    BY <2>1, <2>3, Here, NothingNoted
  <2> QED BY <2>1, <2>4, <2>5, QuietStep
<1>3. CASE OpenFails(c) \/ NoMoreProjects(c)
  <2> DEFINE r == [proc[c] EXCEPT !.at = "exit"]
  <2>1. Becomes(c, r) /\ UNCHANGED sqlite /\ proc[c].at \in {"root", "next"}
    BY <1>3, Here DEF OpenFails, NoMoreProjects, At, Goto, Becomes
  <2>2. /\ r \in Commands /\ r.at = "exit" /\ r.cmd = proc[c].cmd
        /\ r.project = proc[c].project /\ r.paths = proc[c].paths /\ r.merged = proc[c].merged
    BY <1>0, Here, Moves
  <2> HIDE DEF r
  <2>3. Follows(c, r)
    BY <2>1, <2>2, Here DEF Follows, Placed, InTransaction
  <2>4. Notes(r) /\ ~Looks(r)
    BY <2>1, <2>2, Here, NothingNoted
  <2> QED BY <2>1, <2>3, <2>4, QuietStep
<1>4. CASE NextProject(c)
  <2>1. PICK p \in proc[c].queue :
          proc' = [proc EXCEPT ![c].at = "begin", ![c].project = p, ![c].queue = @ \ {p}]
    BY <1>4 DEF NextProject
  <2> DEFINE r == [proc[c] EXCEPT !.at = "begin", !.project = p, !.queue = @ \ {p}]
  <2>2. Becomes(c, r) /\ UNCHANGED sqlite /\ proc[c].at = "next"
    BY <1>4, <2>1, Here DEF NextProject, At, Becomes
  <2>3. /\ r \in Commands /\ r.at = "begin" /\ r.cmd = proc[c].cmd /\ r.project \in Projects
        /\ r.paths = proc[c].paths /\ r.merged = proc[c].merged
    BY Here, LabelNames DEF Commands
  <2> HIDE DEF r
  <2>4. Follows(c, r)
    BY <2>2, <2>3, Here DEF Follows, Placed, InTransaction
  <2>5. Notes(r) /\ ~Looks(r)
    BY <2>2, <2>3, Here, NothingNoted
  <2> QED BY <2>2, <2>4, <2>5, QuietStep
<1> QED BY <1>1, <1>2, <1>3, <1>4

(* The rows of a project are what the table holds for it. *)
LEMMA RowsOfTable ==
    ASSUME NEW S, NEW table \in SUBSET (Projects \X S), NEW p
    PROVE  /\ RowsOf(table, p) \subseteq S
           /\ \A f \in RowsOf(table, p) : <<p, f>> \in table
           /\ \A f : <<p, f>> \in table => f \in RowsOf(table, p)
<1>1. \A row \in table : row = <<row[1], row[2]>> /\ row[2] \in S
  OBVIOUS
<1> QED BY <1>1 DEF RowsOf

(* A command of resolveDeps finds in the tables nothing that the committed *)
(* ones do not account for.                                                *)
LEMMA Found ==
    ASSUME DepsInv, NEW c \in Procs, proc[c].cmd \in Resolving
    PROVE  LET p == proc[c].project  t == Tables(c)
           IN  /\ \A f \in RowsOf(t.unresolved, p) : f \in Paths /\ <<p, f>> \in db.unresolved
               /\ \A q \in RowsOf(t.dependencies, p) : q \in Projects /\ Justified(p, q)
               /\ \A q \in RowsOf(t.property, p) : q \in Projects /\ Justified(p, q)
               /\ \A f, q : q \in Owners(t, f) => q \in Projects /\ <<q, f>> \in db.files
<1> DEFINE p == proc[c].project  t == Tables(c)
<1>1. t \in AllTables /\ Worked(c, t)
  BY TablesWorked
<1> HIDE DEF p, t
<1>2. /\ t.files = db.files
      /\ t.unresolved \subseteq db.unresolved
      /\ \A x, y \in Projects : <<x, y>> \in Known(t) => Justified(x, y)
  BY <1>1 DEF Worked
<1>3. /\ t.unresolved \in SUBSET (Projects \X Paths)
      /\ t.dependencies \in SUBSET (Projects \X Projects)
      /\ t.property \in SUBSET (Projects \X Projects)
  BY <1>1 DEF AllTables
<1>4. \A f \in RowsOf(t.unresolved, p) : f \in Paths /\ <<p, f>> \in db.unresolved
  BY <1>2, <1>3, RowsOfTable
<1>5. ASSUME NEW q \in RowsOf(t.dependencies, p) PROVE q \in Projects /\ Justified(p, q)
  <2>1. <<p, q>> \in t.dependencies
    BY <1>3, RowsOfTable
  <2>2. p \in Projects /\ q \in Projects
    BY <1>3, <2>1
  <2> QED BY <1>2, <2>1, <2>2 DEF Known
<1>6. ASSUME NEW q \in RowsOf(t.property, p) PROVE q \in Projects /\ Justified(p, q)
  <2>1. <<p, q>> \in t.property
    BY <1>3, RowsOfTable
  <2>2. p \in Projects /\ q \in Projects
    BY <1>3, <2>1
  <2> QED BY <1>2, <2>1, <2>2 DEF Known
<1>7. \A f, q : q \in Owners(t, f) => q \in Projects /\ <<q, f>> \in db.files
  BY <1>2 DEF Owners
<1> QED BY <1>4, <1>5, <1>6, <1>7 DEF p, t

LEMMA ReadActions ==
    ASSUME DepsInv, NEW c \in Procs,
           \/ ListProjects(c) \/ SelectUnresolved(c) \/ FindOwner(c) \/ LeaveUnresolved(c)
           \/ CopyProperty(c) \/ MergeDependencies(c)
    PROVE  DepsInv'
<1>1. CASE ListProjects(c)
  <2> DEFINE queue == {p \in proc[c].queue :
                         /\ CanRead(c)
                         /\ \/ proc[c].cmd = "resolveDeps -commit"
                            \/ RowsOf(Tables(c).unresolved, p) # {}}
             r == [proc[c] EXCEPT !.at = "next", !.queue = queue]
  <2>1. Becomes(c, r) /\ Read(c) /\ proc[c].at = "list"
    BY <1>1, Here DEF ListProjects, At, Becomes
  <2>2. queue \subseteq Projects
    BY Here DEF Commands
  <2> HIDE DEF queue
  <2>3. /\ r \in Commands /\ r.at = "next" /\ r.cmd = proc[c].cmd
        /\ r.project = proc[c].project /\ r.paths = proc[c].paths /\ r.merged = proc[c].merged
    BY <2>2, Here, LabelNames DEF Commands
  <2> HIDE DEF r
  <2>4. Follows(c, r)
    BY <2>1, <2>3, Here DEF Follows, Placed, InTransaction
  <2>5. Notes(r) /\ ~Looks(r)
    BY <2>1, <2>3, Here, NothingNoted
  <2> QED BY <2>1, <2>4, <2>5, ReadStep
<1>2. CASE SelectUnresolved(c)
  <2> DEFINE paths == IF CanRead(c) THEN RowsOf(Tables(c).unresolved, proc[c].project) ELSE {}
             r == [proc[c] EXCEPT !.at = "owner", !.paths = paths]
  <2>1. Becomes(c, r) /\ Read(c) /\ proc[c].at = "unresolved"
    BY <1>2, Here DEF SelectUnresolved, At, Becomes
  <2>2. proc[c].cmd \in Resolving /\ tx[c] # "auto"
    BY <2>1, Here DEF Placed, InTransaction
  <2>3. \A f \in paths : CanRead(c) /\ f \in Paths /\ <<proc[c].project, f>> \in db.unresolved
    BY <2>2, Found
  <2> HIDE DEF paths
  <2>4. /\ r \in Commands /\ r.at = "owner" /\ r.cmd = proc[c].cmd
        /\ r.project = proc[c].project /\ r.paths = paths /\ r.merged = proc[c].merged
    BY <2>3, Here, LabelNames DEF Commands
  <2> HIDE DEF r
  <2>5. Follows(c, r)
    BY <2>1, <2>4, Here DEF Follows, Placed, InTransaction
  <2>6. Notes(r) /\ (Looks(r) => CanRead(c) /\ tx[c] # "auto")
    BY <2>1, <2>2, <2>3, <2>4, Here DEF Notes, Looks
  <2> QED BY <2>1, <2>5, <2>6, ReadStep
<1>3. CASE FindOwner(c)
  <2>1. PICK f \in proc[c].paths : \E q \in Owners(Tables(c), f) :
          proc' = [proc EXCEPT ![c].at = "exists", ![c].paths = @ \ {f},
                               ![c].path = f, ![c].owner = q]
    BY <1>3 DEF FindOwner
  <2>2. PICK q \in Owners(Tables(c), f) :
          proc' = [proc EXCEPT ![c].at = "exists", ![c].paths = @ \ {f},
                               ![c].path = f, ![c].owner = q]
    BY <2>1
  <2> DEFINE r == [proc[c] EXCEPT !.at = "exists", !.paths = @ \ {f}, !.path = f, !.owner = q]
  <2>3. Becomes(c, r) /\ Read(c) /\ proc[c].at = "owner"
    BY <1>3, <2>2, Here DEF FindOwner, At, Becomes
  <2>4. proc[c].cmd \in Resolving /\ Reading(c)
    BY <2>3, Here DEF Placed, Looking
  <2>5. q \in Projects /\ <<q, f>> \in db.files
    BY <2>4, Found
  <2>6. /\ r \in Commands /\ r.at = "exists" /\ r.cmd = proc[c].cmd
        /\ r.project = proc[c].project /\ r.paths = proc[c].paths \ {f}
        /\ r.path = f /\ r.owner = q /\ r.merged = proc[c].merged
    BY <2>5, Here, LabelNames DEF Commands
  <2> HIDE DEF r
  <2>7. Follows(c, r)
    BY <2>3, <2>6, Here DEF Follows, Placed, InTransaction
  <2>8. Notes(r) /\ (Looks(r) => Reading(c) \/ (CanRead(c) /\ tx[c] # "auto"))
    BY <2>3, <2>4, <2>5, <2>6, Here DEF Notes, Looking
  <2> QED BY <2>3, <2>7, <2>8, ReadStep
<1>4. CASE LeaveUnresolved(c)
  <2>1. PICK f \in proc[c].paths : proc' = [proc EXCEPT ![c].paths = @ \ {f}]
    BY <1>4 DEF LeaveUnresolved
  <2> DEFINE r == [proc[c] EXCEPT !.paths = @ \ {f}]
  <2>2. Becomes(c, r) /\ Read(c) /\ proc[c].at = "owner"
    BY <1>4, <2>1, Here DEF LeaveUnresolved, At, Becomes
  <2>3. Reading(c)
    BY Here DEF Looking
  <2>4. /\ r \in Commands /\ r.at = "owner" /\ r.cmd = proc[c].cmd
        /\ r.project = proc[c].project /\ r.paths = proc[c].paths \ {f}
        /\ r.merged = proc[c].merged
    BY <2>2, Here, LabelNames DEF Commands
  <2> HIDE DEF r
  <2>5. Follows(c, r)
    BY <2>2, <2>4, Here DEF Follows, Placed, InTransaction
  <2>6. Notes(r) /\ (Looks(r) => Reading(c) \/ (CanRead(c) /\ tx[c] # "auto"))
    BY <2>2, <2>3, <2>4, Here DEF Notes, Looking
  <2> QED BY <2>2, <2>5, <2>6, ReadStep
<1>5. CASE CopyProperty(c)
  <2> DEFINE merged == IF CanRead(c) THEN RowsOf(Tables(c).property, proc[c].project) ELSE {}
             r == [proc[c] EXCEPT !.at = "dependencies", !.merged = merged]
  <2>1. Becomes(c, r) /\ Read(c) /\ proc[c].at = "owner" /\ proc[c].paths = {}
    BY <1>5, Here DEF CopyProperty, PathsDone, At, Becomes
  <2>2. proc[c].cmd \in Resolving /\ tx[c] # "auto"
    BY <2>1, Here DEF Placed, InTransaction
  <2>3. \A q \in merged : CanRead(c) /\ q \in Projects /\ Justified(proc[c].project, q)
    BY <2>2, Found
  <2> HIDE DEF merged
  <2>4. /\ r \in Commands /\ r.at = "dependencies" /\ r.cmd = proc[c].cmd
        /\ r.project = proc[c].project /\ r.paths = {} /\ r.merged = merged
    BY <2>1, <2>3, Here, LabelNames DEF Commands
  <2> HIDE DEF r
  <2>5. Follows(c, r)
    BY <2>1, <2>4, Here DEF Follows, Placed, InTransaction
  <2>6. Notes(r) /\ (Looks(r) => CanRead(c) /\ tx[c] # "auto")
    BY <2>2, <2>3, <2>4 DEF Notes, Looks
  <2> QED BY <2>1, <2>5, <2>6, ReadStep
<1>6. CASE MergeDependencies(c)
  <2> DEFINE more == IF CanRead(c) THEN RowsOf(Tables(c).dependencies, proc[c].project) ELSE {}
             r == [proc[c] EXCEPT !.at = "delete_property", !.merged = @ \cup more]
  <2>1. Becomes(c, r) /\ Read(c) /\ proc[c].at = "dependencies"
    BY <1>6, Here DEF MergeDependencies, At, Becomes
  <2>2. proc[c].cmd \in Resolving /\ tx[c] # "auto" /\ proc[c].paths = {}
    BY <2>1, Here DEF Placed, InTransaction
  <2>3. \A q \in more : CanRead(c) /\ q \in Projects /\ Justified(proc[c].project, q)
    BY <2>2, Found
  <2> HIDE DEF more
  <2>4. /\ r \in Commands /\ r.at = "delete_property" /\ r.cmd = proc[c].cmd
        /\ r.project = proc[c].project /\ r.paths = {} /\ r.merged = proc[c].merged \cup more
    BY <2>2, <2>3, Here, LabelNames DEF Commands
  <2> HIDE DEF r
  <2>5. Follows(c, r)
    BY <2>1, <2>4, Here DEF Follows, Placed, InTransaction
  <2>6. Notes(r) /\ (Looks(r) => Reading(c) \/ (CanRead(c) /\ tx[c] # "auto"))
    BY <2>2, <2>3, <2>4, Here DEF Notes, Looks, Merging
  <2> QED BY <2>1, <2>5, <2>6, ReadStep
<1> QED BY <1>1, <1>2, <1>3, <1>4, <1>5, <1>6

(***************************************************************************)
(* Work added to the work done so far.                                     *)
(***************************************************************************)
LEMMA MoreBuildWork ==
    ASSUME DepsInv, NEW c \in Procs, NEW t, proc[c].cmd \notin Resolving,
           t.dependencies = Tables(c).dependencies, t.property = Tables(c).property,
           \A p \in Projects, f \in Paths :
             <<p, f>> \in Tables(c).unresolved \ t.unresolved =>
               proc[c].cmd = "register" /\ proc[c].project = p
    PROVE  Worked(c, t)
<1>1. Worked(c, Tables(c))
  BY TablesWorked
<1>2. Known(t) = Known(db)
  BY <1>1 DEF Worked, Known
<1>3. ASSUME NEW p \in Projects, NEW f \in Paths, <<p, f>> \in db.unresolved \ t.unresolved
      PROVE  proc[c].cmd = "register" /\ proc[c].project = p
  BY <1>1, <1>3 DEF Worked
<1> QED BY <1>2, <1>3 DEF Worked

LEMMA MoreResolveWork ==
    ASSUME DepsInv, NEW c \in Procs, NEW t, proc[c].cmd \in Resolving,
           t.files = Tables(c).files, t.unresolved \subseteq Tables(c).unresolved,
           \A p \in Projects, f \in Paths :
             <<p, f>> \in Tables(c).unresolved \ t.unresolved => Owners(db, f) # {},
           \A p, q \in Projects :
             <<p, q>> \in Known(t) => <<p, q>> \in Known(Tables(c)) \/ Justified(p, q)
    PROVE  Worked(c, t)
<1>1. Worked(c, Tables(c))
  BY TablesWorked
<1>2. t.files = db.files /\ t.unresolved \subseteq db.unresolved
  BY <1>1 DEF Worked
<1>3. ASSUME NEW p \in Projects, NEW f \in Paths, <<p, f>> \in db.unresolved \ t.unresolved
      PROVE  Owners(db, f) # {}
  BY <1>1, <1>3 DEF Worked
<1>4. ASSUME NEW p \in Projects, NEW q \in Projects, <<p, q>> \in Known(t)
      PROVE  Justified(p, q)
  BY <1>1, <1>4 DEF Worked
<1> QED BY <1>2, <1>3, <1>4 DEF Worked

(* One table replaced by another. *)
LEMMA OneTable ==
    ASSUME NEW t \in AllTables
    PROVE  /\ \A S \in SUBSET (Projects \X Paths) :
                LET u == [t EXCEPT !.files = S]
                IN  /\ u \in AllTables /\ u.files = S /\ u.unresolved = t.unresolved
                    /\ u.dependencies = t.dependencies /\ u.property = t.property
           /\ \A S \in SUBSET (Projects \X Paths) :
                LET u == [t EXCEPT !.unresolved = S]
                IN  /\ u \in AllTables /\ u.files = t.files /\ u.unresolved = S
                    /\ u.dependencies = t.dependencies /\ u.property = t.property
           /\ \A S \in SUBSET (Projects \X Projects) :
                LET u == [t EXCEPT !.dependencies = S]
                IN  /\ u \in AllTables /\ u.files = t.files /\ u.unresolved = t.unresolved
                    /\ u.dependencies = S /\ u.property = t.property
           /\ \A S \in SUBSET (Projects \X Projects) :
                LET u == [t EXCEPT !.property = S]
                IN  /\ u \in AllTables /\ u.files = t.files /\ u.unresolved = t.unresolved
                    /\ u.dependencies = t.dependencies /\ u.property = S
BY DEF AllTables

LEMMA BuildWrites ==
    ASSUME DepsInv, NEW c \in Procs,
           PruneFiles(c) \/ PruneUnresolved(c) \/ RegisterLibrary(c) \/ RegisterFile(c) \/ LoadNext(c)
    PROVE  DepsInv'
<1> DEFINE T == Tables(c)
           p == proc[c].project
<1>1. T \in AllTables
  BY TablesWorked
<1>2. T.files \in SUBSET (Projects \X Paths) /\ T.unresolved \in SUBSET (Projects \X Paths)
  BY <1>1 DEF AllTables
<1>3. /\ proc[c].at \in {"prune_files", "prune_unresolved", "file", "trace"}
      /\ proc[c].cmd \notin Resolving /\ p \in Projects /\ proc[c].todo \in Seq(Paths)
      /\ proc[c].links \in Seq(Paths)
  <2>1. proc[c].at \in {"prune_files", "prune_unresolved", "file", "trace"}
    BY DEF PruneFiles, PruneUnresolved, RegisterLibrary, RegisterFile, LoadNext, At
  <2>2. proc[c].cmd \notin Resolving /\ p \in Projects
    BY <2>1, Here DEF Placed, InTransaction, Resolving
  <2> QED BY <2>1, <2>2, Here DEF Commands
<1>4. ASSUME NEW r \in Commands, Becomes(c, r), r.cmd = proc[c].cmd, r.project = p,
             r.paths = proc[c].paths, r.merged = proc[c].merged,
             r.at \in {"prune_unresolved", "root"} => proc[c].cmd = "register",
             r.at \in {"prune_unresolved", "root"} \/ r.at = proc[c].at,
             r.at = "file" => r.todo = proc[c].todo,
             NEW t \in AllTables, Worked(c, t), Write(c, t)
      PROVE  DepsInv'
  <2>1. Follows(c, r)
    BY <1>3, <1>4, Here DEF Follows, Placed, InTransaction
  <2>2. Notes(r) /\ ~Looks(r)
    BY <1>3, <1>4, Here, NothingNoted
  <2> QED BY <1>4, <2>1, <2>2, WriteStep
<1>5. \A f \in Paths : LET t == Waiting(T, p, f) IN t \in AllTables /\ Worked(c, t)
  <2> TAKE f \in Paths
  <2> DEFINE S == T.unresolved \cup {<<p, f>>}
             t == [T EXCEPT !.unresolved = S]
  <2>1. S \in SUBSET (Projects \X Paths)
    BY <1>2, <1>3
  <2>2. /\ t \in AllTables /\ t.unresolved = S
        /\ t.dependencies = T.dependencies /\ t.property = T.property
    BY <1>1, <2>1, OneTable
  <2> HIDE DEF t
  <2>3. Worked(c, t)
    BY <1>3, <2>2, MoreBuildWork
  <2> QED BY <2>2, <2>3 DEF Waiting, t
<1>6. CASE PruneFiles(c)
  <2> DEFINE S == Without(T.files, p)
             t == [T EXCEPT !.files = S]
             r == [proc[c] EXCEPT !.at = "prune_unresolved"]
  <2>1. Becomes(c, r) /\ Write(c, t) /\ proc[c].at = "prune_files"
    BY <1>6, Here DEF PruneFiles, At, Goto, Becomes
  <2>2. S \in SUBSET (Projects \X Paths)
    BY <1>2 DEF Without
  <2>3. /\ t \in AllTables /\ t.unresolved = T.unresolved
        /\ t.dependencies = T.dependencies /\ t.property = T.property
    BY <1>1, <2>2, OneTable
  <2>4. r \in Commands /\ r.at = "prune_unresolved" /\ r.cmd = proc[c].cmd /\ r.project = p
        /\ r.paths = proc[c].paths /\ r.merged = proc[c].merged
    BY Here, LabelNames DEF Commands
  <2> HIDE DEF t, r
  <2>5. Worked(c, t)
    BY <1>3, <2>3, MoreBuildWork
  <2>6. proc[c].cmd = "register"
    BY <2>1, Here DEF Placed
  <2> QED BY <1>4, <2>1, <2>3, <2>4, <2>5, <2>6
<1>7. CASE PruneUnresolved(c)
  <2> DEFINE S == Without(T.unresolved, p)
             t == [T EXCEPT !.unresolved = S]
             r == [proc[c] EXCEPT !.at = "root"]
  <2>1. Becomes(c, r) /\ Write(c, t) /\ proc[c].at = "prune_unresolved"
    BY <1>7, Here DEF PruneUnresolved, At, Goto, Becomes
  <2>2. S \in SUBSET (Projects \X Paths)
    BY <1>2 DEF Without
  <2>3. /\ t \in AllTables /\ t.unresolved = S
        /\ t.dependencies = T.dependencies /\ t.property = T.property
    BY <1>1, <2>2, OneTable
  <2>4. r \in Commands /\ r.at = "root" /\ r.cmd = proc[c].cmd /\ r.project = p
        /\ r.paths = proc[c].paths /\ r.merged = proc[c].merged
    BY Here, LabelNames DEF Commands
  <2> HIDE DEF t, r
  <2>5. proc[c].cmd = "register"
    BY <2>1, Here DEF Placed
  <2>6. \A x \in Projects, f \in Paths : <<x, f>> \in T.unresolved \ t.unresolved => x = p
    BY <2>3 DEF Without
  <2>7. Worked(c, t)
    BY <1>3, <2>3, <2>5, <2>6, MoreBuildWork
  <2> QED BY <1>4, <2>1, <2>3, <2>4, <2>5, <2>7
<1>8. CASE RegisterLibrary(c)
  <2> DEFINE t == Waiting(T, p, Head(proc[c].links))
             r == [proc[c] EXCEPT !.links = Tail(@)]
  <2>1. Becomes(c, r) /\ Write(c, t) /\ proc[c].links # <<>>
    BY <1>8, Here DEF RegisterLibrary, At, Becomes
  <2>2. Head(proc[c].links) \in Paths /\ Tail(proc[c].links) \in Seq(Paths)
    BY <1>3, <2>1
  <2>3. t \in AllTables /\ Worked(c, t)
    BY <1>5, <2>2
  <2>4. r \in Commands /\ r.at = proc[c].at /\ r.cmd = proc[c].cmd /\ r.project = p
        /\ r.paths = proc[c].paths /\ r.merged = proc[c].merged /\ r.todo = proc[c].todo
    BY <2>2, Here DEF Commands
  <2> HIDE DEF t, r
  <2>5. r.at = "file"
    BY <1>8, <2>4 DEF RegisterLibrary, At
  <2> QED BY <1>4, <2>1, <2>3, <2>4, <2>5
<1>9. CASE RegisterFile(c)
  <2> DEFINE S == T.files \cup {<<p, Head(proc[c].todo)>>}
             t == [T EXCEPT !.files = S]
             r == [proc[c] EXCEPT !.at = "root", !.todo = Tail(@)]
  <2>1. Becomes(c, r) /\ Write(c, t) /\ proc[c].at = "file"
    BY <1>9, Here DEF RegisterFile, At, Becomes
  <2>2. proc[c].todo # <<>> /\ proc[c].cmd = "register"
    BY <2>1, Here DEF Placed
  <2>3. Head(proc[c].todo) \in Paths /\ Tail(proc[c].todo) \in Seq(Paths)
    BY <1>3, <2>2
  <2>4. S \in SUBSET (Projects \X Paths)
    BY <1>2, <1>3, <2>3
  <2>5. /\ t \in AllTables /\ t.unresolved = T.unresolved
        /\ t.dependencies = T.dependencies /\ t.property = T.property
    BY <1>1, <2>4, OneTable
  <2>6. r \in Commands /\ r.at = "root" /\ r.cmd = proc[c].cmd /\ r.project = p
        /\ r.paths = proc[c].paths /\ r.merged = proc[c].merged
    BY <2>3, Here, LabelNames DEF Commands
  <2> HIDE DEF t, r
  <2>7. Worked(c, t)
    BY <1>3, <2>5, MoreBuildWork
  <2> QED BY <1>4, <2>1, <2>2, <2>5, <2>6, <2>7
<1>10. CASE LoadNext(c)
  <2> DEFINE t == Waiting(T, p, Head(proc[c].todo))
             r == [proc[c] EXCEPT !.todo = Tail(@)]
  <2>1. Becomes(c, r) /\ Write(c, t) /\ proc[c].todo # <<>> /\ proc[c].at = "trace"
    BY <1>10, Here DEF LoadNext, At, Becomes
  <2>2. Head(proc[c].todo) \in Paths /\ Tail(proc[c].todo) \in Seq(Paths)
    BY <1>3, <2>1
  <2>3. t \in AllTables /\ Worked(c, t)
    BY <1>5, <2>2
  <2>4. r \in Commands /\ r.at = proc[c].at /\ r.cmd = proc[c].cmd /\ r.project = p
        /\ r.paths = proc[c].paths /\ r.merged = proc[c].merged
    BY <2>2, Here DEF Commands
  <2> HIDE DEF t, r
  <2> QED BY <1>4, <2>1, <2>3, <2>4
<1> QED BY <1>6, <1>7, <1>8, <1>9, <1>10

LEMMA ResolveWrites ==
    ASSUME DepsInv, NEW c \in Procs,
           \/ AddDependency(c) \/ DeleteUnresolved(c) \/ DeleteProperty(c)
           \/ InsertProperty(c) \/ DeleteDependencies(c)
    PROVE  DepsInv'
<1> DEFINE T == Tables(c)
           p == proc[c].project
<1>1. T \in AllTables /\ T.files = db.files
  <2>1. T \in AllTables /\ Worked(c, T)
    BY TablesWorked
  <2>2. proc[c].cmd \in Resolving
    BY Here DEF AddDependency, DeleteUnresolved, DeleteProperty, InsertProperty,
                DeleteDependencies, At, Placed
  <2> QED BY <2>1, <2>2 DEF Worked
<1>2. /\ T.unresolved \in SUBSET (Projects \X Paths)
      /\ T.dependencies \in SUBSET (Projects \X Projects)
      /\ T.property \in SUBSET (Projects \X Projects)
      /\ db.files \in SUBSET (Projects \X Paths)
      /\ db.unresolved \in SUBSET (Projects \X Paths)
  BY <1>1, Here DEF AllTables
<1>3. /\ proc[c].at \in {"exists", "processed", "delete_property", "set_property"}
      /\ proc[c].cmd \in Resolving /\ p \in Projects /\ tx[c] # "auto"
  <2>1. proc[c].at \in {"exists", "processed", "delete_property", "set_property"}
    BY DEF AddDependency, DeleteUnresolved, DeleteProperty, InsertProperty,
           DeleteDependencies, At
  <2> QED BY <2>1, Here DEF Placed, InTransaction
<1>4. CASE AddDependency(c)
  <2> DEFINE row == <<p, proc[c].owner>>
             S == T.dependencies \cup {row}
             t == [T EXCEPT !.dependencies = S]
             r == [proc[c] EXCEPT !.at = "processed"]
  <2>1. Becomes(c, r) /\ proc[c].at = "exists" /\ (UNCHANGED sqlite \/ Write(c, t))
    BY <1>4, Here DEF AddDependency, At, Goto, Becomes
  <2>2. /\ Reading(c) /\ <<p, proc[c].path>> \in db.unresolved
        /\ <<proc[c].owner, proc[c].path>> \in db.files
    BY <2>1, Here DEF Looking
  <2>3. proc[c].owner \in Projects /\ proc[c].path \in Paths
    BY <1>2, <2>2
  <2>4. S \in SUBSET (Projects \X Projects)
    BY <1>2, <1>3, <2>3
  <2>5. /\ t \in AllTables /\ t.files = T.files /\ t.unresolved = T.unresolved
        /\ t.dependencies = S /\ t.property = T.property
    BY <1>1, <2>4, OneTable
  <2>6. r \in Commands /\ r.at = "processed" /\ r.cmd = proc[c].cmd /\ r.project = p
        /\ r.paths = proc[c].paths /\ r.path = proc[c].path /\ r.owner = proc[c].owner
        /\ r.merged = proc[c].merged
    BY Here, LabelNames DEF Commands
  <2> HIDE DEF t, r
  <2>7. Justified(p, proc[c].owner)
    BY <2>2, <2>3 DEF Justified
  <2>8. \A x, y \in Projects : <<x, y>> \in Known(t) => <<x, y>> \in Known(T) \/ Justified(x, y)
    BY <2>5, <2>7 DEF Known
  <2>9. Worked(c, t)
    BY <1>3, <2>5, <2>8, MoreResolveWork
  <2>10. Follows(c, r)
    BY <1>3, <2>1, <2>6, Here DEF Follows, InTransaction
  <2>11. Notes(r)
    BY <2>1, <2>2, <2>6, Here DEF Notes, Looking
  <2> QED BY <2>1, <2>2, <2>5, <2>9, <2>10, <2>11, WriteStep, QuietStep
<1>5. CASE DeleteUnresolved(c)
  <2> DEFINE S == T.unresolved \ {<<p, proc[c].path>>}
             t == [T EXCEPT !.unresolved = S]
             r == [proc[c] EXCEPT !.at = "owner", !.path = None, !.owner = None]
  <2>1. Becomes(c, r) /\ proc[c].at = "processed" /\ Write(c, t)
    BY <1>5, Here DEF DeleteUnresolved, At, Becomes
  <2>2. Reading(c) /\ <<proc[c].owner, proc[c].path>> \in db.files
    BY <2>1, Here DEF Looking
  <2>3. Owners(db, proc[c].path) # {}
    <3>1. proc[c].owner \in Projects
      BY <1>2, <2>2
    <3> QED BY <2>2, <3>1 DEF Owners
  <2>4. S \in SUBSET (Projects \X Paths)
    BY <1>2
  <2>5. /\ t \in AllTables /\ t.files = T.files /\ t.unresolved = S
        /\ t.dependencies = T.dependencies /\ t.property = T.property
    BY <1>1, <2>4, OneTable
  <2>6. r \in Commands /\ r.at = "owner" /\ r.cmd = proc[c].cmd /\ r.project = p
        /\ r.paths = proc[c].paths /\ r.merged = proc[c].merged
    BY Here, LabelNames DEF Commands
  <2> HIDE DEF t, r
  <2>7. \A x \in Projects, f \in Paths :
          <<x, f>> \in T.unresolved \ t.unresolved => Owners(db, f) # {}
    BY <2>3, <2>5
  <2>8. Worked(c, t)
    BY <1>3, <2>5, <2>7, MoreResolveWork DEF Known
  <2>9. Follows(c, r)
    BY <1>3, <2>1, <2>6, Here DEF Follows, InTransaction
  <2>10. Notes(r)
    BY <2>1, <2>6, Here DEF Notes, Looking
  <2> QED BY <2>1, <2>2, <2>5, <2>8, <2>9, <2>10, WriteStep
<1>6. CASE DeleteProperty(c)
  <2> DEFINE S == Without(T.property, p)
             t == [T EXCEPT !.property = S]
             r == [proc[c] EXCEPT !.at = "set_property"]
  <2>1. Becomes(c, r) /\ proc[c].at = "delete_property" /\ Write(c, t)
    BY <1>6, Here DEF DeleteProperty, At, Goto, Becomes
  <2>2. S \in SUBSET (Projects \X Projects) /\ S \subseteq T.property
    BY <1>2 DEF Without
  <2>3. /\ t \in AllTables /\ t.files = T.files /\ t.unresolved = T.unresolved
        /\ t.dependencies = T.dependencies /\ t.property = S
    BY <1>1, <2>2, OneTable
  <2>4. r \in Commands /\ r.at = "set_property" /\ r.cmd = proc[c].cmd /\ r.project = p
        /\ r.paths = proc[c].paths /\ r.merged = proc[c].merged
    BY Here, LabelNames DEF Commands
  <2> HIDE DEF t, r
  <2>5. Worked(c, t)
    BY <1>3, <2>2, <2>3, MoreResolveWork DEF Known
  <2>6. Follows(c, r)
    BY <1>3, <2>1, <2>4, Here DEF Follows, InTransaction
  <2>7. Notes(r) /\ (Looks(r) => Reading(c))
    BY <2>1, <2>4, Here DEF Notes, Looks, Merging
  <2> QED BY <2>1, <2>3, <2>5, <2>6, <2>7, WriteStep
<1>7. CASE InsertProperty(c)
  <2>1. PICK q \in proc[c].merged :
          /\ Write(c, [T EXCEPT !.property = @ \cup {<<p, q>>}])
          /\ proc' = [proc EXCEPT ![c].merged = @ \ {q}]
    BY <1>7 DEF InsertProperty
  <2> DEFINE S == T.property \cup {<<p, q>>}
             t == [T EXCEPT !.property = S]
             r == [proc[c] EXCEPT !.merged = @ \ {q}]
  <2>2. Becomes(c, r) /\ proc[c].at = "set_property" /\ Write(c, t)
    BY <1>7, <2>1, Here DEF InsertProperty, At, Becomes
  <2>3. q \in Projects /\ Justified(p, q) /\ Reading(c)
    BY Here DEF Commands, Merging
  <2>4. S \in SUBSET (Projects \X Projects)
    BY <1>2, <1>3, <2>3
  <2>5. /\ t \in AllTables /\ t.files = T.files /\ t.unresolved = T.unresolved
        /\ t.dependencies = T.dependencies /\ t.property = S
    BY <1>1, <2>4, OneTable
  <2>6. r \in Commands /\ r.at = proc[c].at /\ r.cmd = proc[c].cmd /\ r.project = p
        /\ r.paths = proc[c].paths /\ r.merged = proc[c].merged \ {q}
    <3>1. proc[c] \in Commands /\ proc[c].project = p
      BY Here
    <3>2. proc[c].merged \ {q} \in SUBSET Projects
      BY <3>1 DEF Commands
    <3> QED BY <3>1, <3>2, Merged
  <2> HIDE DEF t, r
  <2>7. \A x, y \in Projects : <<x, y>> \in Known(t) => <<x, y>> \in Known(T) \/ Justified(x, y)
    BY <2>3, <2>5 DEF Known
  <2>8. Worked(c, t)
    BY <1>3, <2>5, <2>7, MoreResolveWork
  <2>9. Follows(c, r)
    BY <1>3, <2>2, <2>6, Here DEF Follows, InTransaction
  <2>10. Notes(r)
    BY <2>2, <2>6, Here DEF Notes, Merging
  <2> QED BY <2>2, <2>3, <2>5, <2>8, <2>9, <2>10, WriteStep
<1>8. CASE DeleteDependencies(c)
  <2> DEFINE S == Without(T.dependencies, p)
             t == [T EXCEPT !.dependencies = S]
             r == [proc[c] EXCEPT !.at = "commit"]
  <2>1. Becomes(c, r) /\ proc[c].at = "set_property" /\ proc[c].merged = {} /\ Write(c, t)
    BY <1>8, Here DEF DeleteDependencies, At, Goto, Becomes
  <2>2. S \in SUBSET (Projects \X Projects) /\ S \subseteq T.dependencies
    BY <1>2 DEF Without
  <2>3. /\ t \in AllTables /\ t.files = T.files /\ t.unresolved = T.unresolved
        /\ t.dependencies = S /\ t.property = T.property
    BY <1>1, <2>2, OneTable
  <2>4. r \in Commands /\ r.at = "commit" /\ r.cmd = proc[c].cmd /\ r.project = p
        /\ r.paths = proc[c].paths /\ r.merged = {}
    BY <2>1, Here, LabelNames DEF Commands
  <2> HIDE DEF t, r
  <2>5. Worked(c, t)
    BY <1>3, <2>2, <2>3, MoreResolveWork DEF Known
  <2>6. Follows(c, r)
    BY <1>3, <2>1, <2>4, Here DEF Follows, InTransaction
  <2>7. Notes(r) /\ ~Looks(r)
    BY <2>1, <2>4, Here, NothingNoted
  <2> QED BY <2>1, <2>3, <2>5, <2>6, <2>7, WriteStep
<1> QED BY <1>4, <1>5, <1>6, <1>7, <1>8

(***************************************************************************)
(* The beginning and the end of commands and transactions.                 *)
(***************************************************************************)
LEMMA Starts ==
    ASSUME DepsInv, NEW c \in Procs, NEW r, Start(c, r),
           r \in Commands, r.at \in {"begin", "list"}, r.cmd # "none",
           r.at = "begin" => r.cmd \notin Resolving /\ r.project \in Projects,
           r.at = "list" => r.cmd \in Resolving,
           r.paths = {}, r.merged = {}
    PROVE  DepsInv'
<1>1. /\ proc' = [proc EXCEPT ![c] = r] /\ db' = db /\ tx' = tx /\ view' = view
      /\ budget' = [budget EXCEPT !.commands = @ - 1] /\ budget.commands > 0
      /\ proc[c].at = "exited"
  BY DEF Start, sqlite
<1>2. tx[c] = "auto" /\ proc'[c] = r
  BY <1>1, Here DEF Placed
<1>3. TypeOK'
  <2>1. budget' \in [commands : 0..MaxCommands, crashes : 0..MaxCrashes]
    BY <1>1, BoundAssumption DEF DepsInv, TypeOK
  <2> QED BY <1>1, <2>1 DEF TypeOK, DepsInv, SqliteType
<1>4. OthersRest(c)
  BY <1>1, Here DEF OthersRest
<1>5. Placed(c)'
  BY <1>1, <1>2 DEF Placed, InTransaction
<1>6. Seeing(c)' /\ Looking(c)' /\ Merging(c)'
  BY <1>1, <1>2 DEF Seeing, Looking, Merging, Reading, Writing
<1> QED BY <1>1, <1>3, <1>4, <1>5, <1>6, StepKeeps

LEMMA CommandStarts ==
    ASSUME DepsInv, NEW c \in Procs, Command(c)
    PROVE  DepsInv'
<1>1. Resting \in Commands /\ Resting.paths = {} /\ Resting.merged = {}
  BY DEF Resting, Commands, Labels
<1>2. ASSUME NEW p \in Projects, NEW root \in Roots, Register(c, p, root) PROVE DepsInv'
  <2> DEFINE r == [Resting EXCEPT !.at = "begin", !.cmd = "register", !.project = p,
                                  !.input = root, !.todo = root]
  <2>1. root \in Seq(Paths)
    BY InputAssumption
  <2>2. r \in Commands /\ r.at = "begin" /\ r.cmd = "register" /\ r.project = p
        /\ r.paths = {} /\ r.merged = {}
    BY <1>1, <2>1 DEF Commands, Labels
  <2>3. Start(c, r)
    BY <1>2 DEF Register
  <2> HIDE DEF r
  <2> QED BY <2>2, <2>3, Starts DEF Resolving
<1>3. ASSUME NEW p \in Projects, NEW trace \in Traces, LoadDeps(c, p, trace) PROVE DepsInv'
  <2> DEFINE r == [Resting EXCEPT !.at = "begin", !.cmd = "loadDeps", !.project = p,
                                  !.input = trace, !.todo = trace]
  <2>1. trace \in Seq(Paths)
    BY InputAssumption
  <2>2. r \in Commands /\ r.at = "begin" /\ r.cmd = "loadDeps" /\ r.project = p
        /\ r.paths = {} /\ r.merged = {}
    BY <1>1, <2>1 DEF Commands, Labels
  <2>3. Start(c, r)
    BY <1>3 DEF LoadDeps
  <2> HIDE DEF r
  <2> QED BY <2>2, <2>3, Starts DEF Resolving
<1>4. ASSUME NEW projects \in {{p} : p \in Projects} \cup {Projects},
             NEW cmd \in Resolving, ResolveDeps(c, projects, cmd)
      PROVE  DepsInv'
  <2> DEFINE r == [Resting EXCEPT !.at = "list", !.cmd = cmd, !.queue = projects]
  <2>1. projects \subseteq Projects
    OBVIOUS
  <2>2. r \in Commands /\ r.at = "list" /\ r.cmd = cmd /\ r.paths = {} /\ r.merged = {}
    BY <1>1, <2>1 DEF Commands, Labels, Resolving
  <2>3. Start(c, r)
    BY <1>4 DEF ResolveDeps
  <2> HIDE DEF r
  <2> QED BY <2>2, <2>3, Starts DEF Resolving
<1> QED BY <1>2, <1>3, <1>4 DEF Command, Resolving

LEMMA Begins ==
    ASSUME DepsInv, NEW c \in Procs, BeginTransaction(c)
    PROVE  DepsInv'
<1> DEFINE next == CASE proc[c].cmd = "register" -> "prune_files"
                     [] proc[c].cmd = "loadDeps" -> "trace"
                     [] OTHER                    -> "unresolved"
           r == [proc[c] EXCEPT !.at = next]
<1>1. /\ Becomes(c, r) /\ proc[c].at = "begin" /\ tx[c] = "auto" /\ db' = db /\ view' = view
      /\ tx' = [tx EXCEPT ![c] = "begun"]
  BY Here DEF BeginTransaction, Begin, At, Goto, Becomes
<1>2. /\ next \in {"prune_files", "trace", "unresolved"}
      /\ next = "prune_files" => proc[c].cmd = "register"
      /\ next = "trace" => proc[c].cmd = "loadDeps"
      /\ next = "unresolved" => proc[c].cmd \in Resolving
  BY <1>1, Here DEF Placed, Commands, Resolving
<1> HIDE DEF next
<1>3. next \in Labels
  BY <1>2 DEF Labels
<1>4. r \in Commands /\ r.at = next /\ r.cmd = proc[c].cmd /\ r.project = proc[c].project
      /\ r.paths = {} /\ r.merged = {}
  BY <1>1, <1>3, Here, Moves
<1> HIDE DEF r
<1>5. tx'[c] = "begun" /\ proc'[c] = r /\ tx' \in [Procs -> Modes]
  BY <1>1, Here DEF Becomes, DepsInv, TypeOK, SqliteType, Modes
<1>6. TypeOK' /\ OthersRest(c)
  BY <1>1, <1>4, <1>5, Here DEF TypeOK, DepsInv, SqliteType, Becomes, OthersRest
<1>7. Placed(c)'
  BY <1>1, <1>2, <1>4, <1>5, Here DEF Placed, InTransaction
<1>8. Seeing(c)' /\ Looking(c)' /\ Merging(c)'
  BY <1>2, <1>4, <1>5 DEF Seeing, Looking, Merging, Reading, Writing
<1> QED BY <1>1, <1>6, <1>7, <1>8, StepKeeps

(* A command whose transaction is over, or whose COMMIT failed, has nothing noted. *)
LEMMA Ends ==
    ASSUME DepsInv, NEW c \in Procs, NEW label \in {"next", "exit"},
           label = "next" => proc[c].cmd \in Resolving,
           Commit(c), Goto(c, label), UNCHANGED budget,
           proc[c].paths = {}, proc[c].merged = {}
    PROVE  DepsInv'
<1> DEFINE r == [proc[c] EXCEPT !.at = label]
<1>1. r \in Commands /\ r.at = label /\ r.cmd = proc[c].cmd /\ r.project = proc[c].project
      /\ r.paths = {} /\ r.merged = {}
  <2>1. label \in Labels
    BY DEF Labels
  <2> QED BY <2>1, Here, Moves
<1>2. proc' = [proc EXCEPT ![c] = r] /\ proc'[c] = r
  BY Here DEF Goto
<1> HIDE DEF r
<1>3. /\ SqliteType(AllTables)'
      /\ \A d \in Procs \ {c} : tx'[d] = tx[d] /\ view'[d] = view[d]
      /\ db' = db \/ \A d \in Procs \ {c} : ~Reading(d)
      /\ \/ tx'[c] = "auto"
         \/ /\ db' = db /\ Writing(c) /\ tx'[c] = "pending"
            /\ view'[c] = view[c]
  BY CommitEffect DEF DepsInv, TypeOK, Seeing
<1>4. TypeOK' /\ OthersRest(c)
  BY <1>1, <1>2, <1>3, Here DEF TypeOK, DepsInv, OthersRest
<1>5. Placed(c)'
  BY <1>1, <1>2 DEF Placed, InTransaction
<1>6. Looking(c)' /\ Merging(c)'
  BY <1>1, <1>2 DEF Looking, Merging
<1>7. Seeing(c)'
  <2>1. CASE tx'[c] = "auto"
    BY <2>1 DEF Seeing, Reading, Writing
  <2>2. CASE db' = db /\ Writing(c) /\ tx'[c] = "pending" /\ view'[c] = view[c]
    <3>1. view[c] \in AllTables /\ Worked(c, view[c])
      BY <2>2 DEF DepsInv, Seeing, Writing, Reading
    <3>2. SameCommand(c)
      BY <1>1, <1>2 DEF SameCommand
    <3>3. PICK u : u = view[c]
      OBVIOUS
    <3>4. Worked(c, u) /\ view'[c] = u
      BY <2>2, <3>1, <3>3
    <3>5. Worked(c, view[c])'
      BY <2>2, <3>2, <3>4, WorkedStays DEF Worked, Owners, Known
    <3> QED BY <2>2, <3>1, <3>5 DEF Seeing, Reading, Writing
  <2> QED BY <1>3, <2>1, <2>2
<1> QED BY <1>3, <1>4, <1>5, <1>6, <1>7, StepKeeps

LEMMA CommitActions ==
    ASSUME DepsInv, NEW c \in Procs, CommitRows(c) \/ CommitProject(c)
    PROVE  DepsInv'
<1>1. CASE CommitRows(c)
  <2>1. Commit(c) /\ Goto(c, "exit") /\ UNCHANGED budget /\ proc[c].at \in {"root", "trace"}
    BY <1>1 DEF CommitRows, At
  <2>2. proc[c].paths = {} /\ proc[c].merged = {}
    BY <2>1, Here
  <2> QED BY <2>1, <2>2, Ends
<1>2. CASE CommitProject(c)
  <2>1. /\ Commit(c) /\ Goto(c, "next") /\ UNCHANGED budget
        /\ proc[c].at = "commit" \/ (proc[c].at = "owner" /\ proc[c].paths = {})
    BY <1>2 DEF CommitProject, PathsDone, At
  <2>2. proc[c].paths = {} /\ proc[c].merged = {} /\ proc[c].cmd \in Resolving
    BY <2>1, Here DEF Placed
  <2> QED BY <2>1, <2>2, Ends
<1> QED BY <1>1, <1>2

LEMMA ProcessEnds ==
    ASSUME DepsInv, NEW c \in Procs, Exit(c) \/ Crash(c)
    PROVE  DepsInv'
<1>1. Close(c) /\ proc' = [proc EXCEPT ![c] = Resting]
  BY DEF Exit, Crash
<1>2. /\ SqliteType(AllTables)' /\ db' = db /\ tx'[c] = "auto"
      /\ \A d \in Procs \ {c} : tx'[d] = tx[d] /\ view'[d] = view[d]
  BY <1>1, CloseEffect DEF DepsInv, TypeOK
<1>3. budget' \in [commands : 0..MaxCommands, crashes : 0..MaxCrashes]
  <2>1. budget \in [commands : 0..MaxCommands, crashes : 0..MaxCrashes]
    BY DEF DepsInv, TypeOK
  <2>2. CASE Exit(c)
    BY <2>1, <2>2 DEF Exit, At
  <2>3. CASE Crash(c)
    BY <2>1, <2>3, BoundAssumption DEF Crash
  <2> QED BY <2>2, <2>3
<1>4. Resting \in Commands /\ Resting.at = "exited" /\ Resting.paths = {} /\ Resting.merged = {}
  BY DEF Resting, Commands, Labels
<1>5. proc'[c] = Resting /\ proc' \in [Procs -> Commands]
  BY <1>1, <1>4, Here
<1>6. TypeOK' /\ OthersRest(c)
  BY <1>1, <1>2, <1>3, <1>5, Here DEF TypeOK, OthersRest
<1>7. Placed(c)' /\ Seeing(c)' /\ Looking(c)' /\ Merging(c)'
  BY <1>2, <1>4, <1>5 DEF Placed, Seeing, Looking, Merging, Reading, Writing, InTransaction
<1> QED BY <1>2, <1>6, <1>7, StepKeeps

----------------------------------------------------------------------------
LEMMA InitHolds == Init => DepsInv
<1> SUFFICES ASSUME Init PROVE DepsInv
  OBVIOUS
<1>1. PICK t \in InitialTables : SqliteInit(t)
  BY DEF Init
<1>2. /\ db \in AllTables
      /\ tx = [c \in Procs |-> "auto"] /\ view = [c \in Procs |-> NoTables]
      /\ proc = [c \in Procs |-> Resting]
  BY <1>1, InitialAssumption DEF SqliteInit, Init
<1>3. Resting \in Commands /\ Resting.at = "exited" /\ Resting.paths = {} /\ Resting.merged = {}
  BY DEF Resting, Commands, Labels
<1>4. budget \in [commands : 0..MaxCommands, crashes : 0..MaxCrashes]
  BY BoundAssumption DEF Init
<1>5. TypeOK
  BY <1>2, <1>3, <1>4 DEF TypeOK, SqliteType, Modes
<1>6. ASSUME NEW c \in Procs PROVE Placed(c) /\ Seeing(c) /\ Looking(c) /\ Merging(c)
  BY <1>2, <1>3 DEF Placed, Seeing, Looking, Merging, Reading, Writing, InTransaction
<1> QED BY <1>5, <1>6 DEF DepsInv

LEMMA NextHolds == DepsInv /\ [Next]_vars => DepsInv'
<1>1. ASSUME DepsInv, Next PROVE DepsInv'
  <2>1. PICK c \in Procs : Command(c) \/ Step(c) \/ Crash(c)
    BY <1>1 DEF Next
  <2>2. CASE Command(c)
    BY <1>1, <2>2, CommandStarts
  <2>3. CASE Crash(c)
    BY <1>1, <2>3, ProcessEnds
  <2>4. CASE Step(c)
    BY <1>1, <2>4, Begins, QuietActions, BuildWrites, CommitActions, ProcessEnds,
       ReadActions, ResolveWrites DEF Step
  <2> QED BY <2>1, <2>2, <2>3, <2>4
<1>2. ASSUME DepsInv, UNCHANGED vars PROVE DepsInv'
  <2>1. ASSUME NEW c \in Procs PROVE (Placed(c) /\ Seeing(c) /\ Looking(c) /\ Merging(c))'
    <3>1. Placed(c) /\ Seeing(c) /\ Looking(c) /\ Merging(c)
      BY <1>2 DEF DepsInv
    <3>2. db' = db /\ tx' = tx /\ view' = view /\ proc' = proc
      BY <1>2 DEF vars, sqlite
    <3>3. Reading(c)' = Reading(c) /\ Writing(c)' = Writing(c)
      BY <3>2 DEF Reading, Writing
    <3>4. Worked(c, view[c])' = Worked(c, view[c])
      BY <3>2 DEF Worked, Justified, Owners, Known
    <3>5. Placed(c)' /\ Seeing(c)'
      BY <3>1, <3>2, <3>3, <3>4 DEF Placed, Seeing
    <3>6. Looking(c)' /\ Merging(c)'
      BY <3>1, <3>2, <3>3 DEF Looking, Merging, Justified, Known
    <3> QED BY <3>5, <3>6
  <2>2. TypeOK'
    BY <1>2 DEF DepsInv, TypeOK, SqliteType, vars
  <2> QED BY <2>1, <2>2 DEF DepsInv
<1> QED BY <1>1, <1>2

(* Whatever the processes, however their statements interleave and fail,   *)
(* each of them relies only on what is so.                                 *)
THEOREM XrefInvariant == Spec => []DepsInv
BY InitHolds, NextHolds, PTL DEF Spec

(* The tables, the locks and the commands keep their form. *)
THEOREM XrefTypes == Spec => []TypeOK
<1>1. DepsInv => TypeOK
  BY DEF DepsInv
<1> QED BY <1>1, XrefInvariant, PTL

(* Only COMMIT changes the committed tables, to those the process saw.     *)
LEMMA OnlyCommitChanges ==
    ASSUME DepsInv, [Next]_vars, db' # db
    PROVE  \E c \in Procs : /\ CommitRows(c) \/ CommitProject(c)
                            /\ Worked(c, view[c]) /\ db' = view[c]
                            /\ tx'[c] = "auto"
<1>1. PICK c \in Procs : Command(c) \/ Step(c) \/ Crash(c)
  BY DEF Next, vars
<1>2. ~Command(c) /\ ~Crash(c) /\ ~Exit(c)
  BY DEF Command, Register, LoadDeps, ResolveDeps, Start, Crash, Exit, Close, sqlite
<1>3. ASSUME Read(c) PROVE FALSE
  BY <1>3 DEF Read, sqlite
<1>4. ASSUME NEW t, Write(c, t) PROVE FALSE
  BY <1>4 DEF Write, sqlite
<1>5. ~(ListProjects(c) \/ SelectUnresolved(c) \/ FindOwner(c) \/ LeaveUnresolved(c)
        \/ CopyProperty(c) \/ MergeDependencies(c))
  BY <1>3 DEF ListProjects, SelectUnresolved, FindOwner, LeaveUnresolved, CopyProperty,
              MergeDependencies
<1>6. ~(PruneFiles(c) \/ PruneUnresolved(c) \/ RegisterLibrary(c) \/ RegisterFile(c)
        \/ LoadNext(c) \/ DeleteUnresolved(c) \/ DeleteProperty(c) \/ InsertProperty(c)
        \/ DeleteDependencies(c))
  BY <1>4 DEF PruneFiles, PruneUnresolved, RegisterLibrary, RegisterFile, LoadNext,
              DeleteUnresolved, DeleteProperty, InsertProperty, DeleteDependencies
<1>7. ~(BeginTransaction(c) \/ BeginFails(c) \/ OpenFile(c) \/ OpenFails(c) \/ NextProject(c)
        \/ NoMoreProjects(c) \/ AddDependency(c))
  BY <1>4 DEF BeginTransaction, Begin, BeginFails, OpenFile, OpenFails, NextProject,
              NoMoreProjects, AddDependency, sqlite
<1>8. CommitRows(c) \/ CommitProject(c)
  BY <1>1, <1>2, <1>5, <1>6, <1>7 DEF Step
<1>9. Seeing(c)
  BY DEF DepsInv
<1>10. Writing(c) /\ db' = view[c] /\ tx'[c] = "auto"
  BY <1>8, <1>9, CommitEffect DEF CommitRows, CommitProject, DepsInv, TypeOK, Seeing
<1> QED BY <1>8, <1>9, <1>10 DEF Seeing

(* A new dependency is on a project that has a file its dependent waits    *)
(* for at the moment it is committed, with any number of processes: the    *)
(* owner was looked up in the transaction that stores the dependency.      *)
THEOREM OnlyJustifiedDependencies == Spec => DependenciesJustified
<1>1. ASSUME DepsInv, [Next]_vars, NEW p \in Projects, NEW q \in Projects,
             <<p, q>> \in Known(db') \ Known(db)
      PROVE  \E f \in Paths : <<p, f>> \in db.unresolved /\ <<q, f>> \in db.files
  <2>1. PICK c \in Procs : Worked(c, view[c]) /\ db' = view[c]
    BY <1>1, OnlyCommitChanges
  <2>2. CASE proc[c].cmd \in Resolving
    <3>1. Justified(p, q)
      BY <1>1, <2>1, <2>2 DEF Worked
    <3> QED BY <1>1, <3>1 DEF Justified
  <2>3. CASE proc[c].cmd \notin Resolving
    BY <1>1, <2>1, <2>3 DEF Worked
  <2> QED BY <2>2, <2>3
<1>2. DepsInv /\ [Next]_vars =>
        [\A p, q \in Projects :
           <<p, q>> \in Known(db') \ Known(db) =>
             \E f \in Paths : <<p, f>> \in db.unresolved /\ <<q, f>> \in db.files]_vars
  BY <1>1
<1> QED BY <1>2, XrefInvariant, PTL DEF Spec, DependenciesJustified

(* A path nobody has registered goes on waiting until its project is       *)
(* registered again, with any number of processes.                         *)
THEOREM UnownedPathsWait == Spec => UnownedKept
<1>1. ASSUME DepsInv, [Next]_vars, NEW p \in Projects, NEW f \in Paths,
             <<p, f>> \in db.unresolved \ db'.unresolved
      PROVE  \/ \E c \in Procs : Commits(c, "register") /\ proc[c].project = p
             \/ Owners(db, f) # {}
  <2>1. PICK c \in Procs : /\ CommitRows(c) \/ CommitProject(c)
                           /\ Worked(c, view[c]) /\ db' = view[c] /\ tx'[c] = "auto"
    BY <1>1, OnlyCommitChanges
  <2>2. CASE proc[c].cmd \in Resolving
    BY <1>1, <2>1, <2>2 DEF Worked
  <2>3. CASE proc[c].cmd \notin Resolving
    <3>1. proc[c].cmd = "register" /\ proc[c].project = p
      BY <1>1, <2>1, <2>3 DEF Worked
    <3>2. CASE CommitRows(c)
      <4>1. proc'[c].at = "exit"
        <5>1. proc \in [Procs -> Commands] /\ proc[c] \in Commands
          BY <1>1, Here
        <5>2. proc' = [proc EXCEPT ![c] = [proc[c] EXCEPT !.at = "exit"]]
          BY <3>2 DEF CommitRows, Goto
        <5> QED BY <5>1, <5>2 DEF Commands
      <4> QED BY <2>1, <3>1, <3>2, <4>1 DEF Commits, CommitRows, At
    <3>3. CASE CommitProject(c)
      <4>1. proc[c].at \in {"commit", "owner"}
        BY <3>3 DEF CommitProject, PathsDone, At
      <4> QED BY <1>1, <2>3, <4>1, Here DEF Placed
    <3> QED BY <2>1, <3>2, <3>3
  <2> QED BY <2>2, <2>3
<1>2. DepsInv /\ [Next]_vars =>
        [\A p \in Projects, f \in Paths :
           <<p, f>> \in db.unresolved \ db'.unresolved =>
             \/ \E c \in Procs : Commits(c, "register") /\ proc[c].project = p
             \/ Owners(db, f) # {}]_vars
  BY <1>1
<1> QED BY <1>2, XrefInvariant, PTL DEF Spec, UnownedKept

----------------------------------------------------------------------------
(***************************************************************************)
(* One process at a time.  No statement meets a lock then, so that what a  *)
(* command has done so far can be told from the tables it sees: Replaces   *)
(* for register and loadDeps, Keeps for resolveDeps.                       *)
(***************************************************************************)
Alone == \A c, d \in Procs : c = d

(* The libraries a set of files links. *)
LinksOf(S) == UNION {Range(Links[f]) : f \in S}

(* What the command r, which sees the tables t, has already replaced. *)
Replaces(r, t) ==
    /\ r.at \in {"begin", "prune_files", "prune_unresolved"} /\ r.cmd \notin Resolving
         => r.todo = r.input
    /\ r.at = "prune_unresolved" => RowsOf(t.files, r.project) = {}
    /\ r.at \in {"root", "file"} =>
         RowsOf(t.files, r.project) \cup Range(r.todo) = Range(r.input)
    /\ r.at = "root" =>
         RowsOf(t.unresolved, r.project) \cup LinksOf(Range(r.todo)) = LinksOf(Range(r.input))
    /\ r.at = "file" =>
         RowsOf(t.unresolved, r.project) \cup Range(r.links) \cup LinksOf(Range(Tail(r.todo)))
           = LinksOf(Range(r.input))
    /\ r.at = "trace" =>
         Range(r.input) \subseteq RowsOf(t.unresolved, r.project) \cup Range(r.todo)

(* The dependencies in the tables, and those noted to be put back. *)
Held(r, t) == Known(t) \cup {<<r.project, q>> : q \in r.merged}

(* Nothing is lost of base: a dependency is held, an unresolved path that  *)
(* is gone has become one.                                                 *)
Kept(base, t, held) ==
    /\ Known(base) \subseteq held
    /\ \A p \in Projects, f \in Paths :
         <<p, f>> \in base.unresolved \ t.unresolved =>
           \E q \in Owners(base, f) : <<p, q>> \in held

Keeps(r, t, base) ==
    /\ r.at \in InTransaction /\ r.cmd \in Resolving => Kept(base, t, Held(r, t))
    /\ r.at = "processed" => <<r.project, r.owner>> \in t.dependencies
    /\ r.at \in {"dependencies", "delete_property"} => RowsOf(t.property, r.project) \subseteq r.merged
    /\ r.at \in {"delete_property", "set_property"} =>
         RowsOf(t.dependencies, r.project) \subseteq r.merged \cup RowsOf(t.property, r.project)

Doing(c) == /\ proc[c].at \in {"exited", "list", "next", "begin"} => tx[c] = "auto"
            /\ Replaces(proc[c], Tables(c))
            /\ Keeps(proc[c], Tables(c), db)

AllDoing == \A c \in Procs : Doing(c)

LEMMA AloneStatements ==
    ASSUME Alone, SqliteType(AllTables), NEW c \in Procs
    PROVE  /\ CanRead(c)
           /\ Begin(c) => tx[c] = "auto" /\ db' = db /\ Tables(c)' = db
           /\ Read(c) => /\ db' = db /\ Tables(c)' = Tables(c)
                         /\ tx[c] = "auto" => tx'[c] = "auto"
           /\ \A t : Write(c, t) => db' = db /\ Tables(c)' = t
           /\ Commit(c) => db' = Tables(c) /\ Tables(c)' = Tables(c) /\ tx'[c] = "auto"
           /\ Close(c) => db' = db /\ Tables(c)' = db /\ tx'[c] = "auto"
           /\ UNCHANGED sqlite => db' = db /\ Tables(c)' = Tables(c) /\ tx'[c] = tx[c]
<1>1. Procs \ {c} = {}
  BY DEF Alone
<1>2. CanRead(c) /\ CanWrite(c) /\ CanCommit(c)
  BY <1>1 DEF CanRead, CanWrite, CanCommit, NobodyElse
<1>3. tx \in [Procs -> Modes] /\ view \in [Procs -> AllTables \cup {NoTables}]
  BY DEF SqliteType
<1>4. ASSUME Begin(c) PROVE tx[c] = "auto" /\ db' = db /\ Tables(c)' = db
  BY <1>3, <1>4 DEF Begin, Tables, Reading
<1>5. ASSUME Read(c)
      PROVE  db' = db /\ Tables(c)' = Tables(c) /\ (tx[c] = "auto" => tx'[c] = "auto")
  <2>1. CASE tx[c] = "begun"
    BY <1>2, <1>3, <1>5, <2>1 DEF Read, Tables, Reading
  <2>2. CASE tx[c] # "begun"
    BY <1>5, <2>2 DEF Read, Tables, Reading, sqlite
  <2> QED BY <2>1, <2>2
<1>6. ASSUME NEW t, Write(c, t) PROVE db' = db /\ Tables(c)' = t
  <2>1. tx'[c] \in {"reserved", "pending"} /\ view'[c] = t /\ db' = db
    BY <1>2, <1>3, <1>6 DEF Write
  <2> QED BY <2>1 DEF Tables, Reading
<1>7. ASSUME Commit(c) PROVE db' = Tables(c) /\ Tables(c)' = Tables(c) /\ tx'[c] = "auto"
  <2>1. tx'[c] = "auto" /\ db' = Tables(c)
    BY <1>2, <1>3, <1>7 DEF Commit, Release
  <2> QED BY <2>1 DEF Tables, Reading
<1>8. ASSUME Close(c) PROVE db' = db /\ Tables(c)' = db /\ tx'[c] = "auto"
  <2>1. tx'[c] = "auto" /\ db' = db
    BY <1>3, <1>8 DEF Close, Release
  <2> QED BY <2>1 DEF Tables, Reading
<1>9. ASSUME UNCHANGED sqlite
      PROVE  db' = db /\ Tables(c)' = Tables(c) /\ tx'[c] = tx[c]
  BY <1>9 DEF sqlite, Tables, Reading
<1> QED BY <1>2, <1>4, <1>5, <1>6, <1>7, <1>8, <1>9

(* It is enough to follow the process that takes the step. *)
LEMMA DoingStep ==
    ASSUME Alone, NEW c \in Procs, NEW r, NEW t, NEW base,
           proc'[c] = r, Tables(c)' = t, db' = base,
           r.at \in {"exited", "list", "next", "begin"} => tx'[c] = "auto",
           Replaces(r, t), Keeps(r, t, base)
    PROVE  AllDoing'
<1>1. Replaces(proc[c], Tables(c))'
  BY DEF Replaces, RowsOf, Resolving
<1>2. Keeps(proc[c], Tables(c), db)'
  <2>1. Held(proc[c], Tables(c))' = Held(r, t)
    BY DEF Held, Known
  <2> DEFINE h == Held(r, t)
  <2>2. Kept(base, t, h) => Kept(db, Tables(c), Held(proc[c], Tables(c)))'
    <3> HIDE DEF h
    <3>1. SUFFICES ASSUME Kept(base, t, h), Held(proc[c], Tables(c))' = h
                   PROVE  Kept(db, Tables(c), Held(proc[c], Tables(c)))'
      BY <2>1 DEF h
    <3> QED BY <3>1 DEF Kept, Known, Owners
  <2> QED BY <2>2 DEF Keeps, RowsOf, Resolving, InTransaction
<1>3. Doing(c)'
  BY <1>1, <1>2 DEF Doing
<1> QED BY <1>3 DEF AllDoing, Alone

(* What the statements do to the rows of a project. *)
With(table, p, f) == table \cup {<<p, f>>}

LEMMA RowsOfWith ==
    ASSUME NEW table, NEW p, NEW f
    PROVE  RowsOf(With(table, p, f), p) = RowsOf(table, p) \cup {f}
<1> DEFINE more == With(table, p, f)
<1>1. <<p, f>>[1] = p /\ <<p, f>>[2] = f
  OBVIOUS
<1>2. ASSUME NEW x \in RowsOf(more, p) PROVE x \in RowsOf(table, p) \cup {f}
  BY <1>1, <1>2 DEF RowsOf, With
<1>3. f \in RowsOf(more, p)
  <2>1. <<p, f>> \in {r \in more : r[1] = p}
    BY <1>1 DEF With
  <2> QED BY <1>1, <2>1 DEF RowsOf
<1>4. ASSUME NEW x \in RowsOf(table, p) PROVE x \in RowsOf(more, p)
  BY <1>4 DEF RowsOf, With
<1> QED BY <1>2, <1>3, <1>4

LEMMA RowsOfWithout ==
    ASSUME NEW table, NEW p
    PROVE  RowsOf(Without(table, p), p) = {}
BY DEF RowsOf, Without

LEMMA HeadAndTail ==
    ASSUME NEW S, NEW s \in Seq(S), s # <<>>
    PROVE  /\ Range(s) = {Head(s)} \cup Range(Tail(s))
           /\ Head(s) \in S /\ Tail(s) \in Seq(S)
<1>1. /\ Len(s) \in Nat \ {0} /\ DOMAIN s = 1..Len(s) /\ Head(s) = s[1]
      /\ Tail(s) \in Seq(S) /\ Len(Tail(s)) = Len(s) - 1
      /\ \A i \in 1..Len(s) - 1 : Tail(s)[i] = s[i + 1]
  OBVIOUS
<1>2. DOMAIN Tail(s) = 1..Len(s) - 1
  BY <1>1
<1>3. ASSUME NEW x \in Range(s) PROVE x \in {Head(s)} \cup Range(Tail(s))
  <2>1. PICK i \in 1..Len(s) : x = s[i]
    BY <1>1 DEF Range
  <2>2. CASE i = 1
    BY <1>1, <2>1, <2>2
  <2>3. CASE i # 1
    <3>1. i - 1 \in 1..Len(s) - 1 /\ (i - 1) + 1 = i
      BY <1>1, <2>3
    <3>2. Tail(s)[i - 1] = x
      BY <1>1, <2>1, <3>1
    <3> QED BY <1>2, <3>1, <3>2 DEF Range
  <2> QED BY <2>2, <2>3
<1>4. ASSUME NEW x \in {Head(s)} \cup Range(Tail(s)) PROVE x \in Range(s)
  <2>1. CASE x = Head(s)
    <3>1. 1 \in DOMAIN s
      BY <1>1
    <3> QED BY <1>1, <2>1, <3>1 DEF Range
  <2>2. CASE x \in Range(Tail(s))
    <3>1. PICK i \in 1..Len(s) - 1 : x = Tail(s)[i]
      BY <1>2, <2>2 DEF Range
    <3>2. x = s[i + 1] /\ i + 1 \in DOMAIN s
      BY <1>1, <3>1
    <3> QED BY <3>2 DEF Range
  <2> QED BY <2>1, <2>2
<1> QED BY <1>1, <1>3, <1>4

LEMMA EmptyRange == Range(<<>>) = {} /\ LinksOf({}) = {}
BY DEF Range, LinksOf

LEMMA LinksOfHead ==
    ASSUME NEW s \in Seq(Paths), s # <<>>
    PROVE  LinksOf(Range(s)) = Range(Links[Head(s)]) \cup LinksOf(Range(Tail(s)))
BY HeadAndTail DEF LinksOf

(* A command outside the steps Replaces or Keeps is about. *)
LEMMA NotReplacing ==
    ASSUME NEW r, NEW t,
           r.at \notin {"prune_files", "prune_unresolved", "root", "file", "trace"},
           r.at # "begin" \/ r.cmd \in Resolving
    PROVE  Replaces(r, t)
BY DEF Replaces

LEMMA NotKeeping ==
    ASSUME NEW r, NEW t, NEW base,
           r.cmd \notin Resolving \/ r.at \notin InTransaction,
           r.at \notin {"processed", "dependencies", "delete_property", "set_property"}
    PROVE  Keeps(r, t, base)
BY DEF Keeps

(* What is held only grows. *)
LEMMA KeptGrows ==
    ASSUME NEW base, NEW t, NEW u, NEW held, NEW more, Kept(base, t, held),
           t.unresolved \subseteq u.unresolved, held \subseteq more
    PROVE  Kept(base, u, more)
<1>1. Known(base) \subseteq more
  BY DEF Kept
<1>2. ASSUME NEW p \in Projects, NEW f \in Paths, <<p, f>> \in base.unresolved \ u.unresolved
      PROVE  \E q \in Owners(base, f) : <<p, q>> \in more
  BY <1>2 DEF Kept
<1> QED BY <1>1, <1>2 DEF Kept

(* The steps between transactions. *)
LEMMA OutsideSteps ==
    ASSUME Alone, DepsInv, AllDoing, NEW c \in Procs,
           \/ BeginFails(c) \/ OpenFails(c) \/ NextProject(c) \/ NoMoreProjects(c)
           \/ ListProjects(c) \/ Exit(c) \/ Crash(c) \/ CommitRows(c) \/ CommitProject(c)
    PROVE  AllDoing'
<1>1. Doing(c) /\ SqliteType(AllTables)
  BY DEF AllDoing, DepsInv, TypeOK
<1>2. ASSUME NEW r, proc'[c] = r, r.at \in {"next", "exit", "begin", "exited"},
             r.at = "begin" => r.cmd \in Resolving,
             r.at \in {"next", "begin", "exited"} => tx'[c] = "auto"
      PROVE  AllDoing'
  <2>1. Replaces(r, Tables(c)')
    BY <1>2, NotReplacing
  <2>2. Keeps(r, Tables(c)', db')
    BY <1>2, NotKeeping DEF InTransaction
  <2>3. PICK t, base : t = Tables(c)' /\ base = db'
    OBVIOUS
  <2> QED BY <1>2, <2>1, <2>2, <2>3, DoingStep
<1>3. ASSUME NEW label \in {"next", "exit"}, Goto(c, label), label = "next" => tx'[c] = "auto"
      PROVE  AllDoing'
  <2>1. proc'[c].at = label
    BY <1>3, Here DEF Goto, Commands
  <2> QED BY <1>2, <1>3, <2>1
<1>4. ~BeginFails(c)
  BY <1>1 DEF BeginFails, At, Doing
<1>5. CASE OpenFails(c)
  BY <1>3, <1>5 DEF OpenFails
<1>6. CASE NextProject(c)
  <2>1. PICK p \in proc[c].queue :
          proc' = [proc EXCEPT ![c].at = "begin", ![c].project = p, ![c].queue = @ \ {p}]
    BY <1>6 DEF NextProject
  <2>2. proc'[c].at = "begin" /\ proc'[c].cmd = proc[c].cmd
    BY <2>1, Here DEF Commands
  <2>3. proc[c].at = "next" /\ proc[c].cmd \in Resolving /\ tx'[c] = "auto"
    BY <1>1, <1>6, Here, AloneStatements DEF NextProject, At, Placed, Doing
  <2> QED BY <1>2, <2>2, <2>3
<1>7. CASE NoMoreProjects(c)
  BY <1>3, <1>7 DEF NoMoreProjects
<1>8. CASE ListProjects(c)
  <2>1. proc'[c].at = "next"
    BY <1>8, Here DEF ListProjects, Commands
  <2>2. tx'[c] = "auto"
    BY <1>1, <1>8, AloneStatements DEF ListProjects, At, Doing
  <2> QED BY <1>2, <2>1, <2>2
<1>9. CASE Exit(c) \/ Crash(c)
  <2>1. Close(c) /\ proc' = [proc EXCEPT ![c] = Resting]
    BY <1>9 DEF Exit, Crash
  <2>2. proc'[c].at = "exited"
    BY <2>1, Here DEF Resting
  <2>3. tx'[c] = "auto"
    BY <1>1, <2>1, AloneStatements
  <2> QED BY <1>2, <2>2, <2>3
<1>10. CASE CommitRows(c)
  BY <1>3, <1>10 DEF CommitRows
<1>11. CASE CommitProject(c)
  BY <1>1, <1>3, <1>11, AloneStatements DEF CommitProject
<1> QED BY <1>4, <1>5, <1>6, <1>7, <1>8, <1>9, <1>10, <1>11

LEMMA CommandsDoing ==
    ASSUME Alone, DepsInv, AllDoing, NEW c \in Procs, Command(c)
    PROVE  AllDoing'
<1>1. Doing(c) /\ SqliteType(AllTables)
  BY DEF AllDoing, DepsInv, TypeOK
<1>2. ASSUME NEW r, Start(c, r), r.at \in {"begin", "list"},
             r.at = "begin" => r.todo = r.input, r.at = "list" => r.cmd \in Resolving
      PROVE  AllDoing'
  <2>1. proc'[c] = r /\ proc[c].at = "exited" /\ UNCHANGED sqlite
    BY <1>2, Here DEF Start
  <2>2. tx'[c] = "auto"
    BY <1>1, <2>1, AloneStatements DEF Doing
  <2>3. Replaces(r, Tables(c)')
    BY <1>2 DEF Replaces
  <2>4. Keeps(r, Tables(c)', db')
    BY <1>2, NotKeeping DEF InTransaction
  <2>5. PICK t, base : t = Tables(c)' /\ base = db'
    OBVIOUS
  <2> QED BY <2>1, <2>2, <2>3, <2>4, <2>5, DoingStep
<1>3. ASSUME NEW p \in Projects, NEW root \in Roots, Register(c, p, root) PROVE AllDoing'
  <2> DEFINE r == [Resting EXCEPT !.at = "begin", !.cmd = "register", !.project = p,
                                  !.input = root, !.todo = root]
  <2>1. r.at = "begin" /\ r.input = root /\ r.todo = root
    BY DEF Resting
  <2>2. Start(c, r)
    BY <1>3 DEF Register
  <2> HIDE DEF r
  <2> QED BY <1>2, <2>1, <2>2
<1>4. ASSUME NEW p \in Projects, NEW trace \in Traces, LoadDeps(c, p, trace) PROVE AllDoing'
  <2> DEFINE r == [Resting EXCEPT !.at = "begin", !.cmd = "loadDeps", !.project = p,
                                  !.input = trace, !.todo = trace]
  <2>1. r.at = "begin" /\ r.input = trace /\ r.todo = trace
    BY DEF Resting
  <2>2. Start(c, r)
    BY <1>4 DEF LoadDeps
  <2> HIDE DEF r
  <2> QED BY <1>2, <2>1, <2>2
<1>5. ASSUME NEW projects \in {{p} : p \in Projects} \cup {Projects},
             NEW cmd \in Resolving, ResolveDeps(c, projects, cmd)
      PROVE  AllDoing'
  <2> DEFINE r == [Resting EXCEPT !.at = "list", !.cmd = cmd, !.queue = projects]
  <2>1. r.at = "list" /\ r.cmd = cmd
    BY DEF Resting
  <2>2. Start(c, r)
    BY <1>5 DEF ResolveDeps
  <2> HIDE DEF r
  <2> QED BY <1>2, <2>1, <2>2
<1> QED BY <1>3, <1>4, <1>5 DEF Command, Resolving

(* BEGIN: nothing is done yet. *)
LEMMA BeginsDoing ==
    ASSUME Alone, DepsInv, AllDoing, NEW c \in Procs, BeginTransaction(c)
    PROVE  AllDoing'
<1> DEFINE next == CASE proc[c].cmd = "register" -> "prune_files"
                     [] proc[c].cmd = "loadDeps" -> "trace"
                     [] OTHER                    -> "unresolved"
           r == [proc[c] EXCEPT !.at = next]
<1>1. Doing(c) /\ SqliteType(AllTables)
  BY DEF AllDoing, DepsInv, TypeOK
<1>2. /\ Begin(c) /\ proc' = [proc EXCEPT ![c] = r] /\ proc[c].at = "begin"
  BY Here DEF BeginTransaction, At, Goto
<1>3. /\ next \in {"prune_files", "trace", "unresolved"}
      /\ next = "prune_files" => proc[c].cmd = "register"
      /\ next = "trace" => proc[c].cmd = "loadDeps"
      /\ next = "unresolved" => proc[c].cmd \in Resolving
  BY <1>2, Here DEF Placed, Commands, Resolving
<1> HIDE DEF next
<1>4. /\ r.at = next /\ r.cmd = proc[c].cmd /\ r.project = proc[c].project
      /\ r.todo = proc[c].todo /\ r.input = proc[c].input /\ proc'[c] = r
  BY <1>2, Here DEF Commands
<1> HIDE DEF r
<1>5. db' = db /\ Tables(c)' = db
  BY <1>1, <1>2, AloneStatements
<1>6. proc[c].cmd \notin Resolving => proc[c].todo = proc[c].input
  BY <1>1, <1>2 DEF Doing, Replaces
<1>7. Replaces(r, db)
  BY <1>3, <1>4, <1>6 DEF Replaces, Resolving
<1>8. Keeps(r, db, db)
  BY <1>3, <1>4 DEF Keeps, Kept, Held
<1> QED BY <1>3, <1>4, <1>5, <1>7, <1>8, DoingStep

(* register and loadDeps, statement by statement. *)
LEMMA BuildDoing ==
    ASSUME Alone, DepsInv, AllDoing, NEW c \in Procs,
           \/ PruneFiles(c) \/ PruneUnresolved(c) \/ OpenFile(c)
           \/ RegisterLibrary(c) \/ RegisterFile(c) \/ LoadNext(c)
    PROVE  AllDoing'
<1> DEFINE T == Tables(c)
           was == proc[c]
           p == proc[c].project
<1>1. Replaces(was, T) /\ SqliteType(AllTables)
  BY DEF AllDoing, Doing, DepsInv, TypeOK
<1>2. /\ was.at \in {"prune_files", "prune_unresolved", "root", "file", "trace"}
      /\ was.cmd \notin Resolving /\ was \in Commands /\ T \in AllTables
      /\ was.todo \in Seq(Paths) /\ was.links \in Seq(Paths)
  <2>1. was.at \in {"prune_files", "prune_unresolved", "root", "file", "trace"}
    BY DEF PruneFiles, PruneUnresolved, OpenFile, RegisterLibrary, RegisterFile, LoadNext, At
  <2>2. was.cmd \notin Resolving
    BY <2>1, Here DEF Placed, Resolving
  <2> QED BY <2>1, <2>2, Here, TablesWorked DEF Commands
<1>3. ASSUME NEW r, proc' = [proc EXCEPT ![c] = r], r.cmd = was.cmd,
             r.at \in {"prune_unresolved", "root", "file", "trace"},
             NEW t, (UNCHANGED sqlite /\ t = T) \/ Write(c, t), Replaces(r, t)
      PROVE  AllDoing'
  <2>1. proc'[c] = r
    BY <1>3, Here
  <2>2. Tables(c)' = t
    BY <1>1, <1>3, AloneStatements
  <2>3. PICK base : base = db'
    OBVIOUS
  <2>4. Keeps(r, t, base)
    BY <1>2, <1>3, NotKeeping
  <2> QED BY <1>3, <2>1, <2>2, <2>3, <2>4, DoingStep
<1>4. CASE PruneFiles(c)
  <2> DEFINE t == [T EXCEPT !.files = Without(@, p)]
             r == [was EXCEPT !.at = "prune_unresolved"]
  <2>1. proc' = [proc EXCEPT ![c] = r] /\ Write(c, t) /\ was.at = "prune_files"
    BY <1>4 DEF PruneFiles, At, Goto
  <2>2. r.at = "prune_unresolved" /\ r.cmd = was.cmd /\ r.project = p
        /\ r.todo = was.todo /\ r.input = was.input
    BY <1>2 DEF Commands
  <2>3. t.files = Without(T.files, p)
    BY <1>2 DEF AllTables
  <2> HIDE DEF r, t
  <2>4. r.todo = r.input
    BY <1>1, <1>2, <2>1, <2>2 DEF Replaces
  <2>5. RowsOf(t.files, r.project) = {}
    BY <2>2, <2>3, RowsOfWithout
  <2>6. Replaces(r, t)
    BY <2>2, <2>4, <2>5 DEF Replaces
  <2> QED BY <1>3, <2>1, <2>2, <2>6
<1>5. CASE PruneUnresolved(c)
  <2> DEFINE t == [T EXCEPT !.unresolved = Without(@, p)]
             r == [was EXCEPT !.at = "root"]
  <2>1. proc' = [proc EXCEPT ![c] = r] /\ Write(c, t) /\ was.at = "prune_unresolved"
    BY <1>5 DEF PruneUnresolved, At, Goto
  <2>2. r.at = "root" /\ r.cmd = was.cmd /\ r.project = p
        /\ r.todo = was.todo /\ r.input = was.input
    BY <1>2 DEF Commands
  <2>3. t.files = T.files /\ t.unresolved = Without(T.unresolved, p)
    BY <1>2 DEF AllTables
  <2> HIDE DEF r, t
  <2>4. r.todo = r.input /\ RowsOf(t.files, r.project) = {}
    BY <1>1, <1>2, <2>1, <2>2, <2>3 DEF Replaces
  <2>5. RowsOf(t.unresolved, r.project) = {}
    BY <2>2, <2>3, RowsOfWithout
  <2>6. Replaces(r, t)
    BY <2>2, <2>4, <2>5 DEF Replaces
  <2> QED BY <1>3, <2>1, <2>2, <2>6
<1>6. CASE OpenFile(c)
  <2> DEFINE r == [was EXCEPT !.at = "file", !.links = Links[Head(proc[c].todo)]]
  <2>1. /\ proc' = [proc EXCEPT ![c] = r] /\ UNCHANGED sqlite
        /\ was.at = "root" /\ was.todo # <<>>
    BY <1>2, <1>6, Here DEF OpenFile, At
  <2>2. r.at = "file" /\ r.cmd = was.cmd /\ r.project = p
        /\ r.todo = was.todo /\ r.input = was.input /\ r.links = Links[Head(was.todo)]
    BY <1>2 DEF Commands
  <2> HIDE DEF r
  <2>3. RowsOf(T.files, p) \cup Range(was.todo) = Range(was.input)
    BY <1>1, <2>1 DEF Replaces
  <2>4. RowsOf(T.unresolved, p) \cup LinksOf(Range(was.todo)) = LinksOf(Range(was.input))
    BY <1>1, <2>1 DEF Replaces
  <2>5. LinksOf(Range(was.todo)) = Range(r.links) \cup LinksOf(Range(Tail(was.todo)))
    BY <1>2, <2>1, <2>2, LinksOfHead
  <2>6. Replaces(r, T)
    BY <2>2, <2>3, <2>4, <2>5 DEF Replaces
  <2> QED BY <1>3, <2>1, <2>2, <2>6
<1>7. CASE RegisterLibrary(c)
  <2> DEFINE t == Waiting(T, p, Head(was.links))
             r == [was EXCEPT !.links = Tail(@)]
  <2>1. /\ proc' = [proc EXCEPT ![c] = r] /\ Write(c, t)
        /\ was.at = "file" /\ was.links # <<>>
    BY <1>2, <1>7, Here DEF RegisterLibrary, At
  <2>2. r.at = "file" /\ r.cmd = was.cmd /\ r.project = p
        /\ r.todo = was.todo /\ r.input = was.input /\ r.links = Tail(was.links)
    BY <1>2, <2>1 DEF Commands
  <2>3. t.files = T.files /\ t.unresolved = With(T.unresolved, p, Head(was.links))
    BY <1>2 DEF AllTables, Waiting, With
  <2> HIDE DEF r, t
  <2>4. RowsOf(T.files, p) \cup Range(was.todo) = Range(was.input)
    BY <1>1, <2>1 DEF Replaces
  <2>5. RowsOf(T.unresolved, p) \cup Range(was.links) \cup LinksOf(Range(Tail(was.todo)))
          = LinksOf(Range(was.input))
    BY <1>1, <2>1 DEF Replaces
  <2>6. Range(was.links) = {Head(was.links)} \cup Range(r.links)
    BY <1>2, <2>1, <2>2, HeadAndTail
  <2>7. RowsOf(t.unresolved, p) = RowsOf(T.unresolved, p) \cup {Head(was.links)}
    BY <2>3, RowsOfWith
  <2>8. RowsOf(t.unresolved, p) \cup Range(r.links) \cup LinksOf(Range(Tail(was.todo)))
          = LinksOf(Range(was.input))
    BY <2>5, <2>6, <2>7
  <2>9. Replaces(r, t)
    BY <2>2, <2>3, <2>4, <2>8 DEF Replaces
  <2> QED BY <1>3, <2>1, <2>2, <2>9
<1>8. CASE RegisterFile(c)
  <2> DEFINE t == [T EXCEPT !.files = @ \cup {<<p, Head(was.todo)>>}]
             r == [was EXCEPT !.at = "root", !.todo = Tail(@)]
  <2>1. /\ proc' = [proc EXCEPT ![c] = r] /\ Write(c, t)
        /\ was.at = "file" /\ was.links = <<>>
    BY <1>2, <1>8, Here DEF RegisterFile, At
  <2>2. r.at = "root" /\ r.cmd = was.cmd /\ r.project = p
        /\ r.todo = Tail(was.todo) /\ r.input = was.input
    BY <1>2, <2>1 DEF Commands
  <2>3. t.files = With(T.files, p, Head(was.todo)) /\ t.unresolved = T.unresolved
    BY <1>2 DEF AllTables, With
  <2> HIDE DEF r, t
  <2>4. RowsOf(T.files, p) \cup Range(was.todo) = Range(was.input)
    BY <1>1, <2>1 DEF Replaces
  <2>5. RowsOf(T.unresolved, p) \cup Range(was.links) \cup LinksOf(Range(Tail(was.todo)))
          = LinksOf(Range(was.input))
    BY <1>1, <2>1 DEF Replaces
  <2>6. was.todo # <<>>
    BY <2>1, Here DEF Placed
  <2>7. Range(was.todo) = {Head(was.todo)} \cup Range(r.todo)
    BY <1>2, <2>2, <2>6, HeadAndTail
  <2>8. RowsOf(t.files, p) = RowsOf(T.files, p) \cup {Head(was.todo)}
    BY <2>3, RowsOfWith
  <2>9. RowsOf(t.files, p) \cup Range(r.todo) = Range(was.input)
    BY <2>4, <2>7, <2>8
  <2>10. RowsOf(t.unresolved, p) \cup LinksOf(Range(r.todo)) = LinksOf(Range(was.input))
    BY <2>1, <2>2, <2>3, <2>5, EmptyRange
  <2>11. Replaces(r, t)
    BY <2>2, <2>9, <2>10 DEF Replaces
  <2> QED BY <1>3, <2>1, <2>2, <2>11
<1>9. CASE LoadNext(c)
  <2> DEFINE t == Waiting(T, p, Head(was.todo))
             r == [was EXCEPT !.todo = Tail(@)]
  <2>1. /\ proc' = [proc EXCEPT ![c] = r] /\ Write(c, t)
        /\ was.at = "trace" /\ was.todo # <<>>
    BY <1>2, <1>9, Here DEF LoadNext, At
  <2>2. r.at = "trace" /\ r.cmd = was.cmd /\ r.project = p
        /\ r.todo = Tail(was.todo) /\ r.input = was.input
    BY <1>2, <2>1 DEF Commands
  <2>3. t.unresolved = With(T.unresolved, p, Head(was.todo))
    BY <1>2 DEF AllTables, Waiting, With
  <2> HIDE DEF r, t
  <2>4. Range(was.input) \subseteq RowsOf(T.unresolved, p) \cup Range(was.todo)
    BY <1>1, <2>1 DEF Replaces
  <2>5. Range(was.todo) = {Head(was.todo)} \cup Range(r.todo)
    BY <1>2, <2>1, <2>2, HeadAndTail
  <2>6. RowsOf(t.unresolved, p) = RowsOf(T.unresolved, p) \cup {Head(was.todo)}
    BY <2>3, RowsOfWith
  <2>7. Range(was.input) \subseteq RowsOf(t.unresolved, p) \cup Range(r.todo)
    BY <2>4, <2>5, <2>6
  <2>8. Replaces(r, t)
    BY <2>2, <2>7 DEF Replaces
  <2> QED BY <1>3, <2>1, <2>2, <2>8
<1> QED BY <1>4, <1>5, <1>6, <1>7, <1>8, <1>9

(* resolveDeps, statement by statement. *)
LEMMA ResolveDoing ==
    ASSUME Alone, DepsInv, AllDoing, NEW c \in Procs,
           \/ SelectUnresolved(c) \/ FindOwner(c) \/ LeaveUnresolved(c)
           \/ AddDependency(c) \/ DeleteUnresolved(c)
           \/ CopyProperty(c) \/ MergeDependencies(c) \/ DeleteProperty(c)
           \/ InsertProperty(c) \/ DeleteDependencies(c)
    PROVE  AllDoing'
<1> DEFINE T == Tables(c)
           was == proc[c]
           p == proc[c].project
<1>1. Keeps(was, T, db) /\ SqliteType(AllTables)
  BY DEF AllDoing, Doing, DepsInv, TypeOK
<1>2. /\ was.at \in {"unresolved", "owner", "exists", "processed", "dependencies",
                     "delete_property", "set_property"}
      /\ was.cmd \in Resolving /\ was \in Commands /\ T \in AllTables /\ p \in Projects
      /\ was.at \notin {"dependencies", "delete_property", "set_property"} => was.merged = {}
      /\ was.merged \subseteq Projects
  <2>1. was.at \in {"unresolved", "owner", "exists", "processed", "dependencies",
                    "delete_property", "set_property"}
    BY DEF SelectUnresolved, FindOwner, LeaveUnresolved, AddDependency, DeleteUnresolved,
           CopyProperty, MergeDependencies, DeleteProperty, InsertProperty,
           DeleteDependencies, PathsDone, At
  <2>2. was.cmd \in Resolving /\ p \in Projects
    BY <2>1, Here DEF Placed, InTransaction
  <2> QED BY <2>1, <2>2, Here, TablesWorked DEF Commands
<1>3. Kept(db, T, Held(was, T))
  BY <1>1, <1>2 DEF Keeps, InTransaction
<1>4. ASSUME NEW r, proc' = [proc EXCEPT ![c] = r],
             r.at \in {"owner", "exists", "processed", "dependencies", "delete_property",
                       "set_property", "commit"},
             NEW t, ((UNCHANGED sqlite \/ Read(c)) /\ t = T) \/ Write(c, t), Keeps(r, t, db)
      PROVE  AllDoing'
  <2>1. proc'[c] = r
    BY <1>4, Here
  <2>2. Tables(c)' = t /\ db' = db
    BY <1>1, <1>4, AloneStatements
  <2>3. Replaces(r, t)
    BY <1>4, NotReplacing
  <2>4. PICK base : base = db
    OBVIOUS
  <2> QED BY <1>4, <2>1, <2>2, <2>3, <2>4, DoingStep
<1>5. CASE SelectUnresolved(c) \/ FindOwner(c) \/ LeaveUnresolved(c)
  <2>1. Read(c) /\ was.at \in {"unresolved", "owner"}
    BY <1>5 DEF SelectUnresolved, FindOwner, LeaveUnresolved, At
  <2>2. \E r : /\ proc' = [proc EXCEPT ![c] = r]
               /\ r.at \in {"owner", "exists"} /\ r.project = p /\ r.merged = was.merged
    <3>1. CASE SelectUnresolved(c)
      <4> DEFINE r == [was EXCEPT !.at = "owner",
                         !.paths = IF CanRead(c) THEN RowsOf(T.unresolved, p) ELSE {}]
      <4>1. proc' = [proc EXCEPT ![c] = r]
        BY <3>1, Here DEF SelectUnresolved
      <4>2. r.at = "owner" /\ r.project = p /\ r.merged = was.merged
        BY <1>2 DEF Commands
      <4> HIDE DEF r
      <4> QED BY <4>1, <4>2
    <3>2. CASE FindOwner(c)
      <4>1. PICK f, q : proc' = [proc EXCEPT ![c].at = "exists", ![c].paths = @ \ {f},
                                             ![c].path = f, ![c].owner = q]
        BY <3>2 DEF FindOwner
      <4> DEFINE r == [was EXCEPT !.at = "exists", !.paths = @ \ {f}, !.path = f, !.owner = q]
      <4>2. proc' = [proc EXCEPT ![c] = r]
        BY <4>1, Here
      <4>3. r.at = "exists" /\ r.project = p /\ r.merged = was.merged
        BY <1>2 DEF Commands
      <4> HIDE DEF r
      <4> QED BY <4>2, <4>3
    <3>3. CASE LeaveUnresolved(c)
      <4>1. PICK f : proc' = [proc EXCEPT ![c].paths = @ \ {f}]
        BY <3>3 DEF LeaveUnresolved
      <4> DEFINE r == [was EXCEPT !.paths = @ \ {f}]
      <4>2. proc' = [proc EXCEPT ![c] = r]
        BY <4>1, Here
      <4>3. was.at = "owner"
        BY <3>3 DEF LeaveUnresolved, At
      <4>4. r.at = "owner" /\ r.project = p /\ r.merged = was.merged
        BY <1>2, <4>3 DEF Commands
      <4> HIDE DEF r
      <4> QED BY <4>2, <4>4
    <3> QED BY <1>5, <3>1, <3>2, <3>3
  <2>3. PICK r : /\ proc' = [proc EXCEPT ![c] = r]
                 /\ r.at \in {"owner", "exists"} /\ r.project = p /\ r.merged = was.merged
    BY <2>2
  <2>4. Held(r, T) = Held(was, T)
    BY <2>3 DEF Held
  <2>5. Keeps(r, T, db)
    BY <1>3, <2>3, <2>4 DEF Keeps
  <2> QED BY <1>4, <2>1, <2>3, <2>5
<1>6. CASE AddDependency(c)
  <2> DEFINE row == <<p, was.owner>>
             t == [T EXCEPT !.dependencies = @ \cup {row}]
             r == [was EXCEPT !.at = "processed"]
  <2>1. /\ proc' = [proc EXCEPT ![c] = r] /\ was.at = "exists"
        /\ IF row \in T.dependencies THEN UNCHANGED sqlite ELSE Write(c, t)
    BY <1>6, Here DEF AddDependency, At, Goto
  <2>2. r.at = "processed" /\ r.project = p /\ r.merged = was.merged /\ r.owner = was.owner
    BY <1>2 DEF Commands
  <2>3. /\ t.unresolved = T.unresolved /\ t.dependencies = T.dependencies \cup {row}
        /\ t.property = T.property
    BY <1>2 DEF AllTables
  <2> HIDE DEF r, t
  <2>4. ASSUME NEW u, u.unresolved = T.unresolved, u.property = T.property,
               u.dependencies = T.dependencies \cup {row}
        PROVE  Keeps(r, u, db)
    <3>1. Held(was, T) \subseteq Held(r, u)
      BY <2>2, <2>4 DEF Held, Known
    <3>2. Kept(db, u, Held(r, u))
      BY <1>3, <2>4, <3>1, KeptGrows
    <3>3. <<r.project, r.owner>> \in u.dependencies
      BY <2>2, <2>4
    <3> QED BY <2>2, <3>2, <3>3 DEF Keeps
  <2>5. CASE row \in T.dependencies
    <3>1. T.dependencies = T.dependencies \cup {row}
      BY <2>5
    <3>2. Keeps(r, T, db)
      BY <2>4, <3>1
    <3>3. UNCHANGED sqlite
      BY <2>1, <2>5
    <3> QED BY <1>4, <2>1, <2>2, <3>2, <3>3
  <2>6. CASE row \notin T.dependencies
    <3>1. Keeps(r, t, db)
      BY <2>3, <2>4
    <3>2. Write(c, t)
      BY <2>1, <2>6
    <3> QED BY <1>4, <2>1, <2>2, <3>1, <3>2
  <2> QED BY <2>5, <2>6
<1>7. CASE DeleteUnresolved(c)
  <2> DEFINE t == [T EXCEPT !.unresolved = @ \ {<<p, was.path>>}]
             r == [was EXCEPT !.at = "owner", !.path = None, !.owner = None]
  <2>1. proc' = [proc EXCEPT ![c] = r] /\ was.at = "processed" /\ Write(c, t)
    BY <1>7, Here DEF DeleteUnresolved, At
  <2>2. r.at = "owner" /\ r.project = p /\ r.merged = was.merged
    BY <1>2 DEF Commands
  <2>3. /\ t.unresolved = T.unresolved \ {<<p, was.path>>}
        /\ t.dependencies = T.dependencies /\ t.property = T.property
    BY <1>2 DEF AllTables
  <2> HIDE DEF r, t
  <2>4. Held(r, t) = Held(was, T)
    BY <2>2, <2>3 DEF Held, Known
  <2>5. <<p, was.owner>> \in Held(was, T)
    BY <1>1, <2>1 DEF Keeps, Held, Known
  <2>6. was.owner \in Owners(db, was.path)
    <3>1. <<was.owner, was.path>> \in db.files
      BY <2>1, Here DEF Looking
    <3>2. was.owner \in Projects
      BY <3>1, Here DEF AllTables
    <3> QED BY <3>1, <3>2 DEF Owners
  <2>7. Kept(db, t, Held(r, t))
    <3>1. Known(db) \subseteq Held(r, t)
      BY <1>3, <2>4 DEF Kept
    <3>2. ASSUME NEW x \in Projects, NEW f \in Paths, <<x, f>> \in db.unresolved \ t.unresolved
          PROVE  \E q \in Owners(db, f) : <<x, q>> \in Held(r, t)
      <4>1. CASE <<x, f>> \notin T.unresolved
        BY <1>3, <2>4, <3>2, <4>1 DEF Kept
      <4>2. CASE <<x, f>> \in T.unresolved
        <5>1. x = p /\ f = was.path
          BY <2>3, <3>2, <4>2
        <5> QED BY <2>4, <2>5, <2>6, <5>1
      <4> QED BY <4>1, <4>2
    <3> QED BY <3>1, <3>2 DEF Kept
  <2>8. Keeps(r, t, db)
    BY <2>2, <2>7 DEF Keeps
  <2> QED BY <1>4, <2>1, <2>2, <2>8
<1>8. CASE CopyProperty(c)
  <2> DEFINE r == [was EXCEPT !.at = "dependencies",
                     !.merged = IF CanRead(c) THEN RowsOf(T.property, p) ELSE {}]
  <2>1. proc' = [proc EXCEPT ![c] = r] /\ Read(c) /\ was.at = "owner"
    BY <1>8, Here DEF CopyProperty, PathsDone, At
  <2>2. CanRead(c)
    BY <1>1, AloneStatements
  <2>3. r.at = "dependencies" /\ r.project = p /\ r.merged = RowsOf(T.property, p)
    BY <1>2, <2>2 DEF Commands
  <2> HIDE DEF r
  <2>4. Held(was, T) \subseteq Held(r, T)
    BY <1>2, <2>1 DEF Held
  <2>5. Kept(db, T, Held(r, T))
    BY <1>3, <2>4, KeptGrows
  <2>6. Keeps(r, T, db)
    BY <2>3, <2>5 DEF Keeps
  <2> QED BY <1>4, <2>1, <2>3, <2>6
<1>9. CASE MergeDependencies(c)
  <2> DEFINE r == [was EXCEPT !.at = "delete_property",
                     !.merged = @ \cup IF CanRead(c) THEN RowsOf(T.dependencies, p) ELSE {}]
  <2>1. proc' = [proc EXCEPT ![c] = r] /\ Read(c) /\ was.at = "dependencies"
    BY <1>9, Here DEF MergeDependencies, At
  <2>2. CanRead(c)
    BY <1>1, AloneStatements
  <2>3. /\ r.at = "delete_property" /\ r.project = p
        /\ r.merged = was.merged \cup RowsOf(T.dependencies, p)
    BY <1>2, <2>2 DEF Commands
  <2> HIDE DEF r
  <2>4. Held(was, T) \subseteq Held(r, T)
    BY <2>3 DEF Held
  <2>5. Kept(db, T, Held(r, T))
    BY <1>3, <2>4, KeptGrows
  <2>6. RowsOf(T.property, p) \subseteq was.merged
    BY <1>1, <2>1 DEF Keeps
  <2>7. Keeps(r, T, db)
    BY <2>3, <2>5, <2>6 DEF Keeps
  <2> QED BY <1>4, <2>1, <2>3, <2>7
<1>10. CASE DeleteProperty(c)
  <2> DEFINE t == [T EXCEPT !.property = Without(@, p)]
             r == [was EXCEPT !.at = "set_property"]
  <2>1. proc' = [proc EXCEPT ![c] = r] /\ was.at = "delete_property" /\ Write(c, t)
    BY <1>10, Here DEF DeleteProperty, At, Goto
  <2>2. r.at = "set_property" /\ r.project = p /\ r.merged = was.merged
    BY <1>2 DEF Commands
  <2>3. /\ t.unresolved = T.unresolved /\ t.dependencies = T.dependencies
        /\ t.property = Without(T.property, p)
    BY <1>2 DEF AllTables
  <2> HIDE DEF r, t
  <2>4. /\ RowsOf(T.property, p) \subseteq was.merged
        /\ RowsOf(T.dependencies, p) \subseteq was.merged \cup RowsOf(T.property, p)
    BY <1>1, <2>1 DEF Keeps
  <2>5. ASSUME NEW row \in Held(was, T) PROVE row \in Held(r, t)
    <3>1. CASE row \in T.property /\ row[1] = p
      <4>1. row = <<p, row[2]>>
        BY <1>2, <3>1 DEF AllTables
      <4>2. row[2] \in RowsOf(T.property, p)
        BY <3>1 DEF RowsOf
      <4>3. row[2] \in was.merged
        BY <2>4, <4>2
      <4> QED BY <2>2, <4>1, <4>3 DEF Held
    <3>2. CASE ~(row \in T.property /\ row[1] = p)
      BY <2>2, <2>3, <2>5, <3>2 DEF Held, Known, Without
    <3> QED BY <3>1, <3>2
  <2>6. Kept(db, t, Held(r, t))
    BY <1>3, <2>3, <2>5, KeptGrows
  <2>7. RowsOf(t.dependencies, p) \subseteq r.merged
    BY <2>2, <2>3, <2>4
  <2>8. Keeps(r, t, db)
    BY <2>2, <2>6, <2>7 DEF Keeps
  <2> QED BY <1>4, <2>1, <2>2, <2>8
<1>11. CASE InsertProperty(c)
  <2>1. PICK q \in was.merged :
          /\ Write(c, [T EXCEPT !.property = @ \cup {<<p, q>>}])
          /\ proc' = [proc EXCEPT ![c].merged = @ \ {q}]
    BY <1>11 DEF InsertProperty
  <2> DEFINE t == [T EXCEPT !.property = @ \cup {<<p, q>>}]
             r == [was EXCEPT !.merged = @ \ {q}]
  <2>2. proc' = [proc EXCEPT ![c] = r] /\ was.at = "set_property" /\ Write(c, t)
    BY <1>11, <2>1, Here DEF InsertProperty, At
  <2>3. r.at = "set_property" /\ r.project = p /\ r.merged = was.merged \ {q}
    BY <1>2, <2>2 DEF Commands
  <2>4. /\ t.unresolved = T.unresolved /\ t.dependencies = T.dependencies
        /\ t.property = With(T.property, p, q)
    BY <1>2 DEF AllTables, With
  <2> HIDE DEF r, t
  <2>5. Held(was, T) \subseteq Held(r, t)
    BY <2>3, <2>4 DEF Held, Known, With
  <2>6. Kept(db, t, Held(r, t))
    BY <1>3, <2>4, <2>5, KeptGrows
  <2>7. RowsOf(T.dependencies, p) \subseteq was.merged \cup RowsOf(T.property, p)
    BY <1>1, <2>2 DEF Keeps
  <2>8. RowsOf(t.property, p) = RowsOf(T.property, p) \cup {q}
    BY <2>4, RowsOfWith
  <2>9. RowsOf(t.dependencies, p) \subseteq r.merged \cup RowsOf(t.property, p)
    BY <2>3, <2>4, <2>7, <2>8
  <2>10. Keeps(r, t, db)
    BY <2>3, <2>6, <2>9 DEF Keeps
  <2> QED BY <1>4, <2>2, <2>3, <2>10
<1>12. CASE DeleteDependencies(c)
  <2> DEFINE t == [T EXCEPT !.dependencies = Without(@, p)]
             r == [was EXCEPT !.at = "commit"]
  <2>1. /\ proc' = [proc EXCEPT ![c] = r] /\ was.at = "set_property" /\ was.merged = {}
        /\ Write(c, t)
    BY <1>12, Here DEF DeleteDependencies, At, Goto
  <2>2. r.at = "commit" /\ r.project = p /\ r.merged = {}
    BY <1>2, <2>1 DEF Commands
  <2>3. /\ t.unresolved = T.unresolved /\ t.property = T.property
        /\ t.dependencies = Without(T.dependencies, p)
    BY <1>2 DEF AllTables
  <2> HIDE DEF r, t
  <2>4. RowsOf(T.dependencies, p) \subseteq RowsOf(T.property, p)
    BY <1>1, <2>1 DEF Keeps
  <2>5. ASSUME NEW row \in Held(was, T) PROVE row \in Held(r, t)
    <3>1. row \in T.dependencies \cup T.property
      BY <2>1, <2>5 DEF Held, Known
    <3>2. CASE row \in T.dependencies /\ row[1] = p
      <4>1. row = <<p, row[2]>>
        BY <1>2, <3>2 DEF AllTables
      <4>2. row[2] \in RowsOf(T.property, p)
        BY <2>4, <3>2 DEF RowsOf
      <4>3. row \in T.property
        <5>1. T.property \in SUBSET (Projects \X Projects)
          BY <1>2 DEF AllTables
        <5> QED BY <4>1, <4>2, <5>1, RowsOfTable
      <4> QED BY <2>3, <4>3 DEF Held, Known
    <3>3. CASE ~(row \in T.dependencies /\ row[1] = p)
      BY <2>3, <3>1, <3>3 DEF Held, Known, Without
    <3> QED BY <3>2, <3>3
  <2>6. Kept(db, t, Held(r, t))
    BY <1>3, <2>3, <2>5, KeptGrows
  <2>7. Keeps(r, t, db)
    BY <2>2, <2>6 DEF Keeps
  <2> QED BY <1>4, <2>1, <2>2, <2>7
<1> QED BY <1>5, <1>6, <1>7, <1>8, <1>9, <1>10, <1>11, <1>12

LEMMA InitDoing == Init => AllDoing
<1> SUFFICES ASSUME Init, NEW c \in Procs PROVE Doing(c)
  BY DEF AllDoing
<1>1. /\ proc[c] = Resting /\ tx[c] = "auto"
  BY DEF Init, SqliteInit
<1>2. Resting.at = "exited"
  BY DEF Resting
<1>3. Replaces(Resting, Tables(c)) /\ Keeps(Resting, Tables(c), db)
  BY <1>2 DEF Replaces, Keeps, InTransaction
<1> QED BY <1>1, <1>3 DEF Doing

LEMMA NextDoing == Alone /\ DepsInv /\ AllDoing /\ [Next]_vars => AllDoing'
<1> SUFFICES ASSUME Alone, DepsInv, AllDoing, [Next]_vars PROVE AllDoing'
  OBVIOUS
<1>1. CASE Next
  <2>1. PICK c \in Procs : Command(c) \/ Step(c) \/ Crash(c)
    BY <1>1 DEF Next
  <2>2. CASE Command(c)
    BY <2>2, CommandsDoing
  <2>3. CASE Crash(c)
    BY <2>3, OutsideSteps
  <2>4. CASE Step(c)
    BY <2>4, OutsideSteps, BeginsDoing, BuildDoing, ResolveDoing DEF Step
  <2> QED BY <2>1, <2>2, <2>3, <2>4
<1>2. CASE UNCHANGED vars
  <2> SUFFICES ASSUME NEW c \in Procs PROVE Doing(c)'
    BY DEF AllDoing
  <2>1. /\ proc' = proc /\ tx' = tx /\ view' = view /\ db' = db
    BY <1>2 DEF vars
  <2>2. PICK r, t, base : r = proc[c] /\ t = Tables(c) /\ base = db
    OBVIOUS
  <2>3. Tables(c)' = t /\ proc'[c] = r /\ db' = base /\ tx'[c] = tx[c]
    BY <2>1, <2>2 DEF Tables, Reading
  <2>4. Replaces(r, t) /\ Keeps(r, t, base)
        /\ (r.at \in {"exited", "list", "next", "begin"} => tx'[c] = "auto")
    BY <2>2, <2>3 DEF AllDoing, Doing
  <2>5. AllDoing'
    BY <2>3, <2>4, DoingStep
  <2> QED BY <2>5 DEF AllDoing
<1> QED BY <1>1, <1>2

LEMMA AloneInvariant == Alone /\ Spec => [](DepsInv /\ AllDoing)
<1> SUFFICES ASSUME Alone PROVE Spec => [](DepsInv /\ AllDoing)
  OBVIOUS
<1>1. Init => DepsInv /\ AllDoing
  BY InitHolds, InitDoing
<1>2. (DepsInv /\ AllDoing) /\ [Next]_vars => (DepsInv /\ AllDoing)'
  BY NextHolds, NextDoing
<1> QED BY <1>1, <1>2, PTL DEF Spec

(* A command that commits stores the tables it sees. *)
LEMMA Stores ==
    ASSUME Alone, DepsInv, [Next]_vars, NEW c \in Procs, NEW cmd, Commits(c, cmd)
    PROVE  db' = Tables(c) /\ (proc[c].at = "root" <=> cmd = "register")
                           /\ (proc[c].at = "trace" <=> cmd = "loadDeps")
<1>1. /\ proc[c].at \in {"root", "trace"} /\ proc[c].todo = <<>> /\ proc[c].cmd = cmd
      /\ proc'[c].at = "exit" /\ proc'[c].at # proc[c].at
  BY DEF Commits
<1>2. PICK d \in Procs : Command(d) \/ Step(d) \/ Crash(d)
  BY <1>1 DEF Next, vars
<1>3. d = c
  BY DEF Alone
<1>4. ~Command(c) /\ ~Crash(c)
  <2>1. ASSUME Crash(c) PROVE FALSE
    BY <1>1, <2>1, Here DEF Crash, Resting
  <2>2. ASSUME NEW r, Start(c, r) PROVE FALSE
    BY <1>1, <2>2 DEF Start
  <2> QED BY <2>1, <2>2 DEF Command, Register, LoadDeps, ResolveDeps
<1>5. CommitRows(c)
  BY <1>1, <1>2, <1>3, <1>4, Here
     DEF Step, BeginTransaction, BeginFails, PruneFiles, PruneUnresolved, OpenFile, OpenFails,
         RegisterLibrary, RegisterFile, LoadNext, Exit, ListProjects, NextProject,
         NoMoreProjects, SelectUnresolved, FindOwner, LeaveUnresolved, AddDependency,
         DeleteUnresolved, CopyProperty, PathsDone, MergeDependencies, DeleteProperty,
         InsertProperty, DeleteDependencies, CommitProject, At, Goto, Commands
<1>6. db' = Tables(c)
  BY <1>5, AloneStatements DEF CommitRows, DepsInv, TypeOK
<1>7. proc[c].at = "root" => proc[c].cmd = "register"
  BY Here DEF Placed
<1>8. proc[c].at = "trace" => proc[c].cmd = "loadDeps"
  BY Here DEF Placed
<1> QED BY <1>1, <1>6, <1>7, <1>8

(* register_files, alone with the database: what it commits is the root,   *)
(* the whole root and nothing but the root, and its libraries, through any *)
(* number of crashes and unreadable files before.                          *)
THEOREM RegisterStoresRoot == Alone /\ Spec => RegisterReplaces
<1> SUFFICES ASSUME Alone PROVE Spec => RegisterReplaces
  OBVIOUS
<1> DEFINE p(c) == proc[c].project
           root(c) == Range(proc[c].input)
<1>1. ASSUME DepsInv, AllDoing, [Next]_vars, NEW c \in Procs, Commits(c, "register")
      PROVE  /\ RowsOf(db'.files, p(c)) = root(c)
             /\ RowsOf(db'.unresolved, p(c)) = LinksOf(root(c))
  <2>1. db' = Tables(c) /\ proc[c].at = "root" /\ proc[c].todo = <<>>
    BY <1>1, Stores DEF Commits
  <2>2. Replaces(proc[c], Tables(c))
    BY <1>1 DEF AllDoing, Doing
  <2>3. RowsOf(Tables(c).files, p(c)) \cup Range(<<>>) = root(c)
    BY <2>1, <2>2 DEF Replaces
  <2>4. RowsOf(Tables(c).unresolved, p(c)) \cup LinksOf(Range(<<>>)) = LinksOf(root(c))
    BY <2>1, <2>2 DEF Replaces
  <2> QED BY <2>1, <2>3, <2>4, EmptyRange
<1>2. DepsInv /\ AllDoing /\ [Next]_vars =>
        [\A c \in Procs : Commits(c, "register") =>
           LET q == proc[c].project  files == Range(proc[c].input)
           IN  /\ RowsOf(db'.files, q) = files
               /\ RowsOf(db'.unresolved, q) = UNION {Range(Links[f]) : f \in files}]_vars
  BY <1>1 DEF LinksOf
<1>3. Spec => [](DepsInv /\ AllDoing)
  BY AloneInvariant
<1> QED BY <1>2, <1>3, PTL DEF Spec, RegisterReplaces

(* loadDeps, alone with the database: every file of the trace is recorded. *)
THEOREM LoadStoresTrace == Alone /\ Spec => LoadKeepsAll
<1> SUFFICES ASSUME Alone PROVE Spec => LoadKeepsAll
  OBVIOUS
<1>1. ASSUME DepsInv, AllDoing, [Next]_vars, NEW c \in Procs, Commits(c, "loadDeps")
      PROVE  Range(proc[c].input) \subseteq RowsOf(db'.unresolved, proc[c].project)
  <2>1. db' = Tables(c) /\ proc[c].at = "trace" /\ proc[c].todo = <<>>
    BY <1>1, Stores DEF Commits
  <2>2. Range(proc[c].input)
          \subseteq RowsOf(Tables(c).unresolved, proc[c].project) \cup Range(<<>>)
    BY <1>1, <2>1 DEF AllDoing, Doing, Replaces
  <2> QED BY <2>1, <2>2, EmptyRange
<1>2. DepsInv /\ AllDoing /\ [Next]_vars =>
        [\A c \in Procs : Commits(c, "loadDeps") =>
           Range(proc[c].input) \subseteq RowsOf(db'.unresolved, proc[c].project)]_vars
  BY <1>1
<1>3. Spec => [](DepsInv /\ AllDoing)
  BY AloneInvariant
<1> QED BY <1>2, <1>3, PTL DEF Spec, LoadKeepsAll

(* What the committed tables lose in a step of a process that is alone.    *)
LEMMA AloneCommits ==
    ASSUME Alone, DepsInv, AllDoing, [Next]_vars, db' # db
    PROVE  \E c \in Procs :
             \/ proc[c].cmd \in Resolving /\ Kept(db, db', Known(db'))
             \/ /\ Known(db') = Known(db)
                /\ \A p \in Projects, f \in Paths :
                     <<p, f>> \in db.unresolved \ db'.unresolved =>
                       Commits(c, "register") /\ proc[c].project = p
<1>1. PICK c \in Procs : /\ CommitRows(c) \/ CommitProject(c)
                         /\ Worked(c, view[c]) /\ db' = view[c] /\ tx'[c] = "auto"
  BY OnlyCommitChanges
<1>2. Commit(c) /\ db' = Tables(c)
  BY <1>1, AloneStatements DEF CommitRows, CommitProject, DepsInv, TypeOK
<1>3. CASE CommitRows(c)
  <2>1. proc[c].at \in {"root", "trace"} /\ proc[c].todo = <<>> /\ Goto(c, "exit")
    BY <1>3 DEF CommitRows, At
  <2>2. proc'[c].at = "exit"
    BY <2>1, Here DEF Goto, Commands
  <2>3. proc[c].cmd \notin Resolving
    BY <2>1, Here DEF Placed, Resolving
  <2>4. /\ Known(db') = Known(db)
        /\ \A p \in Projects, f \in Paths :
             <<p, f>> \in db.unresolved \ db'.unresolved =>
               proc[c].cmd = "register" /\ proc[c].project = p
    BY <1>1, <2>3 DEF Worked
  <2> QED BY <1>1, <2>1, <2>2, <2>4 DEF Commits
<1>4. CASE CommitProject(c)
  <2>1. proc[c].at \in {"commit", "owner"}
    BY <1>4 DEF CommitProject, PathsDone, At
  <2>2. proc[c].cmd \in Resolving /\ proc[c].merged = {}
    BY <2>1, Here DEF Placed
  <2>3. Kept(db, Tables(c), Held(proc[c], Tables(c)))
    BY <2>1, <2>2 DEF AllDoing, Doing, Keeps, InTransaction
  <2>4. Held(proc[c], Tables(c)) = Known(Tables(c))
    BY <2>2 DEF Held
  <2> QED BY <1>2, <2>2, <2>3, <2>4
<1> QED BY <1>1, <1>3, <1>4

(* resolve_project_dependencies, alone with the database: an unresolved    *)
(* path goes away only as a dependency on one of its owners.               *)
THEOREM ProcessedPathsBecomeDependencies == Alone /\ Spec => UnresolvedKept
<1> SUFFICES ASSUME Alone PROVE Spec => UnresolvedKept
  OBVIOUS
<1>1. ASSUME DepsInv, AllDoing, [Next]_vars, NEW p \in Projects, NEW f \in Paths,
             <<p, f>> \in db.unresolved \ db'.unresolved
      PROVE  \/ \E c \in Procs : Commits(c, "register") /\ proc[c].project = p
             \/ \E q \in Owners(db, f) : <<p, q>> \in Known(db')
  <2>1. db' # db
    BY <1>1
  <2> QED BY <1>1, <2>1, AloneCommits DEF Kept
<1>2. DepsInv /\ AllDoing /\ [Next]_vars =>
        [\A p \in Projects, f \in Paths :
           <<p, f>> \in db.unresolved \ db'.unresolved =>
             \/ \E c \in Procs : Commits(c, "register") /\ proc[c].project = p
             \/ \E q \in Owners(db, f) : <<p, q>> \in Known(db')]_vars
  BY <1>1
<1>3. Spec => [](DepsInv /\ AllDoing)
  BY AloneInvariant
<1> QED BY <1>2, <1>3, PTL DEF Spec, UnresolvedKept

(* resolveDeps, alone with the database: the DELETEs and INSERTs that move *)
(* the dependencies into the property list lose none of them.              *)
THEOREM MergeForgetsNothing == Alone /\ Spec => DependenciesKept
<1> SUFFICES ASSUME Alone PROVE Spec => DependenciesKept
  OBVIOUS
<1>1. ASSUME DepsInv, AllDoing, [Next]_vars PROVE Known(db) \subseteq Known(db')
  <2>1. CASE db' = db
    BY <2>1 DEF Known
  <2>2. CASE db' # db
    BY <1>1, <2>2, AloneCommits DEF Kept
  <2> QED BY <2>1, <2>2
<1>2. DepsInv /\ AllDoing /\ [Next]_vars => [Known(db) \subseteq Known(db')]_vars
  BY <1>1
<1>3. Spec => [](DepsInv /\ AllDoing)
  BY AloneInvariant
<1> QED BY <1>2, <1>3, PTL DEF Spec, DependenciesKept
=============================================================================
