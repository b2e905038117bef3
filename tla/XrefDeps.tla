------------------------------ MODULE XrefDeps ------------------------------
(***************************************************************************)
(* The dependencies of projects in the darwinxref database.  A build is    *)
(* followed by three commands of darwinxref, each a process of its own:    *)
(*                                                                         *)
(*   register     the files of the project's root, and the libraries they  *)
(*                link, as paths nobody has resolved yet;                  *)
(*   loadDeps     the files the build opened, from the trace;              *)
(*   resolveDeps  every unresolved path becomes a dependency on the        *)
(*                project that registered it; with -commit the             *)
(*                dependencies are then merged into the property list.     *)
(*                                                                         *)
(* Every SQL statement is a step.  Several builds share the file, a        *)
(* statement fails when the file is locked (module Sqlite), and the        *)
(* commands look at the results of BEGIN and COMMIT only.                  *)
(*                                                                         *)
(* One build number and one type of dependency.  The Mach-O tables, which  *)
(* are filled along with the files and never read, are left out.           *)
(***************************************************************************)
EXTENDS Sqlite, Naturals, Sequences, Functions

CONSTANTS
    Projects,       \* the projects of the build, all of them in its property list
    Paths,          \* paths of files
    None,
    Links,          \* the libraries a file links, in the order of its load commands
    Unreadable,     \* files that open() refuses
    Roots,          \* what a DSTROOT may hold: files in the order fts lists them
    Traces,         \* what loadDeps may read: files that exist in the build root
    InitialTables,  \* what earlier commands left in the database
    MaxCommands, MaxCrashes

ASSUME LinksAssumption == Links \in [Paths -> Seq(Paths)]
ASSUME InputAssumption == /\ Roots \subseteq Seq(Paths)
                          /\ Traces \subseteq Seq(Paths)
ASSUME BoundAssumption == MaxCommands \in Nat /\ MaxCrashes \in Nat

VARIABLES
    proc,       \* the command each process runs
    budget      \* the commands and crashes still to come

vars == <<db, tx, view, proc, budget>>

(* Each table as the set of its rows, without the columns that never vary. *)
(* "property" stands for the rows of properties for "dependencies".        *)
AllTables == [files        : SUBSET (Projects \X Paths),
              unresolved   : SUBSET (Projects \X Paths),
              dependencies : SUBSET (Projects \X Projects),
              property     : SUBSET (Projects \X Projects)]

ASSUME InitialAssumption == InitialTables \subseteq AllTables /\ NoTables \notin AllTables

RowsOf(table, p)    == {row[2] : row \in {r \in table : r[1] = p}}
Without(table, p)   == {r \in table : r[1] # p}
Owners(t, f)        == {p \in Projects : <<p, f>> \in t.files}
Known(t)            == t.dependencies \cup t.property

Resting == [at |-> "exited", cmd |-> "none", project |-> None, input |-> <<>>,
            todo |-> <<>>, links |-> <<>>, queue |-> {}, paths |-> {}, path |-> None,
            owner |-> None, merged |-> {}]

Init == /\ \E t \in InitialTables : SqliteInit(t)
        /\ proc = [c \in Procs |-> Resting]
        /\ budget = [commands |-> MaxCommands, crashes |-> MaxCrashes]

----------------------------------------------------------------------------
At(c, label)   == proc[c].at = label /\ UNCHANGED budget
Goto(c, label) == proc' = [proc EXCEPT ![c].at = label]

Start(c, command) == /\ proc[c].at = "exited"
                     /\ budget.commands > 0
                     /\ budget' = [budget EXCEPT !.commands = @ - 1]
                     /\ proc' = [proc EXCEPT ![c] = command]
                     /\ UNCHANGED sqlite

Register(c, p, root) ==
    Start(c, [Resting EXCEPT !.at = "begin", !.cmd = "register", !.project = p,
                             !.input = root, !.todo = root])

(* Mutated form: the first line of the trace is lost. *)
LoadDepsButFirst(c, p, trace) ==
    Start(c, [Resting EXCEPT !.at = "begin", !.cmd = "loadDeps", !.project = p,
                             !.input = trace, !.todo = Tail(trace)])

LoadDeps(c, p, trace) ==
    Start(c, [Resting EXCEPT !.at = "begin", !.cmd = "loadDeps", !.project = p,
                             !.input = trace, !.todo = trace])

ResolveDeps(c, projects, cmd) ==
    Start(c, [Resting EXCEPT !.at = "list", !.cmd = cmd, !.queue = projects])

(* Mutated form: a project is resolved before the transaction begins. *)
BeginTransactionLate(c) ==
    /\ At(c, "begin")
    /\ IF proc[c].cmd \in {"register", "loadDeps"} THEN Begin(c) ELSE UNCHANGED sqlite
    /\ Goto(c, CASE proc[c].cmd = "register" -> "prune_files"
                 [] proc[c].cmd = "loadDeps" -> "trace"
                 [] OTHER                    -> "unresolved")

BeginTransaction(c) ==
    /\ At(c, "begin")
    /\ Begin(c)
    /\ Goto(c, CASE proc[c].cmd = "register" -> "prune_files"
                 [] proc[c].cmd = "loadDeps" -> "trace"
                 [] OTHER                    -> "unresolved")

(* Mutated form: BEGIN is tried again. *)
BeginAgain(c) == At(c, "begin") /\ tx[c] # "auto" /\ UNCHANGED <<sqlite, proc>>

(* A COMMIT that failed has left the transaction of the last project open. *)
BeginFails(c) ==
    /\ At(c, "begin")
    /\ tx[c] # "auto"
    /\ Goto(c, "next")
    /\ UNCHANGED sqlite

----------------------------------------------------------------------------
(* register and loadDeps *)

(* Mutated form: the files of an older root stay. *)
PruneNoFiles(c) == At(c, "prune_files") /\ Write(c, Tables(c)) /\ Goto(c, "prune_unresolved")

PruneFiles(c) ==
    /\ At(c, "prune_files")
    /\ Write(c, [Tables(c) EXCEPT !.files = Without(@, proc[c].project)])
    /\ Goto(c, "prune_unresolved")

PruneUnresolved(c) ==
    /\ At(c, "prune_unresolved")
    /\ Write(c, [Tables(c) EXCEPT !.unresolved = Without(@, proc[c].project)])
    /\ Goto(c, "root")

(* The next file of the root.  One that cannot be opened makes register    *)
(* return without COMMIT.                                                  *)
OpenFile(c) ==
    /\ At(c, "root")
    /\ proc[c].todo # <<>>
    /\ Head(proc[c].todo) \notin Unreadable
    /\ proc' = [proc EXCEPT ![c].at = "file", ![c].links = Links[Head(proc[c].todo)]]
    /\ UNCHANGED sqlite

OpenFails(c) ==
    /\ At(c, "root")
    /\ proc[c].todo # <<>>
    /\ Head(proc[c].todo) \in Unreadable
    /\ Goto(c, "exit")
    /\ UNCHANGED sqlite

Waiting(t, p, f) == [t EXCEPT !.unresolved = @ \cup {<<p, f>>}]

RegisterLibrary(c) ==
    /\ At(c, "file")
    /\ proc[c].links # <<>>
    /\ Write(c, Waiting(Tables(c), proc[c].project, Head(proc[c].links)))
    /\ proc' = [proc EXCEPT ![c].links = Tail(@)]

RegisterFile(c) ==
    /\ At(c, "file")
    /\ proc[c].links = <<>>
    /\ Write(c, [Tables(c) EXCEPT !.files = @ \cup {<<proc[c].project, Head(proc[c].todo)>>}])
    /\ proc' = [proc EXCEPT ![c].at = "root", ![c].todo = Tail(@)]

LoadNext(c) ==
    /\ At(c, "trace")
    /\ proc[c].todo # <<>>
    /\ Write(c, Waiting(Tables(c), proc[c].project, Head(proc[c].todo)))
    /\ proc' = [proc EXCEPT ![c].todo = Tail(@)]

(* The process ends when COMMIT fails as well. *)
CommitRows(c) ==
    /\ \/ At(c, "root")
       \/ At(c, "trace")
    /\ proc[c].todo = <<>>
    /\ Commit(c)
    /\ Goto(c, "exit")

Exit(c) ==
    /\ At(c, "exit")
    /\ Close(c)
    /\ proc' = [proc EXCEPT ![c] = Resting]

----------------------------------------------------------------------------
(* resolveDeps *)

(* With -commit every project asked for, else those with unresolved paths. *)
ListProjects(c) ==
    /\ At(c, "list")
    /\ proc' = [proc EXCEPT
                  ![c].at = "next",
                  ![c].queue = {p \in @ : /\ CanRead(c)
                                          /\ \/ proc[c].cmd = "resolveDeps -commit"
                                             \/ RowsOf(Tables(c).unresolved, p) # {}}]
    /\ Read(c)

NextProject(c) ==
    /\ At(c, "next")
    /\ \E p \in proc[c].queue :
           proc' = [proc EXCEPT ![c].at = "begin", ![c].project = p, ![c].queue = @ \ {p}]
    /\ UNCHANGED sqlite

NoMoreProjects(c) ==
    /\ At(c, "next")
    /\ proc[c].queue = {}
    /\ Goto(c, "exit")
    /\ UNCHANGED sqlite

SelectUnresolved(c) ==
    /\ At(c, "unresolved")
    /\ proc' = [proc EXCEPT
                  ![c].at = "owner",
                  ![c].paths = IF CanRead(c) THEN RowsOf(Tables(c).unresolved, proc[c].project)
                                             ELSE {}]
    /\ Read(c)

(* One of the projects that registered the path, whichever row comes first.*)
FindOwner(c) ==
    /\ At(c, "owner")
    /\ CanRead(c)
    /\ \E f \in proc[c].paths : \E q \in Owners(Tables(c), f) :
           proc' = [proc EXCEPT ![c].at = "exists", ![c].paths = @ \ {f},
                                ![c].path = f, ![c].owner = q]
    /\ Read(c)

(* Mutated form: a path is deleted whether it has an owner or not. *)
LeaveNothing(c) ==
    /\ At(c, "owner")
    /\ \E f \in proc[c].paths :
          /\ CanRead(c) => Owners(Tables(c), f) = {}
          /\ proc' = [proc EXCEPT ![c].at = "processed", ![c].paths = @ \ {f}, ![c].path = f]
    /\ Read(c)

(* Nobody has registered the path, or the SELECT fails. *)
LeaveUnresolved(c) ==
    /\ At(c, "owner")
    /\ \E f \in proc[c].paths : /\ CanRead(c) => Owners(Tables(c), f) = {}
                                /\ proc' = [proc EXCEPT ![c].paths = @ \ {f}]
    /\ Read(c)

AddDependency(c) ==
    LET row == <<proc[c].project, proc[c].owner>> IN
    /\ At(c, "exists")
    /\ IF row \in Tables(c).dependencies
       THEN UNCHANGED sqlite
       ELSE Write(c, [Tables(c) EXCEPT !.dependencies = @ \cup {row}])
    /\ Goto(c, "processed")

DeleteUnresolved(c) ==
    /\ At(c, "processed")
    /\ Write(c, [Tables(c) EXCEPT !.unresolved = @ \ {<<proc[c].project, proc[c].path>>}])
    /\ proc' = [proc EXCEPT ![c].at = "owner", ![c].path = None, ![c].owner = None]

PathsDone(c) == At(c, "owner") /\ proc[c].paths = {}

(* Mutated form: the property is replaced, not merged. *)
CopyNothing(c) ==
    /\ PathsDone(c)
    /\ proc[c].cmd = "resolveDeps -commit"
    /\ Goto(c, "dependencies")
    /\ Read(c)

(* -commit: DBCopyPropDictionary, an empty dictionary when the SELECT fails.*)
CopyProperty(c) ==
    /\ PathsDone(c)
    /\ proc[c].cmd = "resolveDeps -commit"
    /\ proc' = [proc EXCEPT
                  ![c].at = "dependencies",
                  ![c].merged = IF CanRead(c) THEN RowsOf(Tables(c).property, proc[c].project)
                                              ELSE {}]
    /\ Read(c)

MergeDependencies(c) ==
    /\ At(c, "dependencies")
    /\ proc' = [proc EXCEPT
                  ![c].at = "delete_property",
                  ![c].merged = @ \cup IF CanRead(c)
                                       THEN RowsOf(Tables(c).dependencies, proc[c].project)
                                       ELSE {}]
    /\ Read(c)

(* DBSetPropDictionary: a DELETE, and an INSERT for every value. *)
DeleteProperty(c) ==
    /\ At(c, "delete_property")
    /\ Write(c, [Tables(c) EXCEPT !.property = Without(@, proc[c].project)])
    /\ Goto(c, "set_property")

InsertProperty(c) ==
    /\ At(c, "set_property")
    /\ \E q \in proc[c].merged :
         /\ Write(c, [Tables(c) EXCEPT !.property = @ \cup {<<proc[c].project, q>>}])
         /\ proc' = [proc EXCEPT ![c].merged = @ \ {q}]

DeleteDependencies(c) ==
    /\ At(c, "set_property")
    /\ proc[c].merged = {}
    /\ Write(c, [Tables(c) EXCEPT !.dependencies = Without(@, proc[c].project)])
    /\ Goto(c, "commit")

(* The result of resolve_project_dependencies is not looked at: the next   *)
(* project follows, whether this COMMIT succeeds or not.                   *)
CommitProject(c) ==
    /\ \/ At(c, "commit")
       \/ PathsDone(c) /\ proc[c].cmd = "resolveDeps"
    /\ Commit(c)
    /\ Goto(c, "next")

----------------------------------------------------------------------------
Crash(c) ==
    /\ proc[c].at # "exited"
    /\ budget.crashes > 0
    /\ budget' = [budget EXCEPT !.crashes = @ - 1]
    /\ Close(c)
    /\ proc' = [proc EXCEPT ![c] = Resting]

Step(c) ==
    \/ BeginTransaction(c) \/ BeginFails(c)
    \/ PruneFiles(c) \/ PruneUnresolved(c)
    \/ OpenFile(c) \/ OpenFails(c) \/ RegisterLibrary(c) \/ RegisterFile(c)
    \/ LoadNext(c) \/ CommitRows(c) \/ Exit(c)
    \/ ListProjects(c) \/ NextProject(c) \/ NoMoreProjects(c)
    \/ SelectUnresolved(c) \/ FindOwner(c) \/ LeaveUnresolved(c)
    \/ AddDependency(c) \/ DeleteUnresolved(c)
    \/ CopyProperty(c) \/ MergeDependencies(c) \/ DeleteProperty(c)
    \/ InsertProperty(c) \/ DeleteDependencies(c) \/ CommitProject(c)

Command(c) ==
    \/ \E p \in Projects, root \in Roots : Register(c, p, root)
    \/ \E p \in Projects, trace \in Traces : LoadDeps(c, p, trace)
    \/ \E projects \in {{p} : p \in Projects} \cup {Projects},
          cmd \in {"resolveDeps", "resolveDeps -commit"} : ResolveDeps(c, projects, cmd)

Next == \E c \in Procs : Command(c) \/ Step(c) \/ Crash(c)

(* The system runs every process; what the users start is up to them. *)
Spec == /\ Init
        /\ [][Next]_vars
        /\ \A c \in Procs : WF_vars(Step(c))
----------------------------------------------------------------------------
(* Properties *)

Labels == {"exited", "begin", "prune_files", "prune_unresolved", "root", "file", "trace",
           "exit", "list", "next", "unresolved", "owner", "exists", "processed",
           "dependencies", "delete_property", "set_property", "commit"}

Commands == [at : Labels,
             cmd : {"none", "register", "loadDeps", "resolveDeps", "resolveDeps -commit"},
             project : Projects \cup {None}, input : Seq(Paths), todo : Seq(Paths),
             links : Seq(Paths), queue : SUBSET Projects, paths : SUBSET Paths,
             path : Paths \cup {None}, owner : Projects \cup {None},
             merged : SUBSET Projects]

(* The database, the locks and every command keep their form.               *)
TypeOK ==
    /\ SqliteType(AllTables)
    /\ proc \in [Procs -> Commands]
    /\ budget \in [commands : 0..MaxCommands, crashes : 0..MaxCrashes]

(***************************************************************************)
(* What every process can rely on, however many others there are: from the *)
(* first SELECT that succeeds to COMMIT nobody changes the tables, so what *)
(* it noted of them is still true, and the tables it is about to commit    *)
(* differ from them only by its own work.                                  *)
(***************************************************************************)
Resolving == {"resolveDeps", "resolveDeps -commit"}

InTransaction == {"prune_files", "prune_unresolved", "root", "file", "trace", "unresolved",
                  "owner", "exists", "processed", "dependencies", "delete_property",
                  "set_property", "commit"}

(* A file the dependent waits for has been registered by the other. *)
Justified(p, q) == \/ <<p, q>> \in Known(db)
                   \/ \E f \in Paths : <<p, f>> \in db.unresolved /\ <<q, f>> \in db.files

(* The command is at a point of its own, and its transaction is open there.*)
Placed(c) ==
    /\ proc[c].at \in {"prune_files", "prune_unresolved", "root", "file"} => proc[c].cmd = "register"
    /\ proc[c].at = "trace" => proc[c].cmd = "loadDeps"
    /\ proc[c].at \in {"list", "next", "unresolved", "owner", "exists", "processed",
                       "dependencies", "delete_property", "set_property", "commit"}
         => proc[c].cmd \in Resolving
    /\ proc[c].at = "begin" => proc[c].cmd # "none"
    /\ proc[c].at \in InTransaction => tx[c] # "auto"
    /\ proc[c].at \in {"exited", "list"} => tx[c] = "auto"
    /\ proc[c].at = "begin" /\ proc[c].cmd \notin Resolving => tx[c] = "auto"
    /\ proc[c].at \in InTransaction \cup {"begin"} => proc[c].project \in Projects
    /\ proc[c].at = "file" => proc[c].todo # <<>>

(* What the command may have done to the tables t, compared with db. *)
Worked(c, t) ==
    IF proc[c].cmd \in Resolving
    THEN /\ t.files = db.files
         /\ t.unresolved \subseteq db.unresolved
         /\ \A p \in Projects, f \in Paths :
              <<p, f>> \in db.unresolved \ t.unresolved => Owners(db, f) # {}
         /\ \A p, q \in Projects : <<p, q>> \in Known(t) => Justified(p, q)
    ELSE /\ Known(t) = Known(db)
         /\ \A p \in Projects, f \in Paths :
              <<p, f>> \in db.unresolved \ t.unresolved =>
                proc[c].cmd = "register" /\ proc[c].project = p

Seeing(c) == /\ Reading(c) => view[c] \in AllTables
             /\ Reading(c) /\ ~Writing(c) => view[c] = db
             /\ Writing(c) => Worked(c, view[c])

(* The paths still to be resolved, and the one whose owner was found. *)
Looking(c) ==
    /\ proc[c].paths # {} => proc[c].at \in {"owner", "exists", "processed"} /\ Reading(c)
    /\ \A f \in proc[c].paths : <<proc[c].project, f>> \in db.unresolved
    /\ proc[c].at \in {"exists", "processed"} =>
         /\ Reading(c)
         /\ <<proc[c].project, proc[c].path>> \in db.unresolved
         /\ <<proc[c].owner, proc[c].path>> \in db.files

(* The dictionary that will replace the property. *)
Merging(c) ==
    /\ proc[c].merged # {} =>
         proc[c].at \in {"dependencies", "delete_property", "set_property"} /\ Reading(c)
    /\ \A q \in proc[c].merged : Justified(proc[c].project, q)

DepsInv == /\ TypeOK
           /\ \A c \in Procs : Placed(c) /\ Seeing(c) /\ Looking(c) /\ Merging(c)

(* The step in which register or loadDeps commits. *)
Commits(c, cmd) == /\ proc[c].cmd = cmd
                   /\ proc[c].at \in {"root", "trace"} /\ proc[c].todo = <<>>
                   /\ proc'[c].at = "exit" /\ tx'[c] = "auto"

(* register_files: when it reports success, the files recorded for the     *)
(* project are those of the root, its old files are gone, and it waits for *)
(* exactly the libraries of the new ones.  It holds through crashes and    *)
(* unreadable files, as long as no other process uses the database.        *)
RegisterReplaces ==
    [][\A c \in Procs : Commits(c, "register") =>
         LET p == proc[c].project  root == Range(proc[c].input)
         IN  /\ RowsOf(db'.files, p) = root
             /\ RowsOf(db'.unresolved, p) = UNION {Range(Links[f]) : f \in root}]_vars

(* loadDeps: when it reports success, every file of the trace is there.    *)
LoadKeepsAll ==
    [][\A c \in Procs : Commits(c, "loadDeps") =>
         Range(proc[c].input) \subseteq RowsOf(db'.unresolved, proc[c].project)]_vars

(* resolve_project_dependencies "deletes unresolved_dependencies after     *)
(* they are processed": an unresolved path of a project goes away only     *)
(* when the project is registered again, or when the dependency on an      *)
(* owner of the path is committed in the same step.                        *)
UnresolvedKept ==
    [][\A p \in Projects, f \in Paths :
         <<p, f>> \in db.unresolved \ db'.unresolved =>
           \/ \E c \in Procs : Commits(c, "register") /\ proc[c].project = p
           \/ \E q \in Owners(db, f) : <<p, q>> \in Known(db')]_vars

(* resolveDeps "merges": no dependency that was found is ever forgotten,   *)
(* whether it waits in the table or is in the property list.               *)
DependenciesKept == [][Known(db) \subseteq Known(db')]_vars

(* With any number of processes, a new dependency is on a project that has *)
(* a file the dependent was waiting for, at the moment it is committed:    *)
(* the owner was looked up in the transaction that stores the dependency,  *)
(* and register cannot replace the files meanwhile.                        *)
DependenciesJustified ==
    [][\A p, q \in Projects :
         <<p, q>> \in Known(db') \ Known(db) =>
           \E f \in Paths : <<p, f>> \in db.unresolved /\ <<q, f>> \in db.files]_vars

(* With any number of processes, a path that nobody has registered goes on *)
(* waiting, unless its project is registered again.                        *)
UnownedKept ==
    [][\A p \in Projects, f \in Paths :
         <<p, f>> \in db.unresolved \ db'.unresolved =>
           \/ \E c \in Procs : Commits(c, "register") /\ proc[c].project = p
           \/ Owners(db, f) # {}]_vars

(* Nobody waits for a lock: every command comes to its end. *)
CommandsEnd == \A c \in Procs : []<>(proc[c].at = "exited")
=============================================================================
