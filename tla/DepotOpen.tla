------------------------------ MODULE DepotOpen -----------------------------
(***************************************************************************)
(* How a darwinup process comes to own the depot, and how it leaves it:    *)
(* Depot::initialize creates the directories, looks for the database, takes*)
(* the lock; Database::connect opens the database, creates its tables or   *)
(* brings those of an older darwinup up to date.  Several processes do so  *)
(* at once, of several users, and any of them may die between two steps.   *)
(*                                                                         *)
(* A step ends where something durable has happened: each statement that   *)
(* creates a database commits by itself, an upgrade commits as a whole.    *)
(***************************************************************************)
EXTENDS Integers

CONSTANTS
    Procs,          \* processes
    Rows,           \* archives that may be installed
    InitialDbs,     \* what earlier processes left in the depot
    MaxStarts,      \* bound on processes that are started
    MaxCrashes,     \* bound on processes that die
    None

(***************************************************************************)
(* DarwinupDatabase::init_schema.  Columns are added under the version of  *)
(* the schema that introduced them.                                        *)
(***************************************************************************)
CodeVersion == 1
Tables == {"database_information", "archives", "files"}
Columns(t) ==
    CASE t = "database_information" -> {"variable", "value"}
      [] t = "archives" -> {"uuid", "name", "date_added", "active", "info", "osbuild"}
      [] t = "files"    -> {"archive", "info", "mode", "uid", "gid", "size", "digest", "path"}
VersionOf(c) == IF c = "osbuild" THEN 1 ELSE 0

Names     == UNION {Columns(t) : t \in Tables}
Versions  == 0..(CodeVersion + 1)

(***************************************************************************)
(* A database file: the columns of each table ({}: no such table), the row *)
(* schema_version of database_information, the archives recorded in it.    *)
(***************************************************************************)
Db == [tables : [Tables -> SUBSET Names], version : Versions \cup {None},
       rows : SUBSET Rows]

OfVersion(v) == [t \in Tables |-> {c \in Columns(t) : VersionOf(c) <= v}]
EmptyFile == [tables |-> [t \in Tables |-> {}], version |-> None, rows |-> {}]
HasTable(d, t) == d.tables[t] # {}
Whole(d)  == \A t \in Tables : Columns(t) \subseteq d.tables[t]

(* A database without version row was left by a darwinup of version 0.     *)
Sound(d) ==
    /\ d.version # None => HasTable(d, "database_information")
    /\ d.version = CodeVersion => d.tables = OfVersion(CodeVersion)
    /\ ~HasTable(d, "database_information") =>
          \/ d.tables = EmptyFile.tables
          \/ d.tables = [OfVersion(0) EXCEPT !["database_information"] = {}]

ASSUME NoneAssumption == None \notin Versions /\ None \notin Db /\ None \notin Procs
ASSUME InitialDbsAssumption == InitialDbs \subseteq {d \in Db : Sound(d)} \cup {None}
ASSUME BoundsAssumption == MaxStarts \in Nat /\ MaxCrashes \in Nat

Users    == {"root", "admin", "other"}
Commands == {"install", "list", "files"}
Writes(c) == c = "install"

VARIABLES
    db,         \* Database-V100, None when there is no such file
    storage,    \* TRUE iff .DarwinDepot is there
    lock,       \* the process that holds flock(.DarwinDepot), or None
    pc,         \* what each process is about to do
    user,       \* who runs it
    command,    \* its command
    outcome,    \* how the last process of this name ended
    budget      \* what remains of the two bounds

vars == <<db, storage, lock, pc, user, command, outcome, budget>>

Owning == {"connect", "create", "version", "stamp", "ready"}
Steps  == {"idle", "storage", "stat", "lock"} \cup Owning

TypeOK ==
    /\ db \in Db \cup {None}
    /\ storage \in BOOLEAN
    /\ lock \in Procs \cup {None}
    /\ pc \in [Procs -> Steps]
    /\ user \in [Procs -> Users]
    /\ command \in [Procs -> Commands]
    /\ outcome \in [Procs -> {"none", "ok", "no depot", "error", "aborted"}]
    /\ budget \in [starts : 0..MaxStarts, crashes : 0..MaxCrashes]

Init ==
    /\ db \in InitialDbs
    /\ storage = (db # None)
    /\ lock = None
    /\ pc = [p \in Procs |-> "idle"]
    /\ user = [p \in Procs |-> "root"]
    /\ command = [p \in Procs |-> "list"]
    /\ outcome = [p \in Procs |-> "none"]
    /\ budget = [starts |-> MaxStarts, crashes |-> MaxCrashes]

At(p, step)   == pc[p] = step
Goto(p, step) == pc' = [pc EXCEPT ![p] = step]
Released(p)   == IF lock = p THEN None ELSE lock

(* exit(), or abort() of an assertion: the descriptor of the lock closes.  *)
End(p, how) == /\ Goto(p, "idle")
               /\ outcome' = [outcome EXCEPT ![p] = how]
               /\ lock' = Released(p)
               /\ UNCHANGED <<user, command, budget>>
Keep(p, step) == Goto(p, step) /\ UNCHANGED <<user, command, outcome, budget>>

-----------------------------------------------------------------------------
(* A command that writes needs root. *)
Start(p) ==
    /\ At(p, "idle") /\ budget.starts > 0
    /\ budget' = [budget EXCEPT !.starts = @ - 1]
    /\ \E u \in Users, c \in Commands :
        /\ user' = [user EXCEPT ![p] = u]
        /\ command' = [command EXCEPT ![p] = c]
        /\ \/ /\ Writes(c) /\ u # "root"
              /\ outcome' = [outcome EXCEPT ![p] = "error"]
              /\ UNCHANGED pc
           \/ /\ Writes(c) => u = "root"
              /\ outcome' = [outcome EXCEPT ![p] = "none"]
              /\ Goto(p, IF Writes(c) THEN "storage" ELSE "stat")
    /\ UNCHANGED <<db, storage, lock>>

CreateStorage(p) ==
    /\ At(p, "storage")
    /\ storage' = TRUE
    /\ Keep(p, "stat") /\ UNCHANGED <<db, lock>>

(* The database is looked for before the lock is taken; what a command that*)
(* writes finds does not matter.  The depot is closed to others (mode 750).*)
StatDatabase(p) ==
    /\ At(p, "stat")
    /\ IF Writes(command[p]) \/ (db # None /\ user[p] # "other")
       THEN Keep(p, "lock") /\ UNCHANGED lock
       ELSE End(p, IF user[p] = "other" /\ storage THEN "error"
                   ELSE IF command[p] = "list" THEN "no depot" ELSE "error")
    /\ UNCHANGED <<db, storage>>

(* Mutated form: a shared lock.                                            *)
LockShared(p) ==
    /\ At(p, "lock")
    /\ lock' = p
    /\ Keep(p, "connect") /\ UNCHANGED <<db, storage>>

Lock(p) ==
    /\ At(p, "lock") /\ lock = None
    /\ lock' = p
    /\ Keep(p, "connect") /\ UNCHANGED <<db, storage>>

-----------------------------------------------------------------------------
(* Database::connect, up to post_connect.  sqlite3_open creates the file.  *)
(* Only root gets here without a database.                                 *)
Connect(p) ==
    /\ At(p, "connect")
    /\ IF db = None
       THEN db' = EmptyFile /\ Keep(p, "create")
       ELSE Keep(p, "version") /\ UNCHANGED db
    /\ UNCHANGED <<storage, lock>>

(* Database::create_tables, in the order in which the tables were added.   *)
(* A table comes with its indexes, which change no answer.                 *)
NextTable ==
    IF ~HasTable(db, "database_information") THEN "database_information"
    ELSE IF HasTable(db, "archives") THEN "files" ELSE "archives"

CreateTable(p) ==
    /\ At(p, "create") /\ \E t \in Tables : ~HasTable(db, t)
    /\ db' = [db EXCEPT !.tables[NextTable] = Columns(NextTable)]
    /\ UNCHANGED <<storage, lock, pc, user, command, outcome, budget>>

InitialData(p) ==
    /\ At(p, "create") /\ \A t \in Tables : HasTable(db, t)
    /\ db' = [db EXCEPT !.version = 0]
    /\ Keep(p, "stamp") /\ UNCHANGED <<storage, lock>>

-----------------------------------------------------------------------------
(* Database::get_schema_version. *)
SchemaVersion ==
    IF HasTable(db, "database_information") /\ db.version # None
    THEN db.version ELSE 0

(* Mutated form: the lock stays with the process that gave up.             *)
TooOldLocked(p) ==
    /\ At(p, "version") /\ SchemaVersion > CodeVersion
    /\ Keep(p, "idle") /\ UNCHANGED <<db, storage, lock>>

(* A newer darwinup was here.                                              *)
TooOld(p) ==
    /\ At(p, "version") /\ SchemaVersion > CodeVersion
    /\ End(p, "error") /\ UNCHANGED <<db, storage>>

Current(p) ==
    /\ At(p, "version") /\ SchemaVersion = CodeVersion
    /\ Keep(p, "ready") /\ UNCHANGED <<db, storage, lock>>

ReadOnly(p) ==
    /\ At(p, "version") /\ SchemaVersion < CodeVersion
    /\ user[p] # "root"
    /\ End(p, "error") /\ UNCHANGED <<db, storage>>

(***************************************************************************)
(* Database::upgrade_schema: one transaction that creates the tables and   *)
(* adds the columns the database lacks.  It fails where a table is already *)
(* there, a column is, or the table of a new column is not.                *)
(***************************************************************************)
NeedsUpgrade(p) == /\ At(p, "version") /\ SchemaVersion < CodeVersion
                   /\ user[p] = "root"

NewColumns(t) == {c \in Columns(t) : VersionOf(c) > SchemaVersion}

UpgradeFails ==
    \/ SchemaVersion = 0 /\ HasTable(db, "database_information")
    \/ \E t \in Tables : /\ NewColumns(t) # {}
                         /\ ~HasTable(db, t) \/ db.tables[t] \cap NewColumns(t) # {}

UpgradedTables ==
    [t \in Tables |-> db.tables[t] \cup NewColumns(t) \cup
        IF t = "database_information" THEN Columns(t) ELSE {}]

(* Mutated form: the tables are made anew.                                 *)
UpgradeAnew(p) ==
    /\ NeedsUpgrade(p) /\ ~UpgradeFails
    /\ db' = [EmptyFile EXCEPT !.tables = OfVersion(CodeVersion)]
    /\ Keep(p, "stamp") /\ UNCHANGED <<storage, lock>>

Upgrade(p) ==
    /\ NeedsUpgrade(p) /\ ~UpgradeFails
    /\ db' = [db EXCEPT !.tables = UpgradedTables]
    /\ Keep(p, "stamp") /\ UNCHANGED <<storage, lock>>

(* assert(this->upgrade_schema(version) == 0) *)
UpgradeAborts(p) ==
    /\ NeedsUpgrade(p) /\ UpgradeFails
    /\ End(p, "aborted") /\ UNCHANGED <<db, storage>>

(* Database::set_schema_version, after the transaction of the upgrade. *)
SetSchemaVersion(p) ==
    /\ At(p, "stamp")
    /\ db' = [db EXCEPT !.version = CodeVersion]
    /\ Keep(p, "ready") /\ UNCHANGED <<storage, lock>>

-----------------------------------------------------------------------------
(* The command; all that an installation leaves behind here is its row. *)
Command(p) ==
    /\ At(p, "ready")
    /\ IF Writes(command[p])
       THEN \E r \in Rows : db' = [db EXCEPT !.rows = @ \cup {r}]
       ELSE UNCHANGED db
    /\ End(p, "ok") /\ UNCHANGED storage

Die(p) ==
    /\ ~At(p, "idle") /\ budget.crashes > 0
    /\ budget' = [budget EXCEPT !.crashes = @ - 1]
    /\ Goto(p, "idle") /\ lock' = Released(p)
    /\ UNCHANGED <<db, storage, user, command, outcome>>

Step(p) ==
    \/ CreateStorage(p) \/ StatDatabase(p) \/ Lock(p)
    \/ Connect(p) \/ CreateTable(p) \/ InitialData(p)
    \/ TooOld(p) \/ Current(p) \/ ReadOnly(p) \/ Upgrade(p) \/ UpgradeAborts(p)
    \/ SetSchemaVersion(p) \/ Command(p)

Next == \E p \in Procs : Start(p) \/ Step(p) \/ Die(p)

(* A process that can take a step takes it.  As many processes wait for the*)
(* lock as were started, so that it need not be granted again and again.   *)
Spec == Init /\ [][Next]_vars /\ \A p \in Procs : WF_vars(Step(p))

-----------------------------------------------------------------------------
(* A command runs on a database that has every table and column, says so,  *)
(* and belongs to nobody else (Depot.cpp:190-195, Database.cpp:155-186).   *)
ReadyIsCurrent ==
    \A p \in Procs : At(p, "ready") =>
        /\ db # None /\ Whole(db) /\ db.version = CodeVersion
        /\ \A q \in Procs : pc[q] \in Owning => q = p

(* Opening the depot loses nothing: archives, columns and versions stay,   *)
(* a newer darwinup's database is left alone, and only root changes one    *)
(* (Database.cpp:166-185).                                                 *)
NothingLost ==
    [][db # None =>
          /\ db' # None
          /\ db.rows \subseteq db'.rows
          /\ \A t \in Tables : db.tables[t] \subseteq db'.tables[t]
          /\ db.version # None => db'.version # None /\ db'.version >= db.version
          /\ db.version = CodeVersion + 1 => db' = db
          /\ db' # db => lock # None /\ user[lock] = "root"]_vars

(* Every process ends, whoever waits for whom: the lock is given up by a   *)
(* process that ends, fails an assertion or dies.                          *)
EveryoneEnds == \A p \in Procs : ~At(p, "idle") ~> At(p, "idle")

(* The database can be opened again, and upgraded, whatever happened to    *)
(* earlier processes: no assertion about the schema fails                  *)
(* (Database.cpp:157-158, 177-178).                                        *)
NoAssertionFails == \A p \in Procs : outcome[p] # "aborted"
=============================================================================
