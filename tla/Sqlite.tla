------------------------------- MODULE Sqlite -------------------------------
(***************************************************************************)
(* One SQLite database file and the processes that have it open, as the    *)
(* darwinxref commands use it: sqlite3_open, sqlite3_exec, a rollback      *)
(* journal, and no busy handler, so that a statement that meets a lock     *)
(* fails at once with SQLITE_BUSY.  The library is not part of the         *)
(* repository; this module says what its callers rely on.                  *)
(*                                                                         *)
(* A transaction opened by BEGIN takes no lock.  Its first SELECT takes a  *)
(* SHARED lock and its first write a RESERVED one, which it keeps.  COMMIT *)
(* needs the file for itself: while another process reads it fails, the    *)
(* transaction stays open, and its PENDING lock lets no new reader in.     *)
(***************************************************************************)
CONSTANTS
    Procs,      \* the processes
    NoTables    \* the private tables of a process that holds no lock

VARIABLES
    db,         \* the committed tables
    tx,         \* the transaction of each process, by the lock it holds
    view        \* the tables as a process that holds a lock sees them

sqlite == <<db, tx, view>>

Modes == {"auto", "begun", "shared", "reserved", "pending"}

Reading(c) == tx[c] \in {"shared", "reserved", "pending"}
Writing(c) == tx[c] \in {"reserved", "pending"}

NobodyElse(c, modes) == \A d \in Procs \ {c} : tx[d] \notin modes

CanRead(c)   == Reading(c) \/ NobodyElse(c, {"pending"})
CanWrite(c)  == Writing(c) \/ (CanRead(c) /\ NobodyElse(c, {"reserved", "pending"}))
CanCommit(c) == Writing(c) => NobodyElse(c, {"shared", "reserved", "pending"})

(* What a SELECT of c is answered from, if it can be answered. *)
Tables(c) == IF Reading(c) THEN view[c] ELSE db

SqliteInit(tables) == /\ db = tables
                      /\ tx = [c \in Procs |-> "auto"]
                      /\ view = [c \in Procs |-> NoTables]

SqliteType(AllTables) ==
    /\ db \in AllTables
    /\ tx \in [Procs -> Modes]
    /\ view \in [Procs -> AllTables \cup {NoTables}]

(***************************************************************************)
(* The statements.  Read and Write are also what happens to the locks when *)
(* the statement fails: nothing.                                           *)
(***************************************************************************)
Begin(c) == /\ tx[c] = "auto"
            /\ tx' = [tx EXCEPT ![c] = "begun"]
            /\ UNCHANGED <<db, view>>

Read(c) == IF tx[c] = "begun" /\ CanRead(c)
           THEN /\ tx' = [tx EXCEPT ![c] = "shared"]
                /\ view' = [view EXCEPT ![c] = db]
                /\ UNCHANGED db
           ELSE UNCHANGED sqlite

Write(c, tables) == IF CanWrite(c)
                    THEN /\ tx' = [tx EXCEPT ![c] = IF @ = "pending" THEN @ ELSE "reserved"]
                         /\ view' = [view EXCEPT ![c] = tables]
                         /\ UNCHANGED db
                    ELSE UNCHANGED sqlite

Release(c) == /\ tx' = [tx EXCEPT ![c] = "auto"]
              /\ view' = [view EXCEPT ![c] = NoTables]

Commit(c) == IF CanCommit(c)
             THEN Release(c) /\ db' = Tables(c)
             ELSE /\ tx' = [tx EXCEPT ![c] = "pending"]
                  /\ UNCHANGED <<db, view>>

(* The process ends, or dies: the journal is rolled back, the locks go. *)
Close(c) == Release(c) /\ UNCHANGED db
=============================================================================
