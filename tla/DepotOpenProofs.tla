--------------------------- MODULE DepotOpenProofs --------------------------
(***************************************************************************)
(* What opening the depot guarantees for any number of processes, any      *)
(* archives and any database an earlier darwinup left behind.  OpenInv is  *)
(* inductive: the process that has the lock knows how far the database is, *)
(* and nobody else touches it.                                             *)
(***************************************************************************)
EXTENDS DepotOpen, TLAPS

LockHeld == \A p \in Procs : pc[p] \in Owning => lock = p
DbSound  == db # None => Sound(db)

(* What a process that has come to some step may rely on.                  *)
Fits(p) ==
    /\ Writes(command[p]) /\ pc[p] # "idle" => user[p] = "root"
    /\ pc[p] \in {"lock", "connect"} /\ db = None => Writes(command[p])
    /\ pc[p] = "version" => db # None
    /\ pc[p] = "create" =>
          /\ user[p] = "root" /\ db # None /\ db.version = None
          /\ \A t \in Tables : db.tables[t] \in {{}, Columns(t)}
    /\ pc[p] = "stamp" =>
          /\ user[p] = "root" /\ db # None /\ db.version \in {None, 0}
          /\ db.tables = OfVersion(CodeVersion)
    /\ pc[p] = "ready" =>
          /\ db # None /\ db.version = CodeVersion
          /\ db.tables = OfVersion(CodeVersion)

OpenInv == TypeOK /\ LockHeld /\ DbSound /\ \A p \in Procs : Fits(p)

-----------------------------------------------------------------------------
(* The schema.                                                             *)
LEMMA SchemaColumns ==
    \A t \in Tables : /\ Columns(t) # {}
                      /\ Columns(t) \subseteq Names
BY DEF Tables, Columns, Names

LEMMA LatestColumns == /\ OfVersion(CodeVersion) = [t \in Tables |-> Columns(t)]
                       /\ OfVersion(CodeVersion) \in [Tables -> SUBSET Names]
<1>1. \A c : VersionOf(c) <= CodeVersion
  BY DEF VersionOf, CodeVersion
<1>2. \A t \in Tables : {c \in Columns(t) : VersionOf(c) <= CodeVersion} = Columns(t)
  BY <1>1
<1>3. OfVersion(CodeVersion) = [t \in Tables |-> Columns(t)]
  BY <1>2 DEF OfVersion
<1> QED BY <1>3, SchemaColumns

LEMMA LatestIsWhole ==
    ASSUME NEW d \in Db, d.tables = OfVersion(CodeVersion)
    PROVE  Whole(d) /\ \A t \in Tables : HasTable(d, t)
BY LatestColumns, SchemaColumns DEF Whole, HasTable

(* Only the process that has the lock is past taking it.                   *)
LEMMA OnlyOwner ==
    ASSUME LockHeld, NEW p \in Procs, pc[p] \in Owning
    PROVE  lock = p /\ \A q \in Procs \ {p} : pc[q] \notin Owning
BY DEF LockHeld

(* The steps that leave the database alone leave everything else that the  *)
(* other processes rely on alone.                                          *)
LEMMA SameDatabase ==
    ASSUME OpenInv, NEW p \in Procs, TypeOK', db' = db,
           \A q \in Procs \ {p} :
               /\ pc'[q] = pc[q] /\ user'[q] = user[q] /\ command'[q] = command[q],
           Fits(p)', lock' = lock \/ lock = p \/ lock = None,
           pc'[p] \in Owning => lock' = p,
           \A q \in Procs \ {p} : pc[q] \in Owning => lock # p /\ lock # None
    PROVE  OpenInv'
<1>1. LockHeld'
  BY DEF OpenInv, LockHeld
<1>2. \A q \in Procs : Fits(q)'
  BY DEF OpenInv, Fits
<1> QED BY <1>1, <1>2 DEF OpenInv, DbSound

(* A step of the owner that changes the database.                          *)
LEMMA OwnDatabase ==
    ASSUME OpenInv, NEW p \in Procs, pc[p] \in Owning, TypeOK', db' # None, Sound(db'),
           \A q \in Procs \ {p} :
               /\ pc'[q] = pc[q] /\ user'[q] = user[q] /\ command'[q] = command[q],
           Fits(p)', pc'[p] \in Owning => lock' = p
    PROVE  OpenInv'
<1>1. \A q \in Procs \ {p} : pc[q] \notin Owning
  BY OnlyOwner DEF OpenInv
<1>2. LockHeld'
  BY <1>1 DEF OpenInv, LockHeld
<1>3. \A q \in Procs \ {p} : Fits(q)'
  BY <1>1 DEF OpenInv, Fits, Owning
<1> QED BY <1>2, <1>3 DEF OpenInv, DbSound

LEMMA InitInv == Init => OpenInv
<1> SUFFICES ASSUME Init PROVE OpenInv
  OBVIOUS
<1>1. db \in Db \cup {None} /\ DbSound
  BY InitialDbsAssumption DEF Init, DbSound
<1>2. TypeOK
  BY <1>1, BoundsAssumption DEF Init, TypeOK, Steps, Users, Commands
<1>3. LockHeld /\ \A p \in Procs : Fits(p)
  BY DEF Init, LockHeld, Fits, Owning
<1> QED BY <1>1, <1>2, <1>3 DEF OpenInv
-----------------------------------------------------------------------------
LEMMA StartInv == ASSUME OpenInv, NEW p \in Procs, Start(p) PROVE OpenInv'
<1>1. TypeOK'
  <2>1. PICK u \in Users, c \in Commands :
           /\ user' = [user EXCEPT ![p] = u]
           /\ command' = [command EXCEPT ![p] = c]
           /\ \/ outcome' = [outcome EXCEPT ![p] = "error"] /\ pc' = pc
              \/ /\ outcome' = [outcome EXCEPT ![p] = "none"]
                 /\ pc' = [pc EXCEPT ![p] = IF Writes(c) THEN "storage" ELSE "stat"]
    BY DEF Start, Goto
  <2>2. user' \in [Procs -> Users] /\ command' \in [Procs -> Commands]
    BY <2>1 DEF OpenInv, TypeOK
  <2>3. /\ outcome' \in [Procs -> {"none", "ok", "no depot", "error", "aborted"}]
        /\ pc' \in [Procs -> Steps]
    BY <2>1 DEF OpenInv, TypeOK, Steps
  <2>4. budget' \in [starts : 0..MaxStarts, crashes : 0..MaxCrashes]
    <3>1. /\ budget \in [starts : 0..MaxStarts, crashes : 0..MaxCrashes]
          /\ budget.starts > 0 /\ budget' = [budget EXCEPT !.starts = @ - 1]
      BY DEF OpenInv, TypeOK, Start
    <3>2. budget.starts - 1 \in 0..MaxStarts
      BY <3>1, BoundsAssumption
    <3> QED BY <3>1, <3>2
  <2> QED BY <2>2, <2>3, <2>4 DEF OpenInv, TypeOK, Start
<1>2. Fits(p)'
  BY DEF OpenInv, TypeOK, Start, At, Goto, Fits, Writes
<1>3. \A q \in Procs \ {p} :
          pc'[q] = pc[q] /\ user'[q] = user[q] /\ command'[q] = command[q]
  BY DEF OpenInv, TypeOK, Start, Goto
<1>4. pc'[p] \notin Owning /\ db' = db /\ lock' = lock
  BY DEF OpenInv, TypeOK, Start, At, Goto, Owning
<1> QED BY <1>1, <1>2, <1>3, <1>4, NoneAssumption, SameDatabase DEF OpenInv, LockHeld, Start, At, Owning

LEMMA CreateStorageInv == ASSUME OpenInv, NEW p \in Procs, CreateStorage(p) PROVE OpenInv'
<1>1. TypeOK'
  BY DEF OpenInv, TypeOK, CreateStorage, Keep, Goto, Steps, Owning
<1>2. Fits(p)' /\ pc'[p] \notin Owning
  BY DEF OpenInv, TypeOK, CreateStorage, At, Keep, Goto, Fits, Owning
<1>3. \A q \in Procs \ {p} :
          pc'[q] = pc[q] /\ user'[q] = user[q] /\ command'[q] = command[q]
  BY DEF OpenInv, TypeOK, CreateStorage, Keep, Goto
<1> QED BY <1>1, <1>2, <1>3, NoneAssumption, SameDatabase
        DEF OpenInv, LockHeld, CreateStorage, At, Owning

LEMMA StatDatabaseInv == ASSUME OpenInv, NEW p \in Procs, StatDatabase(p) PROVE OpenInv'
<1>1. TypeOK'
  BY DEF OpenInv, TypeOK, StatDatabase, Keep, End, Released, Goto, Steps, Owning
<1>2. Fits(p)' /\ pc'[p] \notin Owning
  BY DEF OpenInv, TypeOK, StatDatabase, At, Keep, End, Goto, Fits, Owning
<1>3. \A q \in Procs \ {p} :
          pc'[q] = pc[q] /\ user'[q] = user[q] /\ command'[q] = command[q]
  BY DEF OpenInv, TypeOK, StatDatabase, Keep, End, Goto
<1>4. \A q \in Procs \ {p} : pc[q] \in Owning => lock # p /\ lock # None
  BY NoneAssumption DEF OpenInv, LockHeld
<1> QED BY <1>1, <1>2, <1>3, <1>4, SameDatabase
        DEF StatDatabase, Keep, End, Released

LEMMA LockInv == ASSUME OpenInv, NEW p \in Procs, Lock(p) PROVE OpenInv'
<1>1. TypeOK'
  BY DEF OpenInv, TypeOK, Lock, Keep, Goto, Steps, Owning
<1>2. Fits(p)'
  BY DEF OpenInv, TypeOK, Lock, At, Keep, Goto, Fits
<1>3. \A q \in Procs \ {p} :
          pc'[q] = pc[q] /\ user'[q] = user[q] /\ command'[q] = command[q]
  BY DEF OpenInv, TypeOK, Lock, Keep, Goto
<1>4. \A q \in Procs \ {p} : pc[q] \notin Owning
  BY NoneAssumption DEF OpenInv, LockHeld, Lock
<1>5. LockHeld'
  BY <1>3, <1>4 DEF LockHeld, Lock
<1>6. \A q \in Procs : Fits(q)'
  BY <1>2, <1>3 DEF OpenInv, Fits, Lock
<1> QED BY <1>1, <1>5, <1>6 DEF OpenInv, DbSound, Lock

LEMMA ConnectInv == ASSUME OpenInv, NEW p \in Procs, Connect(p) PROVE OpenInv'
<1>1. EmptyFile \in Db /\ Sound(EmptyFile)
  BY NoneAssumption DEF EmptyFile, Db, Sound, HasTable, CodeVersion, Versions
<1>2. TypeOK'
  BY <1>1 DEF OpenInv, TypeOK, Connect, Keep, Goto, Steps, Owning
<1>3. \A q \in Procs \ {p} :
          pc'[q] = pc[q] /\ user'[q] = user[q] /\ command'[q] = command[q]
  BY DEF OpenInv, TypeOK, Connect, Keep, Goto
<1>4. pc[p] \in Owning /\ lock = p /\ lock' = p
  BY DEF OpenInv, LockHeld, Connect, At, Owning
<1>5. Fits(p)'
  <2>1. CASE db = None
    <3>1. user[p] = "root"
      BY <2>1 DEF OpenInv, Fits, Connect, At
    <3>2. db' # None /\ db'.version = None /\ \A t \in Tables : db'.tables[t] = {}
      BY <1>1, <2>1, NoneAssumption DEF Connect, EmptyFile
    <3> QED BY <2>1, <3>1, <3>2 DEF OpenInv, TypeOK, Connect, Keep, Goto, Fits
  <2>2. CASE db # None
    BY <2>2 DEF OpenInv, TypeOK, Connect, At, Keep, Goto, Fits
  <2> QED BY <2>1, <2>2
<1>6. db' # None /\ Sound(db')
  BY <1>1, NoneAssumption DEF OpenInv, DbSound, Connect
<1> QED BY <1>2, <1>3, <1>4, <1>5, <1>6, OwnDatabase

LEMMA CreateTableInv == ASSUME OpenInv, NEW p \in Procs, CreateTable(p) PROVE OpenInv'
<1> DEFINE t == NextTable
<1>1. /\ db \in Db /\ db # None /\ db.version = None /\ user[p] = "root"
      /\ \A u \in Tables : db.tables[u] \in {{}, Columns(u)}
  BY DEF OpenInv, TypeOK, Fits, CreateTable, At
<1>2. t \in Tables
  BY DEF NextTable, Tables
<1>3. db' = [db EXCEPT !.tables = [db.tables EXCEPT ![t] = Columns(t)]]
  BY <1>1 DEF CreateTable
<1>4. db' \in Db /\ db'.version = None /\ db'.tables = [db.tables EXCEPT ![t] = Columns(t)]
  BY <1>1, <1>2, <1>3, SchemaColumns DEF Db
<1>5. db'.tables["database_information"] # {}
  <2>1. db.tables \in [Tables -> SUBSET Names]
    BY <1>1 DEF Db
  <2>2. CASE HasTable(db, "database_information")
    BY <1>2, <1>4, <2>1, <2>2, SchemaColumns DEF HasTable
  <2>3. CASE ~HasTable(db, "database_information")
    <3>1. t = "database_information"
      BY <2>3 DEF NextTable
    <3> QED BY <1>2, <1>4, <2>1, <3>1, SchemaColumns
  <2> QED BY <2>2, <2>3
<1> HIDE DEF t
<1>6. Sound(db')
  BY <1>4, <1>5, NoneAssumption DEF Sound, HasTable, CodeVersion, Versions
<1>7. TypeOK'
  BY <1>4 DEF OpenInv, TypeOK, CreateTable
<1>8. Fits(p)'
  <2>1. \A u \in Tables : db'.tables[u] \in {{}, Columns(u)}
    BY <1>1, <1>2, <1>4 DEF Db
  <2>2. db' # None
    BY <1>4, NoneAssumption
  <2> QED BY <1>1, <1>4, <2>1, <2>2 DEF OpenInv, Fits, CreateTable, At
<1> QED BY <1>4, <1>6, <1>7, <1>8, OwnDatabase, NoneAssumption
        DEF OpenInv, LockHeld, CreateTable, At, Owning

LEMMA InitialDataInv == ASSUME OpenInv, NEW p \in Procs, InitialData(p) PROVE OpenInv'
<1>1. /\ db \in Db /\ db # None /\ db.version = None /\ user[p] = "root"
      /\ \A t \in Tables : db.tables[t] = Columns(t)
  BY DEF OpenInv, TypeOK, Fits, InitialData, At, HasTable
<1>2. db.tables = OfVersion(CodeVersion)
  BY <1>1, LatestColumns DEF Db
<1>3. db' \in Db /\ db'.version = 0 /\ db'.tables = OfVersion(CodeVersion)
  BY <1>1, <1>2 DEF InitialData, Db, Versions, CodeVersion
<1>4. Sound(db')
  BY <1>3, LatestIsWhole DEF Sound, Tables
<1>5. TypeOK'
  BY <1>3 DEF OpenInv, TypeOK, InitialData, Keep, Goto, Steps, Owning
<1>6. Fits(p)'
  BY <1>1, <1>3, NoneAssumption DEF OpenInv, TypeOK, Fits, InitialData, Keep, Goto
<1>7. \A q \in Procs \ {p} :
          pc'[q] = pc[q] /\ user'[q] = user[q] /\ command'[q] = command[q]
  BY DEF OpenInv, TypeOK, InitialData, Keep, Goto
<1> QED BY <1>3, <1>4, <1>5, <1>6, <1>7, OwnDatabase, NoneAssumption
        DEF OpenInv, LockHeld, InitialData, At, Owning

(* A process that gives up, or goes on, without a word to the database.    *)
LEMMA GiveUp ==
    ASSUME OpenInv, NEW p \in Procs, pc[p] \in Owning, db' = db, storage' = storage,
           NEW how \in {"ok", "error", "aborted"}, End(p, how)
    PROVE  OpenInv'
<1>1. TypeOK'
  BY DEF OpenInv, TypeOK, End, Released, Goto, Steps
<1>2. Fits(p)' /\ pc'[p] \notin Owning
  BY DEF OpenInv, TypeOK, End, Goto, Fits, Owning
<1>3. \A q \in Procs \ {p} :
          pc'[q] = pc[q] /\ user'[q] = user[q] /\ command'[q] = command[q]
  BY DEF OpenInv, TypeOK, End, Goto
<1>4. lock = p /\ \A q \in Procs \ {p} : pc[q] \notin Owning
  BY OnlyOwner DEF OpenInv
<1> QED BY <1>1, <1>2, <1>3, <1>4, SameDatabase

LEMMA CurrentInv == ASSUME OpenInv, NEW p \in Procs, Current(p) PROVE OpenInv'
<1>1. db # None /\ db.version = CodeVersion
  BY DEF OpenInv, Fits, Current, At, SchemaVersion, CodeVersion
<1>2. db.tables = OfVersion(CodeVersion)
  BY <1>1 DEF OpenInv, DbSound, Sound
<1>3. TypeOK'
  BY DEF OpenInv, TypeOK, Current, Keep, Goto, Steps, Owning
<1>4. Fits(p)'
  BY <1>1, <1>2 DEF OpenInv, TypeOK, Fits, Current, At, Keep, Goto
<1>5. \A q \in Procs \ {p} :
          pc'[q] = pc[q] /\ user'[q] = user[q] /\ command'[q] = command[q]
  BY DEF OpenInv, TypeOK, Current, Keep, Goto
<1>6. lock = p /\ \A q \in Procs \ {p} : pc[q] \notin Owning
  BY OnlyOwner DEF OpenInv, Current, At, Owning
<1> QED BY <1>3, <1>4, <1>5, <1>6, SameDatabase DEF Current

(* What an upgrade makes of a database: it has the columns of this version.*)
LEMMA UpgradedSchema ==
    ASSUME NEW p \in Procs, OpenInv, Upgrade(p)
    PROVE  /\ db \in Db /\ db # None /\ db.version \in {None, 0}
           /\ UpgradedTables = OfVersion(CodeVersion)
           /\ \A t \in Tables : db.tables[t] \subseteq Columns(t)
<1>1. db \in Db /\ db # None /\ Sound(db) /\ ~UpgradeFails /\ SchemaVersion < CodeVersion
  BY DEF OpenInv, TypeOK, DbSound, Fits, Upgrade, NeedsUpgrade, At
<1>2. db.version \in {None, 0} /\ SchemaVersion = 0
  BY <1>1, NoneAssumption DEF Db, Sound, SchemaVersion, CodeVersion, Versions
<1>3. ~HasTable(db, "database_information")
  BY <1>1, <1>2 DEF UpgradeFails
<1>4. "osbuild" \in NewColumns("archives")
  BY <1>2 DEF NewColumns, Columns, VersionOf
<1>5. HasTable(db, "archives")
  BY <1>1, <1>4 DEF UpgradeFails, Tables
<1>6. db.tables = [OfVersion(0) EXCEPT !["database_information"] = {}]
  BY <1>1, <1>3, <1>5 DEF Sound, HasTable, EmptyFile, Tables
<1>7. \A t \in Tables : t # "database_information" =>
          db.tables[t] = {c \in Columns(t) : VersionOf(c) <= 0}
  BY <1>6 DEF OfVersion
<1>8. \A t \in Tables : t # "database_information" => UpgradedTables[t] = Columns(t)
  <2>1. \A c : VersionOf(c) \in {0, 1}
    BY DEF VersionOf
  <2> QED BY <1>2, <1>7, <2>1 DEF UpgradedTables, NewColumns
<1>9. UpgradedTables["database_information"] = Columns("database_information")
      /\ db.tables["database_information"] = {}
  <2>1. db.tables["database_information"] = {}
    BY <1>3 DEF HasTable
  <2> QED BY <2>1 DEF UpgradedTables, NewColumns, Tables
<1>10. UpgradedTables = [t \in Tables |-> Columns(t)]
  <2>1. \A t \in Tables : UpgradedTables[t] = Columns(t)
    BY <1>8, <1>9
  <2> QED BY <2>1 DEF UpgradedTables
<1> QED BY <1>1, <1>2, <1>7, <1>9, <1>10, LatestColumns

LEMMA UpgradeInv == ASSUME OpenInv, NEW p \in Procs, Upgrade(p) PROVE OpenInv'
<1>1. /\ db \in Db /\ db.version \in {None, 0} /\ UpgradedTables = OfVersion(CodeVersion)
      /\ db' = [db EXCEPT !.tables = OfVersion(CodeVersion)]
  BY UpgradedSchema DEF Upgrade
<1>2. /\ db' \in Db /\ db' # None /\ db'.version \in {None, 0}
      /\ db'.tables = OfVersion(CodeVersion)
  BY <1>1, LatestColumns, NoneAssumption DEF Db
<1>3. Sound(db')
  BY <1>2, LatestIsWhole, NoneAssumption DEF Sound, Tables, CodeVersion, Versions
<1>4. TypeOK'
  BY <1>2 DEF OpenInv, TypeOK, Upgrade, Keep, Goto, Steps, Owning
<1>5. Fits(p)'
  BY <1>2 DEF OpenInv, TypeOK, Fits, Upgrade, NeedsUpgrade, Keep, Goto
<1>6. \A q \in Procs \ {p} :
          pc'[q] = pc[q] /\ user'[q] = user[q] /\ command'[q] = command[q]
  BY DEF OpenInv, TypeOK, Upgrade, Keep, Goto
<1> QED BY <1>2, <1>3, <1>4, <1>5, <1>6, OwnDatabase
        DEF OpenInv, LockHeld, Upgrade, NeedsUpgrade, At, Owning

LEMMA SetSchemaVersionInv == ASSUME OpenInv, NEW p \in Procs, SetSchemaVersion(p) PROVE OpenInv'
<1>1. db \in Db /\ db.tables = OfVersion(CodeVersion)
  BY DEF OpenInv, TypeOK, Fits, SetSchemaVersion, At
<1>2. /\ db' \in Db /\ db' # None /\ db'.version = CodeVersion
      /\ db'.tables = OfVersion(CodeVersion)
  BY <1>1, NoneAssumption DEF SetSchemaVersion, Db, Versions, CodeVersion
<1>3. Sound(db')
  BY <1>2, LatestIsWhole DEF Sound, Tables
<1>4. TypeOK'
  BY <1>2 DEF OpenInv, TypeOK, SetSchemaVersion, Keep, Goto, Steps, Owning
<1>5. Fits(p)'
  BY <1>2 DEF OpenInv, TypeOK, Fits, SetSchemaVersion, At, Keep, Goto
<1>6. \A q \in Procs \ {p} :
          pc'[q] = pc[q] /\ user'[q] = user[q] /\ command'[q] = command[q]
  BY DEF OpenInv, TypeOK, SetSchemaVersion, Keep, Goto
<1> QED BY <1>2, <1>3, <1>4, <1>5, <1>6, OwnDatabase
        DEF OpenInv, LockHeld, SetSchemaVersion, At, Owning

LEMMA CommandInv == ASSUME OpenInv, NEW p \in Procs, Command(p) PROVE OpenInv'
<1>1. CASE db' = db
  BY <1>1, GiveUp DEF Command, At, Owning
<1>2. ASSUME NEW r \in Rows, db' = [db EXCEPT !.rows = @ \cup {r}] PROVE OpenInv'
  <2>1. db \in Db /\ db # None /\ Sound(db)
    BY DEF OpenInv, TypeOK, DbSound, Fits, Command, At
  <2>2. db' \in Db /\ db' # None /\ db'.version = db.version /\ db'.tables = db.tables
    BY <1>2, <2>1, NoneAssumption DEF Db
  <2>3. Sound(db')
    BY <2>1, <2>2 DEF Sound, HasTable
  <2>4. TypeOK'
    BY <2>2 DEF OpenInv, TypeOK, Command, End, Released, Goto, Steps
  <2>5. Fits(p)' /\ pc'[p] \notin Owning
    BY DEF OpenInv, TypeOK, Command, End, Goto, Fits, Owning
  <2>6. \A q \in Procs \ {p} :
            pc'[q] = pc[q] /\ user'[q] = user[q] /\ command'[q] = command[q]
    BY DEF OpenInv, TypeOK, Command, End, Goto
  <2> QED BY <2>2, <2>3, <2>4, <2>5, <2>6, OwnDatabase DEF Command, At, Owning
<1> QED BY <1>1, <1>2 DEF Command

LEMMA DieInv == ASSUME OpenInv, NEW p \in Procs, Die(p) PROVE OpenInv'
<1>1. TypeOK'
  <2>1. budget' \in [starts : 0..MaxStarts, crashes : 0..MaxCrashes]
    <3>1. /\ budget \in [starts : 0..MaxStarts, crashes : 0..MaxCrashes]
          /\ budget.crashes > 0 /\ budget' = [budget EXCEPT !.crashes = @ - 1]
      BY DEF OpenInv, TypeOK, Die
    <3>2. budget.crashes - 1 \in 0..MaxCrashes
      BY <3>1, BoundsAssumption
    <3> QED BY <3>1, <3>2
  <2> QED BY <2>1 DEF OpenInv, TypeOK, Die, Released, Goto, Steps
<1>2. Fits(p)' /\ pc'[p] \notin Owning
  BY DEF OpenInv, TypeOK, Die, Goto, Fits, Owning
<1>3. \A q \in Procs \ {p} :
          pc'[q] = pc[q] /\ user'[q] = user[q] /\ command'[q] = command[q]
  BY DEF OpenInv, TypeOK, Die, Goto
<1>4. \A q \in Procs \ {p} : pc[q] \in Owning => lock # p /\ lock # None
  BY NoneAssumption DEF OpenInv, LockHeld
<1> QED BY <1>1, <1>2, <1>3, <1>4, SameDatabase DEF Die, Released
-----------------------------------------------------------------------------
LEMMA NextInv == OpenInv /\ [Next]_vars => OpenInv'
<1> SUFFICES ASSUME OpenInv, [Next]_vars PROVE OpenInv'
  OBVIOUS
<1>1. ASSUME NEW p \in Procs, Start(p) \/ Step(p) \/ Die(p) PROVE OpenInv'
  <2>1. CASE TooOld(p) \/ ReadOnly(p) \/ UpgradeAborts(p)
    BY <2>1, GiveUp DEF TooOld, ReadOnly, UpgradeAborts, NeedsUpgrade, At, Owning
  <2> QED BY <1>1, <2>1, StartInv, CreateStorageInv, StatDatabaseInv, LockInv, ConnectInv,
             CreateTableInv, InitialDataInv, CurrentInv, UpgradeInv, SetSchemaVersionInv,
             CommandInv, DieInv DEF Step
<1>2. CASE UNCHANGED vars
  BY <1>2 DEF vars, OpenInv, TypeOK, LockHeld, DbSound, Fits
<1> QED BY <1>1, <1>2 DEF Next

(* Whoever starts, waits and dies: a process that has the lock finds the   *)
(* database as its last step left it.                                      *)
THEOREM OpenInvariant == Spec => []OpenInv
BY InitInv, NextInv, PTL DEF Spec

(* A command runs alone, on a database with every table and column of this *)
(* version, however many processes there are and whatever was there before *)
(* (Depot.cpp:190-195, Database.cpp:155-186).                              *)
THEOREM ReadyOnCurrent == Spec => []ReadyIsCurrent
<1>1. OpenInv => ReadyIsCurrent
  <2> SUFFICES ASSUME OpenInv, NEW p \in Procs, At(p, "ready")
               PROVE  /\ db # None /\ Whole(db) /\ db.version = CodeVersion
                      /\ \A q \in Procs : pc[q] \in Owning => q = p
    BY DEF ReadyIsCurrent
  <2>1. db \in Db /\ db # None /\ db.version = CodeVersion /\ db.tables = OfVersion(CodeVersion)
    BY DEF OpenInv, TypeOK, Fits, At
  <2>2. Whole(db)
    BY <2>1, LatestIsWhole
  <2>3. \A q \in Procs : pc[q] \in Owning => q = p
    BY OnlyOwner DEF OpenInv, At, Owning
  <2> QED BY <2>1, <2>2, <2>3
<1> QED BY <1>1, OpenInvariant, PTL

(* Opening the depot loses no archive, no column and no version, and only  *)
(* root changes anything (Database.cpp:166-185).                           *)
THEOREM OpeningLosesNothing == Spec => NothingLost
<1> DEFINE Kept == /\ db' # None
                   /\ db.rows \subseteq db'.rows
                   /\ \A t \in Tables : db.tables[t] \subseteq db'.tables[t]
                   /\ db.version # None => db'.version # None /\ db'.version >= db.version
                   /\ db.version = CodeVersion + 1 => db' = db
                   /\ db' # db => lock # None /\ user[lock] = "root"
<1>1. ASSUME OpenInv, [Next]_vars, db # None PROVE Kept
  <2>1. db \in Db
    BY <1>1 DEF OpenInv, TypeOK
  <2>2. CASE db' = db
    BY <1>1, <2>1, <2>2 DEF Db, Versions
  <2>3. ASSUME NEW p \in Procs,
               CreateTable(p) \/ InitialData(p) \/ Upgrade(p) \/ SetSchemaVersion(p) \/ Command(p),
               db' # db
        PROVE  Kept
    <3>1. lock = p /\ p # None /\ pc[p] \in Owning
      BY <1>1, <2>3, NoneAssumption
         DEF OpenInv, LockHeld, Owning, At, CreateTable, InitialData, Upgrade, NeedsUpgrade,
             SetSchemaVersion, Command
    <3>2. CASE CreateTable(p)
      <4>1. user[p] = "root" /\ db.version = None
        BY <1>1, <3>2 DEF OpenInv, Fits, CreateTable, At
      <4>2. db.tables[NextTable] = {} /\ NextTable \in Tables
        <5>1. \E t \in Tables : ~HasTable(db, t)
          BY <3>2 DEF CreateTable
        <5> QED BY <5>1 DEF NextTable, HasTable, Tables
      <4>3. /\ db'.rows = db.rows /\ db'.version = None
            /\ db'.tables = [db.tables EXCEPT ![NextTable] = Columns(NextTable)]
        BY <2>1, <3>2, <4>1 DEF CreateTable, Db
      <4>4. db' # None
        BY <1>1, <3>2, CreateTableInv, <2>1, <4>2, SchemaColumns, NoneAssumption DEF CreateTable, Db
      <4>5. \A t \in Tables : db.tables[t] \subseteq db'.tables[t]
        BY <2>1, <4>2, <4>3 DEF Db
      <4> QED BY <3>1, <4>1, <4>3, <4>4, <4>5, NoneAssumption DEF Versions, CodeVersion
    <3>3. CASE InitialData(p)
      <4>1. user[p] = "root" /\ db.version = None
        BY <1>1, <3>3 DEF OpenInv, Fits, InitialData, At
      <4>2. db' \in Db /\ db'.rows = db.rows /\ db'.tables = db.tables
        BY <2>1, <3>3 DEF InitialData, Db, Versions, CodeVersion
      <4> QED BY <3>1, <4>1, <4>2, NoneAssumption DEF Versions, CodeVersion
    <3>4. CASE Upgrade(p)
      <4>1. user[p] = "root"
        BY <3>4 DEF Upgrade, NeedsUpgrade
      <4>2. /\ db.version \in {None, 0} /\ UpgradedTables = OfVersion(CodeVersion)
            /\ \A t \in Tables : db.tables[t] \subseteq Columns(t)
        BY <1>1, <3>4, UpgradedSchema
      <4>3. /\ db' \in Db /\ db'.rows = db.rows /\ db'.version = db.version
            /\ db'.tables = OfVersion(CodeVersion)
        BY <2>1, <3>4, <4>2, LatestColumns DEF Upgrade, Db
      <4> QED BY <3>1, <4>1, <4>2, <4>3, LatestColumns, NoneAssumption DEF Versions, CodeVersion
    <3>5. CASE SetSchemaVersion(p)
      <4>1. user[p] = "root" /\ db.version \in {None, 0}
        BY <1>1, <3>5 DEF OpenInv, Fits, SetSchemaVersion, At
      <4>2. /\ db' \in Db /\ db'.rows = db.rows /\ db'.tables = db.tables
            /\ db'.version = CodeVersion
        BY <2>1, <3>5 DEF SetSchemaVersion, Db, Versions, CodeVersion
      <4> QED BY <3>1, <4>1, <4>2, NoneAssumption DEF Versions, CodeVersion
    <3>6. CASE Command(p)
      <4>1. db.version = CodeVersion
        BY <1>1, <3>6 DEF OpenInv, Fits, Command, At
      <4>2. Writes(command[p]) /\ user[p] = "root"
        BY <1>1, <2>3, <3>6 DEF OpenInv, Fits, Command, At
      <4>3. PICK r \in Rows : db' = [db EXCEPT !.rows = @ \cup {r}]
        BY <3>6, <4>2 DEF Command
      <4>4. /\ db' \in Db /\ db.rows \subseteq db'.rows /\ db'.tables = db.tables
            /\ db'.version = db.version
        BY <2>1, <4>3 DEF Db
      <4> QED BY <3>1, <4>1, <4>2, <4>4, NoneAssumption DEF Versions, CodeVersion
    <3> QED BY <2>3, <3>2, <3>3, <3>4, <3>5, <3>6
  <2>4. ASSUME db' # db
        PROVE  \E p \in Procs : \/ CreateTable(p) \/ InitialData(p) \/ Upgrade(p)
                                \/ SetSchemaVersion(p) \/ Command(p)
    <3>1. PICK p \in Procs : Start(p) \/ Step(p) \/ Die(p)
      BY <1>1, <2>4 DEF Next, vars
    <3>2. ~(Start(p) \/ Die(p) \/ CreateStorage(p) \/ StatDatabase(p) \/ Lock(p) \/ Connect(p)
            \/ TooOld(p) \/ Current(p) \/ ReadOnly(p) \/ UpgradeAborts(p))
      BY <1>1, <2>4 DEF Start, Die, CreateStorage, StatDatabase, Lock, Connect, TooOld, Current,
                        ReadOnly, UpgradeAborts
    <3> QED BY <3>1, <3>2 DEF Step
  <2> QED BY <2>2, <2>3, <2>4
<1>2. OpenInv /\ [Next]_vars => [db # None => Kept]_vars
  BY <1>1
<1> QED BY <1>2, OpenInvariant, PTL DEF Spec, NothingLost
=============================================================================
