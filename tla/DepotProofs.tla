---------------------------- MODULE DepotProofs -----------------------------
(***************************************************************************)
(* The proof that DepotInv is an invariant of the depot, for every value   *)
(* of the constants, and what follows from it: type correctness, that no   *)
(* row outlives its archive, and that every row of a root is preceded by   *)
(* another.  One lemma per action; each shows the type invariant, the      *)
(* shape of the command and the four parts about the database.             *)
(***************************************************************************)
EXTENDS Depot, WellFoundedInduction, TLAPS

(* A set of natural numbers that is bounded and not empty has a maximum,   *)
(* which the Max of the community modules chooses.                         *)
LEMMA MaxExists ==
    ASSUME NEW n \in Nat, NEW S \in SUBSET (0..n), S # {}
    PROVE  /\ Max(S) \in S
           /\ \A y \in S : Max(S) >= y
<1> DEFINE T == {n - x : x \in S}
<1>1. T \subseteq Nat /\ T # {}
  <2>1. \A x \in S : n - x \in Nat
    OBVIOUS
  <2> QED
    BY <2>1
<1> HIDE DEF T
<1>2. PICK m \in T : \A y \in T : ~(<<y, m>> \in OpToRel(<, Nat))
    BY <1>1, NatLessThanWellFounded, WFMin, Zenon
<1>3. \A y \in T : m <= y
  <2>1. ASSUME NEW y \in T, y < m PROVE FALSE
    <3>1. /\ <<y, m>> \in Nat \X Nat
          /\ <<y, m>>[1] < <<y, m>>[2]
        BY <1>1, <1>2, <2>1
    <3> QED
        BY <1>2, <3>1, Zenon DEF OpToRel
  <2>2. m \in Nat /\ \A y \in T : y \in Nat /\ ~(y < m)
    BY <1>1, <1>2, <2>1
  <2> QED
    BY <2>2
<1>4. PICK x \in S : m = n - x
    BY <1>2 DEF T
<1>5. \A y \in S : n - y \in T
    BY DEF T
<1>6. \A y \in S : x >= y
    BY <1>3, <1>4, <1>5
<1> QED
    BY <1>6 DEF Max

(* DarwinupDatabase::get_next_file returns a row of an earlier archive.    *)
LEMMA PrecedingIsRow ==
    ASSUME TypeOK, NEW s \in Serials, NEW p \in Paths, IsPreceded(files, s, p)
    PROVE  LET t == Preceding(files, s, p)
           IN  t \in Serials /\ t < s /\ files[t][p] # None /\ files[t][p] \in FileRow
<1> DEFINE B == Below(files, s, p)
<1>1. B \in SUBSET (0..MaxSerial) /\ B # {}
    BY MaxSerialAssumption DEF Below, IsPreceded, Serials
<1>2. Max(B) \in B
    BY <1>1, MaxExists, MaxSerialAssumption
<1> QED
    BY <1>2 DEF Preceding, Below, TypeOK, FileTab

(* A step that writes no row and adds or removes no archive keeps what the *)
(* invariant says of the database, if it notes no base row for deletion.   *)
LEMMA RowsFrame ==
    ASSUME DepotInv, files' = files, nextSerial' = nextSerial,
           \A s \in Serials, p \in Paths :
               <<s, p>> \in toRemove' => ~IsBase(s, p),
           \A s \in Serials :
               /\ archives'[s] = None <=> archives[s] = None
               /\ archives[s] # None =>
                      archives'[s].rollback = archives[s].rollback
    PROVE  RowsHaveArchive' /\ RowShape' /\ FreshSerials' /\ OnBase'
<1>1. \A s \in Serials : PathsOf(files', s) = PathsOf(files, s)
    BY DEF PathsOf
<1>2. RowsHaveArchive'
    BY <1>1 DEF DepotInv, RowsHaveArchive
<1>3. RowShape'
    BY <1>1 DEF DepotInv, RowsHaveArchive, RowShape
<1>4. FreshSerials'
    BY <1>1 DEF DepotInv, FreshSerials
<1>5. OnBase'
    BY <1>1 DEF DepotInv, OnBase, IsBase
<1> QED
    BY <1>2, <1>3, <1>4, <1>5

(* A step that leaves the database alone keeps what is said of it.         *)
LEMMA DbFrame ==
    ASSUME DepotInv, UNCHANGED db, toRemove' \subseteq toRemove
    PROVE  RowsHaveArchive' /\ RowShape' /\ FreshSerials' /\ OnBase'
    BY RowsFrame DEF db, DepotInv, OnBase

(* The invariant holds of an empty depot.                                  *)
LEMMA InitInv == Init => DepotInv
<1> SUFFICES ASSUME Init PROVE DepotInv
    OBVIOUS
<1>1. \A s \in Serials : PathsOf(files, s) = {}
    BY DEF Init, PathsOf, NoFiles
<1>2. TypeOK
    BY InitialTreesAssumption, MaxSerialAssumption, BudgetAssumption
       DEF Init, TypeOK, NoFiles, FileTab, Steps, Serials, Unfinished
<1>3. CommandShape
    BY DEF Init, CommandShape
<1> QED
    BY <1>1, <1>2, <1>3 DEF Init, DepotInv, RowsHaveArchive, RowShape,
                            FreshSerials, OnBase

(* The directories a running installation works in are there.              *)
LEMMA InstallStores ==
    ASSUME DepotInv, pc \in {"compact", "backup", "install"}
    PROVE  /\ cur \in Serials /\ RollbackOf(cur) \in Serials
           /\ cur # RollbackOf(cur)
           /\ expanded[cur] \in Tree /\ expanded[RollbackOf(cur)] \in Tree
<1>1. cur \in Serials /\ RollbackOf(cur) \in Serials /\ cur # RollbackOf(cur)
    BY MaxSerialAssumption DEF DepotInv, TypeOK, CommandShape, Serials, RollbackOf
<1> QED
    BY <1>1 DEF DepotInv, TypeOK, CommandShape

(* A crash, a failure or an edit spends a budget that is left.             *)
LEMMA FaultType ==
    ASSUME DepotInv,
           \E kind \in {"edits", "crashes", "faults"} : Fault(kind)
    PROVE  budget' \in [edits : 0..MaxEdits, crashes : 0..MaxCrashes,
                        faults : 0..MaxFaults]
    BY BudgetAssumption DEF DepotInv, TypeOK, Fault

(* Packing the expanded archive keeps the invariant.                       *)
LEMMA CompactArchiveInv == DepotInv /\ CompactArchive => DepotInv'
<1> SUFFICES ASSUME DepotInv, CompactArchive PROVE DepotInv'
    OBVIOUS
<1>1. RowsHaveArchive' /\ RowShape' /\ FreshSerials' /\ OnBase'
    BY DbFrame DEF CompactArchive
<1>2. TypeOK'
    BY InstallStores DEF DepotInv, TypeOK, CompactArchive, Steps, PathsOf, db
<1>3. CommandShape'
    BY DEF DepotInv, CommandShape, CompactArchive, IsRoot, db, PathsOf
<1> QED
    BY <1>1, <1>2, <1>3 DEF DepotInv

(* So does a tar that fails on it.                                         *)
LEMMA CompactArchiveFailsInv == DepotInv /\ CompactArchiveFails => DepotInv'
<1> SUFFICES ASSUME DepotInv, CompactArchiveFails PROVE DepotInv'
    OBVIOUS
<1>1. RowsHaveArchive' /\ RowShape' /\ FreshSerials' /\ OnBase'
    BY DbFrame DEF CompactArchiveFails
<1>2. TypeOK'
  <2>1. budget' \in [edits : 0..MaxEdits, crashes : 0..MaxCrashes,
                     faults : 0..MaxFaults]
    BY FaultType DEF CompactArchiveFails
  <2> QED
    BY <2>1 DEF DepotInv, TypeOK, CompactArchiveFails, Steps, db
<1>3. CommandShape'
    BY DEF DepotInv, CommandShape, CompactArchiveFails, IsRoot, db, PathsOf
<1> QED
    BY <1>1, <1>2, <1>3 DEF DepotInv

(* Depot::backup_file keeps the invariant: the directory stays a tree.     *)
LEMMA BackupFileInv == DepotInv /\ BackupFile => DepotInv'
<1> SUFFICES ASSUME DepotInv, BackupFile PROVE DepotInv'
    OBVIOUS
<1>1. RowsHaveArchive' /\ RowShape' /\ FreshSerials' /\ OnBase'
    BY DbFrame DEF BackupFile
<1>2. TypeOK'
    BY InstallStores DEF DepotInv, TypeOK, BackupFile, Tree, db
<1>3. CommandShape'
    BY InstallStores, NoneAssumption
       DEF DepotInv, TypeOK, CommandShape, BackupFile, IsRoot, db, PathsOf, Tree
<1> QED
    BY <1>1, <1>2, <1>3 DEF DepotInv

(* The assertion that fails in Depot::backup_file ends the command.        *)
LEMMA BackupFileAbortsInv == DepotInv /\ BackupFileAborts => DepotInv'
<1> SUFFICES ASSUME DepotInv, BackupFileAborts PROVE DepotInv'
    OBVIOUS
<1>1. RowsHaveArchive' /\ RowShape' /\ FreshSerials' /\ OnBase'
    BY DbFrame DEF BackupFileAborts, Idle
<1>2. TypeOK'
  <2>1. budget' \in [edits : 0..MaxEdits, crashes : 0..MaxCrashes,
                     faults : 0..MaxFaults]
    BY FaultType DEF DepotInv, TypeOK, BackupFileAborts
  <2> QED
    BY <2>1, MaxSerialAssumption
       DEF DepotInv, TypeOK, BackupFileAborts, Steps, db, Idle, store
<1>3. CommandShape'
    BY DEF DepotInv, CommandShape, BackupFileAborts, IsRoot, db, PathsOf, Idle
<1> QED
    BY <1>1, <1>2, <1>3 DEF DepotInv

(* Packing the rollback archive keeps the invariant.                       *)
LEMMA CompactRollbackInv == DepotInv /\ CompactRollback => DepotInv'
<1> SUFFICES ASSUME DepotInv, CompactRollback PROVE DepotInv'
    OBVIOUS
<1>1. RowsHaveArchive' /\ RowShape' /\ FreshSerials' /\ OnBase'
    BY DbFrame DEF CompactRollback
<1>2. TypeOK'
    BY InstallStores DEF DepotInv, TypeOK, CompactRollback, Steps, PathsOf, db
<1>3. CommandShape'
    BY DEF DepotInv, CommandShape, CompactRollback, IsRoot, db, PathsOf
<1> QED
    BY <1>1, <1>2, <1>3 DEF DepotInv

(* So does a tar that fails on it.                                         *)
LEMMA CompactRollbackFailsInv == DepotInv /\ CompactRollbackFails => DepotInv'
<1> SUFFICES ASSUME DepotInv, CompactRollbackFails PROVE DepotInv'
    OBVIOUS
<1>1. RowsHaveArchive' /\ RowShape' /\ FreshSerials' /\ OnBase'
    BY DbFrame DEF CompactRollbackFails
<1>2. TypeOK'
  <2>1. budget' \in [edits : 0..MaxEdits, crashes : 0..MaxCrashes,
                     faults : 0..MaxFaults]
    BY FaultType DEF DepotInv, TypeOK, CompactRollbackFails
  <2> QED
    BY <2>1 DEF DepotInv, TypeOK, CompactRollbackFails, Steps, db
<1>3. CommandShape'
    BY DEF DepotInv, CommandShape, CompactRollbackFails, IsRoot, db, PathsOf
<1> QED
    BY <1>1, <1>2, <1>3 DEF DepotInv

(* File::install_info changes a file into a file.                          *)
LEMMA MetaType ==
    ASSUME fs \in Tree, NEW p \in Paths, fs[p] # Absent, NEW m \in Meta
    PROVE  [fs EXCEPT ![p].meta = m] \in Tree
    BY DEF Tree, Entry, Node

(* The rows of the archive a command works on describe files.              *)
LEMMA CurrentRow ==
    ASSUME DepotInv, pc \notin {"idle", "prune"}, NEW p \in PathsOf(files, cur)
    PROVE  /\ cur \in Serials /\ p \in Paths /\ IsRoot(cur)
           /\ files[cur][p] \in FileRow /\ files[cur][p].node \in Node
           /\ files[cur][p].flags \subseteq {"INSTALL_DATA"}
<1>1. cur \in Serials /\ p \in Paths /\ IsRoot(cur) /\ files[cur][p] # None
    BY DEF DepotInv, CommandShape, IsRoot, PathsOf
<1>2. files[cur][p] \in FileRow
    BY <1>1 DEF DepotInv, TypeOK, FileTab
<1> QED
    BY <1>1, <1>2 DEF DepotInv, RowShape, IsRoot, FileRow, Entry

(* Depot::install_file keeps the invariant, by rename or by chown.         *)
LEMMA InstallFileInv == DepotInv /\ InstallFile => DepotInv'
<1> SUFFICES ASSUME DepotInv, InstallFile PROVE DepotInv'
    OBVIOUS
<1>1. RowsHaveArchive' /\ RowShape' /\ FreshSerials' /\ OnBase'
    BY DbFrame DEF InstallFile
<1>2. TypeOK'
  <2>1. PICK p \in todo :
            IF "INSTALL_DATA" \in files[cur][p].flags
            THEN /\ fs' = [fs EXCEPT ![p] = expanded[cur][p]]
                 /\ expanded' = [expanded EXCEPT ![cur][p] = Absent]
            ELSE /\ fs[p] # Absent
                 /\ fs' = [fs EXCEPT ![p].meta = files[cur][p].node.meta]
                 /\ UNCHANGED expanded
    BY DEF InstallFile
  <2>2. p \in Paths /\ p \in PathsOf(files, cur) /\ pc = "install"
    BY DEF DepotInv, TypeOK, CommandShape, InstallFile
  <2>3. fs' \in Tree /\ expanded' \in [Serials -> Tree \cup {None}]
    <3>1. CASE "INSTALL_DATA" \in files[cur][p].flags
        BY <2>1, <2>2, <3>1, InstallStores DEF DepotInv, TypeOK, Tree, Entry
    <3>2. CASE "INSTALL_DATA" \notin files[cur][p].flags
      <4>1. files[cur][p].node.meta \in Meta
        BY <2>2, CurrentRow DEF Node
      <4> QED
        BY <2>1, <2>2, <3>2, <4>1, MetaType DEF DepotInv, TypeOK
    <3> QED
        BY <3>1, <3>2
  <2> QED
    BY <2>3 DEF DepotInv, TypeOK, InstallFile, db
<1>3. CommandShape'
  <2>1. pc = "install" /\ pc' = "install" /\ cur' = cur
    BY DEF InstallFile
  <2>2. expanded'[cur] # None /\ expanded'[RollbackOf(cur)] # None
    <3>1. CASE UNCHANGED expanded
        BY <2>1, <3>1, InstallStores, NoneAssumption
    <3>2. ASSUME NEW p \in todo,
                 expanded' = [expanded EXCEPT ![cur][p] = Absent]
          PROVE  expanded'[cur] # None /\ expanded'[RollbackOf(cur)] # None
      <4>1. [expanded[cur] EXCEPT ![p] = Absent] \in Tree
        BY <2>1, InstallStores DEF Tree, Entry
      <4> QED
        BY <2>1, <3>2, <4>1, InstallStores, NoneAssumption
           DEF DepotInv, TypeOK
    <3> QED
        BY <3>1, <3>2 DEF InstallFile
  <2> QED
    BY <2>1, <2>2 DEF DepotInv, CommandShape, InstallFile, IsRoot, db, PathsOf, RollbackOf
<1> QED
    BY <1>1, <1>2, <1>3 DEF DepotInv

(* A file that cannot be installed changes no row.                         *)
LEMMA InstallFileFailsInv == DepotInv /\ InstallFileFails => DepotInv'
<1> SUFFICES ASSUME DepotInv, InstallFileFails PROVE DepotInv'
    OBVIOUS
<1>1. RowsHaveArchive' /\ RowShape' /\ FreshSerials' /\ OnBase'
    BY DbFrame DEF InstallFileFails
<1>2. TypeOK'
  <2>1. budget' \in [edits : 0..MaxEdits, crashes : 0..MaxCrashes,
                     faults : 0..MaxFaults]
    BY FaultType DEF DepotInv, TypeOK, InstallFileFails
  <2> QED
    BY <2>1 DEF DepotInv, TypeOK, InstallFileFails, Steps, db, store
<1>3. CommandShape'
    BY DEF DepotInv, CommandShape, InstallFileFails, IsRoot, db, PathsOf, store
<1> QED
    BY <1>1, <1>2, <1>3 DEF DepotInv

(* An installation that is not activated keeps its rows.                   *)
LEMMA NotActivatedInv == DepotInv /\ NotActivated => DepotInv'
<1> SUFFICES ASSUME DepotInv, NotActivated PROVE DepotInv'
    OBVIOUS
<1>1. RowsHaveArchive' /\ RowShape' /\ FreshSerials' /\ OnBase'
    BY DbFrame DEF NotActivated
<1>2. TypeOK'
  <2>1. budget' \in [edits : 0..MaxEdits, crashes : 0..MaxCrashes,
                     faults : 0..MaxFaults]
    BY FaultType DEF DepotInv, TypeOK, NotActivated
  <2> QED
    BY <2>1 DEF DepotInv, TypeOK, NotActivated, Steps, db, store
<1>3. CommandShape'
    BY DEF DepotInv, CommandShape, NotActivated, IsRoot, db, PathsOf
<1> QED
    BY <1>1, <1>2, <1>3 DEF DepotInv

(* Removing the directories of an installation keeps the invariant.        *)
LEMMA CleanupInv == DepotInv /\ Cleanup => DepotInv'
<1> SUFFICES ASSUME DepotInv, Cleanup PROVE DepotInv'
    OBVIOUS
<1>1. RowsHaveArchive' /\ RowShape' /\ FreshSerials' /\ OnBase'
    BY DbFrame DEF Cleanup, Idle
<1>2. TypeOK'
  <2>1. CASE res = "ok"
    <3>1. Idle /\ expanded' \in [Serials -> Tree \cup {None}]
        BY <2>1 DEF DepotInv, TypeOK, Cleanup
    <3> QED
        BY <3>1, MaxSerialAssumption
           DEF DepotInv, TypeOK, Cleanup, Idle, Steps, db
  <2>2. CASE res # "ok"
    BY <2>2 DEF DepotInv, TypeOK, Cleanup, Steps, db
  <2> QED
    BY <2>1, <2>2
<1>3. CommandShape'
    BY DEF DepotInv, CommandShape, Cleanup, IsRoot, db, PathsOf, Idle
<1> QED
    BY <1>1, <1>2, <1>3 DEF DepotInv

(* An uninstallation that stops after an error keeps every row.            *)
LEMMA UninstallStopsInv == DepotInv /\ UninstallStops => DepotInv'
<1> SUFFICES ASSUME DepotInv, UninstallStops PROVE DepotInv'
    OBVIOUS
<1>1. RowsHaveArchive' /\ RowShape' /\ FreshSerials' /\ OnBase'
    BY DbFrame DEF UninstallStops, Idle
<1>2. TypeOK'
    BY MaxSerialAssumption DEF DepotInv, TypeOK, UninstallStops, Idle, Steps, db, store
<1>3. CommandShape'
    BY DEF DepotInv, CommandShape, UninstallStops, IsRoot, db, PathsOf, Idle
<1> QED
    BY <1>1, <1>2, <1>3 DEF DepotInv

(* Activation changes no archive but in its active flag.                   *)
LEMMA ActivateInv == DepotInv /\ Activate => DepotInv'
<1> SUFFICES ASSUME DepotInv, Activate PROVE DepotInv'
    OBVIOUS
<1>a. ASSUME NEW a \in Archive \cup {None}
      PROVE  /\ Activated(a) \in Archive \cup {None}
             /\ Activated(a) = None <=> a = None
             /\ a # None => Activated(a).rollback = a.rollback
  <2>1. CASE a = None
    BY <2>1 DEF Activated
  <2>2. CASE a # None
    <3>1. [a EXCEPT !.active = TRUE] \in Archive /\ [a EXCEPT !.active = TRUE].rollback = a.rollback
      BY <2>2 DEF Archive
    <3> QED BY <2>2, <3>1, NoArchiveAssumption DEF Activated
  <2> QED BY <2>1, <2>2
<1>b. \A s \in Serials : archives[s] \in Archive \cup {None}
    BY DEF DepotInv, TypeOK
<1>c. \A s \in Serials : \/ archives'[s] = archives[s]
                         \/ archives'[s] = Activated(archives[s])
    BY DEF DepotInv, TypeOK, Activate
<1>1. RowsHaveArchive' /\ RowShape' /\ FreshSerials' /\ OnBase'
  <2>1. \A s \in Serials :
            /\ archives'[s] = None <=> archives[s] = None
            /\ archives[s] # None => archives'[s].rollback = archives[s].rollback
    BY <1>a, <1>b, <1>c
  <2> QED
    BY <2>1, RowsFrame DEF DepotInv, OnBase, Activate
<1>2. TypeOK'
  <2>1. archives' = [s \in Serials |-> archives'[s]]
    BY DEF DepotInv, TypeOK, Activate
  <2>2. archives' \in [Serials -> Archive \cup {None}]
    BY <1>a, <1>b, <1>c, <2>1
  <2>3. /\ pc' = "cleanup" /\ files' = files /\ nextSerial' = nextSerial
        /\ fs' = fs /\ store' = store /\ cur' = cur /\ todo' = todo
        /\ res' = res /\ toRemove' = toRemove /\ budget' = budget
    BY DEF Activate
  <2> QED
    BY <2>2, <2>3 DEF DepotInv, TypeOK, Steps, store
<1>3. CommandShape'
  <2>1. IsRoot(cur)'
    BY NoArchiveAssumption
       DEF DepotInv, TypeOK, CommandShape, Activate, Activated, Archive, IsRoot
  <2> QED
    BY <2>1 DEF DepotInv, CommandShape, Activate, IsRoot, PathsOf
<1> QED
    BY <1>1, <1>2, <1>3 DEF DepotInv

(* Deactivation likewise.                                                  *)
LEMMA DeactivateInv == DepotInv /\ Deactivate => DepotInv'
<1> SUFFICES ASSUME DepotInv, Deactivate PROVE DepotInv'
    OBVIOUS
<1>1. RowsHaveArchive' /\ RowShape' /\ FreshSerials' /\ OnBase'
  <2>1. \A s \in Serials :
            /\ archives'[s] = None <=> archives[s] = None
            /\ archives[s] # None => archives'[s].rollback = archives[s].rollback
    BY NoArchiveAssumption
       DEF DepotInv, TypeOK, CommandShape, Deactivate, Archive, IsRoot
  <2> QED
    BY <2>1, RowsFrame DEF DepotInv, OnBase, Deactivate
<1>2. TypeOK'
    BY DEF DepotInv, TypeOK, CommandShape, Deactivate, Archive, Steps, IsRoot, PathsOf
<1>3. CommandShape'
  <2>1. IsRoot(cur)'
    BY NoArchiveAssumption
       DEF DepotInv, TypeOK, CommandShape, Deactivate, Archive, IsRoot
  <2> QED
    BY <2>1 DEF DepotInv, CommandShape, Deactivate, IsRoot, PathsOf
<1> QED
    BY <1>1, <1>2, <1>3 DEF DepotInv

(* A path the archive no longer claims is left as it is.                   *)
LEMMA LeaveUnclaimedInv == DepotInv /\ LeaveUnclaimed => DepotInv'
<1> SUFFICES ASSUME DepotInv, LeaveUnclaimed PROVE DepotInv'
    OBVIOUS
<1>1. RowsHaveArchive' /\ RowShape' /\ FreshSerials' /\ OnBase'
    BY DbFrame DEF LeaveUnclaimed, UninstallNext
<1>2. TypeOK'
    BY DEF DepotInv, TypeOK, LeaveUnclaimed, UninstallNext, db
<1>3. CommandShape'
    BY DEF DepotInv, CommandShape, LeaveUnclaimed, UninstallNext, IsRoot, db, PathsOf
<1> QED
    BY <1>1, <1>2, <1>3 DEF DepotInv

(* A file whose previous data is nowhere to be found stays.                *)
LEMMA RestoreDataFailsInv == DepotInv /\ RestoreDataFails => DepotInv'
<1> SUFFICES ASSUME DepotInv, RestoreDataFails PROVE DepotInv'
    OBVIOUS
<1>1. RowsHaveArchive' /\ RowShape' /\ FreshSerials' /\ OnBase'
    BY DbFrame DEF RestoreDataFails, UninstallNext
<1>2. TypeOK'
  <2>1. expanded' \in [Serials -> Tree \cup {None}]
    BY DEF DepotInv, TypeOK, RestoreDataFails, CanExpand, Opened, Unfinished
  <2> QED
    BY <2>1 DEF DepotInv, TypeOK, RestoreDataFails, UninstallNext, db
<1>3. CommandShape'
    BY DEF DepotInv, CommandShape, RestoreDataFails, UninstallNext, IsRoot, db, PathsOf
<1> QED
    BY <1>1, <1>2, <1>3 DEF DepotInv

(* A system call that fails during an uninstallation changes no row.       *)
LEMMA UninstallFileFailsInv == DepotInv /\ UninstallFileFails => DepotInv'
<1> SUFFICES ASSUME DepotInv, UninstallFileFails PROVE DepotInv'
    OBVIOUS
<1>1. RowsHaveArchive' /\ RowShape' /\ FreshSerials' /\ OnBase'
    BY DbFrame DEF UninstallFileFails, UninstallNext
<1>2. TypeOK'
  <2>1. budget' \in [edits : 0..MaxEdits, crashes : 0..MaxCrashes,
                     faults : 0..MaxFaults]
    BY FaultType DEF DepotInv, TypeOK, UninstallFileFails
  <2> QED
    BY <2>1 DEF DepotInv, TypeOK, UninstallFileFails, UninstallNext, db
<1>3. CommandShape'
    BY DEF DepotInv, CommandShape, UninstallFileFails, UninstallNext, IsRoot, db, PathsOf
<1> QED
    BY <1>1, <1>2, <1>3 DEF DepotInv

(* The death of the process keeps the invariant: recovery starts from it.  *)
LEMMA CrashInv == DepotInv /\ Crash => DepotInv'
<1> SUFFICES ASSUME DepotInv, Crash PROVE DepotInv'
    OBVIOUS
<1>1. RowsHaveArchive' /\ RowShape' /\ FreshSerials' /\ OnBase'
    BY DbFrame DEF Crash, Idle
<1>2. TypeOK'
  <2>1. budget' \in [edits : 0..MaxEdits, crashes : 0..MaxCrashes,
                     faults : 0..MaxFaults]
    BY FaultType DEF Crash
  <2>2. tarball' \in [Serials -> Tree \cup Unfinished]
    BY DEF DepotInv, TypeOK, Crash, Unfinished
  <2> QED
    BY <2>1, <2>2, MaxSerialAssumption
       DEF DepotInv, TypeOK, Crash, Idle, Steps, db
<1>3. CommandShape'
    BY DEF DepotInv, CommandShape, Crash, IsRoot, db, PathsOf, Idle
<1> QED
    BY <1>1, <1>2, <1>3 DEF DepotInv

(* Starting to uninstall any root keeps the invariant.                     *)
LEMMA UninstallInv ==
    ASSUME DepotInv, NEW s \in Serials, Uninstall(s) PROVE DepotInv'
<1>1. RowsHaveArchive' /\ RowShape' /\ FreshSerials' /\ OnBase'
    BY DbFrame DEF Uninstall
<1>2. TypeOK'
    BY MaxSerialAssumption DEF DepotInv, TypeOK, Uninstall, Steps, db, store, Serials
<1>3. CommandShape'
    BY MaxSerialAssumption
       DEF DepotInv, CommandShape, Uninstall, IsRoot, db, PathsOf, Serials
<1> QED
    BY <1>1, <1>2, <1>3 DEF DepotInv

(* Whatever the user does to a path keeps the invariant.                   *)
LEMMA EditInv ==
    ASSUME DepotInv, NEW p \in Paths, NEW e \in UserEntries, Edit(p, e)
    PROVE  DepotInv'
<1>1. RowsHaveArchive' /\ RowShape' /\ FreshSerials' /\ OnBase'
    BY DbFrame DEF Edit, proc
<1>2. TypeOK'
  <2>1. budget' \in [edits : 0..MaxEdits, crashes : 0..MaxCrashes,
                     faults : 0..MaxFaults]
    BY FaultType DEF Edit
  <2>2. fs' \in Tree
    BY UserEntriesAssumption DEF DepotInv, TypeOK, Edit, Tree
  <2> QED
    BY <2>1, <2>2 DEF DepotInv, TypeOK, Edit, db, store, proc
<1>3. CommandShape'
    BY DEF DepotInv, CommandShape, Edit, IsRoot, db, store, proc, PathsOf
<1> QED
    BY <1>1, <1>2, <1>3 DEF DepotInv

(* A root's row is not a base row, so the base row that OnBase promises    *)
(* at or below it lies strictly below.                                     *)
LEMMA InvPreceded == DepotInv => RowsArePreceded
<1> SUFFICES ASSUME DepotInv, NEW s \in Serials, IsRoot(s),
                    NEW p \in PathsOf(files, s)
             PROVE  IsPreceded(files, s, p)
    BY DEF RowsArePreceded
<1>1. PICK t \in Serials : t <= s /\ IsBase(t, p)
    BY DEF DepotInv, OnBase
<1>2. t # s
    BY <1>1 DEF DepotInv, RowShape, IsRoot, IsBase
<1>3. t \in Below(files, s, p)
    BY <1>1, <1>2 DEF Below, IsBase, Serials
<1> QED
    BY <1>3 DEF IsPreceded

(* The previous row of a path being uninstalled, and what is noted of it.  *)
LEMMA PreviousRow ==
    ASSUME DepotInv, pc = "uninstall", NEW p \in todo
    PROVE  /\ p \in Paths
           /\ Preceding(files, cur, p) \in Serials
           /\ Previous(p) \in FileRow
           /\ "NO_ENTRY" \notin Previous(p).flags => Previous(p).node \in Node
           /\ Spent(p) \subseteq Serials \X Paths
           /\ \A t \in Serials, q \in Paths :
                  <<t, q>> \in Spent(p) => ~IsBase(t, q)
<1> DEFINE u == Preceding(files, cur, p)
<1>1. p \in PathsOf(files, cur)
    BY DEF DepotInv, CommandShape
<1>2. cur \in Serials /\ p \in Paths /\ IsRoot(cur)
    BY <1>1, CurrentRow
<1>3. IsPreceded(files, cur, p)
    BY <1>1, <1>2, InvPreceded DEF RowsArePreceded
<1>4. u \in Serials /\ files[u][p] # None /\ files[u][p] \in FileRow
    BY <1>2, <1>3, PrecedingIsRow DEF DepotInv
<1>5. "NO_ENTRY" \notin Previous(p).flags => Previous(p).node \in Node
    BY <1>2, <1>4 DEF Previous, DepotInv, RowShape, PathsOf, FileRow, Entry
<1>6. Spent(p) \subseteq Serials \X Paths
    BY <1>2, <1>4 DEF Spent
<1>7. \A t \in Serials, q \in Paths : <<t, q>> \in Spent(p) => ~IsBase(t, q)
    BY <1>4 DEF Spent, Previous, IsBase
<1> QED
    BY <1>2, <1>4, <1>5, <1>6, <1>7 DEF Previous

(* The three ways of putting a path back note its row and change one file. *)
LEMMA PutBack ==
    ASSUME DepotInv, pc = "uninstall", NEW p \in todo, UninstallNext(p),
           toRemove' = toRemove \cup Spent(p)
    PROVE  /\ RowsHaveArchive' /\ RowShape' /\ FreshSerials' /\ OnBase'
           /\ toRemove' \subseteq Serials \X Paths
<1>1. \A t \in Serials, q \in Paths : <<t, q>> \in toRemove' => ~IsBase(t, q)
    BY PreviousRow DEF DepotInv, OnBase
<1>2. RowsHaveArchive' /\ RowShape' /\ FreshSerials' /\ OnBase'
    BY <1>1, RowsFrame DEF UninstallNext, db
<1> QED
    BY <1>2, PreviousRow DEF DepotInv, TypeOK

(* Removing a file where nothing was before keeps the invariant.           *)
LEMMA RemoveFileInv == DepotInv /\ RemoveFile => DepotInv'
<1> SUFFICES ASSUME DepotInv, RemoveFile PROVE DepotInv'
    OBVIOUS
<1>1. RowsHaveArchive' /\ RowShape' /\ FreshSerials' /\ OnBase'
  <2>1. PICK p \in todo : UninstallNext(p) /\ toRemove' = toRemove \cup Spent(p)
    BY DEF RemoveFile
  <2> QED
    BY <2>1, PutBack DEF UninstallNext
<1>2. TypeOK'
  <2>1. toRemove' \subseteq Serials \X Paths
    BY PutBack DEF RemoveFile, UninstallNext
  <2>2. fs' \in Tree
    BY DEF DepotInv, TypeOK, RemoveFile, Tree, Entry
  <2> QED
    BY <2>1, <2>2 DEF DepotInv, TypeOK, RemoveFile, UninstallNext, db
<1>3. CommandShape'
    BY DEF DepotInv, CommandShape, RemoveFile, UninstallNext, IsRoot, db, PathsOf
<1> QED
    BY <1>1, <1>2, <1>3 DEF DepotInv

(* Putting permissions and owners back keeps the invariant.                *)
LEMMA RestoreMetaInv == DepotInv /\ RestoreMeta => DepotInv'
<1> SUFFICES ASSUME DepotInv, RestoreMeta PROVE DepotInv'
    OBVIOUS
<1>1. RowsHaveArchive' /\ RowShape' /\ FreshSerials' /\ OnBase'
  <2>1. PICK p \in todo : UninstallNext(p) /\ toRemove' = toRemove \cup Spent(p)
    BY DEF RestoreMeta
  <2> QED
    BY <2>1, PutBack DEF UninstallNext
<1>2. TypeOK'
  <2>1. toRemove' \subseteq Serials \X Paths
    BY PutBack DEF RestoreMeta, UninstallNext
  <2>2. fs' \in Tree
    <3>1. PICK p \in todo :
              /\ UninstallNext(p) /\ Claims(cur, p)
              /\ "NO_ENTRY" \notin Previous(p).flags
              /\ fs' = [fs EXCEPT ![p].meta = Previous(p).node.meta]
        BY DEF RestoreMeta
    <3>2. p \in Paths /\ fs[p] # Absent /\ Previous(p).node.meta \in Meta
        BY <3>1, PreviousRow DEF UninstallNext, Claims, Node
    <3> QED
        BY <3>1, <3>2, MetaType DEF DepotInv, TypeOK
  <2> QED
    BY <2>1, <2>2 DEF DepotInv, TypeOK, RestoreMeta, UninstallNext, db
<1>3. CommandShape'
    BY DEF DepotInv, CommandShape, RestoreMeta, UninstallNext, IsRoot, db, PathsOf
<1> QED
    BY <1>1, <1>2, <1>3 DEF DepotInv

(* Putting data back from the opened tarball keeps the invariant.          *)
LEMMA RestoreDataInv == DepotInv /\ RestoreData => DepotInv'
<1> SUFFICES ASSUME DepotInv, RestoreData PROVE DepotInv'
    OBVIOUS
<1>1. RowsHaveArchive' /\ RowShape' /\ FreshSerials' /\ OnBase'
  <2>1. PICK p \in todo : UninstallNext(p) /\ toRemove' = toRemove \cup Spent(p)
    BY DEF RestoreData
  <2> QED
    BY <2>1, PutBack DEF UninstallNext
<1>2. TypeOK'
  <2>1. toRemove' \subseteq Serials \X Paths
    BY PutBack DEF RestoreData, UninstallNext
  <2>2. fs' \in Tree /\ expanded' \in [Serials -> Tree \cup {None}]
    <3>1. PICK p \in todo : LET t == Preceding(files, cur, p) IN
              /\ UninstallNext(p) /\ CanExpand(t)
              /\ fs' = [fs EXCEPT ![p] = Opened(t)[p]]
              /\ expanded' = [expanded EXCEPT ![t] = [Opened(t) EXCEPT ![p] = Absent]]
        BY DEF RestoreData
    <3> DEFINE t == Preceding(files, cur, p)
    <3>2. p \in Paths /\ t \in Serials
        BY <3>1, PreviousRow DEF UninstallNext
    <3>3. Opened(t) \in Tree
        BY <3>1, <3>2 DEF CanExpand, Opened, DepotInv, TypeOK
    <3>4. [Opened(t) EXCEPT ![p] = Absent] \in Tree
        BY <3>3 DEF Tree, Entry
    <3> QED
        BY <3>1, <3>2, <3>3, <3>4 DEF DepotInv, TypeOK, Tree
  <2> QED
    BY <2>1, <2>2 DEF DepotInv, TypeOK, RestoreData, UninstallNext, db
<1>3. CommandShape'
    BY DEF DepotInv, CommandShape, RestoreData, UninstallNext, IsRoot, db, PathsOf
<1> QED
    BY <1>1, <1>2, <1>3 DEF DepotInv

(* Deleting the noted rows keeps a base row below every row that is left.  *)
LEMMA DeleteRowsInv == DepotInv /\ DeleteRows => DepotInv'
<1> SUFFICES ASSUME DepotInv, DeleteRows PROVE DepotInv'
    OBVIOUS
<1>1. \A s \in Serials, p \in Paths :
          /\ files'[s][p] = None \/ files'[s][p] = files[s][p]
          /\ files'[s][p] = None => files[s][p] = None \/ <<s, p>> \in toRemove
    BY DEF DeleteRows
<1>2. \A s \in Serials : PathsOf(files', s) \subseteq PathsOf(files, s)
    BY <1>1 DEF PathsOf
<1>3. TypeOK'
  <2>1. files' \in FileTab
    BY DEF DepotInv, TypeOK, DeleteRows, FileTab
  <2> QED
    BY <2>1 DEF DepotInv, TypeOK, DeleteRows, Steps, store
<1>4. CommandShape'
    BY DEF DepotInv, CommandShape, DeleteRows, IsRoot
<1>5. RowsHaveArchive'
    BY <1>2 DEF DepotInv, RowsHaveArchive, DeleteRows
<1>6. RowShape'
  <2> SUFFICES ASSUME NEW s \in Serials, NEW p \in PathsOf(files', s)
               PROVE  /\ files'[s][p] = files[s][p] /\ p \in PathsOf(files, s)
                      /\ archives' = archives
    BY DEF DepotInv, RowShape
  <2> QED
    BY <1>1, <1>2 DEF PathsOf, DeleteRows
<1>7. FreshSerials'
    BY <1>2 DEF DepotInv, FreshSerials, DeleteRows
<1>8. OnBase'
  <2>1. ASSUME NEW s \in Serials, NEW p \in PathsOf(files', s)
        PROVE  \E t \in Serials : t <= s /\ IsBase(t, p)'
    <3>1. p \in Paths /\ p \in PathsOf(files, s)
        BY <1>2 DEF PathsOf
    <3>2. PICK t \in Serials : t <= s /\ IsBase(t, p)
        BY <3>1 DEF DepotInv, OnBase
    <3>3. <<t, p>> \notin toRemove
        BY <3>1, <3>2 DEF DepotInv, OnBase
    <3> QED
        BY <1>1, <3>1, <3>2, <3>3 DEF IsBase
  <2> QED
    BY <2>1 DEF OnBase, DeleteRows
<1> QED
    BY <1>3, <1>4, <1>5, <1>6, <1>7, <1>8 DEF DepotInv

(* Depot::remove deletes a root with its rows: none of them is a base row. *)
LEMMA RemoveArchiveInv == DepotInv /\ RemoveArchive => DepotInv'
<1> SUFFICES ASSUME DepotInv, RemoveArchive PROVE DepotInv'
    OBVIOUS
<1>1. cur \in Serials /\ IsRoot(cur)
    BY DEF DepotInv, CommandShape, RemoveArchive, IsRoot
<1>2. /\ \A s \in Serials : s # cur => files'[s] = files[s]
      /\ files'[cur] = NoFiles /\ PathsOf(files', cur) = {}
      /\ \A s \in Serials : s # cur => PathsOf(files', s) = PathsOf(files, s)
    BY <1>1 DEF RemoveArchive, DeleteFiles, NoFiles, PathsOf, DepotInv, TypeOK, FileTab
<1>3. /\ \A s \in Serials : s # cur => archives'[s] = archives[s]
      /\ archives'[cur] = None
    BY <1>1 DEF RemoveArchive, DepotInv, TypeOK
<1>4. TypeOK'
  <2>1. files' \in FileTab
    BY <1>1 DEF DepotInv, TypeOK, RemoveArchive, DeleteFiles, FileTab, NoFiles
  <2> QED
    BY <2>1 DEF DepotInv, TypeOK, RemoveArchive, Steps, store
<1>5. CommandShape'
    BY DEF DepotInv, CommandShape, RemoveArchive
<1>6. RowsHaveArchive'
    BY <1>2, <1>3 DEF DepotInv, RowsHaveArchive
<1>7. RowShape'
    BY <1>2, <1>3 DEF DepotInv, RowShape
<1>8. FreshSerials'
    BY <1>2, <1>3 DEF DepotInv, FreshSerials, RemoveArchive
<1>9. OnBase'
  <2>1. ASSUME NEW s \in Serials, NEW p \in PathsOf(files', s)
        PROVE  \E t \in Serials : t <= s /\ IsBase(t, p)'
    <3>1. p \in PathsOf(files, s)
        BY <1>2
    <3>2. PICK t \in Serials : t <= s /\ IsBase(t, p)
        BY <3>1 DEF DepotInv, OnBase
    <3>3. t # cur
      <4>1. p \in PathsOf(files, t)
        BY <3>1, <3>2 DEF IsBase, PathsOf
      <4> QED
        BY <1>1, <3>2, <4>1 DEF DepotInv, RowShape, IsRoot, IsBase
    <3> QED
        BY <1>2, <3>2, <3>3 DEF IsBase
  <2>2. toRemove' = {}
    BY DEF RemoveArchive, DepotInv, CommandShape
  <2> QED
    BY <2>1, <2>2 DEF OnBase
<1> QED
    BY <1>4, <1>5, <1>6, <1>7, <1>8, <1>9 DEF DepotInv

(* Depot::prune_archive deletes only archives without rows.                *)
LEMMA PruneInv == DepotInv /\ Prune => DepotInv'
<1> SUFFICES ASSUME DepotInv, Prune PROVE DepotInv'
    OBVIOUS
<1>1. files' = files /\ nextSerial' = nextSerial
      /\ \A s \in Serials : PathsOf(files', s) = PathsOf(files, s)
    BY DEF Prune, PathsOf
<1>2. \A s \in Serials : archives'[s] =
          IF PathsOf(files, s) = {} THEN None ELSE archives[s]
    BY DEF Prune
<1>3. TypeOK'
  <2>1. /\ archives' \in [Serials -> Archive \cup {None}]
        /\ expanded' \in [Serials -> Tree \cup {None}]
        /\ tarball' \in [Serials -> Tree \cup Unfinished]
    BY DEF DepotInv, TypeOK, Prune, Unfinished
  <2>2. Idle
    BY DEF Prune
  <2> QED
    BY <2>1, <2>2, MaxSerialAssumption
       DEF DepotInv, TypeOK, Prune, Idle, Steps
<1>4. CommandShape'
    BY DEF DepotInv, CommandShape, Prune, Idle
<1>5. RowsHaveArchive'
    BY <1>1, <1>2 DEF DepotInv, RowsHaveArchive
<1>6. RowShape'
    BY <1>1, <1>2 DEF DepotInv, RowShape
<1>7. FreshSerials'
    BY <1>1, <1>2 DEF DepotInv, FreshSerials
<1>8. OnBase'
    BY <1>1 DEF DepotInv, OnBase, IsBase, Prune, Idle
<1> QED
    BY <1>3, <1>4, <1>5, <1>6, <1>7, <1>8 DEF DepotInv

(* What Depot::analyze_stage writes of a staged file: a root's row, and a  *)
(* rollback row wherever the database has none for the path yet.           *)
LEMMA AnalyzeStage ==
    ASSUME NEW s \in Serials, NEW p \in Paths, NEW a \in Entry, NEW n \in Node
    PROVE  LET r == StagedRow(files, s, p, a, n)
               b == RollbackRow(files, s, p, a, n)
           IN  /\ r \in FileRow /\ r # None
               /\ r.flags \subseteq {"INSTALL_DATA"} /\ r.node = n
               /\ b \in FileRow /\ b # None
               /\ b.node = Absent => "NO_ENTRY" \in b.flags
               /\ ~IsPreceded(files, s, p) =>
                      /\ NeedsRollbackRow(files, s, p, a, n)
                      /\ "BASE_SYSTEM" \in b.flags
<1>1. StagedFlags(files, s, p, a, n) \subseteq {"INSTALL_DATA"}
    BY DEF StagedFlags
<1>2. ActualFlags(files, s, p, a, n) \subseteq Flag
    BY DEF ActualFlags, Flag
<1>3. a = Absent => "NO_ENTRY" \in ActualFlags(files, s, p, a, n)
    BY DEF ActualFlags
<1>4. ~IsPreceded(files, s, p) => "BASE_SYSTEM" \in ActualFlags(files, s, p, a, n)
    BY DEF ActualFlags
<1>5. StagedRow(files, s, p, a, n) \in FileRow
    BY <1>1 DEF StagedRow, FileRow, Flag, Entry
<1>6. RollbackRow(files, s, p, a, n) \in FileRow
    BY <1>2 DEF RollbackRow, FileRow
<1> QED
    BY <1>1, <1>3, <1>4, <1>5, <1>6, NoneAssumption
       DEF StagedRow, RollbackRow, NeedsRollbackRow

(* The first transaction of Depot::install: a path without a row gets a base*)
(* row in the rollback archive, just below the row of the root.            *)
LEMMA InstallInv ==
    ASSUME DepotInv, NEW root \in Roots, Install(root) PROVE DepotInv'
<1> DEFINE rb     == nextSerial
           s      == nextSerial + 1
           staged == {p \in Paths : root[p] # Absent}
           saved  == {p \in staged :
                         NeedsRollbackRow(files, s, p, fs[p], root[p])}
<1>1. rb \in Serials /\ s \in Serials /\ rb < s
    BY MaxSerialAssumption DEF DepotInv, TypeOK, Install, Serials
<1>2. root \in Tree /\ \A p \in staged : root[p] \in Node
    BY RootsAssumption DEF Tree, Entry
<1>3. \A p \in Paths :
          /\ files'[rb][p] = IF p \in saved
                 THEN RollbackRow(files, s, p, fs[p], root[p]) ELSE None
          /\ files'[s][p] = IF p \in staged
                 THEN StagedRow(files, s, p, fs[p], root[p]) ELSE None
    BY <1>1 DEF Install, DepotInv, TypeOK, FileTab
<1>4. \A t \in Serials : t # rb /\ t # s =>
          files'[t] = files[t] /\ archives'[t] = archives[t]
    BY <1>1 DEF Install, DepotInv, TypeOK, FileTab
<1>5. /\ archives'[rb] = IF saved = {} THEN None
                         ELSE [rollback |-> TRUE, active |-> FALSE]
      /\ archives'[s] = [rollback |-> FALSE, active |-> FALSE]
      /\ archives'[s] # None /\ (saved # {} => archives'[rb] # None)
  <2>1. /\ archives'[rb] = IF saved = {} THEN None
                           ELSE [rollback |-> TRUE, active |-> FALSE]
        /\ archives'[s] = [rollback |-> FALSE, active |-> FALSE]
    <3>1. archives' = [archives EXCEPT
              ![rb] = IF saved = {} THEN None
                      ELSE [rollback |-> TRUE, active |-> FALSE],
              ![s]  = [rollback |-> FALSE, active |-> FALSE]]
        BY DEF Install
    <3>2. archives \in [Serials -> Archive \cup {None}] /\ rb # s
        BY <1>1 DEF DepotInv, TypeOK, Serials
    <3> HIDE DEF rb, s, saved
    <3> QED
        BY <1>1, <3>1, <3>2
  <2>2. \A b \in BOOLEAN : [rollback |-> b, active |-> FALSE] \in Archive
    BY DEF Archive
  <2>3. \A a \in Archive : a # None
    BY NoArchiveAssumption
  <2> QED
    BY <2>1, <2>2, <2>3
<1>6. \A p \in staged :
          LET r == StagedRow(files, s, p, fs[p], root[p])
              b == RollbackRow(files, s, p, fs[p], root[p])
          IN  /\ r \in FileRow /\ r # None
              /\ r.flags \subseteq {"INSTALL_DATA"} /\ r.node \in Node
              /\ b \in FileRow /\ b # None
              /\ b.node = Absent => "NO_ENTRY" \in b.flags
              /\ ~IsPreceded(files, s, p) => p \in saved /\ "BASE_SYSTEM" \in b.flags
  <2> SUFFICES ASSUME NEW p \in staged
               PROVE LET r == StagedRow(files, s, p, fs[p], root[p])
                         b == RollbackRow(files, s, p, fs[p], root[p])
                     IN  /\ r \in FileRow /\ r # None
                         /\ r.flags \subseteq {"INSTALL_DATA"} /\ r.node \in Node
                         /\ b \in FileRow /\ b # None
                         /\ b.node = Absent => "NO_ENTRY" \in b.flags
                         /\ ~IsPreceded(files, s, p) =>
                                p \in saved /\ "BASE_SYSTEM" \in b.flags
    OBVIOUS
  <2>1. p \in Paths /\ fs[p] \in Entry /\ root[p] \in Node
    BY <1>2 DEF DepotInv, TypeOK, Tree
  <2> HIDE DEF s
  <2> QED
    BY <1>1, <2>1, AnalyzeStage
<1> HIDE DEF s, rb, staged, saved
<1>7. PathsOf(files', rb) = saved /\ PathsOf(files', s) = staged
      /\ saved \subseteq staged /\ staged \subseteq Paths
      /\ \A t \in Serials : t # rb /\ t # s => PathsOf(files', t) = PathsOf(files, t)
  <2>1. saved \subseteq staged /\ staged \subseteq Paths
    BY DEF saved, staged
  <2> QED
    BY <1>3, <1>4, <1>6, <2>1 DEF PathsOf
<1>8. TypeOK'
  <2>1. files' \in FileTab
    <3>1. /\ files' = [files EXCEPT ![rb] = files'[rb], ![s] = files'[s]]
          /\ files'[rb] = [p \in Paths |-> files'[rb][p]]
          /\ files'[s] = [p \in Paths |-> files'[s][p]]
        BY <1>1 DEF Install, DepotInv, TypeOK, FileTab, s, rb
    <3>2. \A p \in Paths : /\ files'[rb][p] \in FileRow \cup {None}
                           /\ files'[s][p] \in FileRow \cup {None}
        BY <1>3, <1>6, <1>7
    <3>3. files'[rb] \in [Paths -> FileRow \cup {None}]
        BY <3>1, <3>2
    <3>4. files'[s] \in [Paths -> FileRow \cup {None}]
        BY <3>1, <3>2
    <3> QED
        BY <1>1, <3>1, <3>3, <3>4 DEF DepotInv, TypeOK, FileTab
  <2>2. archives' \in [Serials -> Archive \cup {None}]
    BY DEF Install, DepotInv, TypeOK, Archive
  <2>3. expanded' \in [Serials -> Tree \cup {None}]
    BY <1>2 DEF Install, DepotInv, TypeOK, Tree, EmptyTree, Entry
  <2>4. nextSerial' \in 1..(MaxSerial + 1)
    BY MaxSerialAssumption DEF Install, DepotInv, TypeOK
  <2>5. cur' \in 0..MaxSerial
    BY MaxSerialAssumption DEF Install, DepotInv, TypeOK
  <2> QED
    BY <2>1, <2>2, <2>3, <2>4, <2>5 DEF Install, DepotInv, TypeOK, Steps
<1>9. CommandShape'
  <2>1. cur' = s /\ pc' = "compact" /\ RollbackOf(s) = rb /\ s > 1
    BY <1>1 DEF Install, RollbackOf, s, rb, DepotInv, TypeOK
  <2>2. IsRoot(cur)'
    BY <1>1, <1>5, <2>1 DEF IsRoot
  <2>3. expanded'[s] # None /\ expanded'[rb] # None
    <3>1. EmptyTree \in Tree
        BY DEF EmptyTree, Tree, Entry
    <3> QED
        BY <1>1, <1>2, <3>1, NoneAssumption DEF Install, DepotInv, TypeOK, s, rb
  <2>4. todo' = {} /\ toRemove' = {}
    BY DEF Install, DepotInv, CommandShape
  <2>5. s # 0
    BY <2>1
  <2> QED
    BY <2>1, <2>2, <2>3, <2>4, <2>5 DEF CommandShape, RollbackOf
<1>10. RowsHaveArchive'
    BY <1>4, <1>5, <1>7 DEF DepotInv, RowsHaveArchive
<1>11. RowShape'
  <2> SUFFICES ASSUME NEW t \in Serials, NEW p \in PathsOf(files', t)
               PROVE  /\ files'[t][p].node = Absent => "NO_ENTRY" \in files'[t][p].flags
                      /\ ~archives'[t].rollback =>
                             /\ files'[t][p].flags \subseteq {"INSTALL_DATA"}
                             /\ files'[t][p].node # Absent
    BY DEF RowShape
  <2>1. CASE t = rb
    BY <2>1, <1>3, <1>5, <1>6, <1>7
  <2>2. CASE t = s
    BY <2>2, <1>3, <1>6, <1>7, AbsentAssumption
  <2>3. CASE t # rb /\ t # s
    BY <2>3, <1>4, <1>7 DEF DepotInv, RowShape
  <2> QED
    BY <2>1, <2>2, <2>3
<1>12. FreshSerials'
  <2>1. nextSerial' = s + 1 /\ \A t \in Serials : t >= nextSerial' =>
            t # s /\ t # rb /\ t >= nextSerial
    BY <1>1 DEF Install, s, rb, DepotInv, TypeOK, Serials
  <2> QED
    BY <2>1, <1>4, <1>7 DEF DepotInv, FreshSerials
<1>13. OnBase'
  <2>1. \A t \in Serials, p \in Paths : t # rb /\ t # s /\ IsBase(t, p) => IsBase(t, p)'
    BY <1>4 DEF IsBase
  <2>2. \A t \in Serials, p \in Paths : IsBase(t, p) => t # rb /\ t # s /\ t < rb
    <3>1. \A t \in Serials : t >= rb => PathsOf(files, t) = {}
        BY DEF DepotInv, FreshSerials, rb
    <3> QED
        BY <3>1, <1>1 DEF PathsOf, IsBase, Serials
  <2>3. ASSUME NEW p \in staged
        PROVE  \E t \in Serials : t <= rb /\ IsBase(t, p)'
    <3>1. CASE IsPreceded(files, s, p)
      <4>1. PICK u \in Serials : u < s /\ files[u][p] # None
        BY <3>1 DEF IsPreceded, Below
      <4>2. p \in PathsOf(files, u)
        BY <4>1, <1>7 DEF PathsOf
      <4>3. PICK t \in Serials : t <= u /\ IsBase(t, p)
        BY <4>2 DEF DepotInv, OnBase
      <4> QED
        BY <4>3, <1>7, <2>1, <2>2, <1>1 DEF Serials
    <3>2. CASE ~IsPreceded(files, s, p)
      <4>1. p \in Paths /\ files'[rb][p] # None
            /\ "BASE_SYSTEM" \in files'[rb][p].flags
        BY <3>2, <1>3, <1>6, <1>7
      <4> QED
        BY <4>1, <1>1 DEF IsBase, Serials
    <3> QED
        BY <3>1, <3>2
  <2>4. ASSUME NEW u \in Serials, NEW p \in PathsOf(files', u)
        PROVE  \E t \in Serials : t <= u /\ IsBase(t, p)'
    <3>1. CASE u = rb \/ u = s
      <4>1. p \in staged /\ rb <= u
        BY <3>1, <1>1, <1>7 DEF Serials
      <4> QED
        BY <4>1, <1>1, <2>3 DEF Serials
    <3>2. CASE u # rb /\ u # s
      <4>1. p \in PathsOf(files, u) /\ p \in Paths
        BY <3>2, <1>7 DEF PathsOf
      <4>2. PICK t \in Serials : t <= u /\ IsBase(t, p)
        BY <4>1 DEF DepotInv, OnBase
      <4> QED
        BY <4>1, <4>2, <2>1, <2>2
    <3> QED
        BY <3>1, <3>2
  <2>5. toRemove' = {}
    BY DEF Install, DepotInv, CommandShape
  <2> QED
    BY <2>4, <2>5 DEF OnBase
<1> QED
    BY <1>8, <1>9, <1>10, <1>11, <1>12, <1>13 DEF DepotInv

(* DepotInv is inductive: one case per action.                             *)
LEMMA NextInv == DepotInv /\ [Next]_vars => DepotInv'
<1> SUFFICES ASSUME DepotInv, [Next]_vars PROVE DepotInv'
    OBVIOUS
<1>1. CASE \E root \in Roots : Install(root)
    BY <1>1, InstallInv
<1>2. CASE \E s \in Serials : Uninstall(s)
    BY <1>2, UninstallInv
<1>3. CASE InstallStep
    BY <1>3, CompactArchiveInv, BackupFileInv, CompactRollbackInv,
       InstallFileInv, ActivateInv, CleanupInv DEF InstallStep
<1>4. CASE UninstallStep
    BY <1>4, DeactivateInv, LeaveUnclaimedInv, RemoveFileInv, RestoreDataInv,
       RestoreDataFailsInv, RestoreMetaInv, UninstallStopsInv, DeleteRowsInv,
       RemoveArchiveInv, PruneInv DEF UninstallStep
<1>5. CASE Failure
    BY <1>5, CompactArchiveFailsInv, BackupFileAbortsInv,
       CompactRollbackFailsInv, InstallFileFailsInv, NotActivatedInv,
       UninstallFileFailsInv DEF Failure
<1>6. CASE Crash
    BY <1>6, CrashInv
<1>7. CASE \E p \in Paths, e \in UserEntries : Edit(p, e)
    BY <1>7, EditInv
<1>8. CASE UNCHANGED vars
  <2>1. RowsHaveArchive' /\ RowShape' /\ FreshSerials' /\ OnBase'
    BY <1>8, DbFrame DEF vars, proc, db
  <2>2. TypeOK'
    BY <1>8 DEF DepotInv, TypeOK, vars, db, store, proc
  <2>3. CommandShape'
    BY <1>8 DEF DepotInv, CommandShape, IsRoot, PathsOf, vars, db, store, proc
  <2> QED
    BY <2>1, <2>2, <2>3 DEF DepotInv
<1> QED
    BY <1>1, <1>2, <1>3, <1>4, <1>5, <1>6, <1>7, <1>8 DEF Next

(* The inductive invariant holds in every reachable state, whatever the    *)
(* paths, the roots, the bounds and the user's edits, with edits, crashes  *)
(* and failures between and during commands.                               *)
THEOREM InvariantHolds == Spec => []DepotInv
<1>1. Init => DepotInv
    BY InitInv
<1>2. DepotInv /\ [Next]_vars => DepotInv'
    BY NextInv
<1> QED
    BY <1>1, <1>2, PTL DEF Spec

(* Type correctness of the depot.                                          *)
THEOREM TypeCorrect == Spec => []TypeOK
<1>1. DepotInv => TypeOK
    BY DEF DepotInv
<1> QED
    BY <1>1, InvariantHolds, PTL

(* No file row outlives its archive, so DB::make_file and the searches for *)
(* neighbouring rows never meet a row without an archive.                  *)
THEOREM RowsKeepArchive == Spec => []RowsHaveArchive
<1>1. DepotInv => RowsHaveArchive
    BY DEF DepotInv
<1> QED
    BY <1>1, InvariantHolds, PTL

(* The assertion of Depot::uninstall_file that a row precedes the one it   *)
(* uninstalls cannot fail.                                                 *)
THEOREM PrecedingNeverMissing == Spec => []RowsArePreceded
<1>1. DepotInv => RowsArePreceded
    BY InvPreceded
<1> QED
    BY <1>1, InvariantHolds, PTL
=============================================================================
