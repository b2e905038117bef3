-------------------------- MODULE DepotInstallProofs -------------------------
(***************************************************************************)
(* Two proofs about an installation.  BackupFirst: it destroys no data it  *)
(* has promised to keep.  CompleteWhenActive: what it makes active is all  *)
(* there.                                                                  *)
(***************************************************************************)
EXTENDS DepotProofs

(***************************************************************************)
(* The proof that an installation destroys no data it has promised to      *)
(* keep: BackupBeforeOverwrite, for every value of the constants but one.  *)
(* BusyEdits is FALSE: between the analysis of a path and its backup the   *)
(* user leaves the path alone.  RollbackKept follows the data of the rows  *)
(* of the rollback archive from the file system into its directory and     *)
(* from there into its tarball.                                            *)
(***************************************************************************)

BackupInv == DepotInv /\ RollbackKept /\ SavedIsFile

(* Rows that are kept or deleted, never written, keep SavedIsFile.         *)
LEMMA RowsGo ==
    ASSUME SavedIsFile,
           \A s \in Serials, p \in Paths :
               files'[s][p] = None \/ files'[s][p] = files[s][p]
    PROVE  SavedIsFile'
    BY DEF SavedIsFile, IsSaved, PathsOf

(* RollbackKept says nothing of the other steps of a command.              *)
LEMMA OtherSteps ==
    ASSUME pc' \notin {"compact", "backup", "install"}
    PROVE  RollbackKept'
    BY DEF RollbackKept

(* The rows Depot::install writes: those of the rollback archive describe  *)
(* what is there, and those whose data is to be kept describe files.       *)
LEMMA InstallKeeps ==
    ASSUME BackupInv, NEW root \in Roots, Install(root)
    PROVE  RollbackKept' /\ SavedIsFile'
<1> DEFINE rb     == nextSerial
           s      == nextSerial + 1
           staged == {p \in Paths : root[p] # Absent}
           saved  == {p \in staged :
                         NeedsRollbackRow(files, s, p, fs[p], root[p])}
<1>1. rb \in Serials /\ s \in Serials /\ rb < s
    BY MaxSerialAssumption DEF BackupInv, DepotInv, TypeOK, Install, Serials
<1>2. \A p \in Paths :
          /\ files'[rb][p] = IF p \in saved
                 THEN RollbackRow(files, s, p, fs[p], root[p]) ELSE None
          /\ files'[s][p] = IF p \in staged
                 THEN StagedRow(files, s, p, fs[p], root[p]) ELSE None
    BY <1>1 DEF Install, BackupInv, DepotInv, TypeOK, FileTab
<1>3. \A t \in Serials : t # rb /\ t # s => files'[t] = files[t]
    BY <1>1 DEF Install, BackupInv, DepotInv, TypeOK, FileTab
<1>4. cur' = s /\ pc' = "compact" /\ fs' = fs /\ RollbackOf(s) = rb
    BY <1>1 DEF Install, RollbackOf, BackupInv, DepotInv, TypeOK
<1>5. \A p \in Paths :
          LET b == RollbackRow(files, s, p, fs[p], root[p])
              r == StagedRow(files, s, p, fs[p], root[p])
          IN  /\ b.node = fs[p]
              /\ "ROLLBACK_DATA" \in b.flags => fs[p] # Absent
              /\ "ROLLBACK_DATA" \notin r.flags
    BY DEF RollbackRow, StagedRow, ActualFlags, StagedFlags
<1> HIDE DEF rb, s, staged, saved
<1>6. \A p \in PathsOf(files', rb) : files'[rb][p].node = fs[p]
    BY <1>2, <1>5 DEF PathsOf
<1>7. RollbackKept'
    BY <1>4, <1>6 DEF RollbackKept, RollbackOf
<1>8. SavedIsFile'
  <2> SUFFICES ASSUME NEW t \in Serials, NEW p \in Paths,
                      files'[t][p] # None, "ROLLBACK_DATA" \in files'[t][p].flags
               PROVE  files'[t][p].node # Absent
    BY DEF SavedIsFile, IsSaved, PathsOf
  <2>1. CASE t = rb
    BY <2>1, <1>2, <1>5
  <2>2. CASE t = s
    BY <2>2, <1>2, <1>5
  <2>3. CASE t # rb /\ t # s
    BY <2>3, <1>3 DEF BackupInv, SavedIsFile, IsSaved, PathsOf
  <2> QED
    BY <2>1, <2>2, <2>3
<1> QED
    BY <1>7, <1>8

(* Depot::backup_file adds one path to what the directory holds.           *)
LEMMA BackupFileKeeps == BackupInv /\ BackupFile => RollbackKept'
<1> SUFFICES ASSUME BackupInv, BackupFile PROVE RollbackKept'
    OBVIOUS
<1> DEFINE rb == RollbackOf(cur)
<1>1. pc = "backup" /\ pc' = "backup" /\ UNCHANGED <<fs, files, cur>>
    BY DEF BackupFile, db
<1>2. PICK p \in todo :
          /\ todo' = todo \ {p}
          /\ IF IsSaved(rb, p)
             THEN expanded' = [expanded EXCEPT ![rb][p] = fs[p]]
             ELSE UNCHANGED expanded
    BY DEF BackupFile
<1>3. rb \in Serials /\ expanded[rb] \in [Paths -> Entry]
      /\ expanded \in [Serials -> Tree \cup {None}]
      /\ p \in Paths /\ p \in PathsOf(files, rb)
    BY <1>1, InstallStores DEF BackupInv, DepotInv, TypeOK, CommandShape, Tree
<1>4. \A q \in PathsOf(files, rb) : fs[q] = files[rb][q].node
    BY <1>1 DEF BackupInv, RollbackKept
<1>5. ASSUME NEW q \in PathsOf(files, rb), IsSaved(rb, q), q \notin todo'
      PROVE  expanded'[rb][q] = files[rb][q].node
  <2>1. CASE q = p
    BY <2>1, <1>2, <1>3, <1>4, <1>5
  <2>2. CASE q # p
    <3>1. expanded[rb][q] = files[rb][q].node
        BY <2>2, <1>1, <1>2, <1>5 DEF BackupInv, RollbackKept
    <3>2. expanded'[rb][q] = expanded[rb][q]
        BY <2>2, <1>2, <1>3 DEF PathsOf
    <3> QED
        BY <3>1, <3>2
  <2> QED
    BY <2>1, <2>2
<1> QED
    BY <1>1, <1>4, <1>5 DEF RollbackKept, RollbackOf, PathsOf, IsSaved

(* Archive::compact_directory packs all that was copied.                   *)
LEMMA CompactRollbackKeeps == BackupInv /\ CompactRollback => RollbackKept'
<1> SUFFICES ASSUME BackupInv, CompactRollback PROVE RollbackKept'
    OBVIOUS
<1> DEFINE rb == RollbackOf(cur)
<1>1. pc = "backup" /\ todo = {} /\ pc' = "install" /\ UNCHANGED <<files, cur>>
    BY DEF CompactRollback, db
<1>2. rb \in Serials /\ expanded[rb] \in Tree
    BY <1>1, InstallStores DEF BackupInv
<1>3. ASSUME NEW p \in PathsOf(files, rb), IsSaved(rb, p)
      PROVE  /\ tarball'[rb] \notin Unfinished
             /\ tarball'[rb][p] # Absent
             /\ tarball'[rb][p].data = files[rb][p].node.data
  <2>1. tarball'[rb] = expanded[rb]
    BY <1>2, <1>3 DEF CompactRollback, BackupInv, DepotInv, TypeOK
  <2>2. expanded[rb][p] = files[rb][p].node
    BY <1>1, <1>3 DEF BackupInv, RollbackKept
  <2>3. files[rb][p].node # Absent
    BY <1>2, <1>3 DEF BackupInv, SavedIsFile
  <2>4. expanded[rb] \notin Unfinished
    BY <1>2, NoneAssumption, TornAssumption, HollowAssumption DEF Unfinished
  <2> QED
    BY <2>1, <2>2, <2>3, <2>4
<1> QED
    BY <1>1, <1>3 DEF RollbackKept, HoldsData, RollbackOf, PathsOf, IsSaved

(* The remaining steps leave the store and the rows of the rollback        *)
(* archive alone while an installation runs.                               *)
LEMMA StepKeeps ==
    ASSUME BackupInv, ~BusyEdits, [Next]_vars
    PROVE  RollbackKept' /\ SavedIsFile'
<1>1. CASE \E root \in Roots : Install(root)
    BY <1>1, InstallKeeps
<1>2. CASE \E s \in Serials : Uninstall(s)
    BY <1>2, OtherSteps, RowsGo DEF Uninstall, db, BackupInv
<1>3. CASE CompactArchive
  <2>1. RollbackKept'
    BY <1>3 DEF CompactArchive, BackupInv, RollbackKept, PathsOf, IsSaved, db
  <2> QED
    BY <1>3, <2>1, RowsGo DEF CompactArchive, db, BackupInv
<1>4. CASE BackupFile
    BY <1>4, BackupFileKeeps, RowsGo DEF BackupFile, db, BackupInv
<1>5. CASE CompactRollback
    BY <1>5, CompactRollbackKeeps, RowsGo DEF CompactRollback, db, BackupInv
<1>6. CASE InstallFile \/ InstallFileFails
  <2>1. pc = "install" /\ UNCHANGED <<pc, cur, files, tarball>>
    BY <1>6 DEF InstallFile, InstallFileFails, db, store
  <2>2. RollbackKept'
    BY <2>1 DEF BackupInv, RollbackKept, HoldsData, PathsOf, IsSaved
  <2> QED
    BY <2>1, <2>2, RowsGo DEF BackupInv
<1>7. CASE Activate \/ Cleanup \/ Crash \/ (Failure /\ ~InstallFileFails)
  <2>1. pc' \notin {"compact", "backup", "install"} /\ files' = files
    <3>1. CASE Activate \/ Cleanup \/ Crash
        BY <3>1 DEF Activate, Cleanup, Crash, Idle, db
    <3>2. CASE CompactArchiveFails \/ BackupFileAborts \/ CompactRollbackFails
        BY <3>2 DEF CompactArchiveFails, BackupFileAborts,
                    CompactRollbackFails, Idle, db
    <3>3. CASE NotActivated \/ UninstallFileFails
        BY <3>3 DEF NotActivated, UninstallFileFails, UninstallNext, db
    <3> QED
        BY <1>7, <3>1, <3>2, <3>3 DEF Failure
  <2> QED
    BY <2>1, OtherSteps, RowsGo DEF BackupInv
<1>8. CASE UninstallStep
  <2>1. pc' \notin {"compact", "backup", "install"}
    BY <1>8 DEF UninstallStep, Deactivate, LeaveUnclaimed, RemoveFile,
                RestoreData, RestoreDataFails, RestoreMeta, UninstallStops,
                DeleteRows, RemoveArchive, Prune, UninstallNext, Idle
  <2>2. CASE DeleteRows
    BY <2>1, <2>2, OtherSteps, RowsGo DEF DeleteRows, BackupInv
  <2>3. CASE RemoveArchive
    BY <2>1, <2>3, OtherSteps, RowsGo
       DEF RemoveArchive, DeleteFiles, NoFiles, BackupInv, DepotInv, TypeOK,
           FileTab
  <2>4. CASE ~DeleteRows /\ ~RemoveArchive
    <3>1. files' = files
        BY <1>8, <2>4 DEF UninstallStep, Deactivate, LeaveUnclaimed,
           RemoveFile, RestoreData, RestoreDataFails, RestoreMeta,
           UninstallStops, Prune, UninstallNext, db
    <3> QED
        BY <2>1, <3>1, OtherSteps, RowsGo DEF BackupInv
  <2> QED
    BY <2>2, <2>3, <2>4
<1>9. CASE \E p \in Paths, e \in UserEntries : Edit(p, e)
    BY <1>9, OtherSteps, RowsGo DEF Edit, db, store, proc, BackupInv
<1>10. CASE UNCHANGED vars
  <2>1. RollbackKept'
    BY <1>10 DEF vars, db, store, proc, BackupInv, RollbackKept, HoldsData,
                 PathsOf, IsSaved
  <2> QED
    BY <1>10, <2>1, RowsGo DEF vars, db, BackupInv
<1> QED
    BY <1>1, <1>2, <1>3, <1>4, <1>5, <1>6, <1>7, <1>8, <1>9, <1>10
       DEF Next, InstallStep, Failure

(* Depot::install_file never destroys data that a rollback row promises to *)
(* keep before that data is in a finished tarball, whatever crashed or     *)
(* failed before: if nobody edits the paths of a root while it is          *)
(* installed.                                                              *)
THEOREM BackupFirst == ~BusyEdits /\ Spec => BackupBeforeOverwrite
<1> DEFINE Kept == \A p \in Paths :
          LET rb == RollbackOf(cur) IN
          /\ pc = "install" /\ pc' = "install" /\ cur > 1 /\ fs'[p] # fs[p]
          /\ files[rb][p] # None /\ IsSaved(rb, p)
          => HoldsData(rb, p, files[rb][p].node)
<1> SUFFICES ASSUME ~BusyEdits PROVE Spec => BackupBeforeOverwrite
    OBVIOUS
<1>1. Init => BackupInv
  <2> SUFFICES ASSUME Init PROVE BackupInv
    OBVIOUS
  <2>1. RollbackKept
    BY DEF Init, RollbackKept
  <2>2. SavedIsFile
    BY DEF Init, SavedIsFile, PathsOf, NoFiles
  <2> QED
    BY <2>1, <2>2, InitInv DEF BackupInv
<1>2. BackupInv /\ [Next]_vars => BackupInv'
    BY StepKeeps, NextInv DEF BackupInv
<1>3. BackupInv => Kept
    BY DEF BackupInv, RollbackKept, PathsOf
<1> HIDE DEF Kept
<1>4. Spec => [][Kept]_vars
    BY <1>1, <1>2, <1>3, PTL DEF Spec
<1> QED
    BY <1>4, PTL DEF BackupBeforeOverwrite, Kept

-----------------------------------------------------------------------------
(***************************************************************************)
(* The proof that an archive becomes active only with every file of it in  *)
(* place (ActivatedComplete), whatever died before and whatever was edited *)
(* between commands, as long as no system call fails and nobody edits the  *)
(* files while darwinup runs.  Arriving follows each file of the root from *)
(* the staging directory to its path.                                      *)
(***************************************************************************)

Installing == pc \in {"compact", "backup", "install"}

(* Depot::install_file has not reached the path yet. *)
Waits(p) == pc \in {"compact", "backup"} \/ p \in todo

(* A file that waits is in the staging directory or, where only its mode   *)
(* or owners are to change, already has the content of its row; a file     *)
(* that does not wait is what its row says.                                *)
Arrived ==
    Installing => \A p \in PathsOf(files, cur) :
        LET row == files[cur][p] IN
        /\ ~Waits(p) => fs[p] = row.node
        /\ Waits(p) /\ "INSTALL_DATA" \in row.flags =>
               expanded[cur][p] = row.node
        /\ Waits(p) /\ "INSTALL_DATA" \notin row.flags =>
               fs[p] # Absent /\ fs[p].data = row.node.data

(* The archive before the one being installed is its rollback archive.     *)
Served ==
    LET rb == RollbackOf(cur)
    IN  Installing /\ archives[rb] # None => archives[rb].rollback

Arriving == Arrived /\ Served

Faultless == budget.faults = 0

CompleteInv == DepotInv /\ Arriving /\ Faultless

(* What Depot::install stages and analyses: a file that is not to be moved *)
(* into place has the content that is there.                               *)
LEMMA InstallArrives ==
    ASSUME DepotInv, NEW root \in Roots, Install(root)
    PROVE  Arriving'
<1> DEFINE rb == nextSerial
           s  == nextSerial + 1
<1>1. rb \in Serials /\ s \in Serials /\ rb # s
    BY MaxSerialAssumption DEF DepotInv, TypeOK, Install, Serials
<1>2. root \in Tree /\ fs \in Tree
    BY RootsAssumption DEF DepotInv, TypeOK
<1>3. \A p \in Paths :
          files'[s][p] = IF root[p] # Absent
              THEN StagedRow(files, s, p, fs[p], root[p]) ELSE None
    BY <1>1 DEF Install, DepotInv, TypeOK, FileTab
<1>4. cur' = s /\ pc' = "compact" /\ fs' = fs
    BY DEF Install
<1>5. expanded'[s] = root
    BY <1>1 DEF Install, DepotInv, TypeOK
<1>6. \A p \in Paths :
          LET r == StagedRow(files, s, p, fs[p], root[p]) IN
          /\ r.node = root[p]
          /\ "INSTALL_DATA" \notin r.flags =>
                 ~DataDiffers(Compare(root[p], fs[p]))
    BY DEF StagedRow, StagedFlags
<1>7. ASSUME NEW p \in Paths, root[p] # Absent,
             ~DataDiffers(Compare(root[p], fs[p]))
      PROVE  fs[p] # Absent /\ fs[p].data = root[p].data
    BY <1>7 DEF DataDiffers, Compare
<1>8. Served'
  <2>1. archives'[rb] # None => archives'[rb].rollback
    BY <1>1 DEF Install, DepotInv, TypeOK
  <2> QED
    BY <1>1, <1>4, <2>1 DEF Served, RollbackOf, Serials
<1> HIDE DEF rb, s
<1>9. Arrived'
    BY <1>3, <1>4, <1>5, <1>6, <1>7 DEF Arrived, Waits, PathsOf
<1> QED
    BY <1>8, <1>9 DEF Arriving

(* The steps before the first file is moved leave the staging directory    *)
(* alone: Depot::backup_file writes the one of the rollback archive.       *)
LEMMA StillWaits ==
    ASSUME DepotInv, Arriving,
           CompactArchive \/ BackupFile \/ CompactRollback
    PROVE  Arriving'
<1>1. Installing /\ UNCHANGED <<fs, files, cur, archives>>
    BY DEF Installing, CompactArchive, BackupFile, CompactRollback, db
<1>2. cur \in Serials /\ RollbackOf(cur) \in Serials /\ cur # RollbackOf(cur)
    BY <1>1, InstallStores DEF Installing
<1>3. expanded'[cur] = expanded[cur]
    BY <1>2 DEF CompactArchive, BackupFile, CompactRollback, DepotInv, TypeOK
<1>4. \A p \in PathsOf(files, cur) : Waits(p) /\ Waits(p)'
    BY <1>1 DEF Waits, CompactArchive, BackupFile, CompactRollback
<1> QED
    BY <1>1, <1>3, <1>4 DEF Arriving, Arrived, Served, RollbackOf, PathsOf

(* Depot::install_file puts its file in place.                             *)
LEMMA InstallFileArrives == DepotInv /\ Arriving /\ InstallFile => Arriving'
<1> SUFFICES ASSUME DepotInv, Arriving, InstallFile PROVE Arriving'
    OBVIOUS
<1>1. pc = "install" /\ pc' = "install" /\ Installing
      /\ UNCHANGED <<files, cur, archives>>
    BY DEF InstallFile, db, Installing
<1>2. PICK p \in todo :
          /\ todo' = todo \ {p}
          /\ IF "INSTALL_DATA" \in files[cur][p].flags
             THEN /\ fs' = [fs EXCEPT ![p] = expanded[cur][p]]
                  /\ expanded' = [expanded EXCEPT ![cur][p] = Absent]
             ELSE /\ fs[p] # Absent
                  /\ fs' = [fs EXCEPT ![p].meta = files[cur][p].node.meta]
                  /\ UNCHANGED expanded
    BY DEF InstallFile
<1>3. /\ p \in PathsOf(files, cur) /\ p \in Paths /\ fs \in [Paths -> Entry]
      /\ cur \in Serials /\ expanded[cur] \in [Paths -> Entry]
      /\ expanded \in [Serials -> Tree \cup {None}]
    BY <1>1, InstallStores DEF DepotInv, TypeOK, CommandShape, Tree, PathsOf
<1>4. files[cur][p].node \in Node
    BY <1>1, <1>3, CurrentRow
<1>5. fs'[p] = files[cur][p].node
  <2>1. CASE "INSTALL_DATA" \in files[cur][p].flags
    BY <1>1, <1>2, <1>3, <2>1 DEF Arriving, Arrived, Waits
  <2>2. CASE "INSTALL_DATA" \notin files[cur][p].flags
    <3>1. fs[p] \in Node /\ fs[p].data = files[cur][p].node.data
        BY <1>1, <1>2, <1>3, <2>2 DEF Arriving, Arrived, Waits, Entry
    <3>2. fs'[p] = [fs[p] EXCEPT !.meta = files[cur][p].node.meta]
        BY <1>2, <1>3, <2>2
    <3> QED
        BY <1>4, <3>1, <3>2 DEF Node
  <2> QED
    BY <2>1, <2>2
<1>6. \A q \in PathsOf(files, cur) : q # p =>
          fs'[q] = fs[q] /\ expanded'[cur][q] = expanded[cur][q]
    BY <1>2, <1>3 DEF PathsOf
<1>7. \A q \in PathsOf(files, cur) : Waits(q)' <=> Waits(q) /\ q # p
    BY <1>1, <1>2 DEF Waits
<1> QED
    BY <1>1, <1>5, <1>6, <1>7
       DEF Arriving, Arrived, Served, Installing, RollbackOf, PathsOf

(* Without a failing call a file of the root cannot but be installed.      *)
LEMMA NoFileFails == DepotInv /\ Arriving /\ Faultless => ~InstallFileFails
<1> SUFFICES ASSUME DepotInv, Arriving, Faultless, InstallFileFails
             PROVE  FALSE
    OBVIOUS
<1>1. PICK p \in todo : \/ /\ "INSTALL_DATA" \notin files[cur][p].flags
                           /\ fs[p] = Absent
                        \/ Fault("faults")
    BY DEF InstallFileFails
<1>2. ~Fault("faults")
    BY DEF Faultless, Fault
<1>3. pc = "install" /\ p \in PathsOf(files, cur)
    BY DEF InstallFileFails, DepotInv, CommandShape
<1> QED
    BY <1>1, <1>2, <1>3 DEF Arriving, Arrived, Installing, Waits

(* Arriving says nothing of the other steps.                               *)
LEMMA StepArrives ==
    ASSUME DepotInv, Arriving, Faultless, ~BusyEdits, [Next]_vars
    PROVE  Arriving'
<1>1. CASE \E root \in Roots : Install(root)
    BY <1>1, InstallArrives
<1>2. CASE CompactArchive \/ BackupFile \/ CompactRollback
    BY <1>2, StillWaits
<1>3. CASE InstallFile
    BY <1>3, InstallFileArrives
<1>4. CASE InstallFileFails
    BY <1>4, NoFileFails
<1>5. CASE \/ Activate \/ Cleanup \/ Crash
           \/ Failure /\ ~InstallFileFails
           \/ \E s \in Serials : Uninstall(s)
  <2>1. ~Installing'
    <3>1. CASE Activate \/ Cleanup \/ Crash
        BY <3>1 DEF Installing, Activate, Cleanup, Crash, Idle
    <3>2. CASE CompactArchiveFails \/ BackupFileAborts \/ CompactRollbackFails
        BY <3>2 DEF Installing, CompactArchiveFails, BackupFileAborts,
                    CompactRollbackFails, Idle
    <3>3. CASE NotActivated \/ UninstallFileFails
        BY <3>3 DEF Installing, NotActivated, UninstallFileFails, UninstallNext
    <3>4. CASE \E s \in Serials : Uninstall(s)
        BY <3>4 DEF Installing, Uninstall
    <3> QED
        BY <1>5, <3>1, <3>2, <3>3, <3>4 DEF Failure
  <2> QED
    BY <2>1 DEF Arriving, Arrived, Served
<1>6. CASE UninstallStep
  <2>1. ~Installing'
    BY <1>6 DEF Installing, UninstallStep, Deactivate, LeaveUnclaimed,
                RemoveFile, RestoreData, RestoreDataFails, RestoreMeta,
                UninstallStops, DeleteRows, RemoveArchive, Prune,
                UninstallNext, Idle
  <2> QED
    BY <2>1 DEF Arriving, Arrived, Served
<1>7. CASE \E p \in Paths, e \in UserEntries : Edit(p, e)
  <2>1. ~Installing'
    BY <1>7 DEF Installing, Edit, proc
  <2> QED
    BY <2>1 DEF Arriving, Arrived, Served
<1>8. CASE UNCHANGED vars
    BY <1>8 DEF vars, db, store, proc, Arriving, Arrived, Served,
                Installing, Waits, RollbackOf, PathsOf
<1> QED
    BY <1>1, <1>2, <1>3, <1>4, <1>5, <1>6, <1>7, <1>8
       DEF Next, InstallStep, Failure

(* A budget that is spent stays spent.                                     *)
LEMMA NeverFaults ==
    ASSUME DepotInv, Faultless, [Next]_vars
    PROVE  Faultless'
<1>1. /\ ~Fault("faults")
      /\ Fault("edits") \/ Fault("crashes") => budget'.faults = 0
    BY DEF DepotInv, TypeOK, Faultless, Fault
<1>2. CASE budget' = budget
    BY <1>2 DEF Faultless
<1>3. CASE Fault("edits") \/ Fault("crashes")
    BY <1>1, <1>3 DEF Faultless
<1>4. budget' = budget \/ Fault("edits") \/ Fault("crashes") \/ Fault("faults")
  <2>1. CASE (\E root \in Roots : Install(root)) \/ InstallStep
             \/ (\E s \in Serials : Uninstall(s))
    BY <2>1 DEF Install, Uninstall, InstallStep, CompactArchive, BackupFile,
                CompactRollback, InstallFile, Activate, Cleanup
  <2>2. CASE UninstallStep
    BY <2>2 DEF UninstallStep, Deactivate, LeaveUnclaimed, RemoveFile,
                RestoreData, RestoreDataFails, RestoreMeta, UninstallStops,
                DeleteRows, RemoveArchive, Prune
  <2>3. CASE Failure
    BY <2>3 DEF Failure, CompactArchiveFails, BackupFileAborts,
                CompactRollbackFails, InstallFileFails, NotActivated,
                UninstallFileFails
  <2>4. CASE Crash \/ \E p \in Paths, e \in UserEntries : Edit(p, e)
    BY <2>4 DEF Crash, Edit
  <2>5. CASE UNCHANGED vars
    BY <2>5 DEF vars
  <2> QED
    BY <2>1, <2>2, <2>3, <2>4, <2>5 DEF Next
<1> QED
    BY <1>1, <1>2, <1>3, <1>4

ActivatedHere ==
    \A s \in Serials :
        /\ archives[s] # None /\ archives'[s] # None
        /\ ~archives[s].active /\ archives'[s].active
        /\ ~archives[s].rollback
        => \A p \in PathsOf(files, s) : fs[p] = files[s][p].node

(* Only the second transaction of Depot::install makes an archive active:  *)
(* the one the command has just installed, and its rollback archive.       *)
LEMMA OnlyActivate ==
    ASSUME DepotInv, NEW s \in Serials, [Next]_vars,
           archives[s] # None, archives'[s] # None,
           ~archives[s].active, archives'[s].active
    PROVE  Activate /\ s \in {cur, RollbackOf(cur)}
<1>1. archives \in [Serials -> Archive \cup {None}]
    BY DEF DepotInv, TypeOK
<1>2. CASE \E root \in Roots : Install(root)
  <2>1. PICK root \in Roots : Install(root)
    BY <1>2
  <2>2. /\ nextSerial \in Serials /\ nextSerial + 1 \in Serials
        /\ nextSerial # nextSerial + 1
    BY <2>1, MaxSerialAssumption DEF DepotInv, TypeOK, Install, Serials
  <2>3. s # nextSerial + 1 /\ s # nextSerial
    BY <2>1, <2>2, <1>1 DEF Install
  <2> QED
    BY <2>1, <2>2, <2>3, <1>1 DEF Install
<1>3. CASE Deactivate
  <2>1. cur \in Serials /\ archives[cur] \in Archive
    BY <1>1, <1>3 DEF Deactivate, DepotInv, CommandShape, IsRoot
  <2>2. s # cur
    BY <1>1, <1>3, <2>1 DEF Deactivate, Archive
  <2> QED
    BY <1>1, <1>3, <2>1, <2>2 DEF Deactivate
<1>4. CASE RemoveArchive \/ Prune
    BY <1>1, <1>4 DEF RemoveArchive, Prune
<1>5. CASE Activate
    BY <1>1, <1>5 DEF Activate
<1>6. CASE archives' = archives
    BY <1>6
<1>7. \/ \E root \in Roots : Install(root)
      \/ Deactivate \/ RemoveArchive \/ Prune \/ Activate
      \/ archives' = archives
  <2>1. CASE (\E t \in Serials : Uninstall(t)) \/ InstallStep
    BY <2>1 DEF Uninstall, InstallStep, CompactArchive, BackupFile,
                CompactRollback, InstallFile, Cleanup, db
  <2>2. CASE UninstallStep
    BY <2>2 DEF UninstallStep, LeaveUnclaimed, RemoveFile, RestoreData,
                RestoreDataFails, RestoreMeta, UninstallStops, DeleteRows,
                UninstallNext, db
  <2>3. CASE Failure
    BY <2>3 DEF Failure, CompactArchiveFails, BackupFileAborts,
                CompactRollbackFails, InstallFileFails, NotActivated,
                UninstallFileFails, UninstallNext, db
  <2>4. CASE Crash \/ \E p \in Paths, e \in UserEntries : Edit(p, e)
    BY <2>4 DEF Crash, Edit, db
  <2> QED
    BY <2>1, <2>2, <2>3, <2>4 DEF Next, vars, db
<1> QED
    BY <1>2, <1>3, <1>4, <1>5, <1>6, <1>7

(* Depot::install activates an archive only with every file of it in its   *)
(* place, whatever died in earlier commands and whatever was edited        *)
(* between commands, if no system call fails.                              *)
THEOREM CompleteWhenActive ==
    MaxFaults = 0 /\ ~BusyEdits /\ Spec => ActivatedComplete
<1> SUFFICES ASSUME MaxFaults = 0, ~BusyEdits
             PROVE  Spec => ActivatedComplete
    OBVIOUS
<1>1. Init => CompleteInv
    BY InitInv DEF Init, CompleteInv, Arriving, Arrived, Served, Installing,
                     Faultless
<1>2. CompleteInv /\ [Next]_vars => CompleteInv'
    BY NextInv, StepArrives, NeverFaults DEF CompleteInv
<1>3. CompleteInv /\ [Next]_vars => ActivatedHere
  <2> SUFFICES ASSUME CompleteInv, [Next]_vars, NEW s \in Serials,
                      archives[s] # None, archives'[s] # None,
                      ~archives[s].active, archives'[s].active,
                      ~archives[s].rollback,
                      NEW p \in PathsOf(files, s)
               PROVE  fs[p] = files[s][p].node
    BY DEF ActivatedHere
  <2>1. Activate /\ s \in {cur, RollbackOf(cur)}
    BY OnlyActivate DEF CompleteInv
  <2>2. CASE s = cur
    BY <2>1, <2>2
       DEF Activate, CompleteInv, Arriving, Arrived, Installing, Waits
  <2>3. CASE s = RollbackOf(cur)
    BY <2>1, <2>3 DEF Activate, CompleteInv, Arriving, Served, Installing
  <2> QED
    BY <2>1, <2>2, <2>3
<1> HIDE DEF ActivatedHere
<1>4. Spec => [][ActivatedHere]_vars
    BY <1>1, <1>2, <1>3, PTL DEF Spec
<1> QED
    BY <1>4, PTL DEF ActivatedComplete, ActivatedHere
=============================================================================
