----------------------------- MODULE DepotQuiet -----------------------------
(***************************************************************************)
(* The proof that a depot where no process dies, no call fails and nobody  *)
(* but darwinup writes below the prefix keeps its promises: whatever roots *)
(* are installed and uninstalled in whatever order, an active root can be  *)
(* uninstalled (ActiveRestorable), uninstalling what was just installed is *)
(* the identity (UninstallUndoesInstall), and without roots the system is  *)
(* what it was (OriginalRestored).                                         *)
(*                                                                         *)
(* What carries them is Showing: every path shows the newest row it has,   *)
(* and where it has none the file that was there at first.                 *)
(***************************************************************************)
EXTENDS DepotHistory, DepotInstallProofs

(* The archives with a row for the path, but for those that are hidden.    *)
Held(f, p, hidden) == {s \in Serials \ hidden : f[s][p] # None}

(* The path shows its newest row, or what was there at first.              *)
Shows(f, b, v, p, hidden) ==
    LET H == Held(f, p, hidden) IN
    /\ \A s \in H : (\A t \in H : t <= s) => v = f[s][p].node
    /\ H = {} => v = b[p]

(* The running command has still to install the path, or has uninstalled   *)
(* it but not yet deleted the row.                                         *)
Pending(p) == \/ pc \in {"compact", "backup", "remove", "prune"}
              \/ pc = "install" /\ p \in todo
              \/ pc = "uninstall" /\ p \notin todo

Hidden(p) == IF Pending(p) THEN {cur} ELSE {}

Showing == \A p \in Paths : Shows(files, base, fs[p], p, Hidden(p))

(* Rows are those of roots and, below them all, one of the base system.    *)
BaseRow(s, p) ==
    /\ files[s][p].node = base[p]
    /\ base[p] # Absent => IsSaved(s, p)
    /\ \A t \in Serials : t < s => files[t][p] = None

RowsOfStack ==
    \A s \in Serials : \A p \in PathsOf(files, s) :
        /\ IsRoot(s) \/ IsBase(s, p)
        /\ IsBase(s, p) => BaseRow(s, p)
        /\ "NO_ENTRY" \in files[s][p].flags => files[s][p].node = Absent

(* A root has rows until its uninstallation has deleted both.              *)
Rooted == /\ \A s \in Serials : IsRoot(s) => PathsOf(files, s) # {}
          /\ pc = "prune" => PathsOf(files, cur) = {}

(* Once its tarball is written, an archive has the files of all its rows.  *)
Unpacked(s) == \/ pc = "compact" /\ s \in {cur, RollbackOf(cur)}
               \/ pc = "backup" /\ s = RollbackOf(cur)

Packed ==
    /\ \A s \in Serials : \A p \in PathsOf(files, s) :
           files[s][p].node # Absent /\ ~Unpacked(s) =>
               tarball[s] \in Tree /\ tarball[s][p] = files[s][p].node
    /\ pc = "compact" => \A p \in PathsOf(files, cur) :
                             expanded[cur][p] = files[cur][p].node

(* A store expanded by an uninstallation lacks only what it has restored.  *)
Unfolded ==
    pc = "uninstall" => \A s \in Serials : expanded[s] # None =>
        \A p \in PathsOf(files, s) \cap todo :
            files[s][p].node # Absent => expanded[s][p] = files[s][p].node

(* What is being installed is newer than the rest and not yet active.      *)
Newest == Installing => /\ nextSerial = cur + 1
                        /\ archives[cur] # None /\ ~archives[cur].active

(* Nothing has gone wrong. *)
Calm == /\ budget.edits = 0 /\ budget.crashes = 0 /\ budget.faults = 0
        /\ res = "ok" /\ toRemove = {}

(* The tree before the last installation is the one without its rows.      *)
Undoing ==
    /\ base \in Tree /\ undo.tree \in Tree
    /\ undo.serial # 0 =>
           /\ \A p \in Paths :
                  Shows(files, base, undo.tree[p], p, {undo.serial})
           /\ pc \in {"deactivate", "uninstall", "remove", "prune"} =>
                  cur = undo.serial

QuietInv == /\ BackupInv /\ CompleteInv /\ Calm /\ Newest
            /\ RowsOfStack /\ Rooted /\ Packed /\ Unfolded
            /\ Showing /\ Undoing
-----------------------------------------------------------------------------
(* A set of archives that is not empty has a newest one.                   *)
LEMMA TopExists ==
    ASSUME NEW S \in SUBSET Serials, S # {}
    PROVE  \E s \in S : \A t \in S : t <= s
<1>1. S \in SUBSET (0..MaxSerial)
    BY MaxSerialAssumption DEF Serials
<1>2. Max(S) \in S /\ \A t \in S : Max(S) >= t
    BY <1>1, MaxExists, MaxSerialAssumption
<1>3. \A t \in S : t <= Max(S)
    BY <1>1, <1>2, MaxSerialAssumption
<1> QED
    BY <1>2, <1>3

(* What a path shows is determined by the rows.                            *)
LEMMA ShowsUnique ==
    ASSUME NEW f, NEW b, NEW p, NEW h, NEW v, NEW w,
           Shows(f, b, v, p, h), Shows(f, b, w, p, h)
    PROVE  v = w
<1>1. CASE Held(f, p, h) = {}
    BY <1>1 DEF Shows
<1>2. CASE Held(f, p, h) # {}
  <2>1. PICK s \in Held(f, p, h) : \A t \in Held(f, p, h) : t <= s
    BY <1>2, TopExists DEF Held
  <2> QED
    BY <2>1 DEF Shows
<1> QED
    BY <1>1, <1>2

(* The newest row is what the path shows.                                  *)
LEMMA ShowsTop ==
    ASSUME NEW f, NEW b, NEW p, NEW h, NEW s \in Held(f, p, h),
           \A t \in Held(f, p, h) : t <= s
    PROVE  Shows(f, b, f[s][p].node, p, h)
<1>1. \A t \in Held(f, p, h) : (\A u \in Held(f, p, h) : u <= t) => t = s
    BY MaxSerialAssumption DEF Held, Serials
<1> QED
    BY <1>1 DEF Shows

(* Where the same rows are held, the same is shown.                        *)
LEMMA ShowsSame ==
    ASSUME NEW f, NEW g, NEW b, NEW v, NEW p, NEW h, NEW k,
           Shows(f, b, v, p, h), Held(f, p, h) = Held(g, p, k),
           \A s \in Held(f, p, h) : f[s][p] = g[s][p]
    PROVE  Shows(g, b, v, p, k)
    BY DEF Shows

(* A row that a newer one covers does not matter to what is shown.         *)
LEMMA ShowsCovered ==
    ASSUME NEW f, NEW b, NEW v, NEW p, NEW c \in Serials, NEW s \in Serials,
           Shows(f, b, v, p, {}), f[s][p] # None, c < s
    PROVE  Shows(f, b, v, p, {c})
<1> DEFINE H == Held(f, p, {c})
<1>1. s \in H /\ H \in SUBSET Serials
    BY MaxSerialAssumption DEF Held, Serials
<1>2. PICK m \in H : \A t \in H : t <= m
    BY <1>1, TopExists, Zenon
<1>3. m \in Held(f, p, {}) /\ \A t \in Held(f, p, {}) : t <= m
    BY <1>1, <1>2, MaxSerialAssumption DEF Held, Serials
<1>4. v = f[m][p].node
    BY <1>3 DEF Shows
<1> QED
    BY <1>2, <1>4, ShowsTop

(* A root's rows describe files and have another row below them.           *)
LEMMA RootRow ==
    ASSUME QuietInv, NEW s \in Serials, IsRoot(s), NEW p \in PathsOf(files, s)
    PROVE  /\ IsPreceded(files, s, p) /\ ~IsBase(s, p)
           /\ files[s][p].node \in Node /\ files[s][p].node # Absent
<1>1. DepotInv
    BY DEF QuietInv, CompleteInv
<1>2. RowsArePreceded
    BY <1>1, InvPreceded
<1>3. files[s][p] \in FileRow
    BY <1>1 DEF DepotInv, TypeOK, FileTab, PathsOf
<1> QED
    BY <1>1, <1>2, <1>3 DEF RowsArePreceded, DepotInv, RowShape, IsRoot, IsBase,
                            FileRow, Entry

(* DarwinupDatabase::get_next_file: the newest of the older rows.          *)
LEMMA PrecedingTop ==
    ASSUME TypeOK, NEW s \in Serials, NEW p \in Paths, IsPreceded(files, s, p)
    PROVE  LET t == Preceding(files, s, p)
           IN  /\ t \in Below(files, s, p)
               /\ \A u \in Below(files, s, p) : u <= t
<1> DEFINE B == Below(files, s, p)
<1>1. B \in SUBSET (0..MaxSerial) /\ B # {}
    BY MaxSerialAssumption DEF Below, IsPreceded, Serials
<1>2. Max(B) \in B /\ \A u \in B : Max(B) >= u
    BY <1>1, MaxExists, MaxSerialAssumption
<1>3. \A u \in B : u <= Max(B)
    BY <1>1, <1>2, MaxSerialAssumption
<1> QED
    BY <1>2, <1>3 DEF Preceding

(* The row below a path that is to be uninstalled: nothing is noted for    *)
(* deletion, and its file can be had from its store.                       *)
LEMMA PreviousIsThere ==
    ASSUME QuietInv, pc = "uninstall", NEW p \in todo
    PROVE  LET t == Preceding(files, cur, p) IN
           /\ p \in PathsOf(files, cur) /\ cur \in Serials /\ IsRoot(cur)
           /\ IsPreceded(files, cur, p)
           /\ t \in Serials /\ t < cur /\ p \in PathsOf(files, t)
           /\ files[t][p] \in FileRow
           /\ "NO_ENTRY" \in files[t][p].flags <=> files[t][p].node = Absent
           /\ Spent(p) = {}
           /\ files[t][p].node # Absent =>
                  CanExpand(t) /\ Opened(t) \in Tree
                  /\ Opened(t)[p] = files[t][p].node
<1> DEFINE t == Preceding(files, cur, p)
<1>1. DepotInv /\ TypeOK
    BY DEF QuietInv, CompleteInv, DepotInv
<1>2. p \in PathsOf(files, cur) /\ cur \in Serials /\ IsRoot(cur)
    BY <1>1 DEF DepotInv, CommandShape, IsRoot
<1>3. IsPreceded(files, cur, p) /\ p \in Paths
    BY <1>2, RootRow DEF PathsOf
<1>4. /\ t \in Serials /\ t < cur /\ p \in PathsOf(files, t)
      /\ files[t][p] \in FileRow
    BY <1>1, <1>2, <1>3, PrecedingIsRow DEF PathsOf
<1>5. /\ IsRoot(t) \/ IsBase(t, p)
      /\ "NO_ENTRY" \in files[t][p].flags => files[t][p].node = Absent
    BY <1>4 DEF QuietInv, RowsOfStack
<1>6. files[t][p].node = Absent => "NO_ENTRY" \in files[t][p].flags
    BY <1>1, <1>4 DEF DepotInv, RowShape
<1>7. \/ "BASE_SYSTEM" \in files[t][p].flags
      \/ files[t][p].flags \cap {"NO_ENTRY", "ROLLBACK_DATA"} = {}
    BY <1>1, <1>4, <1>5 DEF IsBase, DepotInv, RowShape, IsRoot
<1>8. Spent(p) = {}
    BY <1>7 DEF Spent, Previous
<1>9. ASSUME files[t][p].node # Absent
      PROVE  /\ CanExpand(t) /\ Opened(t) \in Tree
             /\ Opened(t)[p] = files[t][p].node
  <2>1. tarball[t] \in Tree /\ tarball[t][p] = files[t][p].node
    BY <1>4, <1>9 DEF QuietInv, Packed, Unpacked
  <2>2. tarball[t] \notin Unfinished
    BY <2>1, NoneAssumption, TornAssumption, HollowAssumption DEF Unfinished
  <2>3. expanded[t] # None =>
            expanded[t] \in Tree /\ expanded[t][p] = files[t][p].node
    BY <1>1, <1>4, <1>9 DEF QuietInv, Unfolded, TypeOK
  <2> QED
    BY <2>1, <2>2, <2>3 DEF CanExpand, Opened
<1> QED
    BY <1>2, <1>3, <1>4, <1>5, <1>6, <1>8, <1>9

(* Where nothing supersedes the row, the path is the archive's, and once   *)
(* it is gone the path has to show the row below.                          *)
LEMMA OwnPath ==
    ASSUME QuietInv, pc = "uninstall", NEW p \in todo,
           ~IsSuperseded(files, cur, p)
    PROVE  /\ fs[p] = files[cur][p].node /\ fs[p] \in Node /\ fs[p] # Absent
           /\ Claims(cur, p)
           /\ Shows(files, base, Previous(p).node, p, {cur})
<1> DEFINE t == Preceding(files, cur, p)
<1>1. DepotInv /\ TypeOK
    BY DEF QuietInv, CompleteInv, DepotInv
<1>2. /\ p \in PathsOf(files, cur) /\ p \in Paths /\ cur \in Serials
      /\ IsRoot(cur) /\ IsPreceded(files, cur, p)
    BY PreviousIsThere DEF PathsOf
<1>3. files[cur][p].node \in Node /\ files[cur][p].node # Absent
      /\ ~IsBase(cur, p)
    BY <1>2, RootRow
<1>4. Hidden(p) = {}
    BY DEF Hidden, Pending
<1>5. cur \in Held(files, p, {}) /\ \A u \in Held(files, p, {}) : u <= cur
    BY <1>2, MaxSerialAssumption
       DEF Held, PathsOf, IsSuperseded, Above, Serials
<1>6. fs[p] = files[cur][p].node
    BY <1>2, <1>4, <1>5 DEF QuietInv, Showing, Shows
<1>7. Claims(cur, p)
    BY <1>2, <1>3, <1>6 DEF Claims, Compare, IsBase, PathsOf
<1>8. t \in Below(files, cur, p) /\ \A u \in Below(files, cur, p) : u <= t
    BY <1>1, <1>2, PrecedingTop
<1>9. Held(files, p, {cur}) = Below(files, cur, p)
    BY <1>2, MaxSerialAssumption
       DEF Held, PathsOf, IsSuperseded, Above, Below, Serials
<1>10. Shows(files, base, Previous(p).node, p, {cur})
    BY <1>8, <1>9, ShowsTop DEF Previous
<1> QED
    BY <1>3, <1>6, <1>7, <1>10

(* Where a newer row supersedes it, the path is left as it is.             *)
LEMMA OthersPath ==
    ASSUME QuietInv, pc = "uninstall", NEW p \in todo,
           IsSuperseded(files, cur, p)
    PROVE  ~Claims(cur, p) /\ Shows(files, base, fs[p], p, {cur})
<1>1. p \in Paths /\ cur \in Serials
    BY PreviousIsThere DEF PathsOf
<1>2. Shows(files, base, fs[p], p, {})
    BY <1>1 DEF QuietInv, Showing, Hidden, Pending
<1>3. PICK s \in Serials : s > cur /\ files[s][p] # None
    BY DEF IsSuperseded, Above
<1>4. cur < s
    BY <1>1, <1>3, MaxSerialAssumption DEF Serials
<1> QED
    BY <1>1, <1>2, <1>3, <1>4, ShowsCovered DEF Claims

(* What a command does when nothing goes wrong.                            *)
QuietStep ==
    \/ \E root \in Roots : Install(root)
    \/ \E s \in Serials : Uninstall(s)
    \/ InstallStep
    \/ Deactivate \/ LeaveUnclaimed \/ RemoveFile \/ RestoreData \/ RestoreMeta
    \/ DeleteRows \/ RemoveArchive \/ Prune

(* No call can fail for lack of a file: what is to be copied, installed or *)
(* restored is there.                                                      *)
LEMMA OnlyQuietSteps == QuietInv /\ Next => QuietStep
<1> SUFFICES ASSUME QuietInv, Next, ~QuietStep PROVE FALSE
    OBVIOUS
<1>1. \A kind \in {"edits", "crashes", "faults"} : ~Fault(kind)
    BY DEF QuietInv, Calm, Fault
<1>2. CASE Crash \/ \E p \in Paths, e \in UserEntries : Edit(p, e)
    BY <1>1, <1>2 DEF Crash, Edit
<1>3. CASE CompactArchiveFails \/ CompactRollbackFails \/ UninstallFileFails
           \/ NotActivated \/ UninstallStops
    BY <1>1, <1>3 DEF CompactArchiveFails, CompactRollbackFails,
                      UninstallFileFails, NotActivated, UninstallStops,
                      QuietInv, Calm
<1>4. CASE InstallFileFails
    BY <1>4, NoFileFails DEF QuietInv, CompleteInv
<1>5. CASE BackupFileAborts
  <2>1. PICK p \in todo : IsSaved(RollbackOf(cur), p) /\ fs[p] = Absent
    BY <1>1, <1>5 DEF BackupFileAborts
  <2>2. pc = "backup" /\ p \in PathsOf(files, RollbackOf(cur))
        /\ RollbackOf(cur) \in Serials
    BY <1>5, InstallStores
       DEF BackupFileAborts, QuietInv, BackupInv, DepotInv, CommandShape
  <2> QED
    BY <2>1, <2>2 DEF QuietInv, BackupInv, RollbackKept, SavedIsFile
<1>6. CASE RestoreDataFails
  <2>1. pc = "uninstall"
    BY <1>6 DEF RestoreDataFails, UninstallNext
  <2>2. PICK p \in todo : LET t == Preceding(files, cur, p) IN
            /\ "NO_ENTRY" \notin Previous(p).flags
            /\ ~(CanExpand(t) /\ Opened(t)[p] # Absent)
    BY <1>6 DEF RestoreDataFails
  <2> QED
    BY <2>1, <2>2, PreviousIsThere DEF Previous
<1> QED
    BY <1>2, <1>3, <1>4, <1>5, <1>6
       DEF Next, QuietStep, UninstallStep, Failure

(* Nothing goes wrong in a step of which nothing is known to go wrong.     *)
LEMMA CalmStays == QuietInv /\ QuietStep => Calm'
<1> SUFFICES ASSUME QuietInv, QuietStep PROVE Calm'
    OBVIOUS
<1>1. budget' = budget
    BY DEF QuietStep, Install, Uninstall, InstallStep, CompactArchive,
           BackupFile, CompactRollback, InstallFile, Activate, Cleanup,
           Deactivate, LeaveUnclaimed, RemoveFile, RestoreData, RestoreMeta,
           DeleteRows, RemoveArchive, Prune
<1>2. res = "ok" /\ toRemove = {}
    BY DEF QuietInv, Calm
<1>3. res' = "ok"
    BY <1>2 DEF QuietStep, Install, Uninstall, InstallStep, CompactArchive,
           BackupFile, CompactRollback, InstallFile, Activate, Cleanup,
           Deactivate, LeaveUnclaimed, RemoveFile, RestoreData, RestoreMeta,
           DeleteRows, RemoveArchive, Prune, Idle
<1>4. toRemove' = {}
  <2>1. CASE RemoveFile \/ RestoreData \/ RestoreMeta
    <3>1. pc = "uninstall"
        BY <2>1 DEF RemoveFile, RestoreData, RestoreMeta, UninstallNext
    <3>2. PICK p \in todo : toRemove' = toRemove \cup Spent(p)
        BY <2>1 DEF RemoveFile, RestoreData, RestoreMeta
    <3> QED
        BY <1>2, <3>1, <3>2, PreviousIsThere
  <2>2. CASE ~(RemoveFile \/ RestoreData \/ RestoreMeta)
    BY <1>2, <2>2
       DEF QuietStep, Install, Uninstall, InstallStep, CompactArchive,
           BackupFile, CompactRollback, InstallFile, Activate, Cleanup,
           Deactivate, LeaveUnclaimed, DeleteRows, RemoveArchive, Prune, Idle
  <2> QED
    BY <2>1, <2>2
<1> QED
    BY <1>1, <1>2, <1>3, <1>4 DEF QuietInv, Calm

(* While it is installed, an archive stays the newest and is not active.   *)
LEMMA NewestStays == QuietInv /\ QuietStep => Newest'
<1> SUFFICES ASSUME QuietInv, QuietStep, Installing' PROVE Newest'
    BY DEF Newest
<1>1. CASE \E root \in Roots : Install(root)
  <2>1. PICK root \in Roots : Install(root)
    BY <1>1
  <2>2. nextSerial + 1 \in Serials /\ nextSerial \in Nat
    BY <2>1, MaxSerialAssumption
       DEF QuietInv, CompleteInv, DepotInv, TypeOK, Install, Serials
  <2>3. archives'[nextSerial + 1] = [rollback |-> FALSE, active |-> FALSE]
    BY <2>1, <2>2 DEF QuietInv, CompleteInv, DepotInv, TypeOK, Install
  <2>4. cur' = nextSerial + 1 /\ nextSerial' = cur' + 1
    BY <2>1, <2>2 DEF Install
  <2>5. archives'[cur'] # None
    <3>1. [rollback |-> FALSE, active |-> FALSE] \in Archive
        BY DEF Archive
    <3> QED
        BY <2>3, <2>4, <3>1, NoArchiveAssumption
  <2> QED
    BY <2>3, <2>4, <2>5 DEF Newest
<1>2. CASE CompactArchive \/ BackupFile \/ CompactRollback \/ InstallFile
    BY <1>2 DEF Newest, Installing, QuietInv, CompactArchive, BackupFile,
                CompactRollback, InstallFile, db
<1>3. CASE ~(\/ \E root \in Roots : Install(root)
             \/ CompactArchive \/ BackupFile \/ CompactRollback \/ InstallFile)
  <2>1. pc' \notin {"compact", "backup", "install"}
    BY <1>3 DEF QuietStep, Uninstall, InstallStep, Activate, Cleanup,
           Deactivate, LeaveUnclaimed, RemoveFile, RestoreData, RestoreMeta,
           DeleteRows, RemoveArchive, Prune, UninstallNext, Idle
  <2> QED
    BY <2>1 DEF Installing
<1> QED
    BY <1>1, <1>2, <1>3

(* No row of user data was noted, so Database::delete_files deletes none.  *)
LEMMA NothingDeleted == QuietInv /\ DeleteRows => files' = files
<1> SUFFICES ASSUME QuietInv, DeleteRows PROVE files' = files
    OBVIOUS
<1>1. toRemove = {}
    BY DEF QuietInv, Calm
<1>2. files \in [Serials -> [Paths -> FileRow \cup {None}]]
    BY DEF QuietInv, CompleteInv, DepotInv, TypeOK, FileTab
<1>3. files' = [s \in Serials |-> [p \in Paths |-> files[s][p]]]
    BY <1>1 DEF DeleteRows
<1>4. \A s \in Serials : [p \in Paths |-> files[s][p]] = files[s]
    BY <1>2
<1> QED
    BY <1>2, <1>3, <1>4

(* Rows are written by Depot::install and go with their archive.           *)
LEMMA FilesChange ==
    ASSUME QuietInv, QuietStep
    PROVE  \/ \E root \in Roots : Install(root)
           \/ RemoveArchive
           \/ files' = files
    BY NothingDeleted
       DEF QuietStep, Uninstall, InstallStep, CompactArchive, BackupFile,
           CompactRollback, InstallFile, Activate, Cleanup, Deactivate,
           LeaveUnclaimed, RemoveFile, RestoreData, RestoreMeta, Prune,
           UninstallNext, db

(* The rows of the archive that is removed, and no other.                  *)
LEMMA RowsRemoved ==
    ASSUME QuietInv, RemoveArchive
    PROVE  /\ cur \in Serials /\ pc = "remove"
           /\ \A p \in Paths : files'[cur][p] = None
           /\ \A s \in Serials : s # cur => files'[s] = files[s]
           /\ archives'[cur] = None
           /\ \A s \in Serials : s # cur => archives'[s] = archives[s]
    BY DEF RemoveArchive, DeleteFiles, NoFiles, QuietInv, CompleteInv,
           DepotInv, TypeOK, FileTab, CommandShape, IsRoot

(* Steps that only delete rows, and keep the archives of the others.       *)
LEMMA StackFrame ==
    ASSUME QuietInv, base' = base,
           \A s \in Serials, p \in Paths :
               files'[s][p] # None =>
                   /\ files'[s][p] = files[s][p]
                   /\ archives'[s] # None
                   /\ archives'[s].rollback = archives[s].rollback
    PROVE  RowsOfStack'
<1> SUFFICES ASSUME NEW s \in Serials, NEW p \in Paths, files'[s][p] # None
             PROVE  /\ IsRoot(s)' \/ IsBase(s, p)'
                    /\ IsBase(s, p)' => BaseRow(s, p)'
                    /\ "NO_ENTRY" \in files'[s][p].flags =>
                           files'[s][p].node = Absent
    BY DEF RowsOfStack, PathsOf
<1>1. p \in PathsOf(files, s) /\ files'[s][p] = files[s][p]
    BY DEF PathsOf
<1>2. archives[s] # None
    BY <1>1 DEF QuietInv, CompleteInv, DepotInv, RowsHaveArchive
<1>3. IsRoot(s)' = IsRoot(s) /\ IsBase(s, p)' = IsBase(s, p)
    BY <1>1, <1>2 DEF IsRoot, IsBase
<1>4. BaseRow(s, p) => BaseRow(s, p)'
    BY <1>1 DEF BaseRow, IsSaved
<1> QED
    BY <1>1, <1>3, <1>4 DEF QuietInv, RowsOfStack

(* The first transaction of Depot::install in a depot where every path     *)
(* shows its newest row: user data is found only where there is no row     *)
(* yet, and that is the base system.                                       *)
LEMMA AnalyzedPath ==
    ASSUME QuietInv, pc = "idle", NEW s \in Serials, NEW p \in Paths,
           nextSerial < s, NEW a \in Node
    PROVE  LET b == RollbackRow(files, s, p, fs[p], a) IN
           /\ NeedsRollbackRow(files, s, p, fs[p], a) <=>
                  Held(files, p, {}) = {}
           /\ Held(files, p, {}) = {} =>
                  /\ fs[p] = base[p] /\ b.node = base[p]
                  /\ "BASE_SYSTEM" \in b.flags
                  /\ base[p] # Absent => "ROLLBACK_DATA" \in b.flags
                  /\ "NO_ENTRY" \in b.flags => base[p] = Absent
<1> DEFINE H == Held(files, p, {})
<1>1. DepotInv /\ TypeOK
    BY DEF QuietInv, CompleteInv, DepotInv
<1>2. H = Below(files, s, p)
  <2>1. ASSUME NEW t \in H PROVE t < s
    <3>1. ~(t >= nextSerial)
        BY <1>1, <2>1 DEF DepotInv, FreshSerials, Held, PathsOf
    <3> QED
        BY <1>1, <2>1, <3>1, MaxSerialAssumption DEF TypeOK, Held, Serials
  <2> QED
    BY <2>1 DEF Held, Below
<1>3. Shows(files, base, fs[p], p, {})
    BY DEF QuietInv, Showing, Hidden, Pending
<1>4. CASE H = {}
  <2>1. ~IsPreceded(files, s, p)
    BY <1>2, <1>4 DEF IsPreceded
  <2>2. fs[p] = base[p]
    BY <1>3, <1>4 DEF Shows
  <2> QED
    BY <1>4, <2>1, <2>2 DEF NeedsRollbackRow, RollbackRow, ActualFlags
<1>5. CASE H # {}
  <2>1. IsPreceded(files, s, p)
    BY <1>2, <1>5 DEF IsPreceded
  <2>2. /\ Preceding(files, s, p) \in H
        /\ \A u \in H : u <= Preceding(files, s, p)
    BY <1>1, <1>2, <2>1, PrecedingTop
  <2>3. fs[p] = files[Preceding(files, s, p)][p].node
    BY <1>3, <2>2 DEF Shows
  <2>4. UserChanged(files, s, p, fs[p]) = {}
    BY <2>1, <2>3 DEF UserChanged, PrecedingEntry, Compare
  <2>5. ActualFlags(files, s, p, fs[p], a)
            \cap {"BASE_SYSTEM", "ROLLBACK_DATA"} = {}
    BY <2>1, <2>4 DEF ActualFlags, DataDiffers
  <2> QED
    BY <1>5, <2>4, <2>5 DEF NeedsRollbackRow
<1> QED
    BY <1>4, <1>5

(* The rows and archives that the first transaction leaves, and the        *)
(* directory it has extracted.                                             *)
LEMMA InstalledRows ==
    ASSUME QuietInv, NEW root \in Roots, Install(root)
    PROVE  LET s == cur'  rb == RollbackOf(cur') IN
           /\ s \in Serials /\ rb \in Serials /\ rb = nextSerial /\ rb < s
           /\ nextSerial' = s + 1 /\ root \in Tree
           /\ \A p \in Paths : files[s][p] = None /\ files[rb][p] = None
           /\ \A p \in Paths :
                  /\ root[p] = Absent => files'[s][p] = None
                  /\ root[p] # Absent =>
                         /\ files'[s][p] # None /\ files'[s][p].node = root[p]
                         /\ files'[s][p].flags \subseteq {"INSTALL_DATA"}
                  /\ files'[rb][p] # None <=>
                         root[p] # Absent /\ Held(files, p, {}) = {}
                  /\ files'[rb][p] # None =>
                         /\ files'[rb][p].node = base[p]
                         /\ "BASE_SYSTEM" \in files'[rb][p].flags
                         /\ base[p] # Absent =>
                                "ROLLBACK_DATA" \in files'[rb][p].flags
                         /\ "NO_ENTRY" \in files'[rb][p].flags =>
                                base[p] = Absent
           /\ \A t \in Serials : t # rb /\ t # s =>
                  files'[t] = files[t] /\ archives'[t] = archives[t]
           /\ archives'[s] # None /\ ~archives'[s].rollback
           /\ expanded'[s] = root
<1> DEFINE rb     == nextSerial
           s      == nextSerial + 1
           staged == {p \in Paths : root[p] # Absent}
           saved  == {p \in staged :
                         NeedsRollbackRow(files, s, p, fs[p], root[p])}
<1>1. DepotInv /\ TypeOK
    BY DEF QuietInv, CompleteInv, DepotInv
<1>2. rb \in Serials /\ s \in Serials /\ rb < s /\ rb # s /\ pc = "idle"
    BY <1>1, MaxSerialAssumption DEF TypeOK, Install, Serials
<1>3. cur' = s /\ RollbackOf(cur') = rb /\ nextSerial' = s + 1
    BY <1>2, MaxSerialAssumption DEF Install, RollbackOf, Serials
<1>4. root \in Tree /\ \A p \in staged : root[p] \in Node
    BY RootsAssumption DEF Tree, Entry
<1>5. \A p \in Paths : files[s][p] = None /\ files[rb][p] = None
  <2>1. s >= nextSerial /\ rb >= nextSerial
    BY <1>1, <1>2, MaxSerialAssumption DEF TypeOK
  <2> QED
    BY <1>1, <1>2, <2>1 DEF DepotInv, FreshSerials, PathsOf
<1>6. /\ files' = [files EXCEPT
              ![rb] = [p \in Paths |-> IF p \in saved
                  THEN RollbackRow(files, s, p, fs[p], root[p]) ELSE None],
              ![s] = [p \in Paths |-> IF p \in staged
                  THEN StagedRow(files, s, p, fs[p], root[p]) ELSE None]]
      /\ archives' = [archives EXCEPT
              ![rb] = IF saved = {} THEN None
                      ELSE [rollback |-> TRUE, active |-> FALSE],
              ![s] = [rollback |-> FALSE, active |-> FALSE]]
      /\ expanded' = [expanded EXCEPT ![rb] = EmptyTree, ![s] = root]
    BY DEF Install
<1>7. \A p \in Paths :
          /\ files'[rb][p] = IF p \in saved
                 THEN RollbackRow(files, s, p, fs[p], root[p]) ELSE None
          /\ files'[s][p] = IF p \in staged
                 THEN StagedRow(files, s, p, fs[p], root[p]) ELSE None
    BY <1>1, <1>2, <1>6 DEF TypeOK, FileTab
<1>8. \A t \in Serials : t # rb /\ t # s =>
          files'[t] = files[t] /\ archives'[t] = archives[t]
    BY <1>1, <1>2, <1>6 DEF TypeOK, FileTab
<1>9. archives'[s] = [rollback |-> FALSE, active |-> FALSE]
  <2>1. PICK x : archives' = [archives EXCEPT ![rb] = x,
                    ![s] = [rollback |-> FALSE, active |-> FALSE]]
    BY <1>6
  <2>2. archives \in [Serials -> Archive \cup {None}]
    BY <1>1 DEF TypeOK
  <2> HIDE DEF rb, s
  <2> QED
    BY <1>2, <2>1, <2>2
<1>10. archives'[s] # None /\ ~archives'[s].rollback
  <2>1. [rollback |-> FALSE, active |-> FALSE] \in Archive
    BY DEF Archive
  <2> HIDE DEF s
  <2>2. archives'[s] # None
    BY <1>9, <2>1, NoArchiveAssumption, Zenon
  <2>3. ~archives'[s].rollback
    BY <1>9
  <2> QED
    BY <2>2, <2>3
<1>11. expanded'[s] = root
    BY <1>1, <1>2, <1>6 DEF TypeOK
<1>12. ASSUME NEW p \in Paths, p \in staged
       PROVE  /\ StagedRow(files, s, p, fs[p], root[p]) # None
              /\ StagedRow(files, s, p, fs[p], root[p]).node = root[p]
              /\ StagedRow(files, s, p, fs[p], root[p]).flags
                     \subseteq {"INSTALL_DATA"}
              /\ RollbackRow(files, s, p, fs[p], root[p]) # None
              /\ p \in saved <=> Held(files, p, {}) = {}
              /\ p \in saved =>
                    LET b == RollbackRow(files, s, p, fs[p], root[p]) IN
                    /\ b.node = base[p]
                    /\ "BASE_SYSTEM" \in b.flags
                    /\ base[p] # Absent => "ROLLBACK_DATA" \in b.flags
                    /\ "NO_ENTRY" \in b.flags => base[p] = Absent
  <2>1. fs[p] \in Entry /\ root[p] \in Node /\ nextSerial < s
    BY <1>1, <1>2, <1>4, <1>12 DEF TypeOK, Tree
  <2>2. /\ StagedRow(files, s, p, fs[p], root[p]) # None
        /\ StagedRow(files, s, p, fs[p], root[p]).node = root[p]
        /\ StagedRow(files, s, p, fs[p], root[p]).flags
               \subseteq {"INSTALL_DATA"}
        /\ RollbackRow(files, s, p, fs[p], root[p]) # None
    BY <1>2, <2>1, AnalyzeStage
  <2> QED
    BY <1>2, <1>12, <2>1, <2>2, AnalyzedPath
<1> HIDE DEF saved, s, rb
<1>13. \A p \in Paths :
          /\ root[p] = Absent => files'[s][p] = None
          /\ root[p] # Absent =>
                 /\ files'[s][p] # None /\ files'[s][p].node = root[p]
                 /\ files'[s][p].flags \subseteq {"INSTALL_DATA"}
          /\ files'[rb][p] # None <=>
                 root[p] # Absent /\ Held(files, p, {}) = {}
    BY <1>7, <1>12 DEF saved
<1>14. ASSUME NEW p \in Paths, files'[rb][p] # None
       PROVE  /\ files'[rb][p].node = base[p]
              /\ "BASE_SYSTEM" \in files'[rb][p].flags
              /\ base[p] # Absent => "ROLLBACK_DATA" \in files'[rb][p].flags
              /\ "NO_ENTRY" \in files'[rb][p].flags => base[p] = Absent
  <2>1. p \in saved /\ p \in staged
    BY <1>7, <1>14 DEF saved
  <2> QED
    BY <1>7, <1>12, <2>1
<1> QED
    BY <1>2, <1>3, <1>4, <1>5, <1>8, <1>10, <1>11, <1>13, <1>14 DEF rb

(* A step other than the removal of an archive keeps its kind.             *)
LEMMA ArchivesKeep ==
    ASSUME QuietInv, QuietStep, ~(\E root \in Roots : Install(root)),
           NEW s \in Serials, archives'[s] # None
    PROVE  archives[s] # None /\ archives'[s].rollback = archives[s].rollback
<1>1. archives \in [Serials -> Archive \cup {None}]
    BY DEF QuietInv, CompleteInv, DepotInv, TypeOK
<1>2. CASE Activate
  <2>1. archives'[s] = archives[s] \/ archives'[s] = Activated(archives[s])
    BY <1>1, <1>2 DEF Activate
  <2>2. archives[s] # None
    BY <2>1 DEF Activated
  <2>3. archives[s] \in Archive
    BY <1>1, <2>2
  <2>4. Activated(archives[s]).rollback = archives[s].rollback
    BY <2>2, <2>3 DEF Activated, Archive
  <2> QED
    BY <2>1, <2>2, <2>4
<1>3. CASE Deactivate
  <2>1. cur \in Serials /\ archives[cur] # None
    BY <1>3 DEF Deactivate, QuietInv, CompleteInv, DepotInv, CommandShape,
                IsRoot
  <2>2. archives[cur] \in Archive
    BY <1>1, <2>1
  <2>3. CASE s = cur
    BY <1>1, <1>3, <2>1, <2>2, <2>3 DEF Deactivate, Archive
  <2>4. CASE s # cur
    BY <1>1, <1>3, <2>1, <2>4 DEF Deactivate
  <2> QED
    BY <2>3, <2>4
<1>4. CASE RemoveArchive
    BY <1>4, RowsRemoved
<1>5. CASE Prune
    BY <1>1, <1>5 DEF Prune
<1>6. CASE ~(Activate \/ Deactivate \/ RemoveArchive \/ Prune)
    BY <1>6 DEF QuietStep, Uninstall, InstallStep, CompactArchive, BackupFile,
           CompactRollback, InstallFile, Cleanup, LeaveUnclaimed, RemoveFile,
           RestoreData, RestoreMeta, DeleteRows, UninstallNext, db
<1> QED
    BY <1>2, <1>3, <1>4, <1>5, <1>6

(* Depot::install puts a base row below the rows of a path that has none.  *)
LEMMA InstallStacks ==
    ASSUME QuietInv, NEW root \in Roots, Install(root), base' = base
    PROVE  RowsOfStack'
<1> DEFINE s  == cur'
           rb == RollbackOf(cur')
<1>1. /\ s \in Serials /\ rb \in Serials /\ rb = nextSerial /\ rb < s
      /\ \A p \in Paths : files[s][p] = None /\ files[rb][p] = None
      /\ \A t \in Serials : t # rb /\ t # s =>
             files'[t] = files[t] /\ archives'[t] = archives[t]
      /\ archives'[s] # None /\ ~archives'[s].rollback
    BY InstalledRows
<1> HIDE DEF s, rb
<1>2. /\ DepotInv /\ TypeOK /\ RowsHaveArchive
      /\ \A t \in Serials : t >= nextSerial => PathsOf(files, t) = {}
    BY DEF QuietInv, CompleteInv, DepotInv, FreshSerials
<1>3. ASSUME NEW t \in Serials, NEW p \in Paths, t # s, t # rb,
             files[t][p] # None
      PROVE  t < rb
  <2>1. ~(t >= rb)
    BY <1>1, <1>2, <1>3 DEF PathsOf
  <2> QED
    BY <1>1, <2>1, MaxSerialAssumption DEF Serials
<1> SUFFICES ASSUME NEW t \in Serials, NEW p \in Paths, files'[t][p] # None
             PROVE  /\ IsRoot(t)' \/ IsBase(t, p)'
                    /\ IsBase(t, p)' => BaseRow(t, p)'
                    /\ "NO_ENTRY" \in files'[t][p].flags =>
                           files'[t][p].node = Absent
    BY DEF RowsOfStack, PathsOf
<1>4. CASE t = s
  <2>1. root[p] # Absent /\ files'[t][p].flags \subseteq {"INSTALL_DATA"}
    BY <1>4, InstalledRows DEF s
  <2> QED
    BY <1>1, <1>4, <2>1 DEF IsRoot, IsBase
<1>5. CASE t = rb
  <2>1. /\ files'[t][p].node = base[p]
        /\ "BASE_SYSTEM" \in files'[t][p].flags
        /\ base[p] # Absent => "ROLLBACK_DATA" \in files'[t][p].flags
        /\ "NO_ENTRY" \in files'[t][p].flags => base[p] = Absent
        /\ Held(files, p, {}) = {}
    BY <1>5, InstalledRows DEF rb
  <2>2. ASSUME NEW u \in Serials, u < t PROVE files'[u][p] = None
    <3>1. u # rb /\ u # s
        BY <1>1, <1>5, <2>2, MaxSerialAssumption DEF Serials
    <3> QED
        BY <1>1, <2>1, <3>1 DEF Held
  <2> QED
    BY <2>1, <2>2 DEF IsBase, BaseRow, IsSaved
<1>6. CASE t # s /\ t # rb
  <2>1. files'[t] = files[t] /\ archives'[t] = archives[t]
        /\ p \in PathsOf(files, t)
    BY <1>1, <1>6 DEF PathsOf
  <2>2. t < rb
    BY <1>3, <1>6, <2>1 DEF PathsOf
  <2>3. \A u \in Serials : u < t => files'[u] = files[u]
    BY <1>1, <2>2, MaxSerialAssumption DEF Serials
  <2>4. BaseRow(t, p) => BaseRow(t, p)'
    BY <2>1, <2>3 DEF BaseRow, IsSaved
  <2>5. IsRoot(t)' = IsRoot(t) /\ IsBase(t, p)' = IsBase(t, p)
    BY <2>1 DEF IsRoot, IsBase
  <2> QED
    BY <2>1, <2>4, <2>5 DEF QuietInv, RowsOfStack
<1> QED
    BY <1>4, <1>5, <1>6

(* Rows stay those of roots over the base system.                          *)
LEMMA StackStays ==
    ASSUME QuietInv, QuietStep, DepotInv', base' = base
    PROVE  RowsOfStack'
<1>1. CASE \E root \in Roots : Install(root)
    BY <1>1, InstallStacks
<1>2. CASE ~(\E root \in Roots : Install(root))
  <2>1. \A s \in Serials, p \in Paths :
            files'[s][p] # None => files'[s][p] = files[s][p]
    BY <1>2, FilesChange, RowsRemoved
  <2>2. \A s \in Serials, p \in Paths :
            files'[s][p] # None => archives'[s] # None
    BY DEF DepotInv, RowsHaveArchive, PathsOf
  <2> QED
    BY <1>2, <2>1, <2>2, ArchivesKeep, StackFrame
<1> QED
    BY <1>1, <1>2

(* A root has rows until it goes.                                          *)
LEMMA RootedStays ==
    ASSUME QuietInv, QuietStep, Arriving'
    PROVE  Rooted'
<1>1. CASE \E root \in Roots : Install(root)
  <2>1. PICK root \in Roots : Install(root)
    BY <1>1
  <2> DEFINE s  == cur'
             rb == RollbackOf(cur')
  <2>2. /\ s \in Serials /\ rb \in Serials
        /\ \A t \in Serials : t # rb /\ t # s =>
               files'[t] = files[t] /\ archives'[t] = archives[t]
        /\ \A p \in Paths : root[p] # Absent => files'[s][p] # None
    BY <2>1, InstalledRows
  <2>3. pc' = "compact"
    BY <2>1 DEF Install
  <2>4. archives'[rb] # None => archives'[rb].rollback
    BY <2>3 DEF Arriving, Served, Installing
  <2>5. \E p \in Paths : root[p] # Absent
    BY RootsAssumption
  <2> HIDE DEF s, rb
  <2>6. ASSUME NEW t \in Serials, IsRoot(t)' PROVE PathsOf(files', t) # {}
    <3>1. CASE t = s
        BY <2>2, <2>5, <3>1 DEF PathsOf
    <3>2. CASE t # s
      <4>1. t # rb
        BY <2>4, <2>6 DEF IsRoot
      <4>2. files'[t] = files[t] /\ IsRoot(t)
        BY <2>2, <2>6, <3>2, <4>1 DEF IsRoot
      <4> QED
        BY <4>2 DEF QuietInv, Rooted, PathsOf
    <3> QED
        BY <3>1, <3>2
  <2> QED
    BY <2>3, <2>6 DEF Rooted
<1>2. CASE RemoveArchive
  <2>1. cur' = cur
    BY <1>2 DEF RemoveArchive
  <2>2. \A t \in Serials : IsRoot(t)' =>
            t # cur /\ IsRoot(t) /\ files'[t] = files[t]
    BY <1>2, RowsRemoved DEF IsRoot
  <2>3. PathsOf(files', cur') = {}
    BY <1>2, <2>1, RowsRemoved DEF PathsOf
  <2> QED
    BY <2>2, <2>3 DEF QuietInv, Rooted, PathsOf
<1>3. CASE ~(\E root \in Roots : Install(root)) /\ ~RemoveArchive
  <2>1. files' = files
    BY <1>3, FilesChange
  <2>2. \A t \in Serials : IsRoot(t)' => IsRoot(t)
    BY <1>3, ArchivesKeep DEF IsRoot
  <2>3. pc' # "prune"
    BY <1>3 DEF QuietStep, Uninstall, InstallStep, CompactArchive, BackupFile,
           CompactRollback, InstallFile, Activate, Cleanup, Deactivate,
           LeaveUnclaimed, RemoveFile, RestoreData, RestoreMeta, DeleteRows,
           Prune, UninstallNext, Idle
  <2> QED
    BY <2>1, <2>2, <2>3 DEF QuietInv, Rooted, PathsOf
<1> QED
    BY <1>1, <1>2, <1>3

(* The stores while an installation is analysed and packed.                *)
LEMMA InstallPacks ==
    ASSUME QuietInv, NEW root \in Roots, Install(root) PROVE Packed'
<1> DEFINE s  == cur'
           rb == RollbackOf(cur')
<1>1. /\ s \in Serials /\ rb \in Serials
      /\ \A t \in Serials : t # rb /\ t # s => files'[t] = files[t]
      /\ \A p \in Paths : files'[s][p] # None => files'[s][p].node = root[p]
      /\ expanded'[s] = root
    BY InstalledRows
<1>2. pc = "idle" /\ pc' = "compact" /\ tarball' = tarball
    BY DEF Install
<1>3. \A t \in Serials : t = s \/ t = rb => Unpacked(t)'
    BY <1>2 DEF Unpacked, RollbackOf
<1> HIDE DEF s, rb
<1>4. ASSUME NEW t \in Serials, NEW p \in PathsOf(files', t),
             files'[t][p].node # Absent, ~Unpacked(t)'
      PROVE  tarball'[t] \in Tree /\ tarball'[t][p] = files'[t][p].node
  <2>1. files'[t] = files[t] /\ p \in PathsOf(files, t)
    BY <1>1, <1>3, <1>4 DEF PathsOf
  <2> QED
    BY <1>2, <1>4, <2>1 DEF QuietInv, Packed, Unpacked
<1>5. \A p \in PathsOf(files', s) : expanded'[s][p] = files'[s][p].node
    BY <1>1 DEF PathsOf
<1> QED
    BY <1>4, <1>5 DEF Packed, s

(* Archive::compact_directory packs the files of every row of the archive. *)
LEMMA CompactPacks ==
    ASSUME QuietInv, CompactArchive PROVE Packed'
<1>1. DepotInv /\ TypeOK /\ pc = "compact" /\ pc' = "backup"
      /\ UNCHANGED <<files, cur>>
    BY DEF CompactArchive, QuietInv, CompleteInv, DepotInv, db
<1>2. cur \in Serials /\ RollbackOf(cur) \in Serials
      /\ cur # RollbackOf(cur) /\ expanded[cur] \in Tree
    BY <1>1, InstallStores
<1>3. tarball'[cur] = expanded[cur]
      /\ \A t \in Serials : t # cur => tarball'[t] = tarball[t]
    BY <1>1, <1>2 DEF CompactArchive, TypeOK
<1>4. ASSUME NEW t \in Serials, NEW p \in PathsOf(files, t),
             files[t][p].node # Absent, t # RollbackOf(cur)
      PROVE  tarball'[t] \in Tree /\ tarball'[t][p] = files[t][p].node
  <2>1. CASE t = cur
    BY <1>1, <1>2, <1>3, <2>1 DEF QuietInv, Packed
  <2>2. CASE t # cur
    BY <1>1, <1>3, <1>4, <2>2 DEF QuietInv, Packed, Unpacked
  <2> QED
    BY <2>1, <2>2
<1> QED
    BY <1>1, <1>4 DEF Packed, Unpacked, PathsOf, RollbackOf

(* So does the second call, for the rollback archive, when it has rows     *)
(* whose files must be kept.                                               *)
LEMMA RollbackPacks ==
    ASSUME QuietInv, CompactRollback PROVE Packed'
<1> DEFINE rb == RollbackOf(cur)
<1>1. DepotInv /\ TypeOK /\ pc = "backup" /\ pc' = "install" /\ todo = {}
      /\ UNCHANGED <<files, cur>>
    BY DEF CompactRollback, QuietInv, CompleteInv, DepotInv, db
<1>2. rb \in Serials /\ expanded[rb] \in Tree
    BY <1>1, InstallStores
<1>3. /\ (\E p \in PathsOf(files, rb) : IsSaved(rb, p)) =>
             tarball'[rb] = expanded[rb]
      /\ \A t \in Serials : t # rb => tarball'[t] = tarball[t]
    BY <1>1, <1>2 DEF CompactRollback, TypeOK
<1>4. ASSUME NEW t \in Serials, NEW p \in PathsOf(files, t),
             files[t][p].node # Absent
      PROVE  tarball'[t] \in Tree /\ tarball'[t][p] = files[t][p].node
  <2>1. CASE t = rb
    <3>1. archives[rb] # None
        BY <1>1, <1>4, <2>1 DEF DepotInv, RowsHaveArchive
    <3>2. ~IsRoot(rb)
        BY <1>1, <3>1 DEF QuietInv, CompleteInv, Arriving, Served, Installing,
                          IsRoot
    <3>3. IsSaved(rb, p)
        BY <1>4, <2>1, <3>2 DEF QuietInv, RowsOfStack, BaseRow
    <3>4. expanded[rb][p] = files[rb][p].node
        BY <1>1, <1>4, <2>1, <3>3 DEF QuietInv, BackupInv, RollbackKept
    <3> QED
        BY <1>2, <1>3, <1>4, <2>1, <3>3, <3>4
  <2>2. CASE t # rb
    BY <1>1, <1>3, <1>4, <2>2 DEF QuietInv, Packed, Unpacked
  <2> QED
    BY <2>1, <2>2
<1> QED
    BY <1>1, <1>4 DEF Packed, PathsOf

(* Tarballs go only with their archive.                                    *)
LEMMA PackedStays == QuietInv /\ QuietStep => Packed'
<1> SUFFICES ASSUME QuietInv, QuietStep PROVE Packed'
    OBVIOUS
<1>1. CASE \E root \in Roots : Install(root)
    BY <1>1, InstallPacks
<1>2. CASE CompactArchive
    BY <1>2, CompactPacks
<1>3. CASE CompactRollback
    BY <1>3, RollbackPacks
<1>4. CASE BackupFile
    BY <1>4 DEF BackupFile, QuietInv, Packed, Unpacked, RollbackOf, PathsOf, db
<1>5. CASE Prune
  <2>1. PathsOf(files, cur) = {} /\ pc = "prune" /\ pc' = "idle"
        /\ files' = files
    BY <1>5 DEF Prune, Idle, QuietInv, Rooted
  <2>2. \A t \in Serials : t # cur => tarball'[t] = tarball[t]
    BY <1>5 DEF Prune, QuietInv, CompleteInv, DepotInv, TypeOK
  <2> QED
    BY <2>1, <2>2 DEF QuietInv, Packed, Unpacked, PathsOf
<1>6. CASE ~(\/ \E root \in Roots : Install(root)
             \/ CompactArchive \/ CompactRollback \/ BackupFile \/ Prune)
  <2>1. tarball' = tarball /\ pc \notin {"compact", "backup"}
        /\ pc' \notin {"compact", "backup"}
    BY <1>6 DEF QuietStep, Uninstall, InstallStep, InstallFile, Activate,
           Cleanup, Deactivate, LeaveUnclaimed, RemoveFile, RestoreData,
           RestoreMeta, DeleteRows, RemoveArchive, UninstallNext, Idle, store
  <2>2. \A t \in Serials, p \in Paths :
            files'[t][p] # None => files'[t][p] = files[t][p]
    BY <1>6, FilesChange, RowsRemoved
  <2>3. \A t \in Serials : PathsOf(files', t) \subseteq PathsOf(files, t)
    BY <2>2 DEF PathsOf
  <2>4. \A t \in Serials : ~Unpacked(t)
    BY <2>1 DEF Unpacked
  <2> QED
    BY <2>1, <2>2, <2>3, <2>4 DEF QuietInv, Packed, PathsOf
<1> QED
    BY <1>1, <1>2, <1>3, <1>4, <1>5, <1>6

(* An uninstallation takes each file once from a store it has expanded.    *)
LEMMA UnfoldedStays == QuietInv /\ QuietStep => Unfolded'
<1> SUFFICES ASSUME QuietInv, QuietStep, pc' = "uninstall" PROVE Unfolded'
    BY DEF Unfolded
<1>1. CASE Deactivate
    BY <1>1 DEF Deactivate, Unfolded
<1>2. CASE LeaveUnclaimed \/ RemoveFile \/ RestoreMeta
  <2>1. pc = "uninstall" /\ todo' \subseteq todo
        /\ UNCHANGED <<files, expanded>>
    BY <1>2 DEF LeaveUnclaimed, RemoveFile, RestoreMeta, UninstallNext, db
  <2> QED
    BY <2>1 DEF QuietInv, Unfolded, PathsOf
<1>3. CASE RestoreData
  <2>1. PICK p \in todo :
            LET t == Preceding(files, cur, p) IN
            /\ UninstallNext(p) /\ CanExpand(t)
            /\ expanded' = [expanded EXCEPT
                                ![t] = [Opened(t) EXCEPT ![p] = Absent]]
    BY <1>3 DEF RestoreData
  <2> DEFINE t == Preceding(files, cur, p)
  <2>2. pc = "uninstall" /\ todo' = todo \ {p} /\ files' = files
    BY <2>1 DEF UninstallNext, db
  <2>3. t \in Serials
    BY <2>2, PreviousIsThere
  <2>4. TypeOK
    BY DEF QuietInv, CompleteInv, DepotInv
  <2> HIDE DEF t
  <2>5. expanded' = [expanded EXCEPT ![t] = [Opened(t) EXCEPT ![p] = Absent]]
    BY <2>1 DEF t
  <2>6. Opened(t) \in Tree
    BY <2>1, <2>3, <2>4 DEF CanExpand, Opened, TypeOK, t
  <2>7. ASSUME NEW u \in Serials, expanded'[u] # None,
               NEW q \in PathsOf(files, u), q \in todo',
               files[u][q].node # Absent
        PROVE  expanded'[u][q] = files[u][q].node
    <3>1. q \in todo /\ q # p /\ q \in Paths
        BY <2>2, <2>7 DEF PathsOf
    <3>2. CASE u = t
      <4>1. expanded'[u][q] = Opened(t)[q]
        BY <2>3, <2>4, <2>5, <2>6, <3>1, <3>2 DEF TypeOK, Tree
      <4>2. expanded[t] # None => expanded[t][q] = files[t][q].node
        BY <2>2, <2>7, <3>1, <3>2 DEF QuietInv, Unfolded
      <4>3. tarball[t][q] = files[t][q].node
        BY <2>2, <2>7, <3>1, <3>2 DEF QuietInv, Packed, Unpacked
      <4> QED
        BY <3>2, <4>1, <4>2, <4>3 DEF Opened
    <3>3. CASE u # t
      <4>1. expanded'[u] = expanded[u]
        BY <2>3, <2>4, <2>5, <3>3 DEF TypeOK
      <4> QED
        BY <2>2, <2>7, <3>1, <4>1 DEF QuietInv, Unfolded
    <3> QED
        BY <3>2, <3>3
  <2> QED
    BY <2>2, <2>7 DEF Unfolded, PathsOf
<1>4. \/ Deactivate \/ LeaveUnclaimed \/ RemoveFile \/ RestoreMeta
      \/ RestoreData
    BY DEF QuietStep, Install, Uninstall, InstallStep, CompactArchive,
           BackupFile, CompactRollback, InstallFile, Activate, Cleanup,
           DeleteRows, RemoveArchive, Prune, Idle
<1> QED
    BY <1>1, <1>2, <1>3, <1>4

(* A step that writes nothing and hides no other row.                      *)
LEMMA NothingShown ==
    ASSUME QuietInv, UNCHANGED <<fs, files, base>>,
           \A p \in Paths :
               Held(files, p, Hidden(p)') = Held(files, p, Hidden(p))
    PROVE  Showing'
<1> SUFFICES ASSUME NEW p \in Paths
             PROVE  Shows(files, base, fs[p], p, Hidden(p)')
    BY DEF Showing
<1>1. Shows(files, base, fs[p], p, Hidden(p))
    BY DEF QuietInv, Showing
<1> QED
    BY <1>1, ShowsSame

(* Hiding an archive that has no row for the path hides nothing.           *)
LEMMA HidesNothing ==
    ASSUME NEW f, NEW p, NEW c, c \in Serials => f[c][p] = None
    PROVE  Held(f, p, {c}) = Held(f, p, {})
    BY DEF Held

(* A step that writes one file and leaves its path.                        *)
LEMMA OneShown ==
    ASSUME QuietInv, UNCHANGED <<files, base, pc, cur>>,
           pc \in {"install", "uninstall"},
           NEW p \in todo, todo' = todo \ {p},
           \A q \in Paths : q # p => fs'[q] = fs[q],
           Shows(files, base, fs'[p], p, Hidden(p)')
    PROVE  Showing'
<1> SUFFICES ASSUME NEW q \in Paths
             PROVE  Shows(files, base, fs'[q], q, Hidden(q)')
    BY DEF Showing
<1>1. CASE q = p
    BY <1>1
<1>2. CASE q # p
  <2>1. Hidden(q)' = Hidden(q)
    BY <1>2 DEF Hidden, Pending
  <2> QED
    BY <1>2, <2>1 DEF QuietInv, Showing
<1> QED
    BY <1>1, <1>2

(* The base rows that Depot::install adds hold what is there.              *)
LEMMA InstallShows ==
    ASSUME QuietInv, NEW root \in Roots, Install(root), base' = base
    PROVE  Showing'
<1> DEFINE s  == cur'
           rb == RollbackOf(cur')
<1>1. /\ s \in Serials /\ rb \in Serials /\ rb < s
      /\ \A p \in Paths : files[s][p] = None /\ files[rb][p] = None
      /\ \A p \in Paths :
             /\ files'[rb][p] # None => Held(files, p, {}) = {}
             /\ files'[rb][p] # None => files'[rb][p].node = base[p]
      /\ \A t \in Serials : t # rb /\ t # s => files'[t] = files[t]
    BY InstalledRows
<1>2. pc = "idle" /\ pc' = "compact" /\ fs' = fs
    BY DEF Install
<1> HIDE DEF s, rb
<1> SUFFICES ASSUME NEW p \in Paths
             PROVE  Shows(files', base, fs[p], p, {s})
    BY <1>2 DEF Showing, Hidden, Pending, s
<1>3. Shows(files, base, fs[p], p, {})
    BY <1>2 DEF QuietInv, Showing, Hidden, Pending
<1>4. rb # s
    BY <1>1, MaxSerialAssumption DEF Serials
<1>5. CASE files'[rb][p] # None
  <2>1. Held(files, p, {}) = {}
    BY <1>1, <1>5
  <2>2. \A t \in Serials \ {s} : files'[t][p] # None => t = rb
    BY <1>1, <2>1 DEF Held
  <2>3. Held(files', p, {s}) = {rb}
    BY <1>1, <1>4, <1>5, <2>2 DEF Held
  <2>4. fs[p] = files'[rb][p].node
    BY <1>1, <1>3, <1>5, <2>1 DEF Shows
  <2> QED
    BY <2>3, <2>4 DEF Shows
<1>6. CASE files'[rb][p] = None
  <2>1. Held(files', p, {s}) = Held(files, p, {})
    BY <1>1, <1>4, <1>6 DEF Held
  <2>2. \A t \in Held(files, p, {}) : files[t][p] = files'[t][p]
    BY <1>1 DEF Held
  <2> QED
    BY <1>3, <2>1, <2>2, ShowsSame
<1> QED
    BY <1>5, <1>6

(* What Depot::install_file puts in place is the newest row.               *)
LEMMA InstallFileShows ==
    ASSUME QuietInv, InstallFile, base' = base
    PROVE  Showing'
<1>1. PICK p \in todo :
          /\ todo' = todo \ {p}
          /\ \/ fs' = [fs EXCEPT ![p] = expanded[cur][p]]
             \/ fs' = [fs EXCEPT ![p].meta = files[cur][p].node.meta]
    BY DEF InstallFile
<1>2. pc = "install" /\ UNCHANGED <<pc, cur, files>>
    BY DEF InstallFile, db
<1>3. DepotInv /\ TypeOK /\ cur \in Serials
    BY <1>2, InstallStores DEF QuietInv, CompleteInv, DepotInv
<1>4. p \in PathsOf(files, cur) /\ p \in Paths
    BY <1>2, <1>3 DEF DepotInv, CommandShape, PathsOf
<1>5. \A q \in Paths : q # p => fs'[q] = fs[q]
    BY <1>1, <1>3 DEF TypeOK, Tree
<1>6. fs'[p] = files[cur][p].node
  <2>1. Arrived'
    BY InstallFileArrives DEF QuietInv, CompleteInv, Arriving
  <2> QED
    BY <1>1, <1>2, <1>4, <2>1 DEF Arrived, Installing, Waits, PathsOf
<1>7. cur \in Held(files, p, {}) /\ \A t \in Held(files, p, {}) : t <= cur
  <2>1. \A t \in Serials : t >= cur + 1 => PathsOf(files, t) = {}
    BY <1>2, <1>3 DEF QuietInv, Newest, Installing, DepotInv, FreshSerials
  <2>2. \A t \in Held(files, p, {}) : ~(t >= cur + 1) /\ t \in Serials
    BY <1>4, <2>1 DEF Held, PathsOf
  <2> QED
    BY <1>3, <1>4, <2>2, MaxSerialAssumption DEF Held, PathsOf, Serials
<1>8. Shows(files, base, files[cur][p].node, p, {})
    BY <1>7, ShowsTop
<1>9. Hidden(p)' = {}
    BY <1>1, <1>2 DEF Hidden, Pending
<1> QED
    BY <1>1, <1>2, <1>5, <1>6, <1>8, <1>9, OneShown

(* What Depot::uninstall_file leaves at a path is the row below, or a      *)
(* newer one that covers both.                                             *)
LEMMA UninstallFileShows ==
    ASSUME QuietInv, base' = base,
           LeaveUnclaimed \/ RemoveFile \/ RestoreData \/ RestoreMeta
    PROVE  Showing'
<1>1. PICK p \in todo :
          /\ UninstallNext(p)
          /\ \/ ~Claims(cur, p) /\ fs' = fs
             \/ /\ Claims(cur, p) /\ "NO_ENTRY" \in Previous(p).flags
                /\ fs' = [fs EXCEPT ![p] = Absent]
             \/ /\ Claims(cur, p) /\ "NO_ENTRY" \notin Previous(p).flags
                /\ fs' = [fs EXCEPT ![p] = Opened(Preceding(files, cur, p))[p]]
             \/ /\ Claims(cur, p) /\ "NO_ENTRY" \notin Previous(p).flags
                /\ ~DataDiffers(ToPrevious(p))
                /\ fs' = [fs EXCEPT ![p].meta = Previous(p).node.meta]
    BY DEF LeaveUnclaimed, RemoveFile, RestoreData, RestoreMeta
<1> DEFINE t == Preceding(files, cur, p)
<1>2. pc = "uninstall" /\ UNCHANGED <<pc, cur, files>> /\ todo' = todo \ {p}
    BY <1>1 DEF UninstallNext, db
<1>3. TypeOK
    BY DEF QuietInv, CompleteInv, DepotInv
<1>4. /\ p \in PathsOf(files, cur) /\ p \in Paths /\ Previous(p) \in FileRow
      /\ "NO_ENTRY" \in Previous(p).flags <=> Previous(p).node = Absent
      /\ Previous(p).node # Absent => Opened(t)[p] = Previous(p).node
    BY <1>2, PreviousIsThere DEF Previous, PathsOf
<1>5. \A q \in Paths : q # p => fs'[q] = fs[q]
    BY <1>1, <1>3 DEF TypeOK, Tree
<1>6. Hidden(p)' = {cur}
    BY <1>2 DEF Hidden, Pending
<1> HIDE DEF t
<1>7. CASE IsSuperseded(files, cur, p)
  <2>1. ~Claims(cur, p) /\ Shows(files, base, fs[p], p, {cur})
    BY <1>2, <1>7, OthersPath
  <2>2. fs' = fs
    BY <1>1, <2>1
  <2> QED
    BY <1>2, <1>5, <1>6, <2>1, <2>2, OneShown
<1>8. CASE ~IsSuperseded(files, cur, p)
  <2>1. /\ fs[p] = files[cur][p].node /\ fs[p] \in Node /\ fs[p] # Absent
        /\ Claims(cur, p)
        /\ Shows(files, base, Previous(p).node, p, {cur})
    BY <1>2, <1>8, OwnPath
  <2>2. fs \in [Paths -> Entry]
    BY <1>3 DEF TypeOK, Tree
  <2>3. fs'[p] = Previous(p).node
    <3>1. CASE "NO_ENTRY" \in Previous(p).flags
        BY <1>1, <1>4, <2>1, <2>2, <3>1
    <3>2. CASE fs' = [fs EXCEPT ![p] = Opened(Preceding(files, cur, p))[p]]
               /\ "NO_ENTRY" \notin Previous(p).flags
        BY <1>4, <2>2, <3>2 DEF t
    <3>3. CASE /\ "NO_ENTRY" \notin Previous(p).flags
               /\ ~DataDiffers(ToPrevious(p))
               /\ fs' = [fs EXCEPT ![p].meta = Previous(p).node.meta]
      <4>1. Previous(p).node \in Node /\ Previous(p).node # Absent
        BY <1>4, <3>3 DEF FileRow, Entry
      <4>2. fs[p].data = Previous(p).node.data
        BY <2>1, <3>3, <4>1 DEF DataDiffers, ToPrevious, Compare
      <4>3. fs'[p] = [fs[p] EXCEPT !.meta = Previous(p).node.meta]
        BY <1>4, <2>2, <3>3
      <4> QED
        BY <2>1, <4>1, <4>2, <4>3 DEF Node
    <3> QED
        BY <1>1, <2>1, <3>1, <3>2, <3>3
  <2> QED
    BY <1>2, <1>5, <1>6, <2>1, <2>3, OneShown
<1> QED
    BY <1>7, <1>8

(* Every path goes on showing its newest row.                              *)
LEMMA ShowingStays ==
    ASSUME QuietInv, QuietStep, base' = base
    PROVE  Showing'
<1>1. CASE \E root \in Roots : Install(root)
    BY <1>1, InstallShows
<1>2. CASE InstallFile
    BY <1>2, InstallFileShows
<1>3. CASE LeaveUnclaimed \/ RemoveFile \/ RestoreData \/ RestoreMeta
    BY <1>3, UninstallFileShows
<1>4. CASE RemoveArchive
  <2>1. UNCHANGED <<fs, cur>> /\ pc = "remove" /\ pc' = "prune"
    BY <1>4 DEF RemoveArchive
  <2>2. \A p \in Paths : Held(files', p, {cur}) = Held(files, p, {cur})
    BY <1>4, RowsRemoved DEF Held
  <2>3. \A p \in Paths : \A s \in Held(files, p, {cur}) :
            files[s][p] = files'[s][p]
    BY <1>4, RowsRemoved DEF Held
  <2>4. \A p \in Paths : Shows(files, base, fs[p], p, {cur})
    BY <2>1 DEF QuietInv, Showing, Hidden, Pending
  <2>5. \A p \in Paths : Shows(files', base, fs[p], p, {cur})
    BY <2>2, <2>3, <2>4, ShowsSame
  <2> QED
    BY <2>1, <2>5 DEF Showing, Hidden, Pending
<1>5. CASE ~(\/ \E root \in Roots : Install(root)
             \/ InstallFile \/ RemoveArchive
             \/ LeaveUnclaimed \/ RemoveFile \/ RestoreData \/ RestoreMeta)
  <2>1. UNCHANGED <<fs, files>>
    BY <1>5, FilesChange
       DEF QuietStep, Uninstall, InstallStep, CompactArchive, BackupFile,
           CompactRollback, Activate, Cleanup, Deactivate, DeleteRows, Prune
  <2>2. \A p \in Paths : cur \in Serials /\ p \notin PathsOf(files, cur) =>
            Held(files, p, {cur}) = Held(files, p, {})
    BY HidesNothing DEF PathsOf
  <2>3. cur \in Serials \/ pc = "idle"
    BY MaxSerialAssumption
       DEF QuietInv, CompleteInv, DepotInv, TypeOK, CommandShape, Serials
  <2>4. res = "ok"
    BY DEF QuietInv, Calm
  <2>5. ASSUME NEW p \in Paths
        PROVE  Held(files, p, Hidden(p)') = Held(files, p, Hidden(p))
    <3>1. CASE CompactArchive \/ BackupFile
        BY <3>1 DEF CompactArchive, BackupFile, Hidden, Pending
    <3>2. CASE CompactRollback
        BY <2>2, <2>3, <3>2 DEF CompactRollback, Hidden, Pending
    <3>3. CASE Activate \/ Cleanup \/ \E s \in Serials : Uninstall(s)
        BY <2>4, <3>3 DEF Activate, Cleanup, Uninstall, Idle, Hidden, Pending
    <3>4. CASE Deactivate
        BY <2>2, <2>3, <3>4 DEF Deactivate, Hidden, Pending
    <3>5. CASE DeleteRows
        BY <3>5 DEF DeleteRows, Hidden, Pending
    <3>6. CASE Prune
      <4>1. p \notin PathsOf(files, cur) /\ pc = "prune"
        BY <3>6 DEF Prune, QuietInv, Rooted
      <4> QED
        BY <2>2, <2>3, <3>6, <4>1 DEF Prune, Idle, Hidden, Pending
    <3> QED
        BY <1>5, <3>1, <3>2, <3>3, <3>4, <3>5, <3>6 DEF QuietStep, InstallStep
  <2> QED
    BY <2>1, <2>5, NothingShown
<1> QED
    BY <1>1, <1>2, <1>3, <1>4, <1>5

(* The tree before the last installation stays the one without its rows.   *)
LEMMA UndoingStays ==
    ASSUME QuietInv, QuietStep, Record, Showing', TypeOK'
    PROVE  Undoing'
<1>1. base' = base /\ base \in Tree /\ undo.tree \in Tree /\ fs \in Tree
    BY DEF Record, QuietInv, Undoing, CompleteInv, DepotInv, TypeOK
<1>2. EmptyTree \in Tree
    BY DEF EmptyTree, Tree, Entry
<1>3. CASE Installs
  <2>1. undo' = [serial |-> cur', tree |-> fs]
    BY <1>3 DEF Record
  <2>2. PICK root \in Roots : Install(root)
    BY <1>3 DEF Installs, QuietStep, Uninstall, InstallStep, CompactArchive,
           BackupFile, CompactRollback, InstallFile, Activate, Cleanup,
           Deactivate, LeaveUnclaimed, RemoveFile, RestoreData, RestoreMeta,
           DeleteRows, RemoveArchive, Prune, UninstallNext, db
  <2>3. fs' = fs /\ pc' = "compact"
    BY <2>2 DEF Install
  <2>4. \A p \in Paths : Shows(files', base', fs'[p], p, {cur'})
    BY <2>3 DEF Showing, Hidden, Pending
  <2> QED
    BY <1>1, <2>1, <2>3, <2>4 DEF Undoing
<1>4. CASE ~Installs /\ Disturbs
  <2>1. undo' = NoUndo
    BY <1>4 DEF Record
  <2> QED
    BY <1>1, <1>2, <2>1 DEF Undoing, NoUndo
<1>5. CASE ~Installs /\ ~Disturbs
  <2>1. undo' = undo
    BY <1>5 DEF Record
  <2> SUFFICES ASSUME undo.serial # 0
               PROVE  /\ \A p \in Paths :
                             Shows(files', base, undo.tree[p], p, {undo.serial})
                      /\ pc' \in {"deactivate", "uninstall", "remove", "prune"}
                             => cur' = undo.serial
    BY <1>1, <2>1 DEF Undoing
  <2>2. /\ \A p \in Paths :
               Shows(files, base, undo.tree[p], p, {undo.serial})
        /\ pc \in {"deactivate", "uninstall", "remove", "prune"} =>
               cur = undo.serial
    BY DEF QuietInv, Undoing
  <2>3. ~(\E root \in Roots : Install(root))
    <3>1. ASSUME NEW root \in Roots, Install(root) PROVE FALSE
      <4>1. nextSerial' = nextSerial + 1 + 1 /\ nextSerial \in Nat
        BY <3>1, MaxSerialAssumption
           DEF Install, QuietInv, CompleteInv, DepotInv, TypeOK
      <4> QED
        BY <1>5, <4>1 DEF Installs
    <3> QED
        BY <3>1
  <2>4. CASE RemoveArchive
    <3>1. cur = undo.serial /\ pc' = "prune" /\ cur' = cur
        BY <2>2, <2>4 DEF RemoveArchive
    <3>2. \A p \in Paths :
              /\ Held(files', p, {cur}) = Held(files, p, {cur})
              /\ \A s \in Held(files, p, {cur}) : files[s][p] = files'[s][p]
        BY <2>4, RowsRemoved DEF Held
    <3> QED
        BY <2>2, <3>1, <3>2, ShowsSame
  <2>5. CASE ~RemoveArchive
    <3>1. files' = files
        BY <2>3, <2>5, FilesChange
    <3>2. res = "ok"
        BY DEF QuietInv, Calm
    <3>3. pc' \in {"deactivate", "uninstall", "remove", "prune"}
              => cur' = undo.serial
      <4>1. CASE \E s \in Serials : Uninstall(s)
        BY <1>5, <4>1 DEF Uninstall, Disturbs
      <4>2. CASE ~(\E s \in Serials : Uninstall(s))
        BY <2>2, <2>3, <2>5, <3>2, <4>2
           DEF QuietStep, InstallStep, CompactArchive, BackupFile,
               CompactRollback, InstallFile, Activate, Cleanup, Deactivate,
               LeaveUnclaimed, RemoveFile, RestoreData, RestoreMeta,
               DeleteRows, Prune, UninstallNext, Idle
      <4> QED
        BY <4>1, <4>2
    <3> QED
        BY <2>2, <3>1, <3>3
  <2> QED
    BY <2>4, <2>5
<1> QED
    BY <1>3, <1>4, <1>5

(* At first nothing is installed, and nothing may go wrong.                *)
LEMMA InitQuiet ==
    ASSUME MaxEdits = 0, MaxCrashes = 0, MaxFaults = 0, HInit
    PROVE  QuietInv
<1>1. Init /\ base = fs /\ undo = NoUndo
    BY DEF HInit
<1>2. DepotInv /\ fs \in Tree
    BY <1>1, InitInv DEF DepotInv, TypeOK
<1>3. \A s \in Serials : archives[s] = None /\ PathsOf(files, s) = {}
                         /\ \A p \in Paths : files[s][p] = None
    BY <1>1 DEF Init, PathsOf, NoFiles
<1>4. BackupInv
    BY <1>1, <1>2, <1>3 DEF Init, BackupInv, RollbackKept, SavedIsFile
<1>5. CompleteInv
    BY <1>1, <1>2 DEF Init, CompleteInv, Arriving, Arrived, Served,
                      Installing, Faultless
<1>6. Calm /\ Newest /\ Rooted /\ Unfolded
    BY <1>1, <1>3 DEF Init, Calm, Newest, Installing, Rooted, IsRoot, Unfolded
<1>7. RowsOfStack /\ Packed
    BY <1>1, <1>3 DEF Init, RowsOfStack, Packed
<1>8. Showing
  <2>1. \A p \in Paths : Held(files, p, {}) = {}
    BY <1>3 DEF Held
  <2> QED
    BY <1>1, <2>1 DEF Init, Showing, Shows, Hidden, Pending
<1>9. Undoing
    BY <1>1, <1>2 DEF Undoing, NoUndo, EmptyTree, Tree, Entry
<1> QED
    BY <1>4, <1>5, <1>6, <1>7, <1>8, <1>9 DEF QuietInv

(* QuietInv is inductive.                                                  *)
LEMMA NextQuiet ==
    ASSUME ~BusyEdits, QuietInv, [HNext]_hvars
    PROVE  QuietInv'
<1>1. [Next]_vars
    BY DEF HNext, hvars
<1>2. BackupInv' /\ CompleteInv'
    BY <1>1, NextInv, StepKeeps, StepArrives, NeverFaults
       DEF QuietInv, BackupInv, CompleteInv
<1>3. CASE HNext
  <2>1. QuietStep /\ Record /\ base' = base
    BY <1>3, OnlyQuietSteps DEF HNext, Record
  <2>2. DepotInv' /\ TypeOK' /\ Arriving'
    BY <1>2 DEF CompleteInv, DepotInv
  <2>3. Calm' /\ Newest' /\ RowsOfStack' /\ Rooted' /\ Packed' /\ Unfolded'
    BY <2>1, <2>2, CalmStays, NewestStays, StackStays, RootedStays,
       PackedStays, UnfoldedStays
  <2>4. Showing'
    BY <2>1, ShowingStays
  <2>5. Undoing'
    BY <2>1, <2>2, <2>4, UndoingStays
  <2> QED
    BY <1>2, <2>3, <2>4, <2>5 DEF QuietInv
<1>4. CASE UNCHANGED hvars
  <2>1. UNCHANGED <<fs, archives, files, nextSerial, expanded, tarball, pc,
                    cur, todo, res, toRemove, budget, base, undo>>
    BY <1>4 DEF hvars, vars, db, store, proc
  <2>2. Calm' /\ Newest' /\ Rooted' /\ Unfolded'
    BY <2>1 DEF QuietInv, Calm, Newest, Installing, Rooted, IsRoot, PathsOf,
                Unfolded
  <2>3. RowsOfStack'
    BY <2>1 DEF QuietInv, RowsOfStack, BaseRow, IsBase, IsRoot, IsSaved, PathsOf
  <2>4. Packed'
    BY <2>1 DEF QuietInv, Packed, Unpacked, RollbackOf, PathsOf
  <2>5. Showing' /\ Undoing'
    BY <2>1 DEF QuietInv, Showing, Undoing, Hidden, Pending
  <2> QED
    BY <1>2, <2>2, <2>3, <2>4, <2>5 DEF QuietInv
<1> QED
    BY <1>3, <1>4
-----------------------------------------------------------------------------
(* No process dies, no call fails, and only darwinup writes.               *)
Undisturbed == MaxEdits = 0 /\ MaxCrashes = 0 /\ MaxFaults = 0 /\ ~BusyEdits

(* Every command keeps every path showing its newest row, and every        *)
(* archive's tarball whole.                                                *)
THEOREM QuietInvariant == Undisturbed /\ HSpec => []QuietInv
<1> SUFFICES ASSUME Undisturbed PROVE HSpec => []QuietInv
    OBVIOUS
<1>1. HInit => QuietInv
    BY InitQuiet DEF Undisturbed
<1>2. QuietInv /\ [HNext]_hvars => QuietInv'
    BY NextQuiet DEF Undisturbed
<1> QED
    BY <1>1, <1>2, PTL DEF HSpec

(* NOTES, design goal: when every root is uninstalled again, in whatever   *)
(* order, the system is what it was before the first was installed.        *)
THEOREM BackToTheOriginal == Undisturbed /\ HSpec => []OriginalRestored
<1>1. QuietInv => OriginalRestored
  <2> SUFFICES ASSUME QuietInv, pc = "idle", NoRoots PROVE fs = base
    BY DEF OriginalRestored
  <2>1. fs \in Tree /\ base \in Tree
    BY DEF QuietInv, Undoing, CompleteInv, DepotInv, TypeOK
  <2>2. ASSUME NEW p \in Paths PROVE fs[p] = base[p]
    <3>1. Shows(files, base, fs[p], p, {})
        BY <2>2 DEF QuietInv, Showing, Hidden, Pending
    <3>2. \A s \in Held(files, p, {}) : files[s][p].node = base[p]
        BY <2>2 DEF QuietInv, RowsOfStack, BaseRow, NoRoots, Held, PathsOf
    <3>3. CASE Held(files, p, {}) = {}
        BY <3>1, <3>3 DEF Shows
    <3>4. CASE Held(files, p, {}) # {}
      <4>1. PICK s \in Held(files, p, {}) : \A t \in Held(files, p, {}) : t <= s
        BY <3>4, TopExists DEF Held
      <4> QED
        BY <3>1, <3>2, <4>1 DEF Shows
    <3> QED
        BY <3>3, <3>4
  <2> QED
    BY <2>1, <2>2 DEF Tree
<1> QED
    BY <1>1, QuietInvariant, PTL

(* Uninstalling the root that was installed last leaves the tree that its  *)
(* installation found.                                                     *)
THEOREM UninstallInverts == Undisturbed /\ HSpec => []UninstallUndoesInstall
<1>1. QuietInv => UninstallUndoesInstall
  <2> SUFFICES ASSUME QuietInv, pc = "prune", cur = undo.serial
               PROVE  fs = undo.tree
    BY DEF UninstallUndoesInstall
  <2>1. fs \in Tree /\ undo.tree \in Tree /\ cur # 0
    BY DEF QuietInv, Undoing, CompleteInv, DepotInv, TypeOK, CommandShape
  <2>2. ASSUME NEW p \in Paths PROVE fs[p] = undo.tree[p]
    <3>1. Shows(files, base, fs[p], p, {cur})
        BY <2>2 DEF QuietInv, Showing, Hidden, Pending
    <3>2. Shows(files, base, undo.tree[p], p, {cur})
        BY <2>1, <2>2 DEF QuietInv, Undoing
    <3> QED
        BY <3>1, <3>2, ShowsUnique
  <2> QED
    BY <2>1, <2>2 DEF Tree
<1> QED
    BY <1>1, QuietInvariant, PTL

(* Whatever an active root replaced is in the backing store of the archive *)
(* that has the previous row.                                              *)
THEOREM ActiveCanGo == Undisturbed /\ HSpec => []ActiveRestorable
<1>1. QuietInv => ActiveRestorable
  <2> SUFFICES ASSUME QuietInv, NEW s \in Serials, IsRoot(s),
                      archives[s].active, NEW p \in PathsOf(files, s)
               PROVE  LET t == Preceding(files, s, p)  old == files[t][p] IN
                      \/ "NO_ENTRY" \in old.flags
                      \/ ~DataDiffers(Compare(files[s][p].node, old.node))
                      \/ HoldsData(t, p, old.node)
    BY DEF ActiveRestorable, IsRestorable, HasPrevious
  <2> DEFINE t == Preceding(files, s, p)
  <2>1. DepotInv /\ TypeOK /\ p \in Paths
    BY DEF QuietInv, CompleteInv, DepotInv, PathsOf
  <2>2. t \in Serials /\ t < s /\ p \in PathsOf(files, t)
    BY <2>1, RootRow, PrecedingIsRow DEF PathsOf
  <2> HIDE DEF t
  <2>3. ~Unpacked(t)
    <3> SUFFICES ASSUME Unpacked(t) PROVE FALSE
        OBVIOUS
    <3>1. Installing /\ t \in {cur, RollbackOf(cur)}
        BY DEF Unpacked, Installing
    <3>2. cur \in Serials /\ cur = RollbackOf(cur) + 1 /\ nextSerial = cur + 1
        BY <2>1, <3>1, InstallStores, MaxSerialAssumption
           DEF QuietInv, Newest, Installing, RollbackOf, Serials
    <3>3. s # cur
        BY <3>1 DEF QuietInv, Newest
    <3>4. s >= nextSerial
        BY <2>2, <3>1, <3>2, <3>3, MaxSerialAssumption DEF Serials, RollbackOf
    <3> QED
        BY <2>1, <3>4 DEF DepotInv, FreshSerials
  <2>4. files[t][p].node = Absent => "NO_ENTRY" \in files[t][p].flags
    BY <2>1, <2>2 DEF DepotInv, RowShape
  <2>5. ASSUME files[t][p].node # Absent
        PROVE  HoldsData(t, p, files[t][p].node)
    <3>1. tarball[t] \in Tree /\ tarball[t][p] = files[t][p].node
        BY <2>2, <2>3, <2>5 DEF QuietInv, Packed
    <3> QED
        BY <2>5, <3>1, NoneAssumption, TornAssumption, HollowAssumption DEF HoldsData, Unfinished
  <2> QED
    BY <2>4, <2>5 DEF t
<1> QED
    BY <1>1, QuietInvariant, PTL
-----------------------------------------------------------------------------
(***************************************************************************)
(* Such a depot implements the stack of layers of RootStack, but for its   *)
(* fairness: at first no layer is there, and every step of a command adds  *)
(* a layer, drops one, lets one path settle, or changes nothing that       *)
(* RootStack knows of.                                                     *)
(***************************************************************************)

(* The layer that is leaving, while its rows are still there.              *)
Gone == IF pc \in {"uninstall", "remove", "prune"} THEN {cur} ELSE {}

Stack == [s \in Serials |-> IF IsRoot(s) /\ ~Leaving(s) THEN LayerOf(s)
                            ELSE None]

(* A layer is a tree, and holds the paths of its archive's rows.           *)
LEMMA LayerHolds ==
    ASSUME QuietInv, NEW s \in Serials
    PROVE  /\ Stack[s] # None <=> IsRoot(s) /\ ~Leaving(s)
           /\ IsRoot(s) /\ ~Leaving(s) =>
                  \A p \in Paths :
                      /\ Stack[s][p] # Absent <=> files[s][p] # None
                      /\ files[s][p] # None => Stack[s][p] = files[s][p].node
<1>1. CASE IsRoot(s) /\ ~Leaving(s)
  <2>1. ASSUME NEW p \in Paths
        PROVE  files[s][p] # None =>
                   files[s][p].node \in Entry /\ files[s][p].node # Absent
    BY <1>1, <2>1, RootRow DEF PathsOf, Entry
  <2>2. LayerOf(s) \in Tree
    BY <2>1 DEF LayerOf, Tree, Entry
  <2>3. LayerOf(s) # None
    BY <2>2, NoneAssumption
  <2>4. Stack[s] = LayerOf(s)
    BY <1>1 DEF Stack
  <2>5. \A p \in Paths : LayerOf(s)[p] = IF files[s][p] = None THEN Absent
                                         ELSE files[s][p].node
    BY DEF LayerOf
  <2> QED
    BY <1>1, <2>1, <2>3, <2>4, <2>5
<1>2. CASE ~(IsRoot(s) /\ ~Leaving(s))
    BY <1>2 DEF Stack
<1> QED
    BY <1>1, <1>2

(* What RootStack shows at a path is what its newest row says.             *)
LEMMA TopShows ==
    ASSUME QuietInv, NEW p \in Paths
    PROVE  Shows(files, base, Layered!Top(p), p, Gone)
<1> DEFINE H == Held(files, p, Gone)
           L == Layered!Holders(p)
<1>1. L = {s \in Serials : IsRoot(s) /\ ~Leaving(s) /\ files[s][p] # None}
  <2>1. L = {s \in {l \in Serials : Stack[l] # None} : Stack[s][p] # Absent}
    BY DEF Layered!Holders, Layered!Present, Stack
  <2> QED
    BY <2>1, LayerHolds
<1>2. \A s \in Serials : Leaving(s) <=> s \in Gone
    BY DEF Leaving, Gone
<1>3. L \subseteq H /\ H \subseteq Serials
    BY <1>1, <1>2 DEF Held
<1>4. Layered!Top(p) = IF L = {} THEN base[p] ELSE Stack[Layered!Max(L)][p]
    BY DEF Layered!Top, Stack
<1> HIDE DEF L, H
<1>5. CASE H = {}
    BY <1>3, <1>4, <1>5 DEF Shows, H
<1>6. ASSUME NEW s \in H, \A t \in H : t <= s
      PROVE  Shows(files, base, Layered!Top(p), p, Gone)
  <2>1. s \in Serials /\ files[s][p] # None /\ ~Leaving(s)
    BY <1>2 DEF H, Held
  <2>2. IsRoot(s) \/ (IsBase(s, p) /\ BaseRow(s, p) /\ ~IsRoot(s))
    BY <2>1 DEF QuietInv, RowsOfStack, PathsOf
  <2>3. CASE IsRoot(s)
    <3>1. s \in L
        BY <1>1, <2>1, <2>3
    <3>2. \A t \in L : s >= t
        BY <1>3, <1>6, MaxSerialAssumption DEF Serials
    <3>3. \A x \in L : (\A t \in L : x >= t) => x = s
        BY <1>3, <3>1, <3>2, MaxSerialAssumption DEF Serials
    <3>4. Layered!Max(L) = s
        BY <3>1, <3>2, <3>3 DEF Layered!Max
    <3>5. Layered!Top(p) = files[s][p].node
        BY <1>4, <2>1, <2>3, <3>1, <3>4, LayerHolds
    <3> QED
        BY <1>6, <3>5, ShowsTop DEF H
  <2>4. CASE IsBase(s, p) /\ BaseRow(s, p) /\ ~IsRoot(s)
    <3>1. ASSUME NEW t \in L PROVE FALSE
      <4>1. t \in Serials /\ files[t][p] # None /\ IsRoot(t) /\ t <= s
        BY <1>1, <1>3, <1>6, <3>1
      <4>2. t # s
        BY <2>4, <4>1
      <4>3. t < s
        BY <2>1, <4>1, <4>2, MaxSerialAssumption DEF Serials
      <4> QED
        BY <2>4, <4>1, <4>3 DEF BaseRow
    <3>2. Layered!Top(p) = files[s][p].node
        BY <1>4, <2>4, <3>1 DEF BaseRow
    <3> QED
        BY <1>6, <3>2, ShowsTop DEF H
  <2> QED
    BY <2>2, <2>3, <2>4
<1>7. H # {} => \E s \in H : \A t \in H : t <= s
    BY <1>3, TopExists
<1> QED
    BY <1>5, <1>6, <1>7

(* A path that hides what is leaving shows what RootStack shows.           *)
SettledPaths == \A p \in Paths : Hidden(p) = Gone => fs[p] = Layered!Top(p)

(* Both show the newest row that is not hidden.                            *)
LEMMA PathsSettle == QuietInv => SettledPaths
<1> SUFFICES ASSUME QuietInv, NEW p \in Paths, Hidden(p) = Gone
             PROVE  fs[p] = Layered!Top(p)
    BY DEF SettledPaths
<1>1. Shows(files, base, fs[p], p, Gone)
    BY DEF QuietInv, Showing
<1>2. Shows(files, base, Layered!Top(p), p, Gone)
    BY TopShows
<1> QED
    BY <1>1, <1>2, ShowsUnique

(* The same after a step. *)
LEMMA PathsSettleNext == QuietInv' => SettledPaths'
    BY PathsSettle, PTL

(* Layers come with Depot::install and go with Depot::uninstall's first    *)
(* transaction only.                                                       *)
LEMMA LayersStay ==
    ASSUME QuietInv, QuietInv', QuietStep,
           ~(\E root \in Roots : Install(root)), ~Deactivate
    PROVE  Stack' = Stack
<1>1. \A s \in Serials : IsRoot(s)' => IsRoot(s)
    BY ArchivesKeep DEF IsRoot
<1>2. \A s \in Serials : files'[s] = files[s] \/ (RemoveArchive /\ s = cur)
    BY FilesChange, RowsRemoved
<1>3. ASSUME NEW s \in Serials, IsRoot(s), files'[s] = files[s]
      PROVE  IsRoot(s)'
  <2>1. PathsOf(files', s) # {}
    BY <1>3 DEF QuietInv, Rooted, PathsOf
  <2>2. archives'[s] # None
    BY <2>1 DEF QuietInv, CompleteInv, DepotInv, RowsHaveArchive
  <2> QED
    BY <1>3, <2>2, ArchivesKeep DEF IsRoot
<1>4. CASE Prune
  <2>1. \A s \in Serials : IsRoot(s) => ~Leaving(s)
    BY <1>4 DEF Prune, QuietInv, Rooted, Leaving
  <2>2. \A s \in Serials : ~Leaving(s)'
    BY <1>4 DEF Prune, Idle, Leaving
  <2>3. files' = files
    BY <1>4 DEF Prune
  <2> QED
    BY <1>1, <1>3, <2>1, <2>2, <2>3 DEF Stack, LayerOf
<1>5. CASE ~Prune
  <2>1. res = "ok"
    BY DEF QuietInv, Calm
  <2>2. \A s \in Serials : Leaving(s)' <=> Leaving(s)
    BY <1>5, <2>1
       DEF Leaving, QuietStep, Uninstall, InstallStep, CompactArchive,
           BackupFile, CompactRollback, InstallFile, Activate, Cleanup,
           LeaveUnclaimed, RemoveFile, RestoreData, RestoreMeta, DeleteRows,
           RemoveArchive, UninstallNext, Idle
  <2>3. ASSUME NEW s \in Serials, RemoveArchive, s = cur PROVE Leaving(s)
    BY <2>3 DEF RemoveArchive, Leaving
  <2>4. \A s \in Serials :
            /\ (IsRoot(s) /\ ~Leaving(s))' <=> IsRoot(s) /\ ~Leaving(s)
            /\ IsRoot(s) /\ ~Leaving(s) => files'[s] = files[s]
    BY <1>1, <1>2, <1>3, <2>2, <2>3
  <2> QED
    BY <2>4 DEF Stack, LayerOf
<1> QED
    BY <1>4, <1>5

(* What RootStack shows depends on the layers and the base only.           *)
LEMMA TopStays ==
    ASSUME Stack' = Stack, base' = base, NEW p \in Paths
    PROVE  Layered!Top(p)' = Layered!Top(p)
<1>1. /\ Layered!Present = {l \in Serials : Stack[l] # None}
      /\ Layered!Present' = {l \in Serials : Stack'[l] # None}
    BY DEF Layered!Present, Stack
<1>2. /\ Layered!Holders(p) = {l \in Layered!Present : Stack[l][p] # Absent}
      /\ Layered!Holders(p)' = {l \in Layered!Present' : Stack'[l][p] # Absent}
    BY DEF Layered!Holders, Stack
<1>3. /\ Layered!Top(p) = IF Layered!Holders(p) = {} THEN base[p]
                          ELSE Stack[Layered!Max(Layered!Holders(p))][p]
      /\ Layered!Top(p)' = IF Layered!Holders(p)' = {} THEN base'[p]
                           ELSE Stack'[Layered!Max(Layered!Holders(p)')][p]
    BY DEF Layered!Top, Stack
<1>4. Layered!Holders(p)' = Layered!Holders(p)
    BY <1>1, <1>2
<1> QED
    BY <1>3, <1>4

(* A step that writes one path makes it show its layer.                    *)
LEMMA OneSettles ==
    ASSUME QuietInv, QuietInv', Stack' = Stack, base' = base,
           NEW p \in Paths, \A q \in Paths : q # p => fs'[q] = fs[q],
           Hidden(p)' = Gone'
    PROVE  [Layered!Next]_(Layered!vars)
<1>1. fs'[p] = Layered!Top(p)
    BY PathsSettleNext, TopStays DEF SettledPaths
<1>2. fs \in Tree /\ fs' \in Tree
    BY DEF QuietInv, CompleteInv, DepotInv, TypeOK
<1>3. fs' = [fs EXCEPT ![p] = Layered!Top(p)]
    BY <1>1, <1>2 DEF Tree
<1>4. CASE fs[p] = Layered!Top(p)
  <2>1. fs' = fs
    BY <1>1, <1>2, <1>4 DEF Tree
  <2> QED
    BY <2>1 DEF Layered!vars, Stack
<1>5. CASE fs[p] # Layered!Top(p)
  <2>1. Layered!Settle(p)
    BY <1>3, <1>5 DEF Layered!Settle, Stack
  <2> QED
    BY <2>1 DEF Layered!Next
<1> QED
    BY <1>4, <1>5

(* Depot::install adds a layer above all others.                           *)
LEMMA InstallAdds ==
    ASSUME QuietInv, QuietInv', NEW root \in Roots, Install(root), base' = base
    PROVE  Layered!Next
<1> DEFINE s  == cur'
           rb == RollbackOf(cur')
<1>1. /\ s \in Serials /\ rb \in Serials /\ rb = nextSerial /\ rb < s
      /\ root \in Tree
      /\ \A p \in Paths :
             /\ root[p] = Absent => files'[s][p] = None
             /\ root[p] # Absent =>
                    files'[s][p] # None /\ files'[s][p].node = root[p]
      /\ \A t \in Serials : t # rb /\ t # s =>
             files'[t] = files[t] /\ archives'[t] = archives[t]
      /\ archives'[s] # None /\ ~archives'[s].rollback
    BY InstalledRows
<1>2. pc = "idle" /\ pc' = "compact" /\ fs' = fs
    BY DEF Install
<1>3. archives'[rb] # None => archives'[rb].rollback
    BY <1>2 DEF QuietInv, CompleteInv, Arriving, Served, Installing
<1> HIDE DEF s, rb
<1>4. \A t \in Serials : archives[t] # None => ~(t >= nextSerial)
    BY DEF QuietInv, CompleteInv, DepotInv, FreshSerials
<1>5. \A t \in Serials : ~Leaving(t) /\ ~Leaving(t)'
    BY <1>2 DEF Leaving
<1>6. \A t \in Serials : t = s => LayerOf(t)' = root
  <2>1. \A p \in Paths : root[p] = IF files'[s][p] = None THEN Absent
                                   ELSE files'[s][p].node
    BY <1>1
  <2>2. root = [p \in Paths |-> root[p]]
    BY <1>1 DEF Tree
  <2>3. [p \in Paths |-> IF files'[s][p] = None THEN Absent
                         ELSE files'[s][p].node] = [p \in Paths |-> root[p]]
    BY <2>1
  <2> QED
    BY <2>2, <2>3 DEF LayerOf
<1>7. Stack' = [Stack EXCEPT ![s] = root]
  <2>1. \A t \in Serials : t # rb /\ t # s => Stack'[t] = Stack[t]
    BY <1>1, <1>5 DEF Stack, IsRoot, LayerOf
  <2>2. Stack'[rb] = None /\ Stack[rb] = None
    BY <1>1, <1>3, <1>4, MaxSerialAssumption DEF Stack, IsRoot, Serials
  <2>3. Stack'[s] = root
    BY <1>1, <1>5, <1>6 DEF Stack, IsRoot
  <2>4. \A t \in Serials : Stack'[t] = [Stack EXCEPT ![s] = root][t]
    BY <1>1, <2>1, <2>2, <2>3 DEF Stack
  <2> QED
    BY <2>4 DEF Stack
<1>8. Layered!Settled
    BY <1>2, PathsSettle
       DEF Layered!Settled, SettledPaths, Hidden, Pending, Gone
<1>9. \A k \in Layered!Present : k < s
  <2>1. \A k \in Layered!Present : k \in Serials /\ archives[k] # None
    BY LayerHolds DEF Layered!Present, Stack, IsRoot
  <2> QED
    BY <1>1, <1>4, <2>1, MaxSerialAssumption DEF Serials
<1>10. Layered!Add(s, root)
    BY <1>2, <1>7, <1>8, <1>9 DEF Layered!Add, Stack
<1> QED
    BY <1>1, <1>10 DEF Layered!Next

(* Depot::uninstall drops the layer when it begins to take files away.     *)
LEMMA DeactivateDrops ==
    ASSUME QuietInv, Deactivate, base' = base
    PROVE  Layered!Next
<1>1. pc = "deactivate" /\ pc' = "uninstall" /\ UNCHANGED <<fs, files, cur>>
    BY DEF Deactivate
<1>2. cur \in Serials /\ IsRoot(cur)
    BY <1>1 DEF QuietInv, CompleteInv, DepotInv, CommandShape, IsRoot
<1>3. \A t \in Serials : t # cur => archives'[t] = archives[t]
    BY <1>2 DEF Deactivate, QuietInv, CompleteInv, DepotInv, TypeOK
<1>4. \A t \in Serials : ~Leaving(t) /\ (Leaving(t)' <=> t = cur)
    BY <1>1 DEF Leaving
<1>5. Stack' = [Stack EXCEPT ![cur] = None]
  <2>1. \A t \in Serials : t # cur => Stack'[t] = Stack[t]
    BY <1>1, <1>3, <1>4 DEF Stack, IsRoot, LayerOf
  <2>2. Stack'[cur] = None
    BY <1>2, <1>4 DEF Stack
  <2>3. \A t \in Serials : Stack'[t] = [Stack EXCEPT ![cur] = None][t]
    BY <1>2, <2>1, <2>2 DEF Stack
  <2> QED
    BY <2>3 DEF Stack
<1>6. Layered!Settled
    BY <1>1, PathsSettle
       DEF Layered!Settled, SettledPaths, Hidden, Pending, Gone
<1>7. cur \in Layered!Present
    BY <1>2, <1>4, LayerHolds DEF Layered!Present, Stack
<1>8. Layered!Drop(cur)
    BY <1>1, <1>5, <1>6, <1>7 DEF Layered!Drop, Stack
<1> QED
    BY <1>2, <1>8 DEF Layered!Next

(* Every step of the depot is a step of the stack of layers, or none.      *)
LEMMA StepRefines ==
    ASSUME QuietInv, QuietInv', [HNext]_hvars
    PROVE  [Layered!Next]_(Layered!vars)
<1>1. CASE HNext
  <2>1. QuietStep /\ base' = base
    BY <1>1, OnlyQuietSteps DEF HNext, Record
  <2>2. CASE \E root \in Roots : Install(root)
    BY <2>1, <2>2, InstallAdds
  <2>3. CASE Deactivate
    BY <2>1, <2>3, DeactivateDrops
  <2>4. CASE ~(\E root \in Roots : Install(root)) /\ ~Deactivate
    <3>1. Stack' = Stack
        BY <2>1, <2>4, LayersStay
    <3>2. CASE \/ InstallFile
               \/ LeaveUnclaimed \/ RemoveFile \/ RestoreData \/ RestoreMeta
      <4>1. PICK p \in todo : /\ \A q \in Paths : q # p => fs'[q] = fs[q]
                              /\ todo' = todo \ {p} /\ UNCHANGED <<pc, cur>>
                              /\ pc \in {"install", "uninstall"}
        BY <3>2 DEF InstallFile, LeaveUnclaimed, RemoveFile, RestoreData,
                    RestoreMeta, UninstallNext, QuietInv, CompleteInv,
                    DepotInv, TypeOK, Tree
      <4>2. Hidden(p)' = Gone' /\ p \in Paths
        BY <4>1 DEF Hidden, Pending, Gone, QuietInv, CompleteInv, DepotInv,
                    TypeOK
      <4> QED
        BY <2>1, <3>1, <4>1, <4>2, OneSettles
    <3>3. CASE ~(\/ InstallFile
                 \/ LeaveUnclaimed \/ RemoveFile \/ RestoreData \/ RestoreMeta)
      <4>1. fs' = fs
        BY <2>1, <2>4, <3>3
           DEF QuietStep, Uninstall, InstallStep, CompactArchive, BackupFile,
               CompactRollback, Activate, Cleanup, DeleteRows, RemoveArchive,
               Prune
      <4> QED
        BY <2>1, <3>1, <4>1 DEF Layered!vars, Stack
    <3> QED
        BY <3>2, <3>3
  <2> QED
    BY <2>2, <2>3, <2>4
<1>2. CASE UNCHANGED hvars
  <2>1. UNCHANGED <<fs, archives, files, pc, cur, base>>
    BY <1>2 DEF hvars, vars, db, proc
  <2>2. Stack' = Stack
    BY <2>1 DEF Stack, IsRoot, Leaving, LayerOf
  <2> QED
    BY <2>1, <2>2 DEF Layered!vars, Stack
<1> QED
    BY <1>1, <1>2

(* The undisturbed depot is a stack of layers over the base system: roots  *)
(* come on top and go from anywhere, and every path settles to what its    *)
(* newest layer says before the next command begins.                       *)
THEOREM DepotIsStack ==
    Undisturbed /\ HSpec => Layered!Init /\ [][Layered!Next]_(Layered!vars)
<1> SUFFICES ASSUME Undisturbed
             PROVE  HSpec => Layered!Init /\ [][Layered!Next]_(Layered!vars)
    OBVIOUS
<1>1. HInit => Layered!Init
    BY DEF HInit, Init, Layered!Init, IsRoot
<1>2. HInit => QuietInv
    BY InitQuiet DEF Undisturbed
<1>3. QuietInv /\ [HNext]_hvars => QuietInv'
    BY NextQuiet DEF Undisturbed
<1>4. QuietInv /\ QuietInv' /\ [HNext]_hvars => [Layered!Next]_(Layered!vars)
    BY StepRefines
<1> QED
    BY <1>1, <1>2, <1>3, <1>4, PTL DEF HSpec
=============================================================================
