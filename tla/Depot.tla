-------------------------------- MODULE Depot -------------------------------
(***************************************************************************)
(* The darwinup depot: installing roots over the base system and           *)
(* uninstalling them again (darwinup/Depot.cpp).  One process at a time    *)
(* owns the depot (it holds an exclusive lock from Depot::initialize to    *)
(* exit), so one command runs at a time, in steps; between any two steps   *)
(* the process may die, a helper program or a system call may fail, and    *)
(* the user may change files, none of which takes the lock.                *)
(*                                                                         *)
(* Each step ends at a point where the program has made something durable: *)
(* a database transaction, a tarball, one file moved.  The transaction of  *)
(* an installation (rows, extraction, analysis) is one step: until it      *)
(* commits nothing outside it has changed but a directory that no row      *)
(* names.                                                                  *)
(***************************************************************************)
EXTENDS FileRows

CONSTANTS
    Roots,          \* the roots that may be installed: trees with some file
    InitialTrees,   \* what the root file system may hold at first
    UserEntries,    \* what the user may put at a path
    MaxEdits,       \* bound on changes the user makes
    MaxCrashes,     \* bound on deaths of the process
    MaxFaults,      \* bound on failures of helpers and system calls
    BusyEdits,      \* TRUE iff the user also edits while darwinup runs
    Torn,           \* a tarball whose writer did not finish: tar rejects it
    Hollow          \* one that tar accepts and that holds no directory

ASSUME RootsAssumption ==
    Roots \subseteq {t \in Tree : \E p \in Paths : t[p] # Absent}
ASSUME InitialTreesAssumption == InitialTrees \subseteq Tree
ASSUME UserEntriesAssumption == UserEntries \subseteq Entry
ASSUME BudgetAssumption == /\ MaxEdits \in Nat /\ MaxCrashes \in Nat
                           /\ MaxFaults \in Nat /\ BusyEdits \in BOOLEAN

ASSUME TornAssumption == Torn \notin Tree /\ Torn # None
ASSUME HollowAssumption == Hollow \notin Tree \cup {None, Torn}

(* What a writer that fails or dies may leave where a tarball should be.   *)
Unfinished == {None, Torn, Hollow}

Archive == [rollback : BOOLEAN, active : BOOLEAN]
ASSUME NoArchiveAssumption == None \notin Archive

VARIABLES
    fs,         \* the root file system
    archives,   \* the archives table
    files,      \* the files table
    nextSerial, \* sqlite_sequence: the next serial of the archives table
    expanded,   \* the expanded backing stores, Archives/<uuid>
    tarball,    \* the compacted backing stores, Archives/<uuid>.tar.bz2
    pc,         \* the step the running command is about to take
    cur,        \* the archive the command works on, 0 when none
    todo,       \* the paths iterate_files has still to visit
    res,        \* the result code of the last step
    toRemove,   \* InstallContext::files_to_remove
    budget      \* what remains of the three bounds

db    == <<archives, files, nextSerial>>
store == <<expanded, tarball>>
proc  == <<pc, cur, todo, res, toRemove>>
vars  == <<fs, db, store, proc, budget>>

Steps == {"idle", "compact", "backup", "install", "cleanup",
          "deactivate", "uninstall", "remove", "prune"}

EmptyTree == [p \in Paths |-> Absent]

TypeOK ==
    /\ fs \in Tree
    /\ archives \in [Serials -> Archive \cup {None}]
    /\ files \in FileTab
    /\ nextSerial \in 1..(MaxSerial + 1)
    /\ expanded \in [Serials -> Tree \cup {None}]
    /\ tarball \in [Serials -> Tree \cup Unfinished]
    /\ pc \in Steps
    /\ cur \in 0..MaxSerial
    /\ todo \subseteq Paths
    /\ res \in {"ok", "error"}
    /\ toRemove \subseteq Serials \X Paths
    /\ budget \in [edits : 0..MaxEdits, crashes : 0..MaxCrashes,
                   faults : 0..MaxFaults]

(***************************************************************************)
(* The rollback archive is inserted just before the archive it serves.     *)
(***************************************************************************)
RollbackOf(s) == s - 1
IsRoot(s)     == s \in Serials /\ archives[s] # None /\ ~archives[s].rollback

Idle == /\ pc' = "idle" /\ cur' = 0 /\ res' = "ok"
        /\ todo' = {} /\ toRemove' = {}

Fault(kind) == /\ budget[kind] > 0
               /\ budget' = [budget EXCEPT ![kind] = @ - 1]

-----------------------------------------------------------------------------
Init ==
    /\ fs \in InitialTrees
    /\ archives = [s \in Serials |-> None]
    /\ files = [s \in Serials |-> NoFiles]
    /\ nextSerial = 1
    /\ expanded = [s \in Serials |-> None]
    /\ tarball = [s \in Serials |-> None]
    /\ pc = "idle" /\ cur = 0 /\ todo = {} /\ res = "ok" /\ toRemove = {}
    /\ budget = [edits |-> MaxEdits, crashes |-> MaxCrashes,
                 faults |-> MaxFaults]

(***************************************************************************)
(* Depot::install up to its first commit: rows for the rollback archive    *)
(* and the archive, both directories, extraction, analysis of each staged  *)
(* file, and no rollback archive when it has no file.                      *)
(***************************************************************************)
Install(root) ==
    LET rb     == nextSerial
        s      == nextSerial + 1
        staged == {p \in Paths : root[p] # Absent}
        saved  == {p \in staged :
                      NeedsRollbackRow(files, s, p, fs[p], root[p])}
        rollbackRows == [p \in Paths |-> IF p \in saved
            THEN RollbackRow(files, s, p, fs[p], root[p]) ELSE None]
        stagedRows == [p \in Paths |-> IF p \in staged
            THEN StagedRow(files, s, p, fs[p], root[p]) ELSE None]
    IN  /\ pc = "idle"
        /\ s <= MaxSerial
        /\ archives' = [archives EXCEPT
               ![rb] = IF saved = {} THEN None
                       ELSE [rollback |-> TRUE, active |-> FALSE],
               ![s]  = [rollback |-> FALSE, active |-> FALSE]]
        /\ files' = [files EXCEPT ![rb] = rollbackRows, ![s] = stagedRows]
        /\ nextSerial' = s + 1
        /\ expanded' = [expanded EXCEPT ![rb] = EmptyTree, ![s] = root]
        /\ cur' = s /\ pc' = "compact"
        /\ UNCHANGED <<fs, tarball, todo, res, toRemove, budget>>

(* The expanded archive is packed before its files are moved away. *)
CompactArchive ==
    /\ pc = "compact"
    /\ tarball' = [tarball EXCEPT ![cur] = expanded[cur]]
    /\ pc' = "backup" /\ todo' = PathsOf(files, RollbackOf(cur))
    /\ UNCHANGED <<fs, db, expanded, cur, res, toRemove, budget>>

CompactArchiveFails ==
    /\ pc = "compact" /\ Fault("faults")
    /\ \E t \in Unfinished : tarball' = [tarball EXCEPT ![cur] = t]
    /\ pc' = "cleanup" /\ res' = "error"
    /\ UNCHANGED <<fs, db, expanded, cur, todo, toRemove>>

(* Depot::backup_file: copy what the rollback row says must be kept. *)
IsSaved(s, p) == "ROLLBACK_DATA" \in files[s][p].flags

BackupFile ==
    /\ pc = "backup"
    /\ \E p \in todo : LET rb == RollbackOf(cur) IN
        /\ p = Min(todo) /\ todo' = todo \ {p}
        /\ IF IsSaved(rb, p)
           THEN /\ fs[p] # Absent
                /\ expanded' = [expanded EXCEPT ![rb][p] = fs[p]]
           ELSE UNCHANGED expanded
    /\ UNCHANGED <<fs, db, tarball, pc, cur, res, toRemove, budget>>

(* A copy that fails, or has nothing to copy, fails an assertion. *)
BackupFileAborts ==
    /\ pc = "backup"
    /\ \E p \in todo :
        /\ p = Min(todo) /\ IsSaved(RollbackOf(cur), p)
        /\ \/ fs[p] = Absent /\ UNCHANGED budget
           \/ fs[p] # Absent /\ Fault("faults")
    /\ Idle
    /\ UNCHANGED <<fs, db, store>>

CompactRollback ==
    LET rb == RollbackOf(cur)
    IN  /\ pc = "backup" /\ todo = {}
        /\ tarball' = IF \E p \in PathsOf(files, rb) : IsSaved(rb, p)
                      THEN [tarball EXCEPT ![rb] = expanded[rb]] ELSE tarball
        /\ pc' = "install" /\ todo' = PathsOf(files, cur)
        /\ UNCHANGED <<fs, db, expanded, cur, res, toRemove, budget>>

(* Mutated form: the installation goes on without the tarball.             *)
CompactRollbackIgnored ==
    LET rb == RollbackOf(cur)
    IN  /\ pc = "backup" /\ todo = {}
        /\ \E p \in PathsOf(files, rb) : IsSaved(rb, p)
        /\ Fault("faults")
        /\ \E t \in Unfinished : tarball' = [tarball EXCEPT ![rb] = t]
        /\ pc' = "install" /\ todo' = PathsOf(files, cur)
        /\ UNCHANGED <<fs, db, expanded, cur, res, toRemove>>

CompactRollbackFails ==
    LET rb == RollbackOf(cur)
    IN  /\ pc = "backup" /\ todo = {}
        /\ \E p \in PathsOf(files, rb) : IsSaved(rb, p)
        /\ Fault("faults")
        /\ \E t \in Unfinished : tarball' = [tarball EXCEPT ![rb] = t]
        /\ pc' = "cleanup" /\ res' = "error"
        /\ UNCHANGED <<fs, db, expanded, cur, todo, toRemove>>

(***************************************************************************)
(* Depot::install_file.  File::install renames the staged file over the    *)
(* old one; File::install_info only sets owners and permissions.  The      *)
(* iteration goes on after a file that fails and keeps the last result.    *)
(***************************************************************************)
InstallFile ==
    /\ pc = "install"
    /\ \E p \in todo :
        /\ p = Min(todo) /\ todo' = todo \ {p}
        /\ IF "INSTALL_DATA" \in files[cur][p].flags
           THEN /\ fs' = [fs EXCEPT ![p] = expanded[cur][p]]
                /\ expanded' = [expanded EXCEPT ![cur][p] = Absent]
           ELSE /\ fs[p] # Absent
                /\ fs' = [fs EXCEPT ![p].meta = files[cur][p].node.meta]
                /\ UNCHANGED expanded
    /\ res' = "ok"
    /\ UNCHANGED <<db, tarball, pc, cur, toRemove, budget>>

InstallFileFails ==
    /\ pc = "install"
    /\ \E p \in todo :
        /\ p = Min(todo) /\ todo' = todo \ {p}
        /\ \/ /\ "INSTALL_DATA" \notin files[cur][p].flags
              /\ fs[p] = Absent
              /\ UNCHANGED budget
           \/ Fault("faults")
    /\ res' = "error"
    /\ UNCHANGED <<fs, db, store, pc, cur, toRemove>>

(* The second transaction of Depot::install, made when res is still 0. *)
Activated(a) == IF a = None THEN None ELSE [a EXCEPT !.active = TRUE]

Activate ==
    /\ pc = "install" /\ todo = {} /\ res = "ok"
    /\ archives' = [archives EXCEPT ![RollbackOf(cur)] = Activated(@),
                                    ![cur] = Activated(@)]
    /\ pc' = "cleanup"
    /\ UNCHANGED <<fs, files, nextSerial, store, cur, todo, res, toRemove,
                   budget>>

NotActivated ==
    /\ pc = "install" /\ todo = {}
    /\ \/ res = "error" /\ UNCHANGED budget
       \/ res = "ok" /\ Fault("faults")
    /\ pc' = "cleanup" /\ res' = "error"
    /\ UNCHANGED <<fs, db, store, cur, todo, toRemove>>

(***************************************************************************)
(* Both directories go; install(path) then uninstalls the archive it could *)
(* not install.                                                            *)
(***************************************************************************)
Cleanup ==
    /\ pc = "cleanup"
    /\ expanded' = [expanded EXCEPT ![RollbackOf(cur)] = None, ![cur] = None]
    /\ IF res = "ok" THEN Idle
       ELSE /\ pc' = "deactivate" /\ res' = "ok"
            /\ UNCHANGED <<cur, todo, toRemove>>
    /\ UNCHANGED <<fs, db, tarball, budget>>
-----------------------------------------------------------------------------
(* Depot::uninstall of any archive that is not a rollback archive. *)
Uninstall(s) ==
    /\ pc = "idle" /\ IsRoot(s)
    /\ pc' = "deactivate" /\ cur' = s
    /\ UNCHANGED <<fs, db, store, todo, res, toRemove, budget>>

Deactivate ==
    /\ pc = "deactivate"
    /\ expanded' = [s \in Serials |-> None]
    /\ archives' = [archives EXCEPT ![cur].active = FALSE]
    /\ pc' = "uninstall" /\ todo' = PathsOf(files, cur)
    /\ UNCHANGED <<fs, files, nextSerial, tarball, cur, res, toRemove, budget>>

(***************************************************************************)
(* Depot::uninstall_file.  The archive still claims a path when its row    *)
(* describes the file that is there and no later archive has a row.        *)
(***************************************************************************)
Claims(s, p) ==
    /\ "BASE_SYSTEM" \notin files[s][p].flags
    /\ fs[p] # Absent
    /\ Compare(files[s][p].node, fs[p]) = {}
    /\ ~IsSuperseded(files, s, p)

Previous(p)     == files[Preceding(files, cur, p)][p]
ToPrevious(p)   == Compare(files[cur][p].node, Previous(p).node)

(* Mutated form: rows of the base system go as well.                       *)
SpentBase(p) ==
    IF Previous(p).flags \cap {"NO_ENTRY", "ROLLBACK_DATA"} # {}
    THEN {<<Preceding(files, cur, p), p>>} ELSE {}

(* Rows of user data go once the data is back in place. *)
Spent(p) ==
    IF /\ Previous(p).flags \cap {"NO_ENTRY", "ROLLBACK_DATA"} # {}
       /\ "BASE_SYSTEM" \notin Previous(p).flags
    THEN {<<Preceding(files, cur, p), p>>} ELSE {}

UninstallNext(p) == /\ pc = "uninstall" /\ p = Max(todo)
                    /\ todo' = todo \ {p}
                    /\ UNCHANGED <<db, tarball, pc, cur>>

LeaveUnclaimed ==
    \E p \in todo :
        /\ UninstallNext(p) /\ ~Claims(cur, p)
        /\ res' = "ok"
        /\ UNCHANGED <<fs, expanded, toRemove, budget>>

RemoveFile ==
    \E p \in todo :
        /\ UninstallNext(p) /\ Claims(cur, p)
        /\ "NO_ENTRY" \in Previous(p).flags
        /\ fs' = [fs EXCEPT ![p] = Absent]
        /\ res' = "ok" /\ toRemove' = toRemove \cup Spent(p)
        /\ UNCHANGED <<expanded, budget>>

(* Mutated form: a backing store is never expanded on demand.              *)
IsExpanded(t) == expanded[t] # None

(* File::install from a backing store, expanded on demand: the exit status *)
(* of tar decides whether the file is looked for again.                    *)
CanExpand(t) == expanded[t] # None \/ tarball[t] \notin Unfinished
Opened(t)    == IF expanded[t] # None THEN expanded[t] ELSE tarball[t]

RestoreData ==
    \E p \in todo : LET t == Preceding(files, cur, p) IN
        /\ UninstallNext(p) /\ Claims(cur, p)
        /\ "NO_ENTRY" \notin Previous(p).flags
        /\ DataDiffers(ToPrevious(p))
        /\ CanExpand(t) /\ Opened(t)[p] # Absent
        /\ fs' = [fs EXCEPT ![p] = Opened(t)[p]]
        /\ expanded' = [expanded EXCEPT ![t] = [Opened(t) EXCEPT ![p] = Absent]]
        /\ res' = "ok" /\ toRemove' = toRemove \cup Spent(p)
        /\ UNCHANGED budget

(* Mutated forms: the recursion of File::install never returns; whatever a *)
(* tarball that cannot be read leaves is taken for a backing store.        *)
RestoreDataHangs == FALSE
RestoreDataTorn ==
    \E p \in todo : LET t == Preceding(files, cur, p) IN
        /\ UninstallNext(p) /\ Claims(cur, p)
        /\ "NO_ENTRY" \notin Previous(p).flags
        /\ DataDiffers(ToPrevious(p))
        /\ ~(CanExpand(t) /\ Opened(t)[p] # Absent)
        /\ expanded' = [expanded EXCEPT ![t] = tarball[t]]
        /\ res' = "error"
        /\ UNCHANGED <<fs, toRemove, budget>>

(* tar succeeds and leaves no directory: File::install calls itself again, *)
(* finds the same, and never returns.  Nothing changes any more.           *)
LeavesNothing(t) == expanded[t] = None /\ tarball[t] = Hollow

Endless ==
    /\ pc = "uninstall"
    /\ \E p \in todo :
        /\ p = Max(todo) /\ Claims(cur, p)
        /\ "NO_ENTRY" \notin Previous(p).flags
        /\ DataDiffers(ToPrevious(p))
        /\ LeavesNothing(Preceding(files, cur, p))

RestoreDataFails ==
    \E p \in todo : LET t == Preceding(files, cur, p) IN
        /\ UninstallNext(p) /\ Claims(cur, p)
        /\ "NO_ENTRY" \notin Previous(p).flags
        /\ DataDiffers(ToPrevious(p))
        /\ ~(CanExpand(t) /\ Opened(t)[p] # Absent) /\ ~LeavesNothing(t)
        /\ expanded' = IF CanExpand(t)
                       THEN [expanded EXCEPT ![t] = Opened(t)] ELSE expanded
        /\ res' = "error"
        /\ UNCHANGED <<fs, toRemove, budget>>

RestoreMeta ==
    \E p \in todo :
        /\ UninstallNext(p) /\ Claims(cur, p)
        /\ "NO_ENTRY" \notin Previous(p).flags
        /\ ~DataDiffers(ToPrevious(p))
        /\ fs' = [fs EXCEPT ![p].meta = Previous(p).node.meta]
        /\ res' = "ok" /\ toRemove' = toRemove \cup Spent(p)
        /\ UNCHANGED <<expanded, budget>>

(* unlink, tar, rename or chown may fail whatever the depot holds. *)
UninstallFileFails ==
    \E p \in todo :
        /\ UninstallNext(p) /\ Claims(cur, p)
        /\ \/ "NO_ENTRY" \in Previous(p).flags
           \/ ToPrevious(p) # {}
        /\ Fault("faults")
        /\ res' = "error"
        /\ UNCHANGED <<fs, expanded, toRemove>>

(* Only the result of the last file decides whether the command goes on. *)
UninstallStops ==
    /\ pc = "uninstall" /\ todo = {} /\ res = "error"
    /\ Idle
    /\ UNCHANGED <<fs, db, store, budget>>

DeleteRows ==
    /\ pc = "uninstall" /\ todo = {} /\ res = "ok"
    /\ files' = [s \in Serials |-> [p \in Paths |->
                    IF <<s, p>> \in toRemove THEN None ELSE files[s][p]]]
    /\ pc' = "remove" /\ toRemove' = {}
    /\ UNCHANGED <<fs, archives, nextSerial, store, cur, todo, res, budget>>

DeleteFiles(s) == [files EXCEPT ![s] = NoFiles]

RemoveArchive ==
    /\ pc = "remove"
    /\ files' = DeleteFiles(cur)
    /\ archives' = [archives EXCEPT ![cur] = None]
    /\ pc' = "prune"
    /\ UNCHANGED <<fs, nextSerial, store, cur, todo, res, toRemove, budget>>

(* Mutated form: the tarball of the rollback archive goes as well.         *)
PruneBoth ==
    /\ pc = "prune"
    /\ expanded' = [s \in Serials |-> None]
    /\ archives' = [s \in Serials |->
                       IF PathsOf(files, s) = {} THEN None ELSE archives[s]]
    /\ tarball' = [tarball EXCEPT ![cur] = None, ![RollbackOf(cur)] = None]
    /\ Idle
    /\ UNCHANGED <<fs, files, nextSerial, budget>>

Prune ==
    /\ pc = "prune"
    /\ expanded' = [s \in Serials |-> None]
    /\ archives' = [s \in Serials |->
                       IF PathsOf(files, s) = {} THEN None ELSE archives[s]]
    /\ tarball' = [tarball EXCEPT ![cur] = None]
    /\ Idle
    /\ UNCHANGED <<fs, files, nextSerial, budget>>
-----------------------------------------------------------------------------
(* The process dies; a tarball it was writing stays unfinished. *)
Crash ==
    /\ pc # "idle" /\ Fault("crashes")
    /\ \E t \in Unfinished :
       \/ UNCHANGED tarball
       \/ pc = "compact" /\ tarball' = [tarball EXCEPT ![cur] = t]
       \/ /\ pc = "backup" /\ todo = {}
          /\ \E p \in PathsOf(files, RollbackOf(cur)) : IsSaved(RollbackOf(cur), p)
          /\ tarball' = [tarball EXCEPT ![RollbackOf(cur)] = t]
    /\ Idle
    /\ UNCHANGED <<fs, db, expanded>>

(* Someone other than darwinup writes, changes or removes a file. *)
Edit(p, e) ==
    /\ pc = "idle" \/ BusyEdits
    /\ e # fs[p] /\ Fault("edits")
    /\ fs' = [fs EXCEPT ![p] = e]
    /\ UNCHANGED <<db, store, proc>>

InstallStep == \/ CompactArchive \/ BackupFile \/ CompactRollback
               \/ InstallFile \/ Activate \/ Cleanup
UninstallStep == \/ Deactivate \/ LeaveUnclaimed \/ RemoveFile \/ RestoreData
                 \/ RestoreDataFails \/ RestoreMeta \/ UninstallStops
                 \/ DeleteRows \/ RemoveArchive \/ Prune
Failure == \/ CompactArchiveFails \/ BackupFileAborts \/ CompactRollbackFails
           \/ InstallFileFails \/ NotActivated \/ UninstallFileFails

Next == \/ \E root \in Roots : Install(root)
        \/ \E s \in Serials : Uninstall(s)
        \/ InstallStep \/ UninstallStep \/ Failure \/ Crash
        \/ \E p \in Paths, e \in UserEntries : Edit(p, e)

Spec == Init /\ [][Next]_vars
-----------------------------------------------------------------------------
(* Every row belongs to an archive that is in the archives table.  Where   *)
(* one does not, DB::make_file returns NULL and the iteration over the     *)
(* files, or the search for a preceding file, dereferences it.             *)
RowsHaveArchive ==
    \A s \in Serials : archives[s] = None => PathsOf(files, s) = {}

(* Whatever rows have been deleted, by whatever order of uninstalls,       *)
(* crashes and edits, each row of a root still has a row before it: the    *)
(* assertion "preceding != NULL" of Depot::uninstall_file cannot fail.     *)
RowsArePreceded ==
    \A s \in Serials : IsRoot(s) =>
        \A p \in PathsOf(files, s) : IsPreceded(files, s, p)

(* A root that is marked active can be uninstalled: where its row replaced *)
(* other data, the backing store of the archive that has the previous row  *)
(* is packed and holds that very data.                                     *)
HoldsData(t, p, node) ==
    /\ tarball[t] \notin Unfinished
    /\ tarball[t][p] # Absent
    /\ tarball[t][p].data = node.data

HasPrevious(s, p) ==
    LET t == Preceding(files, s, p)  old == files[t][p] IN
    \/ "NO_ENTRY" \in old.flags
    \/ ~DataDiffers(Compare(files[s][p].node, old.node))
    \/ HoldsData(t, p, old.node)

IsRestorable(s)  == \A p \in PathsOf(files, s) : HasPrevious(s, p)
ActiveRestorable == \A s \in Serials : IsRoot(s) /\ archives[s].active => IsRestorable(s)

(* The same where users write what they like: what is missing is the data  *)
(* of a row that never promised any, one that records a user's change      *)
(* without ROLLBACK_DATA (Depot.cpp:567-578).  A row that does promise its *)
(* data, and a root's row, have it.                                        *)
PromisesKept ==
    \A s \in Serials : IsRoot(s) /\ archives[s].active =>
        \A p \in PathsOf(files, s) :
            LET t == Preceding(files, s, p) IN
            HasPrevious(s, p) \/ (archives[t].rollback /\ ~IsSaved(t, p))

(* The installation never destroys what it has promised to keep: when it   *)
(* puts a file over one whose rollback row says ROLLBACK_DATA, that data   *)
(* is already in a finished tarball, whatever crashed or failed before.    *)
BackupBeforeOverwrite ==
    [][\A p \in Paths :
          LET rb == RollbackOf(cur) IN
          /\ pc = "install" /\ pc' = "install" /\ cur > 1 /\ fs'[p] # fs[p]
          /\ files[rb][p] # None /\ IsSaved(rb, p)
          => HoldsData(rb, p, files[rb][p].node)]_vars

(* An archive becomes active only with every file of it in place.          *)
ActivatedComplete ==
    [][\A s \in Serials :
          /\ archives[s] # None /\ archives'[s] # None
          /\ ~archives[s].active /\ archives'[s].active
          /\ ~archives[s].rollback
          => \A p \in PathsOf(files, s) : fs[p] = files[s][p].node]_vars

(* Whatever fails, every command comes to its end, unless the tarball that *)
(* must be expanded for it is one that tar accepts without leaving the     *)
(* directory: there File::install calls itself for ever (File.cpp:181-184).*)
CommandsEnd == pc # "idle" ~> pc = "idle" \/ Endless

(* An uninstallation that has begun takes the archive away, if at that     *)
(* moment all data it has to put back is in the tarballs.                  *)
RestorableSucceeds ==
    \A s \in Serials :
        pc = "deactivate" /\ cur = s /\ IsRestorable(s) ~> ~IsRoot(s)
-----------------------------------------------------------------------------
(***************************************************************************)
(* The inductive invariant behind RowsHaveArchive and RowsArePreceded, and *)
(* what is added to it for BackupBeforeOverwrite (RollbackKept on).        *)
(***************************************************************************)

(* What a step of a command relies on when it is reached.                  *)
CommandShape ==
    /\ cur = 0 <=> pc = "idle"
    /\ pc \notin {"idle", "prune"} => IsRoot(cur)
    /\ pc \in {"compact", "backup", "install", "cleanup"} => cur > 1
    /\ pc \in {"compact", "backup", "install"} =>
           expanded[cur] # None /\ expanded[RollbackOf(cur)] # None
    /\ todo # {} => \/ pc = "backup" /\ todo \subseteq PathsOf(files, RollbackOf(cur))
                    \/ pc \in {"install", "uninstall"} /\ todo \subseteq PathsOf(files, cur)
    /\ toRemove # {} => pc = "uninstall"

(* A root's rows describe files; only a rollback row may say "no entry".   *)
RowShape ==
    \A s \in Serials : \A p \in PathsOf(files, s) :
        /\ files[s][p].node = Absent => "NO_ENTRY" \in files[s][p].flags
        /\ ~archives[s].rollback => /\ files[s][p].flags \subseteq {"INSTALL_DATA"}
                                    /\ files[s][p].node # Absent

(* Serials that have not been handed out are unused.                       *)
FreshSerials ==
    \A s \in Serials : s >= nextSerial =>
        archives[s] = None /\ PathsOf(files, s) = {}

(* Below or at each row is a row of the base system, and no command is     *)
(* about to delete one of those.                                           *)
IsBase(s, p) == files[s][p] # None /\ "BASE_SYSTEM" \in files[s][p].flags

OnBase ==
    /\ \A s \in Serials : \A p \in PathsOf(files, s) :
           \E t \in Serials : t <= s /\ IsBase(t, p)
    /\ \A s \in Serials, p \in Paths : <<s, p>> \in toRemove => ~IsBase(s, p)

(* The rollback archive on its way to the tarball, while nobody edits: its *)
(* rows describe the files that are there, then its store holds what has   *)
(* been copied, then its tarball all that must be kept.                    *)
RollbackKept ==
    LET rb    == RollbackOf(cur)
        saved == {p \in PathsOf(files, rb) : IsSaved(rb, p)}
    IN  /\ pc \in {"compact", "backup"} =>
               \A p \in PathsOf(files, rb) : fs[p] = files[rb][p].node
        /\ pc = "backup" =>
               \A p \in saved \ todo : expanded[rb][p] = files[rb][p].node
        /\ pc = "install" =>
               \A p \in saved : HoldsData(rb, p, files[rb][p].node)

(* A row whose data must be kept describes a file.                         *)
SavedIsFile == \A s \in Serials : \A p \in PathsOf(files, s) :
                   IsSaved(s, p) => files[s][p].node # Absent

(* The inductive invariant: what the depot's database and a command that   *)
(* runs have in common at every step, crashes and failures included.       *)
DepotInv == TypeOK /\ CommandShape /\ RowsHaveArchive /\ RowShape
            /\ FreshSerials /\ OnBase
=============================================================================
