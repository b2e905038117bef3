----------------------------- MODULE DepotCommands ---------------------------
(***************************************************************************)
(* darwinup as its user calls it (main.cpp): commands with several         *)
(* arguments, archives named by serial, uuid, name or keyword and looked up*)
(* through the cache of prepared statements, roots that are upgraded and   *)
(* renamed, the guard against roots of another OS build.  The installations*)
(* and uninstallations the commands ask for are those of Depot.            *)
(***************************************************************************)
EXTENDS Depot, SqlTable

CONSTANTS
    NameOf,         \* the name each root's file has
    CommandLines,   \* the commands that may be given
    MaxCommands,    \* bound on commands
    MaxClock,       \* bound on the clock
    MaxBuild        \* bound on the builds of the OS, the first is 0

VARIABLES
    labels,     \* of each archive, its name, date and build of the OS
    clock,      \* time(NULL)
    build,      \* the build of the OS that runs
    main,       \* the darwinup process: where it is and what it was asked
    cache,      \* its prepared statements
    left        \* the commands that may still be given

shell    == <<main, cache, left>>
world    == <<labels, clock, build>>
allvars  == <<vars, shell, world>>

RollbackName == "<Rollback>"
Names        == {NameOf[r] : r \in Roots} \cup
                {labels[s].name : s \in {t \in Serials : archives[t] # None}}

(* An archive on the list of a command, and whether it is already known to *)
(* be superseded (Archive::m_is_superseded).                               *)
Listing(s, known) == [serial |-> s, superseded |-> known]

Resting == [pc |-> "idle", op |-> "none", args |-> <<>>, force |-> FALSE,
            list |-> <<>>, old |-> 0, result |-> "ok"]
NoStatements == <<>>

(* What main.cpp takes each argument for: a root's path, an archive        *)
(* specification, or for "rename" such a specification and a name in turn. *)
Specified(spec) ==
    \/ spec[1] \in {"uuid", "serial", "name", "newest", "oldest"}
    \/ spec \in {<<"all", 0>>, <<"superseded", 0>>}

ASSUME CommandLinesAssumption ==
    \A c \in CommandLines :
        /\ c.op \in {"install", "upgrade", "uninstall", "files", "verify", "list", "rename"}
        /\ Len(c.args) \in Nat /\ c.args = [i \in 1..Len(c.args) |-> c.args[i]]
        /\ \A i \in DOMAIN c.args :
            /\ c.op \in {"install", "upgrade"} => c.args[i] \in Roots
            /\ \/ c.op \in {"uninstall", "files", "verify", "list"}
               \/ c.op = "rename" /\ i % 2 = 1
               => Specified(c.args[i])
ASSUME BoundsAssumption == MaxCommands \in Nat /\ MaxClock \in Nat /\ MaxBuild \in Nat

(***************************************************************************)
(* The rollback archives are darwinup's own: they have the odd serials, no *)
(* command names one to be renamed, and no root's name or new name is      *)
(* theirs.  Nothing in the code sees to it (Depot.cpp:1508).               *)
(***************************************************************************)
RenamesRoots ==
    /\ \A r \in Roots : NameOf[r] # RollbackName
    /\ \A c \in CommandLines : c.op = "rename" => \A i \in DOMAIN c.args :
        IF i % 2 = 0 THEN c.args[i] # RollbackName
        ELSE /\ c.args[i][1] \in {"uuid", "serial"} => c.args[i][2] % 2 = 0
             /\ c.args[i][1] = "name" => c.args[i][2] # RollbackName

CInit ==
    /\ Init
    /\ labels = [s \in Serials |-> None]
    /\ clock = 0 /\ build = 0
    /\ main = Resting /\ cache = NoStatements /\ left = MaxCommands

-----------------------------------------------------------------------------
(* The tables as SQL sees them. *)
ArchiveColumns == <<"serial", "uuid", "name", "date_added", "active", "info", "osbuild">>

Flagged(b) == IF b THEN 1 ELSE 0

Row(s) == [serial |-> s, uuid |-> s, name |-> labels[s].name,
           date_added |-> labels[s].date, active |-> Flagged(archives[s].active),
           info |-> Flagged(archives[s].rollback), osbuild |-> labels[s].build]
LabelIn(rows, s) == LET r == CHOOSE row \in rows : row.serial = s
                    IN  [name |-> r.name, date |-> r.date_added, build |-> r.osbuild]
ArchiveRows == {Row(s) : s \in {t \in Serials : archives[t] # None}}
PathRows    == UNION {{[archive |-> s, path |-> p] : p \in PathsOf(files, s)} : s \in Serials}

ByUuid   == Named("archive__uuid",   Statement(<<Is("uuid")>>))
BySerial == Named("archive__serial", Statement(<<Is("serial")>>))
ByName   == Named("archive__name",   Statement(<<Is("name")>>))
ByNewest == Named("archive_newest",  Ordered(<<IsNot("name")>>, "date_added", TRUE))

(* Mutated form: both keywords share a name.                               *)
ByOldestShared == Named("archive_newest",  Ordered(<<IsNot("name")>>, "date_added", FALSE))

ByOldest == Named("archive_oldest",  Ordered(<<IsNot("name")>>, "date_added", FALSE))
GetArchives == Named("get_archives", Ordered(<<IsNot("name")>>, "serial", TRUE))
(* The same statement takes the mark "active" from an archive and gives it.*)
ActivateArchive == UpdateValue("active", <<Is("serial")>>)
DeleteFilesOf   == Statement(<<Is("archive")>>)
FilePreceded   == Named("file_preceded",
                        Ordered(<<LessThan("archive"), Is("path")>>, "archive", TRUE))
FileSuperseded == Named("file_superseded",
                        Ordered(<<MoreThan("archive"), Is("path")>>, "archive", FALSE))

(***************************************************************************)
(* Depot::get_archive.  An archive specification is a pair: what its text  *)
(* was taken for, and the value.                                           *)
(***************************************************************************)
All        == <<"all", 0>>
Superseded == <<"superseded", 0>>
Keywords   == {All, Superseded}

Asks(spec) == CASE spec[1] = "uuid"   -> ByUuid
                [] spec[1] = "serial" -> BySerial
                [] spec[1] = "name"   -> ByName
                [] spec[1] = "newest" -> ByNewest
                [] spec[1] = "oldest" -> ByOldest
Value(spec) == IF spec[1] \in {"newest", "oldest"} THEN RollbackName ELSE spec[2]

GetArchive(spec) == {r.serial : r \in
    First(Prepared(cache, Asks(spec)), <<Value(spec)>>, ArchiveRows)}

(* Depot::get_all_archives *)
AllArchives ==
    LET rows == InOrder(Prepared(cache, GetArchives), <<RollbackName>>, ArchiveRows)
    IN  [i \in DOMAIN rows |-> rows[i].serial]

(* Depot::is_superseded: no file of the archive is the one that is there.  *)
(* Mutated form: one file is not.                                          *)
IsSupersededPartly(s) ==
    \E p \in PathsOf(files, s) : \/ IsSuperseded(files, s, p)
                                 \/ Compare(files[s][p].node, fs[p]) # {}

IsSupersededArchive(s) ==
    \A p \in PathsOf(files, s) : \/ IsSuperseded(files, s, p)
                                 \/ Compare(files[s][p].node, fs[p]) # {}

SupersededArchives == SelectSeq(AllArchives, IsSupersededArchive)

(* A call that reads the files table prepares what get_next_file asks. *)
Asking(named) == cache' = Caching(cache, named)
AskingFiles   == cache' = Caching(Caching(cache, FilePreceded), FileSuperseded)
-----------------------------------------------------------------------------
(* main: the command line, then one argument after the other *)
Command ==
    /\ main.pc = "idle" /\ pc = "idle" /\ left > 0
    /\ left' = left - 1
    /\ \E c \in CommandLines :
        /\ c.op \in {"install", "upgrade"} => nextSerial + 2 * Len(c.args) <= MaxSerial + 1
        /\ main' = [Resting EXCEPT !.pc = "next", !.op = c.op,
                                   !.args = c.args, !.force = c.force]
    /\ cache' = NoStatements
    /\ UNCHANGED <<vars, world>>

Argument(ops) == /\ main.pc = "next" /\ main.result = "ok"
                 /\ main.op \in ops /\ main.args # <<>>
Done(result) == main' = [main EXCEPT !.pc = "next", !.args = Tail(@),
                                     !.list = <<>>, !.old = 0, !.result = result]

(* The archives of a new root carry the time and the build. *)
Installing(root, old) ==
    /\ Install(root)
    /\ clock' \in {clock, clock + 1} /\ clock' <= MaxClock
    /\ LET InsertArchive(s, name, info, rows) ==
               Inserted(ArchiveColumns, <<s, name, clock', 0, info, build>>, s, rows)
           rows == InsertArchive(nextSerial + 1, NameOf[root], 0,
                       InsertArchive(nextSerial, RollbackName, 1, {}))
       IN  labels' = [s \in Serials |-> IF s \in {nextSerial, nextSerial + 1}
                                        THEN LabelIn(rows, s) ELSE labels[s]]
    /\ main' = [main EXCEPT !.pc = "install", !.old = old]
    /\ AskingFiles
    /\ UNCHANGED <<build, left>>

InstallArgument == Argument({"install"}) /\ Installing(Head(main.args), 0)

(* "upgrade": the archive that has the name of the file is the old one. *)
UpgradeArgument ==
    /\ Argument({"upgrade"})
    /\ \E old \in GetArchive(<<"name", NameOf[Head(main.args)]>>) :
           Installing(Head(main.args), old)

NothingToUpgrade ==
    /\ Argument({"upgrade"})
    /\ GetArchive(<<"name", NameOf[Head(main.args)]>>) = {}
    /\ Done("error") /\ Asking(ByName)
    /\ UNCHANGED <<vars, world, left>>

(* Mutated form: the result of the installation is not looked at.          *)
InstallReturnsAnyway ==
    /\ main.pc = "install" /\ pc = "idle"
    /\ IF main.op = "upgrade"
       THEN main' = [main EXCEPT !.pc = "list", !.list = <<Listing(main.old, FALSE)>>]
       ELSE Done("ok")
    /\ UNCHANGED <<vars, world, cache, left>>

(* Depot::install returned: the new root is active, or it was rolled back. *)
InstallReturns ==
    LET new == nextSerial - 1
        ok  == archives[new] # None /\ archives[new].active
    IN  /\ main.pc = "install" /\ pc = "idle"
        /\ IF ok /\ main.op = "upgrade"
           THEN main' = [main EXCEPT !.pc = "list", !.list = <<Listing(main.old, FALSE)>>]
           ELSE Done(IF ok THEN "ok" ELSE "error")
        /\ UNCHANGED <<vars, world, cache, left>>
-----------------------------------------------------------------------------
(* Depot::process_archive: the list is complete before the first call. *)
Listed(serials, known) ==
    main' = [main EXCEPT !.pc = "list",
                         !.list = [i \in DOMAIN serials |-> Listing(serials[i], known)]]

SelectAll ==
    /\ Argument({"uninstall", "files", "verify"}) /\ Head(main.args) = All
    /\ Listed(AllArchives, FALSE) /\ Asking(GetArchives)
    /\ UNCHANGED <<vars, world, left>>

SelectSuperseded ==
    /\ Argument({"uninstall", "files", "verify"}) /\ Head(main.args) = Superseded
    /\ Listed(SupersededArchives, TRUE)
    /\ cache' = Caching(Caching(cache, GetArchives), FileSuperseded)
    /\ UNCHANGED <<vars, world, left>>

SelectOne ==
    /\ Argument({"uninstall", "files", "verify"}) /\ Head(main.args) \notin Keywords
    /\ \/ \E s \in GetArchive(Head(main.args)) : Listed(<<s>>, FALSE)
       \/ GetArchive(Head(main.args)) = {} /\ Done("error")
    /\ Asking(Asks(Head(main.args)))
    /\ UNCHANGED <<vars, world, left>>

Returned(result) == main' = [main EXCEPT !.pc = "list", !.list = Tail(@),
                                         !.result = result]
InList(ops) == main.pc = "list" /\ main.list # <<>> /\ main.op \in ops

(* files prints the rows of the archive, verify compares them with what is *)
(* there; neither finds anything to fail on.                               *)
FilesOfArchive ==
    /\ InList({"files"}) /\ Returned("ok")
    /\ UNCHANGED <<vars, world, cache, left>>

VerifyArchive ==
    /\ InList({"verify"}) /\ Returned("ok")
    /\ UNCHANGED <<vars, world, cache, left>>

(* Depot::list.  A keyword that stands for no archive is taken for a name, *)
(* an archive that is not found is passed over.                            *)
ListArgument ==
    /\ Argument({"list"}) /\ Done("ok")
    /\ LET spec   == Head(main.args)
           listed == IF spec = All THEN AllArchives
                     ELSE IF spec = Superseded THEN SupersededArchives ELSE <<>>
           known  == IF spec = Superseded
                     THEN Caching(Caching(cache, GetArchives), FileSuperseded)
                     ELSE IF spec = All THEN Caching(cache, GetArchives) ELSE cache
       IN  cache' = IF listed # <<>> THEN known
                    ELSE Caching(known, IF spec \in Keywords THEN ByName ELSE Asks(spec))
    /\ UNCHANGED <<vars, world, left>>

(* Depot::uninstall, up to its first change. *)
Mismatch(entry) ==
    /\ ~main.force
    /\ labels[entry.serial].build # build
    /\ ~(entry.superseded \/ IsSupersededArchive(entry.serial))

UninstallRefused ==
    /\ InList({"uninstall", "upgrade"})
    /\ archives[Head(main.list).serial].rollback \/ Mismatch(Head(main.list))
    /\ Returned("error") /\ Asking(FileSuperseded)
    /\ UNCHANGED <<vars, world, left>>

UninstallArchive ==
    /\ InList({"uninstall", "upgrade"})
    /\ ~archives[Head(main.list).serial].rollback /\ ~Mismatch(Head(main.list))
    /\ Uninstall(Head(main.list).serial)
    /\ main' = [main EXCEPT !.pc = "uninstall"] /\ AskingFiles
    /\ UNCHANGED <<world, left>>

(* The result of one archive replaces that of the one before it. *)
UninstallReturns ==
    /\ main.pc = "uninstall" /\ pc = "idle"
    /\ Returned(IF archives[Head(main.list).serial] = None THEN "ok" ELSE "error")
    /\ UNCHANGED <<vars, world, cache, left>>

ListDone ==
    /\ main.pc = "list" /\ main.list = <<>>
    /\ Done(main.result)
    /\ UNCHANGED <<vars, world, cache, left>>
-----------------------------------------------------------------------------
(***************************************************************************)
(* Depot::rename_archive.  The row is written as a whole, "active" as 1.   *)
(***************************************************************************)
Renamed(s, name) ==
    Updated(ArchiveColumns, <<s, name, labels[s].date, 1, Flagged(archives[s].rollback),
                              labels[s].build>>, s, ArchiveRows)

Rename ==
    LET spec == main.args[1] IN
    /\ Argument({"rename"}) /\ Len(main.args) > 1 /\ spec \notin Keywords
    /\ \E s \in GetArchive(spec) :
        LET rows == Renamed(s, main.args[2]) IN
        /\ labels' = [t \in Serials |-> IF archives[t] = None THEN labels[t]
                                         ELSE LabelIn(rows, t)]
        /\ archives' = [t \in Serials |-> IF archives[t] = None THEN None ELSE
              [archives[t] EXCEPT !.active =
                  (CHOOSE row \in rows : row.serial = t).active = 1]]
    /\ main' = [main EXCEPT !.args = SubSeq(@, 3, Len(@))] /\ Asking(Asks(spec))
    /\ UNCHANGED <<fs, files, nextSerial, store, proc, budget, clock, build, left>>

RenameFails ==
    LET spec == main.args[1] IN
    /\ Argument({"rename"})
    /\ \/ Len(main.args) = 1 /\ UNCHANGED cache
       \/ Len(main.args) > 1 /\ spec \in Keywords /\ UNCHANGED cache
       \/ /\ Len(main.args) > 1 /\ spec \notin Keywords /\ GetArchive(spec) = {}
          /\ Asking(Asks(spec))
    /\ Done("error")
    /\ UNCHANGED <<vars, world, left>>
-----------------------------------------------------------------------------
Exit ==
    /\ main.pc = "next" /\ (main.result = "error" \/ main.args = <<>>)
    /\ main' = Resting /\ cache' = NoStatements
    /\ UNCHANGED <<vars, world, left>>

(* What Depot does while main waits for it. *)
DepotStep ==
    /\ main.pc \in {"install", "uninstall"}
    /\ \/ InstallStep \/ UninstallStep
       \/ CompactArchiveFails \/ CompactRollbackFails \/ InstallFileFails
       \/ NotActivated \/ UninstallFileFails
    /\ UNCHANGED <<shell, world>>

(* The process dies in a call, or of a failed assertion. *)
Dies ==
    /\ Crash \/ BackupFileAborts
    /\ main' = Resting /\ cache' = NoStatements
    /\ UNCHANGED <<left, world>>

UserEdits ==
    /\ main.pc = "idle" \/ BusyEdits
    /\ \E p \in Paths, e \in UserEntries : Edit(p, e)
    /\ UNCHANGED <<shell, world>>

UpgradeOS ==
    /\ main.pc = "idle" /\ build < MaxBuild
    /\ build' = build + 1
    /\ UNCHANGED <<vars, shell, labels, clock>>

CNext == \/ Command \/ InstallArgument \/ UpgradeArgument \/ NothingToUpgrade
         \/ InstallReturns
         \/ SelectAll \/ SelectSuperseded \/ SelectOne
         \/ FilesOfArchive \/ VerifyArchive \/ ListArgument
         \/ UninstallRefused \/ UninstallArchive \/ UninstallReturns \/ ListDone
         \/ Rename \/ RenameFails \/ Exit
         \/ DepotStep \/ Dies \/ UserEdits \/ UpgradeOS

CSpec == CInit /\ [][CNext]_allvars
-----------------------------------------------------------------------------
RootsLike(spec) ==
    CASE spec[1] \in {"uuid", "serial"} -> {s \in Serials : s = spec[2] /\ archives[s] # None}
      [] spec[1] = "name"   -> {s \in Serials : archives[s] # None /\ labels[s].name = spec[2]}
      [] spec[1] = "newest" -> {s \in Serials : IsRoot(s) /\ \A t \in Serials :
                                   IsRoot(t) /\ t > s => labels[t].date = labels[s].date}
      [] spec[1] = "oldest" -> {s \in Serials : IsRoot(s) /\ \A t \in Serials :
                                   IsRoot(t) /\ t < s => labels[t].date = labels[s].date}

(* Whatever a process has prepared before, each look-up finds what it is   *)
(* asked for: the archive of that number, one of that name, the first or   *)
(* last root installed; "all" lists every root, the last one first; the    *)
(* next row of a path is the one FileRows names (DB.cpp:195, 421-519).     *)
AnswersRight ==
    /\ \A spec \in ({"uuid", "serial"} \X Serials) \cup ({"name"} \X Names)
                    \cup {<<"newest", 0>>, <<"oldest", 0>>} :
           /\ GetArchive(spec) \subseteq RootsLike(spec)
           /\ GetArchive(spec) = {} => RootsLike(spec) = {}
    /\ \A i \in DOMAIN AllArchives : IsRoot(AllArchives[i])
    /\ \A s \in Serials : IsRoot(s) => \E i \in DOMAIN AllArchives : AllArchives[i] = s
    /\ \A i, j \in DOMAIN AllArchives : i < j => AllArchives[i] > AllArchives[j]
    /\ \A s \in Serials : \A p \in PathsOf(files, s) :
        /\ {r.archive : r \in First(Prepared(cache, FilePreceded), <<s, p>>, PathRows)}
              = {t \in Below(files, s, p) : \A u \in Below(files, s, p) : u <= t}
        /\ {r.archive : r \in First(Prepared(cache, FileSuperseded), <<s, p>>, PathRows)}
              = {t \in Above(files, s, p) : \A u \in Above(files, s, p) : u >= t}

(* An upgrade gives up the old root only for a new one that is active: one *)
(* that fails leaves it alone (main.cpp:233-236).                          *)
UpgradeSafe ==
    [][/\ main.op = "upgrade" /\ main.old # 0
       /\ archives[main.old] # None
       /\ \/ archives'[main.old] = None
          \/ archives[main.old].active /\ ~archives'[main.old].active
       => archives[nextSerial - 1] # None /\ archives[nextSerial - 1].active]_allvars

Interrupted == budget.crashes < MaxCrashes \/ budget.faults < MaxFaults
LeavingSuperseded == main.pc = "uninstall" /\ main.op = "uninstall"
                     /\ Head(main.args) = Superseded
LeavingOtherBuild == main.pc = "uninstall" /\ main.op = "uninstall" /\ ~main.force
                     /\ labels[Head(main.list).serial].build # build

(* What users put in place of files is no file of a root.                  *)
ForeignEdits == \A r \in Roots, p \in Paths :
                    r[p] = Absent \/ r[p] \notin UserEntries

(* Nothing of the file system is rolled back by "uninstall superseded",    *)
(* nor without -f by uninstalling a root of another build of the OS, if no *)
(* command was interrupted and whatever users have put in place of files   *)
(* is not what some root has there (Depot.cpp:1045-1062, 1314-1355).       *)
SupersededHarmless ==
    [][ForeignEdits /\ ~Interrupted /\ (LeavingSuperseded \/ LeavingOtherBuild)
       => fs' = fs]_allvars

(***************************************************************************)
(* The steps that write the tables, as the statements they send write them:*)
(* Depot's actions say what is meant, SqlTable what is sent.               *)
(***************************************************************************)
SetActive(s, value, rows) == ValueUpdated(ActivateArchive, value, <<s>>, rows)
EmptyDeleted(rows) == {r \in rows : \E f \in PathRows : f.archive = r.serial}

ActivationMeant == pc = "install" /\ pc' = "cleanup" /\ archives' # archives =>
    ArchiveRows' = SetActive(cur, 1, SetActive(RollbackOf(cur), 1, ArchiveRows))
DeactivationMeant == pc = "deactivate" /\ pc' = "uninstall" =>
    ArchiveRows' = SetActive(cur, 0, ArchiveRows)
RemovalMeant == pc = "remove" /\ pc' = "prune" =>
    /\ ArchiveRows' = WithoutKey(cur, ArchiveRows)
    /\ PathRows' = Deleted(DeleteFilesOf, <<cur>>, PathRows)
PruningMeant == pc = "prune" /\ pc' = "idle" /\ budget' = budget =>
    ArchiveRows' = EmptyDeleted(ArchiveRows)

(* Renaming changes the name of one archive and nothing else of any, but   *)
(* for the mark "active" that it sets.                                     *)
RenamingMeant == main.op = "rename" /\ labels' # labels =>
    LET changed == {s \in Serials : labels'[s] # labels[s]} IN
    /\ Cardinality(changed) = 1
    /\ \A s \in changed : /\ labels'[s] = [labels[s] EXCEPT !.name = main.args[2]]
                          /\ archives'[s] = [archives[s] EXCEPT !.active = TRUE]
                          /\ s \in RootsLike(main.args[1])
    /\ \A s \in Serials \ changed : archives'[s] = archives[s]

(* Every statement that is sent changes the rows the step is about and no  *)
(* others: the parameters are bound where the statement has its question   *)
(* marks (Database.cpp:247-321, 457-570, Table.cpp:188-329).               *)
RowsAsMeant == [][/\ ActivationMeant /\ DeactivationMeant /\ RemovalMeant
                  /\ PruningMeant /\ RenamingMeant]_allvars
=============================================================================
