# Verification of darwinbuild

TLA+ models of the programs of this repository, checked with TLC and, where it
says so, proved with TLAPS.  `PROJECT.json` lists components, runs, mutants,
the source lines each definition stands for, hazards, findings and theorems.

The repository holds five programs:

* **darwinup** installs "roots" (archives of files) over the running system and
  uninstalls them again, with a database and backing stores in a depot.
* **darwinxref** keeps a database of builds, projects, properties, files and
  dependencies, and is extended by plugins.
* **darwintrace** is a library inserted into build processes; it logs the files
  they open and redirects paths into a pseudo-chroot.
* **darwinbuild**, **darwinmaster** and their helpers are shell scripts that
  fetch sources, fill a build root, build and register the results.
* `plists/`, `patches/`, `testing/` and the Xcode project are data and tests.

## 1. Inventory

### darwinup

| part | state | operations | correctness |
|---|---|---|---|
| `Depot.cpp` | none of its own in memory but `InstallContext`; the depot directory | install, uninstall, verify, list, rename, prune | every root installed can be taken away again and leaves the system as it was |
| `DB.cpp` | tables `archives` and `files`, row order by serial and by path | insert, activate, deactivate, delete rows; next row above or below | a row has an archive; a root's row has a row below it; at most one row per archive and path |
| `File.cpp` | one row in memory | compare, install, install_info, remove | a restored file is the file that was there |
| `Archive.cpp` | `Archives/<uuid>` and `Archives/<uuid>.tar.bz2` | create, compact, expand, prune | data promised by a row is in a finished tarball before it is overwritten |
| `Database.cpp`, `Table.cpp`, `Column.cpp` | prepared statements by name, result pool, schema version | statements from lists of columns, transactions, schema upgrade | a statement touches the rows that are meant; a transaction is all or nothing; an upgrade loses no row |
| `main.cpp` | options | one command over several archives | an upgrade gives up the old root only for a new one; the exit code says whether every archive was handled |
| `SerialSet`, `Digest`, `Utils` | a growing array, a digest | add; exec, path helpers | every serial added is there |

How the parts meet: `Depot` drives everything; the database, the backing stores
and the file system are three stores with no common transaction, and helper
programs (`tar`, `ditto`) run between them.  Hard behaviours: a crash or a
failure between two stores; a user who changes files that the depot tracks
(between commands, or while one runs); uninstalling in any order; one failing
file out of many; the exclusive lock.

### darwinxref

| part | state | operations | correctness |
|---|---|---|---|
| `DBDataStore.c` | SQLite tables `properties`, `groups`; `__nestedTransactions` | get and set properties, with inheritance and aliases; load a whole plist | a plist is loaded all or nothing; a look-up ends and finds the nearest build that has the property |
| `edit`, `loadIndex`, `mergeBuild` | the property list in memory, a temporary file | copy, edit and store whole lists, again after a refusal | an accepted list is stored as it is, and only that |
| `register`, `loadDeps`, `resolveDeps` | tables `files`, `unresolved_dependencies`, `dependencies`, `mach_o_*` | register the files of a root, load traced paths, turn paths into projects, merge into the property | no dependency is lost on its way from one table to the next |
| `query`, `dependencies`, `dot`, `group`, `version`, ... | the projects already visited | queries | the transitive closure is complete and each project appears once |
| `DBPlugin.c`, `DBTclPlugin.c` | plugin dictionary, current plugin | load, dispatch | one plugin per name |

Hard behaviours: several processes on one SQLite file without a busy handler,
while the result of almost every statement is ignored; nested transactions
counted in a global; inheritance that may form a cycle; look-ups that read the
database several times.

### darwintrace

State: a log file descriptor kept out of the way of the program, a flag that
set-up has run, the redirection prefix and its exceptions.  Operations: the
interposed `open`, `readlink`, `execve`, `posix_spawn` and `close`; nothing else
passes through it (`dup2`, `stat`, `fork` and `rename` do not).  Correct is: no
access that a build can depend on goes unlogged, the log survives a program
that closes descriptors, every descendant is traced, a program keeps its own
descriptors.  Hard behaviours: threads that come to the set-up together, a fork
or a `setenv` while one sets up, programs that close every descriptor,
environments that drop the library on `exec`.

### darwinbuild scripts

State: `.build` (database, receipts), `Roots`, `Headers`, `Sources`, the
BuildRoot.  Operations: download, install a root into the build root once
(receipts), build, copy out, register, log dependencies.  Hard behaviours: an
interrupted download or copy, a receipt that is older or newer than the root it
stands for, a root that cannot be unpacked, nested builds of dependencies.

## 2. Modules

| module | models | uses |
|---|---|---|
| `FileRows` | rows of the `files` table, `File::compare`, the decisions of `Depot::analyze_stage`, rows above and below | |
| `Depot` | install, uninstall, rollback, backup, pruning; crash, failure and edits between steps | `FileRows` |
| `RootStack` | abstract: layers of trees over a base, settled path by path | |
| `DepotHistory` | `Depot` with history variables and the refinement mapping to `RootStack` | `Depot`, `RootStack` |
| `SqlTable` | statements put together from conditions, cached under a name, bound, selecting and updating rows | |
| `DepotCommands` | the command line of darwinup: several arguments, archives named in every way, the commands that call `Depot` or only read it | `Depot`, `SqlTable` |
| `DepotOpen` | how processes of several users find, lock, create and upgrade the database, and die | |
| `DepotProofs`, `DepotInstallProofs`, `DepotQuiet`, `DepotOpenProofs` | proofs about `Depot` and `DepotOpen` | TLAPS |
| `DepotCommandsProofs` | proofs about `DepotCommands` and the statements of `SqlTable` it sends | `DepotProofs`, TLAPS |
| `Sqlite` | one database file and the locks its users hold; external, as far as the callers rely on it | |
| `XrefDeps` | `register`, `loadDeps` and `resolveDeps` on one database, any number of processes | `Sqlite` |
| `XrefDepsProofs` | proofs about `XrefDeps` | TLAPS |
| `PropTables` | rows of properties and groups, what the look-ups compute of them, property lists and dependency lists | |
| `PropStore` | `loadIndex`, `edit`, `mergeBuild`, `query` and `dependencies`, statement by statement | `Sqlite`, `PropTables` |
| `PropStoreProofs` | proofs about `PropStore` and the lists of `PropTables` | TLAPS |
| `Trace` | the darwintrace library in the processes and threads of a build | |
| `TraceProofs` | proofs about `Trace` | TLAPS |
| `MCDepot`, `MCDepotCommands`, `MCDepotOpen`, `MCXrefDeps`, `MCPropStore`, `MCTrace` | values of the constants, and disciplines of operators, for TLC | the module they are named after |

`Depot` is composed three times: under `DepotHistory` with the abstract
`RootStack`, under `DepotCommands` with the command line above it and the SQL
layer below it, and with one process at a time, which is what `DepotOpen`
shows the lock to give.  `Sqlite` is composed with both users of darwinxref's
database.

### Depot: state and actions against the code

| variable | code |
|---|---|
| `fs` | the root file system under the prefix |
| `archives`, `files`, `nextSerial` | the two tables and `sqlite_sequence` |
| `expanded`, `tarball` | `Archives/<uuid>` and `Archives/<uuid>.tar.bz2`; a writer that does not finish leaves none, a `Torn` one, which tar rejects, or a `Hollow` one, which tar accepts and which holds no directory |
| `pc`, `cur`, `todo`, `res`, `toRemove` | where the running command is, its archive, what `iterate_files` has left, the last result, `files_to_remove` |
| `budget` | nothing in the code: the bounds on edits, crashes and faults |

A command is a chain of actions, one for each thing made durable:

* `Depot::install`: `Install` (both rows, both directories, extraction,
  `analyze_stage`, first commit), `CompactArchive`, `BackupFile` for each
  rollback row, `CompactRollback`, `InstallFile` for each row, `Activate`
  (second commit), `Cleanup`.
* `Depot::uninstall`: `Uninstall`, `Deactivate`, for each row in reverse order
  one of `LeaveUnclaimed`, `RemoveFile`, `RestoreData`, `RestoreDataFails`,
  `RestoreMeta`, then `DeleteRows`, `RemoveArchive`, `Prune` or `UninstallStops`.
* An installation that fails goes through `Cleanup` into the uninstallation of
  its own archive, as `Depot::install(const char*)` does.
* `CompactArchiveFails`, `BackupFileAborts`, `CompactRollbackFails`,
  `InstallFileFails`, `NotActivated`, `UninstallFileFails` are the error paths;
  `Crash` is the death of the process at any step; `Edit` is anybody else.

What is abstracted: a path is a number (the order of `ORDER BY path`); a
content stands for size and digest; one `meta` value stands for mode, owner and
group; every object is a regular file directly below the prefix; extraction and
analysis are inside the first transaction and one step with it, because until
it commits they change only a directory no row names; a statement of a
transaction that fails has the effect of a crash before the commit.  What a tarball
yields is decided by the exit status of the helper, as in
`Archive::expand_directory`: a torn one makes the expansion fail
(`RestoreDataFails`); after a hollow one `File::install` calls itself, finds what
it found before, and so on (`Endless`: no step changes anything any more).  A
tarball with some of its files in it is counted as torn.

### DepotCommands and SqlTable: state and actions against the code

| variable | code |
|---|---|
| `labels` | the columns `name`, `date_added` and `osbuild` of each archive |
| `clock`, `build` | `time(NULL)` and the build of the running system |
| `main` | the darwinup process: its command, the arguments left, the list `process_archive` made, the archive an upgrade replaces, the result |
| `cache` | `m_statement_cache`: the statement each name stands for; empty when the process begins |
| `left` | nothing in the code: the commands to come |

`Command` is `main` with its command line.  `InstallArgument`,
`UpgradeArgument` and `NothingToUpgrade` begin an installation, which is
`Depot`'s (`DepotStep`), and `InstallReturns` looks at what became of it; after
an upgrade the old archive is uninstalled.  `SelectAll`, `SelectSuperseded` and
`SelectOne` make the list of archives an argument stands for;
`UninstallRefused` (another build of the system and no `-f`),
`UninstallArchive`, `UninstallReturns`, `FilesOfArchive`, `VerifyArchive` and
`ListDone` go through it; `ListArgument`, `Rename` and `RenameFails` are the
commands without such a list; `Exit` ends the process.  `Dies`, `UserEdits` and
`UpgradeOS` are the crash of the process, the user, and the system's upgrade.

`SqlTable` translates how `Table.cpp` puts conditions together (its flags for
`!` and the operator included), how a statement is found again by name, which
parameter each value is bound to, and which rows result.  The look-ups of
`DepotCommands` are such statements, asked through the cache; `RowsAsMeant`
compares what `Depot`'s actions do to the tables with what the statements do.

### DepotOpen: state and actions against the code

| variable | code |
|---|---|
| `db` | `Database-V100`: the columns of each table, the row `schema_version`, the archives recorded; `None` when there is no file |
| `storage`, `lock` | `.DarwinDepot` and the `flock` on it |
| `pc`, `user`, `command`, `outcome` | each process: where it is, who runs it, what it is to do, how it ended |
| `budget` | nothing in the code: processes to start and to die |

`Start` checks for root, `CreateStorage` makes the directories,
`StatDatabase` looks for the database (before the lock), `Lock` waits for the
lock, `Connect` opens or creates the file, `CreateTable` (one step for each table and its
indexes, which no property tells apart) and `InitialData` create the tables; `TooOld`, `Current`, `ReadOnly`, `Upgrade`
and `UpgradeAborts` are what `Database::connect` does about the version,
`SetSchemaVersion` writes it after the transaction of the upgrade.  `Command`
stands for all of `DepotCommands`; `Die` is the death of the process, which
gives the lock up.  The versions are the one before `osbuild` was added (0),
this one (1) and a newer one.

### XrefDeps: state and actions against the code

| variable | code |
|---|---|
| `db` | the committed rows of `files`, `unresolved_dependencies`, `dependencies` and of `properties` for `dependencies` |
| `tx`, `view` | the lock each connection holds and the tables as it sees them |
| `proc` | where each process is: its command, the fts or stdin input left (`todo`), the load commands left (`links`), the arrays `resolveDeps` has collected (`queue`, `paths`, `merged`), and the local `file` and `dep` (`path`, `owner`) |
| `budget` | nothing in the code: the bounds on commands and crashes |

Each SQL statement is an action, because each takes or meets locks of its own
and its result is ignored by the caller:

* `register_files`: `BeginTransaction`, `PruneFiles`, `PruneUnresolved`, for
  each file `OpenFile` (or `OpenFails`, a return without COMMIT),
  `RegisterLibrary` for each load command, `RegisterFile`; `CommitRows`, `Exit`.
* `loadDeps`: `BeginTransaction`, `LoadNext` for each line, `CommitRows`, `Exit`.
* `resolve_dependencies`: `ListProjects`; for each project `NextProject`,
  `BeginTransaction` or `BeginFails`, `SelectUnresolved`, for each path
  `FindOwner`, `AddDependency`, `DeleteUnresolved` or `LeaveUnresolved`; with
  `-commit` `CopyProperty`, `MergeDependencies`, `DeleteProperty`,
  `InsertProperty`, `DeleteDependencies`; `CommitProject`.
* `Crash`: the process dies at any point and SQLite rolls its transaction back.

`Sqlite` has a rollback journal and no busy handler: `BEGIN` takes no lock, the
first `SELECT` a SHARED one, the first write a RESERVED one; a `COMMIT` while
others read fails and leaves PENDING, which keeps new readers out; a statement
that meets a lock fails at once.

What is abstracted: one build number and one type of dependency, so a row is a
pair; each project has a row in the property list already; the order in which
projects and paths come out of a `SELECT` is left open; a file's libraries are a
constant of its path; the Mach-O tables, which nothing here reads, the manifest
on standard output and `CREATE TABLE` of tables that exist are left out.

### PropStore and PropTables: state and actions against the code

| variable | code |
|---|---|
| `db`, `tx`, `view` | the tables `properties` and `groups`, committed and as each connection sees them |
| `proc` | the running command: its list, the calls of `DBSetPlist` on the stack (`frames`), the loops' positions, the search's chain of builds, what was found or printed |
| `nested` | `__nestedTransactions` |
| `budget` | nothing in the code: commands, tries of an editor, crashes and reads to come |

`LoadIndex`, `Edit`, `MergeBuild`, `Query` and `Dependencies` start a command.
`Query` is the default handler of a property (`DBPlugin.c:285`), with its second
look-up in the build (`LookInBuild`).
`Walk`, `CopyForEditor`, `CopyOld` and `CopyNew` read whole lists, `Search` and
`Restart` are the two loops of the look-up with inheritance and aliases,
`PrintRoot`, `Visit` and `Printed` the recursion of `dependencies`.
`EditorSaves`, `EditorCancels` and `Quit` are the user with the list in an
editor.  `DBSetPlist` is one action for each statement and each refusal:
`SetPlistRefused`, `BeginTransaction`, `BeginFails`, `SelectNames`,
`DeleteProp`, `SetProp`, `InsertItem`, `SetPropRefused`, `SetProject`,
`NoGroups`, `DeleteGroups`, `InsertMember`, `CommitTransaction` and the ends of
the loops (`DeletedAll`, `InsertedAll`, `PropsSet`, `ProjectsSet`,
`GroupsSet`).  `Crash` is the death of the process; `ReaderReads` and
`ReaderEnds` are another darwinxref that holds a read lock for a while and so
makes `COMMIT` fail (two writers are the subject of `XrefDeps`).

What is abstracted: a property list is a record of the build's own properties,
its projects and its groups; a value is its type and its rows; parsing and
printing are the identity on that record, up to what the database cannot tell
apart (an empty array or dictionary has no rows).  An array is read in the order
of its indexes as text and gets new ones (`ItemsRead`): `SortedKeys` is the
indexes an array may have in that order, and an array has at most so many
elements.  What `query` answers is the rows it found; in which order an array is
printed is left out.  The keys `build` and `name` that a list may carry itself,
and that then override the parameters of `DBSetPlist` (`DBDataStore.c:772-775`),
are not modelled.  `PropTables` ends with the
reference definitions of what the look-ups should find (`Found`, `Closure`),
stated without a loop.  `Found` is the promise of the comment above the search
(`DBDataStore.c:478-499`), in the reading of the shorter one within it (lines
511-512): the nearest build that has a value of the property or makes the project
an alias decides; an alias restarts the search for its original from the build
that was asked for, through all of its inheritance.

What is assumed of the inputs: `Builds` and `Projects` hold every name that is
used for one, also as a value of `inherits` or `dependencies`, and the keys of an
array are indexes (`Fits`); indexes of one digit sort as numbers do, whatever the
order of the others (`KeysAssumption`); the tables of the start have one row for
each index of an array; the list of a project has no projects or groups of its own, as in the files of
`plists/` (`IsList`); `SortedProps` has every registered property
(`SortedAssumption`), so the loop over `dictionaryGetSortedKeys` comes to each.
A list may name properties no plugin knows, give values of the wrong type, and
have anything in the place of a project's list.

### Trace: state and actions against the code

| variable | code |
|---|---|
| `image` | of each process, the library's globals (`darwintrace_fd`, `redirect`, `buildroot`, `log_path`, ...), the `pthread_once` control, and the environment |
| `fds` | its descriptors and what they are open for |
| `thread` | where each thread is, inside an interposed function or in the program |
| `made`, `log` | the accesses of each image the log is about; the lines written |
| `calls` | nothing in the code: the calls to come |

`Call` enters an interposed function; `Redirect` (or `RedirectCrashes`, the
`strlen(NULL)` without a build root) rewrites the path; `Open`, `Readlink` and
`CallFails` are the system call itself; an `Open` whose call is
logged as reading may still get a descriptor that can be written (`O_RDWR`).
`SetupStarts`, `OpenLog`, `Scan`,
`CloseLog`, `GetRedirect`, `GetBuildroot` and `SetupDone` are `darwintrace_setup` under
`pthread_once`, one action per system call or global written, except that `Scan` is
the whole search for a descriptor: the write tests, `dup2` and the assignment of the
global (`darwintrace.c:150-158`) are one step; `Log` and
`LogExec` write a line; `Execve`, `PosixSpawn` and `ExecFails` start a program
with the environment `make_environ` puts together; `CloseTest` and `Close` are
the test of the descriptor and the `close` after it.  `Fork`, `Setenv` and
`Exit` are the program's own and marked external.

What is abstracted: a path is a sequence of slashes and components, so that
prefixes and doubled slashes mean what they do; the path of a vnode
(`F_GETPATH`) is the path opened with its links resolved; a line is a record.

## 3. Runs

Every run sets `CHECK_DEADLOCK FALSE`: commands, calls and budgets are bounded,
and nobody has to start another one.  That nobody waits for ever is stated by
the liveness properties instead.

| run | question | bounds |
|---|---|---|
| `stack` | nothing fails: is the depot a stack of layers, whatever the order of uninstallations, is an archive active only when it is complete, and is the original system back at the end? | 3 roots (`MaxSerial = 6`: each has a rollback archive), 2 paths, 2 contents, 2 modes |
| `edits` | the user changes or removes files between commands, by whatever content: has every row the data it promised, can the last installation be undone, does an uninstallation succeed whose data is there? | 2 roots in up to 3 installations, 1 path, 4 contents (those of the roots and of the base system among them), 2 modes, 2 edits |
| `interrupt` | a crash anywhere and a failure in an installation; the operator recovers newest first | 2 roots, 2 paths, 1 crash, 1 fault |
| `anything` | types, the assertion of `uninstall_file`, and termination, with crash, fault and edits at any time | 2 roots, 2 paths, 3 contents, 1 of each |
| `commands` | do look-ups and statements mean what their callers think; what do upgrade and superseded take away? | 3 commands of 13 command lines, 6 serials, 2 paths, 2 times, 2 system builds, one edit, fault or crash in all |
| `open` | who may own the depot, and does opening it lose anything? | 4 processes, 2 at a time, 1 death; no database, and those of versions 0, 1 and 2 |
| `reopen` | the disagreement below | the same, from no database |
| `alone` | one darwinxref at a time: is each command all or nothing, and is no dependency lost on its way? | 5 commands, 2 projects, 3 paths, 1 crash |
| `shared` | two processes: what still holds when statements fail on a locked file? | 3 commands, 2 projects, 2 paths, 1 crash |
| `plist` | are lists stored whole, edits kept, look-ups right, and does every command end? | 2 commands on 2 builds and 3 projects, arrays of up to 11 elements, 2 tries of the editor, 1 read lock, 1 crash |
| `trace` | does the log survive closing descriptors, does tracing reach every child, does set-up take anything from the program? | 2 processes of 1 thread, 3 descriptors, 3 calls |
| `threads` | does the first call of every thread wait for the set-up, does every call return? | 2 processes of 2 threads, 2 descriptors, 3 calls |

### Why the bounds are enough

* *Depot.*  What an action does to a path depends only on the row at the path,
  the nearest rows above and below it and the file that is there; three roots
  give a row both neighbours, two paths give a command a first and a last file
  (the result of the last is what decides), four contents give three roots and
  the user one each, and the user of `edits` may write any of the four.  Two crashes in one command have the effect of one, since
  the process is gone.
* *Commands.*  A statement is told from another by its columns and order, which
  two roots and their rollback archives in both orders of date exercise; a
  cache is wrong after two look-ups of one process or never.  Three commands
  are an installation, one more (or an upgrade), and one that takes away.
* *Opening.*  A process meets another one only at the lock, so two at a time
  meet in every way; four let each of two be followed by one that finds what it
  left.
* *Dependencies.*  Two projects give a dependent and an owner, which can be the
  same; two files give one with and one without an owner, and a library that a
  registered file links; the third path is the one that cannot be opened.  A
  statement only asks whether some other process holds a lock, so two processes
  meet every lock; `shared` starts with paths waiting and with a property, so
  that its three commands are spent on the race.
* *Property lists.*  The lists hold every type, a property that is refused
  after others were set, a project that is no dictionary and a cycle of
  inheritance; the tables of the start hold inheritance, aliases that begin and that
  end in the newer build, an array of eleven elements, the least that is put in
  another order, and revised dependencies (`+` and `-`).  Two commands put an edit or a merge after a load,
  or a look-up after an edit; two tries put a valid list after a refused one.
* *Trace.*  An access involves one process, its parent and its threads.  Two
  threads are enough for one to find the set-up of the other running; three
  calls are a first one that sets up, one after it, and one of the other thread
  or the child.  Three descriptors leave one outside and two inside the range
  reserved for the log.

### Fairness

The fairness assumed is always that of a scheduler: a process, or a thread,
that can take its next step takes it.

* `DepotHistory`: `HFairSpec`, WF on the steps of a running command, a failing
  one among them.
* `DepotOpen`: WF on the steps of each process.  `Lock` is among them although
  `flock` is not a queue: as many processes wait as were started, so a lock is
  given away finitely often and weak fairness is enough.
* `XrefDeps`, `PropStore`: WF on the steps of each process: no statement waits,
  because there is no busy handler.  In `PropStore` also WF on `EditorCancels`
  or `Quit`: the user leaves the editor in the end.
* `Trace`: WF on the library's steps of each thread; what the program does
  between calls is not fair.

Starting commands, edits, crashes, deaths, forks and the reader's lock are
never fair.

### What the properties are about

*Depot.*  `ImplementsRootStack` is the refinement: each step of the depot is a
step of `RootStack` (add a layer, settle a path, take a layer away) or a
stutter.  `OriginalRestored` and `UninstallUndoesInstall` compare with the file
system as it was.  `ActiveRestorable` says that the data a root replaced is in
a tarball as long as the root is active; it is proved of a depot where nothing
fails (section 4).  Users can defeat it by putting a root's content back (section
6), so in `edits` `PromisesKept` says that nothing else does: what is missing is
only ever the data of a row that records a user's change and never promised any.
`RestorableSucceeds` says that an uninstallation whose data is there takes its
archive away.  `CommandsEnd` excepts `Endless`.  `BackupBeforeOverwrite` is about
the order of backup and copy.  `CarefulSpec` (`MCDepot`) is the operator under whom
`OriginalRestored` survives an interruption: nothing is installed until the
depot is empty again, the newest root goes first, and failures strike in
installations.  For anyone less careful it does not hold, see section 6.

*Commands.*  `AnswersRight` holds in every state for whatever statement the
process has prepared.  `UpgradeSafe` says that the old root is only given up
while the new one is active.  `SupersededHarmless` says that `uninstall
superseded` (and the refusal of roots of another build) changes no file, as long
as no command was interrupted and users put in place nothing that a root has
there (`ForeignEdits`); the manual says it without the last (section 6).
`RowsAsMeant` is described above.

*Opening.*  `ReadyIsCurrent`, `NothingLost` and `EveryoneEnds`.

*Dependencies.*  `RegisterReplaces`, `LoadKeepsAll`, `UnresolvedKept` and
`DependenciesKept` rest on statements that succeed, so they are stated for one
process at a time; `DependenciesJustified` and `UnownedKept` survive sharing.

*Property lists.*  `StoredWhole` says that an accepted list takes the database
from its old state to the one with the list in a single commit, and what a
refused one may leave.  `EditKept` is about the nested transactions: what `edit`
takes for stored is committed, refused tries before it notwithstanding.
`RoundTrip` says that saving what was copied changes no group and no value, and
`MergeKeeps` that a merge changes none that was there; both allow that an array
of more than ten elements has them in another order (`SameValue`).  `SearchSound`
and `PrintedRight` compare two loops and a recursion with definitions
(`Reached`, `Closure`).  `Reached` is what the comment promises (`Found`), except for
a value of the original that lies beyond the build which names the alias
(`Hidden`): there it is nothing (section 6).  `CommandsEnd` assumes that no build inherits from
itself: with a cycle the look-up loops for ever.

*Trace.*  `NothingMissed`, `LogKept`, `AllTraced`, `WritableKept`,
`CrashExplained` and `CallsReturn`, the last excluding the child of a fork that
happened while another thread was setting up: no thread of it will finish.

### What the violation run shows

`reopen`: `sqlite3_open` creates the file before the first `CREATE TABLE`
commits, and each table, the row `schema_version` and its value are committed
one by one.  A process that dies in between leaves a database that the next one
takes for an old one; its upgrade fails, and the assertion
`upgrade_schema(version) == 0` (`Database.cpp:177`) stops it and every later
one.

## 4. Proofs

Every theorem is proved for all values of the constants under the assumptions
named in the modules (`...Assumption`), which TLC evaluates in every run of the
module.

### Depot

`DepotProofs` proves, for every set of paths, contents, roots and every bound:

* `InvariantHolds`: `Spec => []DepotInv`.
* `TypeCorrect`, `RowsKeepArchive`, `PrecedingNeverMissing`: the type
  invariant; a row never outlives its archive; the assertion
  `preceding != NULL` of `Depot::uninstall_file` cannot fail.

The argument.  `RowsArePreceded` is not inductive: deleting the rows in
`toRemove`, or an archive, could take the row below another one.  What makes it
true is `OnBase`: at or below each row is a row of the base system, and no
command is about to delete one of those.  The first installation on a path
writes that row (`ActualFlags` gives `BASE_SYSTEM` when there is no preceding
row), `Spent` never takes it, and `RemoveArchive` only deletes rows of roots,
which carry no such flag (`RowShape`).  `CommandShape` says what each step
relies on (which archive it works on, that the directories exist) and
`FreshSerials` that a serial not handed out has no rows.

`DepotInstallProofs` proves `BackupFirst`: without edits during a command,
`BackupBeforeOverwrite`.  It adds `RollbackKept` (between analysis and copy the
file is what its rollback row says; copied files are in the directory; from
the tarball on, all of them are in the tarball) and `SavedIsFile`.  The
assumption is needed: an edit between analysis and copy is saved in place of
what the row describes.

It also proves `CompleteWhenActive`: without edits during a command and
without failing calls, `ActivatedComplete`, whatever died in earlier commands.
The invariant `Arriving` follows each file of the root: while it waits it is in
the staging directory, or, where only its mode is to change, the file at its
path already has its content; once `Depot::install_file` has passed, the path is
what the row says.  The assumption is needed too: `Depot::iterate_files` keeps
only the last result, so after a failure on an earlier file the archive is
activated without it.

`DepotQuiet` is about a depot where no process dies, no call fails and nobody
else writes (`Undisturbed`).  For every set of paths, contents, modes and roots,
and every sequence of installations and uninstallations in any order, it proves
`OriginalRestored` (`BackToTheOriginal`), `UninstallUndoesInstall`
(`UninstallInverts`) and `ActiveRestorable` (`ActiveCanGo`).

The argument.  `Showing`: a path shows its newest row, or what was there at
first where it has none; rows that a running command has written but not yet
installed, or has uninstalled but not yet deleted, are hidden.  It is inductive
only together with what the code relies on without saying so:

* `RowsOfStack`: without user changes a rollback archive gets rows of the base
  system only.  `AnalyzedPath` shows it: a path that shows its newest row differs
  in nothing from the row `get_next_file` finds, so `Depot::analyze_stage` saves
  no user data.
* `Packed` and `Unfolded`: the tarball of each archive has the files of all its
  rows, and a store expanded during an uninstallation lacks only the files
  already moved out of it.  Hence `File::install` always finds its file.
* `Newest`, `Rooted`: what is being installed has the highest serial and is not
  active; a root has rows as long as it is there.
* `Undoing`: the tree found by the last installation is what the rows without
  its own would show.

`OnlyQuietSteps` shows that then no call fails by itself either: the assertions
of `Depot::backup_file` hold, and neither `install_file` nor `uninstall_file`
lacks the file it moves.

It also proves `DepotIsStack`: such a depot implements
`Layered!Init /\ [][Layered!Next]_(Layered!vars)`.  `TopShows` relates the two
notions of a newest layer, one over rows and one over trees; the commit of an
installation is `Add`, the first transaction of an uninstallation is `Drop`, both
only when every path has settled, each file moved is `Settle` or, where the path
shows the right file already, no step of `RootStack`.  The fairness of
`RootStack` is left to TLC (`ImplementsRootStack`).

### Commands

`DepotCommandsProofs` proves, for every set of command lines, roots and names
and every bound:

* `CommandsKeepInvariant`: `CSpec => []CommandsInv`, which has `DepotInv` in it:
  whatever the commands are, upgrades, renamings and uninstallations by
  keyword included, and wherever the process dies, the depot stays what
  `DepotProofs` says it is.
* `LookUpsAnswer` (`AnswersRight`): every look-up finds the archive, list or
  neighbouring row that is meant.
* `RowsWritten` and `StatementsMeant` (`RowsAsMeant`): the statements that
  write change the rows that are meant; the first, which leaves renaming out,
  holds without any assumption.
* `UpgradesAreSafe` (`UpgradeSafe`): an upgrade gives up the old root only for a
  new one that is there and active.

The other three, from `LookUpsAnswer` on but for `RowsWritten`, assume
`RenamesRoots`: no command line renames a rollback archive, or anything to
`<Rollback>`, and no root's file has that name.  Nothing in the code sees to it
(`Depot.cpp:1508`).  Without it a root can vanish from every list, a rollback
archive can appear in one and be upgraded, and "newest" is not the last root
installed.  `LinesAssumption` has TLC evaluate it for the lines of the run.
`NullAssumption` says that NULL is none of the columns; `CommandLinesAssumption`
that a command line has the arguments its command takes.

The argument.  `CommandsInv` adds to `DepotInv` what a process knows of itself.
`OnLine`: the arguments left are the end of a command line, and of a renaming
an even number has gone, so that a specification is never taken for a name.
`Sound`: a cached statement is the one its name stands for (`OneStatement`: no
two look-ups share a name), hence `Prepared` returns what was asked, however
many look-ups came before.  `Labelled`: each archive has its row of labels.
The lemmas on `SqlTable` compute what conditions select (`SelectIs`,
`SelectBelow`, ...), where parameters are bound (`BoundParameters`, `Bound`) and
what the first row is (`SerialsOfFirst`).

`NamesInv` is what look-ups rely on without saying so: rollback archives have
the odd serials and their name, roots neither; dates never decrease with serials.
The first gives "all" and the keywords their meaning, the second makes the
order by date that of installation up to ties.  `AllListed` shows that the rows
in order, a bijection by counting (`Ranks`), are every root once, the last
first.

For `UpgradesAreSafe`, `RootsHaveRows` says that a root has rows as long as it
is there, since only rows of rollback archives are noted for deletion
(`SpentIsRollback`): so `Prune` takes no root that was not asked for
(`OthersStay`).  `Upgrading` follows the upgrade: while it installs the depot
works on the new root, from the first look at the result on the new root is
active, and the list has the old one and nothing else.

### Opening the depot

`DepotOpenProofs` proves `OpenInvariant` (`OpenInv` is inductive),
`ReadyOnCurrent` (`ReadyIsCurrent`) and `OpeningLosesNothing` (`NothingLost`)
for any number of processes, starts and deaths.

The argument.  A step decides from what the process saw earlier, so `OpenInv`
says what a process in each place can rely on: `LockHeld` (whoever is past
`Lock` holds it), `DbSound` (a version goes with its tables; without the
information table there is nothing, or version 0) and `Fits(p)` (the database
is as far as the place of the process says: no version while it creates, all
columns before it writes the version, everything when it is ready).  The state
a death leaves need not fit any process, which is why `DbSound` is stated apart
from `Fits`, and why nothing about assertions can be proved.

### Dependencies

`XrefDepsProofs` proves, for every number of processes, projects and paths and
every bound:

* `XrefInvariant`: `Spec => []DepsInv`, and `XrefTypes` from it.
* `OnlyJustifiedDependencies`: `Spec => DependenciesJustified`.
* `UnownedPathsWait`: `Spec => UnownedKept`.
* With one process at a time (`Alone`: `Procs` has one element, which runs
  command after command): `RegisterStoresRoot` (`RegisterReplaces`),
  `LoadStoresTrace` (`LoadKeepsAll`), `ProcessedPathsBecomeDependencies`
  (`UnresolvedKept`) and `MergeForgetsNothing` (`DependenciesKept`).

The argument.  The two action properties speak of the tables at the moment of a
`COMMIT`, while the rows were chosen many statements earlier.  `DepsInv` carries
the facts across: a process that reads holds SHARED, so nobody else's `COMMIT`
succeeds (`CommitEffect`: who commits is the only reader), hence what it noted
is still so (`Looking`, `Merging`), and the tables it will commit differ from
the committed ones only by its own work (`Seeing`, `Worked`).  Statements that
fail only leave work undone, which `Worked` allows: that is why these two
properties survive sharing and the four of `alone` do not: an `INSERT` that meets
a lock is simply missing from what its command commits.  `Placed` says where
in which command a transaction is open.  The proof goes by the kind of step: a
step without a statement (`QuietStep`), a `SELECT` (`ReadStep`), a write
(`WriteStep`), the beginning and the end of commands and transactions; each
action is an instance of one of them.

The four properties of one process say what a whole command has done by its
`COMMIT`, so the invariant `Doing` follows it statement by statement.
`Replaces`: the rows stored so far together with what is still to do are the
whole root (or trace), from the moment the old rows are deleted.  `Keeps`:
within the transaction of `resolveDeps` nothing the committed tables knew is
lost, where a dependency counts as held in the tables or in the dictionary that
is about to be stored (`Held`); so the `DELETE`s that come before the `INSERT`s
lose nothing, and an unresolved path goes only after its dependency is in.
`AloneStatements` is what one process gets from the database: no statement
fails for a lock, and `BEGIN` always opens a transaction.

### Property lists

`PropStoreProofs` proves, for every set of builds, projects and groups, every
list `loadIndex` or an editor may come with, and all tables to begin with:

* `StoreInvariant`: `Spec => []StoreInv`, and `TypesKept` (`TypeOK`) from it.
* `ListsStoredWhole` (`StoredWhole`): the nested transactions of `DBSetPlist`
  make an accepted list all or nothing; of a refused one each property is the
  old or the new, never a part.
* `DoneEditsKept` (`EditKept`): an edit that ends without an error is stored,
  whatever was refused before.
* `SavingAsReadChangesNothing` (`RoundTrip`) and `MergesOnlyAdd` (`MergeKeeps`):
  what `edit` and `mergeBuild` read, when it is stored again, takes no value away
  and brings none that is inherited; an array of at most ten elements comes back
  in its order, a longer one with each value as often as before.
* `LookUpsAreSound` (`SearchSound`): what `query` answers is what `Reached` says,
  for the project or else for the build, whichever build inherits from which.
* `NeededArePrinted` (`PrintedRight`): `dependencies` prints the smallest set that is
  closed under what projects need, and nothing else, in spite of cycles.

The argument.  The properties speak of a `COMMIT`, which is many statements and
several calls of `DBSetPlist` after the list was read.  `StoreInv` has these
parts:

* `Typed`, `Calls`: at most two calls are under way, the outer one for the list
  and the one for a project in it, and what each has still to do is part of its
  list.
* `Counted`: `__nestedTransactions` is the number of calls that have begun, and
  SQLite's transaction is open exactly then; it is one too high only after a
  `BEGIN` met the transaction of a `COMMIT` that failed.
* `Halfway`: how far the transaction has come.  `Others`: no row that the list
  is not about has changed.  `Mixed`: each property of each project is as
  committed, or as the list says, except the one whose `INSERT`s are on their
  way.  `SettledSoFar`: as long as nothing was refused, the projects that are
  done are as the list says.  `InList` and `InGroups`: what is stored together
  with what is still to do is what the list says.
* `Refusals`: an acceptable list is never refused.
* `Editing`, `Merging`: the list in the editor is what `ReadList` reads of the
  committed tables; a merged list is acceptable and adds to every property.

`WholeAtCommit` puts them together: at the last `COMMIT` the transaction's tables
are `Expected` if nothing was refused, and a `Part` otherwise.  `OnlyCommits` says
that nothing else changes the database.  `PlistRead` is the lemma behind the
round trip: a list read from the tables is acceptable, and `Expected` of it are the
same tables but for the order of long arrays.  It rests on `Place` being a bijection
from the keys of an array to the first indexes, by counting, and the identity where
the keys are the first ten or fewer.  `MergedRead` is that of `mergeBuild`: `CFDictionaryAddValue` keeps
what the new build has, so that no row goes.  The order of properties and
projects matters to none of this: `First` only has to name one as long as one is
left.

`LookUpsAreSound` has an invariant of its own, `Searching`, for the two loops of
`query`.  In the first, the builds collected so far are a line of inheritance on
which nothing yet stops the look-up (`OnWay`); its builds differ, so that it can
be no longer than there are builds, which is why the set of builds is assumed to be
finite.  A build that is met again makes the loop endless (`Circling`), and then
there is no answer to be wrong.  `Again` is the second loop, which goes back along
the same line for the original of an alias: nothing before the build it is at has a
value.  `Found` speaks of *a* line, and that there is only one would be an induction
over its length; instead `OnWay` says that every line agrees with the one
collected, and each step of the loop carries that on.

`NeededArePrinted` has two halves.  `DependenciesOf` is a recursion over the builds,
and the induction principles of the library are out of reach; but a closed form
(`ListAt`: the last build to replace the list, and what is added and taken away from
there on) solves its equation, and two solutions can not differ, for there would be a
first place where they do (`LeastIndex`, from the library's `WFMin`, which speaks of
sets).  `DependsIs` ties it to `Depends`, which looks at the same builds in the
opposite order.  The other half is the invariant `Printing`: `Walk` collects the whole
line of builds, or turns for ever (`Walked`); and while the lists are gone through,
everything that is needed is printed or `Due`, and every closed set holds both
(`Visiting`).  When the stack is empty, what is printed is closed, hence the closure.

### Tracing

`TraceProofs` proves for any number of processes, descriptors, files and calls:

* `TraceTypes` and `LinesHaveProcess`: `TypeOK`, from `Typed`, which adds the
  form of the threads, and from `OnePlace` and `Counted`: at most one thread is
  in the set-up, it runs only once, and a line is written only after it, when
  the process has its id.
* `EveryAccessLogged`: `NothingMissed`, without any assumption.  The invariant
  `Noted` speaks of every moment, not only of those when the log is open: each
  access is `Pending` in a thread on its way to the log or, once the set-up is
  over, `Written`.  An access made before the set-up stays with its thread, which
  carries tag and path through it; a program that closes the log's descriptor
  takes the promise away, and it comes back only in a new image, which starts
  with no accesses.
* `CrashesPlaced`: while programs leave their own environment alone
  (`Settings = {}`), a process of any number of threads dies of the library only
  with a redirection and no build root, or while a set-up has read the one
  variable and not the other; and `CrashesExplained`: `CrashExplained`, where
  programs have one thread.  The invariant `HalfSet` ties the two flags to the
  environment they were read from, `Occupied` says that the only thread is in
  the set-up while it runs.  With two threads the second clause is needed:
  `redirect_path` is called before the call waits for the set-up.
* `EveryoneTraced`: `AllTraced`, if no program takes the log or the library out
  of its own environment (`TracedSettings`; `setenv` before the set-up has read
  it defeats any library of this kind).  Programs may pass any environment on.
  `execve` replaces the globals by those of a fresh image, so the invariant
  `Tracing` follows them: an image is loaded with the library and the log in
  its environment, once the set-up is done `log_path` and `dylib` are set, and a
  thread is at `execve` or `posix_spawn` only after the set-up; hence
  `make_environ` puts both in front of whatever is passed.
* `LogStays` and `WritableStays`: `LogKept` and `WritableKept`, for programs of
  one thread (`Single`).  The invariant `Keeping` says what the thread holds
  between two system calls: from `OpenLog` on the first descriptor of the log,
  which `Scan` and `CloseLog` neither lose nor take from the program, and at
  `Close` a descriptor that `CloseTest` found not to be the log's.  With two
  threads the test and the close are not one step, and the other thread's set-up
  can come between.

### Only model-checked

* Liveness: `CommandsEnd`, `RestorableSucceeds`, `EveryoneEnds`, `CallsReturn`;
  and the fairness part of `ImplementsRootStack`.
* `PromisesKept` and `UninstallUndoesInstall` where the user edits files
  between commands, and `OriginalRestored` after an interrupted command.
* `SupersededHarmless`: that "uninstall superseded" changes no file, but for the
  edits it excepts, needs what `DepotQuiet` proves of undisturbed depots, carried
  over to `DepotCommands`.

## 5. What could come next

1. Objects that are directories and links: parent rows, `File::install` for
   directories, `-f`, removal of children before parents.
2. The build number in `XrefDeps`, with `DBCopyPropDictionary` following
   inheritance while `resolveDeps` merges.
3. The receipts of the darwinbuild scripts.
4. Proofs: `SupersededHarmless`; `PromisesKept`.

## 6. Known deviations

Where the code does less than a reader may expect.  No property of a passing run
says otherwise; where a property has an exception for it, it is named.

*darwinup*

* A user's file that is recorded without its data (`Depot.cpp:567-578`): with A
  installed, the user writes B's content over A's file, and B and C are installed
  over it.  B's rollback archive gets a row without `ROLLBACK_DATA`, since the file
  is what B has.  When B is uninstalled, that row lies below C's, no tarball has its
  data, and C cannot be uninstalled any more, although `NOTES:21-23` says that
  everything can.  So too with a change of the mode only, once the archive below,
  which has the same data, is gone.  `edits` reaches this; `PromisesKept` and
  `RestorableSucceeds` leave out exactly such rows.
* The rollback row is committed before its data is packed.  After a crash in
  between, the next installation finds a row, takes the data for saved, and
  overwrites it (`Depot.cpp:847`).
* A tarball that tar accepts and that holds no directory makes `File::install`
  call itself until the stack ends (`File.cpp:181-184`).  The model has it
  (`Endless`), and `CommandsEnd` excepts it.
* Rows of an archive that was never activated still count as "a newer archive
  has this file" (`DB.cpp:206`), so after an interruption the order of
  uninstallations matters, and `uninstall superseded` may take a root that is
  in use.
* `uninstall superseded` can change a file (`Depot.cpp:1483`), although
  `darwinup.1:179-181` says it never does.  A and B are installed, and the user puts
  A's file back.  The list of superseded archives, made once, has both, B because its
  file is no longer on disk.  B goes first and leaves the path alone; then A is the
  last archive that has the path, finds its own file, and takes it back to the base
  system, without `-f`.  `SupersededHarmless` excepts edits by a root's file.
* `Depot::iterate_files` keeps only the result of the last file
  (`Depot.cpp:400`).  A root with a file that could not be installed is
  activated if a later one could be; `process_archive` does the same with the
  archives of a list (`Depot.cpp:1501`).
* "The last archive installed with this name" is the oldest one
  (`Depot.cpp:229`, `main.cpp:91`): `upgrade` and `uninstall` by name take that one.
* Of two roots installed within one second "newest" may be the first
  (`DB.cpp:510`).
* `rename` marks the archive active (`Depot.cpp:1543`).  A root whose file is
  named `<Rollback>` vanishes from every list (`DB.cpp:452`).
* `verify` looks at the path itself, not at the path under the prefix
  (`Depot.cpp:1107`).
* `create_tables` ignores the result of its statements (`Database.cpp:684`);
  `prune_compacted_archive` reports a tarball that was never written as a
  failure (`Archive.cpp:169`).

*darwinxref*

* Two processes: the `INSERT` of a dependency meets a lock, the lock is gone when
  the `DELETE` of the path it came from follows, and the dependency is nowhere
  (`DBDataStore.c:63`).
* The exit status: `loadDeps` and `register` report less than they know
  (`loadDeps.c:49`, `register.c:688`).
* Elements of an array are ordered by their index as text (`DBDataStore.c:434`)
  and get new indexes when they are written (`DBDataStore.c:645-652`): an array of
  eleven or more changes its order each time it is saved as it was read.  The model
  has it, and `RoundTrip` and `MergeKeeps` except it.
* The search for the original of an alias (`DBDataStore.c:526-532`) goes only
  through the builds that were searched for the alias, against the comment on it
  (`DBDataStore.c:478-499`): with `foo_prime` an alias of `foo` in 8A2, a value that
  only 8A1's `foo` has is not found.  `SearchSound` excepts it (`Hidden`); the tables of
  `plist` have it.
* A cycle of builds that inherit from one another makes every look-up endless
  (`DBDataStore.c:254`); `CommandsEnd` assumes there is none.

*darwintrace*

* A path is redirected before the set-up has run (`darwintrace.c:318`): the first
  access of each program is not redirected.
* With several threads, `close` may test a descriptor that becomes the log's
  before it is closed (`darwintrace.c:646`).
* The child of a fork that happens during the set-up waits for ever at its first
  call (`darwintrace.c:226`); `CallsReturn` excepts it.

## 7. Not modelled

* darwinup: directories, symbolic links, changes of an object's type and `-f`
  for files; rows of parent directories; quarantine attributes; the pool of
  result buffers and memory; errors of SQLite itself; `dump` and options other
  than `-f`; what commands print; archive formats and the fetching of remote
  archives; `Depot::check_consistency` (dead code, its call is commented out);
  `SerialSet`, `Digest`, `Utils`, which other modules use as values.
* darwinxref: the Mach-O tables, manifests and checksums; more than one build in
  `XrefDeps`; `DBHasBuild`; a list's own `build` and `name`; plugins that only query and format (`dot`, `diff`,
  `findFile`, `export...`, ...); the loading of plugins, in C and in Tcl.
* darwinbuild and darwinmaster: shell scripts around other programs, whose state
  is that of the file system.
* The helper tools (digests, manifests, log pages, unpacking an Xcode release):
  straight-line I/O.
* Everything in `plists/`, `patches/`, `testing/` and the Xcode project: data.
