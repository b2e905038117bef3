----------------------------- MODULE PropStore ------------------------------
(***************************************************************************)
(* darwinxref commands that read and write the property lists of builds:   *)
(*                                                                         *)
(*   loadIndex     stores a list                                           *)
(*   edit          gives the list of a build or a project to an editor and *)
(*                 stores what comes back, again and again until it is     *)
(*                 accepted or the user gives up                           *)
(*   mergeBuild    adds the properties of an old build to a new one        *)
(*   query         looks one property up, through aliases and inheritance  *)
(*   dependencies  prints the dependencies of a project and theirs         *)
(*                                                                         *)
(* Each SQL statement that changes something is a step.  One process, Me,  *)
(* runs one command after another; the process Reader holds a read lock    *)
(* from time to time, as resolveDeps does (two writers are the subject of  *)
(* XrefDeps).  A statement of Me can then fail at two places only, BEGIN   *)
(* and COMMIT.                                                             *)
(***************************************************************************)
EXTENDS Sqlite, PropTables

CONSTANTS
    Me, Reader,
    SortedProps,    \* the properties that lists may name, as CFStringCompare sorts them
    SortedProjects, \* the projects, likewise
    Plists,         \* what loadIndex may read, and editors write
    InitialTables,
    MaxCommands, MaxTries, MaxCrashes, MaxReads

ASSUME ProcsAssumption == Procs = {Me, Reader} /\ Me # Reader
ASSUME BoundAssumption == {MaxCommands, MaxTries, MaxCrashes, MaxReads} \subseteq Nat
ASSUME SortedAssumption == DOMAIN PropType \subseteq Range(SortedProps)
ASSUME InputAssumption == /\ \A plist \in Plists : IsList(plist, Range(SortedProps))
                          /\ InitialTables \subseteq AllTables

VARIABLES
    proc,       \* the command that Me runs
    nested,     \* __nestedTransactions
    budget      \* commands, tries of an editor, crashes and read locks to come

vars == <<db, tx, view, proc, nested, budget>>

T == Tables(Me)

Resting == [at |-> "exited", cmd |-> "none", build |-> None, owner |-> None, old |-> None,
            chain |-> <<>>, then |-> "exit", plist |-> None, frames |-> <<>>,
            doomed |-> {}, items |-> {}, res |-> 0, kind |-> None, prop |-> None,
            who |-> None, answer |-> {}, stack |-> <<>>, printed |-> {}]

Init == /\ \E t \in InitialTables : SqliteInit(t)
        /\ proc = Resting
        /\ nested = 0
        /\ budget = [commands |-> MaxCommands, tries |-> MaxTries,
                     crashes |-> MaxCrashes, reads |-> MaxReads]

At(label)   == proc.at = label /\ UNCHANGED budget
Goto(label) == proc' = [proc EXCEPT !.at = label]

Start(command) ==
    /\ proc.at = "exited"
    /\ budget.commands > 0
    /\ budget' = [budget EXCEPT !.commands = @ - 1]
    /\ proc' = command
    /\ nested' = 0
    /\ UNCHANGED sqlite

----------------------------------------------------------------------------
(* The commands *)

(* A frame of DBSetPlist: whose list it stores, and what is left of it, to *)
(* be gone through as sorted.                                              *)
Frame(o, plist) == [owner |-> o, plist |-> plist,
                    props |-> DOMAIN plist.own, projects |-> DOMAIN plist.projects]

First(x, S, sorted) ==
    \E i \in DOMAIN sorted : x = sorted[i] /\ x \in S /\ \A j \in 1..(i - 1) : sorted[j] \notin S

Storing(o, plist) == [proc EXCEPT !.at = "set_plist", !.owner = o, !.plist = plist,
                                  !.frames = <<Frame(o, plist)>>, !.res = 0]

(* A file that is not a property list is not even looked at.  The lists    *)
(* do not name themselves: "build" and "name" in one are not modelled.     *)
LoadIndex == \E b \in Builds, plist \in Plists :
    Start([Resting EXCEPT !.at = "set_plist", !.cmd = "loadIndex", !.build = b,
                          !.plist = plist, !.frames = <<Frame(None, plist)>>])

Edit == \E b \in Builds, o \in Owners :
    Start([Resting EXCEPT !.at = IF o = None THEN "walk" ELSE "copy", !.cmd = "edit",
                          !.build = b, !.owner = o, !.chain = <<b>>, !.then = "copy"])

MergeBuild == \E b, old \in Builds :
    Start([Resting EXCEPT !.at = "walk", !.cmd = "mergeBuild", !.build = b, !.old = old,
                          !.chain = <<old>>, !.then = "copy_old"])

(* The command that a plugin registers for its property.  Dictionaries     *)
(* have no default handler.                                                *)
Query == \E b \in Builds, o \in Owners, p \in DOMAIN PropType :
    /\ PropType[p] # "dictionary"
    /\ PropKind[p] = "project" => o # None
    /\ PropKind[p] = "build" => o = None
    /\ Start([Resting EXCEPT !.at = "search", !.cmd = "query", !.build = b, !.owner = o,
                             !.prop = p, !.who = o, !.chain = <<b>>,
                             !.then = IF o = None THEN "exit" ELSE "build"])

Dependencies == \E b \in Builds, o \in Projects, kind \in DOMAIN DependencyTypes :
    Start([Resting EXCEPT !.at = "walk", !.cmd = "dependencies", !.build = b, !.owner = o,
                          !.kind = kind, !.chain = <<b>>, !.then = "print"])

----------------------------------------------------------------------------
(* Reading *)

(* Mutated form: the build asked for is looked at each time. *)
WalkInPlace ==
    /\ At("walk")
    /\ proc' = IF Inherits(T, proc.build) = None THEN [proc EXCEPT !.at = proc.then] ELSE proc
    /\ UNCHANGED <<sqlite, nested>>

(* The builds a build inherits from, the oldest first.  Nothing stops the  *)
(* loop when they inherit from one another; the array would grow for ever, *)
(* "chain" keeps its first round.                                          *)
Walk ==
    LET older == Inherits(T, Head(proc.chain)) IN
    /\ At("walk")
    /\ proc' = IF older = None THEN [proc EXCEPT !.at = proc.then]
               ELSE IF older \in Range(proc.chain)
                    THEN [proc EXCEPT !.chain = <<older>>]
               ELSE [proc EXCEPT !.chain = <<older>> \o @]
    /\ UNCHANGED <<sqlite, nested>>

(* DBCopyProjectPlist or DBCopyBuildPlist, for the editor. *)
CopyForEditor ==
    /\ At("copy")
    /\ proc.cmd = "edit"
    /\ proc' = [proc EXCEPT
         !.at = "editor",
         !.plist = IF proc.owner = None
                   THEN BuildPlist(T, proc.build,
                                   OneProjectNames(T, proc.build, Range(proc.chain)))
                   ELSE OfProject(ProjectPlist(T, proc.build, proc.owner))]
    /\ UNCHANGED <<sqlite, nested>>

CopyOld ==
    /\ At("copy_old")
    /\ proc' = [proc EXCEPT
         !.at = "walk", !.then = "copy", !.chain = <<proc.build>>,
         !.plist = BuildPlist(T, proc.old, OneProjectNames(T, proc.old, Range(proc.chain)))]
    /\ UNCHANGED <<sqlite, nested>>

CopyNew ==
    /\ At("copy")
    /\ proc.cmd = "mergeBuild"
    /\ proc' = Storing(None,
                 MergedPlist(proc.plist,
                    BuildPlist(T, proc.build,
                               OneProjectNames(T, proc.build, Range(proc.chain)))))
    /\ UNCHANGED <<sqlite, nested>>

(* Mutated form: the second loop begins with the oldest build. *)
SearchOldestFirst(value) ==
    LET build == Head(proc.chain)
        alias == Original(T, build, proc.who)
        older == Inherits(T, build)
    IN  IF value # {} THEN [proc EXCEPT !.at = "exit", !.answer = value]
        ELSE IF alias # None \/ older = None
             THEN [proc EXCEPT !.at = "restart", !.who = IF alias = None THEN @ ELSE alias]
        ELSE IF older \in Range(proc.chain)
             THEN [proc EXCEPT !.chain = <<older>>]
        ELSE [proc EXCEPT !.chain = <<older>> \o @]

(* One build of the first loop of _DBCopyPropWithInheritance. *)
SearchBuild(value) ==
    LET build == Head(proc.chain)
        alias == Original(T, build, proc.who)
        older == Inherits(T, build)
    IN  IF value # {} THEN [proc EXCEPT !.at = "exit", !.answer = value]
        ELSE IF alias # None \/ older = None
             THEN [proc EXCEPT !.at = "restart", !.chain = Reverse(@),
                               !.who = IF alias = None THEN @ ELSE alias]
        ELSE IF older \in Range(proc.chain)
             THEN [proc EXCEPT !.chain = <<older>>]
        ELSE [proc EXCEPT !.chain = <<older>> \o @]

Search ==
    /\ At("search")
    /\ proc' = SearchBuild(Own(T, Head(proc.chain), proc.who, proc.prop))
    /\ UNCHANGED <<sqlite, nested>>

Restart ==
    /\ At("restart")
    /\ proc' = LET value == Own(T, Head(proc.chain), proc.who, proc.prop)
               IN  [proc EXCEPT !.at = IF value # {} THEN "exit"
                                       ELSE IF Len(proc.chain) = 1 THEN proc.then ELSE @,
                                !.answer = value, !.chain = Tail(@)]
    /\ UNCHANGED <<sqlite, nested>>

(* The project has no value: the whole look-up again, for the build.       *)
LookInBuild ==
    /\ At("build")
    /\ proc' = [proc EXCEPT !.at = "search", !.who = None, !.chain = <<proc.build>>,
                            !.then = "exit"]
    /\ UNCHANGED <<sqlite, nested>>

(* printDependencies: a list of projects for each level of the recursion.  *)
PrintRoot ==
    /\ At("print")
    /\ proc' = [proc EXCEPT
         !.at = "visit",
         !.stack = <<Children(T, proc.chain, proc.owner, DependencyTypes[proc.kind])>>]
    /\ UNCHANGED <<sqlite, nested>>

Visit ==
    /\ At("visit")
    /\ proc.stack # <<>>
    /\ IF Head(proc.stack) = {}
       THEN proc' = [proc EXCEPT !.stack = Tail(@)]
       ELSE \E q \in Head(proc.stack) :
              LET rest == <<Head(proc.stack) \ {q}>> \o Tail(proc.stack)
              IN  proc' = IF q \in proc.printed THEN [proc EXCEPT !.stack = rest]
                          ELSE [proc EXCEPT
                                  !.printed = @ \cup {q},
                                  !.stack = <<Children(T, proc.chain, q, RecursiveTypes(proc.kind))>>
                                            \o rest]
    /\ UNCHANGED <<sqlite, nested>>

Printed == At("visit") /\ proc.stack = <<>> /\ Goto("exit") /\ UNCHANGED <<sqlite, nested>>

----------------------------------------------------------------------------
(* The editor *)

(* What the editor leaves: the list as it was, another one, or a file that *)
(* read_plist cannot read.  After "Invalid property list" the user has it  *)
(* edited again, and the file is read whether it was changed or not.       *)
EditorSaves ==
    /\ proc.at \in {"editor", "invalid"}
    /\ budget.tries > 0
    /\ budget' = [budget EXCEPT !.tries = @ - 1]
    /\ \E plist \in {IF proc.owner = None THEN list ELSE OfProject(list.own) : list \in Plists}
                    \cup {proc.plist, None} :
         proc' = IF plist = None THEN [proc EXCEPT !.at = "invalid", !.plist = None]
                 ELSE Storing(proc.owner, plist)
    /\ UNCHANGED <<sqlite, nested>>

(* The editor fails, or leaves the file alone. *)
EditorCancels == At("editor") /\ Goto("cancelled") /\ UNCHANGED <<sqlite, nested>>

Quit == At("invalid") /\ Goto("cancelled") /\ UNCHANGED <<sqlite, nested>>

----------------------------------------------------------------------------
(* DBSetPlist *)

Top    == Head(proc.frames)
InTop(field, x) == [proc EXCEPT !.frames[1][field] = x]

(* The call returns, to the list that holds this one or to the command.    *)
Return(res) ==
    LET up == Tail(proc.frames) IN
    IF up # <<>>
    THEN [proc EXCEPT !.at = IF res = 0 THEN "projects" ELSE "groups", !.res = res, !.frames = up]
    ELSE [proc EXCEPT !.at = IF proc.cmd = "edit" /\ res # 0 THEN "invalid" ELSE "exit",
                      !.res = res, !.frames = up]

(* Mutated form: the list is looked at after the transaction is counted.   *)
RefusedLate ==
    /\ At("set_plist")
    /\ Top.plist = NotADictionary
    /\ proc' = Return(-1)
    /\ nested' = nested + 1
    /\ UNCHANGED sqlite

SetPlistRefused ==
    /\ At("set_plist")
    /\ Top.plist = NotADictionary
    /\ proc' = Return(-1)
    /\ UNCHANGED <<sqlite, nested>>

BeginTransaction ==
    /\ At("set_plist")
    /\ Top.plist # NotADictionary
    /\ nested' = nested + 1
    /\ IF nested = 0 THEN Begin(Me) ELSE UNCHANGED sqlite
    /\ Goto("names")

(* "cannot start a transaction within a transaction": the counter stays up.*)
BeginFails ==
    /\ At("set_plist")
    /\ Top.plist # NotADictionary
    /\ nested = 0
    /\ tx[Me] # "auto"
    /\ nested' = 1
    /\ proc' = Return(1)
    /\ UNCHANGED sqlite

(* The properties the list no longer names. *)
SelectNames ==
    /\ At("names")
    /\ proc' = [proc EXCEPT
                  !.at = "delete",
                  !.doomed = PropNames(T, proc.build, Top.owner) \ DOMAIN Top.plist.own]
    /\ Read(Me)
    /\ UNCHANGED nested

WithoutProp(t, b, o, p) ==
    [t EXCEPT !.properties = {r \in @ : ~(r[1] = b /\ r[2] = o /\ r[3] = p)}]

DeleteProp ==
    /\ At("delete")
    /\ \E p \in proc.doomed :
         /\ Write(Me, WithoutProp(T, proc.build, Top.owner, p))
         /\ proc' = [proc EXCEPT !.doomed = @ \ {p}]
    /\ UNCHANGED nested

DeletedAll == /\ At("delete") /\ proc.doomed = {}
              /\ Goto("set") /\ UNCHANGED <<sqlite, nested>>

(* Mutated form: what no plugin knows is accepted. *)
AcceptedUnknown(p, value) == p \in DOMAIN PropType => PropType[p] = value.type

Accepted(p, value) == p \in DOMAIN PropType /\ PropType[p] = value.type

(* DBSetProp: a DELETE, then an INSERT for every item. *)
SetProp ==
    /\ At("set")
    /\ \E p \in Top.props :
         /\ First(p, Top.props, SortedProps)
         /\ Accepted(p, Top.plist.own[p])
         /\ Write(Me, WithoutProp(T, proc.build, Top.owner, p))
         /\ proc' = [InTop("props", Top.props \ {p}) EXCEPT
                       !.at = "insert", !.prop = p, !.items = Top.plist.own[p].items]
    /\ UNCHANGED nested

InsertItem ==
    /\ At("insert")
    /\ \E item \in proc.items :
         /\ Top.plist.own[proc.prop].type = "array" => \A other \in proc.items : item[1][1] <= other[1][1]
         /\ Write(Me, [T EXCEPT !.properties =
                         @ \cup {RowOf(proc.build, Top.owner, proc.prop, item)}])
         /\ proc' = [proc EXCEPT !.items = @ \ {item}]
    /\ UNCHANGED nested

InsertedAll == /\ At("insert") /\ proc.items = {}
               /\ Goto("set") /\ UNCHANGED <<sqlite, nested>>

(* An unknown property, or a value of another type: the rest is skipped,   *)
(* the projects too.                                                       *)
SetPropRefused ==
    /\ At("set")
    /\ \E p \in Top.props : First(p, Top.props, SortedProps) /\ ~Accepted(p, Top.plist.own[p])
    /\ proc' = [proc EXCEPT !.at = "groups", !.res = -1]
    /\ UNCHANGED <<sqlite, nested>>

PropsSet == /\ At("set") /\ Top.props = {}
            /\ Goto("projects") /\ UNCHANGED <<sqlite, nested>>

(* The recursion.  NotADictionary has no frame to speak of. *)
SetProject ==
    /\ At("projects")
    /\ \E o \in Top.projects :
         /\ First(o, Top.projects, SortedProjects)
         /\ LET plist == Top.plist.projects[o]
                callee == IF plist = NotADictionary
                          THEN [owner |-> o, plist |-> plist, props |-> {}, projects |-> {}]
                          ELSE Frame(o, plist)
                caller == InTop("projects", Top.projects \ {o})
            IN  proc' = [caller EXCEPT !.at = "set_plist", !.frames = <<callee>> \o @]
    /\ UNCHANGED <<sqlite, nested>>

ProjectsSet == /\ At("projects") /\ Top.projects = {}
               /\ Goto("groups") /\ UNCHANGED <<sqlite, nested>>

(* The groups are set even when a property was refused. *)
NoGroups == /\ At("groups") /\ Top.plist.groups = None
            /\ Goto("commit") /\ UNCHANGED <<sqlite, nested>>

DeleteGroups ==
    /\ At("groups")
    /\ Top.plist.groups # None
    /\ Write(Me, [T EXCEPT !.groups = {r \in @ : r[1] # proc.build}])
    /\ proc' = [proc EXCEPT
                  !.at = "members",
                  !.items = UNION {{<<g, m>> : m \in Top.plist.groups[g]} :
                                   g \in DOMAIN Top.plist.groups}]
    /\ UNCHANGED nested

InsertMember ==
    /\ At("members")
    /\ \E item \in proc.items :
         /\ Write(Me, [T EXCEPT !.groups = @ \cup {<<proc.build, item[1], item[2]>>}])
         /\ proc' = [proc EXCEPT !.items = @ \ {item}]
    /\ UNCHANGED nested

GroupsSet == /\ At("members") /\ proc.items = {}
             /\ Goto("commit") /\ UNCHANGED <<sqlite, nested>>

(* Mutated form: every COMMIT is sent, that of a project in the list too.  *)
CommitEach ==
    /\ At("commit")
    /\ nested' = nested - 1
    /\ Commit(Me)
    /\ proc' = Return(proc.res)

(* Its result is not looked at, and it is done whatever came before. *)
CommitTransaction ==
    /\ At("commit")
    /\ nested' = nested - 1
    /\ IF nested = 1 THEN Commit(Me) ELSE UNCHANGED sqlite
    /\ proc' = Return(proc.res)

Exit == /\ \/ At("exit")
           \/ At("cancelled")
        /\ Close(Me)
        /\ proc' = Resting
        /\ nested' = 0
----------------------------------------------------------------------------
(* The other process *)

ReaderReads ==
    /\ tx[Reader] = "auto" /\ NobodyElse(Reader, {"pending"})
    /\ budget.reads > 0
    /\ budget' = [budget EXCEPT !.reads = @ - 1]
    /\ tx' = [tx EXCEPT ![Reader] = "shared"]
    /\ view' = [view EXCEPT ![Reader] = db]
    /\ UNCHANGED <<db, proc, nested>>

ReaderEnds ==
    /\ tx[Reader] = "shared"
    /\ Close(Reader)
    /\ UNCHANGED <<proc, nested, budget>>

Crash ==
    /\ proc.at # "exited"
    /\ budget.crashes > 0
    /\ budget' = [budget EXCEPT !.crashes = @ - 1]
    /\ Close(Me)
    /\ proc' = Resting
    /\ nested' = 0

Command == LoadIndex \/ Edit \/ MergeBuild \/ Query \/ Dependencies
User    == EditorSaves \/ EditorCancels \/ Quit

Step ==
    \/ Walk \/ CopyForEditor \/ CopyOld \/ CopyNew
    \/ Search \/ Restart \/ LookInBuild \/ PrintRoot \/ Visit \/ Printed
    \/ SetPlistRefused \/ BeginTransaction \/ BeginFails
    \/ SelectNames \/ DeleteProp \/ DeletedAll
    \/ SetProp \/ InsertItem \/ InsertedAll \/ SetPropRefused \/ PropsSet
    \/ SetProject \/ ProjectsSet
    \/ NoGroups \/ DeleteGroups \/ InsertMember \/ GroupsSet
    \/ CommitTransaction \/ Exit

Next == Command \/ User \/ Step \/ Crash \/ ReaderReads \/ ReaderEnds

(* The system runs the process, and the user ends what was begun.          *)
Spec == Init /\ [][Next]_vars /\ WF_vars(Step) /\ WF_vars(EditorCancels \/ Quit)
----------------------------------------------------------------------------
(* Properties *)

Labels == {"exited", "walk", "copy", "copy_old", "editor", "invalid", "cancelled", "search",
           "restart", "build", "print", "visit", "set_plist", "names", "delete", "set", "insert",
           "projects", "groups", "members", "commit", "exit"}

(* The tables hold properties that some plugin knows, of builds and        *)
(* projects, and the counter of transactions never goes below zero.        *)
TypeOK ==
    /\ proc.at \in Labels
    /\ nested \in 0..3
    /\ tx \in [Procs -> Modes]
    /\ budget \in [commands : 0..MaxCommands, tries : 0..MaxTries,
                   crashes : 0..MaxCrashes, reads : 0..MaxReads]
    /\ \A r \in db.properties : r[1] \in Builds /\ r[2] \in Owners /\ r[3] \in DOMAIN PropType
    /\ \A r \in db.groups : r[1] \in Builds /\ r[2] \in Groups

(* The list that a call of DBSetPlist for owner o gives project w. *)
ListFor(o, plist, w) == IF w = o THEN plist.own ELSE plist.projects[w].own

Given(o, plist) == {o} \cup {w \in DOMAIN plist.projects : plist.projects[w] # NotADictionary}

Acceptable(o, plist) ==
    /\ \A w \in DOMAIN plist.projects : plist.projects[w] # NotADictionary
    /\ \A w \in Given(o, plist) : \A p \in DOMAIN ListFor(o, plist, w) :
         Accepted(p, ListFor(o, plist, w)[p])

NewRows(b, o, plist, w, p) ==
    IF p \in DOMAIN ListFor(o, plist, w)
    THEN {RowOf(b, w, p, item) : item \in ListFor(o, plist, w)[p].items}
    ELSE {}

OldRows(t, b, w, p) == {r \in t.properties : r[1] = b /\ r[2] = w /\ r[3] = p}

NewGroups(t, b, plist) ==
    IF plist.groups = None THEN t.groups
    ELSE {r \in t.groups : r[1] # b} \cup
         UNION {{<<b, g, m>> : m \in plist.groups[g]} : g \in DOMAIN plist.groups}

(* The tables after the whole list is stored. *)
Expected(t, b, o, plist) ==
    [properties |-> {r \in t.properties : r[1] # b \/ r[2] \notin Given(o, plist)} \cup
                    UNION {NewRows(b, o, plist, w, p) : w \in Given(o, plist), p \in DOMAIN PropType},
     groups |-> NewGroups(t, b, plist)]

(* What a refused list may leave: of each property the old or the new. *)
Part(t, u, b, o, plist) ==
    /\ u.groups = NewGroups(t, b, plist)
    /\ {r \in u.properties : r[1] # b \/ r[2] \notin Given(o, plist)}
       = {r \in t.properties : r[1] # b \/ r[2] \notin Given(o, plist)}
    /\ \A w \in Given(o, plist), p \in DOMAIN PropType :
         OldRows(u, b, w, p) \in {OldRows(t, b, w, p), NewRows(b, o, plist, w, p)}

(* DBSetPlist nests its transactions so that a list with its projects and  *)
(* groups is stored whole or not at all, whatever the tables held, whoever *)
(* reads meanwhile and wherever the process dies.  Of a list it refuses,   *)
(* whole properties are stored or not, never half of one, and nothing but  *)
(* what the list is about changes.                                         *)
StoredWhole ==
    [][db' # db =>
         IF Acceptable(proc.owner, proc.plist)
         THEN db' = Expected(db, proc.build, proc.owner, proc.plist)
         ELSE Part(db, db', proc.build, proc.owner, proc.plist)]_vars

(* An edit that the program takes for done is in the database, unless a    *)
(* COMMIT met a reader: no path through refused lists, nested calls and    *)
(* new tries leaves the count of transactions wrong.                       *)
EditKept ==
    proc.at = "exit" /\ proc.cmd = "edit" /\ proc.frames = <<>> /\ proc.plist # None
      /\ proc.res = 0 /\ tx[Me] # "pending"
    => db = Expected(db, proc.build, proc.owner, proc.plist)

(* Saving in the editor what was read from the database changes nothing:   *)
(* what a build inherits, or an alias stands for, is not written into it.  *)
(* Only an array of more than ten elements is put in another order.        *)
RoundTrip ==
    [][proc.cmd = "edit" /\ db' # db
       /\ proc.plist = (IF proc.owner = None
                        THEN BuildPlist(db, proc.build,
                                        OneProjectNames(db, proc.build, Range(proc.chain)))
                        ELSE OfProject(ProjectPlist(db, proc.build, proc.owner)))
       => /\ db'.groups = db.groups
          /\ \A b \in Builds, o \in Owners, p \in DOMAIN PropType : SameValue(db, db', b, o, p)]_vars

(* mergeBuild only adds: whatever a build has a value for keeps it, the    *)
(* order of a long array excepted, and so do the groups.                   *)
MergeKeeps ==
    [][proc.cmd = "mergeBuild" /\ db' # db
       => /\ db'.groups = db.groups
          /\ \A b \in Builds, o \in Owners, p \in DOMAIN PropType :
               Own(db, b, o, p) # {} => SameValue(db, db', b, o, p)]_vars

(* What the default handler prints is the value that the comment on        *)
(* _DBCopyPropWithInheritance promises, for the project or else the build, *)
(* or nothing for one that is hidden behind an alias, since the search for *)
(* an original ends at the build that names it; never another build's      *)
(* value, nor another project's, however builds inherit and alias.         *)
Reached(t, b, o, p) == IF Hidden(t, b, o, p) THEN {} ELSE Found(t, b, o, p)

SearchSound ==
    proc.cmd = "query" /\ proc.at = "exit"
    => proc.answer = LET reached == Reached(db, proc.build, proc.owner, proc.prop)
                     IN  IF reached # {} THEN reached ELSE Reached(db, proc.build, None, proc.prop)

(* dependencies prints the projects that are needed and no others, in      *)
(* spite of cycles among them.                                             *)
PrintedRight ==
    proc.cmd = "dependencies" /\ proc.at = "exit"
    => proc.printed = Closure(db, proc.build, proc.owner, proc.kind)

(* Every command ends, as long as no build inherits from itself. *)
CommandsEnd == [](\A b \in Builds : WholeLines(db, b) # {}) => []<>(proc.at = "exited")
=============================================================================
