-------------------------- MODULE PropStoreProofs ---------------------------
(***************************************************************************)
(* What holds of the commands of PropStore for any number of builds and    *)
(* projects, any lists and any tables: StoreInv is inductive, and from it  *)
(* follow what DBSetPlist promises of its transactions and what edit and   *)
(* mergeBuild promise of the list they store.  What query finds and        *)
(* dependencies prints has an invariant each, Searching and Printing.      *)
(*                                                                         *)
(* DBSetPlist calls itself for the projects of a list, but not for those   *)
(* of a project: at most two calls are under way, Outer and Top.           *)
(***************************************************************************)
EXTENDS PropStore, FiniteSetTheorems, SequenceTheorems,
        WellFoundedInduction, TLAPS

(* The names that files use, registered or not. *)
Props == Range(SortedProps)

Setting == {"set_plist", "names", "delete", "set", "insert", "projects", "groups", "members",
            "commit"}

(* A list that DBSetPlist may be called with for an owner. *)
Storable(o, plist) == IsList(plist, Props) /\ o \notin DOMAIN plist.projects

Outer == proc.frames[Len(proc.frames)]

(* The list of the call that runs. *)
TopOwn == Top.plist.own

Fields ==
    /\ DOMAIN proc = {"at", "cmd", "build", "owner", "old", "chain", "then", "plist", "frames",
                      "doomed", "items", "res", "kind", "prop", "who", "answer", "stack", "printed"}
    /\ proc.at \in Labels
    /\ proc.cmd \in {"none", "loadIndex", "edit", "mergeBuild", "query", "dependencies"}
    /\ proc.build \in Builds \cup {None}
    /\ proc.owner \in Owners
    /\ proc.then \in {"exit", "copy", "copy_old", "print", "build"}
    /\ proc.res \in {-1, 0, 1}

(* The reader never writes, so no statement of Me but COMMIT is in its way.*)
Locked == /\ SqliteType(AllTables)
          /\ Reading(Me) => view[Me] \in AllTables
          /\ tx[Reader] \in {"auto", "shared"}

Typed ==
    /\ Fields
    /\ budget \in [commands : 0..MaxCommands, tries : 0..MaxTries,
                   crashes : 0..MaxCrashes, reads : 0..MaxReads]
    /\ Locked
    /\ proc.at # "exited" => proc.build \in Builds
    /\ proc.at = "walk" => proc.then \notin {"exit", "build"}
    /\ proc.at \in {"search", "restart"} => proc.then \in {"exit", "build"}
    /\ proc.at = "copy" => proc.then = "copy"
    /\ proc.at \in {"editor", "invalid"} => proc.cmd = "edit"

(* The calls of DBSetPlist that are under way. *)
FrameOf(f, o, plist) ==
    /\ f = [owner |-> o, plist |-> plist, props |-> f.props, projects |-> f.projects]
    /\ plist # NotADictionary =>
         f.props \subseteq DOMAIN plist.own /\ f.projects \subseteq DOMAIN plist.projects

Calls ==
    /\ proc.at \notin Setting => proc.frames = <<>>
    /\ proc.at \in Setting =>
         /\ Storable(proc.owner, proc.plist)
         /\ \/ /\ proc.frames = <<Top>>
               /\ FrameOf(Top, proc.owner, proc.plist)
            \/ /\ proc.frames = <<Top, Outer>>
               /\ FrameOf(Outer, proc.owner, proc.plist)
               /\ Outer.props = {}
               /\ Top.owner \in DOMAIN proc.plist.projects
               /\ FrameOf(Top, Top.owner, proc.plist.projects[Top.owner])
               /\ Top.projects = {}
               /\ Top.plist = NotADictionary => proc.at = "set_plist"
    /\ proc.at \in {"set_plist", "names", "delete"} /\ Top.plist # NotADictionary =>
         Top.props = DOMAIN TopOwn
    /\ proc.at = "set_plist" /\ Len(proc.frames) = 1 =>
         Top.projects = DOMAIN proc.plist.projects
    /\ proc.at = "projects" => Top.props = {}
    /\ proc.at = "insert" =>
         /\ proc.prop \in DOMAIN TopOwn \ Top.props
         /\ Accepted(proc.prop, TopOwn[proc.prop])
         /\ proc.items \subseteq TopOwn[proc.prop].items
    /\ proc.at = "delete" => proc.doomed \cap DOMAIN TopOwn = {}
    /\ proc.at = "members" =>
         /\ Len(proc.frames) = 1
         /\ proc.items \subseteq Groups \X Projects

Depth == IF proc.at \notin Setting THEN 0
         ELSE IF proc.at = "set_plist" THEN Len(proc.frames) - 1
         ELSE Len(proc.frames)

(* __nestedTransactions counts the calls that have begun; once a BEGIN met *)
(* the transaction of a COMMIT that failed, it is one too high.            *)
Counted ==
    /\ \/ nested = Depth /\ tx[Me] \in IF Depth = 0 THEN {"auto", "pending"}
                                       ELSE Modes \ {"auto", "pending"}
       \/ nested = Depth + 1 /\ tx[Me] = "pending"
    /\ tx[Me] = "pending" => proc.at \in Setting \cup {"invalid", "exit", "cancelled"}
    /\ proc.at \notin Setting \cup {"invalid", "exit", "cancelled"} => nested = 0

(* What the transaction has stored so far. *)
Inserting(w, p) == proc.at = "insert" /\ w = Top.owner /\ p = proc.prop

Is(w, p) == OldRows(T, proc.build, w, p)
Was(w, p) == OldRows(db, proc.build, w, p)
New(w, p) == NewRows(proc.build, proc.owner, proc.plist, w, p)

Settled(w) == \A p \in DOMAIN PropType : Is(w, p) = New(w, p)

Beyond(t, b, G) == {r \in t.properties : r[1] # b \/ r[2] \notin G}
Others(t) == Beyond(t, proc.build, Given(proc.owner, proc.plist))

Mixed == \A w \in Given(proc.owner, proc.plist), p \in DOMAIN PropType :
            Is(w, p) = Was(w, p) \/ Is(w, p) = New(w, p) \/ Inserting(w, p)

Done(w) == /\ w \in DOMAIN proc.plist.projects \ Outer.projects
           /\ Len(proc.frames) = 2 => w # Top.owner

SettledSoFar ==
    proc.res = 0 =>
      /\ \A w \in DOMAIN proc.plist.projects : Done(w) =>
            w \in Given(proc.owner, proc.plist) /\ Settled(w)
      /\ Len(proc.frames) = 2 => Settled(proc.owner)
      /\ proc.at \in {"projects", "groups", "members", "commit"} => Settled(Top.owner)
      /\ Len(proc.frames) = 1 /\ proc.at \in {"groups", "members", "commit"} => Top.projects = {}

InList ==
    /\ proc.at = "delete" =>
         \A p \in DOMAIN PropType \ DOMAIN TopOwn : p \in proc.doomed \/ Is(Top.owner, p) = {}
    /\ proc.at \in {"set", "insert"} =>
         \A p \in DOMAIN PropType \ Top.props :
            Inserting(Top.owner, p) \/ Is(Top.owner, p) = New(Top.owner, p)
    /\ proc.at = "insert" =>
         Is(Top.owner, proc.prop)
           \cup {RowOf(proc.build, Top.owner, proc.prop, item) : item \in proc.items}
         = New(Top.owner, proc.prop)

InGroups ==
    /\ proc.at \notin {"members", "commit"} \/ Len(proc.frames) = 2 => T.groups = db.groups
    /\ proc.at = "members" =>
         T.groups \cup {<<proc.build, item[1], item[2]>> : item \in proc.items}
         = NewGroups(db, proc.build, proc.plist)
    /\ proc.at = "commit" /\ Len(proc.frames) = 1 =>
         T.groups = NewGroups(db, proc.build, proc.plist)

InTransaction == tx[Me] \notin {"auto", "pending"}

Halfway ==
    InTransaction =>
      /\ Others(T) = Others(db)
      /\ Mixed
      /\ SettledSoFar
      /\ InList
      /\ InGroups

Refusals ==
    /\ proc.at \in Setting /\ Acceptable(proc.owner, proc.plist) => proc.res = 0
    /\ proc.at \in {"set_plist", "names", "delete", "set", "insert", "projects"} => proc.res = 0

(* What edit and mergeBuild read. *)
ReadList == IF proc.owner = None
            THEN BuildPlist(db, proc.build, OneProjectNames(db, proc.build, Range(proc.chain)))
            ELSE OfProject(ProjectPlist(db, proc.build, proc.owner))

Editing ==
    proc.cmd = "edit" =>
      /\ proc.at \notin {"copy_old", "search", "restart", "build", "print", "visit"}
      /\ proc.at = "walk" => proc.then = "copy"
      /\ proc.at \in {"editor", "invalid"} /\ proc.plist # None => Storable(proc.owner, proc.plist)
      /\ proc.at = "editor" => proc.plist = ReadList
      /\ proc.at = "exit" /\ proc.res = 0 /\ tx[Me] # "pending"
           => db = Expected(db, proc.build, proc.owner, proc.plist)

(* What project w has in a build, as it is stored once read. *)
ReadRows(t, b, w, p) == {RowOf(b, w, p, item) : item \in ItemsRead(t, b, w, p)}

Adds == /\ NewGroups(db, proc.build, proc.plist) = db.groups
        /\ \A w \in Given(proc.owner, proc.plist), p \in DOMAIN PropType :
             Own(db, proc.build, w, p) # {} => New(w, p) = ReadRows(db, proc.build, w, p)

Merging ==
    proc.cmd = "mergeBuild" =>
      /\ proc.owner = None
      /\ proc.at \in Setting => Acceptable(None, proc.plist) /\ Adds
      /\ proc.at \in {"walk", "copy"} /\ proc.then = "copy"
           => Storable(None, proc.plist) /\ Acceptable(None, proc.plist)

StoreInv ==
    /\ Typed
    /\ Calls
    /\ Counted
    /\ Halfway
    /\ Refusals
    /\ Editing
    /\ Merging
----------------------------------------------------------------------------
(* Sequences of one or two calls. *)

LEMMA TwoCalls ==
    ASSUME NEW f, NEW g
    PROVE  /\ <<f>> \o <<g>> = <<f, g>>
           /\ <<f>> \o <<>> = <<f>>
<1>1. <<f>> \in Seq({f, g}) /\ <<g>> \in Seq({f, g}) /\ <<f, g>> \in Seq({f, g})
  OBVIOUS
<1>2. <<f>> \o <<g>> = <<f, g>>
  <2>1. /\ Len(<<f>> \o <<g>>) = 2
        /\ (<<f>> \o <<g>>)[1] = f
        /\ (<<f>> \o <<g>>)[2] = g
        /\ <<f>> \o <<g>> \in Seq({f, g})
    BY <1>1, ConcatProperties
  <2>2. Len(<<f, g>>) = 2 /\ \A i \in 1..2 : (<<f>> \o <<g>>)[i] = <<f, g>>[i]
    BY <2>1
  <2> QED BY <1>1, <2>1, <2>2, SeqEqual
<1>3. <<f>> \o <<>> = <<f>>
  BY <1>1, ConcatEmptySeq
<1> QED BY <1>2, <1>3

----------------------------------------------------------------------------
(* The statements of Me. *)

(* A statement that is answered from t, or leaves the tables at t. *)
Within(t) ==
    /\ Locked'
    /\ db' = db
    /\ T' = t
    /\ (tx'[Me] = "pending") = (tx[Me] = "pending")
    /\ (tx'[Me] = "auto") = (tx[Me] = "auto")

LEMMA TablesTyped ==
    ASSUME Locked
    PROVE  /\ T \in AllTables
           /\ db \in AllTables
           /\ tx[Me] \in Modes /\ tx[Reader] \in Modes
           /\ tx[Me] = "begun" => T = db
BY ProcsAssumption DEF Locked, SqliteType, T, Tables, Reading

LEMMA NothingSent ==
    ASSUME Locked, UNCHANGED sqlite
    PROVE  Within(T)
BY ProcsAssumption DEF Locked, Within, sqlite, SqliteType, T, Tables, Reading

LEMMA ReadWithin ==
    ASSUME Locked, Read(Me)
    PROVE  Within(T)
<1>1. CASE tx[Me] = "begun" /\ CanRead(Me)
  <2>1. /\ tx' = [tx EXCEPT ![Me] = "shared"] /\ view' = [view EXCEPT ![Me] = db] /\ db' = db
    BY <1>1 DEF Read
  <2> QED BY <1>1, <2>1, ProcsAssumption
          DEF Locked, Within, SqliteType, T, Tables, Reading, Modes
<1>2. CASE ~(tx[Me] = "begun" /\ CanRead(Me))
  BY <1>2, NothingSent DEF Read
<1> QED BY <1>1, <1>2

LEMMA WriteWithin ==
    ASSUME Locked, tx[Me] # "auto", NEW t \in AllTables, Write(Me, t)
    PROVE  Within(t)
<1>1. CanWrite(Me)
  BY ProcsAssumption DEF Locked, CanWrite, CanRead, Writing, Reading, NobodyElse
<1>2. /\ tx' = [tx EXCEPT ![Me] = IF @ = "pending" THEN @ ELSE "reserved"]
      /\ view' = [view EXCEPT ![Me] = t]
      /\ db' = db
  BY <1>1 DEF Write
<1>3. tx[Me] \in Modes
  BY TablesTyped
<1> QED BY <1>2, <1>3, ProcsAssumption
        DEF Locked, Within, SqliteType, T, Tables, Reading, Modes

LEMMA ClosedAll ==
    ASSUME Locked, Close(Me)
    PROVE  Locked' /\ db' = db /\ tx'[Me] = "auto" /\ T' = db
BY ProcsAssumption DEF Locked, Close, Release, SqliteType, Modes, T, Tables, Reading

LEMMA Begun ==
    ASSUME Locked, Begin(Me)
    PROVE  Locked' /\ db' = db /\ tx[Me] = "auto" /\ tx'[Me] = "begun" /\ T' = db /\ T = db
BY ProcsAssumption DEF Locked, Begin, SqliteType, Modes, T, Tables, Reading

LEMMA Committed ==
    ASSUME Locked, Commit(Me), tx[Me] # "auto"
    PROVE  /\ Locked'
           /\ \/ tx'[Me] = "auto" /\ db' = T
              \/ tx'[Me] = "pending" /\ db' = db
<1>1. T \in AllTables /\ tx[Me] \in Modes
  BY TablesTyped
<1>2. CASE CanCommit(Me)
  <2>1. tx' = [tx EXCEPT ![Me] = "auto"] /\ view' = [view EXCEPT ![Me] = NoTables] /\ db' = T
    BY <1>2 DEF Commit, Release, T
  <2> QED BY <1>1, <2>1, ProcsAssumption DEF Locked, SqliteType, Modes, Reading
<1>3. CASE ~CanCommit(Me)
  <2>1. tx' = [tx EXCEPT ![Me] = "pending"] /\ view' = view /\ db' = db
    BY <1>3 DEF Commit
  <2>2. Reading(Me)
    BY <1>3 DEF CanCommit, Writing, Reading
  <2> QED BY <1>1, <2>1, <2>2, ProcsAssumption DEF Locked, SqliteType, Modes, Reading
<1> QED BY <1>2, <1>3

----------------------------------------------------------------------------
(* Rows *)

LEMMA RowsMade ==
    ASSUME NEW b \in Builds, NEW o \in Owners, NEW p \in DOMAIN PropType,
           NEW item, Fits(p, PropType[p], item)
    PROVE  /\ RowOf(b, o, p, item) \in Rows
           /\ RowOf(b, o, p, item)[1] = b
           /\ RowOf(b, o, p, item)[2] = o
           /\ RowOf(b, o, p, item)[3] = p
<1> DEFINE row == RowOf(b, o, p, item)
<1>1. item \in Keys \X Texts /\ item = <<item[1], item[2]>>
  BY DEF Fits
<1>2. /\ row \in Builds \X Owners \X (DOMAIN PropType) \X Keys \X Texts
      /\ row[1] = b /\ row[2] = o /\ row[3] = p /\ row[4] = item[1] /\ row[5] = item[2]
  BY <1>1 DEF RowOf
<1> HIDE DEF row
<1>3. Fits(row[3], PropType[row[3]], <<row[4], row[5]>>)
  BY <1>1, <1>2
<1>4. row \in Rows
  BY <1>2, <1>3 DEF Rows
<1> QED BY <1>2, <1>4 DEF row

----------------------------------------------------------------------------
(* The call that runs. *)

LEMMA NoDictionary ==
    ASSUME NEW plist, plist = Plist(plist.own, plist.projects, plist.groups)
    PROVE  plist # NotADictionary
BY DEF Plist, NotADictionary

LEMMA OneOrTwo ==
    ASSUME Calls, proc.at \in Setting
    PROVE  /\ Len(proc.frames) \in {1, 2}
           /\ proc.frames # <<>>
           /\ Len(proc.frames) = 1 => proc.frames = <<Top>> /\ Outer = Top
           /\ Len(proc.frames) = 2 => proc.frames = <<Top, Outer>>
           /\ Outer.owner = proc.owner /\ Outer.plist = proc.plist
<1>1. CASE proc.frames = <<Top>> /\ FrameOf(Top, proc.owner, proc.plist)
  <2>1. Len(proc.frames) = 1 /\ proc.frames # <<>> /\ proc.frames[1] = Top
    BY <1>1
  <2> QED BY <1>1, <2>1 DEF Outer, FrameOf
<1>2. CASE proc.frames = <<Top, Outer>> /\ FrameOf(Outer, proc.owner, proc.plist)
  <2>1. Len(proc.frames) = 2 /\ proc.frames # <<>>
    BY <1>2
  <2> QED BY <1>2, <2>1 DEF FrameOf
<1> QED BY <1>1, <1>2 DEF Calls

LEMMA RunningCall ==
    ASSUME Typed, Calls, proc.at \in Setting, Top.plist # NotADictionary
    PROVE  /\ Top.owner \in Owners
           /\ Top.owner \in Given(proc.owner, proc.plist)
           /\ ListFor(proc.owner, proc.plist, Top.owner) = TopOwn
           /\ IsOwnList(TopOwn, Props)
           /\ Len(proc.frames) = 2 <=> Top.owner # proc.owner
<1>1. CASE proc.frames = <<Top>> /\ FrameOf(Top, proc.owner, proc.plist)
  <2>1. Top.owner = proc.owner /\ Top.plist = proc.plist /\ Len(proc.frames) = 1
    BY <1>1 DEF FrameOf
  <2> QED BY <2>1 DEF Typed, Fields, Calls, Storable, IsList, Given, ListFor, TopOwn
<1>2. CASE /\ proc.frames = <<Top, Outer>>
           /\ Top.owner \in DOMAIN proc.plist.projects
           /\ FrameOf(Top, Top.owner, proc.plist.projects[Top.owner])
  <2>1. Top.plist = proc.plist.projects[Top.owner] /\ Len(proc.frames) = 2
    BY <1>2 DEF FrameOf
  <2>2. Top.owner # proc.owner /\ Top.owner \in Projects
    BY <1>2 DEF Calls, Storable, IsList
  <2>3. Top.owner \in Given(proc.owner, proc.plist)
    BY <1>2, <2>1 DEF Given
  <2>4. IsOwnList(TopOwn, Props)
    BY <1>2, <2>1 DEF Calls, Storable, IsList, TopOwn
  <2> QED BY <2>1, <2>2, <2>3, <2>4 DEF Owners, ListFor, TopOwn
<1> QED BY <1>1, <1>2 DEF Calls

LEMMA OuterCall ==
    ASSUME Typed, Calls, proc.at \in Setting, Len(proc.frames) = 1
    PROVE  /\ Top.plist # NotADictionary
           /\ Top.owner = proc.owner /\ Top.plist = proc.plist
           /\ FrameOf(Top, proc.owner, proc.plist)
<1>1. proc.frames = <<Top>> /\ FrameOf(Top, proc.owner, proc.plist) /\ Storable(proc.owner, proc.plist)
  BY DEF Calls
<1>2. proc.plist # NotADictionary
  BY <1>1, NoDictionary DEF Storable, IsList
<1> QED BY <1>1, <1>2 DEF FrameOf

(* A step of a call that neither begins nor ends it. *)
Same == /\ proc.at \in Setting \ {"set_plist"}
        /\ proc'.at \in Setting \ {"set_plist"}
        /\ proc'.cmd = proc.cmd /\ proc'.build = proc.build
        /\ proc'.owner = proc.owner /\ proc'.plist = proc.plist

LEMMA NotRefused ==
    ASSUME Typed, Calls, proc.at \in Setting \ {"set_plist"}
    PROVE  Top.plist # NotADictionary
BY OuterCall, OneOrTwo DEF Calls

LEMMA CommandStays ==
    ASSUME Editing, Merging, proc.at \in Setting, proc'.at \in Setting,
           proc'.cmd = proc.cmd, proc'.build = proc.build,
           proc'.owner = proc.owner, proc'.plist = proc.plist, db' = db
    PROVE  Editing' /\ Merging'
<1>1. Editing'
  BY DEF Editing, Setting
<1>2. Adds' = Adds
  BY DEF Adds, New, ReadRows
<1>3. Merging'
  BY <1>2 DEF Merging, Setting
<1> QED BY <1>1, <1>3

LEMMA CountStays ==
    ASSUME Counted, Same, Len(proc'.frames) = Len(proc.frames), nested' = nested,
           NEW t, Within(t)
    PROVE  Counted' /\ (InTransaction' <=> InTransaction)
<1>1. Depth' = Depth
  BY DEF Depth, Same
<1>2. tx'[Me] \in Modes
  BY ProcsAssumption DEF Within, Locked, SqliteType
<1> QED BY <1>1, <1>2 DEF Counted, Same, Within, InTransaction, Setting

LEMMA WorkSeen ==
    ASSUME Same, NEW t, Within(t)
    PROVE  /\ \A w, p : /\ Is(w, p)' = OldRows(t, proc.build, w, p)
                        /\ Was(w, p)' = Was(w, p)
                        /\ New(w, p)' = New(w, p)
           /\ Given(proc.owner, proc.plist)' = Given(proc.owner, proc.plist)
           /\ Others(T)' = Others(t) /\ Others(db)' = Others(db)
           /\ T' = t /\ db' = db
           /\ NewGroups(db, proc.build, proc.plist)' = NewGroups(db, proc.build, proc.plist)
BY DEF Same, Within, Is, Was, New, Others

LEMMA WorkStep ==
    ASSUME StoreInv, Same, NEW t, Within(t), UNCHANGED <<budget, nested>>,
           Len(proc'.frames) = Len(proc.frames), Fields', Calls', Refusals',
           InTransaction => Others(t) = Others(db) /\ Mixed' /\ SettledSoFar' /\ InList' /\ InGroups'
    PROVE  StoreInv'
<1>1. Typed'
  BY DEF StoreInv, Typed, Within, Same, Setting
<1>2. Counted' /\ (InTransaction' <=> InTransaction)
  BY CountStays DEF StoreInv
<1>3. Editing' /\ Merging'
  BY CommandStays DEF StoreInv, Same, Within
<1>4. Halfway'
  BY <1>2, WorkSeen DEF Halfway
<1> QED BY <1>1, <1>2, <1>3, <1>4 DEF StoreInv

(* Where the step leaves the rows and the calls as they are.               *)
LEMMA PropertiesStay ==
    ASSUME StoreInv, InTransaction, Same, NEW t, Within(t), t.properties = T.properties,
           proc.at # "insert", proc'.at # "insert", proc'.frames = proc.frames
    PROVE  /\ Others(t) = Others(db) /\ Mixed'
           /\ Top' = Top /\ Outer' = Outer
           /\ \A w : Settled(w)' = Settled(w) /\ Done(w)' = Done(w)
           /\ \A w, p : Is(w, p)' = Is(w, p) /\ New(w, p)' = New(w, p)
<1>1. Top' = Top /\ Outer' = Outer
  BY DEF Top, Outer
<1>2. \A w, p : Is(w, p)' = Is(w, p) /\ New(w, p)' = New(w, p) /\ Was(w, p)' = Was(w, p)
  BY WorkSeen DEF Is, OldRows
<1>3. \A w : Settled(w)' = Settled(w)
  BY <1>2 DEF Settled
<1>4. \A w : Done(w)' = Done(w)
  BY <1>1 DEF Same, Done
<1>5. Others(t) = Others(db) /\ Mixed
  BY DEF StoreInv, Halfway, Others, Beyond
<1>6. Mixed'
  BY <1>2, <1>5, WorkSeen DEF Mixed, Inserting
<1> QED BY <1>1, <1>2, <1>3, <1>4, <1>5, <1>6

LEMMA RowsStay ==
    ASSUME StoreInv, InTransaction, Same, Within(T), proc.at # "insert",
           proc'.at # "insert", proc'.frames = proc.frames
    PROVE  /\ Others(T) = Others(db) /\ Mixed'
           /\ Top' = Top /\ Outer' = Outer
           /\ \A w : Settled(w)' = Settled(w) /\ Done(w)' = Done(w)
           /\ \A w, p : Is(w, p)' = Is(w, p) /\ New(w, p)' = New(w, p)
<1> DEFINE t == T
<1>1. Within(t) /\ t.properties = T.properties
  OBVIOUS
<1> HIDE DEF t
<1>2. Others(t) = Others(db) /\ Mixed'
  BY <1>1, PropertiesStay
<1> QED BY <1>1, <1>2, PropertiesStay DEF t

LEMMA DeletedAllStep ==
    ASSUME StoreInv, DeletedAll
    PROVE  StoreInv'
<1>1. /\ proc' = [proc EXCEPT !.at = "set"] /\ proc.at = "delete" /\ proc.doomed = {}
      /\ UNCHANGED <<budget, nested>> /\ UNCHANGED sqlite
  BY DEF DeletedAll, At, Goto
<1>2. Within(T)
  BY <1>1, NothingSent DEF StoreInv, Typed
<1>3. Same /\ proc'.frames = proc.frames /\ proc'.res = proc.res /\ proc'.at = "set"
  BY <1>1 DEF StoreInv, Typed, Fields, Same, Setting
<1>4. Fields' /\ Refusals'
  BY <1>1, <1>3 DEF StoreInv, Typed, Fields, Labels, Refusals, Setting
<1>5. Calls'
  <2>1. Top' = Top /\ Outer' = Outer /\ TopOwn' = TopOwn
    BY <1>3 DEF Top, Outer, TopOwn
  <2> QED BY <1>1, <1>3, <2>1 DEF StoreInv, Calls, Setting
<1>6. ASSUME InTransaction
      PROVE  Others(T) = Others(db) /\ Mixed' /\ SettledSoFar' /\ InList' /\ InGroups'
  <2>1. /\ Others(T) = Others(db) /\ Mixed' /\ Top' = Top /\ Outer' = Outer
        /\ \A w : Settled(w)' = Settled(w) /\ Done(w)' = Done(w)
        /\ \A w, p : Is(w, p)' = Is(w, p) /\ New(w, p)' = New(w, p)
    BY <1>1, <1>2, <1>3, <1>6, RowsStay
  <2>2. SettledSoFar /\ InList /\ InGroups
    BY <1>6 DEF StoreInv, Halfway
  <2>3. SettledSoFar'
    BY <1>1, <1>3, <2>1, <2>2, WorkSeen, <1>2 DEF SettledSoFar, Same
  <2>4. InGroups'
    BY <1>1, <1>3, <2>2, WorkSeen, <1>2 DEF InGroups, Same
  <2>5. \A p \in DOMAIN PropType \ Top.props : Is(Top.owner, p) = {} /\ New(Top.owner, p) = {}
    <3>1. Top.props = DOMAIN TopOwn /\ ListFor(proc.owner, proc.plist, Top.owner) = TopOwn
      BY <1>1, <1>3, NotRefused, RunningCall DEF StoreInv, Calls, Same
    <3> QED BY <1>1, <2>2, <3>1 DEF InList, New, NewRows
  <2>6. InList'
    BY <1>3, <2>1, <2>5 DEF InList
  <2> QED BY <2>1, <2>3, <2>4, <2>6
<1> QED BY <1>1, <1>2, <1>3, <1>4, <1>5, <1>6, WorkStep

LEMMA SelectNamesStep ==
    ASSUME StoreInv, SelectNames
    PROVE  StoreInv'
<1>1. /\ proc' = [proc EXCEPT
                    !.at = "delete",
                    !.doomed = PropNames(T, proc.build, Top.owner) \ DOMAIN TopOwn]
      /\ proc.at = "names" /\ UNCHANGED <<budget, nested>> /\ Read(Me)
  BY DEF SelectNames, At, TopOwn
<1>2. Within(T)
  BY <1>1, ReadWithin DEF StoreInv, Typed
<1>3. /\ Same /\ proc'.frames = proc.frames /\ proc'.res = proc.res /\ proc'.at = "delete"
      /\ proc'.doomed = PropNames(T, proc.build, Top.owner) \ DOMAIN TopOwn
  BY <1>1 DEF StoreInv, Typed, Fields, Same, Setting
<1>4. Fields' /\ Refusals'
  BY <1>1, <1>3 DEF StoreInv, Typed, Fields, Labels, Refusals, Setting
<1>5. Top' = Top /\ Outer' = Outer /\ TopOwn' = TopOwn
  BY <1>3 DEF Top, Outer, TopOwn
<1>6. Calls'
  BY <1>1, <1>3, <1>5 DEF StoreInv, Calls, Setting
<1>7. ASSUME InTransaction
      PROVE  Others(T) = Others(db) /\ Mixed' /\ SettledSoFar' /\ InList' /\ InGroups'
  <2>1. /\ Others(T) = Others(db) /\ Mixed' /\ Top' = Top /\ Outer' = Outer
        /\ \A w : Settled(w)' = Settled(w) /\ Done(w)' = Done(w)
        /\ \A w, p : Is(w, p)' = Is(w, p) /\ New(w, p)' = New(w, p)
    BY <1>1, <1>2, <1>3, <1>7, RowsStay
  <2>2. SettledSoFar /\ InList /\ InGroups
    BY <1>7 DEF StoreInv, Halfway
  <2>3. SettledSoFar'
    BY <1>1, <1>3, <2>1, <2>2, WorkSeen, <1>2 DEF SettledSoFar, Same
  <2>4. InGroups'
    BY <1>1, <1>3, <2>2, WorkSeen, <1>2 DEF InGroups, Same
  <2>5. \A p \in DOMAIN PropType \ DOMAIN TopOwn : p \in proc'.doomed \/ Is(Top.owner, p) = {}
    BY <1>3 DEF PropNames, Is, OldRows
  <2>6. InList'
    BY <1>3, <1>5, <2>1, <2>5 DEF InList
  <2> QED BY <2>1, <2>3, <2>4, <2>6
<1> QED BY <1>1, <1>2, <1>3, <1>4, <1>6, <1>7, WorkStep

LEMMA PropsSetStep ==
    ASSUME StoreInv, PropsSet
    PROVE  StoreInv'
<1>1. /\ proc' = [proc EXCEPT !.at = "projects"] /\ proc.at = "set" /\ Top.props = {}
      /\ UNCHANGED <<budget, nested>> /\ UNCHANGED sqlite
  BY DEF PropsSet, At, Goto
<1>2. Within(T)
  BY <1>1, NothingSent DEF StoreInv, Typed
<1>3. Same /\ proc'.frames = proc.frames /\ proc'.res = proc.res /\ proc'.at = "projects"
  BY <1>1 DEF StoreInv, Typed, Fields, Same, Setting
<1>4. Fields' /\ Refusals'
  BY <1>1, <1>3 DEF StoreInv, Typed, Fields, Labels, Refusals, Setting
<1>5. Calls'
  <2>1. Top' = Top /\ Outer' = Outer /\ TopOwn' = TopOwn
    BY <1>3 DEF Top, Outer, TopOwn
  <2> QED BY <1>1, <1>3, <2>1 DEF StoreInv, Calls, Setting
<1>6. ASSUME InTransaction
      PROVE  Others(T) = Others(db) /\ Mixed' /\ SettledSoFar' /\ InList' /\ InGroups'
  <2>1. /\ Others(T) = Others(db) /\ Mixed' /\ Top' = Top /\ Outer' = Outer
        /\ \A w : Settled(w)' = Settled(w) /\ Done(w)' = Done(w)
        /\ \A w, p : Is(w, p)' = Is(w, p) /\ New(w, p)' = New(w, p)
    BY <1>1, <1>2, <1>3, <1>6, RowsStay
  <2>2. SettledSoFar /\ InList /\ InGroups
    BY <1>6 DEF StoreInv, Halfway
  <2>3. Settled(Top.owner)
    BY <1>1, <2>2 DEF InList, Settled, Inserting
  <2>4. SettledSoFar'
    BY <1>1, <1>3, <2>1, <2>2, <2>3, WorkSeen, <1>2 DEF SettledSoFar, Same
  <2>5. InGroups'
    BY <1>1, <1>3, <2>2, WorkSeen, <1>2 DEF InGroups, Same
  <2>6. InList'
    BY <1>3 DEF InList
  <2> QED BY <2>1, <2>4, <2>5, <2>6
<1> QED BY <1>1, <1>2, <1>3, <1>4, <1>5, <1>6, WorkStep

LEMMA ProjectsSetStep ==
    ASSUME StoreInv, ProjectsSet
    PROVE  StoreInv'
<1>1. /\ proc' = [proc EXCEPT !.at = "groups"] /\ proc.at = "projects" /\ Top.projects = {}
      /\ UNCHANGED <<budget, nested>> /\ UNCHANGED sqlite
  BY DEF ProjectsSet, At, Goto
<1>2. Within(T)
  BY <1>1, NothingSent DEF StoreInv, Typed
<1>3. Same /\ proc'.frames = proc.frames /\ proc'.res = proc.res /\ proc'.at = "groups"
  BY <1>1 DEF StoreInv, Typed, Fields, Same, Setting
<1>4. Fields' /\ Refusals'
  BY <1>1, <1>3 DEF StoreInv, Typed, Fields, Labels, Refusals, Setting
<1>5. Calls'
  <2>1. Top' = Top /\ Outer' = Outer /\ TopOwn' = TopOwn
    BY <1>3 DEF Top, Outer, TopOwn
  <2> QED BY <1>1, <1>3, <2>1 DEF StoreInv, Calls, Setting
<1>6. ASSUME InTransaction
      PROVE  Others(T) = Others(db) /\ Mixed' /\ SettledSoFar' /\ InList' /\ InGroups'
  <2>1. /\ Others(T) = Others(db) /\ Mixed' /\ Top' = Top /\ Outer' = Outer
        /\ \A w : Settled(w)' = Settled(w) /\ Done(w)' = Done(w)
        /\ \A w, p : Is(w, p)' = Is(w, p) /\ New(w, p)' = New(w, p)
    BY <1>1, <1>2, <1>3, <1>6, RowsStay
  <2>2. SettledSoFar /\ InList /\ InGroups
    BY <1>6 DEF StoreInv, Halfway
  <2>3. SettledSoFar'
    BY <1>1, <1>3, <2>1, <2>2, WorkSeen, <1>2 DEF SettledSoFar, Same
  <2>4. InGroups'
    BY <1>1, <1>3, <2>2, WorkSeen, <1>2 DEF InGroups, Same
  <2>5. InList'
    BY <1>3 DEF InList
  <2> QED BY <2>1, <2>3, <2>4, <2>5
<1> QED BY <1>1, <1>2, <1>3, <1>4, <1>5, <1>6, WorkStep

LEMMA NoGroupsStep ==
    ASSUME StoreInv, NoGroups
    PROVE  StoreInv'
<1>1. /\ proc' = [proc EXCEPT !.at = "commit"] /\ proc.at = "groups" /\ Top.plist.groups = None
      /\ UNCHANGED <<budget, nested>> /\ UNCHANGED sqlite
  BY DEF NoGroups, At, Goto
<1>2. Within(T)
  BY <1>1, NothingSent DEF StoreInv, Typed
<1>3. Same /\ proc'.frames = proc.frames /\ proc'.res = proc.res /\ proc'.at = "commit"
  BY <1>1 DEF StoreInv, Typed, Fields, Same, Setting
<1>4. Fields' /\ Refusals'
  BY <1>1, <1>3 DEF StoreInv, Typed, Fields, Labels, Refusals, Setting
<1>5. Calls'
  <2>1. Top' = Top /\ Outer' = Outer /\ TopOwn' = TopOwn
    BY <1>3 DEF Top, Outer, TopOwn
  <2> QED BY <1>1, <1>3, <2>1 DEF StoreInv, Calls, Setting
<1>6. ASSUME InTransaction
      PROVE  Others(T) = Others(db) /\ Mixed' /\ SettledSoFar' /\ InList' /\ InGroups'
  <2>1. /\ Others(T) = Others(db) /\ Mixed' /\ Top' = Top /\ Outer' = Outer
        /\ \A w : Settled(w)' = Settled(w) /\ Done(w)' = Done(w)
        /\ \A w, p : Is(w, p)' = Is(w, p) /\ New(w, p)' = New(w, p)
    BY <1>1, <1>2, <1>3, <1>6, RowsStay
  <2>2. SettledSoFar /\ InList /\ InGroups
    BY <1>6 DEF StoreInv, Halfway
  <2>3. SettledSoFar'
    BY <1>1, <1>3, <2>1, <2>2, WorkSeen, <1>2 DEF SettledSoFar, Same
  <2>4. Len(proc.frames) = 1 => NewGroups(db, proc.build, proc.plist) = db.groups
    BY <1>1, <1>3, OuterCall DEF StoreInv, Same, NewGroups
  <2>5. InGroups'
    BY <1>1, <1>3, <2>2, <2>4, WorkSeen, <1>2 DEF InGroups, Same
  <2>6. InList'
    BY <1>3 DEF InList
  <2> QED BY <2>1, <2>3, <2>5, <2>6
<1> QED BY <1>1, <1>2, <1>3, <1>4, <1>5, <1>6, WorkStep

LEMMA GroupsSetStep ==
    ASSUME StoreInv, GroupsSet
    PROVE  StoreInv'
<1>1. /\ proc' = [proc EXCEPT !.at = "commit"] /\ proc.at = "members" /\ proc.items = {}
      /\ UNCHANGED <<budget, nested>> /\ UNCHANGED sqlite
  BY DEF GroupsSet, At, Goto
<1>2. Within(T)
  BY <1>1, NothingSent DEF StoreInv, Typed
<1>3. Same /\ proc'.frames = proc.frames /\ proc'.res = proc.res /\ proc'.at = "commit"
  BY <1>1 DEF StoreInv, Typed, Fields, Same, Setting
<1>4. Fields' /\ Refusals'
  BY <1>1, <1>3 DEF StoreInv, Typed, Fields, Labels, Refusals, Setting
<1>5. Calls'
  <2>1. Top' = Top /\ Outer' = Outer /\ TopOwn' = TopOwn
    BY <1>3 DEF Top, Outer, TopOwn
  <2> QED BY <1>1, <1>3, <2>1 DEF StoreInv, Calls, Setting
<1>6. ASSUME InTransaction
      PROVE  Others(T) = Others(db) /\ Mixed' /\ SettledSoFar' /\ InList' /\ InGroups'
  <2>1. /\ Others(T) = Others(db) /\ Mixed' /\ Top' = Top /\ Outer' = Outer
        /\ \A w : Settled(w)' = Settled(w) /\ Done(w)' = Done(w)
        /\ \A w, p : Is(w, p)' = Is(w, p) /\ New(w, p)' = New(w, p)
    BY <1>1, <1>2, <1>3, <1>6, RowsStay
  <2>2. SettledSoFar /\ InList /\ InGroups
    BY <1>6 DEF StoreInv, Halfway
  <2>3. SettledSoFar'
    BY <1>1, <1>3, <2>1, <2>2, WorkSeen, <1>2 DEF SettledSoFar, Same
  <2>4. T.groups = NewGroups(db, proc.build, proc.plist) /\ Len(proc.frames) = 1
    BY <1>1, <2>2 DEF StoreInv, Calls, InGroups
  <2>5. InGroups'
    BY <1>1, <1>3, <2>4, WorkSeen, <1>2 DEF InGroups, Same
  <2>6. InList'
    BY <1>3 DEF InList
  <2> QED BY <2>1, <2>3, <2>5, <2>6
<1> QED BY <1>1, <1>2, <1>3, <1>4, <1>5, <1>6, WorkStep

LEMMA SetPropRefusedStep ==
    ASSUME StoreInv, SetPropRefused
    PROVE  StoreInv'
<1>1. /\ proc' = [proc EXCEPT !.at = "groups", !.res = -1] /\ proc.at = "set"
      /\ \E p \in Top.props : ~Accepted(p, TopOwn[p])
      /\ UNCHANGED <<budget, nested>> /\ UNCHANGED sqlite
  BY DEF SetPropRefused, At, TopOwn
<1>2. Within(T)
  BY <1>1, NothingSent DEF StoreInv, Typed
<1>3. Same /\ proc'.frames = proc.frames /\ proc'.res = -1 /\ proc'.at = "groups"
  BY <1>1 DEF StoreInv, Typed, Fields, Same, Setting
<1>4. ~Acceptable(proc.owner, proc.plist)
  <2>1. /\ Top.plist # NotADictionary /\ Top.owner \in Given(proc.owner, proc.plist)
        /\ ListFor(proc.owner, proc.plist, Top.owner) = TopOwn
    BY <1>3, NotRefused, RunningCall DEF StoreInv, Same
  <2>2. Top.props \subseteq DOMAIN TopOwn
    BY <1>3, <2>1, OneOrTwo DEF StoreInv, Same, Calls, FrameOf, TopOwn
  <2> QED BY <1>1, <2>1, <2>2 DEF Acceptable
<1>5. Fields' /\ Refusals'
  BY <1>1, <1>3, <1>4 DEF StoreInv, Typed, Fields, Labels, Refusals, Setting, Same
<1>6. Calls'
  <2>1. Top' = Top /\ Outer' = Outer /\ TopOwn' = TopOwn
    BY <1>3 DEF Top, Outer, TopOwn
  <2> QED BY <1>1, <1>3, <2>1 DEF StoreInv, Calls, Setting
<1>7. ASSUME InTransaction
      PROVE  Others(T) = Others(db) /\ Mixed' /\ SettledSoFar' /\ InList' /\ InGroups'
  <2>1. Others(T) = Others(db) /\ Mixed'
    BY <1>1, <1>2, <1>3, <1>7, RowsStay
  <2>2. InGroups
    BY <1>7 DEF StoreInv, Halfway
  <2>3. SettledSoFar' /\ InList'
    BY <1>3 DEF SettledSoFar, InList
  <2>4. InGroups'
    BY <1>1, <1>3, <2>2, WorkSeen, <1>2 DEF InGroups, Same
  <2> QED BY <2>1, <2>3, <2>4
<1> QED BY <1>1, <1>2, <1>3, <1>5, <1>6, <1>7, WorkStep

(* Where the rows of the owner that is worked on change.                   *)
LEMMA DoneElsewhere ==
    ASSUME StoreInv, proc.at \in Setting, NEW w, Done(w)
    PROVE  w # Top.owner
<1>1. CASE Len(proc.frames) = 1
  BY <1>1, OuterCall DEF StoreInv, Done, Calls, Storable
<1>2. CASE Len(proc.frames) = 2
  BY <1>2 DEF Done
<1> QED BY <1>1, <1>2, OneOrTwo DEF StoreInv

LEMMA RowsElsewhere ==
    ASSUME StoreInv, InTransaction, Same, NEW t, Within(t),
           Top'.owner = Top.owner, Len(proc'.frames) = Len(proc.frames),
           Outer'.projects = Outer.projects,
           \A w, q : w # Top.owner => OldRows(t, proc.build, w, q) = OldRows(T, proc.build, w, q),
           proc'.at \notin {"projects", "groups", "members", "commit"}, proc'.res = proc.res
    PROVE  SettledSoFar'
<1>1. \A w, q : w # Top.owner => Is(w, q)' = Is(w, q) /\ New(w, q)' = New(w, q)
  BY WorkSeen DEF Is
<1>2. \A w : w # Top.owner => Settled(w)' = Settled(w)
  BY <1>1 DEF Settled
<1>3. \A w : Done(w)' = Done(w)
  BY DEF Done, Same
<1>4. SettledSoFar
  BY DEF StoreInv, Halfway
<1>5. Len(proc.frames) = 2 => proc.owner # Top.owner
  BY NotRefused, RunningCall DEF Same, StoreInv
<1>6. \A w : Done(w) => w # Top.owner
  BY DoneElsewhere DEF Same
<1> QED BY <1>2, <1>3, <1>4, <1>5, <1>6, WorkSeen DEF SettledSoFar, Same

LEMMA TopReplaced ==
    ASSUME Calls, proc.at \in Setting, NEW g, proc'.frames = [proc.frames EXCEPT ![1] = g]
    PROVE  /\ Len(proc'.frames) = Len(proc.frames)
           /\ Top' = g
           /\ Len(proc.frames) = 1 => proc'.frames = <<g>> /\ Outer' = g
           /\ Len(proc.frames) = 2 => proc'.frames = <<g, Outer>> /\ Outer' = Outer
<1>1. CASE Len(proc.frames) = 1
  <2>1. proc'.frames = <<g>>
    BY <1>1, OneOrTwo
  <2> QED BY <1>1, <2>1 DEF Top, Outer
<1>2. CASE Len(proc.frames) = 2
  <2>1. proc'.frames = <<g, Outer>>
    BY <1>2, OneOrTwo
  <2> QED BY <1>2, <2>1 DEF Top, Outer
<1> QED BY <1>1, <1>2, OneOrTwo

(* A call that has begun sends no statement outside a transaction.         *)
LEMMA Sending ==
    ASSUME StoreInv, proc.at \in Setting \ {"set_plist"}
    PROVE  tx[Me] # "auto"
<1>1. Len(proc.frames) \in {1, 2}
  BY OneOrTwo DEF StoreInv
<1>2. Depth # 0
  BY <1>1 DEF Depth
<1> QED BY <1>2 DEF StoreInv, Counted

LEMMA PropDeleted ==
    ASSUME StoreInv, Top.owner \in Given(proc.owner, proc.plist), NEW p, NEW t,
           t = WithoutProp(T, proc.build, Top.owner, p)
    PROVE  /\ t \in AllTables /\ t.groups = T.groups
           /\ \A w, q : OldRows(t, proc.build, w, q) = IF w = Top.owner /\ q = p THEN {}
                                                       ELSE OldRows(T, proc.build, w, q)
           /\ Others(t) = Others(T)
<1> DEFINE u == T
           G == Given(proc.owner, proc.plist)
           b == proc.build
           o == Top.owner
<1>1. u \in AllTables /\ o \in G /\ t = WithoutProp(u, b, o, p)
  BY TablesTyped DEF StoreInv, Typed
<1> HIDE DEF u, G, b, o
<1>2. /\ t.properties = {r \in u.properties : ~(r[1] = b /\ r[2] = o /\ r[3] = p)}
      /\ t.groups = u.groups /\ t \in AllTables
  BY <1>1 DEF WithoutProp, AllTables
<1>3. Beyond(t, b, G) = Beyond(u, b, G)
  BY <1>1, <1>2 DEF Beyond
<1>4. \A w, q : OldRows(t, b, w, q) = IF w = o /\ q = p THEN {} ELSE OldRows(u, b, w, q)
  BY <1>2 DEF OldRows
<1> QED BY <1>2, <1>3, <1>4 DEF Others, u, G, b, o

LEMMA FrameKept ==
    ASSUME NEW f, NEW o, NEW plist, FrameOf(f, o, plist), NEW props, NEW projects,
           props \subseteq f.props, projects \subseteq f.projects,
           NEW g, g = [owner |-> f.owner, plist |-> f.plist, props |-> props, projects |-> projects]
    PROVE  FrameOf(g, o, plist)
<1>1. f.owner = o /\ f.plist = plist
  BY DEF FrameOf
<1> QED BY <1>1 DEF FrameOf

LEMMA InsertedAllStep ==
    ASSUME StoreInv, InsertedAll
    PROVE  StoreInv'
<1>1. /\ proc' = [proc EXCEPT !.at = "set"] /\ proc.at = "insert" /\ proc.items = {}
      /\ UNCHANGED <<budget, nested>> /\ UNCHANGED sqlite
  BY DEF InsertedAll, At, Goto
<1>2. Within(T)
  BY <1>1, NothingSent DEF StoreInv, Typed
<1>3. Same /\ proc'.frames = proc.frames /\ proc'.res = proc.res /\ proc'.at = "set"
  BY <1>1 DEF StoreInv, Typed, Fields, Same, Setting
<1>4. Fields' /\ Refusals'
  BY <1>1, <1>3 DEF StoreInv, Typed, Fields, Labels, Refusals, Setting
<1>5. Top' = Top /\ Outer' = Outer /\ TopOwn' = TopOwn
  BY <1>3 DEF Top, Outer, TopOwn
<1>6. Calls'
  BY <1>1, <1>3, <1>5 DEF StoreInv, Calls, Setting
<1>7. ASSUME InTransaction
      PROVE  Others(T) = Others(db) /\ Mixed' /\ SettledSoFar' /\ InList' /\ InGroups'
  <2>1. Others(T) = Others(db) /\ Mixed /\ InList /\ InGroups
    BY <1>7 DEF StoreInv, Halfway
  <2>2. \A w, p : Is(w, p)' = Is(w, p) /\ New(w, p)' = New(w, p) /\ Was(w, p)' = Was(w, p)
    BY <1>2, <1>3, WorkSeen DEF Is
  <2>3. Is(Top.owner, proc.prop) = New(Top.owner, proc.prop)
    BY <1>1, <2>1 DEF InList
  <2>4. Mixed'
    BY <1>1, <1>2, <1>3, <2>1, <2>2, <2>3, WorkSeen DEF Mixed, Inserting
  <2>5. SettledSoFar'
    BY <1>1, <1>2, <1>3, <1>5, <1>7, RowsElsewhere
  <2>6. InList'
    BY <1>1, <1>3, <1>5, <2>1, <2>2, <2>3 DEF InList, Inserting
  <2>7. InGroups'
    BY <1>1, <1>3, <2>1, WorkSeen, <1>2 DEF InGroups, Same
  <2> QED BY <2>1, <2>4, <2>5, <2>6, <2>7
<1> QED BY <1>1, <1>2, <1>3, <1>4, <1>6, <1>7, WorkStep

LEMMA DeletePropStep ==
    ASSUME StoreInv, DeleteProp
    PROVE  StoreInv'
<1>1. PICK p \in proc.doomed :
         /\ Write(Me, WithoutProp(T, proc.build, Top.owner, p))
         /\ proc' = [proc EXCEPT !.doomed = @ \ {p}]
  BY DEF DeleteProp
<1>2. proc.at = "delete" /\ UNCHANGED <<budget, nested>>
  BY DEF DeleteProp, At
<1> DEFINE t == WithoutProp(T, proc.build, Top.owner, p)
<1>3. /\ Same /\ proc'.frames = proc.frames /\ proc'.res = proc.res /\ proc'.at = "delete"
      /\ proc'.doomed = proc.doomed \ {p}
  BY <1>1, <1>2 DEF StoreInv, Typed, Fields, Same, Setting
<1>4. /\ Top.owner \in Given(proc.owner, proc.plist)
      /\ ListFor(proc.owner, proc.plist, Top.owner) = TopOwn /\ p \notin DOMAIN TopOwn
  BY <1>2, <1>3, NotRefused, RunningCall DEF StoreInv, Same, Calls
<1>5. /\ t \in AllTables /\ t.groups = T.groups
      /\ \A w, q : OldRows(t, proc.build, w, q) = IF w = Top.owner /\ q = p THEN {}
                                                  ELSE OldRows(T, proc.build, w, q)
      /\ Others(t) = Others(T)
  BY <1>4, PropDeleted
<1> HIDE DEF t
<1>6. Within(t)
  <2>1. tx[Me] # "auto"
    BY <1>3, Sending DEF Same
  <2> QED BY <1>1, <1>5, <2>1, WriteWithin DEF StoreInv, Typed, t
<1>7. Fields' /\ Refusals'
  BY <1>1, <1>2, <1>3 DEF StoreInv, Typed, Fields, Labels, Refusals, Setting
<1>8. Top' = Top /\ Outer' = Outer /\ TopOwn' = TopOwn
  BY <1>3 DEF Top, Outer, TopOwn
<1>9. Calls'
  <2>1. proc'.doomed \cap DOMAIN TopOwn = {}
    BY <1>2, <1>3 DEF StoreInv, Calls
  <2> QED BY <1>2, <1>3, <1>8, <2>1 DEF StoreInv, Calls, Setting, Same
<1>10. ASSUME InTransaction
       PROVE  Others(t) = Others(db) /\ Mixed' /\ SettledSoFar' /\ InList' /\ InGroups'
  <2>1. Others(T) = Others(db) /\ Mixed /\ InList /\ InGroups
    BY <1>10 DEF StoreInv, Halfway
  <2>2. \A w, q : /\ Is(w, q)' = IF w = Top.owner /\ q = p THEN {} ELSE Is(w, q)
                  /\ New(w, q)' = New(w, q) /\ Was(w, q)' = Was(w, q)
    BY <1>3, <1>5, <1>6, WorkSeen DEF Is
  <2>3. New(Top.owner, p) = {}
    BY <1>4 DEF New, NewRows
  <2>4. Mixed'
    BY <1>2, <1>3, <1>6, <2>1, <2>2, <2>3, WorkSeen DEF Mixed, Inserting
  <2>5. SettledSoFar'
    BY <1>3, <1>5, <1>6, <1>8, <1>10, RowsElsewhere
  <2>6. InList'
    BY <1>2, <1>3, <1>8, <2>1, <2>2 DEF InList
  <2>7. InGroups'
    BY <1>2, <1>3, <1>5, <2>1, WorkSeen, <1>6 DEF InGroups, Same
  <2> QED BY <1>5, <2>1, <2>4, <2>5, <2>6, <2>7
<1> QED BY <1>2, <1>3, <1>6, <1>7, <1>9, <1>10, WorkStep

LEMMA SetPropStep ==
    ASSUME StoreInv, SetProp
    PROVE  StoreInv'
<1>1. PICK p \in Top.props :
         /\ Accepted(p, TopOwn[p])
         /\ Write(Me, WithoutProp(T, proc.build, Top.owner, p))
         /\ proc' = [InTop("props", Top.props \ {p}) EXCEPT
                       !.at = "insert", !.prop = p, !.items = TopOwn[p].items]
  BY DEF SetProp, TopOwn
<1>2. proc.at = "set" /\ UNCHANGED <<budget, nested>>
  BY DEF SetProp, At
<1> DEFINE t == WithoutProp(T, proc.build, Top.owner, p)
           g == [Top EXCEPT !.props = @ \ {p}]
<1>3. /\ Same /\ proc'.res = proc.res /\ proc'.at = "insert"
      /\ proc'.prop = p /\ proc'.items = TopOwn[p].items
      /\ proc'.frames = [proc.frames EXCEPT ![1] = g]
  <2>1. proc.frames[1] = Top
    BY <1>2, OneOrTwo DEF StoreInv, Setting
  <2> QED BY <1>1, <1>2, <2>1 DEF StoreInv, Typed, Fields, Same, Setting, InTop
<1>4. /\ Top.owner \in Given(proc.owner, proc.plist) /\ Top.plist # NotADictionary
      /\ ListFor(proc.owner, proc.plist, Top.owner) = TopOwn
      /\ Top.props \subseteq DOMAIN TopOwn
      /\ g = [owner |-> Top.owner, plist |-> Top.plist, props |-> Top.props \ {p},
              projects |-> Top.projects]
  <2>1. Top.plist # NotADictionary
    BY <1>2, <1>3, NotRefused DEF StoreInv, Same
  <2>2. /\ Top.owner \in Given(proc.owner, proc.plist)
        /\ ListFor(proc.owner, proc.plist, Top.owner) = TopOwn
    BY <1>3, <2>1, RunningCall DEF StoreInv, Same
  <2>3. FrameOf(Top, Top.owner, Top.plist)
    BY <1>3 DEF StoreInv, Calls, Same, FrameOf
  <2> QED BY <2>1, <2>2, <2>3 DEF FrameOf, TopOwn
<1>5. /\ t \in AllTables /\ t.groups = T.groups
      /\ \A w, q : OldRows(t, proc.build, w, q) = IF w = Top.owner /\ q = p THEN {}
                                                  ELSE OldRows(T, proc.build, w, q)
      /\ Others(t) = Others(T)
  BY <1>4, PropDeleted
<1> HIDE DEF t, g
<1>6. Within(t)
  <2>1. tx[Me] # "auto"
    BY <1>3, Sending DEF Same
  <2> QED BY <1>1, <1>5, <2>1, WriteWithin DEF StoreInv, Typed, t
<1>7. Fields' /\ Refusals'
  BY <1>1, <1>2, <1>3 DEF StoreInv, Typed, Fields, Labels, Refusals, Setting, InTop, Same
<1>8. /\ Len(proc'.frames) = Len(proc.frames) /\ Top' = g
      /\ Len(proc.frames) = 1 => proc'.frames = <<g>> /\ Outer' = g
      /\ Len(proc.frames) = 2 => proc'.frames = <<g, Outer>> /\ Outer' = Outer
  BY <1>3, TopReplaced DEF StoreInv, Same
<1>9. /\ Top'.owner = Top.owner /\ Top'.plist = Top.plist /\ Top'.projects = Top.projects
      /\ Top'.props = Top.props \ {p} /\ TopOwn' = TopOwn
      /\ Outer'.projects = Outer.projects
  <2>1. Len(proc.frames) = 1 => Outer = Top
    BY <1>3, OneOrTwo DEF StoreInv, Same
  <2>2. Len(proc.frames) \in {1, 2}
    BY <1>3, OneOrTwo DEF StoreInv, Same
  <2> QED BY <1>4, <1>8, <2>1, <2>2 DEF TopOwn
<1>10. Calls'
  <2>1. /\ Storable(proc'.owner, proc'.plist) /\ proc'.at = "insert"
        /\ proc'.prop \in DOMAIN TopOwn \ Top'.props /\ Accepted(proc'.prop, TopOwn[proc'.prop])
        /\ proc'.items \subseteq TopOwn[proc'.prop].items
    BY <1>1, <1>3, <1>4, <1>9 DEF StoreInv, Calls, Same
  <2>2. \/ proc'.frames = <<Top'>> /\ FrameOf(Top', proc.owner, proc.plist)
        \/ /\ proc'.frames = <<Top', Outer>> /\ Outer' = Outer
           /\ FrameOf(Outer, proc.owner, proc.plist) /\ Outer.props = {}
           /\ Top.owner \in DOMAIN proc.plist.projects
           /\ FrameOf(Top', Top.owner, proc.plist.projects[Top.owner])
           /\ Top.projects = {}
    <3>1. CASE proc.frames = <<Top>> /\ FrameOf(Top, proc.owner, proc.plist)
      <4>1. Len(proc.frames) = 1
        BY <3>1
      <4>2. FrameOf(Top', proc.owner, proc.plist)
        BY <1>4, <1>8, <3>1, FrameKept
      <4> QED BY <1>8, <4>1, <4>2
    <3>2. CASE /\ proc.frames = <<Top, Outer>>
               /\ FrameOf(Outer, proc.owner, proc.plist) /\ Outer.props = {}
               /\ Top.owner \in DOMAIN proc.plist.projects
               /\ FrameOf(Top, Top.owner, proc.plist.projects[Top.owner])
               /\ Top.projects = {}
      <4>1. Len(proc.frames) = 2
        BY <3>2
      <4>2. FrameOf(Top', Top.owner, proc.plist.projects[Top.owner])
        BY <1>4, <1>8, <3>2, FrameKept
      <4> QED BY <1>8, <3>2, <4>1, <4>2
    <3> QED BY <1>3, <3>1, <3>2 DEF StoreInv, Calls, Same
  <2> QED BY <1>3, <1>4, <1>9, <2>1, <2>2 DEF Calls, Same
<1>11. ASSUME InTransaction
       PROVE  Others(t) = Others(db) /\ Mixed' /\ SettledSoFar' /\ InList' /\ InGroups'
  <2>1. Others(T) = Others(db) /\ Mixed /\ InList /\ InGroups
    BY <1>11 DEF StoreInv, Halfway
  <2>2. \A w, q : /\ Is(w, q)' = IF w = Top.owner /\ q = p THEN {} ELSE Is(w, q)
                  /\ New(w, q)' = New(w, q) /\ Was(w, q)' = Was(w, q)
    BY <1>3, <1>5, <1>6, WorkSeen DEF Is
  <2>3. \A w, q : Inserting(w, q)' = (w = Top.owner /\ q = p)
    BY <1>3, <1>9 DEF Inserting
  <2>4. Mixed'
    BY <1>2, <1>3, <1>6, <2>1, <2>2, <2>3, WorkSeen DEF Mixed, Inserting
  <2>5. SettledSoFar'
    BY <1>3, <1>5, <1>6, <1>8, <1>9, <1>11, RowsElsewhere
  <2>6. New(Top.owner, p) = {RowOf(proc.build, Top.owner, p, item) : item \in TopOwn[p].items}
    BY <1>4 DEF New, NewRows
  <2>7. \A q \in DOMAIN PropType \ Top'.props :
           Inserting(Top.owner, q)' \/ Is(Top.owner, q)' = New(Top.owner, q)'
    BY <1>2, <1>9, <2>1, <2>2, <2>3 DEF InList, Inserting
  <2>8. InList'
    BY <1>3, <1>9, <2>2, <2>6, <2>7 DEF InList, Same
  <2>9. InGroups'
    BY <1>2, <1>3, <1>5, <1>8, <2>1, WorkSeen, <1>6 DEF InGroups, Same
  <2> QED BY <1>5, <2>1, <2>4, <2>5, <2>8, <2>9
<1> QED BY <1>2, <1>3, <1>6, <1>7, <1>8, <1>10, <1>11, WorkStep

LEMMA ItemAdded ==
    ASSUME StoreInv, proc.at = "insert", NEW item \in proc.items, NEW t,
           t = [T EXCEPT !.properties = @ \cup {RowOf(proc.build, Top.owner, proc.prop, item)}]
    PROVE  /\ t \in AllTables /\ t.groups = T.groups
           /\ \A w, q : OldRows(t, proc.build, w, q) =
                IF w = Top.owner /\ q = proc.prop
                THEN OldRows(T, proc.build, w, q)
                       \cup {RowOf(proc.build, Top.owner, proc.prop, item)}
                ELSE OldRows(T, proc.build, w, q)
           /\ Others(t) = Others(T)
<1> DEFINE u == T
           G == Given(proc.owner, proc.plist)
           b == proc.build
           o == Top.owner
           p == proc.prop
           row == RowOf(proc.build, Top.owner, proc.prop, item)
<1>1. /\ Top.owner \in Owners /\ Top.owner \in G /\ IsOwnList(TopOwn, Props)
      /\ p \in DOMAIN TopOwn /\ p \in DOMAIN PropType /\ proc.build \in Builds
      /\ item \in TopOwn[p].items
  BY NotRefused, RunningCall DEF StoreInv, Calls, Typed, Setting, Accepted
<1>2. Fits(p, PropType[p], item)
  <2>1. Fits(p, TopOwn[p].type, item)
    BY <1>1 DEF IsOwnList
  <2>2. TopOwn[p].type = PropType[p]
    BY DEF StoreInv, Calls, Accepted
  <2> QED BY <2>1, <2>2
<1>3. row \in Rows /\ row[1] = b /\ row[2] = o /\ row[3] = p
  BY <1>1, <1>2, RowsMade
<1>4. u \in AllTables /\ o \in G /\ t = [u EXCEPT !.properties = @ \cup {row}]
  BY <1>1, TablesTyped DEF StoreInv, Typed
<1> HIDE DEF u, G, b, o, p, row
<1>5. t.properties = u.properties \cup {row} /\ t.groups = u.groups /\ t \in AllTables
  <2>1. u = [properties |-> u.properties, groups |-> u.groups]
    BY <1>4 DEF AllTables
  <2>2. t = [properties |-> u.properties \cup {row}, groups |-> u.groups]
    BY <1>4, <2>1
  <2>3. u.properties \cup {row} \subseteq Rows
    BY <1>3, <1>4 DEF AllTables
  <2> QED BY <1>4, <2>2, <2>3 DEF AllTables
<1>6. Beyond(t, b, G) = Beyond(u, b, G)
  BY <1>3, <1>4, <1>5 DEF Beyond
<1>7. \A w, q : OldRows(t, b, w, q) = IF w = o /\ q = p THEN OldRows(u, b, w, q) \cup {row}
                                      ELSE OldRows(u, b, w, q)
  BY <1>3, <1>5 DEF OldRows
<1> QED BY <1>5, <1>6, <1>7 DEF Others, u, G, b, o, p, row

LEMMA InsertItemStep ==
    ASSUME StoreInv, InsertItem
    PROVE  StoreInv'
<1> DEFINE row(item) == RowOf(proc.build, Top.owner, proc.prop, item)
<1>1. PICK item \in proc.items :
         /\ Write(Me, [T EXCEPT !.properties = @ \cup {row(item)}])
         /\ proc' = [proc EXCEPT !.items = @ \ {item}]
  BY DEF InsertItem
<1>2. proc.at = "insert" /\ UNCHANGED <<budget, nested>>
  BY DEF InsertItem, At
<1> DEFINE t == [T EXCEPT !.properties = @ \cup {row(item)}]
<1>3. /\ Same /\ proc'.frames = proc.frames /\ proc'.res = proc.res /\ proc'.at = "insert"
      /\ proc'.items = proc.items \ {item} /\ proc'.prop = proc.prop
  BY <1>1, <1>2 DEF StoreInv, Typed, Fields, Same, Setting
<1>4. /\ t \in AllTables /\ t.groups = T.groups
      /\ \A w, q : OldRows(t, proc.build, w, q) =
           IF w = Top.owner /\ q = proc.prop THEN OldRows(T, proc.build, w, q) \cup {row(item)}
           ELSE OldRows(T, proc.build, w, q)
      /\ Others(t) = Others(T)
  BY <1>2, ItemAdded
<1>5. Within(t)
  <2>1. tx[Me] # "auto"
    BY <1>3, Sending DEF Same
  <2> HIDE DEF t
  <2> QED BY <1>1, <1>4, <2>1, WriteWithin DEF StoreInv, Typed, t
<1> HIDE DEF t
<1>6. Fields' /\ Refusals'
  BY <1>1, <1>2, <1>3 DEF StoreInv, Typed, Fields, Labels, Refusals, Setting
<1>7. Top' = Top /\ Outer' = Outer /\ TopOwn' = TopOwn
  BY <1>3 DEF Top, Outer, TopOwn
<1>8. Calls'
  <2>1. proc'.items \subseteq TopOwn[proc'.prop].items
    BY <1>2, <1>3 DEF StoreInv, Calls
  <2> QED BY <1>2, <1>3, <1>7, <2>1 DEF StoreInv, Calls, Setting, Same
<1>9. ASSUME InTransaction
      PROVE  Others(t) = Others(db) /\ Mixed' /\ SettledSoFar' /\ InList' /\ InGroups'
  <2>1. Others(T) = Others(db) /\ Mixed /\ InList /\ InGroups
    BY <1>9 DEF StoreInv, Halfway
  <2>2. \A w, q : /\ Is(w, q)' = IF w = Top.owner /\ q = proc.prop THEN Is(w, q) \cup {row(item)}
                                  ELSE Is(w, q)
                  /\ New(w, q)' = New(w, q) /\ Was(w, q)' = Was(w, q)
    BY <1>3, <1>4, <1>5, WorkSeen DEF Is
  <2>3. \A w, q : Inserting(w, q)' = (w = Top.owner /\ q = proc.prop)
    BY <1>3, <1>7 DEF Inserting
  <2>4. Mixed'
    BY <1>2, <1>3, <1>5, <2>1, <2>2, <2>3, WorkSeen DEF Mixed, Inserting
  <2>5. SettledSoFar'
    BY <1>3, <1>4, <1>5, <1>7, <1>9, RowsElsewhere
  <2>6. \A q \in DOMAIN PropType \ Top.props :
           Inserting(Top.owner, q)' \/ Is(Top.owner, q)' = New(Top.owner, q)'
    BY <1>2, <2>1, <2>2, <2>3 DEF InList, Inserting
  <2>7. Is(Top.owner, proc.prop)' \cup {row(it) : it \in proc'.items} = New(Top.owner, proc.prop)'
    <3>1. Is(Top.owner, proc.prop) \cup {row(it) : it \in proc.items} = New(Top.owner, proc.prop)
      BY <1>2, <2>1 DEF InList
    <3>2. {row(it) : it \in proc.items} = {row(it) : it \in proc'.items} \cup {row(item)}
      <4> HIDE DEF row
      <4> QED BY <1>3
    <3>3. /\ Is(Top.owner, proc.prop)' = Is(Top.owner, proc.prop) \cup {row(item)}
          /\ New(Top.owner, proc.prop)' = New(Top.owner, proc.prop)
      BY <1>3, <1>7, <2>2
    <3> DEFINE left == {row(it) : it \in proc'.items}
               is == Is(Top.owner, proc.prop)
               new == New(Top.owner, proc.prop)
    <3>4. is \cup (left \cup {row(item)}) = new
      BY <3>1, <3>2
    <3>5. (is \cup {row(item)}) \cup left = new
      <4> HIDE DEF left, is, new, row
      <4> QED BY <3>4
    <3> QED BY <3>3, <3>5
  <2>8. InList'
    BY <1>3, <1>7, <2>6, <2>7 DEF InList, Same
  <2>9. InGroups'
    BY <1>2, <1>3, <1>4, <2>1, WorkSeen, <1>5 DEF InGroups, Same
  <2> QED BY <1>4, <2>1, <2>4, <2>5, <2>8, <2>9
<1> QED BY <1>2, <1>3, <1>5, <1>6, <1>8, <1>9, WorkStep

LEMMA DeleteGroupsStep ==
    ASSUME StoreInv, DeleteGroups
    PROVE  StoreInv'
<1> DEFINE t == [T EXCEPT !.groups = {r \in @ : r[1] # proc.build}]
           members == UNION {{<<g, m>> : m \in Top.plist.groups[g]} : g \in DOMAIN Top.plist.groups}
<1>1. /\ Write(Me, t)
      /\ proc' = [proc EXCEPT !.at = "members", !.items = members]
      /\ proc.at = "groups" /\ UNCHANGED <<budget, nested>> /\ Top.plist.groups # None
  BY DEF DeleteGroups, At
<1>2. /\ Same /\ proc'.frames = proc.frames /\ proc'.res = proc.res /\ proc'.at = "members"
      /\ proc'.items = members
  BY <1>1 DEF StoreInv, Typed, Fields, Same, Setting
<1>3. Len(proc.frames) = 1 /\ Top.plist = proc.plist
  <2>1. ASSUME Len(proc.frames) = 2
        PROVE  FALSE
    <3>1. /\ Top.plist = proc.plist.projects[Top.owner] /\ Top.owner \in DOMAIN proc.plist.projects
          /\ Storable(proc.owner, proc.plist)
      BY <1>2, <2>1 DEF StoreInv, Calls, Same, FrameOf
    <3>2. Top.plist = OfProject(Top.plist.own)
      BY <1>2, <3>1, NotRefused DEF StoreInv, Same, Storable, IsList
    <3> QED BY <1>1, <3>2 DEF OfProject, Plist
  <2> QED BY <1>2, <2>1, OneOrTwo, OuterCall DEF StoreInv, Same
<1>4. t \in AllTables /\ t.properties = T.properties /\ t.groups = {r \in T.groups : r[1] # proc.build}
  <2>1. T \in AllTables
    BY TablesTyped DEF StoreInv, Typed
  <2> QED BY <2>1 DEF AllTables
<1>5. Within(t)
  <2>1. tx[Me] # "auto"
    BY <1>2, Sending DEF Same
  <2> HIDE DEF t
  <2> QED BY <1>1, <1>4, <2>1, WriteWithin DEF StoreInv, Typed
<1> HIDE DEF t
<1>6. Fields' /\ Refusals'
  BY <1>1, <1>2 DEF StoreInv, Typed, Fields, Labels, Refusals, Setting
<1>7. Top' = Top /\ Outer' = Outer /\ TopOwn' = TopOwn
  BY <1>2 DEF Top, Outer, TopOwn
<1>8. Calls'
  <2>1. members \subseteq Groups \X Projects
    <3>1. /\ DOMAIN Top.plist.groups \subseteq Groups
          /\ \A g \in DOMAIN Top.plist.groups : Top.plist.groups[g] \subseteq Projects
      BY <1>1, <1>2, <1>3 DEF StoreInv, Calls, Same, Storable, IsList
    <3> QED BY <3>1
  <2> QED BY <1>1, <1>2, <1>3, <1>7, <2>1 DEF StoreInv, Calls, Setting, Same
<1>9. ASSUME InTransaction
      PROVE  Others(t) = Others(db) /\ Mixed' /\ SettledSoFar' /\ InList' /\ InGroups'
  <2>1. /\ Others(t) = Others(db) /\ Mixed' /\ Top' = Top /\ Outer' = Outer
        /\ \A w : Settled(w)' = Settled(w) /\ Done(w)' = Done(w)
    BY <1>1, <1>2, <1>4, <1>5, <1>9, PropertiesStay
  <2>2. SettledSoFar /\ InGroups
    BY <1>9 DEF StoreInv, Halfway
  <2>3. SettledSoFar'
    BY <1>1, <1>2, <2>1, <2>2, WorkSeen, <1>5 DEF SettledSoFar, Same
  <2>4. T.groups = db.groups
    BY <1>1, <2>2 DEF InGroups
  <2>5. t.groups \cup {<<proc.build, item[1], item[2]>> : item \in members}
        = NewGroups(db, proc.build, proc.plist)
    <3>1. {<<proc.build, item[1], item[2]>> : item \in members}
          = UNION {{<<proc.build, g, m>> : m \in proc.plist.groups[g]} : g \in DOMAIN proc.plist.groups}
      <4> DEFINE groups == proc.plist.groups
                 rows == UNION {{<<proc.build, g, m>> : m \in groups[g]} : g \in DOMAIN groups}
      <4>1. members = UNION {{<<g, m>> : m \in groups[g]} : g \in DOMAIN groups}
        BY <1>3
      <4> HIDE DEF members, groups
      <4>2. \A item \in members : \E g \in DOMAIN groups : \E m \in groups[g] : item = <<g, m>>
        BY <4>1
      <4>3. \A g \in DOMAIN groups : \A m \in groups[g] : <<g, m>> \in members
        BY <4>1
      <4>4. ASSUME NEW item \in members
            PROVE  <<proc.build, item[1], item[2]>> \in rows
        BY <4>2
      <4>5. ASSUME NEW row \in rows
            PROVE  row \in {<<proc.build, item[1], item[2]>> : item \in members}
        <5>1. PICK g \in DOMAIN groups : \E m \in groups[g] : row = <<proc.build, g, m>>
          OBVIOUS
        <5>2. PICK m \in groups[g] : row = <<proc.build, g, m>>
          BY <5>1
        <5>3. <<g, m>> \in members /\ row = <<proc.build, <<g, m>>[1], <<g, m>>[2]>>
          BY <4>3, <5>2
        <5> QED BY <5>3
      <4> HIDE DEF rows
      <4>6. {<<proc.build, item[1], item[2]>> : item \in members} = rows
        BY <4>4, <4>5
      <4> QED BY <4>6 DEF rows, groups
    <3> QED BY <1>1, <1>3, <1>4, <2>4, <3>1 DEF NewGroups
  <2>6. InGroups'
    BY <1>2, <1>3, <1>5, <2>5, WorkSeen DEF InGroups, Same
  <2>7. InList'
    BY <1>2 DEF InList
  <2> QED BY <2>1, <2>3, <2>6, <2>7
<1> QED BY <1>1, <1>2, <1>5, <1>6, <1>8, <1>9, WorkStep

LEMMA InsertMemberStep ==
    ASSUME StoreInv, InsertMember
    PROVE  StoreInv'
<1>1. PICK item \in proc.items :
         /\ Write(Me, [T EXCEPT !.groups = @ \cup {<<proc.build, item[1], item[2]>>}])
         /\ proc' = [proc EXCEPT !.items = @ \ {item}]
  BY DEF InsertMember
<1>2. proc.at = "members" /\ UNCHANGED <<budget, nested>>
  BY DEF InsertMember, At
<1> DEFINE row == <<proc.build, item[1], item[2]>>
           t == [T EXCEPT !.groups = @ \cup {row}]
<1>3. /\ Same /\ proc'.frames = proc.frames /\ proc'.res = proc.res /\ proc'.at = "members"
      /\ proc'.items = proc.items \ {item}
  BY <1>1, <1>2 DEF StoreInv, Typed, Fields, Same, Setting
<1>4. Len(proc.frames) = 1 /\ item \in Groups \X Projects /\ proc.build \in Builds
  BY <1>2 DEF StoreInv, Calls, Typed
<1>5. t \in AllTables /\ t.properties = T.properties /\ t.groups = T.groups \cup {row}
  <2>1. T \in AllTables
    BY TablesTyped DEF StoreInv, Typed
  <2>2. row \in Builds \X Groups \X Projects
    BY <1>4
  <2> QED BY <2>1, <2>2 DEF AllTables
<1>6. Within(t)
  <2>1. tx[Me] # "auto"
    BY <1>3, Sending DEF Same
  <2>2. Write(Me, t)
    BY <1>1
  <2> HIDE DEF t
  <2> QED BY <1>5, <2>1, <2>2, WriteWithin DEF StoreInv, Typed
<1> HIDE DEF t
<1>7. Fields' /\ Refusals'
  BY <1>1, <1>2, <1>3 DEF StoreInv, Typed, Fields, Labels, Refusals, Setting
<1>8. Top' = Top /\ Outer' = Outer /\ TopOwn' = TopOwn
  BY <1>3 DEF Top, Outer, TopOwn
<1>9. Calls'
  <2>1. proc'.items \subseteq Groups \X Projects
    BY <1>2, <1>3 DEF StoreInv, Calls
  <2> QED BY <1>2, <1>3, <1>4, <1>8, <2>1 DEF StoreInv, Calls, Setting, Same
<1>10. ASSUME InTransaction
       PROVE  Others(t) = Others(db) /\ Mixed' /\ SettledSoFar' /\ InList' /\ InGroups'
  <2>1. /\ Others(t) = Others(db) /\ Mixed' /\ Top' = Top /\ Outer' = Outer
        /\ \A w : Settled(w)' = Settled(w) /\ Done(w)' = Done(w)
    BY <1>2, <1>3, <1>5, <1>6, <1>10, PropertiesStay
  <2>2. SettledSoFar /\ InGroups
    BY <1>10 DEF StoreInv, Halfway
  <2>3. SettledSoFar'
    BY <1>2, <1>3, <2>1, <2>2, WorkSeen, <1>6 DEF SettledSoFar, Same
  <2>4. t.groups \cup {<<proc.build, it[1], it[2]>> : it \in proc'.items}
        = NewGroups(db, proc.build, proc.plist)
    BY <1>2, <1>3, <1>5, <2>2 DEF InGroups
  <2>5. InGroups'
    BY <1>3, <1>4, <1>6, <2>4, WorkSeen DEF InGroups, Same
  <2>6. InList'
    BY <1>3 DEF InList
  <2> QED BY <2>1, <2>3, <2>5, <2>6
<1> QED BY <1>2, <1>3, <1>6, <1>7, <1>9, <1>10, WorkStep

(* A step that begins or ends a call.                                      *)
Kept == /\ proc'.cmd = proc.cmd /\ proc'.build = proc.build
        /\ proc'.owner = proc.owner /\ proc'.plist = proc.plist

LEMMA RowsKept ==
    ASSUME Kept, T' = T, db' = db
    PROVE  /\ \A w, p : /\ Is(w, p)' = Is(w, p)
                        /\ Was(w, p)' = Was(w, p)
                        /\ New(w, p)' = New(w, p)
           /\ \A w : Settled(w)' = Settled(w)
           /\ Given(proc.owner, proc.plist)' = Given(proc.owner, proc.plist)
           /\ Others(T)' = Others(T) /\ Others(db)' = Others(db)
           /\ NewGroups(db, proc.build, proc.plist)' = NewGroups(db, proc.build, proc.plist)
           /\ (proc.at # "insert" /\ proc'.at # "insert" => Mixed' = Mixed)
<1>1. /\ \A w, p : Is(w, p)' = Is(w, p) /\ Was(w, p)' = Was(w, p) /\ New(w, p)' = New(w, p)
      /\ Given(proc.owner, proc.plist)' = Given(proc.owner, proc.plist)
      /\ Others(T)' = Others(T) /\ Others(db)' = Others(db)
      /\ NewGroups(db, proc.build, proc.plist)' = NewGroups(db, proc.build, proc.plist)
  BY DEF Kept, Is, Was, New, Others
<1>2. \A w : Settled(w)' = Settled(w)
  BY <1>1 DEF Settled
<1>3. proc.at # "insert" /\ proc'.at # "insert" => Mixed' = Mixed
  BY <1>1 DEF Mixed, Inserting
<1> QED BY <1>1, <1>2, <1>3

LEMMA CallStep ==
    ASSUME StoreInv, Kept, Locked', db' = db, budget' = budget,
           proc.at \in Setting, proc'.at \in Setting,
           Fields', Calls', Counted', Halfway', Refusals'
    PROVE  StoreInv'
<1>1. Typed'
  BY DEF StoreInv, Typed, Kept, Setting
<1>2. Editing' /\ Merging'
  BY CommandStays DEF StoreInv, Kept
<1> QED BY <1>1, <1>2 DEF StoreInv

LEMMA SetProjectStep ==
    ASSUME StoreInv, SetProject
    PROVE  StoreInv'
<1> DEFINE callee(o) == IF Top.plist.projects[o] = NotADictionary
                        THEN [owner |-> o, plist |-> Top.plist.projects[o],
                              props |-> {}, projects |-> {}]
                        ELSE Frame(o, Top.plist.projects[o])
           caller(o) == [Top EXCEPT !.projects = @ \ {o}]
<1>1. PICK o \in Top.projects :
         proc' = [InTop("projects", Top.projects \ {o})
                    EXCEPT !.at = "set_plist", !.frames = <<callee(o)>> \o @]
  BY DEF SetProject
<1>2. proc.at = "projects" /\ UNCHANGED <<budget, nested>> /\ UNCHANGED sqlite
  BY DEF SetProject, At
<1>3. Len(proc.frames) = 1 /\ proc.frames = <<Top>> /\ Outer = Top
  <2>1. Len(proc.frames) # 2
    BY <1>1, <1>2 DEF StoreInv, Calls, Setting
  <2> QED BY <1>2, <2>1, OneOrTwo DEF StoreInv, Setting
<1>4. /\ Top.owner = proc.owner /\ Top.plist = proc.plist /\ FrameOf(Top, proc.owner, proc.plist)
      /\ Storable(proc.owner, proc.plist) /\ proc.plist # NotADictionary
  BY <1>2, <1>3, OuterCall DEF StoreInv, Calls, Setting
<1>5. /\ o \in DOMAIN proc.plist.projects
      /\ caller(o) = [owner |-> proc.owner, plist |-> proc.plist, props |-> Top.props,
                      projects |-> Top.projects \ {o}]
      /\ FrameOf(caller(o), proc.owner, proc.plist)
  <2>1. caller(o) = [owner |-> proc.owner, plist |-> proc.plist, props |-> Top.props,
                     projects |-> Top.projects \ {o}]
    BY <1>4 DEF FrameOf
  <2> QED BY <1>1, <1>4, <2>1, FrameKept DEF FrameOf
<1>6. /\ callee(o).owner = o /\ callee(o).plist = proc.plist.projects[o]
      /\ FrameOf(callee(o), o, proc.plist.projects[o]) /\ callee(o).projects = {}
      /\ callee(o).plist # NotADictionary => callee(o).props = DOMAIN callee(o).plist.own
  <2>1. CASE proc.plist.projects[o] = NotADictionary
    BY <1>4, <2>1 DEF FrameOf
  <2>2. CASE proc.plist.projects[o] # NotADictionary
    <3>1. proc.plist.projects[o] = OfProject(proc.plist.projects[o].own)
      BY <1>4, <1>5, <2>2 DEF Storable, IsList
    <3>2. DOMAIN proc.plist.projects[o].projects = {}
      BY <3>1 DEF OfProject, Plist, NoEntries
    <3> QED BY <1>4, <2>2, <3>2 DEF Frame, FrameOf
  <2> QED BY <2>1, <2>2
<1> HIDE DEF callee, caller
<1>7. /\ proc'.at = "set_plist" /\ Kept /\ proc'.res = proc.res
      /\ proc'.frames = <<callee(o), caller(o)>>
  <2>1. [proc.frames EXCEPT ![1] = caller(o)] = <<caller(o)>>
    BY <1>3
  <2>2. proc'.frames = <<callee(o)>> \o [proc.frames EXCEPT ![1] = caller(o)]
    <3>1. proc.frames[1] = Top
      BY <1>3
    <3>2. proc'.frames = <<callee(o)>> \o [proc.frames EXCEPT ![1].projects = Top.projects \ {o}]
      BY <1>1 DEF InTop, StoreInv, Typed, Fields
    <3>3. [proc.frames EXCEPT ![1].projects = Top.projects \ {o}]
          = [proc.frames EXCEPT ![1] = caller(o)]
      BY <3>1 DEF caller
    <3> QED BY <3>2, <3>3
  <2>3. proc'.frames = <<callee(o), caller(o)>>
    BY <2>1, <2>2, TwoCalls
  <2> QED BY <1>1, <2>3 DEF Kept, InTop, StoreInv, Typed, Fields
<1>8. Top' = callee(o) /\ Outer' = caller(o) /\ Len(proc'.frames) = 2
  BY <1>7 DEF Top, Outer
<1>9. Fields' /\ Refusals'
  BY <1>1, <1>2, <1>7 DEF StoreInv, Typed, Fields, Labels, Refusals, Setting, InTop, Kept
<1>10. Calls'
  <2>1. /\ FrameOf(Outer', proc'.owner, proc'.plist) /\ Outer'.props = {}
        /\ Top'.owner \in DOMAIN proc'.plist.projects
        /\ FrameOf(Top', Top'.owner, proc'.plist.projects[Top'.owner])
        /\ Top'.projects = {} /\ Storable(proc'.owner, proc'.plist)
        /\ Top'.plist # NotADictionary => Top'.props = DOMAIN TopOwn'
    <3>1. Top.props = {}
      BY <1>2 DEF StoreInv, Calls
    <3>2. Outer'.props = {}
      BY <1>5, <1>8, <3>1
    <3> QED BY <1>4, <1>5, <1>6, <1>7, <1>8, <3>2 DEF Kept, TopOwn
  <2> QED BY <1>7, <1>8, <2>1 DEF Calls, Setting
<1>11. Locked' /\ T' = T /\ db' = db /\ tx' = tx
  BY <1>2, NothingSent DEF StoreInv, Typed, Within, sqlite
<1>12. Counted'
  <2>1. Depth' = Depth
    BY <1>2, <1>3, <1>7, <1>8 DEF Depth, Setting
  <2> QED BY <1>2, <1>7, <1>11, <2>1 DEF StoreInv, Counted, Setting
<1>13. Halfway'
  <2> SUFFICES ASSUME InTransaction
               PROVE  Others(T)' = Others(db)' /\ Mixed' /\ SettledSoFar' /\ InList' /\ InGroups'
    BY <1>11 DEF Halfway, InTransaction
  <2>1. Others(T) = Others(db) /\ Mixed /\ SettledSoFar /\ InGroups
    BY DEF StoreInv, Halfway
  <2>2. Others(T)' = Others(db)' /\ Mixed'
    BY <1>2, <1>7, <1>11, <2>1, RowsKept
  <2>3. Done(o) <=> FALSE
    BY <1>1, <1>3 DEF Done
  <2>4. ASSUME NEW w \in DOMAIN proc.plist.projects, Done(w)'
        PROVE  Done(w)
    BY <1>3, <1>5, <1>6, <1>7, <1>8, <2>4 DEF Done, Kept
  <2>5. SettledSoFar'
    BY <1>2, <1>3, <1>4, <1>7, <1>8, <1>11, <2>1, <2>4, RowsKept DEF SettledSoFar, Kept
  <2>6. InList' /\ InGroups'
    BY <1>2, <1>7, <1>11, <2>1 DEF InList, InGroups
  <2> QED BY <2>2, <2>5, <2>6
<1> QED BY <1>2, <1>7, <1>9, <1>10, <1>11, <1>12, <1>13, CallStep DEF Setting

LEMMA SetPlistRefusedStep ==
    ASSUME StoreInv, SetPlistRefused
    PROVE  StoreInv'
<1>1. /\ proc.at = "set_plist" /\ Top.plist = NotADictionary /\ proc' = Return(-1)
      /\ UNCHANGED <<budget, nested>> /\ UNCHANGED sqlite
  BY DEF SetPlistRefused, At
<1>2. Len(proc.frames) = 2 /\ proc.frames = <<Top, Outer>>
  BY <1>1, OneOrTwo, OuterCall DEF StoreInv, Setting
<1>3. /\ FrameOf(Outer, proc.owner, proc.plist) /\ Top.owner \in DOMAIN proc.plist.projects
      /\ proc.plist.projects[Top.owner] = NotADictionary
      /\ Storable(proc.owner, proc.plist)
  BY <1>1, <1>2 DEF StoreInv, Calls, Setting, FrameOf
<1>4. /\ proc'.at = "groups" /\ Kept /\ proc'.res = -1 /\ proc'.frames = <<Outer>>
      /\ Fields'
  <2>1. Tail(proc.frames) = <<Outer>> /\ <<Outer>> # <<>>
    BY <1>2
  <2>2. proc' = [proc EXCEPT !.at = "groups", !.res = -1, !.frames = <<Outer>>]
    <3>1. \A up : Tail(proc.frames) = up /\ up # <<>> =>
             Return(-1) = [proc EXCEPT !.at = IF -1 = 0 THEN "projects" ELSE "groups",
                                       !.res = -1, !.frames = up]
      BY DEF Return
    <3>2. Return(-1) = [proc EXCEPT !.at = IF -1 = 0 THEN "projects" ELSE "groups",
                                    !.res = -1, !.frames = <<Outer>>]
      BY <2>1, <3>1
    <3>3. -1 # 0
      OBVIOUS
    <3> QED BY <1>1, <3>2, <3>3
  <2>3. Fields
    BY DEF StoreInv, Typed
  <2> QED BY <2>2, <2>3 DEF Kept, Fields, Labels
<1>5. Top' = Outer /\ Outer' = Outer /\ Len(proc'.frames) = 1
  BY <1>4 DEF Top, Outer
<1>6. Refusals'
  BY <1>3, <1>4 DEF Refusals, Acceptable, Kept
<1>7. Calls'
  BY <1>3, <1>4, <1>5 DEF Calls, Setting, Kept
<1>8. Locked' /\ T' = T /\ db' = db /\ tx' = tx
  BY <1>1, NothingSent DEF StoreInv, Typed, Within, sqlite
<1>9. Counted'
  <2>1. Depth' = Depth
    BY <1>1, <1>2, <1>4, <1>5 DEF Depth, Setting
  <2> QED BY <1>1, <1>4, <1>8, <2>1 DEF StoreInv, Counted, Setting
<1>10. Halfway'
  <2> SUFFICES ASSUME InTransaction
               PROVE  Others(T)' = Others(db)' /\ Mixed' /\ SettledSoFar' /\ InList' /\ InGroups'
    BY <1>8 DEF Halfway, InTransaction
  <2>1. Others(T) = Others(db) /\ Mixed /\ InGroups
    BY DEF StoreInv, Halfway
  <2>2. Others(T)' = Others(db)' /\ Mixed'
    BY <1>1, <1>4, <1>8, <2>1, RowsKept
  <2>3. SettledSoFar' /\ InList' /\ InGroups'
    BY <1>1, <1>4, <1>8, <2>1 DEF SettledSoFar, InList, InGroups
  <2> QED BY <2>2, <2>3
<1> QED BY <1>1, <1>4, <1>6, <1>7, <1>8, <1>9, <1>10, CallStep DEF Setting

LEMMA BeginTransactionStep ==
    ASSUME StoreInv, BeginTransaction
    PROVE  StoreInv'
<1>1. /\ proc.at = "set_plist" /\ Top.plist # NotADictionary /\ nested' = nested + 1
      /\ IF nested = 0 THEN Begin(Me) ELSE UNCHANGED sqlite
      /\ proc' = [proc EXCEPT !.at = "names"] /\ budget' = budget
  BY DEF BeginTransaction, At, Goto
<1>2. /\ proc'.at = "names" /\ Kept /\ proc'.res = proc.res /\ proc'.frames = proc.frames
      /\ Top' = Top /\ Outer' = Outer /\ TopOwn' = TopOwn
  BY <1>1 DEF Kept, Top, Outer, TopOwn, StoreInv, Typed, Fields
<1>3. Fields' /\ Refusals'
  BY <1>1, <1>2 DEF StoreInv, Typed, Fields, Labels, Refusals, Setting, Kept
<1>4. Calls'
  BY <1>1, <1>2 DEF StoreInv, Calls, Setting, Kept
<1>5. Len(proc.frames) \in {1, 2}
  BY <1>1, OneOrTwo DEF StoreInv, Setting
<1>6. /\ Depth = Len(proc.frames) - 1 /\ Depth' = Len(proc.frames)
      /\ Depth \in {0, 1} /\ Depth' = Depth + 1 /\ nested' = nested + 1
  BY <1>1, <1>2, <1>5 DEF Depth, Setting
<1>7. CASE nested = 0
  <2>1. Begin(Me) /\ Len(proc.frames) = 1 /\ Outer = Top
    BY <1>1, <1>5, <1>6, <1>7, OneOrTwo DEF StoreInv, Counted, Setting
  <2>2. Locked' /\ db' = db /\ tx'[Me] = "begun" /\ T' = db /\ T = db
    BY <2>1, Begun DEF StoreInv, Typed
  <2>3. Counted'
    BY <1>1, <1>2, <1>5, <1>6, <1>7, <2>1, <2>2 DEF Counted, Modes, Setting
  <2>4. Halfway'
    <3>1. Others(T)' = Others(db)' /\ InGroups'
      BY <1>2, <2>2 DEF InGroups
    <3>2. \A w, p : Is(w, p)' = Was(w, p)'
      BY <2>2 DEF Is, Was
    <3>3. Mixed'
      BY <3>2 DEF Mixed
    <3>4. \A w : ~Done(w)'
      BY <1>1, <1>2, <2>1 DEF StoreInv, Calls, Done, Kept
    <3>5. SettledSoFar' /\ InList'
      BY <1>2, <2>1, <3>4 DEF SettledSoFar, InList
    <3> QED BY <3>1, <3>3, <3>5 DEF Halfway
  <2> QED BY <1>1, <1>2, <1>3, <1>4, <2>2, <2>3, <2>4, CallStep DEF Setting
<1>8. CASE nested # 0
  <2>1. Locked' /\ T' = T /\ db' = db /\ tx' = tx
    BY <1>1, <1>8, NothingSent DEF StoreInv, Typed, Within, sqlite
  <2>2. Counted'
    <3>1. CASE tx[Me] = "pending"
      <4>1. nested = Depth + 1
        BY <1>8, <3>1 DEF StoreInv, Counted
      <4>2. nested' = Depth' + 1 /\ tx'[Me] = "pending"
        BY <1>6, <2>1, <3>1, <4>1
      <4> QED BY <1>2, <4>2 DEF Counted, Setting
    <3>2. CASE tx[Me] # "pending"
      <4>1. nested = Depth /\ Depth # 0 /\ tx[Me] \in Modes \ {"auto", "pending"}
        BY <1>8, <3>2 DEF StoreInv, Counted
      <4>2. nested' = Depth' /\ Depth' # 0
        BY <1>6, <4>1
      <4>3. tx'[Me] \in Modes \ {"auto", "pending"}
        BY <2>1, <4>1
      <4> QED BY <1>2, <4>2, <4>3 DEF Counted, Setting
    <3> QED BY <3>1, <3>2
  <2>3. Halfway'
    <3> SUFFICES ASSUME InTransaction
                 PROVE  Others(T)' = Others(db)' /\ Mixed' /\ SettledSoFar' /\ InList' /\ InGroups'
      BY <2>1 DEF Halfway, InTransaction
    <3>1. Others(T) = Others(db) /\ Mixed /\ SettledSoFar /\ InGroups
      BY DEF StoreInv, Halfway
    <3>2. Others(T)' = Others(db)' /\ Mixed'
      BY <1>1, <1>2, <2>1, <3>1, RowsKept
    <3>3. SettledSoFar'
      <4>1. \A w : Done(w)' = Done(w)
        BY <1>2 DEF Done, Kept
      <4> QED BY <1>1, <1>2, <2>1, <3>1, <4>1, RowsKept DEF SettledSoFar, Kept
    <3>4. InList' /\ InGroups'
      BY <1>1, <1>2, <2>1, <3>1 DEF InList, InGroups
    <3> QED BY <3>2, <3>3, <3>4
  <2> QED BY <1>1, <1>2, <1>3, <1>4, <2>1, <2>2, <2>3, CallStep DEF Setting
<1> QED BY <1>7, <1>8

(* The last call returns.                                                  *)
LEMMA LastReturn ==
    ASSUME StoreInv, proc.at \in Setting, Len(proc.frames) = 1, NEW res \in {-1, 0, 1},
           proc' = Return(res)
    PROVE  /\ proc'.frames = <<>> /\ proc'.res = res /\ Kept
           /\ proc'.at = IF proc.cmd = "edit" /\ res # 0 THEN "invalid" ELSE "exit"
           /\ Fields' /\ Calls' /\ Refusals' /\ Depth' = 0
<1>1. proc.frames = <<Top>>
  BY OneOrTwo DEF StoreInv
<1>2. proc' = [proc EXCEPT !.at = IF proc.cmd = "edit" /\ res # 0 THEN "invalid" ELSE "exit",
                           !.res = res, !.frames = <<>>]
  BY <1>1 DEF Return
<1>3. /\ proc'.frames = <<>> /\ proc'.res = res /\ Kept /\ Fields'
      /\ proc'.at = IF proc.cmd = "edit" /\ res # 0 THEN "invalid" ELSE "exit"
  <2>1. Fields
    BY DEF StoreInv, Typed
  <2>2. /\ proc'.frames = <<>> /\ proc'.res = res /\ Kept
        /\ proc'.at = IF proc.cmd = "edit" /\ res # 0 THEN "invalid" ELSE "exit"
    BY <1>2, <2>1 DEF Kept, Fields
  <2>3. Fields'
    BY <1>2, <2>1, <2>2 DEF Fields, Labels
  <2> QED BY <2>2, <2>3
<1> QED BY <1>3 DEF Calls, Refusals, Setting, Depth

LEMMA BeginFailsStep ==
    ASSUME StoreInv, BeginFails
    PROVE  StoreInv'
<1>1. /\ proc.at = "set_plist" /\ nested = 0 /\ tx[Me] # "auto" /\ nested' = 1
      /\ proc' = Return(1) /\ UNCHANGED sqlite /\ budget' = budget
  BY DEF BeginFails, At
<1>2. Len(proc.frames) = 1 /\ tx[Me] = "pending"
  <2>1. Len(proc.frames) \in {1, 2}
    BY <1>1, OneOrTwo DEF StoreInv, Setting
  <2>2. Depth = Len(proc.frames) - 1
    BY <1>1 DEF Setting, Depth
  <2>3. Depth \in {0, 1}
    BY <2>1, <2>2
  <2>4. nested = 0 /\ tx[Me] # "auto" /\ Counted
    BY <1>1 DEF StoreInv
  <2>5. Depth = 0 /\ tx[Me] = "pending"
    BY <2>3, <2>4 DEF Counted
  <2> QED BY <2>1, <2>2, <2>5
<1>3. /\ proc'.frames = <<>> /\ proc'.res = 1 /\ Kept
      /\ proc'.at = IF proc.cmd = "edit" THEN "invalid" ELSE "exit"
      /\ Fields' /\ Calls' /\ Refusals' /\ Depth' = 0
  BY <1>1, <1>2, LastReturn DEF Setting
<1>4. Locked' /\ tx' = tx
  BY <1>1, NothingSent DEF StoreInv, Typed, Within, sqlite
<1>5. Typed'
  BY <1>1, <1>3, <1>4 DEF StoreInv, Typed, Kept, Setting
<1>6. Counted' /\ Halfway'
  BY <1>1, <1>2, <1>3, <1>4 DEF Counted, Halfway, InTransaction, Setting
<1>7. Editing' /\ Merging'
  BY <1>1, <1>3 DEF StoreInv, Editing, Merging, Calls, Kept, Setting
<1> QED BY <1>3, <1>5, <1>6, <1>7 DEF StoreInv

----------------------------------------------------------------------------
(* COMMIT *)

LEMMA StoredIs ==
    ASSUME NEW t, NEW u \in AllTables, NEW b, NEW o, NEW plist,
           Beyond(u, b, Given(o, plist)) = Beyond(t, b, Given(o, plist)),
           \A w \in Given(o, plist), p \in DOMAIN PropType :
              OldRows(u, b, w, p) = NewRows(b, o, plist, w, p),
           u.groups = NewGroups(t, b, plist)
    PROVE  u = Expected(t, b, o, plist)
<1> DEFINE G == Given(o, plist)
           new == UNION {NewRows(b, o, plist, w, p) : w \in G, p \in DOMAIN PropType}
<1>1. ASSUME NEW r \in u.properties, r \notin Beyond(t, b, G)
      PROVE  r \in new
  <2>1. r[1] = b /\ r[2] \in G
    BY <1>1 DEF Beyond
  <2>2. r[3] \in DOMAIN PropType
    BY DEF AllTables, Rows
  <2>3. r \in OldRows(u, b, r[2], r[3])
    BY <2>1 DEF OldRows
  <2>4. r \in NewRows(b, o, plist, r[2], r[3])
    BY <2>1, <2>2, <2>3
  <2> QED BY <2>1, <2>2, <2>4
<1>2. ASSUME NEW r \in new
      PROVE  r \in u.properties
  <2>1. PICK w \in G : \E p \in DOMAIN PropType : r \in NewRows(b, o, plist, w, p)
    OBVIOUS
  <2>2. PICK p \in DOMAIN PropType : r \in NewRows(b, o, plist, w, p)
    BY <2>1
  <2>3. r \in OldRows(u, b, w, p)
    BY <2>2
  <2> QED BY <2>3 DEF OldRows
<1> HIDE DEF new
<1>3. u.properties = Beyond(t, b, G) \cup new
  <2>1. Beyond(t, b, G) \subseteq u.properties
    BY DEF Beyond
  <2> QED BY <1>1, <1>2, <2>1
<1>4. u = [properties |-> u.properties, groups |-> u.groups]
  BY DEF AllTables
<1> QED BY <1>3, <1>4 DEF Expected, Beyond, new

LEMMA CommitReady ==
    ASSUME StoreInv, InTransaction, proc.at = "commit", Len(proc.frames) = 1
    PROVE  /\ T \in AllTables
           /\ Others(T) = Others(db)
           /\ T.groups = NewGroups(db, proc.build, proc.plist)
           /\ \A w \in Given(proc.owner, proc.plist), p \in DOMAIN PropType :
                Is(w, p) = Was(w, p) \/ Is(w, p) = New(w, p)
           /\ proc.res = 0 => \A w \in Given(proc.owner, proc.plist) : Settled(w)
<1>1. Others(T) = Others(db) /\ Mixed /\ SettledSoFar /\ InGroups
  BY DEF StoreInv, Halfway
<1>2. T \in AllTables
  BY TablesTyped DEF StoreInv, Typed
<1>3. Top.owner = proc.owner /\ Outer = Top
  BY OneOrTwo, OuterCall DEF StoreInv, Setting
<1>4. ASSUME proc.res = 0, NEW w \in Given(proc.owner, proc.plist)
      PROVE  Settled(w)
  <2>1. CASE w = proc.owner
    BY <1>1, <1>3, <1>4, <2>1 DEF SettledSoFar
  <2>2. CASE w # proc.owner
    <3>1. w \in DOMAIN proc.plist.projects /\ Top.projects = {}
      BY <1>1, <1>4, <2>2 DEF Given, SettledSoFar
    <3>2. Done(w)
      BY <1>3, <3>1 DEF Done
    <3> QED BY <1>1, <1>4, <3>1, <3>2 DEF SettledSoFar
  <2> QED BY <2>1, <2>2
<1> QED BY <1>1, <1>2, <1>4 DEF Mixed, Inserting, InGroups

LEMMA WholeAtCommit ==
    ASSUME StoreInv, InTransaction, proc.at = "commit", Len(proc.frames) = 1, proc.res = 0
    PROVE  /\ T = Expected(db, proc.build, proc.owner, proc.plist)
           /\ T = Expected(T, proc.build, proc.owner, proc.plist)
<1> DEFINE t == T
           d == db
           b == proc.build
           o == proc.owner
           plist == proc.plist
<1>1. /\ t \in AllTables
      /\ Beyond(t, b, Given(o, plist)) = Beyond(d, b, Given(o, plist))
      /\ t.groups = NewGroups(d, b, plist)
      /\ \A w \in Given(o, plist), p \in DOMAIN PropType :
              OldRows(t, b, w, p) = NewRows(b, o, plist, w, p)
  BY CommitReady DEF Others, Settled, Is, New
<1> HIDE DEF t, d, b, o, plist
<1>2. t = Expected(d, b, o, plist)
  BY <1>1, StoredIs
<1>3. t.groups = NewGroups(t, b, plist)
  <2>1. CASE plist.groups = None
    BY <2>1 DEF NewGroups
  <2>2. CASE plist.groups # None
    <3> DEFINE added == UNION {{<<b, g, m>> : m \in plist.groups[g]} : g \in DOMAIN plist.groups}
    <3>1. \A r \in added : r[1] = b
      OBVIOUS
    <3>2. t.groups = {r \in d.groups : r[1] # b} \cup added
      BY <1>1, <2>2 DEF NewGroups
    <3>3. t.groups = {r \in t.groups : r[1] # b} \cup added
      <4> HIDE DEF added
      <4> QED BY <3>1, <3>2
    <3> QED BY <2>2, <3>3 DEF NewGroups
  <2> QED BY <2>1, <2>2
<1>4. t = Expected(t, b, o, plist)
  BY <1>1, <1>3, StoredIs
<1> QED BY <1>2, <1>4 DEF t, d, b, o, plist

LEMMA CommitInner ==
    ASSUME StoreInv, CommitTransaction, Len(proc.frames) = 2
    PROVE  StoreInv' /\ db' = db
<1>1. /\ proc.at = "commit" /\ nested' = nested - 1 /\ proc' = Return(proc.res)
      /\ IF nested = 1 THEN Commit(Me) ELSE UNCHANGED sqlite
      /\ budget' = budget
  BY DEF CommitTransaction, At
<1>2. proc.frames = <<Top, Outer>> /\ Depth = 2
  BY <1>1, OneOrTwo DEF StoreInv, Setting, Depth
<1>3. (nested = 2 \/ (nested = 3 /\ tx[Me] = "pending")) /\ UNCHANGED sqlite
  BY <1>1, <1>2 DEF StoreInv, Counted
<1>4. /\ FrameOf(Outer, proc.owner, proc.plist) /\ Outer.props = {}
      /\ Top.owner \in DOMAIN proc.plist.projects
      /\ Storable(proc.owner, proc.plist) /\ Top.plist # NotADictionary
  BY <1>1, <1>2 DEF StoreInv, Calls, Setting
<1>5. /\ proc'.at = IF proc.res = 0 THEN "projects" ELSE "groups"
      /\ Kept /\ proc'.res = proc.res /\ proc'.frames = <<Outer>> /\ Fields'
  <2>1. Tail(proc.frames) = <<Outer>> /\ <<Outer>> # <<>>
    BY <1>2
  <2>2. proc' = [proc EXCEPT !.at = IF proc.res = 0 THEN "projects" ELSE "groups",
                             !.res = proc.res, !.frames = <<Outer>>]
    BY <1>1, <2>1 DEF Return
  <2>3. Fields
    BY DEF StoreInv, Typed
  <2>4. /\ proc'.at = IF proc.res = 0 THEN "projects" ELSE "groups"
        /\ Kept /\ proc'.res = proc.res /\ proc'.frames = <<Outer>>
    BY <2>2, <2>3 DEF Kept, Fields
  <2>5. proc'.at \in Labels
    BY <2>4 DEF Labels
  <2>6. Fields'
    BY <2>2, <2>3, <2>4, <2>5 DEF Fields
  <2> QED BY <2>4, <2>6
<1>6. Top' = Outer /\ Outer' = Outer /\ Len(proc'.frames) = 1
  BY <1>5 DEF Top, Outer
<1>7. Refusals'
  BY <1>1, <1>5 DEF StoreInv, Refusals, Setting, Kept
<1>8. Calls'
  BY <1>4, <1>5, <1>6 DEF Calls, Setting, Kept
<1>9. Locked' /\ T' = T /\ db' = db /\ tx' = tx
  BY <1>3, NothingSent DEF StoreInv, Typed, Within, sqlite
<1>10. Counted'
  <2>1. Depth' = 1
    BY <1>5, <1>6 DEF Depth, Setting
  <2>2. CASE nested = 2
    <3>1. nested' = 1 /\ tx'[Me] \in Modes \ {"auto", "pending"}
      BY <1>1, <1>2, <1>9, <2>2 DEF StoreInv, Counted
    <3> QED BY <1>5, <2>1, <3>1 DEF Counted, Setting
  <2>3. CASE nested = 3 /\ tx[Me] = "pending"
    <3>1. nested' = 2 /\ tx'[Me] = "pending"
      BY <1>1, <1>9, <2>3
    <3> QED BY <1>5, <2>1, <3>1 DEF Counted, Setting
  <2> QED BY <1>3, <2>2, <2>3
<1>11. Halfway'
  <2> SUFFICES ASSUME InTransaction
               PROVE  Others(T)' = Others(db)' /\ Mixed' /\ SettledSoFar' /\ InList' /\ InGroups'
    BY <1>9 DEF Halfway, InTransaction
  <2>1. Others(T) = Others(db) /\ Mixed /\ SettledSoFar /\ InGroups
    BY DEF StoreInv, Halfway
  <2>2. Others(T)' = Others(db)' /\ Mixed'
    BY <1>1, <1>5, <1>9, <2>1, RowsKept
  <2>3. InList' /\ InGroups'
    BY <1>1, <1>2, <1>5, <1>9, <2>1 DEF InList, InGroups
  <2>4. SettledSoFar'
    <3> SUFFICES ASSUME proc.res = 0
                 PROVE  SettledSoFar'
      BY <1>5 DEF SettledSoFar
    <3>1. Outer.owner = proc.owner /\ Settled(proc.owner) /\ Settled(Top.owner)
      BY <1>1, <1>2, <2>1, OneOrTwo DEF SettledSoFar, StoreInv, Setting
    <3>2. Top.owner \in Given(proc.owner, proc.plist)
      BY <1>1, <1>4, RunningCall DEF StoreInv, Setting
    <3>3. ASSUME NEW w \in DOMAIN proc.plist.projects, Done(w)'
          PROVE  w \in Given(proc.owner, proc.plist) /\ Settled(w)
      <4>1. CASE w = Top.owner
        BY <3>1, <3>2, <4>1
      <4>2. CASE w # Top.owner
        <5>1. Done(w)
          BY <1>6, <3>3, <4>2 DEF Done
        <5> QED BY <2>1, <5>1 DEF SettledSoFar
      <4> QED BY <4>1, <4>2
    <3> QED BY <1>5, <1>6, <1>9, <3>1, <3>3, RowsKept DEF SettledSoFar, Kept
  <2> QED BY <2>2, <2>3, <2>4
<1> QED BY <1>1, <1>5, <1>7, <1>8, <1>9, <1>10, <1>11, CallStep DEF Setting

(* The last COMMIT.                                                        *)
LEMMA CommitOuter ==
    ASSUME StoreInv, CommitTransaction, Len(proc.frames) = 1
    PROVE  /\ Locked' /\ Kept /\ proc.at = "commit"
           /\ (nested' = 0 /\ tx'[Me] \in {"auto", "pending"}) \/ (nested' = 1 /\ tx'[Me] = "pending")
           /\ db' = db \/ (tx'[Me] = "auto" /\ db' = T /\ InTransaction)
           /\ tx'[Me] = "auto" => db' = T /\ InTransaction
<1>1. /\ proc.at = "commit" /\ nested' = nested - 1 /\ proc' = Return(proc.res)
      /\ IF nested = 1 THEN Commit(Me) ELSE UNCHANGED sqlite
  BY DEF CommitTransaction, At
<1>2. Depth = 1 /\ proc.res \in {-1, 0, 1}
  BY <1>1 DEF StoreInv, Setting, Depth, Typed, Fields
<1>3. Kept
  BY <1>1, <1>2, LastReturn DEF Setting
<1>4. CASE nested = 1
  <2>1. tx[Me] \in Modes \ {"auto", "pending"} /\ Commit(Me)
    BY <1>1, <1>2, <1>4 DEF StoreInv, Counted
  <2>2. /\ Locked'
        /\ \/ tx'[Me] = "auto" /\ db' = T
           \/ tx'[Me] = "pending" /\ db' = db
    BY <2>1, Committed DEF StoreInv, Typed
  <2> QED BY <1>1, <1>3, <1>4, <2>1, <2>2 DEF InTransaction
<1>5. CASE nested # 1
  <2>1. nested = 2 /\ tx[Me] = "pending"
    BY <1>2, <1>5 DEF StoreInv, Counted
  <2>2. Locked' /\ db' = db /\ tx' = tx
    BY <1>1, <1>5, NothingSent DEF StoreInv, Typed, Within, sqlite
  <2> QED BY <1>1, <1>3, <2>1, <2>2
<1> QED BY <1>4, <1>5

LEMMA CommitTransactionStep ==
    ASSUME StoreInv, CommitTransaction
    PROVE  StoreInv'
<1>1. proc.at = "commit" /\ proc' = Return(proc.res) /\ budget' = budget
  BY DEF CommitTransaction, At
<1>2. CASE Len(proc.frames) = 2
  BY <1>2, CommitInner
<1>3. CASE Len(proc.frames) = 1
  <2>1. proc.res \in {-1, 0, 1}
    BY DEF StoreInv, Typed, Fields
  <2>2. /\ proc'.frames = <<>> /\ proc'.res = proc.res /\ Kept
        /\ proc'.at = IF proc.cmd = "edit" /\ proc.res # 0 THEN "invalid" ELSE "exit"
        /\ Fields' /\ Calls' /\ Refusals' /\ Depth' = 0
    BY <1>1, <1>3, <2>1, LastReturn DEF Setting
  <2>3. /\ Locked'
        /\ (nested' = 0 /\ tx'[Me] \in {"auto", "pending"}) \/ (nested' = 1 /\ tx'[Me] = "pending")
        /\ tx'[Me] = "auto" => db' = T /\ InTransaction
    BY <1>3, CommitOuter
  <2>4. Typed'
    BY <1>1, <2>2, <2>3 DEF StoreInv, Typed, Kept, Setting
  <2>5. Counted' /\ Halfway'
    BY <2>2, <2>3 DEF Counted, Halfway, InTransaction, Setting
  <2>6. Editing'
    <3>1. CASE proc'.at = "exit" /\ proc'.res = 0 /\ tx'[Me] # "pending"
      <4>1. db' = T /\ InTransaction
        BY <2>3, <3>1
      <4>2. T = Expected(T, proc.build, proc.owner, proc.plist)
        BY <1>1, <1>3, <2>2, <3>1, <4>1, WholeAtCommit
      <4> QED BY <2>2, <3>1, <4>1, <4>2 DEF Editing, Kept
    <3>2. CASE ~(proc'.at = "exit" /\ proc'.res = 0 /\ tx'[Me] # "pending")
      BY <1>1, <2>2, <3>2 DEF StoreInv, Editing, Calls, Kept, Setting
    <3> QED BY <3>1, <3>2
  <2>7. Merging'
    BY <2>2 DEF StoreInv, Merging, Kept, Setting
  <2> QED BY <2>2, <2>4, <2>5, <2>6, <2>7 DEF StoreInv
<1> QED BY <1>1, <1>2, <1>3, OneOrTwo DEF StoreInv, Setting

----------------------------------------------------------------------------
(* The lists that are read from the tables. *)

LEMMA OwnRows ==
    ASSUME NEW t \in AllTables, NEW b, NEW o, NEW p
    PROVE  /\ {RowOf(b, o, p, item) : item \in Own(t, b, o, p)} = OldRows(t, b, o, p)
           /\ p \notin PropNames(t, b, o) => Own(t, b, o, p) = {}
           /\ \A item \in Own(t, b, o, p) : Fits(p, PropType[p], item)
<1> DEFINE own == Own(t, b, o, p)
           old == OldRows(t, b, o, p)
<1>1. \A r \in old : /\ r \in Rows /\ r[1] = b /\ r[2] = o /\ r[3] = p
                     /\ r = <<b, o, p, r[4], r[5]>>
  <2> TAKE r \in old
  <2>1. r \in Rows /\ r[1] = b /\ r[2] = o /\ r[3] = p
    BY DEF OldRows, AllTables
  <2>2. r \in Builds \X Owners \X (DOMAIN PropType) \X Keys \X Texts
    BY <2>1 DEF Rows
  <2>3. r = <<r[1], r[2], r[3], r[4], r[5]>>
    BY <2>2
  <2> QED BY <2>1, <2>3
<1>2. own = {<<r[4], r[5]>> : r \in old}
  BY DEF Own, OldRows
<1> HIDE DEF own, old
<1>3. \A r \in old : r = RowOf(b, o, p, <<r[4], r[5]>>)
  BY <1>1 DEF RowOf
<1>4. ASSUME NEW item \in own
      PROVE  RowOf(b, o, p, item) \in old /\ Fits(p, PropType[p], item)
  <2>1. PICK r \in old : item = <<r[4], r[5]>>
    BY <1>2
  <2>2. Fits(r[3], PropType[r[3]], <<r[4], r[5]>>)
    BY <1>1 DEF Rows
  <2> QED BY <1>1, <1>3, <2>1, <2>2
<1>5. {RowOf(b, o, p, item) : item \in own} = old
  BY <1>2, <1>3, <1>4
<1>6. p \notin PropNames(t, b, o) => own = {}
  BY <1>2 DEF PropNames, OldRows, old
<1> QED BY <1>4, <1>5, <1>6 DEF own, old

(* Arrays: what reading one does to the indexes of its elements. *)

LEMMA IndexesFinite ==
           /\ Len(SortedKeys) \in Nat /\ DOMAIN SortedKeys = 1..Len(SortedKeys)
           /\ Indexes = {SortedKeys[x] : x \in 1..Len(SortedKeys)} /\ Indexes \subseteq Keys
           /\ IsFiniteSet(Indexes) /\ Cardinality(Indexes) <= Len(SortedKeys)
<1>1. Len(SortedKeys) \in Nat /\ SortedKeys \in [1..Len(SortedKeys) -> Keys]
  BY KeysAssumption, LenProperties
<1>2. Indexes = {SortedKeys[x] : x \in 1..Len(SortedKeys)}
  BY <1>1 DEF Indexes, Range
<1>3. SortedKeys \in Surjection(1..Len(SortedKeys), Indexes)
  BY <1>1, <1>2 DEF Surjection
<1>4. IsFiniteSet(1..Len(SortedKeys)) /\ Cardinality(1..Len(SortedKeys)) = Len(SortedKeys)
  BY <1>1, FS_Interval
<1>5. IsFiniteSet(Indexes) /\ Cardinality(Indexes) <= Len(SortedKeys)
  BY <1>3, <1>4, FS_Surjection
<1> QED BY <1>1, <1>2, <1>5

LEMMA KeyOrder ==
    ASSUME NEW j \in Indexes, NEW k \in Indexes
    PROVE  /\ ~Before(j, j)
           /\ Before(j, k) => j # k /\ \A i \in Indexes : Before(i, j) => Before(i, k)
           /\ j # k => Before(j, k) \/ Before(k, j)
<1> DEFINE n == Len(SortedKeys)
           s(x) == SortedKeys[x]
<1>1. n \in Nat /\ DOMAIN SortedKeys = 1..n /\ Indexes = {s(x) : x \in 1..n}
  BY IndexesFinite
<1>2. \A x, y \in 1..n : s(x) = s(y) => x = y
  BY <1>1, KeysAssumption
<1>3. \A x, y \in 1..n : Before(s(x), s(y)) <=> x < y
  <2> SUFFICES ASSUME NEW x \in 1..n, NEW y \in 1..n
               PROVE  Before(s(x), s(y)) <=> x < y
    OBVIOUS
  <2>1. Before(s(x), s(y)) => x < y
    <3> SUFFICES ASSUME Before(s(x), s(y))
                 PROVE  x < y
      OBVIOUS
    <3>1. PICK z \in 1..n : s(z) = s(y) /\ \E i \in 1..(z - 1) : s(i) = s(x)
      BY <1>1 DEF Before
    <3>2. PICK i \in 1..(z - 1) : s(i) = s(x)
      BY <3>1
    <3>3. z = y /\ i = x
      BY <1>1, <1>2, <3>1, <3>2
    <3> QED BY <1>1, <3>2, <3>3
  <2>2. x < y => Before(s(x), s(y))
    <3>1. x < y => x \in 1..(y - 1)
      BY <1>1
    <3> QED BY <1>1, <3>1 DEF Before
  <2> QED BY <2>1, <2>2
<1>4. PICK x \in 1..n, y \in 1..n : j = s(x) /\ k = s(y)
  BY <1>1
<1>5. ~Before(j, j) /\ (Before(j, k) <=> x < y) /\ (Before(k, j) <=> y < x)
  BY <1>1, <1>3, <1>4
<1>6. ASSUME Before(j, k), NEW i \in Indexes, Before(i, j)
      PROVE  Before(i, k)
  <2>1. PICK z \in 1..n : i = s(z)
    BY <1>1
  <2>2. z < x /\ x < y
    BY <1>3, <1>4, <1>5, <1>6, <2>1
  <2> QED BY <1>1, <1>3, <1>4, <2>1, <2>2
<1>7. j # k => x # y
  BY <1>4
<1> QED BY <1>1, <1>5, <1>6, <1>7

Smaller(keys, k) == {j \in keys : Before(j, k)}

LEMMA PlaceTyped ==
    ASSUME NEW keys \in SUBSET Indexes, NEW k \in keys
    PROVE  /\ Cardinality(Smaller(keys, k)) \in Nat /\ IsFiniteSet(Smaller(keys, k))
           /\ Place(keys, k) = Text(Cardinality(Smaller(keys, k)))
           /\ Place(keys, k) \in Indexes
<1> DEFINE less == Smaller(keys, k)
           rest == Indexes \ {k}
<1>1. less \subseteq rest
  BY KeyOrder DEF Smaller
<1>2. IsFiniteSet(rest) /\ Cardinality(rest) = Cardinality(Indexes) - 1
  BY IndexesFinite, FS_RemoveElement
<1>3. IsFiniteSet(less) /\ Cardinality(less) <= Cardinality(rest)
  BY <1>1, <1>2, FS_Subset
<1>4. Cardinality(less) \in Nat /\ Cardinality(rest) \in Nat /\ Cardinality(Indexes) \in Nat
  BY <1>2, <1>3, IndexesFinite, FS_CardinalityType
<1>5. Cardinality(less) \in 0..(Len(SortedKeys) - 1)
  BY <1>2, <1>3, <1>4, IndexesFinite
<1>6. Place(keys, k) = Text(Cardinality(less))
  BY DEF Place, Smaller
<1>7. Text(Cardinality(less)) \in Indexes
  <2> HIDE DEF less
  <2> QED BY <1>5, KeysAssumption
<1> QED BY <1>3, <1>4, <1>6, <1>7

LEMMA PlaceInjective ==
    ASSUME NEW keys \in SUBSET Indexes, NEW j \in keys, NEW k \in keys,
           Place(keys, j) = Place(keys, k)
    PROVE  j = k
<1>1. ASSUME NEW x \in keys, NEW y \in keys, Before(x, y)
      PROVE  Place(keys, x) # Place(keys, y)
  <2> DEFINE low  == Smaller(keys, x)
             high == Smaller(keys, y)
  <2>1. low \subseteq high /\ x \in high /\ x \notin low
    BY <1>1, KeyOrder DEF Smaller
  <2>2. /\ IsFiniteSet(high) /\ Cardinality(low) \in Nat /\ Cardinality(high) \in Nat
        /\ Place(keys, x) = Text(Cardinality(low)) /\ Place(keys, y) = Text(Cardinality(high))
    BY PlaceTyped
  <2> HIDE DEF low, high
  <2>3. Cardinality(high) # Cardinality(low)
    BY <2>1, <2>2, FS_Subset
  <2> QED BY <2>2, <2>3 DEF Text
<1> QED BY <1>1, KeyOrder

KeysOf(items) == {item[1] : item \in items}

LEMMA ArrayRead ==
    ASSUME NEW t \in AllTables, NEW b, NEW o, NEW p \in DOMAIN PropType, PropType[p] = "array"
    PROVE  LET own == Own(t, b, o, p) IN
           /\ KeysOf(own) \subseteq Indexes
           /\ \A item \in own : item = <<item[1], item[2]>> /\ item[1] \in KeysOf(own)
           /\ ItemsRead(t, b, o, p) = {<<Place(KeysOf(own), item[1]), item[2]>> : item \in own}
<1> DEFINE own == Own(t, b, o, p)
<1>1. \A item \in own : Fits(p, PropType[p], item)
  BY OwnRows
<1>2. ItemsRead(t, b, o, p) = {<<Place(KeysOf(own), item[1]), item[2]>> : item \in own}
  BY DEF ItemsRead, KeysOf
<1> HIDE DEF own
<1>3. \A item \in own : item = <<item[1], item[2]>> /\ item[1] \in Indexes /\ item[1] \in KeysOf(own)
  BY <1>1 DEF Fits, KeysOf
<1>4. KeysOf(own) \subseteq Indexes
  BY <1>3 DEF KeysOf
<1> QED BY <1>2, <1>3, <1>4 DEF own

LEMMA ItemsFit ==
    ASSUME NEW t \in AllTables, NEW b, NEW o, NEW p \in DOMAIN PropType
    PROVE  /\ \A item \in ItemsRead(t, b, o, p) : Fits(p, PropType[p], item)
           /\ Own(t, b, o, p) = {} <=> ItemsRead(t, b, o, p) = {}
<1> DEFINE own == Own(t, b, o, p)
<1>1. \A item \in own : Fits(p, PropType[p], item)
  BY OwnRows
<1>2. CASE PropType[p] # "array"
  BY <1>1, <1>2 DEF ItemsRead
<1>3. CASE PropType[p] = "array"
  <2>1. /\ KeysOf(own) \subseteq Indexes /\ \A item \in own : item[1] \in KeysOf(own)
        /\ ItemsRead(t, b, o, p) = {<<Place(KeysOf(own), item[1]), item[2]>> : item \in own}
    BY <1>3, ArrayRead
  <2>2. \A item \in own : Place(KeysOf(own), item[1]) \in Indexes
    BY <2>1, PlaceTyped
  <2> HIDE DEF own
  <2>3. ASSUME NEW item \in own
        PROVE  Fits(p, PropType[p], <<Place(KeysOf(own), item[1]), item[2]>>)
    BY <1>1, <2>2, IndexesFinite DEF Fits
  <2>4. own = {} <=> ItemsRead(t, b, o, p) = {}
    BY <2>1
  <2> QED BY <2>1, <2>3, <2>4 DEF own
<1> QED BY <1>2, <1>3

(* A value of an array stays as often in it as it was. *)
LEMMA TimesKept ==
    ASSUME NEW t \in AllTables, NEW u, NEW b, NEW o, NEW p \in DOMAIN PropType,
           PropType[p] = "array", Own(u, b, o, p) = ItemsRead(t, b, o, p), NEW v
    PROVE  Times(t, b, o, p, v) = Times(u, b, o, p, v)
<1> DEFINE own == Own(t, b, o, p)
           read == ItemsRead(t, b, o, p)
           keys == KeysOf(own)
           K == {k \in Indexes : <<k, v>> \in own}
           M == {k \in Indexes : <<k, v>> \in read}
           f == [k \in K |-> Place(keys, k)]
<1>1. /\ keys \subseteq Indexes /\ \A item \in own : item = <<item[1], item[2]>> /\ item[1] \in keys
      /\ read = {<<Place(keys, item[1]), item[2]>> : item \in own}
  BY ArrayRead
<1> HIDE DEF own, read, keys
<1>2. \A k \in K : k \in keys
  BY <1>1 DEF keys, KeysOf
<1>3. \A k \in K : Place(keys, k) \in M
  <2> TAKE k \in K
  <2>1. Place(keys, k) \in Indexes
    BY <1>1, <1>2, PlaceTyped
  <2>2. <<Place(keys, k), v>> \in read
    BY <1>1
  <2> QED BY <2>1, <2>2
<1>4. \A m \in M : \E k \in K : m = Place(keys, k)
  <2> TAKE m \in M
  <2>1. PICK item \in own : <<m, v>> = <<Place(keys, item[1]), item[2]>>
    BY <1>1
  <2>2. m = Place(keys, item[1]) /\ item = <<item[1], v>> /\ item[1] \in Indexes
    BY <1>1, <2>1
  <2> QED BY <2>2
<1>5. \A j, k \in K : Place(keys, j) = Place(keys, k) => j = k
  BY <1>1, <1>2, PlaceInjective
<1> HIDE DEF K, M
<1>6. f \in Bijection(K, M)
  BY <1>3, <1>4, <1>5 DEF Bijection, Injection, Surjection, IsInjective
<1>7. IsFiniteSet(K)
  BY IndexesFinite, FS_Subset DEF K
<1>8. Cardinality(M) = Cardinality(K)
  BY <1>6, <1>7, FS_Bijection DEF ExistsBijection
<1> QED BY <1>8 DEF Times, K, M, own, read

(* Ten elements at most are read in the order they were stored in. *)
LEMMA ShortKept ==
    ASSUME NEW t \in AllTables, NEW b, NEW o, NEW p \in DOMAIN PropType,
           PropType[p] = "array", IsShort(Own(t, b, o, p))
    PROVE  ItemsRead(t, b, o, p) = Own(t, b, o, p)
<1> DEFINE own == Own(t, b, o, p)
           keys == KeysOf(own)
<1>1. /\ keys \subseteq Indexes /\ \A item \in own : item = <<item[1], item[2]>> /\ item[1] \in keys
      /\ ItemsRead(t, b, o, p) = {<<Place(keys, item[1]), item[2]>> : item \in own}
  BY ArrayRead
<1>2. PICK n \in 0..10 : keys = {Text(i) : i \in 0..(n - 1)}
  BY DEF IsShort, KeysOf
<1> HIDE DEF own, keys
<1>3. ASSUME NEW k \in keys
      PROVE  Place(keys, k) = k
  <2>1. PICK i \in 0..(n - 1) : k = Text(i)
    BY <1>2
  <2>2. \A j \in 0..(n - 1) : j \in 0..9 /\ Text(j) \in keys /\ Text(j) \in Indexes
    BY <1>1, <1>2
  <2>3. \A j \in 0..(n - 1) : Before(Text(j), Text(i)) <=> j < i
    BY <2>2, KeysAssumption
  <2>4. Smaller(keys, k) = {Text(j) : j \in 0..(i - 1)}
    <3>1. \A j \in 0..(i - 1) : j \in 0..(n - 1) /\ j < i
      OBVIOUS
    <3>2. \A j \in 0..(n - 1) : j < i => j \in 0..(i - 1)
      OBVIOUS
    <3> QED BY <1>2, <2>1, <2>3, <3>1, <3>2 DEF Smaller
  <2> DEFINE f == [j \in 0..(i - 1) |-> Text(j)]
  <2>5. f \in Bijection(0..(i - 1), Smaller(keys, k))
    BY <2>4 DEF Text, Bijection, Injection, Surjection, IsInjective
  <2>6. IsFiniteSet(0..(i - 1)) /\ Cardinality(0..(i - 1)) = i
    BY FS_Interval
  <2>7. Cardinality(Smaller(keys, k)) = i
    BY <2>5, <2>6, FS_Bijection DEF ExistsBijection
  <2> QED BY <1>1, <2>1, <2>7, PlaceTyped
<1>4. \A item \in own : <<Place(keys, item[1]), item[2]>> = item
  BY <1>1, <1>3
<1>5. ItemsRead(t, b, o, p) = own
  BY <1>1, <1>4
<1> QED BY <1>5 DEF own

(* What storing an array as it was read keeps. *)
LEMMA SameAgain ==
    ASSUME NEW t \in AllTables, NEW u, NEW b, NEW o, NEW p \in DOMAIN PropType,
           Own(u, b, o, p) \in {Own(t, b, o, p), ItemsRead(t, b, o, p)}
    PROVE  SameValue(t, u, b, o, p)
<1>1. CASE Own(u, b, o, p) = Own(t, b, o, p)
  BY <1>1 DEF SameValue, Times
<1>2. CASE Own(u, b, o, p) = ItemsRead(t, b, o, p) /\ PropType[p] # "array"
  BY <1>2 DEF SameValue, ItemsRead
<1>3. CASE Own(u, b, o, p) = ItemsRead(t, b, o, p) /\ PropType[p] = "array"
  BY <1>3, TimesKept, ShortKept DEF SameValue
<1> QED BY <1>1, <1>2, <1>3

LEMMA ProjectPlistRead ==
    ASSUME NEW t \in AllTables, NEW b, NEW o
    PROVE  /\ IsOwnList(ProjectPlist(t, b, o), Props)
           /\ \A p \in DOMAIN ProjectPlist(t, b, o) : Accepted(p, ProjectPlist(t, b, o)[p])
           /\ \A p \in DOMAIN PropType :
                /\ Own(t, b, o, p) # {} => p \in DOMAIN ProjectPlist(t, b, o)
                /\ ReadRows(t, b, o, p) = IF p \in DOMAIN ProjectPlist(t, b, o)
                                          THEN {RowOf(b, o, p, item) :
                                                  item \in ProjectPlist(t, b, o)[p].items}
                                          ELSE {}
<1> DEFINE own == ProjectPlist(t, b, o)
<1>1. /\ DOMAIN own = PropNames(t, b, o) \cap DOMAIN PropType
      /\ \A p \in DOMAIN own : own[p].type = PropType[p] /\ own[p].items = ItemsRead(t, b, o, p)
      /\ own = [p \in DOMAIN own |-> Value(own[p].type, own[p].items)]
  BY DEF ProjectPlist, Value
<1> HIDE DEF own
<1>2. IsOwnList(own, Props)
  BY <1>1, ItemsFit, SortedAssumption DEF IsOwnList, Props
<1>3. \A p \in DOMAIN own : Accepted(p, own[p])
  BY <1>1 DEF Accepted
<1>4. \A p \in DOMAIN PropType : p \notin DOMAIN own => Own(t, b, o, p) = {} /\ ItemsRead(t, b, o, p) = {}
  BY <1>1, OwnRows, ItemsFit
<1>5. \A p \in DOMAIN PropType : ReadRows(t, b, o, p) = IF p \in DOMAIN own
                                                       THEN {RowOf(b, o, p, item) : item \in own[p].items}
                                                       ELSE {}
  BY <1>1, <1>4 DEF ReadRows
<1> QED BY <1>2, <1>3, <1>4, <1>5 DEF own

LEMMA NamesRead ==
    ASSUME NEW t \in AllTables, NEW b, NEW inheritance
    PROVE  OneProjectNames(t, b, inheritance) \subseteq Projects
BY DEF OneProjectNames, ProjectsIn, AllTables, Rows, Owners

LEMMA GroupsRead ==
    ASSUME NEW t \in AllTables, NEW b, NEW plist,
           plist.groups = IF DOMAIN GroupsOf(t, b) = {} THEN None ELSE GroupsOf(t, b)
    PROVE  /\ plist.groups # None => /\ DOMAIN plist.groups \subseteq Groups
                                     /\ plist.groups \in [DOMAIN plist.groups -> SUBSET Projects]
           /\ t.groups = NewGroups(t, b, plist)
<1> SUFFICES ASSUME plist.groups # None
             PROVE  /\ DOMAIN plist.groups \subseteq Groups
                    /\ plist.groups \in [DOMAIN plist.groups -> SUBSET Projects]
                    /\ t.groups = NewGroups(t, b, plist)
  BY DEF NewGroups
<1> DEFINE groups == plist.groups
           rows == UNION {{<<b, g, m>> : m \in groups[g]} : g \in DOMAIN groups}
<1>1. /\ DOMAIN groups = {r[2] : r \in {s \in t.groups : s[1] = b}}
      /\ \A g \in DOMAIN groups : groups[g] = {r[3] : r \in {s \in t.groups : s[1] = b /\ s[2] = g}}
      /\ groups = [g \in DOMAIN groups |-> groups[g]]
  BY DEF GroupsOf
<1>2. t.groups \subseteq Builds \X Groups \X Projects
  BY DEF AllTables
<1> HIDE DEF groups
<1>3. DOMAIN groups \subseteq Groups /\ \A g \in DOMAIN groups : groups[g] \subseteq Projects
  BY <1>1, <1>2
<1>4. groups \in [DOMAIN groups -> SUBSET Projects]
  BY <1>1, <1>3
<1>5. ASSUME NEW r \in t.groups, r[1] = b
      PROVE  r \in rows
  <2>1. r[2] \in DOMAIN groups /\ r[3] \in groups[r[2]] /\ r = <<b, r[2], r[3]>>
    BY <1>1, <1>2, <1>5
  <2> QED BY <2>1
<1>6. ASSUME NEW r \in rows
      PROVE  r \in t.groups /\ r[1] = b
  <2>1. PICK g \in DOMAIN groups : \E m \in groups[g] : r = <<b, g, m>>
    OBVIOUS
  <2>2. PICK m \in groups[g] : r = <<b, g, m>>
    BY <2>1
  <2>3. PICK s \in t.groups : s[1] = b /\ s[2] = g /\ s[3] = m
    BY <1>1, <2>2
  <2>4. s = <<b, g, m>>
    BY <1>2, <2>3
  <2> QED BY <2>2, <2>4
<1>7. t.groups = {r \in t.groups : r[1] # b} \cup rows
  <2> HIDE DEF rows
  <2> QED BY <1>5, <1>6
<1>8. groups # None
  BY DEF groups
<1> QED BY <1>3, <1>4, <1>7, <1>8 DEF NewGroups, groups

(* What the editor is given. *)
Reads(t, b, o, names) == IF o = None THEN BuildPlist(t, b, names)
                         ELSE OfProject(ProjectPlist(t, b, o))

LEMMA PlistReadAll ==
    ASSUME NEW t \in AllTables, NEW b, NEW o \in Owners, NEW names \in SUBSET Projects,
           NEW plist, plist = Reads(t, b, o, names)
    PROVE  /\ Storable(o, plist)
           /\ Acceptable(o, plist)
           /\ \A w \in Given(o, plist) : ListFor(o, plist, w) = ProjectPlist(t, b, w)
           /\ o = None => DOMAIN plist.projects = names
           /\ t.groups = NewGroups(t, b, plist)
           /\ \A w \in Given(o, plist), p \in DOMAIN PropType :
                NewRows(b, o, plist, w, p) = ReadRows(t, b, w, p)
<1> DEFINE P(w) == ProjectPlist(t, b, w)
<1>1. \A w : IsOwnList(P(w), Props) /\ \A p \in DOMAIN P(w) : Accepted(p, P(w)[p])
  BY ProjectPlistRead
<1> HIDE DEF P
<1>2. /\ plist = Plist(plist.own, plist.projects, plist.groups)
      /\ plist.own = P(o)
      /\ plist.projects = [w \in DOMAIN plist.projects |-> OfProject(P(w))]
      /\ DOMAIN plist.projects = IF o = None THEN names ELSE {}
      /\ o # None => plist.groups = None
      /\ o = None => plist.groups = IF DOMAIN GroupsOf(t, b) = {} THEN None ELSE GroupsOf(t, b)
  <2>1. CASE o = None
    BY <2>1 DEF Reads, BuildPlist, Plist, P
  <2>2. CASE o # None
    BY <2>2 DEF Reads, OfProject, Plist, NoEntries, P
  <2> QED BY <2>1, <2>2
<1>3. /\ plist.groups # None => /\ DOMAIN plist.groups \subseteq Groups
                                /\ plist.groups \in [DOMAIN plist.groups -> SUBSET Projects]
      /\ t.groups = NewGroups(t, b, plist)
  <2>1. CASE o = None
    BY <1>2, <2>1, GroupsRead
  <2>2. CASE o # None
    BY <1>2, <2>2 DEF NewGroups
  <2> QED BY <2>1, <2>2
<1>4. \A w \in DOMAIN plist.projects :
        /\ plist.projects[w] = OfProject(P(w)) /\ plist.projects[w].own = P(w)
        /\ plist.projects[w] # NotADictionary
  <2>1. \A own : OfProject(own).own = own /\ OfProject(own) # NotADictionary
    BY DEF OfProject, Plist, NotADictionary
  <2> QED BY <1>2, <2>1
<1>5. o \notin DOMAIN plist.projects
  BY <1>2, NoneAssumption
<1>6. Storable(o, plist)
  BY <1>1, <1>2, <1>3, <1>4, <1>5 DEF Storable, IsList
<1>7. \A w \in Given(o, plist) : ListFor(o, plist, w) = P(w)
  BY <1>2, <1>4 DEF Given, ListFor
<1>8. Acceptable(o, plist)
  BY <1>1, <1>4, <1>7 DEF Acceptable
<1>9. \A w \in Given(o, plist), p \in DOMAIN PropType :
         NewRows(b, o, plist, w, p) = ReadRows(t, b, w, p)
  BY <1>7, ProjectPlistRead DEF NewRows, P
<1> QED BY <1>2, <1>3, <1>6, <1>7, <1>8, <1>9 DEF P

LEMMA PlistRead ==
    ASSUME NEW t \in AllTables, NEW b, NEW o \in Owners, NEW names \in SUBSET Projects,
           NEW plist, plist = Reads(t, b, o, names)
    PROVE  Storable(o, plist) /\ Acceptable(o, plist)
BY PlistReadAll

LEMMA ListsRead ==
    ASSUME NEW t \in AllTables, NEW b, NEW o \in Owners, NEW names \in SUBSET Projects,
           NEW plist, plist = Reads(t, b, o, names)
    PROVE  /\ o = None => DOMAIN plist.projects = names
           /\ t.groups = NewGroups(t, b, plist)
BY PlistReadAll

LEMMA RowsRead ==
    ASSUME NEW t \in AllTables, NEW b, NEW o \in Owners, NEW names \in SUBSET Projects,
           NEW plist, plist = Reads(t, b, o, names), NEW w \in Given(o, plist)
    PROVE  /\ ListFor(o, plist, w) = ProjectPlist(t, b, w)
           /\ \A p \in DOMAIN PropType : NewRows(b, o, plist, w, p) = ReadRows(t, b, w, p)
BY PlistReadAll

(* The rows of every property that has some are those of the list.         *)
LEMMA StoredAsRead ==
    ASSUME NEW t \in AllTables, NEW u \in AllTables, NEW b, NEW G, NEW x, NEW w,
           NEW p \in DOMAIN PropType, Beyond(t, b, G) = Beyond(u, b, G),
           x = b /\ w \in G => OldRows(u, b, w, p) = ReadRows(t, b, w, p)
    PROVE  SameValue(t, u, x, w, p)
<1>1. CASE x = b /\ w \in G
  <2> DEFINE items == ItemsRead(t, b, w, p)
  <2>1. \A item \in items : item = <<item[1], item[2]>>
    BY ItemsFit DEF Fits
  <2>2. OldRows(u, b, w, p) = {RowOf(b, w, p, item) : item \in items}
    BY <1>1 DEF ReadRows
  <2> HIDE DEF items
  <2>3. Own(u, b, w, p) = {<<r[4], r[5]>> : r \in OldRows(u, b, w, p)}
    BY DEF Own, OldRows
  <2>4. \A item \in items : LET r == RowOf(b, w, p, item) IN <<r[4], r[5]>> = <<item[1], item[2]>>
    BY DEF RowOf
  <2>5. Own(u, b, w, p) = items
    BY <2>1, <2>2, <2>3, <2>4
  <2> QED BY <1>1, <2>5, SameAgain DEF items
<1>2. CASE ~(x = b /\ w \in G)
  <2>1. Own(u, x, w, p) = Own(t, x, w, p)
    BY <1>2 DEF Own, Beyond
  <2> QED BY <2>1, SameAgain
<1> QED BY <1>1, <1>2

(* The old list, with the values of the new one where it has them.         *)
LEMMA MergedRead ==
    ASSUME NEW t \in AllTables, NEW b, NEW names \in SUBSET Projects, NEW old, NEW plist,
           Storable(None, old), Acceptable(None, old),
           plist = MergedPlist(old, BuildPlist(t, b, names))
    PROVE  /\ Storable(None, plist)
           /\ Acceptable(None, plist)
           /\ NewGroups(t, b, plist) = t.groups
           /\ \A w \in Given(None, plist), p \in DOMAIN PropType :
                Own(t, b, w, p) # {} => NewRows(b, None, plist, w, p) = ReadRows(t, b, w, p)
<1> DEFINE new == BuildPlist(t, b, names)
           P(w) == ProjectPlist(t, b, w)
           merged(w) == IF w \in DOMAIN old.projects THEN AddValues(old.projects[w].own, P(w)) ELSE P(w)
<1>1. /\ Storable(None, new) /\ Acceptable(None, new) /\ DOMAIN new.projects = names
      /\ \A w \in Given(None, new) : ListFor(None, new, w) = P(w)
      /\ t.groups = NewGroups(t, b, new)
  <2>1. new = Reads(t, b, None, names) /\ None \in Owners
    BY DEF Reads, Owners
  <2> HIDE DEF new, P
  <2>3. \A l : l = Reads(t, b, None, names) =>
          /\ Storable(None, l) /\ Acceptable(None, l) /\ DOMAIN l.projects = names
          /\ \A w \in Given(None, l) : ListFor(None, l, w) = ProjectPlist(t, b, w)
          /\ t.groups = NewGroups(t, b, l)
    <3> TAKE l
    <3> HAVE l = Reads(t, b, None, names)
    <3>1. Storable(None, l) /\ Acceptable(None, l)
      BY <2>1, PlistRead
    <3>3. \A w \in Given(None, l) : ListFor(None, l, w) = ProjectPlist(t, b, w)
      BY <2>1, RowsRead
    <3>2. DOMAIN l.projects = names /\ t.groups = NewGroups(t, b, l)
      BY <2>1, ListsRead
    <3> QED BY <3>1, <3>2, <3>3
  <2>2. /\ Storable(None, new) /\ Acceptable(None, new) /\ DOMAIN new.projects = names
        /\ \A w \in Given(None, new) : ListFor(None, new, w) = ProjectPlist(t, b, w)
        /\ t.groups = NewGroups(t, b, new)
    BY <2>1, <2>3
  <2> QED BY <2>2 DEF P
<1>2. /\ new = Plist(new.own, new.projects, new.groups)
      /\ \A w \in names : new.projects[w] = OfProject(P(w)) /\ new.projects[w].own = P(w)
      /\ new.own = P(None)
  BY DEF BuildPlist, Plist, OfProject
<1> HIDE DEF new
<1>3. /\ plist = [own |-> new.own, groups |-> new.groups,
                  projects |-> [w \in names |-> IF w \in DOMAIN old.projects
                                                THEN OfProject(AddValues(old.projects[w].own,
                                                                         new.projects[w].own))
                                                ELSE new.projects[w]]]
  BY <1>1, <1>2 DEF MergedPlist, Plist, new
<1>4. /\ plist = Plist(plist.own, plist.projects, plist.groups)
      /\ plist.own = P(None) /\ plist.groups = new.groups /\ DOMAIN plist.projects = names
      /\ \A w \in names : plist.projects[w] = OfProject(merged(w))
  BY <1>2, <1>3 DEF Plist
<1>5. /\ \A w : IsOwnList(P(w), Props) /\ \A p \in DOMAIN P(w) : Accepted(p, P(w)[p])
      /\ \A w : \A p \in DOMAIN PropType :
           /\ Own(t, b, w, p) # {} => p \in DOMAIN P(w)
           /\ ReadRows(t, b, w, p) = IF p \in DOMAIN P(w)
                                     THEN {RowOf(b, w, p, item) : item \in P(w)[p].items} ELSE {}
  BY ProjectPlistRead
<1> HIDE DEF P
<1>6. \A w \in DOMAIN old.projects :
        /\ IsOwnList(old.projects[w].own, Props)
        /\ \A p \in DOMAIN old.projects[w].own : Accepted(p, old.projects[w].own[p])
  <2> TAKE w \in DOMAIN old.projects
  <2>1. old.projects[w] # NotADictionary /\ None \notin DOMAIN old.projects
    BY DEF Acceptable, Storable
  <2>2. IsOwnList(old.projects[w].own, Props)
    BY <2>1 DEF Storable, IsList
  <2>3. w \in Given(None, old) /\ ListFor(None, old, w) = old.projects[w].own
    BY <2>1 DEF Given, ListFor
  <2>4. \A p \in DOMAIN old.projects[w].own : Accepted(p, old.projects[w].own[p])
    BY <2>3 DEF Acceptable
  <2> QED BY <2>2, <2>4
<1>7. \A w : /\ IsOwnList(merged(w), Props)
             /\ \A p \in DOMAIN merged(w) : Accepted(p, merged(w)[p])
             /\ \A p \in DOMAIN P(w) : p \in DOMAIN merged(w) /\ merged(w)[p] = P(w)[p]
  <2> TAKE w
  <2>1. CASE w \in DOMAIN old.projects
    <3> DEFINE one == old.projects[w].own
               both == AddValues(one, P(w))
    <3>1. IsOwnList(one, Props) /\ \A p \in DOMAIN one : Accepted(p, one[p])
      BY <1>6, <2>1
    <3>2. merged(w) = both
      BY <2>1
    <3> HIDE DEF one
    <3>3. /\ DOMAIN both = DOMAIN one \cup DOMAIN P(w)
          /\ both = [p \in DOMAIN both |-> both[p]]
          /\ \A p \in DOMAIN both : both[p] = IF p \in DOMAIN P(w) THEN P(w)[p] ELSE one[p]
      BY DEF AddValues
    <3> HIDE DEF both, merged
    <3>4. \A p \in DOMAIN both : both[p] = Value(both[p].type, both[p].items)
      BY <1>5, <3>1, <3>3 DEF IsOwnList
    <3>5. both = [p \in DOMAIN both |-> Value(both[p].type, both[p].items)]
      BY <3>3, <3>4
    <3>6. IsOwnList(both, Props)
      BY <1>5, <3>1, <3>3, <3>5 DEF IsOwnList
    <3> QED BY <1>5, <3>1, <3>2, <3>3, <3>6
  <2>2. CASE w \notin DOMAIN old.projects
    BY <1>5, <2>2
  <2> QED BY <2>1, <2>2
<1> HIDE DEF merged
<1>8. \A w \in names : /\ plist.projects[w].own = merged(w) /\ plist.projects[w] # NotADictionary
                       /\ plist.projects[w] = OfProject(plist.projects[w].own)
  <2>1. \A own : OfProject(own).own = own /\ OfProject(own) # NotADictionary
    BY DEF OfProject, Plist, NotADictionary
  <2> QED BY <1>4, <2>1
<1>9. None \notin names
  BY NoneAssumption
<1>10. Storable(None, plist)
  BY <1>1, <1>4, <1>5, <1>7, <1>8, <1>9 DEF Storable, IsList
<1>11. \A w \in Given(None, plist) : ListFor(None, plist, w) = IF w = None THEN P(None) ELSE merged(w)
  BY <1>4, <1>8 DEF Given, ListFor
<1>12. Acceptable(None, plist)
  BY <1>4, <1>5, <1>7, <1>8, <1>11 DEF Acceptable
<1>13. ASSUME NEW w \in Given(None, plist), NEW p \in DOMAIN PropType, Own(t, b, w, p) # {}
       PROVE  NewRows(b, None, plist, w, p) = ReadRows(t, b, w, p)
  <2>1. p \in DOMAIN P(w) => /\ p \in DOMAIN ListFor(None, plist, w)
                             /\ ListFor(None, plist, w)[p] = P(w)[p]
    BY <1>7, <1>11
  <2> QED BY <1>5, <1>13, <2>1 DEF NewRows
<1>14. NewGroups(t, b, plist) = t.groups
  BY <1>1, <1>4 DEF NewGroups
<1> QED BY <1>10, <1>12, <1>13, <1>14

----------------------------------------------------------------------------
(* The commands, the editor, the other process. *)

LEMMA FrameBegun ==
    ASSUME NEW o, NEW plist, Storable(o, plist), NEW f, f = Frame(o, plist)
    PROVE  /\ f.owner = o /\ f.plist = plist /\ plist # NotADictionary
           /\ f.props = DOMAIN plist.own /\ f.projects = DOMAIN plist.projects
           /\ FrameOf(f, o, plist)
<1>1. plist # NotADictionary
  BY NoDictionary DEF Storable, IsList
<1> QED BY <1>1 DEF Frame, FrameOf

(* A call begins, outside every transaction but one that waits to end.     *)
LEMMA CallBegins ==
    ASSUME Locked', tx'[Me] \in {"auto", "pending"},
           (nested' = 0) \/ (nested' = 1 /\ tx'[Me] = "pending"),
           Fields', proc'.build \in Builds,
           budget' \in [commands : 0..MaxCommands, tries : 0..MaxTries,
                        crashes : 0..MaxCrashes, reads : 0..MaxReads],
           proc'.at = "set_plist", proc'.res = 0,
           Storable(proc'.owner, proc'.plist),
           proc'.frames = <<Frame(proc'.owner, proc'.plist)>>,
           Merging'
    PROVE  StoreInv'
<1> DEFINE f == Frame(proc'.owner, proc'.plist)
<1>1. /\ f.owner = proc'.owner /\ f.plist = proc'.plist /\ proc'.plist # NotADictionary
      /\ f.props = DOMAIN proc'.plist.own /\ f.projects = DOMAIN proc'.plist.projects
      /\ FrameOf(f, proc'.owner, proc'.plist)
  BY FrameBegun
<1> HIDE DEF f
<1>2. proc'.frames = <<f>>
  BY DEF f
<1>3. Top' = f /\ Outer' = f /\ Len(proc'.frames) = 1
  BY <1>2 DEF Top, Outer
<1>4. Typed'
  BY DEF Typed
<1>5. Calls'
  BY <1>1, <1>2, <1>3 DEF Calls, Setting, TopOwn
<1>6. Depth' = 0
  BY <1>3 DEF Depth, Setting
<1>7. Counted'
  BY <1>6 DEF Counted, Setting
<1>8. Halfway' /\ Refusals' /\ Editing'
  BY DEF Halfway, InTransaction, Refusals, Editing
<1> QED BY <1>4, <1>5, <1>7, <1>8 DEF StoreInv

LEMMA Started ==
    ASSUME StoreInv, NEW command, Start(command)
    PROVE  /\ Locked' /\ nested' = 0 /\ tx'[Me] = "auto" /\ proc' = command
           /\ budget' \in [commands : 0..MaxCommands, tries : 0..MaxTries,
                           crashes : 0..MaxCrashes, reads : 0..MaxReads]
<1>1. /\ proc.at = "exited" /\ budget.commands > 0 /\ proc' = command /\ nested' = 0
      /\ budget' = [budget EXCEPT !.commands = @ - 1] /\ UNCHANGED sqlite
  BY DEF Start
<1>2. tx[Me] = "auto"
  BY <1>1 DEF StoreInv, Counted, Depth, Setting
<1>3. Locked' /\ tx' = tx
  BY <1>1, NothingSent DEF StoreInv, Typed, Within, sqlite
<1>4. budget' \in [commands : 0..MaxCommands, tries : 0..MaxTries,
                   crashes : 0..MaxCrashes, reads : 0..MaxReads]
  BY <1>1, BoundAssumption DEF StoreInv, Typed
<1> QED BY <1>1, <1>2, <1>3, <1>4

LEMMA RestingIdle ==
    /\ Resting.at = "exited" /\ Resting.cmd = "none" /\ Resting.build = None
    /\ Resting.owner = None /\ Resting.then = "exit" /\ Resting.frames = <<>> /\ Resting.res = 0
    /\ DOMAIN Resting = {"at", "cmd", "build", "owner", "old", "chain", "then", "plist", "frames",
                         "doomed", "items", "res", "kind", "prop", "who", "answer", "stack", "printed"}
BY DEF Resting

LEMMA LoadIndexStep ==
    ASSUME StoreInv, LoadIndex
    PROVE  StoreInv'
<1>1. PICK b \in Builds, plist \in Plists :
        Start([Resting EXCEPT !.at = "set_plist", !.cmd = "loadIndex", !.build = b,
                              !.plist = plist, !.frames = <<Frame(None, plist)>>])
  BY DEF LoadIndex
<1>2. /\ Locked' /\ nested' = 0 /\ tx'[Me] = "auto"
      /\ budget' \in [commands : 0..MaxCommands, tries : 0..MaxTries,
                      crashes : 0..MaxCrashes, reads : 0..MaxReads]
      /\ proc' = [Resting EXCEPT !.at = "set_plist", !.cmd = "loadIndex", !.build = b,
                                 !.plist = plist, !.frames = <<Frame(None, plist)>>]
  BY <1>1, Started
<1>3. /\ proc'.at = "set_plist" /\ proc'.cmd = "loadIndex" /\ proc'.build = b
      /\ proc'.plist = plist /\ proc'.frames = <<Frame(None, plist)>> /\ proc'.owner = None
      /\ proc'.res = 0 /\ Fields'
  <2>1. /\ proc'.at = "set_plist" /\ proc'.cmd = "loadIndex" /\ proc'.build = b
        /\ proc'.plist = plist /\ proc'.frames = <<Frame(None, plist)>> /\ proc'.owner = None
        /\ proc'.res = 0
    BY <1>2, RestingIdle
  <2>2. Fields'
    BY <1>2, <2>1, RestingIdle DEF Fields, Labels, Owners
  <2> QED BY <2>1, <2>2
<1>4. Storable(None, plist)
  BY InputAssumption, NoneAssumption DEF Storable, IsList, Props
<1>5. Merging'
  BY <1>3 DEF Merging
<1> QED BY <1>2, <1>3, <1>4, <1>5, CallBegins

(* A step outside of DBSetPlist.                                           *)
LEMMA Waiting ==
    ASSUME StoreInv, proc.at \notin Setting
    PROVE  /\ proc.frames = <<>>
           /\ \/ nested = 0 /\ tx[Me] = "auto"
              \/ /\ nested \in {0, 1} /\ tx[Me] = "pending"
                 /\ proc.at \in {"invalid", "exit", "cancelled"}
<1>1. Depth = 0 /\ proc.frames = <<>>
  BY DEF StoreInv, Calls, Depth
<1> QED BY <1>1 DEF StoreInv, Counted

LEMMA OutsideCalls ==
    ASSUME Locked', Fields', proc'.at \notin Setting, proc'.frames = <<>>,
           \/ nested' = 0 /\ tx'[Me] = "auto"
           \/ /\ nested' \in {0, 1} /\ tx'[Me] = "pending"
              /\ proc'.at \in {"invalid", "exit", "cancelled"},
           proc'.at # "exited" => proc'.build \in Builds,
           proc'.at = "walk" => proc'.then \notin {"exit", "build"},
           proc'.at \in {"search", "restart"} => proc'.then \in {"exit", "build"},
           proc'.at = "copy" => proc'.then = "copy",
           proc'.at \in {"editor", "invalid"} => proc'.cmd = "edit",
           budget' \in [commands : 0..MaxCommands, tries : 0..MaxTries,
                        crashes : 0..MaxCrashes, reads : 0..MaxReads],
           Editing', Merging'
    PROVE  StoreInv'
<1>1. Typed'
  BY DEF Typed
<1>2. Calls' /\ Refusals' /\ Halfway'
  BY DEF Calls, Refusals, Halfway, InTransaction, Setting
<1>3. Depth' = 0
  BY DEF Depth
<1>4. Counted'
  BY <1>3 DEF Counted
<1> QED BY <1>1, <1>2, <1>4 DEF StoreInv

LEMMA CommandSteps ==
    ASSUME StoreInv, Edit \/ MergeBuild \/ Query \/ Dependencies
    PROVE  StoreInv'
<1>1. CASE Edit
  <2>1. PICK b \in Builds, o \in Owners :
          Start([Resting EXCEPT !.at = IF o = None THEN "walk" ELSE "copy", !.cmd = "edit",
                                !.build = b, !.owner = o, !.chain = <<b>>, !.then = "copy"])
    BY <1>1 DEF Edit
  <2>2. /\ Locked' /\ nested' = 0 /\ tx'[Me] = "auto"
        /\ budget' \in [commands : 0..MaxCommands, tries : 0..MaxTries,
                        crashes : 0..MaxCrashes, reads : 0..MaxReads]
        /\ proc' = [Resting EXCEPT !.at = IF o = None THEN "walk" ELSE "copy", !.cmd = "edit",
                                   !.build = b, !.owner = o, !.chain = <<b>>, !.then = "copy"]
    BY <2>1, Started
  <2>3. /\ proc'.at \in {"walk", "copy"} /\ proc'.cmd = "edit" /\ proc'.build = b
        /\ proc'.frames = <<>> /\ proc'.then = "copy" /\ Fields'
    <3>1. /\ proc'.at \in {"walk", "copy"} /\ proc'.cmd = "edit" /\ proc'.build = b
          /\ proc'.frames = <<>> /\ proc'.then = "copy"
      BY <2>2, RestingIdle
    <3>2. Fields'
      BY <2>2, <3>1, RestingIdle DEF Fields, Labels, Owners
    <3> QED BY <3>1, <3>2
  <2>4. Editing' /\ Merging'
    BY <2>3 DEF Editing, Merging
  <2> QED BY <2>2, <2>3, <2>4, OutsideCalls DEF Setting
<1>2. CASE MergeBuild
  <2>1. PICK b \in Builds, old \in Builds :
          Start([Resting EXCEPT !.at = "walk", !.cmd = "mergeBuild", !.build = b, !.old = old,
                                !.chain = <<old>>, !.then = "copy_old"])
    BY <1>2 DEF MergeBuild
  <2>2. /\ Locked' /\ nested' = 0 /\ tx'[Me] = "auto"
        /\ budget' \in [commands : 0..MaxCommands, tries : 0..MaxTries,
                        crashes : 0..MaxCrashes, reads : 0..MaxReads]
        /\ proc' = [Resting EXCEPT !.at = "walk", !.cmd = "mergeBuild", !.build = b, !.old = old,
                                   !.chain = <<old>>, !.then = "copy_old"]
    BY <2>1, Started
  <2>3. /\ proc'.at = "walk" /\ proc'.cmd = "mergeBuild" /\ proc'.build = b /\ proc'.owner = None
        /\ proc'.frames = <<>> /\ proc'.then = "copy_old" /\ Fields'
    <3>1. /\ proc'.at = "walk" /\ proc'.cmd = "mergeBuild" /\ proc'.build = b /\ proc'.owner = None
          /\ proc'.frames = <<>> /\ proc'.then = "copy_old"
      BY <2>2, RestingIdle
    <3>2. Fields'
      BY <2>2, <3>1, RestingIdle DEF Fields, Labels, Owners
    <3> QED BY <3>1, <3>2
  <2>4. Editing' /\ Merging'
    BY <2>3 DEF Editing, Merging, Setting
  <2> QED BY <2>2, <2>3, <2>4, OutsideCalls DEF Setting
<1>3. CASE Query
  <2>1. PICK b \in Builds, o \in Owners, p \in DOMAIN PropType :
          Start([Resting EXCEPT !.at = "search", !.cmd = "query", !.build = b, !.owner = o,
                                !.prop = p, !.who = o, !.chain = <<b>>,
                                !.then = IF o = None THEN "exit" ELSE "build"])
    BY <1>3 DEF Query
  <2>2. /\ Locked' /\ nested' = 0 /\ tx'[Me] = "auto"
        /\ budget' \in [commands : 0..MaxCommands, tries : 0..MaxTries,
                        crashes : 0..MaxCrashes, reads : 0..MaxReads]
        /\ proc' = [Resting EXCEPT !.at = "search", !.cmd = "query", !.build = b, !.owner = o,
                                   !.prop = p, !.who = o, !.chain = <<b>>,
                                   !.then = IF o = None THEN "exit" ELSE "build"]
    BY <2>1, Started
  <2>3. /\ proc'.at = "search" /\ proc'.cmd = "query" /\ proc'.build = b
        /\ proc'.frames = <<>> /\ proc'.then \in {"exit", "build"} /\ Fields'
    <3>1. /\ proc'.at = "search" /\ proc'.cmd = "query" /\ proc'.build = b
          /\ proc'.frames = <<>> /\ proc'.then \in {"exit", "build"}
      BY <2>2, RestingIdle
    <3>2. Fields'
      BY <2>2, <3>1, RestingIdle DEF Fields, Labels, Owners
    <3> QED BY <3>1, <3>2
  <2>4. Editing' /\ Merging'
    BY <2>3 DEF Editing, Merging
  <2> QED BY <2>2, <2>3, <2>4, OutsideCalls DEF Setting
<1>4. CASE Dependencies
  <2>1. PICK b \in Builds, o \in Projects, kind \in DOMAIN DependencyTypes :
          Start([Resting EXCEPT !.at = "walk", !.cmd = "dependencies", !.build = b, !.owner = o,
                                !.kind = kind, !.chain = <<b>>, !.then = "print"])
    BY <1>4 DEF Dependencies
  <2>2. /\ Locked' /\ nested' = 0 /\ tx'[Me] = "auto"
        /\ budget' \in [commands : 0..MaxCommands, tries : 0..MaxTries,
                        crashes : 0..MaxCrashes, reads : 0..MaxReads]
        /\ proc' = [Resting EXCEPT !.at = "walk", !.cmd = "dependencies", !.build = b, !.owner = o,
                                   !.kind = kind, !.chain = <<b>>, !.then = "print"]
    BY <2>1, Started
  <2>3. /\ proc'.at = "walk" /\ proc'.cmd = "dependencies" /\ proc'.build = b
        /\ proc'.frames = <<>> /\ proc'.then = "print" /\ Fields'
    <3>1. /\ proc'.at = "walk" /\ proc'.cmd = "dependencies" /\ proc'.build = b
          /\ proc'.frames = <<>> /\ proc'.then = "print"
      BY <2>2, RestingIdle
    <3>2. Fields'
      BY <2>2, <3>1, RestingIdle DEF Fields, Labels, Owners
    <3> QED BY <3>1, <3>2
  <2>4. Editing' /\ Merging'
    BY <2>3 DEF Editing, Merging
  <2> QED BY <2>2, <2>3, <2>4, OutsideCalls DEF Setting
<1> QED BY <1>1, <1>2, <1>3, <1>4

Quiet == {"walk", "copy", "copy_old", "search", "restart", "build", "print", "visit"}

LEMMA OnlyReads ==
    ASSUME StoreInv, proc.at \in Quiet, UNCHANGED sqlite, nested' = nested
    PROVE  /\ Locked' /\ nested' = 0 /\ tx'[Me] = "auto" /\ db' = db
           /\ T \in AllTables /\ T = db
           /\ proc.frames = <<>> /\ proc.build \in Builds
<1>1. proc.at \notin Setting /\ proc.at \notin {"invalid", "exit", "cancelled", "exited"}
  BY DEF Quiet, Setting
<1>2. nested = 0 /\ tx[Me] = "auto" /\ proc.frames = <<>> /\ proc.build \in Builds
  BY <1>1, Waiting DEF StoreInv, Typed
<1>3. Locked' /\ tx' = tx /\ db' = db
  BY NothingSent DEF StoreInv, Typed, Within, sqlite
<1>4. T = db /\ T \in AllTables
  BY <1>2, TablesTyped DEF StoreInv, Typed, T, Tables, Reading
<1> QED BY <1>2, <1>3, <1>4

LEMMA WalkStep ==
    ASSUME StoreInv, Walk
    PROVE  StoreInv'
<1>1. /\ proc.at = "walk" /\ UNCHANGED <<budget, nested>> /\ UNCHANGED sqlite
      /\ \/ proc' = [proc EXCEPT !.at = proc.then]
         \/ \E c : proc' = [proc EXCEPT !.chain = c]
  BY DEF Walk, At
<1>2. /\ Locked' /\ nested' = 0 /\ tx'[Me] = "auto" /\ db' = db
      /\ proc.frames = <<>> /\ proc.build \in Builds
  BY <1>1, OnlyReads DEF Quiet
<1>3. /\ Fields' /\ Kept /\ proc'.frames = proc.frames /\ proc'.then = proc.then
      /\ proc'.at \in {"walk", proc.then} /\ proc.then \in {"copy", "copy_old", "print"}
  BY <1>1 DEF StoreInv, Typed, Fields, Labels, Kept
<1>4. Editing' /\ Merging'
  BY <1>1, <1>2, <1>3 DEF StoreInv, Editing, Merging, Kept, Setting
<1> QED BY <1>1, <1>2, <1>3, <1>4, OutsideCalls DEF StoreInv, Typed, Kept, Setting

LEMMA SearchSteps ==
    ASSUME StoreInv, Search \/ Restart \/ LookInBuild \/ PrintRoot \/ Visit \/ Printed
    PROVE  StoreInv'
<1>1. /\ proc.at \in {"search", "restart", "build", "print", "visit"} /\ UNCHANGED <<budget, nested>>
      /\ UNCHANGED sqlite
  BY DEF Search, Restart, LookInBuild, PrintRoot, Visit, Printed, At
<1>2. /\ Locked' /\ nested' = 0 /\ tx'[Me] = "auto" /\ db' = db
      /\ proc.frames = <<>> /\ proc.build \in Builds
  BY <1>1, OnlyReads DEF Quiet
<1>3. /\ Fields' /\ Kept /\ proc'.frames = proc.frames
      /\ proc'.at \in {"search", "restart", "build", "print", "visit", "exit"}
      /\ proc'.at \in {"search", "restart"} => proc'.then \in {"exit", "build"}
  <2>0. Fields /\ (proc.at \in {"search", "restart"} => proc.then \in {"exit", "build"})
    BY DEF StoreInv, Typed
  <2>1. CASE Search
    <3>1. \/ \E x, at : at \in {"exit", "search"} /\ proc' = [proc EXCEPT !.at = at, !.answer = x]
          \/ \E c, who : proc' = [proc EXCEPT !.at = "restart", !.chain = c, !.who = who]
          \/ \E c : proc' = [proc EXCEPT !.chain = c]
      BY <2>1 DEF Search, SearchBuild
    <3>2. proc.at = "search"
      BY <2>1 DEF Search, At
    <3> QED BY <2>0, <3>1, <3>2 DEF Fields, Labels, Kept
  <2>2. CASE Restart
    <3>1. proc.at = "restart" /\ \E x, c, at : /\ at \in {"exit", "restart", proc.then}
                                              /\ proc' = [proc EXCEPT !.at = at, !.answer = x, !.chain = c]
      BY <2>2 DEF Restart, At
    <3> QED BY <2>0, <3>1 DEF Fields, Labels, Kept
  <2>6. CASE LookInBuild
    BY <2>0, <2>6 DEF LookInBuild, At, Fields, Labels, Kept
  <2>3. CASE PrintRoot
    BY <2>0, <2>3 DEF PrintRoot, At, Fields, Labels, Kept
  <2>4. CASE Visit
    <3>1. \/ \E s : proc' = [proc EXCEPT !.stack = s]
          \/ \E p, s : proc' = [proc EXCEPT !.printed = p, !.stack = s]
      BY <2>4 DEF Visit
    <3> QED BY <2>0, <2>4, <3>1 DEF Visit, At, Fields, Labels, Kept
  <2>5. CASE Printed
    BY <2>0, <2>5 DEF Printed, Goto, At, Fields, Labels, Kept
  <2> QED BY <2>1, <2>2, <2>3, <2>4, <2>5, <2>6
<1>4. Editing' /\ Merging'
  BY <1>1, <1>3 DEF StoreInv, Editing, Merging, Kept, Setting
<1> QED BY <1>1, <1>2, <1>3, <1>4, OutsideCalls DEF StoreInv, Typed, Kept, Setting

LEMMA CopyForEditorStep ==
    ASSUME StoreInv, CopyForEditor
    PROVE  StoreInv'
<1> DEFINE names == OneProjectNames(db, proc.build, Range(proc.chain))
           list == Reads(db, proc.build, proc.owner, names)
<1>1. proc.at = "copy" /\ UNCHANGED <<budget, nested>> /\ UNCHANGED sqlite
  BY DEF CopyForEditor, At
<1>2. /\ Locked' /\ nested' = 0 /\ tx'[Me] = "auto" /\ db' = db /\ T = db /\ T \in AllTables
      /\ proc.frames = <<>> /\ proc.build \in Builds
  BY <1>1, OnlyReads DEF Quiet
<1>3. proc' = [proc EXCEPT !.at = "editor", !.plist = list] /\ proc.cmd = "edit"
  BY <1>2 DEF CopyForEditor, Reads
<1>4. list = ReadList
  BY DEF ReadList, Reads
<1>5. Storable(proc.owner, list)
  <2>1. names \subseteq Projects /\ proc.owner \in Owners /\ db \in AllTables
    BY <1>2, NamesRead DEF StoreInv, Typed, Fields
  <2> HIDE DEF names
  <2> QED BY <2>1, PlistRead
<1> HIDE DEF list, names
<1>6. /\ Fields' /\ proc'.frames = proc.frames /\ proc'.at = "editor" /\ proc'.plist = list
      /\ proc'.cmd = "edit" /\ proc'.build = proc.build /\ proc'.owner = proc.owner
      /\ proc'.chain = proc.chain
  BY <1>1, <1>3 DEF StoreInv, Typed, Fields, Labels
<1>7. ReadList' = ReadList
  BY <1>2, <1>6 DEF ReadList
<1>8. Editing' /\ Merging'
  BY <1>4, <1>5, <1>6, <1>7 DEF Editing, Merging
<1> QED BY <1>1, <1>2, <1>6, <1>8, OutsideCalls DEF StoreInv, Typed, Setting

LEMMA CopyOldStep ==
    ASSUME StoreInv, CopyOld
    PROVE  StoreInv'
<1> DEFINE names == OneProjectNames(T, proc.old, Range(proc.chain))
           list == BuildPlist(T, proc.old, names)
<1>1. /\ proc.at = "copy_old" /\ UNCHANGED <<budget, nested>> /\ UNCHANGED sqlite
      /\ proc' = [proc EXCEPT !.at = "walk", !.then = "copy", !.chain = <<proc.build>>, !.plist = list]
  BY DEF CopyOld, At
<1>2. /\ Locked' /\ nested' = 0 /\ tx'[Me] = "auto" /\ db' = db /\ T \in AllTables
      /\ proc.frames = <<>> /\ proc.build \in Builds
  BY <1>1, OnlyReads DEF Quiet
<1>3. Storable(None, list) /\ Acceptable(None, list)
  <2>1. names \subseteq Projects /\ None \in Owners /\ list = Reads(T, proc.old, None, names)
    BY <1>2, NamesRead DEF Owners, Reads
  <2> HIDE DEF names, list
  <2> QED BY <1>2, <2>1, PlistRead
<1> HIDE DEF list, names
<1>4. /\ Fields' /\ proc'.frames = proc.frames /\ proc'.at = "walk" /\ proc'.plist = list
      /\ proc'.cmd = proc.cmd /\ proc'.build = proc.build /\ proc'.owner = proc.owner
      /\ proc'.then = "copy"
  BY <1>1 DEF StoreInv, Typed, Fields, Labels
<1>5. Editing' /\ Merging'
  BY <1>1, <1>3, <1>4 DEF StoreInv, Editing, Merging, Setting
<1> QED BY <1>1, <1>2, <1>4, <1>5, OutsideCalls DEF StoreInv, Typed, Setting

LEMMA CopyNewStep ==
    ASSUME StoreInv, CopyNew
    PROVE  StoreInv'
<1> DEFINE names == OneProjectNames(T, proc.build, Range(proc.chain))
           list == MergedPlist(proc.plist, BuildPlist(T, proc.build, names))
<1>1. /\ proc.at = "copy" /\ UNCHANGED <<budget, nested>> /\ UNCHANGED sqlite
      /\ proc.cmd = "mergeBuild" /\ proc' = Storing(None, list)
  BY DEF CopyNew, At
<1>2. /\ Locked' /\ nested' = 0 /\ tx'[Me] = "auto" /\ db' = db /\ T \in AllTables /\ T = db
      /\ proc.frames = <<>> /\ proc.build \in Builds
  BY <1>1, OnlyReads DEF Quiet
<1>3. Storable(None, proc.plist) /\ Acceptable(None, proc.plist) /\ proc.owner = None
  BY <1>1 DEF StoreInv, Typed, Merging
<1>4. /\ Storable(None, list) /\ Acceptable(None, list)
      /\ NewGroups(T, proc.build, list) = T.groups
      /\ \A w \in Given(None, list), p \in DOMAIN PropType :
           Own(T, proc.build, w, p) # {} =>
             NewRows(proc.build, None, list, w, p) = ReadRows(T, proc.build, w, p)
  <2>1. names \in SUBSET Projects
    BY <1>2, NamesRead
  <2> HIDE DEF names
  <2>2. \A l : l = MergedPlist(proc.plist, BuildPlist(T, proc.build, names)) =>
          /\ Storable(None, l) /\ Acceptable(None, l)
          /\ NewGroups(T, proc.build, l) = T.groups
          /\ \A w \in Given(None, l), p \in DOMAIN PropType :
               Own(T, proc.build, w, p) # {} =>
                 NewRows(proc.build, None, l, w, p) = ReadRows(T, proc.build, w, p)
    BY <1>2, <1>3, <2>1, MergedRead
  <2> QED BY <2>2
<1> HIDE DEF list, names
<1>5. /\ Fields' /\ proc'.frames = <<Frame(None, list)>> /\ proc'.at = "set_plist"
      /\ proc'.plist = list /\ proc'.cmd = "mergeBuild" /\ proc'.build = proc.build
      /\ proc'.owner = None /\ proc'.res = 0
  BY <1>1 DEF Storing, StoreInv, Typed, Fields, Labels, Owners
<1>6. Adds'
  BY <1>2, <1>4, <1>5 DEF Adds, New, ReadRows
<1>7. Merging'
  BY <1>4, <1>5, <1>6 DEF Merging, Setting
<1> QED BY <1>1, <1>2, <1>4, <1>5, <1>7, CallBegins DEF StoreInv, Typed

LEMMA EditorSavesStep ==
    ASSUME StoreInv, EditorSaves
    PROVE  StoreInv'
<1>1. /\ proc.at \in {"editor", "invalid"} /\ budget.tries > 0
      /\ budget' = [budget EXCEPT !.tries = @ - 1] /\ nested' = nested /\ UNCHANGED sqlite
  BY DEF EditorSaves
<1>2. PICK plist \in {IF proc.owner = None THEN list ELSE OfProject(list.own) : list \in Plists}
                     \cup {proc.plist, None} :
        proc' = IF plist = None THEN [proc EXCEPT !.at = "invalid", !.plist = None]
                ELSE Storing(proc.owner, plist)
  BY DEF EditorSaves
<1>3. /\ Locked' /\ tx' = tx /\ db' = db
      /\ proc.frames = <<>> /\ proc.build \in Builds /\ proc.cmd = "edit"
      /\ \/ nested = 0 /\ tx[Me] = "auto"
         \/ nested \in {0, 1} /\ tx[Me] = "pending"
  <2>1. proc.at \notin Setting /\ proc.at # "exited"
    BY <1>1 DEF Setting
  <2> QED BY <1>1, <2>1, Waiting, NothingSent DEF StoreInv, Typed, Within, sqlite
<1>4. budget' \in [commands : 0..MaxCommands, tries : 0..MaxTries,
                   crashes : 0..MaxCrashes, reads : 0..MaxReads]
  BY <1>1, BoundAssumption DEF StoreInv, Typed
<1>5. CASE plist = None
  <2>1. /\ Fields' /\ proc'.frames = <<>> /\ proc'.at = "invalid" /\ proc'.plist = None
        /\ proc'.cmd = "edit" /\ proc'.build = proc.build
    BY <1>2, <1>3, <1>5 DEF StoreInv, Typed, Fields, Labels
  <2>2. Editing' /\ Merging'
    BY <2>1 DEF Editing, Merging
  <2>3. \/ nested' = 0 /\ tx'[Me] = "auto"
        \/ nested' \in {0, 1} /\ tx'[Me] = "pending" /\ proc'.at \in {"invalid", "exit", "cancelled"}
    BY <1>1, <1>3, <2>1
  <2> QED BY <1>3, <1>4, <2>1, <2>2, <2>3, OutsideCalls DEF Setting
<1>6. CASE plist # None
  <2>1. /\ Fields' /\ proc'.frames = <<Frame(proc.owner, plist)>> /\ proc'.at = "set_plist"
        /\ proc'.plist = plist /\ proc'.cmd = "edit" /\ proc'.build = proc.build
        /\ proc'.owner = proc.owner /\ proc'.res = 0
    BY <1>2, <1>3, <1>6 DEF Storing, StoreInv, Typed, Fields, Labels
  <2>2. Storable(proc.owner, plist)
    <3>1. CASE plist = proc.plist
      BY <1>1, <1>3, <1>6, <3>1 DEF StoreInv, Editing
    <3>2. CASE plist # proc.plist
      <4>1. PICK list \in Plists : plist = IF proc.owner = None THEN list ELSE OfProject(list.own)
        BY <1>2, <1>6, <3>2
      <4>2. IsList(list, Props)
        BY InputAssumption DEF Props
      <4>3. CASE proc.owner = None
        BY <4>1, <4>2, <4>3, NoneAssumption DEF Storable, IsList
      <4>4. CASE proc.owner # None
        <5>1. /\ plist = Plist(list.own, NoEntries, None) /\ plist.own = list.own
              /\ DOMAIN plist.projects = {} /\ plist.groups = None
              /\ plist = Plist(plist.own, plist.projects, plist.groups)
          BY <4>1, <4>4 DEF OfProject, Plist, NoEntries
        <5> QED BY <4>2, <5>1 DEF Storable, IsList
      <4> QED BY <4>3, <4>4
    <3> QED BY <3>1, <3>2
  <2>3. Merging'
    BY <2>1 DEF Merging
  <2> QED BY <1>1, <1>3, <1>4, <2>1, <2>2, <2>3, CallBegins
<1> QED BY <1>5, <1>6

LEMMA EditorCancelsStep ==
    ASSUME StoreInv, EditorCancels
    PROVE  StoreInv'
<1>1. /\ proc.at = "editor" /\ proc' = [proc EXCEPT !.at = "cancelled"]
      /\ UNCHANGED <<budget, nested>> /\ UNCHANGED sqlite
  BY DEF EditorCancels, At, Goto
<1>2. /\ Locked' /\ nested' = 0 /\ tx'[Me] = "auto" /\ db' = db
      /\ proc.frames = <<>> /\ proc.build \in Builds /\ proc.cmd = "edit"
  <2>1. proc.at \notin Setting
    BY <1>1 DEF Setting
  <2>2. nested = 0 /\ tx[Me] = "auto" /\ proc.frames = <<>>
    BY <1>1, <2>1, Waiting
  <2> QED BY <1>1, <2>2, NothingSent DEF StoreInv, Typed, Within, sqlite
<1>3. /\ Fields' /\ Kept /\ proc'.frames = proc.frames /\ proc'.at = "cancelled"
  BY <1>1 DEF StoreInv, Typed, Fields, Labels, Kept
<1>4. Editing' /\ Merging'
  BY <1>2, <1>3 DEF Editing, Merging, Kept, Setting
<1> QED BY <1>1, <1>2, <1>3, <1>4, OutsideCalls DEF StoreInv, Typed, Kept, Setting

LEMMA QuitStep ==
    ASSUME StoreInv, Quit
    PROVE  StoreInv'
<1>1. /\ proc.at = "invalid" /\ proc' = [proc EXCEPT !.at = "cancelled"]
      /\ UNCHANGED <<budget, nested>> /\ UNCHANGED sqlite
  BY DEF Quit, At, Goto
<1>2. /\ Fields' /\ Kept /\ proc'.frames = proc.frames /\ proc'.at = "cancelled"
  BY <1>1 DEF StoreInv, Typed, Fields, Labels, Kept
<1>3. /\ Locked' /\ tx' = tx /\ proc.frames = <<>> /\ proc.build \in Builds /\ proc.cmd = "edit"
      /\ \/ nested = 0 /\ tx[Me] = "auto"
         \/ nested \in {0, 1} /\ tx[Me] = "pending"
  <2>1. proc.at \notin Setting /\ proc.at # "exited"
    BY <1>1 DEF Setting
  <2> QED BY <1>1, <2>1, Waiting, NothingSent DEF StoreInv, Typed, Within, sqlite
<1>4. Editing' /\ Merging'
  BY <1>2, <1>3 DEF Editing, Merging, Kept, Setting
<1> QED BY <1>1, <1>2, <1>3, <1>4, OutsideCalls DEF StoreInv, Typed, Kept, Setting

LEMMA Ends ==
    ASSUME StoreInv, Close(Me), proc' = Resting, nested' = 0,
           budget' \in [commands : 0..MaxCommands, tries : 0..MaxTries,
                        crashes : 0..MaxCrashes, reads : 0..MaxReads]
    PROVE  StoreInv'
<1>1. Locked' /\ tx'[Me] = "auto"
  BY ClosedAll DEF StoreInv, Typed
<1>2. Fields' /\ proc'.frames = <<>> /\ proc'.at = "exited" /\ proc'.cmd = "none"
  BY RestingIdle DEF Fields, Labels, Owners
<1>3. Editing' /\ Merging'
  BY <1>2 DEF Editing, Merging
<1> QED BY <1>1, <1>2, <1>3, OutsideCalls DEF Setting

LEMMA ExitStep ==
    ASSUME StoreInv, Exit
    PROVE  StoreInv'
<1>1. Close(Me) /\ proc' = Resting /\ nested' = 0 /\ budget' = budget
  BY DEF Exit, At
<1> QED BY <1>1, Ends DEF StoreInv, Typed

LEMMA CrashStep ==
    ASSUME StoreInv, Crash
    PROVE  StoreInv'
<1>1. /\ Close(Me) /\ proc' = Resting /\ nested' = 0 /\ budget.crashes > 0
      /\ budget' = [budget EXCEPT !.crashes = @ - 1]
  BY DEF Crash
<1>2. budget' \in [commands : 0..MaxCommands, tries : 0..MaxTries,
                   crashes : 0..MaxCrashes, reads : 0..MaxReads]
  BY <1>1, BoundAssumption DEF StoreInv, Typed
<1> QED BY <1>1, <1>2, Ends

(* A step of the other process, or of none.                                *)
LEMMA OthersStep ==
    ASSUME StoreInv, Locked', proc' = proc, nested' = nested, db' = db, T' = T, tx'[Me] = tx[Me],
           budget' \in [commands : 0..MaxCommands, tries : 0..MaxTries,
                        crashes : 0..MaxCrashes, reads : 0..MaxReads]
    PROVE  StoreInv'
<1>1. Kept /\ Top' = Top /\ Outer' = Outer /\ TopOwn' = TopOwn
  BY DEF Kept, Top, Outer, TopOwn
<1>2. Typed'
  BY DEF StoreInv, Typed, Fields
<1>3. Calls'
  BY <1>1 DEF StoreInv, Calls
<1>4. Counted'
  BY DEF StoreInv, Counted, Depth
<1>5. Refusals' /\ Editing'
  BY DEF StoreInv, Refusals, Editing, ReadList
<1>6. Adds' = Adds
  BY DEF Adds, New, ReadRows
<1>7. Merging'
  BY <1>6 DEF StoreInv, Merging
<1>8. /\ \A w, p : Is(w, p)' = Is(w, p) /\ New(w, p)' = New(w, p) /\ Was(w, p)' = Was(w, p)
      /\ \A w : Settled(w)' = Settled(w) /\ Done(w)' = Done(w)
      /\ \A w, p : Inserting(w, p)' = Inserting(w, p)
      /\ Others(T)' = Others(T) /\ Others(db)' = Others(db)
  BY <1>1, RowsKept DEF Done, Inserting
<1>9. /\ Mixed' = Mixed /\ SettledSoFar' = SettledSoFar /\ InList' = InList /\ InGroups' = InGroups
  <2>1. Mixed' = Mixed
    BY <1>8 DEF Mixed
  <2>2. SettledSoFar' = SettledSoFar
    BY <1>1, <1>8 DEF SettledSoFar
  <2>3. InList' = InList
    BY <1>1, <1>8 DEF InList
  <2>4. InGroups' = InGroups
    BY DEF InGroups
  <2> QED BY <2>1, <2>2, <2>3, <2>4
<1>10. Halfway'
  BY <1>8, <1>9 DEF StoreInv, Halfway, InTransaction
<1> QED BY <1>2, <1>3, <1>4, <1>5, <1>7, <1>10 DEF StoreInv

LEMMA ReaderSteps ==
    ASSUME StoreInv, ReaderReads \/ ReaderEnds
    PROVE  StoreInv'
<1>1. CASE ReaderReads
  <2>1. /\ tx' = [tx EXCEPT ![Reader] = "shared"] /\ view' = [view EXCEPT ![Reader] = db]
        /\ UNCHANGED <<db, proc, nested>> /\ tx[Reader] = "auto"
        /\ budget.reads > 0 /\ budget' = [budget EXCEPT !.reads = @ - 1]
    BY <1>1 DEF ReaderReads
  <2>2. Locked' /\ T' = T /\ tx'[Me] = tx[Me]
    BY <2>1, ProcsAssumption
       DEF StoreInv, Typed, Locked, SqliteType, Modes, T, Tables, Reading
  <2>3. budget' \in [commands : 0..MaxCommands, tries : 0..MaxTries,
                     crashes : 0..MaxCrashes, reads : 0..MaxReads]
    BY <2>1, BoundAssumption DEF StoreInv, Typed
  <2> QED BY <2>1, <2>2, <2>3, OthersStep
<1>2. CASE ReaderEnds
  <2>1. /\ tx' = [tx EXCEPT ![Reader] = "auto"] /\ view' = [view EXCEPT ![Reader] = NoTables]
        /\ UNCHANGED <<db, proc, nested, budget>>
    BY <1>2 DEF ReaderEnds, Close, Release
  <2>2. Locked' /\ T' = T /\ tx'[Me] = tx[Me]
    BY <2>1, ProcsAssumption
       DEF StoreInv, Typed, Locked, SqliteType, Modes, T, Tables, Reading
  <2> QED BY <2>1, <2>2, OthersStep DEF StoreInv, Typed
<1> QED BY <1>1, <1>2

----------------------------------------------------------------------------
(* The theorems *)

LEMMA InitHolds ==
    ASSUME Init
    PROVE  StoreInv
<1>1. PICK t \in InitialTables : SqliteInit(t)
  BY DEF Init
<1>2. /\ db = t /\ tx = [c \in Procs |-> "auto"] /\ view = [c \in Procs |-> NoTables]
      /\ t \in AllTables /\ proc = Resting /\ nested = 0
      /\ budget \in [commands : 0..MaxCommands, tries : 0..MaxTries,
                     crashes : 0..MaxCrashes, reads : 0..MaxReads]
  BY <1>1, InputAssumption, BoundAssumption DEF Init, SqliteInit
<1>3. Locked
  BY <1>2, ProcsAssumption DEF Locked, SqliteType, Modes, Reading
<1>4. Fields /\ proc.at = "exited" /\ proc.cmd = "none" /\ proc.frames = <<>>
  BY <1>2, RestingIdle DEF Fields, Labels, Owners
<1>5. Typed /\ Calls
  BY <1>2, <1>3, <1>4 DEF Typed, Calls, Setting
<1>6. Counted /\ Halfway
  BY <1>2, <1>4, ProcsAssumption DEF Counted, Depth, Halfway, InTransaction, Setting
<1>7. Refusals /\ Editing /\ Merging
  BY <1>4 DEF Refusals, Editing, Merging, Setting
<1> QED BY <1>5, <1>6, <1>7 DEF StoreInv

LEMMA StepKeeps ==
    ASSUME StoreInv, [Next]_vars
    PROVE  StoreInv'
<1>1. CASE Command
  BY <1>1, LoadIndexStep, CommandSteps DEF Command
<1>2. CASE User
  BY <1>2, EditorSavesStep, EditorCancelsStep, QuitStep DEF User
<1>3. CASE Step
  BY <1>3, WalkStep, CopyForEditorStep, CopyOldStep, CopyNewStep, SearchSteps,
     SetPlistRefusedStep, BeginTransactionStep, BeginFailsStep, SelectNamesStep, DeletePropStep,
     DeletedAllStep, SetPropStep, InsertItemStep, InsertedAllStep, SetPropRefusedStep,
     PropsSetStep, SetProjectStep, ProjectsSetStep, NoGroupsStep, DeleteGroupsStep,
     InsertMemberStep, GroupsSetStep, CommitTransactionStep, ExitStep DEF Step
<1>4. CASE Crash
  BY <1>4, CrashStep
<1>5. CASE ReaderReads \/ ReaderEnds
  BY <1>5, ReaderSteps
<1>6. CASE UNCHANGED vars
  <2>1. /\ proc' = proc /\ nested' = nested /\ budget' = budget /\ UNCHANGED sqlite
    BY <1>6 DEF vars, sqlite
  <2>2. Locked' /\ T' = T /\ db' = db /\ tx' = tx
    BY <2>1, NothingSent DEF StoreInv, Typed, Within, sqlite
  <2> QED BY <2>1, <2>2, OthersStep DEF StoreInv, Typed
<1> QED BY <1>1, <1>2, <1>3, <1>4, <1>5, <1>6 DEF Next

(* What holds between any two steps of the commands: the calls of          *)
(* DBSetPlist and what they still have to store, the count of transactions *)
(* they have begun, and how far the transaction has come with the list.    *)
THEOREM StoreInvariant == Spec => []StoreInv
<1>1. Init => StoreInv
  BY InitHolds
<1>2. StoreInv /\ [Next]_vars => StoreInv'
  BY StepKeeps
<1> QED BY <1>1, <1>2, PTL DEF Spec

(* Whatever is loaded, edited and merged, the tables hold only properties  *)
(* that some plugin knows, and __nestedTransactions stays between 0 and 3. *)
THEOREM TypesKept == Spec => []TypeOK
<1>1. StoreInv => TypeOK
  <2> SUFFICES ASSUME StoreInv
               PROVE  TypeOK
    OBVIOUS
  <2>1. nested \in 0..3
    <3>1. Depth \in {0, 1, 2}
      BY OneOrTwo DEF StoreInv, Depth
    <3> QED BY <3>1 DEF StoreInv, Counted
  <2>2. db \in AllTables /\ tx \in [Procs -> Modes]
    BY DEF StoreInv, Typed, Locked, SqliteType
  <2>3. /\ \A r \in db.properties : r[1] \in Builds /\ r[2] \in Owners /\ r[3] \in DOMAIN PropType
        /\ \A r \in db.groups : r[1] \in Builds /\ r[2] \in Groups
    BY <2>2 DEF AllTables, Rows
  <2> QED BY <2>1, <2>2, <2>3 DEF TypeOK, StoreInv, Typed, Fields
<1> QED BY <1>1, StoreInvariant, PTL

(* Only the COMMIT of the outermost call changes the database.             *)
LEMMA OnlyCommits ==
    ASSUME StoreInv, [Next]_vars, db' # db
    PROVE  /\ proc.at = "commit" /\ Len(proc.frames) = 1 /\ InTransaction /\ db' = T
<1>1. CommitTransaction
  <2>1. CASE Command
    BY <2>1 DEF Command, LoadIndex, Edit, MergeBuild, Query, Dependencies, Start, sqlite
  <2>2. CASE User
    BY <2>2 DEF User, EditorSaves, EditorCancels, Quit, sqlite
  <2>3. CASE Step
    <3>1. CASE Walk \/ CopyForEditor \/ CopyOld \/ CopyNew
      BY <3>1 DEF Walk, CopyForEditor, CopyOld, CopyNew, sqlite
    <3>2. CASE Search \/ Restart \/ LookInBuild \/ PrintRoot \/ Visit \/ Printed
      BY <3>2 DEF Search, Restart, LookInBuild, PrintRoot, Visit, Printed, sqlite
    <3>3. CASE SetPlistRefused \/ BeginTransaction \/ BeginFails \/ SelectNames
      BY <3>3 DEF SetPlistRefused, BeginTransaction, BeginFails, SelectNames, Begin, Read, sqlite
    <3>4. CASE DeleteProp \/ DeletedAll \/ SetProp \/ InsertItem \/ InsertedAll
      BY <3>4 DEF DeleteProp, DeletedAll, SetProp, InsertItem, InsertedAll, Write, sqlite
    <3>5. CASE SetPropRefused \/ PropsSet \/ SetProject \/ ProjectsSet
      BY <3>5 DEF SetPropRefused, PropsSet, SetProject, ProjectsSet, sqlite
    <3>6. CASE NoGroups \/ DeleteGroups \/ InsertMember \/ GroupsSet
      BY <3>6 DEF NoGroups, DeleteGroups, InsertMember, GroupsSet, Write, sqlite
    <3>7. CASE Exit
      BY <3>7 DEF Exit, Close
    <3> QED BY <2>3, <3>1, <3>2, <3>3, <3>4, <3>5, <3>6, <3>7 DEF Step
  <2>4. CASE Crash \/ ReaderReads \/ ReaderEnds
    BY <2>4 DEF Crash, ReaderReads, ReaderEnds, Close
  <2>5. CASE UNCHANGED vars
    BY <2>5 DEF vars
  <2> QED BY <2>1, <2>2, <2>3, <2>4, <2>5 DEF Next
<1>2. proc.at = "commit"
  BY <1>1 DEF CommitTransaction, At
<1>3. Len(proc.frames) = 1
  BY <1>1, <1>2, CommitInner, OneOrTwo DEF StoreInv, Setting
<1> QED BY <1>1, <1>2, <1>3, CommitOuter

(* A list that DBSetPlist accepts is in the database as a whole or not at  *)
(* all, with the lists of its projects and its groups, and of a list it    *)
(* refuses no property is there by half: whatever the list and the tables, *)
(* and wherever the process is killed.                                     *)
THEOREM ListsStoredWhole == Spec => StoredWhole
<1>1. ASSUME StoreInv, [Next]_vars, db' # db
      PROVE  IF Acceptable(proc.owner, proc.plist)
             THEN db' = Expected(db, proc.build, proc.owner, proc.plist)
             ELSE Part(db, db', proc.build, proc.owner, proc.plist)
  <2>1. proc.at = "commit" /\ Len(proc.frames) = 1 /\ InTransaction /\ db' = T
    BY <1>1, OnlyCommits
  <2>2. CASE Acceptable(proc.owner, proc.plist)
    <3>1. proc.res = 0
      BY <1>1, <2>1, <2>2 DEF StoreInv, Refusals, Setting
    <3> QED BY <1>1, <2>1, <2>2, <3>1, WholeAtCommit
  <2>3. CASE ~Acceptable(proc.owner, proc.plist)
    <3>1. /\ Others(T) = Others(db)
          /\ T.groups = NewGroups(db, proc.build, proc.plist)
          /\ \A w \in Given(proc.owner, proc.plist), p \in DOMAIN PropType :
               Is(w, p) = Was(w, p) \/ Is(w, p) = New(w, p)
      BY <1>1, <2>1, CommitReady
    <3>2. Part(db, T, proc.build, proc.owner, proc.plist)
      BY <3>1 DEF Part, Others, Beyond, Is, Was, New
    <3> QED BY <2>1, <2>3, <3>2
  <2> QED BY <2>2, <2>3
<1>2. StoreInv /\ [Next]_vars =>
        [db' # db => IF Acceptable(proc.owner, proc.plist)
                     THEN db' = Expected(db, proc.build, proc.owner, proc.plist)
                     ELSE Part(db, db', proc.build, proc.owner, proc.plist)]_vars
  BY <1>1
<1> QED BY <1>2, StoreInvariant, PTL DEF Spec, StoredWhole

(* An edit that ends without an error message is in the database, however  *)
(* many refused or unreadable lists came before, unless its COMMIT met a   *)
(* reader: the code does not look at that result.                          *)
THEOREM DoneEditsKept == Spec => []EditKept
<1>1. StoreInv => EditKept
  BY DEF StoreInv, Editing, EditKept
<1> QED BY <1>1, StoreInvariant, PTL

(* Saving in the editor what it was given changes no group and no value    *)
(* that any build or project has, however it came by it; an array of more  *)
(* than ten elements keeps its values, in another order.                   *)
THEOREM SavingAsReadChangesNothing == Spec => RoundTrip
<1> DEFINE same == \A b \in Builds, o \in Owners, p \in DOMAIN PropType : SameValue(db, db', b, o, p)
<1>1. ASSUME StoreInv, [Next]_vars, proc.cmd = "edit", db' # db, proc.plist = ReadList
      PROVE  db'.groups = db.groups /\ same
  <2> DEFINE names == OneProjectNames(db, proc.build, Range(proc.chain))
             G == Given(proc.owner, proc.plist)
  <2>1. proc.at = "commit" /\ Len(proc.frames) = 1 /\ InTransaction /\ db' = T
    BY <1>1, OnlyCommits
  <2>2. db \in AllTables /\ proc.owner \in Owners
    BY <1>1, TablesTyped DEF StoreInv, Typed, Fields
  <2>3. names \in SUBSET Projects /\ proc.plist = Reads(db, proc.build, proc.owner, names)
    BY <1>1, <2>2, NamesRead DEF ReadList, Reads
  <2> HIDE DEF names
  <2>4. /\ Acceptable(proc.owner, proc.plist)
        /\ db.groups = NewGroups(db, proc.build, proc.plist)
        /\ \A w \in G, p \in DOMAIN PropType : New(w, p) = ReadRows(db, proc.build, w, p)
    <3>1. Acceptable(proc.owner, proc.plist)
      BY <2>2, <2>3, PlistRead
    <3>3. db.groups = NewGroups(db, proc.build, proc.plist)
      BY <2>2, <2>3, ListsRead
    <3>2. \A w \in G, p \in DOMAIN PropType :
            NewRows(proc.build, proc.owner, proc.plist, w, p) = ReadRows(db, proc.build, w, p)
      BY <2>2, <2>3, RowsRead
    <3> QED BY <3>1, <3>2, <3>3 DEF New
  <2>5. proc.res = 0
    BY <1>1, <2>1, <2>4 DEF StoreInv, Refusals, Setting
  <2>6. /\ T \in AllTables /\ Others(T) = Others(db)
        /\ T.groups = NewGroups(db, proc.build, proc.plist)
        /\ \A w \in G : Settled(w)
    BY <1>1, <2>1, <2>5, CommitReady
  <2>7. Beyond(db, proc.build, G) = Beyond(T, proc.build, G)
    BY <2>6 DEF Others
  <2>8. \A w \in G, p \in DOMAIN PropType :
          OldRows(T, proc.build, w, p) = ReadRows(db, proc.build, w, p)
    BY <2>4, <2>6 DEF Settled, Is
  <2> HIDE DEF G
  <2>9. \A b \in Builds, o \in Owners, p \in DOMAIN PropType : SameValue(db, T, b, o, p)
    BY <2>2, <2>6, <2>7, <2>8, StoredAsRead
  <2> QED BY <2>1, <2>4, <2>6, <2>9
<1>2. StoreInv /\ [Next]_vars =>
        [proc.cmd = "edit" /\ db' # db
         /\ proc.plist = (IF proc.owner = None
                          THEN BuildPlist(db, proc.build,
                                          OneProjectNames(db, proc.build, Range(proc.chain)))
                          ELSE OfProject(ProjectPlist(db, proc.build, proc.owner)))
         => db'.groups = db.groups /\ same]_vars
  BY <1>1 DEF ReadList
<1> QED BY <1>2, StoreInvariant, PTL DEF Spec, RoundTrip

(* mergeBuild takes nothing away, in either build, but may put an array of *)
(* more than ten elements in another order.                                *)
THEOREM MergesOnlyAdd == Spec => MergeKeeps
<1> DEFINE kept == \A b \in Builds, o \in Owners, p \in DOMAIN PropType :
                     Own(db, b, o, p) # {} => SameValue(db, db', b, o, p)
<1>1. ASSUME StoreInv, [Next]_vars, proc.cmd = "mergeBuild", db' # db
      PROVE  db'.groups = db.groups /\ kept
  <2> DEFINE G == Given(proc.owner, proc.plist)
  <2>1. proc.at = "commit" /\ Len(proc.frames) = 1 /\ InTransaction /\ db' = T
    BY <1>1, OnlyCommits
  <2>2. Acceptable(proc.owner, proc.plist) /\ Adds
    BY <1>1, <2>1 DEF StoreInv, Merging, Setting
  <2>3. proc.res = 0
    BY <1>1, <2>1, <2>2 DEF StoreInv, Refusals, Setting
  <2>4. /\ T \in AllTables /\ Others(T) = Others(db)
        /\ T.groups = NewGroups(db, proc.build, proc.plist)
        /\ \A w \in G : Settled(w)
    BY <1>1, <2>1, <2>3, CommitReady
  <2>5. db \in AllTables
    BY <1>1, TablesTyped DEF StoreInv, Typed
  <2>6. Beyond(db, proc.build, G) = Beyond(T, proc.build, G)
    BY <2>4 DEF Others
  <2>7. \A w \in G, p \in DOMAIN PropType : Own(db, proc.build, w, p) # {} =>
          OldRows(T, proc.build, w, p) = ReadRows(db, proc.build, w, p)
    BY <2>2, <2>4 DEF Settled, Is, Adds
  <2> HIDE DEF G
  <2>8. \A b \in Builds, o \in Owners, p \in DOMAIN PropType :
          Own(db, b, o, p) # {} => SameValue(db, T, b, o, p)
    BY <2>4, <2>5, <2>6, <2>7, StoredAsRead
  <2> QED BY <2>1, <2>2, <2>4, <2>8 DEF Adds
<1>2. StoreInv /\ [Next]_vars =>
        [proc.cmd = "mergeBuild" /\ db' # db => db'.groups = db.groups /\ kept]_vars
  BY <1>1
<1> QED BY <1>2, StoreInvariant, PTL DEF Spec, MergeKeeps

----------------------------------------------------------------------------
(* Commands go from a build to the one it inherits from.  Way: they have   *)
(* come along l, the only line there is.                                   *)

Way(t, b, l) ==
    /\ l \in Lines(t, b)
    /\ \A i, j \in DOMAIN l : l[i] = l[j] => i = j
    /\ \A m \in Lines(t, b) : \A i \in DOMAIN m : i <= Len(l) => m[i] = l[i]

(* A look-up comes along l when nothing before the last build stops it.    *)
OnWay(t, b, o, p, l) == Way(t, b, l) /\ \A i \in 1..(Len(l) - 1) : ~Stops(t, l[i], o, p)

(* Builds that inherit from one another, none of which stops the look-up.  *)
Circling(t, o, p, chain) ==
    /\ chain \in Seq(Builds) /\ chain # <<>>
    /\ \E S \in SUBSET Builds : /\ Range(chain) \subseteq S
                                /\ \A x \in S : ~Stops(t, x, o, p) /\ Inherits(t, x) \in S

(* What the second loop has left, and for whom it looks. *)
LooksFor(t, l, o, w) == LET last == l[Len(l)] IN
    IF Original(t, last, o) # None THEN w = Original(t, last, o)
    ELSE w = o /\ Inherits(t, last) = None

(* Nothing before the k-th build of l has a value. *)
NothingBefore(t, l, k, w, p) == \A i \in 1..(k - 1) : Own(t, l[i], w, p) = {}

Again(t, b, o, p, w, chain) ==
    \E l \in Lines(t, b) : \E k \in DOMAIN l :
      /\ OnWay(t, b, o, p, l)
      /\ Own(t, l[Len(l)], o, p) = {}
      /\ LooksFor(t, l, o, w)
      /\ chain = SubSeq(l, k, Len(l))
      /\ NothingBefore(t, l, k, w, p)

(* The first loop: "chain" is the way, the newest build at its end.        *)
Looking(t, b, o, p, chain) ==
    \/ \E l \in Lines(t, b) : OnWay(t, b, o, p, l) /\ chain = Reverse(l)
    \/ Circling(t, o, p, chain)

(* Whose value the look-up under way is after: the project's, or once it   *)
(* is known to have none the build's.                                      *)
Subject == IF proc.then = "build" THEN proc.owner ELSE None

Answer(t, b, o, p) == IF Reached(t, b, o, p) # {} THEN Reached(t, b, o, p) ELSE Reached(t, b, None, p)

Searching ==
    proc.cmd = "query" =>
      /\ proc.at \in {"search", "restart", "build", "exit"}
      /\ (proc.at \in {"search", "restart"} /\ proc.then = "exit") \/ proc.at = "build"
           => proc.owner = None \/ Reached(db, proc.build, proc.owner, proc.prop) = {}
      /\ proc.at = "search" => /\ Looking(db, proc.build, Subject, proc.prop, proc.chain)
                               /\ proc.who = Subject
      /\ proc.at = "restart" => Again(db, proc.build, Subject, proc.prop, proc.who, proc.chain)
      /\ proc.at = "exit" => proc.answer = Answer(db, proc.build, proc.owner, proc.prop)

LEMMA ReverseTwice ==
    ASSUME NEW S, NEW l \in Seq(S)
    PROVE  Reverse(Reverse(l)) = l
<1> DEFINE n == Len(l)
           r == Reverse(l)
<1>1. n \in Nat /\ l \in [1..n -> S]
  BY LenProperties
<1>2. r = [i \in 1..n |-> l[(n - i) + 1]]
  BY DEF Reverse
<1>3. Len(r) = n
  BY <1>1, <1>2
<1>4. \A i \in 1..n : (n - i) + 1 \in 1..n /\ (n - ((n - i) + 1)) + 1 = i
  BY <1>1
<1> HIDE DEF r
<1>5. Reverse(r) = [i \in 1..n |-> r[(n - i) + 1]]
  BY <1>3 DEF Reverse
<1>6. \A i \in 1..n : r[(n - i) + 1] = l[i]
  BY <1>2, <1>4
<1>7. Reverse(r) = [i \in 1..n |-> l[i]]
  BY <1>5, <1>6
<1> QED BY <1>1, <1>7 DEF r

LEMMA ReverseAppend ==
    ASSUME NEW S, NEW l \in Seq(S), NEW x \in S
    PROVE  Reverse(Append(l, x)) = <<x>> \o Reverse(l)
<1> DEFINE n == Len(l)
           k == Append(l, x)
           r == Reverse(l)
           s == <<x>> \o r
<1>1. n \in Nat /\ DOMAIN l = 1..n /\ \A i \in 1..n : l[i] \in S
  BY LenProperties
<1>2. Len(k) = n + 1 /\ k[n + 1] = x /\ \A i \in 1..n : k[i] = l[i]
  BY <1>1
<1> HIDE DEF k
<1>3. Reverse(k) = [i \in 1..(n + 1) |-> k[((n + 1) - i) + 1]]
  BY <1>2 DEF Reverse
<1>4. r = [i \in 1..n |-> l[(n - i) + 1]]
  BY DEF Reverse
<1> HIDE DEF r
<1>5. r \in Seq(S) /\ Len(r) = n
  <2>1. \A i \in 1..n : (n - i) + 1 \in 1..n
    BY <1>1
  <2>2. r \in [1..n -> S]
    BY <1>1, <1>4, <2>1
  <2> QED BY <1>1, <2>2
<1>6. s \in Seq(S) /\ Len(s) = n + 1 /\ s[1] = x /\ \A i \in 2..(n + 1) : s[i] = r[i - 1]
  BY <1>1, <1>5
<1>7. s = [i \in 1..(n + 1) |-> s[i]]
  BY <1>6, LenProperties
<1> HIDE DEF s
<1>8. ASSUME NEW i \in 1..(n + 1)
      PROVE  s[i] = k[((n + 1) - i) + 1]
  <2>1. CASE i = 1
    BY <1>1, <1>2, <1>6, <2>1
  <2>2. CASE i # 1
    <3>1. i \in 2..(n + 1) /\ i - 1 \in 1..n /\ (n - (i - 1)) + 1 = ((n + 1) - i) + 1
          /\ ((n + 1) - i) + 1 \in 1..n
      BY <1>1, <2>2
    <3> QED BY <1>2, <1>4, <1>6, <3>1
  <2> QED BY <2>1, <2>2
<1> QED BY <1>3, <1>7, <1>8 DEF s, k, r

LEMMA ReverseEnds ==
    ASSUME NEW S, NEW l \in Seq(S), l # <<>>
    PROVE  /\ Head(Reverse(l)) = l[Len(l)] /\ Range(Reverse(l)) = Range(l)
           /\ Reverse(l) \in Seq(S) /\ Reverse(l) # <<>>
<1>1. PICK n : n = Len(l)
  OBVIOUS
<1>2. PICK r : r = Reverse(l)
  OBVIOUS
<1>3. n \in Nat /\ n >= 1 /\ DOMAIN l = 1..n /\ \A i \in 1..n : l[i] \in S
  BY <1>1, LenProperties, EmptySeq
<1>4. \A i \in 1..n : (n - i) + 1 \in 1..n /\ (n - ((n - i) + 1)) + 1 = i
  BY <1>3
<1>5. r = [i \in 1..n |-> l[(n - i) + 1]]
  BY <1>1, <1>2 DEF Reverse
<1>6. r \in Seq(S) /\ Len(r) = n /\ DOMAIN r = 1..n
  <2>1. r \in [1..n -> S]
    BY <1>3, <1>4, <1>5
  <2> QED BY <1>3, <2>1
<1>7. Head(r) = l[n] /\ r # <<>>
  BY <1>3, <1>5, <1>6
<1>8. /\ \A i \in 1..n : r[i] = l[(n - i) + 1]
      /\ \A i \in 1..n : l[i] = r[(n - i) + 1]
  BY <1>4, <1>5
<1>9. Range(r) = Range(l)
  BY <1>3, <1>4, <1>6, <1>8 DEF Range
<1> QED BY <1>1, <1>2, <1>6, <1>7, <1>9

LEMMA LinesAre ==
    ASSUME NEW t, NEW b, NEW l
    PROVE  l \in Lines(t, b) <=>
             /\ l \in Seq(Builds) /\ Len(l) \in 1..Cardinality(Builds) /\ l[1] = b
             /\ \A i \in 2..Len(l) : l[i] = Inherits(t, l[i - 1])
<1> DEFINE C == Cardinality(Builds)
<1>1. C \in Nat
  BY BuildsAssumption, FS_CardinalityType
<1> HIDE DEF C
<1>2. \A n \in 1..C : l \in [1..n -> Builds] => l \in Seq(Builds) /\ Len(l) = n
  BY <1>1
<1>3. l \in Seq(Builds) => l \in [1..Len(l) -> Builds]
  BY LenProperties
<1>4. l \in UNION {[1..n -> Builds] : n \in 1..C} <=> l \in Seq(Builds) /\ Len(l) \in 1..C
  BY <1>2, <1>3
<1> QED BY <1>4 DEF Lines, C

LEMMA InheritsTyped ==
    ASSUME NEW t \in AllTables, NEW b
    PROVE  Inherits(t, b) \in Builds \cup {None}
<1> DEFINE rows == Own(t, b, None, "inherits")
<1>1. \A item \in rows : item[2] \in Builds
  BY OwnRows DEF Fits
<1>2. rows # {} => (CHOOSE r \in rows : TRUE) \in rows
  OBVIOUS
<1> HIDE DEF rows
<1>3. Inherits(t, b) = IF rows = {} THEN None ELSE (CHOOSE r \in rows : TRUE)[2]
  BY DEF Inherits, OnePropString, rows
<1> QED BY <1>1, <1>2, <1>3

LEMMA WayBegins ==
    ASSUME NEW t, NEW b \in Builds
    PROVE  Way(t, b, <<b>>)
<1>1. Cardinality(Builds) \in Nat /\ Cardinality(Builds) # 0
  BY BuildsAssumption, FS_CardinalityType, FS_EmptySet
<1>2. <<b>> \in Lines(t, b)
  <2> DEFINE l == <<b>>
  <2>1. l \in Seq(Builds) /\ Len(l) = 1 /\ l[1] = b /\ 1 \in 1..Cardinality(Builds)
    BY <1>1
  <2> HIDE DEF l
  <2>2. l \in Lines(t, b)
    BY <2>1, LinesAre
  <2> QED BY <2>2 DEF l
<1>3. \A m \in Lines(t, b) : m[1] = b /\ DOMAIN m = 1..Len(m) /\ Len(m) \in Nat
  BY LinesAre, LenProperties
<1> QED BY <1>2, <1>3 DEF Way

LEMMA WayGoesOn ==
    ASSUME NEW t, NEW b, NEW l, NEW x \in Builds, Way(t, b, l),
           x = Inherits(t, l[Len(l)]), x \notin Range(l)
    PROVE  Way(t, b, Append(l, x))
<1> DEFINE n == Len(l)
           k == Append(l, x)
<1>1. /\ l \in Seq(Builds) /\ n \in Nat /\ n >= 1 /\ l[1] = b /\ DOMAIN l = 1..n
      /\ \A i \in 2..n : l[i] = Inherits(t, l[i - 1])
      /\ \A i, j \in 1..n : l[i] = l[j] => i = j
      /\ \A m \in Lines(t, b) : \A i \in DOMAIN m : i <= n => m[i] = l[i]
  BY LinesAre, LenProperties DEF Way
<1>2. /\ k \in Seq(Builds) /\ Len(k) = n + 1 /\ k[n + 1] = x /\ DOMAIN k = 1..(n + 1)
      /\ \A i \in 1..n : k[i] = l[i]
  BY <1>1
<1> HIDE DEF k
<1>3. \A i, j \in DOMAIN k : k[i] = k[j] => i = j
  BY <1>1, <1>2 DEF Range
<1>4. n + 1 \in 1..Cardinality(Builds)
  <2>1. k \in Injection(1..(n + 1), Builds)
    BY <1>2, <1>3, LenProperties DEF Injection, IsInjective
  <2>2. Cardinality(1..(n + 1)) <= Cardinality(Builds)
    BY <2>1, BuildsAssumption, FS_Injection
  <2>3. Cardinality(1..(n + 1)) = n + 1
    BY <1>1, FS_Interval
  <2> QED BY <1>1, <2>2, <2>3, BuildsAssumption, FS_CardinalityType
<1>5. \A i \in 2..(n + 1) : k[i] = Inherits(t, k[i - 1])
  <2> TAKE i \in 2..(n + 1)
  <2>1. CASE i = n + 1
    BY <1>1, <1>2, <2>1
  <2>2. CASE i # n + 1
    <3>1. i \in 2..n /\ i - 1 \in 1..n
      BY <1>1, <2>2
    <3> QED BY <1>1, <1>2, <3>1
  <2> QED BY <2>1, <2>2
<1>6. k \in Lines(t, b)
  BY <1>1, <1>2, <1>4, <1>5, LinesAre
<1>7. ASSUME NEW m \in Lines(t, b), NEW i \in DOMAIN m, i <= n + 1
      PROVE  m[i] = k[i]
  <2>1. m \in Seq(Builds) /\ DOMAIN m = 1..Len(m) /\ Len(m) \in Nat
        /\ \A j \in 2..Len(m) : m[j] = Inherits(t, m[j - 1])
    BY LinesAre, LenProperties
  <2>2. CASE i <= n
    BY <1>1, <1>2, <2>1, <2>2
  <2>3. CASE i = n + 1
    <3>1. n \in DOMAIN m /\ m[n] = l[n] /\ i \in 2..Len(m) /\ i - 1 = n
      BY <1>1, <2>1, <2>3
    <3> QED BY <1>2, <2>1, <2>3, <3>1
  <2> QED BY <1>1, <1>7, <2>1, <2>2, <2>3
<1>8. Way(t, b, k)
  BY <1>2, <1>3, <1>6, <1>7 DEF Way
<1> QED BY <1>8 DEF k

LEMMA OnWayGoesOn ==
    ASSUME NEW t, NEW b, NEW o, NEW p, NEW l, NEW x \in Builds,
           OnWay(t, b, o, p, l), ~Stops(t, l[Len(l)], o, p),
           x = Inherits(t, l[Len(l)]), x \notin Range(l)
    PROVE  OnWay(t, b, o, p, Append(l, x))
<1>1. l \in Seq(Builds) /\ Len(l) \in Nat /\ Len(l) >= 1
  BY LinesAre, LenProperties DEF OnWay, Way
<1>2. Len(Append(l, x)) - 1 = Len(l) /\ \A i \in 1..Len(l) : Append(l, x)[i] = l[i]
  BY <1>1
<1>3. \A i \in 1..Len(l) : ~Stops(t, l[i], o, p)
  BY <1>1 DEF OnWay
<1> QED BY <1>2, <1>3, WayGoesOn DEF OnWay

(* The lines that stop: l, or none when nothing on it stops and it ends.   *)
LEMMA OneStop ==
    ASSUME NEW t, NEW b, NEW o, NEW p, NEW l, OnWay(t, b, o, p, l),
           Stops(t, l[Len(l)], o, p) \/ Inherits(t, l[Len(l)]) = None
    PROVE  Stopping(t, b, o, p) = IF Stops(t, l[Len(l)], o, p) THEN {l} ELSE {}
<1> DEFINE n == Len(l)
           stopping(m) == \A i \in DOMAIN m : Stops(t, m[i], o, p) <=> i = Len(m)
<1>1. /\ l \in Seq(Builds) /\ n \in Nat /\ n >= 1 /\ DOMAIN l = 1..n /\ l \in Lines(t, b)
      /\ \A i \in 1..(n - 1) : ~Stops(t, l[i], o, p)
      /\ \A m \in Lines(t, b) : \A i \in DOMAIN m : i <= n => m[i] = l[i]
  BY LinesAre, LenProperties DEF OnWay, Way
<1>2. \A m \in Lines(t, b) : /\ m \in Seq(Builds) /\ Len(m) \in Nat /\ Len(m) >= 1
                             /\ DOMAIN m = 1..Len(m)
                             /\ \A i \in 2..Len(m) : m[i] = Inherits(t, m[i - 1])
                             /\ \A i \in 1..Len(m) : m[i] \in Builds
  BY LinesAre, LenProperties
<1>3. ASSUME Stops(t, l[n], o, p)
      PROVE  {m \in Lines(t, b) : stopping(m)} = {l}
  <2>1. stopping(l)
    BY <1>1, <1>3
  <2>2. ASSUME NEW m \in Lines(t, b), stopping(m)
        PROVE  m = l
    <3>1. Len(m) <= n => Len(m) = n
      BY <1>1, <1>2, <1>3, <2>2
    <3>2. ~(Len(m) > n)
      <4>1. Len(m) > n => n \in DOMAIN m /\ m[n] = l[n] /\ n # Len(m)
        BY <1>1, <1>2
      <4> QED BY <1>3, <2>2, <4>1
    <3>3. Len(m) = n /\ \A i \in 1..n : m[i] = l[i]
      BY <1>1, <1>2, <3>1, <3>2
    <3> QED BY <1>1, <1>2, <3>3, SeqEqual
  <2> QED BY <1>1, <2>1, <2>2
<1>4. ASSUME ~Stops(t, l[n], o, p), Inherits(t, l[n]) = None, NEW m \in Lines(t, b)
      PROVE  ~stopping(m)
  <2>1. CASE Len(m) <= n
    <3>1. m[Len(m)] = l[Len(m)] /\ Len(m) \in 1..n /\ Len(m) \in DOMAIN m
      BY <1>1, <1>2, <2>1
    <3>2. ~Stops(t, l[Len(m)], o, p)
      BY <1>1, <1>4, <3>1
    <3> QED BY <3>1, <3>2
  <2>2. CASE Len(m) > n
    <3>1. n \in DOMAIN m /\ m[n] = l[n] /\ n + 1 \in 2..Len(m) /\ (n + 1) - 1 = n /\ n + 1 \in 1..Len(m)
      BY <1>1, <1>2, <2>2
    <3>2. m[n + 1] = None /\ m[n + 1] \in Builds
      BY <1>2, <1>4, <3>1
    <3> QED BY <3>2, NoneAssumption
  <2> QED BY <1>1, <1>2, <2>1, <2>2
<1> QED BY <1>3, <1>4 DEF Stopping

(* What a look-up should find, at the last build it has come to.           *)
LEMMA ReachedAtOnce ==
    ASSUME NEW t, NEW b, NEW o, NEW p, NEW l, OnWay(t, b, o, p, l), Own(t, l[Len(l)], o, p) # {}
    PROVE  Reached(t, b, o, p) = Own(t, l[Len(l)], o, p)
<1>1. Stops(t, l[Len(l)], o, p)
  BY DEF Stops
<1>2. Stopping(t, b, o, p) = {l}
  BY <1>1, OneStop
<1>3. ~Hidden(t, b, o, p) /\ Found(t, b, o, p) = Own(t, l[Len(l)], o, p)
  BY <1>2 DEF Hidden, Found
<1> QED BY <1>3 DEF Reached

(* The nearest build with a value, once the way has come past it.          *)
LEMMA NearestIs ==
    ASSUME NEW t, NEW b, NEW l, Way(t, b, l), NEW w, NEW p, NEW k \in DOMAIN l,
           NothingBefore(t, l, k, w, p), Own(t, l[k], w, p) # {}
    PROVE  Nearest(t, b, w, p) = Own(t, l[k], w, p)
<1> DEFINE n == Len(l)
           near == {m \in Lines(t, b) : \A i \in 1..(Len(m) - 1) : Own(t, m[i], w, p) = {}}
           upto == SubSeq(l, 1, k)
<1>1. /\ l \in Seq(Builds) /\ n \in 1..Cardinality(Builds) /\ Cardinality(Builds) \in Nat
      /\ k \in 1..n /\ DOMAIN l = 1..n /\ l[1] = b
      /\ \A i \in 2..n : l[i] = Inherits(t, l[i - 1])
      /\ \A m \in Lines(t, b) : \A i \in DOMAIN m : i <= n => m[i] = l[i]
  BY LinesAre, LenProperties, BuildsAssumption, FS_CardinalityType DEF Way
<1>2. upto \in Seq(Builds) /\ Len(upto) = k /\ \A i \in 1..k : upto[i] = l[i]
  BY <1>1, SubSeqProperties
<1> HIDE DEF upto
<1>3. upto \in near
  <2>1. upto \in Lines(t, b)
    <3>1. k \in 1..Cardinality(Builds) /\ upto[1] = b
      BY <1>1, <1>2
    <3>2. \A i \in 2..k : i - 1 \in 1..k /\ i \in 1..k /\ i \in 2..n
      BY <1>1
    <3>3. \A i \in 2..k : upto[i] = Inherits(t, upto[i - 1])
      BY <1>1, <1>2, <3>2
    <3> QED BY <1>2, <3>1, <3>3, LinesAre
  <2>2. \A i \in 1..(Len(upto) - 1) : Own(t, upto[i], w, p) = {}
    <3>1. \A i \in 1..(k - 1) : i \in 1..k
      BY <1>1
    <3> QED BY <1>2, <3>1 DEF NothingBefore
  <2> QED BY <2>1, <2>2
<1>4. ASSUME NEW m \in near
      PROVE  Own(t, m[Len(m)], w, p) \in {{}, Own(t, l[k], w, p)}
  <2>1. /\ Len(m) \in Nat /\ Len(m) >= 1 /\ DOMAIN m = 1..Len(m)
        /\ \A i \in 1..Len(m) : i <= n => m[i] = l[i]
    BY <1>1, LinesAre, LenProperties
  <2>2. Len(m) <= k
    <3>1. CASE Len(m) > k
      <4>1. k \in 1..(Len(m) - 1) /\ m[k] = l[k]
        BY <1>1, <2>1, <3>1
      <4> QED BY <4>1
    <3> QED BY <1>1, <2>1, <3>1
  <2>3. m[Len(m)] = l[Len(m)]
    BY <1>1, <2>1, <2>2
  <2>4. Len(m) = k \/ Len(m) \in 1..(k - 1)
    BY <1>1, <2>1, <2>2
  <2> QED BY <2>3, <2>4 DEF NothingBefore
<1>5. upto[Len(upto)] = l[k]
  BY <1>1, <1>2
<1> HIDE DEF near
<1>6. UNION {Own(t, m[Len(m)], w, p) : m \in near} = Own(t, l[k], w, p)
  BY <1>3, <1>4, <1>5
<1> QED BY <1>6 DEF Nearest, near

LEMMA ReachedAgain ==
    ASSUME NEW t, NEW b, NEW o, NEW p, NEW l, OnWay(t, b, o, p, l), NEW w, NEW k \in DOMAIN l,
           Own(t, l[Len(l)], o, p) = {}, LooksFor(t, l, o, w),
           NothingBefore(t, l, k, w, p),
           Own(t, l[k], w, p) # {} \/ k = Len(l)
    PROVE  Reached(t, b, o, p) = Own(t, l[k], w, p)
<1> DEFINE n == Len(l)
<1>1. n \in Nat /\ n >= 1 /\ DOMAIN l = 1..n /\ \A i \in 1..(n - 1) : ~Stops(t, l[i], o, p)
  BY LinesAre, LenProperties DEF OnWay, Way
<1>2. CASE Original(t, l[n], o) # None
  <2>1. w = Original(t, l[n], o) /\ Stops(t, l[n], o, p)
    BY <1>2 DEF LooksFor, Stops
  <2>2. Stopping(t, b, o, p) = {l}
    BY <2>1, OneStop
  <2>3. /\ Hidden(t, b, o, p) <=> \A i \in 1..n : Own(t, l[i], w, p) = {}
        /\ Found(t, b, o, p) = Nearest(t, b, w, p)
    BY <1>1, <2>1, <2>2 DEF Hidden, Found
  <2>4. CASE Own(t, l[k], w, p) # {}
    <3>1. Nearest(t, b, w, p) = Own(t, l[k], w, p)
      BY <2>4, NearestIs DEF OnWay
    <3> QED BY <1>1, <2>3, <2>4, <3>1 DEF Reached
  <2>5. CASE Own(t, l[k], w, p) = {}
    <3>1. k = n /\ \A i \in 1..n : i = k \/ i \in 1..(k - 1)
      BY <1>1, <2>5
    <3>2. Hidden(t, b, o, p)
      BY <2>3, <2>5, <3>1 DEF NothingBefore
    <3> QED BY <2>5, <3>2 DEF Reached
  <2> QED BY <2>4, <2>5
<1>3. CASE Original(t, l[n], o) = None
  <2>1. w = o /\ Inherits(t, l[n]) = None /\ ~Stops(t, l[n], o, p)
    BY <1>3 DEF LooksFor, Stops
  <2>2. Stopping(t, b, o, p) = {}
    BY <2>1, OneStop
  <2>3. Reached(t, b, o, p) = {}
    BY <2>2 DEF Reached, Hidden, Found
  <2>4. ~Stops(t, l[k], o, p)
    BY <1>1, <2>1
  <2> QED BY <2>1, <2>3, <2>4 DEF Stops
<1> QED BY <1>2, <1>3

(* One build of the first loop, and one of the second.                     *)
LEMMA SearchedOne ==
    ASSUME NEW t \in AllTables, NEW b, NEW o, NEW p, NEW chain, Looking(t, b, o, p, chain),
           NEW head, head = Head(chain), NEW value, value = Own(t, head, o, p),
           NEW alias, alias = Original(t, head, o), NEW older, older = Inherits(t, head)
    PROVE  /\ value # {} => value = Reached(t, b, o, p)
           /\ value = {} /\ (alias # None \/ older = None)
                => Again(t, b, o, p, IF alias = None THEN o ELSE alias, Reverse(chain))
           /\ value = {} /\ alias = None /\ older # None
                => IF older \in Range(chain) THEN Looking(t, b, o, p, <<older>>)
                   ELSE Looking(t, b, o, p, <<older>> \o chain)
<1>1. older \in Builds \cup {None}
  BY InheritsTyped
<1>2. older # None => /\ <<older>> \in Seq(Builds) /\ <<older>> # <<>>
                      /\ Range(<<older>>) = {older}
  <2>1. Range(<<older>>) = {older}
    BY DEF Range
  <2> QED BY <1>1, <2>1
<1>3. CASE Circling(t, o, p, chain)
  <2>1. PICK S \in SUBSET Builds : /\ Range(chain) \subseteq S
                                   /\ \A x \in S : ~Stops(t, x, o, p) /\ Inherits(t, x) \in S
    BY <1>3 DEF Circling
  <2>2. chain \in Seq(Builds) /\ chain # <<>>
    BY <1>3 DEF Circling
  <2>3. head \in S
    <3>1. 1 \in DOMAIN chain /\ head = chain[1]
      BY <2>2
    <3> QED BY <2>1, <3>1 DEF Range
  <2>4. value = {} /\ alias = None /\ older \in S /\ older # None
    BY <2>1, <2>3, NoneAssumption DEF Stops
  <2>5. Circling(t, o, p, <<older>>)
    BY <1>2, <2>1, <2>4 DEF Circling
  <2>6. Circling(t, o, p, <<older>> \o chain)
    <3>1. /\ <<older>> \o chain \in Seq(Builds) /\ <<older>> \o chain # <<>>
          /\ Range(<<older>> \o chain) = Range(<<older>>) \cup Range(chain)
      <4> DEFINE one == <<older>>
      <4>1. one \in Seq(Builds) /\ one # <<>>
        BY <1>2, <2>4
      <4> HIDE DEF one
      <4>2. one \o chain \in Seq(Builds) /\ Range(one \o chain) = Range(one) \cup Range(chain)
        BY <2>2, <4>1, RangeConcatenation, ConcatProperties
      <4>3. one \o chain # <<>>
        BY <2>2, <4>1, ConcatEqualIffEmpty, ConcatProperties, EmptySeq
      <4> QED BY <4>2, <4>3 DEF one
    <3> QED BY <1>2, <2>1, <2>4, <3>1 DEF Circling
  <2> QED BY <2>4, <2>5, <2>6 DEF Looking
<1>4. CASE \E l \in Lines(t, b) : OnWay(t, b, o, p, l) /\ chain = Reverse(l)
  <2>1. PICK l \in Lines(t, b) : OnWay(t, b, o, p, l) /\ chain = Reverse(l)
    BY <1>4
  <2>0. PICK n : n = Len(l)
    OBVIOUS
  <2>2. l \in Seq(Builds) /\ n \in Nat /\ n >= 1 /\ DOMAIN l = 1..n /\ l \in Lines(t, b)
    BY <2>0, <2>1, LinesAre, LenProperties DEF OnWay, Way
  <2>3. head = l[n] /\ Range(chain) = Range(l)
    BY <2>0, <2>1, <2>2, EmptySeq, ReverseEnds
  <2>4. value # {} => value = Reached(t, b, o, p)
    BY <2>0, <2>1, <2>3, ReachedAtOnce
  <2>5. ASSUME value = {}, alias # None \/ older = None
        PROVE  Again(t, b, o, p, IF alias = None THEN o ELSE alias, Reverse(chain))
    <3> DEFINE w == IF alias = None THEN o ELSE alias
    <3>1. Reverse(chain) = l
      BY <2>1, <2>2, ReverseTwice
    <3>2. l = SubSeq(l, 1, n) /\ 1 \in DOMAIN l
      BY <2>0, <2>2, SubSeqFull
    <3>3. LooksFor(t, l, o, w)
      BY <2>0, <2>3, <2>5 DEF LooksFor
    <3> HIDE DEF w
    <3>4. NothingBefore(t, l, 1, w, p)
      BY DEF NothingBefore
    <3>5. Own(t, l[n], o, p) = {}
      BY <2>3, <2>5
    <3>6. Again(t, b, o, p, w, l)
      BY <2>0, <2>1, <2>2, <3>2, <3>3, <3>4, <3>5 DEF Again
    <3> QED BY <3>1, <3>6 DEF w
  <2>6. ASSUME value = {}, alias = None, older # None, older \in Range(chain)
        PROVE  Circling(t, o, p, <<older>>)
    <3>1. ASSUME NEW x \in Range(l)
          PROVE  ~Stops(t, x, o, p) /\ Inherits(t, x) \in Range(l) /\ x \in Builds
      <4>1. PICK i \in 1..n : x = l[i]
        BY <2>2 DEF Range
      <4>2. x \in Builds
        BY <2>2, <4>1
      <4>3. CASE i = n
        BY <2>3, <2>6, <4>1, <4>2, <4>3 DEF Stops
      <4>4. CASE i # n
        <5>1. i \in 1..(n - 1) /\ i + 1 \in 2..n /\ (i + 1) - 1 = i /\ i + 1 \in DOMAIN l
          BY <2>2, <4>4
        <5>2. l[i + 1] = Inherits(t, l[(i + 1) - 1])
          BY <2>0, <2>2, <5>1, LinesAre
        <5>3. ~Stops(t, x, o, p)
          BY <2>0, <2>1, <4>1, <5>1 DEF OnWay, Way
        <5> QED BY <4>1, <4>2, <5>1, <5>2, <5>3 DEF Range
      <4> QED BY <4>3, <4>4
    <3>2. Range(l) \in SUBSET Builds
      BY <3>1
    <3> QED BY <1>2, <2>3, <2>6, <3>1, <3>2 DEF Circling
  <2>7. ASSUME value = {}, alias = None, older # None, older \notin Range(chain)
        PROVE  OnWay(t, b, o, p, Append(l, older)) /\ <<older>> \o chain = Reverse(Append(l, older))
    <3>1. older \in Builds /\ older \notin Range(l) /\ ~Stops(t, l[Len(l)], o, p)
      BY <1>1, <2>0, <2>3, <2>7 DEF Stops
    <3>2. OnWay(t, b, o, p, Append(l, older))
      BY <2>0, <2>1, <2>3, <3>1, OnWayGoesOn
    <3>3. Reverse(Append(l, older)) = <<older>> \o Reverse(l)
      BY <2>2, <3>1, ReverseAppend
    <3> QED BY <2>1, <3>2, <3>3
  <2> QED BY <2>4, <2>5, <2>6, <2>7 DEF Looking, OnWay, Way
<1> QED BY <1>3, <1>4 DEF Looking

LEMMA LookedAgain ==
    ASSUME NEW t, NEW b, NEW o, NEW p, NEW w, NEW chain, Again(t, b, o, p, w, chain),
           NEW value, value = Own(t, Head(chain), w, p)
    PROVE  IF value # {} \/ Len(chain) = 1 THEN value = Reached(t, b, o, p)
           ELSE Again(t, b, o, p, w, Tail(chain))
<1>1. PICK l, k :
        /\ l \in Lines(t, b) /\ k \in DOMAIN l
        /\ OnWay(t, b, o, p, l)
        /\ Own(t, l[Len(l)], o, p) = {}
        /\ LooksFor(t, l, o, w)
        /\ chain = SubSeq(l, k, Len(l))
        /\ NothingBefore(t, l, k, w, p)
  BY DEF Again
<1>2. PICK n : n = Len(l)
  OBVIOUS
<1>3. l \in Seq(Builds) /\ n \in Nat /\ k \in 1..n /\ DOMAIN l = 1..n
  BY <1>1, <1>2, LinesAre, LenProperties
<1>4. Len(chain) = (n - k) + 1 /\ Head(chain) = l[k] /\ Tail(chain) = SubSeq(l, k + 1, n)
  <2>1. chain = SubSeq(l, k, n)
    BY <1>1, <1>2
  <2> QED BY <1>2, <1>3, <2>1, SubSeqProperties, HeadTailOfSubSeq
<1>5. value = Own(t, l[k], w, p)
  BY <1>4
<1>6. Len(chain) = 1 <=> k = n
  BY <1>3, <1>4
<1>7. CASE value # {} \/ Len(chain) = 1
  <2>1. Own(t, l[k], w, p) # {} \/ k = Len(l)
    BY <1>2, <1>5, <1>6, <1>7
  <2>2. Reached(t, b, o, p) = Own(t, l[k], w, p)
    BY <1>1, <2>1, ReachedAgain
  <2> QED BY <1>5, <1>7, <2>2
<1>8. CASE ~(value # {} \/ Len(chain) = 1)
  <2>1. k + 1 \in DOMAIN l
    BY <1>3, <1>6, <1>8
  <2>2. NothingBefore(t, l, k + 1, w, p)
    <3>1. \A i \in 1..((k + 1) - 1) : i = k \/ i \in 1..(k - 1)
      BY <1>3
    <3> QED BY <1>1, <1>5, <1>8, <3>1 DEF NothingBefore
  <2> QED BY <1>1, <1>2, <1>4, <1>8, <2>1, <2>2 DEF Again
<1> QED BY <1>7, <1>8

(* A look-up begins with the build asked for alone.                        *)
LEMMA LookingBegins ==
    ASSUME NEW t, NEW b \in Builds, NEW o, NEW p
    PROVE  Looking(t, b, o, p, <<b>>)
<1>1. <<b>> = Reverse(<<b>>)
  BY DEF Reverse
<1>2. OnWay(t, b, o, p, <<b>>)
  BY WayBegins DEF OnWay
<1> QED BY <1>1, <1>2 DEF Looking, OnWay, Way

(* What has been reached for the subject is the answer.                    *)
LEMMA Answered ==
    ASSUME NEW t, NEW b, NEW o, NEW p, NEW s, NEW value, value = Reached(t, b, s, p),
           \/ s = o /\ value # {}
           \/ s = None /\ (o = None \/ Reached(t, b, o, p) = {})
    PROVE  value = Answer(t, b, o, p)
BY DEF Answer

LEMMA SearchStep ==
    ASSUME StoreInv, Searching, Search, proc.cmd = "query"
    PROVE  Searching'
<1> DEFINE s == Subject
<1>1. proc.at = "search" /\ UNCHANGED sqlite /\ nested' = nested
  BY DEF Search, At
<1>2. db' = db /\ T = db /\ db \in AllTables /\ proc.build \in Builds
  BY <1>1, OnlyReads DEF Quiet
<1>3. /\ Fields /\ proc.then \in {"exit", "build"}
      /\ Looking(db, proc.build, s, proc.prop, proc.chain) /\ proc.who = s
      /\ proc.then = "exit" => proc.owner = None \/ Reached(db, proc.build, proc.owner, proc.prop) = {}
      /\ s = IF proc.then = "build" THEN proc.owner ELSE None
  BY <1>1 DEF StoreInv, Typed, Searching, Subject
<1> HIDE DEF s
<1>4. PICK head, value, alias, older :
        /\ head = Head(proc.chain) /\ value = Own(db, head, s, proc.prop)
        /\ alias = Original(db, head, s) /\ older = Inherits(db, head)
  OBVIOUS
<1>5. proc' = IF value # {} THEN [proc EXCEPT !.at = "exit", !.answer = value]
              ELSE IF alias # None \/ older = None
                   THEN [proc EXCEPT !.at = "restart", !.chain = Reverse(proc.chain),
                                     !.who = IF alias = None THEN proc.who ELSE alias]
              ELSE IF older \in Range(proc.chain) THEN [proc EXCEPT !.chain = <<older>>]
              ELSE [proc EXCEPT !.chain = <<older>> \o proc.chain]
  BY <1>2, <1>3, <1>4 DEF Search, SearchBuild
<1>6. /\ proc'.cmd = "query" /\ proc'.build = proc.build /\ proc'.owner = proc.owner
      /\ proc'.prop = proc.prop /\ proc'.then = proc.then
  BY <1>3, <1>5 DEF Fields
<1>10. Subject' = s
  BY <1>3, <1>6 DEF Subject
<1>0. /\ value # {} => value = Reached(db, proc.build, s, proc.prop)
      /\ value = {} /\ (alias # None \/ older = None)
           => Again(db, proc.build, s, proc.prop, IF alias = None THEN s ELSE alias,
                    Reverse(proc.chain))
      /\ value = {} /\ alias = None /\ older # None
           => IF older \in Range(proc.chain)
              THEN Looking(db, proc.build, s, proc.prop, <<older>>)
              ELSE Looking(db, proc.build, s, proc.prop, <<older>> \o proc.chain)
  BY <1>2, <1>3, <1>4, SearchedOne
<1>7. CASE value # {}
  <2>1. proc'.at = "exit" /\ proc'.answer = value
    BY <1>3, <1>5, <1>7 DEF Fields
  <2>2. value = Answer(db, proc.build, proc.owner, proc.prop)
    BY <1>0, <1>3, <1>7, Answered
  <2> QED BY <1>2, <1>6, <2>1, <2>2 DEF Searching
<1>8. CASE value = {} /\ (alias # None \/ older = None)
  <2>1. /\ proc'.at = "restart" /\ proc'.chain = Reverse(proc.chain)
        /\ proc'.who = IF alias = None THEN s ELSE alias
    BY <1>3, <1>5, <1>8 DEF Fields
  <2>2. Again(db, proc.build, s, proc.prop, proc'.who, proc'.chain)
    BY <1>0, <1>8, <2>1
  <2> QED BY <1>2, <1>3, <1>6, <1>10, <2>1, <2>2 DEF Searching
<1>9. CASE value = {} /\ alias = None /\ older # None
  <2>1. /\ proc'.at = "search" /\ proc'.who = s
        /\ proc'.chain = IF older \in Range(proc.chain) THEN <<older>> ELSE <<older>> \o proc.chain
    BY <1>1, <1>3, <1>5, <1>9 DEF Fields
  <2>2. Looking(db, proc.build, s, proc.prop, proc'.chain)
    BY <1>0, <1>9, <2>1
  <2> QED BY <1>2, <1>3, <1>6, <1>10, <2>1, <2>2 DEF Searching
<1> QED BY <1>7, <1>8, <1>9

LEMMA RestartStep ==
    ASSUME StoreInv, Searching, Restart, proc.cmd = "query"
    PROVE  Searching'
<1> DEFINE s == Subject
<1>1. proc.at = "restart" /\ UNCHANGED sqlite /\ nested' = nested
  BY DEF Restart, At
<1>2. db' = db /\ T = db
  BY <1>1, OnlyReads DEF Quiet
<1>3. /\ Fields /\ proc.then \in {"exit", "build"}
      /\ Again(db, proc.build, s, proc.prop, proc.who, proc.chain)
      /\ proc.then = "exit" => proc.owner = None \/ Reached(db, proc.build, proc.owner, proc.prop) = {}
      /\ s = IF proc.then = "build" THEN proc.owner ELSE None
  BY <1>1 DEF StoreInv, Typed, Searching, Subject
<1> HIDE DEF s
<1>4. PICK value : value = Own(db, Head(proc.chain), proc.who, proc.prop)
  OBVIOUS
<1>5. proc' = [proc EXCEPT !.at = IF value # {} THEN "exit"
                                  ELSE IF Len(proc.chain) = 1 THEN proc.then ELSE @,
                           !.answer = value, !.chain = Tail(@)]
  BY <1>2, <1>4 DEF Restart
<1>6. /\ proc'.at = IF value # {} THEN "exit"
                    ELSE IF Len(proc.chain) = 1 THEN proc.then ELSE "restart"
      /\ proc'.answer = value /\ proc'.chain = Tail(proc.chain) /\ proc'.cmd = "query"
      /\ proc'.build = proc.build /\ proc'.owner = proc.owner /\ proc'.prop = proc.prop
      /\ proc'.who = proc.who /\ proc'.then = proc.then
  BY <1>1, <1>3, <1>5 DEF Fields
<1>7. IF value # {} \/ Len(proc.chain) = 1 THEN value = Reached(db, proc.build, s, proc.prop)
      ELSE Again(db, proc.build, s, proc.prop, proc.who, Tail(proc.chain))
  BY <1>3, <1>4, LookedAgain
<1>8. Subject' = s
  BY <1>3, <1>6 DEF Subject
<1>9. CASE proc'.at = "exit"
  <2>1. value = Answer(db, proc.build, proc.owner, proc.prop)
    BY <1>3, <1>6, <1>7, <1>9, Answered
  <2> QED BY <1>2, <1>6, <1>9, <2>1 DEF Searching
<1>10. CASE proc'.at = "build"
  <2>1. Reached(db, proc.build, proc.owner, proc.prop) = {}
    BY <1>3, <1>6, <1>7, <1>10
  <2> QED BY <1>2, <1>6, <1>10, <2>1 DEF Searching
<1>11. CASE proc'.at = "restart"
  <2>1. value = {} /\ Len(proc.chain) # 1
    BY <1>3, <1>6, <1>11
  <2> QED BY <1>2, <1>3, <1>6, <1>7, <1>8, <1>11, <2>1 DEF Searching
<1> QED BY <1>3, <1>6, <1>9, <1>10, <1>11

LEMMA LookInBuildStep ==
    ASSUME StoreInv, Searching, LookInBuild, proc.cmd = "query"
    PROVE  Searching'
<1>1. proc.at = "build" /\ UNCHANGED sqlite /\ nested' = nested
  BY DEF LookInBuild, At
<1>2. db' = db /\ proc.build \in Builds
  BY <1>1, OnlyReads DEF Quiet
<1>3. Fields /\ (proc.owner = None \/ Reached(db, proc.build, proc.owner, proc.prop) = {})
  BY <1>1 DEF StoreInv, Typed, Searching
<1>4. /\ proc'.at = "search" /\ proc'.who = None /\ proc'.chain = <<proc.build>>
      /\ proc'.then = "exit" /\ proc'.cmd = "query"
      /\ proc'.build = proc.build /\ proc'.owner = proc.owner /\ proc'.prop = proc.prop
  BY <1>3 DEF LookInBuild, Fields
<1>5. Subject' = None /\ Looking(db, proc.build, None, proc.prop, <<proc.build>>)
  BY <1>2, <1>4, LookingBegins DEF Subject
<1> QED BY <1>2, <1>3, <1>4, <1>5 DEF Searching

LEMMA QueryBegins ==
    ASSUME Command, proc'.cmd = "query"
    PROVE  Searching'
<1>1. Query
  BY RestingIdle DEF Command, LoadIndex, Edit, MergeBuild, Dependencies, Start
<1>2. PICK b \in Builds, o \in Owners, p \in DOMAIN PropType :
        /\ proc' = [Resting EXCEPT !.at = "search", !.cmd = "query", !.build = b, !.owner = o,
                                   !.prop = p, !.who = o, !.chain = <<b>>,
                                   !.then = IF o = None THEN "exit" ELSE "build"]
        /\ db' = db
  BY <1>1 DEF Query, Start, sqlite
<1>3. /\ proc'.at = "search" /\ proc'.build = b /\ proc'.owner = o /\ proc'.prop = p
      /\ proc'.who = o /\ proc'.chain = <<b>>
      /\ proc'.then = IF o = None THEN "exit" ELSE "build"
  BY <1>2, RestingIdle
<1>4. Subject' = o
  BY <1>3 DEF Subject
<1>5. Looking(db, b, o, p, <<b>>)
  BY LookingBegins
<1> QED BY <1>2, <1>3, <1>4, <1>5 DEF Searching

LEMMA SameCommand ==
    ASSUME Fields, User \/ (Step /\ ~Search /\ ~Restart /\ ~LookInBuild /\ ~Exit)
    PROVE  proc'.cmd = proc.cmd /\ proc.at \notin {"search", "restart", "build", "exit"}
<1>1. CASE EditorSaves
  BY <1>1 DEF EditorSaves, Storing, Fields
<1>2. CASE EditorCancels \/ Quit
  BY <1>2 DEF EditorCancels, Quit, At, Goto, Fields
<1>3. CASE Walk
  <2>1. \/ \E at : proc' = [proc EXCEPT !.at = at]
        \/ \E c : proc' = [proc EXCEPT !.chain = c]
    BY <1>3 DEF Walk
  <2> QED BY <1>3, <2>1 DEF Walk, At, Fields
<1>4. CASE CopyForEditor \/ CopyOld
  BY <1>4 DEF CopyForEditor, CopyOld, At, Fields
<1>5. CASE CopyNew
  BY <1>5 DEF CopyNew, Storing, At, Fields
<1>6. CASE PrintRoot \/ Printed
  BY <1>6 DEF PrintRoot, Printed, At, Goto, Fields
<1>7. CASE Visit
  <2>1. \/ \E s : proc' = [proc EXCEPT !.stack = s]
        \/ \E x, s : proc' = [proc EXCEPT !.printed = x, !.stack = s]
    BY <1>7 DEF Visit
  <2> QED BY <1>7, <2>1 DEF Visit, At, Fields
<1>8. CASE SetPlistRefused \/ BeginFails \/ CommitTransaction
  <2>1. proc.at \in {"set_plist", "commit"} /\ \E res : proc' = Return(res)
    BY <1>8 DEF SetPlistRefused, BeginFails, CommitTransaction, At
  <2> QED BY <2>1 DEF Return, Fields
<1>9. CASE BeginTransaction \/ DeletedAll \/ InsertedAll \/ PropsSet \/ ProjectsSet \/ NoGroups
           \/ GroupsSet
  <2>1. proc.at \in Setting /\ \E at : proc' = [proc EXCEPT !.at = at]
    BY <1>9 DEF BeginTransaction, DeletedAll, InsertedAll, PropsSet, ProjectsSet, NoGroups,
                GroupsSet, At, Goto, Setting
  <2> QED BY <2>1 DEF Fields, Setting
<1>10. CASE SelectNames \/ DeleteProp \/ InsertItem \/ SetPropRefused \/ DeleteGroups \/ InsertMember
  BY <1>10 DEF SelectNames, DeleteProp, InsertItem, SetPropRefused, DeleteGroups, InsertMember,
               At, Fields
<1>11. CASE SetProp
  BY <1>11 DEF SetProp, InTop, At, Fields
<1>12. CASE SetProject
  BY <1>12 DEF SetProject, InTop, At, Fields
<1> QED BY <1>1, <1>2, <1>3, <1>4, <1>5, <1>6, <1>7, <1>8, <1>9, <1>10, <1>11, <1>12 DEF User, Step

LEMMA SearchingKept ==
    ASSUME StoreInv, Searching, [Next]_vars
    PROVE  Searching'
<1> SUFFICES ASSUME proc'.cmd = "query"
             PROVE  Searching'
  BY DEF Searching
<1>0. Fields
  BY DEF StoreInv, Typed
<1>1. CASE Command
  BY <1>1, QueryBegins
<1>2. CASE Exit \/ Crash
  BY <1>2, RestingIdle DEF Exit, Crash
<1>3. CASE ReaderReads \/ ReaderEnds \/ UNCHANGED vars
  BY <1>3 DEF ReaderReads, ReaderEnds, Close, vars, Searching, Subject
<1>4. CASE Search \/ Restart \/ LookInBuild
  <2>1. proc.cmd = "query"
    <3>1. CASE Search
      BY <1>0, <3>1 DEF Search, SearchBuild, Fields
    <3>2. CASE Restart
      BY <1>0, <3>2 DEF Restart, Fields
    <3>3. CASE LookInBuild
      BY <1>0, <3>3 DEF LookInBuild, Fields
    <3> QED BY <1>4, <3>1, <3>2, <3>3
  <2> QED BY <1>4, <2>1, SearchStep, RestartStep, LookInBuildStep
<1>5. CASE User \/ (Step /\ ~Search /\ ~Restart /\ ~LookInBuild /\ ~Exit)
  BY <1>0, <1>5, SameCommand DEF Searching
<1> QED BY <1>1, <1>2, <1>3, <1>4, <1>5 DEF Next

(* query answers with the value that the comment on the search promises,   *)
(* for the project or else for the build, unless the value is hidden behind *)
(* an alias; then it answers as if there were none, never with the value   *)
(* of another project or of a build farther away.                          *)
THEOREM LookUpsAreSound == Spec => []SearchSound
<1>1. Init => Searching
  BY RestingIdle DEF Init, Searching
<1>2. StoreInv /\ Searching /\ [Next]_vars => Searching'
  BY SearchingKept
<1>3. Searching => SearchSound
  BY DEF Searching, SearchSound, Answer
<1> QED BY <1>1, <1>2, <1>3, StoreInvariant, PTL DEF Spec

----------------------------------------------------------------------------
(* The dependencies of a project.  A list is known from the builds that    *)
(* make it, without a loop: the last one to replace it, and what is added  *)
(* and taken away from there on.                                           *)

BaseOf(t, builds, o, type, j) == Listed(t, builds[j], o, "", type)

ListBegun(t, builds, o, type, m) == \E j \in 1..m : BaseOf(t, builds, o, type, j) # {}

(* The i-th build brings q in, and it stays until the m-th. *)
Brings(t, builds, o, type, q, i) ==
    \/ q \in Listed(t, builds[i], o, "+", type) /\ ListBegun(t, builds, o, type, i)
    \/ q \in BaseOf(t, builds, o, type, i) /\ q \notin Listed(t, builds[i], o, "-", type)

Leaves(t, builds, o, type, q, i, m) ==
    \A j \in (i + 1)..m : /\ BaseOf(t, builds, o, type, j) = {}
                          /\ q \notin Listed(t, builds[j], o, "-", type)

ListAt(t, builds, o, type, m) ==
    IF ListBegun(t, builds, o, type, m)
    THEN {q \in Projects : \E i \in 1..m : /\ Brings(t, builds, o, type, q, i)
                                           /\ Leaves(t, builds, o, type, q, i, m)}
    ELSE NoList

LEMMA LeastIndex ==
    ASSUME NEW S \in SUBSET Nat, S # {}
    PROVE  \E m \in S : \A j \in S : ~(j < m)
<1> DEFINE less == {ss \in Nat \X Nat : ss[1] < ss[2]}
<1>1. less = OpToRel(<, Nat)
  BY Zenon DEF OpToRel
<1>2. IsWellFoundedOn(less, Nat)
  BY <1>1, NatLessThanWellFounded, Zenon
<1>3. \A j, m \in Nat : <<j, m>> \in less <=> j < m
  OBVIOUS
<1> HIDE DEF less
<1>4. \E m \in S : \A j \in S : <<j, m>> \notin less
  BY <1>2, WFMin
<1> QED BY <1>3, <1>4

LEMMA ListedTyped ==
    ASSUME NEW t \in AllTables, NEW b, NEW o, NEW sign, NEW type
    PROVE  Listed(t, b, o, sign, type) \in SUBSET Projects
<1>1. \A item \in Own(t, b, o, "dependencies") : item[2] \in Projects
  BY OwnRows DEF Fits
<1> QED BY <1>1 DEF Listed

LEMMA ReviseOnce ==
    ASSUME NEW t \in AllTables, NEW builds, NEW o, NEW type, NEW m \in Nat, m >= 1
    PROVE  ListAt(t, builds, o, type, m)
           = Revised(t, builds[m], o, type, ListAt(t, builds, o, type, m - 1))
<1> DEFINE base == Listed(t, builds[m], o, "", type)
           minus == Listed(t, builds[m], o, "-", type)
           plus == Listed(t, builds[m], o, "+", type)
           before == ListAt(t, builds, o, type, m - 1)
<1>1. base \in SUBSET Projects /\ plus \in SUBSET Projects /\ None \notin Projects
  BY ListedTyped, NoneAssumption
<1>2. base = BaseOf(t, builds, o, type, m)
  BY DEF BaseOf
<1> HIDE DEF base
<1>3. ListBegun(t, builds, o, type, m) <=> ListBegun(t, builds, o, type, m - 1) \/ base # {}
  <2>1. \A j : j \in 1..m <=> j = m \/ j \in 1..(m - 1)
    OBVIOUS
  <2> QED BY <1>2, <2>1 DEF ListBegun
<1>4. ASSUME NEW q
      PROVE  /\ Leaves(t, builds, o, type, q, m, m)
             /\ \A i \in 1..(m - 1) : Leaves(t, builds, o, type, q, i, m)
                  <=> Leaves(t, builds, o, type, q, i, m - 1) /\ base = {} /\ q \notin minus
             /\ Brings(t, builds, o, type, q, m)
                  <=> (q \in plus /\ ListBegun(t, builds, o, type, m)) \/ (q \in base /\ q \notin minus)
  <2>1. Leaves(t, builds, o, type, q, m, m)
    BY DEF Leaves
  <2>2. ASSUME NEW i \in 1..(m - 1)
        PROVE  Leaves(t, builds, o, type, q, i, m)
                 <=> Leaves(t, builds, o, type, q, i, m - 1) /\ base = {} /\ q \notin minus
    <3>1. \A j : j \in (i + 1)..m <=> j = m \/ j \in (i + 1)..(m - 1)
      OBVIOUS
    <3> QED BY <1>2, <3>1 DEF Leaves
  <2>3. Brings(t, builds, o, type, q, m)
          <=> (q \in plus /\ ListBegun(t, builds, o, type, m)) \/ (q \in base /\ q \notin minus)
    BY <1>2 DEF Brings
  <2> QED BY <2>1, <2>2, <2>3
<1> DEFINE brought(q, k) == \E i \in 1..k : /\ Brings(t, builds, o, type, q, i)
                                            /\ Leaves(t, builds, o, type, q, i, k)
<1>5. ASSUME NEW q
      PROVE  brought(q, m) <=> \/ q \in plus /\ ListBegun(t, builds, o, type, m)
                               \/ q \in base /\ q \notin minus
                               \/ base = {} /\ q \notin minus /\ brought(q, m - 1)
  <2>1. brought(q, m) <=> \/ Brings(t, builds, o, type, q, m) /\ Leaves(t, builds, o, type, q, m, m)
                          \/ \E i \in 1..(m - 1) : /\ Brings(t, builds, o, type, q, i)
                                                   /\ Leaves(t, builds, o, type, q, i, m)
    <3>1. \A i : i \in 1..m <=> i = m \/ i \in 1..(m - 1)
      OBVIOUS
    <3> QED BY <3>1
  <2> QED BY <1>4, <2>1
<1>6. /\ ListAt(t, builds, o, type, m) = IF ListBegun(t, builds, o, type, m)
                                         THEN {q \in Projects : brought(q, m)} ELSE NoList
      /\ before = IF ListBegun(t, builds, o, type, m - 1)
                  THEN {q \in Projects : brought(q, m - 1)} ELSE NoList
  BY DEF ListAt
<1> HIDE DEF brought, base, minus, plus, before
<1>7. Revised(t, builds[m], o, type, before)
      = LET b == IF base = {} THEN before ELSE base
        IN  IF b = NoList THEN NoList ELSE (b \ minus) \cup plus
  BY DEF Revised, base, minus, plus
<1>8. CASE base # {}
  <2>1. ListBegun(t, builds, o, type, m) /\ base # NoList
    BY <1>1, <1>3, <1>8 DEF NoList
  <2>2. {q \in Projects : brought(q, m)} = (base \ minus) \cup plus
    BY <1>1, <1>5, <1>8, <2>1
  <2> QED BY <1>6, <1>7, <1>8, <2>1, <2>2 DEF before
<1>9. CASE base = {} /\ ListBegun(t, builds, o, type, m - 1)
  <2>1. ListBegun(t, builds, o, type, m) /\ before # NoList
    BY <1>1, <1>3, <1>6, <1>9 DEF NoList
  <2>2. {q \in Projects : brought(q, m)} = (before \ minus) \cup plus
    BY <1>1, <1>5, <1>6, <1>9, <2>1
  <2> QED BY <1>6, <1>7, <1>9, <2>1, <2>2 DEF before
<1>10. CASE base = {} /\ ~ListBegun(t, builds, o, type, m - 1)
  BY <1>3, <1>6, <1>7, <1>10 DEF before
<1> QED BY <1>8, <1>9, <1>10

(* f is what the loop computes, build by build. *)
Computes(t, builds, o, type, f) ==
    f = [i \in 0..Len(builds) |->
           IF i = 0 THEN NoList ELSE Revised(t, builds[i], o, type, f[i - 1])]

LEMMA ListUnfolds ==
    ASSUME NEW t, NEW builds, NEW o, NEW type, NEW g, Computes(t, builds, o, type, g)
    PROVE  \E f : /\ Computes(t, builds, o, type, f)
                  /\ DependenciesOf(t, builds, o, type)
                       = IF f[Len(builds)] = NoList THEN {} ELSE f[Len(builds)]
<1> DEFINE list[i \in 0..Len(builds)] ==
            IF i = 0 THEN NoList ELSE Revised(t, builds[i], o, type, list[i - 1])
<1>1. list = [i \in 0..Len(builds) |->
                  IF i = 0 THEN NoList ELSE Revised(t, builds[i], o, type, list[i - 1])]
  BY DEF Computes
<1>2. DependenciesOf(t, builds, o, type)
      = IF list[Len(builds)] = NoList THEN {} ELSE list[Len(builds)]
  BY DEF DependenciesOf
<1> QED BY <1>1, <1>2 DEF Computes

(* ListAt solves the recursion; that nothing else does needs the first     *)
(* place where two solutions differ.                                       *)
LEMMA DependenciesAre ==
    ASSUME NEW t \in AllTables, NEW builds \in Seq(Builds), NEW o, NEW type
    PROVE  DependenciesOf(t, builds, o, type)
           = IF ListBegun(t, builds, o, type, Len(builds)) THEN ListAt(t, builds, o, type, Len(builds))
             ELSE {}
<1> DEFINE n == Len(builds)
           g == [i \in 0..n |-> ListAt(t, builds, o, type, i)]
<1>1. n \in Nat
  OBVIOUS
<1>2. Computes(t, builds, o, type, g)
  <2>1. ListAt(t, builds, o, type, 0) = NoList
    BY DEF ListAt, ListBegun
  <2>2. ASSUME NEW i \in 0..n, i # 0
        PROVE  g[i] = Revised(t, builds[i], o, type, g[i - 1])
    <3>1. i \in Nat /\ i >= 1 /\ i - 1 \in 0..n
      BY <1>1, <2>2
    <3> QED BY <3>1, ReviseOnce
  <2>3. g = [i \in 0..n |-> IF i = 0 THEN NoList ELSE Revised(t, builds[i], o, type, g[i - 1])]
    BY <2>1, <2>2
  <2> HIDE DEF g
  <2> QED BY <2>3 DEF Computes
<1> HIDE DEF g
<1>3. PICK f : /\ Computes(t, builds, o, type, f)
               /\ DependenciesOf(t, builds, o, type)
                    = IF f[Len(builds)] = NoList THEN {} ELSE f[Len(builds)]
  BY <1>2, ListUnfolds
<1> DEFINE differ == {i \in 0..n : f[i] # g[i]}
<1>4. differ = {}
  <2> SUFFICES ASSUME differ # {} PROVE FALSE
    OBVIOUS
  <2>1. PICK m \in differ : \A j \in differ : ~(j < m)
    <3>1. differ \in SUBSET Nat
      BY <1>1
    <3> HIDE DEF differ
    <3> QED BY <3>1, LeastIndex
  <2>2. m \in 0..n /\ f[m] # g[m]
    BY <2>1
  <2>3. m # 0 => m - 1 \in 0..n /\ m - 1 < m
    BY <1>1, <2>2
  <2>4. m # 0 => f[m - 1] = g[m - 1]
    BY <2>1, <2>3
  <2>5. /\ f[m] = IF m = 0 THEN NoList ELSE Revised(t, builds[m], o, type, f[m - 1])
        /\ g[m] = IF m = 0 THEN NoList ELSE Revised(t, builds[m], o, type, g[m - 1])
    BY <1>2, <1>3, <2>2 DEF Computes
  <2> QED BY <2>2, <2>4, <2>5
<1>5. f[n] = ListAt(t, builds, o, type, n)
  <2>1. f[n] = g[n]
    BY <1>1, <1>4
  <2> QED BY <1>1, <2>1 DEF g
<1>6. ListBegun(t, builds, o, type, n) <=> ListAt(t, builds, o, type, n) # NoList
  BY NoneAssumption DEF ListAt, NoList
<1> QED BY <1>3, <1>5, <1>6 DEF ListAt

(* The loop goes from the oldest build to the newest, Depends from the     *)
(* newest back.                                                            *)
LEMMA DependsIs ==
    ASSUME NEW t \in AllTables, NEW l \in Seq(Builds), NEW o, NEW type, NEW q
    PROVE  q \in DependenciesOf(t, Reverse(l), o, type)
             <=> q \in Projects /\ Depends(t, l, o, type, q)
<1> DEFINE n == Len(l)
           builds == Reverse(l)
           at(i) == (n - i) + 1
           plus(i) == q \in Listed(t, l[i], o, "+", type)
           minus(i) == q \in Listed(t, l[i], o, "-", type)
           base(i) == Listed(t, l[i], o, "", type)
           has(i) == \/ plus(i) /\ \E j \in 1..n : j >= i /\ base(j) # {}
                     \/ q \in base(i) /\ ~minus(i)
           stays(i) == \A j \in 1..n : j < i => base(j) = {} /\ ~minus(j)
<1>1. n \in Nat /\ DOMAIN l = 1..n
  BY LenProperties
<1>2. builds \in Seq(Builds) /\ Len(builds) = n /\ \A i \in 1..n : builds[i] = l[at(i)]
  <2>1. builds = [i \in 1..n |-> l[at(i)]]
    BY DEF Reverse
  <2>2. \A i \in 1..n : at(i) \in 1..n
    BY <1>1
  <2>3. \A i \in 1..n : l[at(i)] \in Builds
    BY <1>1, <2>2
  <2>4. builds \in [1..n -> Builds]
    BY <2>1, <2>3
  <2> QED BY <1>1, <2>1, <2>4
<1>3. \A i \in 1..n : at(i) \in 1..n /\ at(at(i)) = i
  BY <1>1
<1>4. \A i, j \in 1..n : (j >= i <=> at(j) <= at(i)) /\ (j < i <=> at(j) >= at(i) + 1)
  BY <1>1
<1> HIDE DEF builds, at
<1>5. ASSUME NEW i \in 1..n
      PROVE  Brings(t, builds, o, type, q, at(i)) <=> has(i)
  <2>1. /\ Listed(t, builds[at(i)], o, "+", type) = Listed(t, l[i], o, "+", type)
        /\ Listed(t, builds[at(i)], o, "-", type) = Listed(t, l[i], o, "-", type)
        /\ BaseOf(t, builds, o, type, at(i)) = base(i)
    BY <1>2, <1>3 DEF BaseOf
  <2>2. ListBegun(t, builds, o, type, at(i)) <=> \E j \in 1..n : j >= i /\ base(j) # {}
    <3>1. \A j \in 1..n : BaseOf(t, builds, o, type, at(j)) = base(j)
      BY <1>2, <1>3 DEF BaseOf
    <3>2. ASSUME NEW j \in 1..n, j >= i, base(j) # {}
          PROVE  ListBegun(t, builds, o, type, at(i))
      <4>1. at(j) \in 1..n /\ at(i) \in 1..n /\ at(j) <= at(i)
        BY <1>3, <1>4, <3>2
      <4>2. at(j) \in 1..at(i)
        BY <1>1, <4>1
      <4> QED BY <3>1, <3>2, <4>2 DEF ListBegun
    <3>3. ASSUME NEW k \in 1..at(i), BaseOf(t, builds, o, type, k) # {}
          PROVE  \E j \in 1..n : j >= i /\ base(j) # {}
      <4>1. k \in 1..n /\ at(at(k)) = k /\ at(k) \in 1..n /\ at(k) >= i
        BY <1>1, <1>3, <3>3 DEF at
      <4> QED BY <3>1, <3>3, <4>1
    <3> QED BY <3>2, <3>3 DEF ListBegun
  <2> HIDE DEF base
  <2> QED BY <2>1, <2>2 DEF Brings
<1>6. ASSUME NEW i \in 1..n
      PROVE  Leaves(t, builds, o, type, q, at(i), n) <=> stays(i)
  <2>1. \A j \in 1..n : /\ BaseOf(t, builds, o, type, at(j)) = base(j)
                        /\ q \in Listed(t, builds[at(j)], o, "-", type) <=> minus(j)
    BY <1>2, <1>3 DEF BaseOf
  <2> HIDE DEF base, minus
  <2>2. ASSUME Leaves(t, builds, o, type, q, at(i), n), NEW j \in 1..n, j < i
        PROVE  base(j) = {} /\ ~minus(j)
    <3>1. at(j) \in (at(i) + 1)..n
      BY <1>1, <1>3, <1>4, <2>2
    <3> QED BY <2>1, <2>2, <3>1 DEF Leaves
  <2>3. ASSUME stays(i), NEW k \in (at(i) + 1)..n
        PROVE  /\ BaseOf(t, builds, o, type, k) = {}
               /\ q \notin Listed(t, builds[k], o, "-", type)
    <3>1. k \in 1..n /\ at(at(k)) = k /\ at(k) \in 1..n /\ at(k) < i
      BY <1>1, <1>3, <2>3 DEF at
    <3> QED BY <2>1, <2>3, <3>1
  <2> QED BY <2>2, <2>3 DEF Leaves
<1>7. Depends(t, l, o, type, q) <=> \E i \in 1..n : has(i) /\ stays(i)
  BY <1>1 DEF Depends
<1>8. \A i \in 1..n : has(i) => ListBegun(t, builds, o, type, n)
  <2> TAKE i \in 1..n
  <2>1. has(i) => \E j \in 1..n : base(j) # {}
    OBVIOUS
  <2>2. \A j \in 1..n : BaseOf(t, builds, o, type, at(j)) = base(j)
    BY <1>2, <1>3 DEF BaseOf
  <2> HIDE DEF has, base
  <2> QED BY <1>3, <2>1, <2>2 DEF ListBegun
<1> HIDE DEF has, stays
<1>9. (\E k \in 1..n : Brings(t, builds, o, type, q, k) /\ Leaves(t, builds, o, type, q, k, n))
        <=> \E i \in 1..n : has(i) /\ stays(i)
  <2>1. \A k \in 1..n : Brings(t, builds, o, type, q, k) /\ Leaves(t, builds, o, type, q, k, n)
          => at(k) \in 1..n /\ has(at(k)) /\ stays(at(k))
    <3> TAKE k \in 1..n
    <3>1. at(k) \in 1..n /\ at(at(k)) = k
      BY <1>3
    <3>2. /\ Brings(t, builds, o, type, q, at(at(k))) <=> has(at(k))
          /\ Leaves(t, builds, o, type, q, at(at(k)), n) <=> stays(at(k))
      BY <1>5, <1>6, <3>1
    <3> QED BY <3>1, <3>2
  <2> QED BY <1>3, <1>5, <1>6, <2>1
<1>10. DependenciesOf(t, builds, o, type)
       = IF ListBegun(t, builds, o, type, n)
         THEN {p \in Projects : \E i \in 1..n : /\ Brings(t, builds, o, type, p, i)
                                                /\ Leaves(t, builds, o, type, p, i, n)}
         ELSE {}
  BY <1>2, DependenciesAre DEF ListAt
<1>11. q \in DependenciesOf(t, builds, o, type) <=> q \in Projects /\ \E i \in 1..n : has(i) /\ stays(i)
  BY <1>8, <1>9, <1>10
<1> QED BY <1>7, <1>11 DEF builds

----------------------------------------------------------------------------
(* The builds that Walk collects, until it comes to one that inherits from *)
(* none.  Turning: builds that inherit from one another for ever.          *)

Turning(t, chain) ==
    /\ chain \in Seq(Builds) /\ chain # <<>>
    /\ \E S \in SUBSET Builds : Range(chain) \subseteq S /\ \A x \in S : Inherits(t, x) \in S

Walked(t, b, chain) ==
    \/ \E l \in Lines(t, b) : Way(t, b, l) /\ chain = Reverse(l)
    \/ Turning(t, chain)

LEMMA TheWholeLine ==
    ASSUME NEW t, NEW b, NEW l, Way(t, b, l), Inherits(t, l[Len(l)]) = None
    PROVE  WholeLines(t, b) = {l}
<1> DEFINE n == Len(l)
<1>1. /\ l \in Seq(Builds) /\ n \in Nat /\ n >= 1 /\ DOMAIN l = 1..n /\ l \in Lines(t, b)
      /\ \A i \in 2..n : l[i] = Inherits(t, l[i - 1])
      /\ \A m \in Lines(t, b) : \A i \in DOMAIN m : i <= n => m[i] = l[i]
  BY LinesAre, LenProperties DEF Way
<1>2. \A m \in Lines(t, b) : /\ m \in Seq(Builds) /\ Len(m) \in Nat /\ Len(m) >= 1
                             /\ DOMAIN m = 1..Len(m)
                             /\ \A i \in 2..Len(m) : m[i] = Inherits(t, m[i - 1])
                             /\ \A i \in 1..Len(m) : m[i] \in Builds
  BY LinesAre, LenProperties
<1>3. ASSUME NEW m \in Lines(t, b), Inherits(t, m[Len(m)]) = None
      PROVE  m = l
  <2>1. ~(Len(m) > n)
    <3>1. Len(m) > n => n \in DOMAIN m /\ m[n] = l[n] /\ n + 1 \in 2..Len(m) /\ (n + 1) - 1 = n
                        /\ n + 1 \in 1..Len(m)
      BY <1>1, <1>2
    <3>2. Len(m) > n => m[n + 1] = None /\ m[n + 1] \in Builds
      BY <1>2, <3>1
    <3> QED BY <3>2, NoneAssumption
  <2>2. ~(Len(m) < n)
    <3> SUFFICES ASSUME Len(m) < n PROVE FALSE
      OBVIOUS
    <3>1. /\ Len(m) \in DOMAIN m /\ m[Len(m)] = l[Len(m)] /\ Len(m) + 1 \in 2..n
          /\ (Len(m) + 1) - 1 = Len(m) /\ Len(m) + 1 \in 1..n
      BY <1>1, <1>2
    <3>2. l[Len(m) + 1] = None
      BY <1>1, <1>3, <3>1
    <3>3. l[Len(m) + 1] \in Builds
      BY <1>1, <3>1
    <3> QED BY <3>2, <3>3, NoneAssumption
  <2>3. Len(m) = n /\ \A i \in 1..n : m[i] = l[i]
    BY <1>1, <1>2, <2>1, <2>2
  <2> QED BY <1>1, <1>2, <2>3, SeqEqual
<1> QED BY <1>1, <1>3 DEF WholeLines

LEMMA WalkedOne ==
    ASSUME NEW t \in AllTables, NEW b, NEW chain, Walked(t, b, chain),
           NEW older, older = Inherits(t, Head(chain))
    PROVE  /\ older = None => \E l \in Seq(Builds) : chain = Reverse(l) /\ WholeLines(t, b) = {l}
           /\ older # None => Walked(t, b, IF older \in Range(chain) THEN <<older>>
                                           ELSE <<older>> \o chain)
<1> DEFINE one == <<older>>
<1>1. older # None => one \in Seq(Builds) /\ one # <<>> /\ Range(one) = {older}
  <2>1. Range(one) = {older}
    BY DEF Range
  <2> QED BY <2>1, InheritsTyped
<1> HIDE DEF one
<1>2. CASE Turning(t, chain)
  <2>1. PICK S \in SUBSET Builds : Range(chain) \subseteq S /\ \A x \in S : Inherits(t, x) \in S
    BY <1>2 DEF Turning
  <2>2. chain \in Seq(Builds) /\ chain # <<>> /\ Head(chain) \in Range(chain)
    <3>1. chain \in Seq(Builds) /\ chain # <<>>
      BY <1>2 DEF Turning
    <3>2. 1 \in DOMAIN chain /\ Head(chain) = chain[1]
      BY <3>1
    <3> QED BY <3>1, <3>2 DEF Range
  <2>3. older \in S /\ older # None
    BY <2>1, <2>2, NoneAssumption
  <2>4. Turning(t, one)
    BY <1>1, <2>1, <2>3 DEF Turning
  <2>5. Turning(t, one \o chain)
    <3>1. one \o chain \in Seq(Builds) /\ Range(one \o chain) = Range(one) \cup Range(chain)
      BY <1>1, <2>2, <2>3, RangeConcatenation, ConcatProperties
    <3>2. one \o chain # <<>>
      BY <1>1, <2>2, <2>3, ConcatEqualIffEmpty, ConcatProperties, EmptySeq
    <3> QED BY <1>1, <2>1, <2>3, <3>1, <3>2 DEF Turning
  <2> QED BY <2>3, <2>4, <2>5 DEF Walked, one
<1>3. CASE \E l \in Lines(t, b) : Way(t, b, l) /\ chain = Reverse(l)
  <2>1. PICK l \in Lines(t, b) : Way(t, b, l) /\ chain = Reverse(l)
    BY <1>3
  <2>0. PICK n : n = Len(l)
    OBVIOUS
  <2>2. l \in Seq(Builds) /\ n \in Nat /\ n >= 1 /\ DOMAIN l = 1..n /\ l # <<>>
    BY <2>0, LinesAre, LenProperties, EmptySeq
  <2>3. Head(chain) = l[n] /\ Range(chain) = Range(l)
    BY <2>0, <2>1, <2>2, ReverseEnds
  <2>4. older = None => WholeLines(t, b) = {l}
    BY <2>0, <2>1, <2>3, TheWholeLine
  <2>5. ASSUME older # None, older \in Range(chain)
        PROVE  Turning(t, one)
    <3>1. ASSUME NEW x \in Range(l)
          PROVE  Inherits(t, x) \in Range(l) /\ x \in Builds
      <4>1. PICK i \in 1..n : x = l[i]
        BY <2>2 DEF Range
      <4>2. x \in Builds
        BY <2>2, <4>1
      <4>3. CASE i = n
        BY <2>3, <2>5, <4>1, <4>2, <4>3
      <4>4. CASE i # n
        <5>1. i + 1 \in 2..n /\ (i + 1) - 1 = i /\ i + 1 \in DOMAIN l
          BY <2>2, <4>4
        <5>2. l[i + 1] = Inherits(t, l[(i + 1) - 1])
          BY <2>0, <2>1, <5>1, LinesAre
        <5> QED BY <4>1, <4>2, <5>1, <5>2 DEF Range
      <4> QED BY <4>3, <4>4
    <3>2. Range(l) \in SUBSET Builds
      BY <3>1
    <3> QED BY <1>1, <2>3, <2>5, <3>1, <3>2 DEF Turning
  <2>6. ASSUME older # None, older \notin Range(chain)
        PROVE  Way(t, b, Append(l, older)) /\ one \o chain = Reverse(Append(l, older))
    <3>1. older \in Builds /\ older \notin Range(l)
      BY <2>3, <2>6, InheritsTyped
    <3>2. Way(t, b, Append(l, older))
      BY <2>0, <2>1, <2>3, <3>1, WayGoesOn
    <3>3. Reverse(Append(l, older)) = one \o Reverse(l)
      BY <2>2, <3>1, ReverseAppend DEF one
    <3> QED BY <2>1, <3>2, <3>3
  <2> QED BY <2>1, <2>2, <2>4, <2>5, <2>6 DEF Walked, Way, one
<1> QED BY <1>2, <1>3 DEF Walked

----------------------------------------------------------------------------
(* What is printed, and the lists that are still to be gone through.       *)

Needed(t, b, p, types) ==
    {q \in Projects : \E type \in types, line \in WholeLines(t, b) : Depends(t, line, p, type, q)}

Closed(t, b, o, kind, S) ==
    /\ Needed(t, b, o, DependencyTypes[kind]) \subseteq S
    /\ \A p \in S : Needed(t, b, p, RecursiveTypes(kind)) \subseteq S

Due(printed, stack) == printed \cup UNION Range(stack)

Visiting(t, b, o, kind, printed, due) ==
    /\ printed \subseteq Projects
    /\ Needed(t, b, o, DependencyTypes[kind]) \subseteq due
    /\ \A p \in printed : Needed(t, b, p, RecursiveTypes(kind)) \subseteq due
    /\ \A S \in SUBSET Projects : Closed(t, b, o, kind, S) => due \subseteq S

ChainWhole(t, b, chain) == \E l \in Seq(Builds) : chain = Reverse(l) /\ WholeLines(t, b) = {l}

Printing ==
    proc.cmd = "dependencies" =>
      /\ proc.at \in {"walk", "print", "visit", "exit"}
      /\ proc.at = "walk" => /\ Walked(db, proc.build, proc.chain)
                             /\ proc.then = "print" /\ proc.printed = {}
      /\ proc.at = "print" => ChainWhole(db, proc.build, proc.chain) /\ proc.printed = {}
      /\ proc.at = "visit" => /\ ChainWhole(db, proc.build, proc.chain)
                              /\ proc.stack \in Seq(SUBSET Projects)
                              /\ Visiting(db, proc.build, proc.owner, proc.kind, proc.printed,
                                          Due(proc.printed, proc.stack))
      /\ proc.at = "exit" => proc.printed = Closure(db, proc.build, proc.owner, proc.kind)

LEMMA ChildrenAre ==
    ASSUME NEW t \in AllTables, NEW b, NEW chain, ChainWhole(t, b, chain), NEW p, NEW types
    PROVE  /\ Children(t, chain, p, types) = Needed(t, b, p, types)
           /\ Needed(t, b, p, types) \in SUBSET Projects
<1>1. PICK l \in Seq(Builds) : chain = Reverse(l) /\ WholeLines(t, b) = {l}
  BY DEF ChainWhole
<1>2. \A type, q : q \in DependenciesOf(t, chain, p, type) <=> q \in Projects /\ Depends(t, l, p, type, q)
  BY <1>1, DependsIs
<1>3. \A q : q \in Children(t, chain, p, types)
               <=> \E type \in types : q \in DependenciesOf(t, chain, p, type)
  BY DEF Children
<1>4. \A q : q \in Needed(t, b, p, types)
               <=> q \in Projects /\ \E type \in types : Depends(t, l, p, type, q)
  BY <1>1 DEF Needed
<1> QED BY <1>2, <1>3, <1>4

LEMMA PrintedAll ==
    ASSUME NEW t, NEW b, NEW o, NEW kind, NEW printed, Visiting(t, b, o, kind, printed, printed)
    PROVE  printed = Closure(t, b, o, kind)
<1>1. Closure(t, b, o, kind)
      = {q \in Projects : \A S \in SUBSET Projects : Closed(t, b, o, kind, S) => q \in S}
  BY DEF Closure, Closed, Needed
<1>2. printed \in SUBSET Projects /\ Closed(t, b, o, kind, printed)
  BY DEF Visiting, Closed
<1>3. \A S \in SUBSET Projects : Closed(t, b, o, kind, S) => printed \subseteq S
  BY DEF Visiting
<1> QED BY <1>1, <1>2, <1>3

LEMMA VisitedOne ==
    ASSUME NEW t, NEW b, NEW o, NEW kind, NEW printed, NEW due, NEW q \in due, q \in Projects,
           Visiting(t, b, o, kind, printed, due)
    PROVE  Visiting(t, b, o, kind, printed \cup {q},
                    due \cup Needed(t, b, q, RecursiveTypes(kind)))
<1> DEFINE more == Needed(t, b, q, RecursiveTypes(kind))
<1>1. ASSUME NEW S \in SUBSET Projects, Closed(t, b, o, kind, S)
      PROVE  due \cup more \subseteq S
  <2>1. due \subseteq S
    BY <1>1 DEF Visiting
  <2>2. q \in S
    BY <2>1
  <2>3. more \subseteq S
    BY <1>1, <2>2 DEF Closed
  <2> QED BY <2>1, <2>3
<1> HIDE DEF more
<1>2. \A p \in printed \cup {q} : Needed(t, b, p, RecursiveTypes(kind)) \subseteq due \cup more
  BY DEF Visiting, more
<1>3. Visiting(t, b, o, kind, printed \cup {q}, due \cup more)
  BY <1>1, <1>2 DEF Visiting
<1> QED BY <1>3 DEF more

LEMMA StackParts ==
    ASSUME NEW s \in Seq(SUBSET Projects), s # <<>>
    PROVE  /\ Head(s) \in SUBSET Projects /\ Tail(s) \in Seq(SUBSET Projects)
           /\ UNION Range(s) = Head(s) \cup UNION Range(Tail(s))
<1>1. Head(s) \in SUBSET Projects /\ Tail(s) \in Seq(SUBSET Projects)
  BY HeadTailProperties
<1>2. PICK n : n = Len(s)
  OBVIOUS
<1>3. n \in Nat /\ n >= 1 /\ DOMAIN s = 1..n /\ Head(s) = s[1] /\ DOMAIN Tail(s) = 1..(n - 1)
      /\ \A i \in 1..(n - 1) : Tail(s)[i] = s[i + 1]
  BY <1>1, <1>2, HeadTailProperties, LenProperties, EmptySeq
<1>4. Range(s) = {Head(s)} \cup Range(Tail(s))
  <2>1. \A i \in 1..n : i = 1 \/ (i - 1 \in 1..(n - 1) /\ (i - 1) + 1 = i)
    BY <1>3
  <2>2. \A i \in 1..(n - 1) : i + 1 \in 1..n
    BY <1>3
  <2> QED BY <1>3, <2>1, <2>2 DEF Range
<1> QED BY <1>1, <1>4

LEMMA Pushed ==
    ASSUME NEW x \in SUBSET Projects, NEW s \in Seq(SUBSET Projects)
    PROVE  <<x>> \o s \in Seq(SUBSET Projects) /\ UNION Range(<<x>> \o s) = x \cup UNION Range(s)
<1> DEFINE one == <<x>>
<1>1. one \in Seq(SUBSET Projects) /\ Range(one) = {x}
  BY DEF Range
<1> HIDE DEF one
<1>2. one \o s \in Seq(SUBSET Projects) /\ Range(one \o s) = Range(one) \cup Range(s)
  BY <1>1, RangeConcatenation, ConcatProperties
<1>3. UNION Range(one \o s) = x \cup UNION Range(s)
  BY <1>1, <1>2
<1> QED BY <1>2, <1>3 DEF one

LEMMA WalkPrinting ==
    ASSUME StoreInv, Printing, Walk, proc.cmd = "dependencies"
    PROVE  Printing'
<1>1. proc.at = "walk" /\ UNCHANGED sqlite /\ nested' = nested
  BY DEF Walk, At
<1>2. db' = db /\ T = db /\ db \in AllTables
  BY <1>1, OnlyReads DEF Quiet
<1>3. Fields /\ Walked(db, proc.build, proc.chain) /\ proc.then = "print" /\ proc.printed = {}
  BY <1>1 DEF StoreInv, Typed, Printing
<1>4. PICK older : older = Inherits(db, Head(proc.chain))
  OBVIOUS
<1>5. proc' = IF older = None THEN [proc EXCEPT !.at = proc.then]
              ELSE IF older \in Range(proc.chain) THEN [proc EXCEPT !.chain = <<older>>]
              ELSE [proc EXCEPT !.chain = <<older>> \o proc.chain]
  BY <1>2, <1>4 DEF Walk
<1>6. /\ proc'.cmd = "dependencies" /\ proc'.build = proc.build /\ proc'.then = "print"
      /\ proc'.printed = {}
  BY <1>3, <1>5 DEF Fields
<1>7. /\ older = None => ChainWhole(db, proc.build, proc.chain)
      /\ older # None => Walked(db, proc.build, IF older \in Range(proc.chain) THEN <<older>>
                                                ELSE <<older>> \o proc.chain)
  BY <1>2, <1>3, <1>4, WalkedOne DEF ChainWhole
<1>8. CASE older = None
  <2>1. proc'.at = "print" /\ proc'.chain = proc.chain
    BY <1>3, <1>5, <1>8 DEF Fields
  <2> QED BY <1>2, <1>6, <1>7, <1>8, <2>1 DEF Printing
<1>9. CASE older # None
  <2>1. /\ proc'.at = "walk"
        /\ proc'.chain = IF older \in Range(proc.chain) THEN <<older>> ELSE <<older>> \o proc.chain
    BY <1>1, <1>3, <1>5, <1>9 DEF Fields
  <2> QED BY <1>2, <1>6, <1>7, <1>9, <2>1 DEF Printing
<1> QED BY <1>8, <1>9

LEMMA PrintRootPrinting ==
    ASSUME StoreInv, Printing, PrintRoot, proc.cmd = "dependencies"
    PROVE  Printing'
<1>1. proc.at = "print" /\ UNCHANGED sqlite /\ nested' = nested
  BY DEF PrintRoot, At
<1>2. db' = db /\ T = db /\ db \in AllTables
  BY <1>1, OnlyReads DEF Quiet
<1>3. Fields /\ ChainWhole(db, proc.build, proc.chain) /\ proc.printed = {}
  BY <1>1 DEF StoreInv, Typed, Printing
<1>4. PICK first : first = Needed(db, proc.build, proc.owner, DependencyTypes[proc.kind])
  OBVIOUS
<1>5. first \in SUBSET Projects
      /\ Children(db, proc.chain, proc.owner, DependencyTypes[proc.kind]) = first
  BY <1>2, <1>3, <1>4, ChildrenAre
<1>6. proc' = [proc EXCEPT !.at = "visit", !.stack = <<first>>]
  BY <1>2, <1>5 DEF PrintRoot
<1>7. /\ proc'.at = "visit" /\ proc'.stack = <<first>> /\ proc'.cmd = "dependencies"
      /\ proc'.build = proc.build /\ proc'.owner = proc.owner /\ proc'.kind = proc.kind
      /\ proc'.chain = proc.chain /\ proc'.printed = {}
  BY <1>3, <1>6 DEF Fields
<1>8. <<first>> \in Seq(SUBSET Projects) /\ Due({}, <<first>>) = first
  <2>1. Range(<<first>>) = {first}
    BY DEF Range
  <2> QED BY <1>5, <2>1 DEF Due
<1>9. Visiting(db, proc.build, proc.owner, proc.kind, {}, first)
  BY <1>4 DEF Visiting, Closed
<1> QED BY <1>2, <1>3, <1>7, <1>8, <1>9 DEF Printing

LEMMA VisitPrinting ==
    ASSUME StoreInv, Printing, Visit, proc.cmd = "dependencies"
    PROVE  Printing'
<1>1. proc.at = "visit" /\ UNCHANGED sqlite /\ nested' = nested /\ proc.stack # <<>>
  BY DEF Visit, At
<1>2. db' = db /\ T = db /\ db \in AllTables
  BY <1>1, OnlyReads DEF Quiet
<1>3. /\ Fields /\ ChainWhole(db, proc.build, proc.chain)
      /\ proc.stack \in Seq(SUBSET Projects)
      /\ Visiting(db, proc.build, proc.owner, proc.kind, proc.printed, Due(proc.printed, proc.stack))
  BY <1>1 DEF StoreInv, Typed, Printing
<1>4. PICK head, tail : head = Head(proc.stack) /\ tail = Tail(proc.stack)
  OBVIOUS
<1>5. /\ head \in SUBSET Projects /\ tail \in Seq(SUBSET Projects)
      /\ Due(proc.printed, proc.stack) = proc.printed \cup (head \cup UNION Range(tail))
  BY <1>1, <1>3, <1>4, StackParts DEF Due
<1> DEFINE Visited(printed, stack) ==
      /\ stack \in Seq(SUBSET Projects)
      /\ Visiting(db, proc.build, proc.owner, proc.kind, printed, Due(printed, stack))
<1>6. ASSUME NEW printed, NEW stack, Visited(printed, stack),
             proc' = [proc EXCEPT !.printed = printed, !.stack = stack]
      PROVE  Printing'
  <2>1. /\ proc'.at = "visit" /\ proc'.stack = stack /\ proc'.cmd = "dependencies"
        /\ proc'.build = proc.build /\ proc'.owner = proc.owner /\ proc'.kind = proc.kind
        /\ proc'.chain = proc.chain /\ proc'.printed = printed
    BY <1>1, <1>3, <1>6 DEF Fields
  <2> QED BY <1>2, <1>3, <1>6, <2>1 DEF Printing
<1>7. CASE head = {}
  <2>1. proc' = [proc EXCEPT !.stack = tail]
    BY <1>4, <1>7 DEF Visit
  <2>2. proc' = [proc EXCEPT !.printed = proc.printed, !.stack = tail]
    BY <1>3, <2>1 DEF Fields
  <2>3. Due(proc.printed, tail) = Due(proc.printed, proc.stack)
    BY <1>5, <1>7 DEF Due
  <2>4. Visited(proc.printed, tail)
    BY <1>3, <1>5, <2>3
  <2> HIDE DEF Visited
  <2> QED BY <1>6, <2>2, <2>4
<1>8. CASE head # {}
  <2>1. PICK q \in head :
          LET rest == <<head \ {q}>> \o tail
          IN  proc' = IF q \in proc.printed THEN [proc EXCEPT !.stack = rest]
                      ELSE [proc EXCEPT
                              !.printed = @ \cup {q},
                              !.stack = <<Children(db, proc.chain, q, RecursiveTypes(proc.kind))>>
                                        \o rest]
    BY <1>2, <1>4, <1>8 DEF Visit
  <2>2. PICK rest : rest = <<head \ {q}>> \o tail
    OBVIOUS
  <2>3. rest \in Seq(SUBSET Projects) /\ UNION Range(rest) = (head \ {q}) \cup UNION Range(tail)
    BY <1>5, <2>2, Pushed
  <2>4. CASE q \in proc.printed
    <3>1. proc' = [proc EXCEPT !.printed = proc.printed, !.stack = rest]
      BY <1>3, <2>1, <2>2, <2>4 DEF Fields
    <3>2. Due(proc.printed, rest) = Due(proc.printed, proc.stack)
      BY <1>5, <2>3, <2>4 DEF Due
    <3>3. Visited(proc.printed, rest)
      BY <1>3, <2>3, <3>2
    <3> HIDE DEF Visited
    <3> QED BY <1>6, <3>1, <3>3
  <2>5. CASE q \notin proc.printed
    <3>1. PICK more : more = Needed(db, proc.build, q, RecursiveTypes(proc.kind))
      OBVIOUS
    <3>2. /\ Children(db, proc.chain, q, RecursiveTypes(proc.kind)) = more
          /\ more \in SUBSET Projects
      BY <1>2, <1>3, <3>1, ChildrenAre
    <3>3. PICK stack : stack = <<more>> \o rest
      OBVIOUS
    <3>4. proc' = [proc EXCEPT !.printed = proc.printed \cup {q}, !.stack = stack]
      BY <2>1, <2>2, <2>5, <3>2, <3>3
    <3>5. stack \in Seq(SUBSET Projects) /\ UNION Range(stack) = more \cup UNION Range(rest)
      BY <2>3, <3>2, <3>3, Pushed
    <3>6. Due(proc.printed \cup {q}, stack) = Due(proc.printed, proc.stack) \cup more
      BY <1>5, <2>3, <3>5 DEF Due
    <3>7. q \in Due(proc.printed, proc.stack) /\ q \in Projects
      BY <1>5
    <3>8. Visiting(db, proc.build, proc.owner, proc.kind, proc.printed \cup {q},
                   Due(proc.printed, proc.stack) \cup more)
      BY <1>3, <3>1, <3>7, VisitedOne
    <3>9. Visited(proc.printed \cup {q}, stack)
      BY <3>5, <3>6, <3>8
    <3> HIDE DEF Visited
    <3> QED BY <1>6, <3>4, <3>9
  <2> QED BY <2>4, <2>5
<1> QED BY <1>7, <1>8

LEMMA PrintedPrinting ==
    ASSUME StoreInv, Printing, Printed, proc.cmd = "dependencies"
    PROVE  Printing'
<1>1. proc.at = "visit" /\ UNCHANGED sqlite /\ proc.stack = <<>> /\ proc' = [proc EXCEPT !.at = "exit"]
  BY DEF Printed, At, Goto
<1>2. /\ Fields /\ db' = db
      /\ Visiting(db, proc.build, proc.owner, proc.kind, proc.printed, Due(proc.printed, proc.stack))
  BY <1>1 DEF StoreInv, Typed, Printing, sqlite
<1>3. /\ proc'.at = "exit" /\ proc'.build = proc.build /\ proc'.owner = proc.owner
      /\ proc'.kind = proc.kind /\ proc'.printed = proc.printed
  BY <1>1, <1>2 DEF Fields
<1>4. Due(proc.printed, proc.stack) = proc.printed
  <2>1. Range(<<>>) = {}
    BY DEF Range
  <2> QED BY <1>1, <2>1 DEF Due
<1>5. proc.printed = Closure(db, proc.build, proc.owner, proc.kind)
  BY <1>2, <1>4, PrintedAll
<1> QED BY <1>2, <1>3, <1>5 DEF Printing

LEMMA DependenciesBegin ==
    ASSUME Command, proc'.cmd = "dependencies"
    PROVE  Printing'
<1>1. Dependencies
  BY RestingIdle DEF Command, LoadIndex, Edit, MergeBuild, Query, Start
<1>2. PICK b \in Builds, o \in Projects, kind \in DOMAIN DependencyTypes :
        Start([Resting EXCEPT !.at = "walk", !.cmd = "dependencies", !.build = b, !.owner = o,
                              !.kind = kind, !.chain = <<b>>, !.then = "print"])
  BY <1>1 DEF Dependencies
<1>3. proc' = [Resting EXCEPT !.at = "walk", !.cmd = "dependencies", !.build = b, !.owner = o,
                              !.kind = kind, !.chain = <<b>>, !.then = "print"]
  BY <1>2 DEF Start
<1>4. /\ proc'.at = "walk" /\ proc'.build = b /\ proc'.chain = <<b>> /\ proc'.then = "print"
      /\ proc'.printed = {}
  BY <1>3 DEF Resting
<1>5. Walked(db', b, <<b>>)
  <2>1. <<b>> = Reverse(<<b>>)
    BY DEF Reverse
  <2>2. Way(db', b, <<b>>)
    BY WayBegins
  <2> QED BY <2>1, <2>2 DEF Walked, Way
<1> QED BY <1>4, <1>5 DEF Printing

LEMMA OtherSteps ==
    ASSUME Fields, User \/ Search \/ Restart \/ LookInBuild
                   \/ (Step /\ ~Walk /\ ~PrintRoot /\ ~Visit /\ ~Printed /\ ~Search /\ ~Restart
                       /\ ~LookInBuild /\ ~Exit)
    PROVE  proc'.cmd = proc.cmd /\ proc.at \notin {"walk", "print", "visit", "exit"}
<1>1. CASE Search \/ Restart \/ LookInBuild
  <2>1. CASE Search
    BY <2>1 DEF Search, SearchBuild, At, Fields
  <2>2. CASE Restart \/ LookInBuild
    BY <2>2 DEF Restart, LookInBuild, At, Fields
  <2> QED BY <1>1, <2>1, <2>2
<1>2. CASE User
  BY <1>2, SameCommand DEF User, EditorSaves, EditorCancels, Quit, At
<1>3. CASE Step /\ ~Walk /\ ~PrintRoot /\ ~Visit /\ ~Printed /\ ~Search /\ ~Restart
           /\ ~LookInBuild /\ ~Exit
  <2>1. proc'.cmd = proc.cmd
    BY <1>3, SameCommand
  <2>2. proc.at \notin {"walk", "print", "visit", "exit"}
    BY <1>3 DEF Step, CopyForEditor, CopyOld, CopyNew, SetPlistRefused, BeginTransaction, BeginFails,
                SelectNames, DeleteProp, DeletedAll, SetProp, InsertItem, InsertedAll,
                SetPropRefused, PropsSet, SetProject, ProjectsSet, NoGroups, DeleteGroups,
                InsertMember, GroupsSet, CommitTransaction, At
  <2> QED BY <2>1, <2>2
<1> QED BY <1>1, <1>2, <1>3

LEMMA PrintingKept ==
    ASSUME StoreInv, Printing, [Next]_vars
    PROVE  Printing'
<1> SUFFICES ASSUME proc'.cmd = "dependencies"
             PROVE  Printing'
  BY DEF Printing
<1>0. Fields
  BY DEF StoreInv, Typed
<1>1. CASE Command
  BY <1>1, DependenciesBegin
<1>2. CASE Exit \/ Crash
  BY <1>2, RestingIdle DEF Exit, Crash
<1>3. CASE ReaderReads \/ ReaderEnds \/ UNCHANGED vars
  BY <1>3 DEF ReaderReads, ReaderEnds, Close, vars, Printing
<1>4. CASE Walk \/ PrintRoot \/ Visit \/ Printed
  <2>1. proc.cmd = "dependencies"
    BY <1>0, <1>4, SameCommand DEF Step, Walk, PrintRoot, Visit, Printed, Search, Restart, LookInBuild,
                                Exit, At
  <2> QED BY <1>4, <2>1, WalkPrinting, PrintRootPrinting, VisitPrinting, PrintedPrinting
<1>5. CASE User \/ Search \/ Restart \/ LookInBuild
           \/ (Step /\ ~Walk /\ ~PrintRoot /\ ~Visit /\ ~Printed /\ ~Search /\ ~Restart
               /\ ~LookInBuild /\ ~Exit)
  BY <1>0, <1>5, OtherSteps DEF Printing
<1> QED BY <1>1, <1>2, <1>3, <1>4, <1>5 DEF Next

(* dependencies prints what the project needs by way of the builds, and    *)
(* nothing else, however the projects depend on one another.               *)
THEOREM NeededArePrinted == Spec => []PrintedRight
<1>1. Init => Printing
  BY RestingIdle DEF Init, Printing
<1>2. StoreInv /\ Printing /\ [Next]_vars => Printing'
  BY PrintingKept
<1>3. Printing => PrintedRight
  BY DEF Printing, PrintedRight
<1> QED BY <1>1, <1>2, <1>3, StoreInvariant, PTL DEF Spec
=============================================================================
