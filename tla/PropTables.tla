----------------------------- MODULE PropTables -----------------------------
(***************************************************************************)
(* The property lists of the builds, as darwinxref keeps them in a table   *)
(* of SQLite, and the look-ups the plugins make in it.                     *)
(*                                                                         *)
(* A row is <<build, project, property, key, value>>; a property of the    *)
(* build itself has no project.  A string is one row without a key, an     *)
(* array one row for each index, with the index as its key, a dictionary   *)
(* one row for each value.  The column is text, and so it sorts the        *)
(* indexes: 10 comes before 2.  The keys of a dictionary of dependencies   *)
(* are <<sign, type>>.                                                     *)
(***************************************************************************)
EXTENDS Naturals, FiniteSets, SequencesExt

CONSTANTS
    Builds, Projects, Groups,
    Keys, Texts,    \* what the columns key and value may hold
    None,           \* no project, no build, no key, no list
    SortedKeys,     \* the indexes an array may have, as ORDER BY key sorts them
    PropType,       \* the type of every property some plugin registers
    PropKind        \* whether it is one of builds, of projects, or of either

ASSUME NoneAssumption == None \notin Builds \cup Projects
ASSUME BuildsAssumption == IsFiniteSet(Builds)

(* The index of an array's element as the key of its row. *)
Text(n) == <<n>>

Indexes == Range(SortedKeys)

Before(j, k) == \E y \in DOMAIN SortedKeys :
                   SortedKeys[y] = k /\ \E x \in 1..(y - 1) : SortedKeys[x] = j

(* Indexes of one digit are sorted as numbers are. *)
ASSUME KeysAssumption ==
    /\ SortedKeys \in Seq(Keys)
    /\ \A x, y \in DOMAIN SortedKeys : SortedKeys[x] = SortedKeys[y] => x = y
    /\ Indexes = {Text(n) : n \in 0..(Len(SortedKeys) - 1)}
    /\ \A j, k \in 0..9 : {Text(j), Text(k)} \subseteq Indexes =>
                            (Before(Text(j), Text(k)) <=> j < k)

Owners == Projects \cup {None}

RowOf(b, o, p, item) == <<b, o, p, item[1], item[2]>>

(* Builds and Projects hold every name that is used for one: a build to    *)
(* inherit from and a dependency need not have properties of their own.    *)
Fits(p, type, item) == /\ item \in Keys \X Texts
                       /\ type = "array" => item[1] \in Indexes
                       /\ p = "inherits" => item[2] \in Builds
                       /\ p = "dependencies" => item[2] \in Projects

Rows == {r \in Builds \X Owners \X (DOMAIN PropType) \X Keys \X Texts :
            Fits(r[3], PropType[r[3]], <<r[4], r[5]>>)}

AllTables == [properties : SUBSET Rows, groups : SUBSET (Builds \X Groups \X Projects)]

(* The rows of a property, as <<key, value>> pairs; {} stands for NULL.     *)
(* A look-up of one property returns NULL for an empty array or dictionary. *)
Own(t, b, o, p) ==
    {<<r[4], r[5]>> : r \in {s \in t.properties : s[1] = b /\ s[2] = o /\ s[3] = p}}

PropNames(t, b, o) == {r[3] : r \in {s \in t.properties : s[1] = b /\ s[2] = o}}
ProjectsIn(t, b)   == {r[2] : r \in {s \in t.properties : s[1] = b}} \ {None}

(* A string property, None when there is no row. *)
OnePropString(t, b, o, p) ==
    LET rows == Own(t, b, o, p) IN IF rows = {} THEN None ELSE (CHOOSE r \in rows : TRUE)[2]

Inherits(t, b)    == OnePropString(t, b, None, "inherits")
Original(t, b, o) == OnePropString(t, b, o, "original")

(* The names of the projects of a build, and of what inherited builds call *)
(* an alias of one of them.                                                *)
OneProjectNames(t, b, inheritance) ==
    ProjectsIn(t, b) \cup
    ({r[2] : r \in {s \in t.properties :
                      s[1] \in inheritance /\ s[3] = "original" /\ s[5] \in ProjectsIn(t, b)}}
     \ {None})

----------------------------------------------------------------------------
(* Property lists.                                                         *)

Value(type, items) == [type |-> type, items |-> items]

(* What may stand for the list of a project, where CFGetTypeID does not    *)
(* find a dictionary.                                                      *)
NotADictionary == [type |-> "string"]

(* The place of a key among those of an array, sorted as text. *)
Place(keys, k) == Text(Cardinality({j \in keys : Before(j, k)}))

(* An array is read as its values in the order of their keys: an element   *)
(* gets a new index, its place.                                            *)
ItemsRead(t, b, o, p) ==
    LET own  == Own(t, b, o, p)
        keys == {item[1] : item \in own}
    IN  IF PropType[p] = "array" THEN {<<Place(keys, item[1]), item[2]>> : item \in own} ELSE own

(* Mutated form: with what the build inherits. *)
InheritedPlist(t, b, o) ==
    LET older == Inherits(t, b) IN
    [p \in (PropNames(t, b, o) \cup PropNames(t, older, o)) \cap DOMAIN PropType |->
        Value(PropType[p], IF Own(t, b, o, p) = {} THEN ItemsRead(t, older, o, p)
                           ELSE ItemsRead(t, b, o, p))]

(* Every property of the build has rows of its own, so that the search     *)
(* ends there and nothing inherited is copied.                             *)
ProjectPlist(t, b, o) ==
    [p \in PropNames(t, b, o) \cap DOMAIN PropType |->
        Value(PropType[p], ItemsRead(t, b, o, p))]

GroupsOf(t, b) ==
    [g \in {r[2] : r \in {s \in t.groups : s[1] = b}} |->
        {r[3] : r \in {s \in t.groups : s[1] = b /\ s[2] = g}}]

(* What DBSetPlist is given: the list of one project, or of a build with   *)
(* its projects and groups.  No key "groups" is None.                      *)
Plist(own, projects, groups) == [own |-> own, projects |-> projects, groups |-> groups]

NoEntries == [x \in {} |-> {}]
OfProject(own) == Plist(own, NoEntries, None)

(* What a file may hold, whatever plugins make of it. *)
IsOwnList(own, props) ==
    /\ DOMAIN own \subseteq props
    /\ own = [p \in DOMAIN own |-> Value(own[p].type, own[p].items)]
    /\ \A p \in DOMAIN own : \A item \in own[p].items : Fits(p, own[p].type, item)

IsList(plist, props) ==
    /\ plist = Plist(plist.own, plist.projects, plist.groups)
    /\ IsOwnList(plist.own, props)
    /\ DOMAIN plist.projects \subseteq Projects
    /\ \A o \in DOMAIN plist.projects :
         \/ plist.projects[o] = NotADictionary
         \/ /\ plist.projects[o] = OfProject(plist.projects[o].own)
            /\ IsOwnList(plist.projects[o].own, props)
    /\ plist.groups # None => /\ DOMAIN plist.groups \subseteq Groups
                              /\ plist.groups \in [DOMAIN plist.groups -> SUBSET Projects]

BuildPlist(t, b, names) ==
    Plist(ProjectPlist(t, b, None),
          [o \in names |-> OfProject(ProjectPlist(t, b, o))],
          IF DOMAIN GroupsOf(t, b) = {} THEN None ELSE GroupsOf(t, b))

(* Mutated form: CFDictionarySetValue. *)
SetValues(old, new) ==
    [p \in DOMAIN old \cup DOMAIN new |-> IF p \in DOMAIN old THEN old[p] ELSE new[p]]

(* CFDictionaryAddValue adds what is not there yet. *)
AddValues(old, new) ==
    [p \in DOMAIN old \cup DOMAIN new |-> IF p \in DOMAIN new THEN new[p] ELSE old[p]]

MergedPlist(old, new) ==
    [new EXCEPT !.projects =
        [o \in DOMAIN @ |-> IF o \in DOMAIN old.projects
                            THEN OfProject(AddValues(old.projects[o].own, @[o].own))
                            ELSE @[o]]]

----------------------------------------------------------------------------
(* Dependencies: a build inherits those of the builds before it, replaces  *)
(* the ones of a type, takes some away, adds some, in this order.          *)

DependencyTypes == [kind \in {"-run", "-build", "-header", "-staticlib", "-lib"} |->
    CASE kind = "-run"       -> {"lib", "run"}
      [] kind = "-build"     -> {"staticlib", "lib", "run", "build"}
      [] kind = "-header"    -> {"header"}
      [] kind = "-staticlib" -> {"staticlib"}
      [] kind = "-lib"       -> {"lib"}]

RecursiveTypes(kind) == IF kind \in {"-run", "-build"} THEN {"lib", "run"} ELSE {}

Listed(t, b, o, sign, type) ==
    {item[2] : item \in {i \in Own(t, b, o, "dependencies") : i[1] = <<sign, type>>}}

(* NULL, where a list is expected. *)
NoList == {None}

(* Mutated form: what is added is taken away again. *)
RevisedAddFirst(t, b, o, type, list) ==
    LET base == IF Listed(t, b, o, "", type) = {} THEN list ELSE Listed(t, b, o, "", type)
    IN  IF base = NoList THEN NoList
        ELSE (base \cup Listed(t, b, o, "+", type)) \ Listed(t, b, o, "-", type)

Revised(t, b, o, type, list) ==
    LET base == IF Listed(t, b, o, "", type) = {} THEN list ELSE Listed(t, b, o, "", type)
    IN  IF base = NoList THEN NoList
        ELSE (base \ Listed(t, b, o, "-", type)) \cup Listed(t, b, o, "+", type)

(* The builds from the oldest to the one asked for. *)
DependenciesOf(t, builds, o, type) ==
    LET list[i \in 0..Len(builds)] ==
            IF i = 0 THEN NoList ELSE Revised(t, builds[i], o, type, list[i - 1])
    IN  IF list[Len(builds)] = NoList THEN {} ELSE list[Len(builds)]

Children(t, builds, o, types) == UNION {DependenciesOf(t, builds, o, type) : type \in types}

----------------------------------------------------------------------------
(* Reference definitions, without a loop. *)

(* From a build to the one it inherits from, and so on, but not for ever.  *)
Lines(t, b) ==
    {l \in UNION {[1..n -> Builds] : n \in 1..Cardinality(Builds)} :
       l[1] = b /\ \A i \in 2..Len(l) : l[i] = Inherits(t, l[i - 1])}

WholeLines(t, b) == {l \in Lines(t, b) : Inherits(t, l[Len(l)]) = None}

(* q is a dependency when some build of the line lists it, no newer one    *)
(* replaces the list or takes q away, and the list was begun at all.       *)
Depends(t, line, o, type, q) ==
    LET B == DOMAIN line
        base(i) == Listed(t, line[i], o, "", type)
        minus(i) == q \in Listed(t, line[i], o, "-", type)
        plus(i) == q \in Listed(t, line[i], o, "+", type)
    IN  \E i \in B :
          /\ \/ plus(i) /\ \E j \in B : j >= i /\ base(j) # {}
             \/ q \in base(i) /\ ~minus(i)
          /\ \A j \in B : j < i => base(j) = {} /\ ~minus(j)

(* The smallest set that holds the dependencies of a project and theirs.   *)
Closure(t, b, o, kind) ==
    LET needs(p, types) == {q \in Projects : \E type \in types, line \in WholeLines(t, b) :
                                                Depends(t, line, p, type, q)}
        closed(S) == /\ needs(o, DependencyTypes[kind]) \subseteq S
                     /\ \A p \in S : needs(p, RecursiveTypes(kind)) \subseteq S
    IN  {q \in Projects : \A S \in SUBSET Projects : closed(S) => q \in S}

(* What _DBCopyPropWithInheritance is said to find: the nearest build's    *)
(* value, unless the project turns out to be an alias in a nearer one;     *)
(* then the search is done again for the original, through all builds.     *)
Stops(t, x, o, p) == Own(t, x, o, p) # {} \/ Original(t, x, o) # None

Stopping(t, b, o, p) ==
    {l \in Lines(t, b) : \A i \in DOMAIN l : Stops(t, l[i], o, p) <=> i = Len(l)}

Nearest(t, b, o, p) ==
    UNION {Own(t, l[Len(l)], o, p) :
             l \in {m \in Lines(t, b) : \A i \in 1..(Len(m) - 1) : Own(t, m[i], o, p) = {}}}

Found(t, b, o, p) ==
    UNION {IF Own(t, l[Len(l)], o, p) # {} THEN Own(t, l[Len(l)], o, p)
           ELSE Nearest(t, b, Original(t, l[Len(l)], o), p) : l \in Stopping(t, b, o, p)}

(* No value for the original, up to the build where it turns out to be one.*)
Hidden(t, b, o, p) ==
    \E l \in Stopping(t, b, o, p) :
      /\ Own(t, l[Len(l)], o, p) = {}
      /\ \A i \in DOMAIN l : Own(t, l[i], Original(t, l[Len(l)], o), p) = {}

(* How often an array holds a value. *)
Times(t, b, o, p, v) == Cardinality({k \in Indexes : <<k, v>> \in Own(t, b, o, p)})

(* At most ten elements, the indexes of which sort as text as they do as   *)
(* numbers.                                                                *)
IsShort(items) == \E n \in 0..10 : {item[1] : item \in items} = {Text(i) : i \in 0..(n - 1)}

(* The same value, but for the order of a long array. *)
SameValue(t, u, b, o, p) ==
    IF PropType[p] = "array" /\ ~IsShort(Own(t, b, o, p))
    THEN \A v \in Texts : Times(t, b, o, p, v) = Times(u, b, o, p, v)
    ELSE Own(t, b, o, p) = Own(u, b, o, p)
=============================================================================
