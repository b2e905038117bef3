------------------------- MODULE DepotCommandsProofs ------------------------
(***************************************************************************)
(* Proofs about darwinup as its user calls it.  The commands keep the      *)
(* depot's invariant, whatever they are and however often they die.  As    *)
(* long as nobody renames a rollback archive, look-ups find what they are  *)
(* asked for, statements write what is meant, and an upgrade keeps the old *)
(* root until the new one is active.                                       *)
(***************************************************************************)
EXTENDS DepotCommands, DepotProofs, FiniteSetTheorems, SequenceTheorems

(***************************************************************************)
(* Statements: what their conditions select.                               *)
(***************************************************************************)
LEMMA MaxOfOne == ASSUME NEW n \in Nat PROVE Max({n}) = n
  BY MaxExists

LEMMA MaxOfTwo == Max({1, 2}) = 2
<1>1. {1, 2} \in SUBSET (0..2) /\ {1, 2} # {}
  OBVIOUS
<1>2. Max({1, 2}) \in {1, 2} /\ \A y \in {1, 2} : Max({1, 2}) >= y
  BY <1>1, MaxExists
<1> QED BY <1>2

LEMMA MinExists ==
    ASSUME NEW S \in SUBSET Nat, S # {}
    PROVE  \E m \in S : \A y \in S : m <= y
<1>1. PICK m \in S : \A y \in S : ~(<<y, m>> \in OpToRel(<, Nat))
  BY NatLessThanWellFounded, WFMin, Zenon
<1>2. ASSUME NEW y \in S, y < m PROVE FALSE
  <2>1. <<y, m>> \in Nat \X Nat /\ <<y, m>>[1] < <<y, m>>[2]
    BY <1>2
  <2> QED BY <1>1, <2>1, Zenon DEF OpToRel
<1>3. m \in Nat /\ \A y \in S : y \in Nat /\ ~(y < m)
  BY <1>2
<1> QED BY <1>3

LEMMA WhereOne ==
    ASSUME NEW column, NEW op, op # "!"
    PROVE  Where(<<[column |-> column, op |-> op]>>)
               = <<[column |-> column, negated |-> FALSE, op |-> op]>>
<1> DEFINE conds == <<[column |-> column, op |-> op]>>
<1>1. DOMAIN conds = {1} /\ conds[1].op = op /\ conds[1].column = column
  OBVIOUS
<1>2. {j \in 1..1 : conds[j].op # "!"} = {1} /\ {1} # {}
  BY <1>1
<1>3. ~ \E j \in 1..1 : conds[j].op = "!"
  BY <1>1
<1> HIDE DEF conds
<1>4. Where(conds) = [i \in {1} |-> Where(conds)[i]]
  BY <1>1 DEF Where
<1>5. Where(conds)[1] = [column |-> column, negated |-> FALSE, op |-> op]
  BY <1>1, <1>2, <1>3, MaxOfOne DEF Where
<1> QED BY <1>4, <1>5 DEF conds

LEMMA WhereNot ==
    ASSUME NEW column
    PROVE  Where(<<IsNot(column)>>) = <<[column |-> column, negated |-> TRUE, op |-> "="]>>
<1> DEFINE conds == <<IsNot(column)>>
<1>1. DOMAIN conds = {1} /\ conds[1].op = "!" /\ conds[1].column = column
  BY DEF IsNot
<1>2. {j \in 1..1 : conds[j].op # "!"} = {} /\ \E j \in 1..1 : conds[j].op = "!"
  BY <1>1
<1> HIDE DEF conds
<1>3. Where(conds) = [i \in {1} |-> Where(conds)[i]]
  BY <1>1 DEF Where
<1>4. Where(conds)[1] = [column |-> column, negated |-> TRUE, op |-> "="]
  BY <1>1, <1>2 DEF Where
<1> QED BY <1>3, <1>4 DEF conds

LEMMA WhereTwo ==
    ASSUME NEW a, NEW b, NEW op, op # "!"
    PROVE  Where(<<[column |-> a, op |-> op], Is(b)>>)
               = <<[column |-> a, negated |-> FALSE, op |-> op],
                   [column |-> b, negated |-> FALSE, op |-> "="]>>
<1> DEFINE conds == <<[column |-> a, op |-> op], Is(b)>>
           first  == [column |-> a, negated |-> FALSE, op |-> op]
           second == [column |-> b, negated |-> FALSE, op |-> "="]
<1>1. /\ DOMAIN conds = {1, 2} /\ conds[1].op = op /\ conds[1].column = a
      /\ conds[2].op = "=" /\ conds[2].column = b
  BY DEF Is
<1>2. /\ {j \in 1..1 : conds[j].op # "!"} = {1} /\ {1} # {}
      /\ {j \in 1..2 : conds[j].op # "!"} = {1, 2} /\ {1, 2} # {}
  BY <1>1
<1>3. (~ \E j \in 1..1 : conds[j].op = "!") /\ (~ \E j \in 1..2 : conds[j].op = "!")
  BY <1>1
<1> HIDE DEF conds
<1>4. Where(conds) = [i \in {1, 2} |-> Where(conds)[i]]
  BY <1>1 DEF Where
<1>5. Where(conds)[1] = first
  BY <1>1, <1>2, <1>3, MaxOfOne DEF Where
<1>6. Where(conds)[2] = second
  BY <1>1, <1>2, <1>3, MaxOfTwo DEF Where
<1>7. Where(conds) = <<first, second>>
  <2> HIDE DEF first, second
  <2>1. DOMAIN Where(conds) = {1, 2}
    BY <1>4
  <2> QED BY <1>4, <1>5, <1>6
<1> QED BY <1>7 DEF conds

(* The rows one condition selects, and two. *)
LEMMA SelectIs ==
    ASSUME NEW statement, NEW column, statement.where = Where(<<Is(column)>>), NEW v, NEW rows
    PROVE  Selected(statement, <<v>>, rows) = {r \in rows : r[column] = v}
<1>1. statement.where = <<[column |-> column, negated |-> FALSE, op |-> "="]>>
  BY WhereOne DEF Is
<1> QED BY <1>1 DEF Selected, Compares

LEMMA SelectIsNot ==
    ASSUME NEW statement, NEW column, statement.where = Where(<<IsNot(column)>>), NEW v, NEW rows
    PROVE  Selected(statement, <<v>>, rows) = {r \in rows : r[column] # v}
<1>1. statement.where = <<[column |-> column, negated |-> TRUE, op |-> "="]>>
  BY WhereNot
<1> QED BY <1>1 DEF Selected, Compares

LEMMA SelectBelow ==
    ASSUME NEW statement, NEW a, NEW b, statement.where = Where(<<LessThan(a), Is(b)>>),
           NEW u, NEW v, NEW rows
    PROVE  Selected(statement, <<u, v>>, rows) = {r \in rows : r[a] < u /\ r[b] = v}
<1>1. statement.where = <<[column |-> a, negated |-> FALSE, op |-> "<"],
                          [column |-> b, negated |-> FALSE, op |-> "="]>>
  BY WhereTwo DEF LessThan
<1> QED BY <1>1 DEF Selected, Compares

LEMMA SelectAbove ==
    ASSUME NEW statement, NEW a, NEW b, statement.where = Where(<<MoreThan(a), Is(b)>>),
           NEW u, NEW v, NEW rows
    PROVE  Selected(statement, <<u, v>>, rows) = {r \in rows : r[a] > u /\ r[b] = v}
<1>1. statement.where = <<[column |-> a, negated |-> FALSE, op |-> ">"],
                          [column |-> b, negated |-> FALSE, op |-> "="]>>
  BY WhereTwo DEF MoreThan
<1> QED BY <1>1 DEF Selected, Compares

-----------------------------------------------------------------------------
(***************************************************************************)
(* The cache of prepared statements (Database.cpp:421-519): each name is   *)
(* asked for with one statement only.                                      *)
(***************************************************************************)
Statements == {ByUuid, BySerial, ByName, ByNewest, ByOldest, GetArchives,
               FilePreceded, FileSuperseded}

Sound(statements) == \A x \in Statements :
    x.name \in DOMAIN statements => statements[x.name] = x.statement

LEMMA OneStatement == \A x, y \in Statements : x.name = y.name => x = y
<1>1. /\ ByUuid.name = "archive__uuid" /\ BySerial.name = "archive__serial"
      /\ ByName.name = "archive__name" /\ ByNewest.name = "archive_newest"
      /\ ByOldest.name = "archive_oldest" /\ GetArchives.name = "get_archives"
      /\ FilePreceded.name = "file_preceded" /\ FileSuperseded.name = "file_superseded"
  BY DEF ByUuid, BySerial, ByName, ByNewest, ByOldest, GetArchives, FilePreceded,
         FileSuperseded, Named
<1> QED BY <1>1 DEF Statements

LEMMA CachingSound ==
    ASSUME NEW statements, Sound(statements), NEW y \in Statements
    PROVE  Sound(Caching(statements, y))
<1> SUFFICES ASSUME NEW x \in Statements, x.name \in DOMAIN statements \cup {y.name}
             PROVE  Caching(statements, y)[x.name] = x.statement
  BY DEF Sound, Caching
<1>1. CASE x.name = y.name
  <2>1. x = y
    BY <1>1, OneStatement
  <2> QED BY <2>1 DEF Caching, Prepared, Sound
<1>2. CASE x.name # y.name
  <2>1. x.name \in DOMAIN statements /\ statements[x.name] = x.statement
    BY <1>2 DEF Sound
  <2>2. Caching(statements, y)[x.name]
            = Prepared(statements, Named(x.name, statements[x.name]))
    BY <1>2 DEF Caching
  <2> QED BY <2>1, <2>2 DEF Prepared, Named
<1> QED BY <1>1, <1>2

LEMMA Asked ==
    ASSUME Sound(cache), NEW x \in Statements
    PROVE  Prepared(cache, x) = x.statement
BY DEF Prepared, Sound

LEMMA AsksNamed ==
    ASSUME NEW spec, spec[1] \in {"uuid", "serial", "name", "newest", "oldest"}
    PROVE  Asks(spec) \in Statements
BY DEF Asks, Statements

-----------------------------------------------------------------------------
(* The rows of the archives table, written and read by their columns.      *)
LEMMA Positions ==
    /\ Position(ArchiveColumns, "name") = 3 /\ Position(ArchiveColumns, "date_added") = 4
    /\ Position(ArchiveColumns, "osbuild") = 7
<1> DEFINE at(c, i) == i \in DOMAIN ArchiveColumns /\ ArchiveColumns[i] = c
<1>1. /\ \A i : at("name", i) <=> i = 3
      /\ \A i : at("date_added", i) <=> i = 4
      /\ \A i : at("osbuild", i) <=> i = 7
  BY DEF ArchiveColumns
<1> QED BY <1>1 DEF Position

LEMMA SetPositions ==
    LET set == Tail(ArchiveColumns) IN
    /\ Position(set, "uuid") = 1 /\ Position(set, "name") = 2
    /\ Position(set, "date_added") = 3 /\ Position(set, "active") = 4
    /\ Position(set, "info") = 5 /\ Position(set, "osbuild") = 6
<1> DEFINE set == Tail(ArchiveColumns)
           at(c, i) == i \in DOMAIN set /\ set[i] = c
<1>1. set = <<"uuid", "name", "date_added", "active", "info", "osbuild">>
  BY DEF ArchiveColumns
<1> HIDE DEF set
<1>2. /\ DOMAIN set = 1..6
      /\ set[1] = "uuid" /\ set[2] = "name" /\ set[3] = "date_added"
      /\ set[4] = "active" /\ set[5] = "info" /\ set[6] = "osbuild"
  BY <1>1
<1>3. /\ \A i : at("uuid", i) <=> i = 1
      /\ \A i : at("name", i) <=> i = 2
      /\ \A i : at("date_added", i) <=> i = 3
      /\ \A i : at("active", i) <=> i = 4
      /\ \A i : at("info", i) <=> i = 5
      /\ \A i : at("osbuild", i) <=> i = 6
  BY <1>2
<1>4. /\ Position(set, "uuid") = 1 /\ Position(set, "name") = 2
      /\ Position(set, "date_added") = 3 /\ Position(set, "active") = 4
      /\ Position(set, "info") = 5 /\ Position(set, "osbuild") = 6
  BY <1>3 DEF Position
<1> QED BY <1>4 DEF set

Labelling(name, date, b) == [name |-> name, date |-> date, build |-> b]

(* The row Database::insert writes for an archive. *)
NewRow(s, name, date, info, b) ==
    [c \in {ArchiveColumns[i] : i \in DOMAIN ArchiveColumns} |->
        IF c = ArchiveColumns[1] THEN s
        ELSE <<s, name, date, 0, info, b>>[Position(ArchiveColumns, c) - 1]]

LEMMA NewRowColumns ==
    ASSUME NEW s, NEW name, NEW date, NEW info, NEW b
    PROVE  LET r == NewRow(s, name, date, info, b) IN
           r.serial = s /\ r.name = name /\ r.date_added = date /\ r.osbuild = b
<1>1. {"serial", "name", "date_added", "osbuild"}
          \subseteq {ArchiveColumns[i] : i \in DOMAIN ArchiveColumns}
  <2>1. /\ {1, 3, 4, 7} \subseteq DOMAIN ArchiveColumns
        /\ ArchiveColumns[1] = "serial" /\ ArchiveColumns[3] = "name"
        /\ ArchiveColumns[4] = "date_added" /\ ArchiveColumns[7] = "osbuild"
    BY DEF ArchiveColumns
  <2> QED BY <2>1
<1>2. ArchiveColumns[1] = "serial"
  BY DEF ArchiveColumns
<1> QED BY <1>1, <1>2, Positions DEF NewRow

LEMMA LabelOfNew ==
    ASSUME NEW s, NEW t, s # t, NEW name, NEW other, NEW date, NEW b, NEW i, NEW j
    PROVE  LET rows == {NewRow(s, name, date, i, b), NewRow(t, other, date, j, b)} IN
           /\ LabelIn(rows, s) = Labelling(name, date, b)
           /\ LabelIn(rows, t) = Labelling(other, date, b)
<1> DEFINE x == NewRow(s, name, date, i, b)
           y == NewRow(t, other, date, j, b)
<1>1. /\ x.serial = s /\ x.name = name /\ x.date_added = date /\ x.osbuild = b
      /\ y.serial = t /\ y.name = other /\ y.date_added = date /\ y.osbuild = b
  BY NewRowColumns
<1> HIDE DEF x, y
<1>2. /\ \A r \in {x, y} : r.serial = s <=> r = x
      /\ \A r \in {x, y} : r.serial = t <=> r = y
  BY <1>1
<1>3. /\ (CHOOSE r \in {x, y} : r.serial = s) = x
      /\ (CHOOSE r \in {x, y} : r.serial = t) = y
  BY <1>2
<1> QED BY <1>1, <1>3 DEF LabelIn, Labelling, x, y

(* The rows that are there, one for each archive. *)
LEMMA RowColumns ==
    ASSUME NEW s
    PROVE  /\ Row(s).serial = s /\ Row(s).uuid = s /\ Row(s).name = labels[s].name
           /\ Row(s).date_added = labels[s].date
           /\ Row(s).active = Flagged(archives[s].active)
           /\ Row(s).info = Flagged(archives[s].rollback) /\ Row(s).osbuild = labels[s].build
           /\ DOMAIN Row(s) = {"serial", "uuid", "name", "date_added", "active", "info", "osbuild"}
BY DEF Row

LEMMA RowOf ==
    /\ \A s \in Serials : archives[s] # None => Row(s) \in ArchiveRows
    /\ \A r \in ArchiveRows : r.serial \in Serials /\ archives[r.serial] # None
                                /\ r = Row(r.serial)
<1>1. \A s \in Serials : archives[s] # None => Row(s) \in ArchiveRows
  BY DEF ArchiveRows
<1>2. ASSUME NEW r \in ArchiveRows
      PROVE  r.serial \in Serials /\ archives[r.serial] # None /\ r = Row(r.serial)
  <2>1. PICK s \in Serials : archives[s] # None /\ r = Row(s)
    BY <1>2 DEF ArchiveRows
  <2> QED BY <2>1, RowColumns
<1> QED BY <1>1, <1>2

(* Database::update, as Depot::rename_archive calls it. *)
WrittenRow(s, name) ==
    [serial |-> s, uuid |-> s, name |-> name, date_added |-> labels[s].date, active |-> 1,
     info |-> Flagged(archives[s].rollback), osbuild |-> labels[s].build]

LEMMA BoundParameters ==
    ASSUME NEW a, NEW b, NEW c, NEW d, NEW e, NEW f, NEW key
    PROVE  LET bound == Parameters(ArchiveColumns, <<a, b, c, d, e, f>>, key) IN
           /\ bound[1] = a /\ bound[2] = b /\ bound[3] = c /\ bound[4] = d
           /\ bound[5] = e /\ bound[6] = f /\ bound[Len(ArchiveColumns)] = key
<1>1. Len(ArchiveColumns) = 7
  BY DEF ArchiveColumns
<1> DEFINE values == <<a, b, c, d, e, f>>
<1>2. /\ Len(values) = 6 /\ values[1] = a /\ values[2] = b /\ values[3] = c
      /\ values[4] = d /\ values[5] = e /\ values[6] = f
  OBVIOUS
<1> HIDE DEF values
<1>3. Parameters(ArchiveColumns, values, key)
          = [i \in 1..7 |-> IF i = 7 THEN key ELSE IF i <= 6 THEN values[i] ELSE Null]
  BY <1>1, <1>2 DEF Parameters, KeyParameter
<1> QED BY <1>1, <1>2, <1>3 DEF values

LEMMA RenamedRows ==
    ASSUME NEW s \in Serials, NEW name
    PROVE  Renamed(s, name) = {IF r.serial = s THEN WrittenRow(s, name) ELSE r : r \in ArchiveRows}
<1> DEFINE values == <<s, name, labels[s].date, 1, Flagged(archives[s].rollback),
                       labels[s].build>>
           bound  == Parameters(ArchiveColumns, values, s)
           set    == Tail(ArchiveColumns)
           After(r) == [c \in DOMAIN r |-> IF c = "serial" THEN r[c] ELSE bound[Position(set, c)]]
<1>1. /\ bound[1] = s /\ bound[2] = name /\ bound[3] = labels[s].date /\ bound[4] = 1
      /\ bound[5] = Flagged(archives[s].rollback) /\ bound[6] = labels[s].build
      /\ bound[Len(ArchiveColumns)] = s
  BY BoundParameters
<1>2. ArchiveColumns[1] = "serial"
  BY DEF ArchiveColumns
<1>3. /\ Position(set, "uuid") = 1 /\ Position(set, "name") = 2
      /\ Position(set, "date_added") = 3 /\ Position(set, "active") = 4
      /\ Position(set, "info") = 5 /\ Position(set, "osbuild") = 6
  BY SetPositions
<1> HIDE DEF values, bound, set
<1>4. After(Row(s)) = WrittenRow(s, name)
  <2>1. DOMAIN Row(s) = DOMAIN WrittenRow(s, name)
    BY RowColumns DEF WrittenRow
  <2>2. \A c \in DOMAIN Row(s) : After(Row(s))[c] = WrittenRow(s, name)[c]
    BY <1>1, <1>3, RowColumns DEF WrittenRow
  <2>3. WrittenRow(s, name) = [c \in DOMAIN WrittenRow(s, name) |-> WrittenRow(s, name)[c]]
    BY DEF WrittenRow
  <2> QED BY <2>1, <2>2, <2>3
<1>5. \A r \in ArchiveRows : r.serial = s => After(r) = WrittenRow(s, name)
  BY <1>4, RowOf
<1>6. Renamed(s, name) = {IF r["serial"] = s THEN After(r) ELSE r : r \in ArchiveRows}
  BY <1>1, <1>2 DEF Renamed, Updated, UpdateRow, values, bound, set
<1> HIDE DEF After
<1> QED BY <1>5, <1>6

LEMMA FoundIsArchive ==
    ASSUME NEW spec
    PROVE  /\ GetArchive(spec) = {r.serial : r \in First(Prepared(cache, Asks(spec)),
                                                         <<Value(spec)>>, ArchiveRows)}
           /\ \A s \in GetArchive(spec) : s \in Serials /\ archives[s] # None
<1>1. First(Prepared(cache, Asks(spec)), <<Value(spec)>>, ArchiveRows) \subseteq ArchiveRows
  BY DEF First, Selected
<1>2. GetArchive(spec) = {r.serial : r \in First(Prepared(cache, Asks(spec)),
                                                 <<Value(spec)>>, ArchiveRows)}
  BY DEF GetArchive
<1> QED BY <1>1, <1>2, RowOf

LEMMA RenamedRow ==
    ASSUME NEW s \in Serials, archives[s] # None, NEW name, NEW t \in Serials, archives[t] # None
    PROVE  (CHOOSE row \in Renamed(s, name) : row.serial = t)
               = IF t = s THEN WrittenRow(s, name) ELSE Row(t)
<1> DEFINE x == IF t = s THEN WrittenRow(s, name) ELSE Row(t)
<1>1. WrittenRow(s, name).serial = s
  BY DEF WrittenRow
<1>2. x \in Renamed(s, name) /\ x.serial = t
  BY <1>1, RenamedRows, RowOf, RowColumns
<1>3. ASSUME NEW row \in Renamed(s, name), row.serial = t PROVE row = x
  <2>1. PICK r \in ArchiveRows : row = IF r.serial = s THEN WrittenRow(s, name) ELSE r
    BY RenamedRows
  <2>2. r = Row(r.serial)
    BY RowOf
  <2>3. CASE r.serial = s
    BY <1>1, <1>3, <2>1, <2>3
  <2>4. CASE r.serial # s
    BY <1>3, <2>1, <2>2, <2>4
  <2> QED BY <2>3, <2>4
<1> HIDE DEF x
<1>4. (CHOOSE row \in Renamed(s, name) : row.serial = t) = x
  BY <1>2, <1>3
<1> QED BY <1>4 DEF x

(* What is known of the labels without knowing who renames what. *)
Labelled ==
    /\ labels = [s \in Serials |-> labels[s]]
    /\ \A s \in Serials : archives[s] # None =>
           labels[s] = Labelling(labels[s].name, labels[s].date, labels[s].build)

RenamedTo(s, name) ==
    /\ labels' = [t \in Serials |->
           IF t = s THEN Labelling(name, labels[s].date, labels[s].build) ELSE labels[t]]
    /\ archives' = [t \in Serials |->
           IF t = s THEN [archives[s] EXCEPT !.active = TRUE] ELSE archives[t]]

LEMMA RenameEffect ==
    ASSUME TypeOK, Labelled, Rename
    PROVE  \E s \in GetArchive(main.args[1]) :
               s \in Serials /\ archives[s] # None /\ RenamedTo(s, main.args[2])
<1> DEFINE name == main.args[2]
<1>1. PICK s \in GetArchive(main.args[1]) :
        /\ labels' = [t \in Serials |-> IF archives[t] = None THEN labels[t]
                                         ELSE LabelIn(Renamed(s, name), t)]
        /\ archives' = [t \in Serials |-> IF archives[t] = None THEN None ELSE
              [archives[t] EXCEPT !.active =
                  (CHOOSE row \in Renamed(s, name) : row.serial = t).active = 1]]
  BY DEF Rename
<1>2. s \in Serials /\ archives[s] # None
  BY FoundIsArchive
<1> HIDE DEF name
<1>3. \A t \in Serials : archives[t] # None =>
          (CHOOSE row \in Renamed(s, name) : row.serial = t)
              = IF t = s THEN WrittenRow(s, name) ELSE Row(t)
  BY <1>2, RenamedRow
<1>4. ASSUME NEW t \in Serials, archives[t] # None, t # s
      PROVE  /\ LabelIn(Renamed(s, name), t) = labels[t]
             /\ [archives[t] EXCEPT !.active =
                  (CHOOSE row \in Renamed(s, name) : row.serial = t).active = 1] = archives[t]
  <2>1. (CHOOSE row \in Renamed(s, name) : row.serial = t) = Row(t)
    BY <1>3, <1>4
  <2>2. LabelIn(Renamed(s, name), t) = Labelling(labels[t].name, labels[t].date, labels[t].build)
    BY <2>1, RowColumns DEF LabelIn, Labelling
  <2>3. archives[t] \in Archive
    BY <1>4 DEF TypeOK
  <2>4. (Row(t).active = 1) = archives[t].active
    BY <2>3, RowColumns DEF Flagged, Archive
  <2>5. [archives[t] EXCEPT !.active = archives[t].active] = archives[t]
    BY <2>3 DEF Archive
  <2> QED BY <1>4, <2>1, <2>2, <2>4, <2>5 DEF Labelled
<1>5. /\ LabelIn(Renamed(s, name), s) = Labelling(name, labels[s].date, labels[s].build)
      /\ [archives[s] EXCEPT !.active =
            (CHOOSE row \in Renamed(s, name) : row.serial = s).active = 1]
         = [archives[s] EXCEPT !.active = TRUE]
  <2>1. (CHOOSE row \in Renamed(s, name) : row.serial = s) = WrittenRow(s, name)
    BY <1>2, <1>3
  <2>2. /\ WrittenRow(s, name).active = 1 /\ WrittenRow(s, name).name = name
        /\ WrittenRow(s, name).date_added = labels[s].date
        /\ WrittenRow(s, name).osbuild = labels[s].build
    BY DEF WrittenRow
  <2>3. LabelIn(Renamed(s, name), s) = Labelling(name, labels[s].date, labels[s].build)
    BY <2>1, <2>2 DEF LabelIn, Labelling
  <2>4. [archives[s] EXCEPT !.active = WrittenRow(s, name).active = 1]
            = [archives[s] EXCEPT !.active = TRUE]
    BY <2>2
  <2> QED BY <2>1, <2>3, <2>4
<1>6. RenamedTo(s, name)
  <2>1. labels' = [t \in Serials |-> IF t = s
                      THEN Labelling(name, labels[s].date, labels[s].build) ELSE labels[t]]
    BY <1>1, <1>2, <1>4, <1>5
  <2>2. archives' = [t \in Serials |-> IF t = s THEN [archives[s] EXCEPT !.active = TRUE]
                                       ELSE archives[t]]
    BY <1>1, <1>2, <1>4, <1>5
  <2> QED BY <2>1, <2>2 DEF RenamedTo
<1> QED BY <1>2, <1>6 DEF name

-----------------------------------------------------------------------------
(***************************************************************************)
(* The process: its arguments are what is left of a command line.          *)
(***************************************************************************)
Args == UNION {{c.args[i] : i \in DOMAIN c.args} : c \in CommandLines}

MainShape ==
    /\ main = [pc |-> main.pc, op |-> main.op, args |-> main.args, force |-> main.force,
               list |-> main.list, old |-> main.old, result |-> main.result]
    /\ main.pc \in {"idle", "next", "install", "list", "uninstall"}
    /\ main.args \in Seq(Args)
    /\ main.pc \in {"idle", "next"} => main.old = 0
    /\ main.pc \in {"install", "list", "uninstall"} => main.op # "rename" /\ main.args # <<>>

(* The arguments from the k-th on. *)
LeftOf(c, k) ==
    /\ main.op = c.op /\ Len(main.args) = Len(c.args) - k
    /\ \A i \in 1..Len(main.args) : main.args[i] = c.args[k + i]
    /\ main.op = "rename" /\ main.result = "ok" => k % 2 = 0

OnLine == main.pc # "idle" => \E c \in CommandLines, k \in Nat : LeftOf(c, k)

LEMMA Parity ==
    \A k \in Nat : /\ k % 2 = 0 => (k + 1) % 2 = 1 /\ (k + 2) % 2 = 0
                  /\ k % 2 = 1 => (k + 1) % 2 = 0 /\ (k + 2) % 2 = 1
OBVIOUS

LEMMA LineArgs == \A c \in CommandLines : c.args \in Seq(Args) /\ DOMAIN c.args = 1..Len(c.args)
<1> SUFFICES ASSUME NEW c \in CommandLines
             PROVE  c.args \in Seq(Args) /\ DOMAIN c.args = 1..Len(c.args)
  OBVIOUS
<1>1. Len(c.args) \in Nat /\ c.args = [i \in 1..Len(c.args) |-> c.args[i]]
  BY CommandLinesAssumption
<1>2. DOMAIN c.args = 1..Len(c.args)
  BY <1>1
<1>3. \A i \in 1..Len(c.args) : c.args[i] \in Args
  BY <1>2 DEF Args
<1> QED BY <1>1, <1>2, <1>3

(* What the first argument is, when it is looked at. *)
LEMMA HeadFits ==
    ASSUME MainShape, OnLine, main.pc # "idle", main.args # <<>>
    PROVE  /\ main.op \in {"install", "upgrade"} => Head(main.args) \in Roots
           /\ main.op \in {"uninstall", "files", "verify", "list"}
                => Specified(Head(main.args))
           /\ main.op = "rename" /\ main.result = "ok" => Specified(main.args[1])
<1>1. PICK c \in CommandLines, k \in Nat : LeftOf(c, k)
  BY DEF OnLine
<1>2. Len(main.args) \in Nat \ {0} /\ Head(main.args) = main.args[1] /\ Len(c.args) \in Nat
  BY CommandLinesAssumption DEF MainShape
<1>3. main.args[1] = c.args[k + 1] /\ k + 1 \in DOMAIN c.args /\ main.op = c.op
  BY <1>1, <1>2, LineArgs DEF LeftOf
<1>4. main.op = "rename" /\ main.result = "ok" => (k + 1) % 2 = 1
  <2>1. k % 2 = 0 => (k + 1) % 2 = 1
    BY Parity
  <2> QED BY <1>1, <2>1 DEF LeftOf
<1> QED BY <1>2, <1>3, <1>4, CommandLinesAssumption

LEMMA Rests == main' = Resting => MainShape' /\ OnLine'
<1> SUFFICES ASSUME main' = Resting PROVE MainShape' /\ OnLine'
  OBVIOUS
<1>1. /\ main'.pc = "idle" /\ main'.op = "none" /\ main'.args = <<>> /\ main'.old = 0
  BY DEF Resting
<1>2. main' = [pc |-> main'.pc, op |-> main'.op, args |-> main'.args, force |-> main'.force,
               list |-> main'.list, old |-> main'.old, result |-> main'.result]
  BY DEF Resting
<1> QED BY <1>1, <1>2 DEF MainShape, OnLine

LEMMA Begins ==
    ASSUME NEW c \in CommandLines,
           main' = [Resting EXCEPT !.pc = "next", !.op = c.op, !.args = c.args,
                                   !.force = c.force]
    PROVE  MainShape' /\ OnLine'
<1>1. /\ main'.pc = "next" /\ main'.op = c.op /\ main'.args = c.args /\ main'.old = 0
  BY DEF Resting
<1>2. main' = [pc |-> main'.pc, op |-> main'.op, args |-> main'.args, force |-> main'.force,
               list |-> main'.list, old |-> main'.old, result |-> main'.result]
  BY DEF Resting
<1>3. MainShape'
  BY <1>1, <1>2, LineArgs DEF MainShape
<1>4. LeftOf(c, 0)'
  BY <1>1, LineArgs DEF LeftOf
<1> QED BY <1>3, <1>4 DEF OnLine

(* Going on with the same arguments, in a command that is no renaming. *)
Going(p, list, old, result) ==
    main' = [pc |-> p, op |-> main.op, args |-> main.args, force |-> main.force,
             list |-> list, old |-> old, result |-> result]

LEMMA GoesOn ==
    ASSUME MainShape, OnLine, main.pc # "idle", main.op # "rename", main.args # <<>>,
           NEW p \in {"install", "list", "uninstall"}, NEW l, NEW o, NEW r, Going(p, l, o, r)
    PROVE  MainShape' /\ OnLine'
<1>1. /\ main'.pc = p /\ main'.op = main.op /\ main'.args = main.args /\ main'.old = o
  BY DEF Going
<1>2. main' = [pc |-> main'.pc, op |-> main'.op, args |-> main'.args, force |-> main'.force,
               list |-> main'.list, old |-> main'.old, result |-> main'.result]
  BY DEF Going
<1>3. MainShape'
  BY <1>1, <1>2 DEF MainShape
<1>4. PICK c \in CommandLines, k \in Nat : LeftOf(c, k)
  BY DEF OnLine
<1>5. LeftOf(c, k)'
  BY <1>1, <1>4 DEF LeftOf
<1> QED BY <1>3, <1>5 DEF OnLine

(* Taking arguments away: one, or the two of a renaming. *)
LEMMA GoesPast ==
    ASSUME MainShape, OnLine, main.pc # "idle", NEW n \in {1, 2}, Len(main.args) >= n,
           main'.args \in Seq(Args), Len(main'.args) = Len(main.args) - n,
           \A i \in 1..Len(main'.args) : main'.args[i] = main.args[n + i],
           main'.op = main.op, main.op = "rename" /\ main'.result = "ok" =>
               n = 2 /\ main.result = "ok"
    PROVE  OnLine'
<1>1. PICK c \in CommandLines, k \in Nat : LeftOf(c, k)
  BY DEF OnLine
<1>2. Len(main.args) \in Nat /\ Len(main'.args) \in Nat /\ Len(c.args) \in Nat
  BY LineArgs DEF MainShape
<1>3. k + n \in Nat /\ Len(main'.args) = Len(c.args) - (k + n)
  BY <1>1, <1>2 DEF LeftOf
<1>4. \A i \in 1..Len(main'.args) : main'.args[i] = c.args[(k + n) + i]
  <2> SUFFICES ASSUME NEW i \in 1..Len(main'.args) PROVE main'.args[i] = c.args[(k + n) + i]
    OBVIOUS
  <2>1. n + i \in 1..Len(main.args) /\ k + (n + i) = (k + n) + i
    BY <1>2
  <2> QED BY <1>1, <2>1 DEF LeftOf
<1>5. main'.op = "rename" /\ main'.result = "ok" => (k + n) % 2 = 0
  <2>1. k % 2 = 0 => (k + 2) % 2 = 0
    BY Parity
  <2> QED BY <1>1, <2>1 DEF LeftOf
<1>6. LeftOf(c, k + n)'
  BY <1>1, <1>3, <1>4, <1>5 DEF LeftOf
<1> QED BY <1>3, <1>6 DEF OnLine

LEMMA DoneShape ==
    ASSUME MainShape, OnLine, main.pc # "idle", main.args # <<>>, NEW r, Done(r),
           main.op = "rename" => r # "ok"
    PROVE  MainShape' /\ OnLine'
<1>1. /\ main'.pc = "next" /\ main'.op = main.op /\ main'.args = Tail(main.args)
      /\ main'.old = 0 /\ main'.result = r
  BY DEF Done, MainShape
<1>2. main' = [pc |-> main'.pc, op |-> main'.op, args |-> main'.args, force |-> main'.force,
               list |-> main'.list, old |-> main'.old, result |-> main'.result]
  BY DEF Done, MainShape
<1>3. /\ Tail(main.args) \in Seq(Args) /\ Len(main.args) >= 1
      /\ Len(Tail(main.args)) = Len(main.args) - 1
      /\ \A i \in 1..Len(Tail(main.args)) : Tail(main.args)[i] = main.args[1 + i]
  BY DEF MainShape
<1>4. MainShape'
  BY <1>1, <1>2, <1>3 DEF MainShape
<1>5. OnLine'
  BY <1>1, <1>3, GoesPast
<1> QED BY <1>4, <1>5

LEMMA RenameShape ==
    ASSUME MainShape, OnLine, Rename
    PROVE  MainShape' /\ OnLine'
<1>1. /\ main.pc = "next" /\ main.op = "rename" /\ main.result = "ok" /\ Len(main.args) > 1
      /\ main' = [main EXCEPT !.args = SubSeq(main.args, 3, Len(main.args))]
  BY DEF Rename, Argument
<1> DEFINE a == SubSeq(main.args, 3, Len(main.args))
<1>2. /\ a \in Seq(Args) /\ Len(a) = Len(main.args) - 2
      /\ \A i \in 1..Len(a) : a[i] = main.args[2 + i]
  <2> DEFINE n == Len(main.args)
  <2>1. n \in Int /\ n >= 2 /\ 3 \in Int /\ \A i \in 3..n : main.args[i] \in Args
    BY <1>1 DEF MainShape
  <2> HIDE DEF n
  <2>2. /\ SubSeq(main.args, 3, n) \in Seq(Args)
        /\ Len(SubSeq(main.args, 3, n)) = IF 3 <= n THEN n - 3 + 1 ELSE 0
        /\ \A i \in 1..(n - 3 + 1) : SubSeq(main.args, 3, n)[i] = main.args[3 + i - 1]
    BY <2>1, SubSeqProperties
  <2> QED BY <2>1, <2>2 DEF n
<1>3. Len(main.args) \in Nat /\ Len(main.args) >= 2
  BY <1>1 DEF MainShape
<1> HIDE DEF a
<1>4. /\ main'.pc = "next" /\ main'.op = main.op /\ main'.args = a
      /\ main'.old = main.old /\ main'.result = main.result
  BY <1>1 DEF MainShape, a
<1>5. main' = [pc |-> main'.pc, op |-> main'.op, args |-> main'.args, force |-> main'.force,
               list |-> main'.list, old |-> main'.old, result |-> main'.result]
  BY <1>1 DEF MainShape
<1>6. MainShape'
  BY <1>1, <1>2, <1>4, <1>5 DEF MainShape
<1>7. OnLine'
  BY <1>1, <1>2, <1>3, <1>4, GoesPast
<1> QED BY <1>6, <1>7

(***************************************************************************)
(* Every step of the process, and what it asks the database.               *)
(***************************************************************************)
ProcessInv == MainShape /\ OnLine /\ Sound(cache)

LEMMA FilesAsked == ASSUME Sound(cache), AskingFiles PROVE Sound(cache')
<1>1. FilePreceded \in Statements /\ FileSuperseded \in Statements
  BY DEF Statements
<1>2. Sound(Caching(cache, FilePreceded))
  BY <1>1, CachingSound
<1>3. Sound(Caching(Caching(cache, FilePreceded), FileSuperseded))
  BY <1>1, <1>2, CachingSound
<1> QED BY <1>3 DEF AskingFiles

LEMMA InstallingShape ==
    ASSUME ProcessInv, Argument({"install", "upgrade"}), NEW root, NEW old, Installing(root, old)
    PROVE  ProcessInv'
<1>1. Going("install", main.list, old, main.result)
  BY DEF Installing, Going, ProcessInv, MainShape
<1>2. MainShape' /\ OnLine'
  BY <1>1, GoesOn DEF Argument, ProcessInv
<1> QED BY <1>2, FilesAsked DEF Installing, ProcessInv

LEMMA StartShape ==
    ASSUME ProcessInv, Command \/ InstallArgument \/ UpgradeArgument \/ NothingToUpgrade
    PROVE  ProcessInv'
<1>1. CASE Command
  <2>1. PICK c \in CommandLines : main' = [Resting EXCEPT !.pc = "next", !.op = c.op,
                                                   !.args = c.args, !.force = c.force]
    BY <1>1 DEF Command
  <2>2. MainShape' /\ OnLine'
    BY <2>1, Begins
  <2>3. cache' = NoStatements
    BY <1>1 DEF Command
  <2> QED BY <2>2, <2>3 DEF ProcessInv, Sound, NoStatements
<1>2. CASE InstallArgument
  BY <1>2, InstallingShape DEF InstallArgument, Argument
<1>3. CASE UpgradeArgument
  BY <1>3, InstallingShape DEF UpgradeArgument, Argument
<1>4. CASE NothingToUpgrade
  <2>1. MainShape' /\ OnLine'
    BY <1>4, DoneShape DEF NothingToUpgrade, Argument, ProcessInv
  <2>2. ByName \in Statements /\ cache' = Caching(cache, ByName)
    BY <1>4 DEF NothingToUpgrade, Asking, Statements
  <2> QED BY <2>1, <2>2, CachingSound DEF ProcessInv
<1> QED BY <1>1, <1>2, <1>3, <1>4

LEMMA InstallReturnsShape == ASSUME ProcessInv, InstallReturns PROVE ProcessInv'
<1> DEFINE new == nextSerial - 1
           ok  == archives[new] # None /\ archives[new].active
<1>1. /\ main.pc = "install" /\ main.op # "rename" /\ main.args # <<>> /\ cache' = cache
      /\ IF ok /\ main.op = "upgrade"
         THEN main' = [main EXCEPT !.pc = "list", !.list = <<Listing(main.old, FALSE)>>]
         ELSE Done(IF ok THEN "ok" ELSE "error")
  BY DEF InstallReturns, ProcessInv, MainShape
<1> HIDE DEF ok
<1>2. CASE ok /\ main.op = "upgrade"
  <2>1. Going("list", <<Listing(main.old, FALSE)>>, main.old, main.result)
    BY <1>1, <1>2 DEF Going, ProcessInv, MainShape
  <2> QED BY <1>1, <2>1, GoesOn DEF ProcessInv
<1>3. CASE ~(ok /\ main.op = "upgrade")
  BY <1>1, <1>3, DoneShape DEF ProcessInv
<1> QED BY <1>2, <1>3

LEMMA SelectShape ==
    ASSUME ProcessInv, SelectAll \/ SelectSuperseded \/ SelectOne
    PROVE  ProcessInv'
<1>1. /\ main.pc = "next" /\ main.op \in {"uninstall", "files", "verify"}
      /\ main.args # <<>> /\ main.result = "ok"
  BY DEF SelectAll, SelectSuperseded, SelectOne, Argument
<1>2. ASSUME NEW serials, NEW known, Listed(serials, known) PROVE MainShape' /\ OnLine'
  <2>1. Going("list", [i \in DOMAIN serials |-> Listing(serials[i], known)],
              main.old, main.result)
    BY <1>2 DEF Listed, Going, ProcessInv, MainShape
  <2> QED BY <1>1, <2>1, GoesOn DEF ProcessInv
<1>3. /\ GetArchives \in Statements /\ FileSuperseded \in Statements
  BY DEF Statements
<1>4. CASE SelectAll
  <2>1. MainShape' /\ OnLine'
    BY <1>2, <1>4 DEF SelectAll
  <2> QED BY <1>3, <1>4, <2>1, CachingSound DEF SelectAll, Asking, ProcessInv
<1>5. CASE SelectSuperseded
  <2>1. MainShape' /\ OnLine'
    BY <1>2, <1>5 DEF SelectSuperseded
  <2>2. Sound(Caching(cache, GetArchives))
    BY <1>3, CachingSound DEF ProcessInv
  <2>3. Sound(Caching(Caching(cache, GetArchives), FileSuperseded))
    BY <1>3, <2>2, CachingSound
  <2> QED BY <1>5, <2>1, <2>3 DEF SelectSuperseded, ProcessInv
<1>6. CASE SelectOne
  <2>1. MainShape' /\ OnLine'
    <3>1. CASE Done("error")
      BY <1>1, <3>1, DoneShape DEF ProcessInv
    <3>2. CASE ~Done("error")
      BY <1>2, <1>6, <3>2 DEF SelectOne
    <3> QED BY <3>1, <3>2
  <2>2. Specified(Head(main.args)) /\ Head(main.args) \notin Keywords
    BY <1>1, <1>6, HeadFits DEF SelectOne, ProcessInv
  <2>3. Asks(Head(main.args)) \in Statements
    BY <2>2, AsksNamed DEF Specified, Keywords, All, Superseded
  <2> QED BY <1>6, <2>1, <2>3, CachingSound DEF SelectOne, Asking, ProcessInv
<1> QED BY <1>4, <1>5, <1>6

LEMMA ReturnedShape ==
    ASSUME ProcessInv, main.pc \in {"list", "uninstall"}, NEW r, Returned(r),
           cache' = cache \/ Asking(FileSuperseded)
    PROVE  ProcessInv'
<1>1. Going("list", Tail(main.list), main.old, r)
  BY DEF Returned, Going, ProcessInv, MainShape
<1>2. MainShape' /\ OnLine'
  BY <1>1, GoesOn DEF ProcessInv, MainShape
<1>3. FileSuperseded \in Statements
  BY DEF Statements
<1> QED BY <1>2, <1>3, CachingSound DEF ProcessInv, Asking

LEMMA ListShape ==
    ASSUME ProcessInv, \/ FilesOfArchive \/ VerifyArchive \/ ListArgument
                       \/ UninstallRefused \/ UninstallArchive \/ UninstallReturns \/ ListDone
    PROVE  ProcessInv'
<1>1. CASE FilesOfArchive \/ VerifyArchive
  BY <1>1, ReturnedShape DEF FilesOfArchive, VerifyArchive, InList
<1>2. CASE UninstallRefused
  BY <1>2, ReturnedShape DEF UninstallRefused, InList
<1>3. CASE UninstallReturns
  BY <1>3, ReturnedShape DEF UninstallReturns
<1>4. CASE UninstallArchive
  <2>1. Going("uninstall", main.list, main.old, main.result)
    BY <1>4 DEF UninstallArchive, Going, ProcessInv, MainShape
  <2>2. MainShape' /\ OnLine'
    BY <1>4, <2>1, GoesOn DEF UninstallArchive, InList, ProcessInv, MainShape
  <2> QED BY <1>4, <2>2, FilesAsked DEF UninstallArchive, ProcessInv
<1>5. CASE ListDone
  BY <1>5, DoneShape DEF ListDone, ProcessInv, MainShape
<1>6. CASE ListArgument
  <2>1. MainShape' /\ OnLine'
    BY <1>6, DoneShape DEF ListArgument, Argument, ProcessInv
  <2> DEFINE spec   == Head(main.args)
             listed == IF spec = All THEN AllArchives
                       ELSE IF spec = Superseded THEN SupersededArchives ELSE <<>>
             known  == IF spec = Superseded
                       THEN Caching(Caching(cache, GetArchives), FileSuperseded)
                       ELSE IF spec = All THEN Caching(cache, GetArchives) ELSE cache
             named  == IF spec \in Keywords THEN ByName ELSE Asks(spec)
  <2>2. cache' = IF listed # <<>> THEN known ELSE Caching(known, named)
    BY <1>6 DEF ListArgument
  <2>3. /\ GetArchives \in Statements /\ FileSuperseded \in Statements /\ ByName \in Statements
    BY DEF Statements
  <2>4. Specified(spec)
    BY <1>6, HeadFits DEF ListArgument, Argument, ProcessInv
  <2>5. spec \notin Keywords => Asks(spec) \in Statements
    BY <2>4, AsksNamed DEF Specified, Keywords, All, Superseded
  <2>6. named \in Statements
    BY <2>3, <2>5
  <2>7. Sound(cache)
    BY DEF ProcessInv
  <2>8. Sound(known)
    BY <2>3, <2>7, CachingSound
  <2> HIDE DEF spec, listed, known, named
  <2>9. Sound(cache')
    BY <2>2, <2>6, <2>8, CachingSound
  <2> QED BY <2>1, <2>9 DEF ProcessInv
<1> QED BY <1>1, <1>2, <1>3, <1>4, <1>5, <1>6

LEMMA AskedByRename ==
    ASSUME ProcessInv, Argument({"rename"}), main.args[1] \notin Keywords
    PROVE  /\ main.args[1][1] \in {"uuid", "serial", "name", "newest", "oldest"}
           /\ Asks(main.args[1]) \in Statements
           /\ Asking(Asks(main.args[1])) => Sound(cache')
<1>1. Specified(main.args[1])
  BY HeadFits DEF Argument, ProcessInv
<1>2. main.args[1][1] \in {"uuid", "serial", "name", "newest", "oldest"}
  BY <1>1 DEF Specified, Keywords, All, Superseded
<1>3. Asks(main.args[1]) \in Statements
  BY <1>2, AsksNamed
<1> QED BY <1>2, <1>3, CachingSound DEF Asking, ProcessInv

LEMMA RenamingShape == ASSUME ProcessInv, Rename \/ RenameFails PROVE ProcessInv'
<1>1. CASE Rename
  BY <1>1, RenameShape, AskedByRename DEF Rename, ProcessInv
<1>2. CASE RenameFails
  <2>1. MainShape' /\ OnLine'
    BY <1>2, DoneShape DEF RenameFails, Argument, ProcessInv
  <2>2. Argument({"rename"})
    BY <1>2 DEF RenameFails
  <2>3. CASE UNCHANGED cache
    BY <2>1, <2>3 DEF ProcessInv
  <2>4. CASE main.args[1] \notin Keywords /\ Asking(Asks(main.args[1]))
    BY <2>1, <2>2, <2>4, AskedByRename DEF ProcessInv
  <2> QED BY <1>2, <2>3, <2>4 DEF RenameFails
<1> QED BY <1>1, <1>2

LEMMA ProcessKept == ASSUME ProcessInv, CNext PROVE ProcessInv'
<1>1. CASE \/ Command \/ InstallArgument \/ UpgradeArgument \/ NothingToUpgrade
           \/ InstallReturns
  BY <1>1, StartShape, InstallReturnsShape
<1>2. CASE \/ SelectAll \/ SelectSuperseded \/ SelectOne \/ FilesOfArchive \/ VerifyArchive
           \/ ListArgument \/ UninstallRefused \/ UninstallArchive \/ UninstallReturns
           \/ ListDone
  BY <1>2, SelectShape, ListShape
<1>3. CASE Rename \/ RenameFails
  BY <1>3, RenamingShape
<1>4. CASE Exit \/ Dies
  <2>1. main' = Resting /\ cache' = NoStatements
    BY <1>4 DEF Exit, Dies
  <2> QED BY <2>1, Rests DEF ProcessInv, Sound, NoStatements
<1>5. CASE DepotStep \/ UserEdits \/ UpgradeOS
  <2>1. main' = main /\ cache' = cache
    BY <1>5 DEF DepotStep, UserEdits, UpgradeOS, shell
  <2> QED BY <2>1 DEF ProcessInv, MainShape, OnLine, LeftOf
<1> QED BY <1>1, <1>2, <1>3, <1>4, <1>5 DEF CNext

-----------------------------------------------------------------------------
(***************************************************************************)
(* What the commands leave of the depot's own invariant, and the labels.   *)
(***************************************************************************)
LEMMA InstallingLabels ==
    ASSUME TypeOK, NEW root, NEW old, Installing(root, old)
    PROVE  labels' = [s \in Serials |->
               IF s = nextSerial THEN Labelling(RollbackName, clock', build)
               ELSE IF s = nextSerial + 1 THEN Labelling(NameOf[root], clock', build)
               ELSE labels[s]]
<1> DEFINE rb == NewRow(nextSerial, RollbackName, clock', 1, build)
           nw == NewRow(nextSerial + 1, NameOf[root], clock', 0, build)
<1>1. labels' = [s \in Serials |-> IF s \in {nextSerial, nextSerial + 1}
                                   THEN LabelIn(({} \cup {rb}) \cup {nw}, s) ELSE labels[s]]
  BY Zenon DEF Installing, Inserted, NewRow
<1>2. nextSerial # nextSerial + 1
  BY DEF TypeOK
<1>3. ({} \cup {rb}) \cup {nw} = {rb, nw}
  OBVIOUS
<1>4. /\ LabelIn({rb, nw}, nextSerial) = Labelling(RollbackName, clock', build)
      /\ LabelIn({rb, nw}, nextSerial + 1) = Labelling(NameOf[root], clock', build)
  BY <1>2, LabelOfNew
<1> HIDE DEF rb, nw
<1> QED BY <1>1, <1>2, <1>3, <1>4

(* What Depot does while a command waits adds no archive and makes a root  *)
(* of none.                                                                *)
LEMMA ArchivesKept ==
    ASSUME DepotInv, \/ InstallStep \/ UninstallStep \/ Failure \/ Crash
                     \/ \E p \in Paths, e \in UserEntries : Edit(p, e)
    PROVE  /\ nextSerial' = nextSerial
           /\ \A s \in Serials : archives'[s] # None =>
                  archives[s] # None /\ archives'[s].rollback = archives[s].rollback
<1>1. CASE UNCHANGED <<archives, nextSerial>>
  BY <1>1
<1>2. CASE Activate
  <2>1. \A s \in Serials : archives'[s] \in {archives[s], Activated(archives[s])}
    BY <1>2 DEF Activate, DepotInv, TypeOK
  <2>2. \A s \in Serials : archives[s] \in Archive \cup {None}
    BY DEF DepotInv, TypeOK
  <2>3. \A a \in Archive : a # None => Activated(a).rollback = a.rollback
    BY DEF Activated, Archive
  <2>4. Activated(None) = None
    BY DEF Activated
  <2>5. nextSerial' = nextSerial
    BY <1>2 DEF Activate
  <2> QED BY <2>1, <2>2, <2>3, <2>4, <2>5
<1>3. CASE Deactivate
  <2>1. IsRoot(cur) /\ cur \in Serials /\ archives[cur] \in Archive
    BY <1>3 DEF Deactivate, DepotInv, TypeOK, CommandShape, IsRoot
  <2>2. archives' = [archives EXCEPT ![cur] = [archives[cur] EXCEPT !.active = FALSE]]
    BY <1>3 DEF Deactivate
  <2>3. [archives[cur] EXCEPT !.active = FALSE].rollback = archives[cur].rollback
    BY <2>1 DEF Archive
  <2>4. \A s \in Serials : archives'[s] = IF s = cur THEN [archives[cur] EXCEPT !.active = FALSE]
                                          ELSE archives[s]
    BY <2>1, <2>2 DEF DepotInv, TypeOK
  <2> QED BY <1>3, <2>1, <2>3, <2>4 DEF Deactivate, IsRoot
<1>4. CASE RemoveArchive
  BY <1>4 DEF RemoveArchive, DepotInv, TypeOK
<1>5. CASE Prune
  BY <1>5 DEF Prune
<1>6. InstallStep => Activate \/ UNCHANGED <<archives, nextSerial>>
  BY DEF InstallStep, CompactArchive, BackupFile, CompactRollback, InstallFile, Cleanup, db
<1>7. UninstallStep => \/ Deactivate \/ RemoveArchive \/ Prune
                       \/ UNCHANGED <<archives, nextSerial>>
  BY DEF UninstallStep, LeaveUnclaimed, RemoveFile, RestoreData, RestoreDataFails, RestoreMeta,
         UninstallStops, DeleteRows, UninstallNext, db
<1>8. Failure \/ Crash => UNCHANGED <<archives, nextSerial>>
  BY DEF Failure, CompactArchiveFails, BackupFileAborts, CompactRollbackFails, InstallFileFails,
         NotActivated, UninstallFileFails, UninstallNext, Crash, db
<1>9. (\E p \in Paths, e \in UserEntries : Edit(p, e)) => UNCHANGED <<archives, nextSerial>>
  BY DEF Edit, db
<1> QED BY <1>1, <1>2, <1>3, <1>4, <1>5, <1>6, <1>7, <1>8, <1>9

(* The steps of the depot among those of the commands. *)
DepotSteps == \/ InstallStep \/ UninstallStep \/ Failure \/ Crash
              \/ \E p \in Paths, e \in UserEntries : Edit(p, e)

LEMMA WhichStep ==
    ASSUME ProcessInv, [CNext]_allvars
    PROVE  \/ UNCHANGED <<vars, labels, clock>>
           \/ DepotSteps /\ UNCHANGED <<labels, clock>>
           \/ (\E s \in Serials : Uninstall(s)) /\ UNCHANGED <<labels, clock>>
           \/ /\ Argument({"install", "upgrade"})
              /\ \E root \in Roots : \E old : Installing(root, old)
           \/ Rename
<1>1. CASE UNCHANGED allvars
  BY <1>1 DEF allvars, world
<1>2. CASE InstallArgument \/ UpgradeArgument
  <2>1. Argument({"install", "upgrade"}) /\ \E old : Installing(Head(main.args), old)
    BY <1>2 DEF InstallArgument, UpgradeArgument, Argument
  <2>2. Head(main.args) \in Roots
    BY <2>1, HeadFits DEF Argument, ProcessInv
  <2> QED BY <2>1, <2>2
<1>3. CASE Rename
  BY <1>3
<1>4. CASE UninstallArchive
  <2>1. Uninstall(Head(main.list).serial) /\ UNCHANGED <<labels, clock>>
    BY <1>4 DEF UninstallArchive, world
  <2>2. Head(main.list).serial \in Serials
    BY <2>1 DEF Uninstall, IsRoot
  <2> QED BY <2>1, <2>2
<1>5. CASE DepotStep
  BY <1>5 DEF DepotStep, DepotSteps, Failure, world
<1>6. CASE Dies
  BY <1>6 DEF Dies, DepotSteps, Failure, world
<1>7. CASE UserEdits
  BY <1>7 DEF UserEdits, DepotSteps, world
<1>8. CASE \/ Command \/ NothingToUpgrade \/ InstallReturns \/ SelectAll \/ SelectSuperseded
           \/ SelectOne \/ FilesOfArchive \/ VerifyArchive \/ ListArgument \/ UninstallRefused
           \/ UninstallReturns \/ ListDone \/ RenameFails \/ Exit \/ UpgradeOS
  BY <1>8 DEF Command, NothingToUpgrade, InstallReturns, SelectAll, SelectSuperseded, SelectOne,
              FilesOfArchive, VerifyArchive, ListArgument, UninstallRefused, UninstallReturns,
              ListDone, RenameFails, Exit, UpgradeOS, world
<1> QED BY <1>1, <1>2, <1>3, <1>4, <1>5, <1>6, <1>7, <1>8 DEF CNext

CommandsInv == DepotInv /\ ProcessInv /\ Labelled

LEMMA CommandsInit == CInit => CommandsInv
<1> SUFFICES ASSUME CInit PROVE CommandsInv
  OBVIOUS
<1>1. DepotInv
  BY InitInv DEF CInit
<1>2. ProcessInv
  <2>1. main = Resting /\ cache = NoStatements
    BY DEF CInit
  <2> QED BY <2>1 DEF ProcessInv, MainShape, OnLine, Sound, Resting, NoStatements
<1>3. Labelled
  BY DEF CInit, Init, Labelled
<1> QED BY <1>1, <1>2, <1>3 DEF CommandsInv

(* Renaming an archive keeps the depot's invariant: no row is written and  *)
(* no rollback archive becomes a root.                                     *)
LEMMA RenameDepot == ASSUME CommandsInv, Rename PROVE DepotInv'
<1>1. PICK s \in Serials : archives[s] # None /\ RenamedTo(s, main.args[2])
  BY RenameEffect DEF CommandsInv, DepotInv
<1>2. archives[s] \in Archive
  BY <1>1 DEF CommandsInv, DepotInv, TypeOK
<1> DEFINE a == [archives[s] EXCEPT !.active = TRUE]
<1>3. a \in Archive /\ a.rollback = archives[s].rollback /\ a # None
  BY <1>2, NoArchiveAssumption DEF Archive
<1>4. archives' = [t \in Serials |-> IF t = s THEN a ELSE archives[t]]
  BY <1>1 DEF RenamedTo
<1> HIDE DEF a
<1>5. UNCHANGED <<fs, files, nextSerial, store, proc, budget>>
  BY DEF Rename
<1>6. \A t \in Serials : /\ archives'[t] = None <=> archives[t] = None
                         /\ archives[t] # None => archives'[t].rollback = archives[t].rollback
  BY <1>1, <1>3, <1>4
<1>7. RowsHaveArchive' /\ RowShape' /\ FreshSerials' /\ OnBase'
  BY <1>5, <1>6, RowsFrame DEF CommandsInv, DepotInv, OnBase, proc
<1>8. TypeOK'
  <2>1. archives' \in [Serials -> Archive \cup {None}]
    BY <1>3, <1>4 DEF CommandsInv, DepotInv, TypeOK
  <2>2. /\ fs' = fs /\ files' = files /\ nextSerial' = nextSerial /\ expanded' = expanded
        /\ tarball' = tarball /\ pc' = pc /\ cur' = cur /\ todo' = todo /\ res' = res
        /\ toRemove' = toRemove /\ budget' = budget
    BY <1>5 DEF store, proc
  <2>3. TypeOK
    BY DEF CommandsInv, DepotInv
  <2> QED BY <2>1, <2>2, <2>3 DEF TypeOK
<1>9. CommandShape'
  <2>1. \A t : IsRoot(t) => IsRoot(t)'
    BY <1>6 DEF IsRoot
  <2> QED BY <1>5, <2>1 DEF CommandsInv, DepotInv, CommandShape, PathsOf, store, proc, RollbackOf
<1> QED BY <1>7, <1>8, <1>9 DEF DepotInv

LEMMA DepotKept == ASSUME CommandsInv, [CNext]_allvars PROVE DepotInv'
<1>1. CASE Rename
  BY <1>1, RenameDepot
<1>2. CASE UNCHANGED vars
  BY <1>2, NextInv DEF CommandsInv
<1>3. CASE DepotSteps
  BY <1>3, NextInv DEF CommandsInv, DepotSteps, Next
<1>4. CASE \E s \in Serials : Uninstall(s)
  BY <1>4, NextInv DEF CommandsInv, Next
<1>5. CASE \E root \in Roots : \E old : Installing(root, old)
  BY <1>5, NextInv DEF CommandsInv, Next, Installing
<1> QED BY <1>1, <1>2, <1>3, <1>4, <1>5, WhichStep DEF CommandsInv

(* The archives after an installation has begun. *)
LEMMA InstallingArchives ==
    ASSUME DepotInv, NEW root, NEW old, Installing(root, old)
    PROVE  /\ nextSerial \in Serials /\ nextSerial + 1 \in Serials /\ nextSerial' = nextSerial + 2
           /\ \A s \in Serials : s \notin {nextSerial, nextSerial + 1} =>
                  archives'[s] = archives[s]
           /\ archives'[nextSerial + 1] = [rollback |-> FALSE, active |-> FALSE]
           /\ archives'[nextSerial] \in {None, [rollback |-> TRUE, active |-> FALSE]}
           /\ cur' = nextSerial + 1
<1>1. nextSerial \in Serials /\ nextSerial + 1 \in Serials /\ nextSerial + 1 # nextSerial
  BY MaxSerialAssumption DEF Installing, Install, DepotInv, TypeOK, Serials
<1>2. PICK rb \in {None, [rollback |-> TRUE, active |-> FALSE]} :
          archives' = [archives EXCEPT ![nextSerial] = rb,
                           ![nextSerial + 1]  = [rollback |-> FALSE, active |-> FALSE]]
  BY Zenon DEF Installing, Install
<1>3. nextSerial' = (nextSerial + 1) + 1 /\ cur' = nextSerial + 1
  BY DEF Installing, Install
<1>4. nextSerial' = nextSerial + 2
  BY <1>1, <1>3 DEF Serials
<1>5. /\ \A s \in Serials : s \notin {nextSerial, nextSerial + 1} => archives'[s] = archives[s]
      /\ archives'[nextSerial + 1] = [rollback |-> FALSE, active |-> FALSE]
      /\ archives'[nextSerial] = rb
  BY <1>1, <1>2 DEF DepotInv, TypeOK
<1> QED BY <1>1, <1>3, <1>4, <1>5

LEMMA LabelledKept == ASSUME CommandsInv, [CNext]_allvars PROVE Labelled'
<1>1. TypeOK /\ Labelled /\ DepotInv
  BY DEF CommandsInv, DepotInv
<1>2. CASE Rename
  <2>1. PICK s \in Serials : archives[s] # None /\ RenamedTo(s, main.args[2])
    BY <1>1, <1>2, RenameEffect
  <2>2. /\ labels' = [t \in Serials |-> IF t = s
              THEN Labelling(main.args[2], labels[s].date, labels[s].build) ELSE labels[t]]
        /\ \A t \in Serials : t # s => archives'[t] = archives[t]
    BY <2>1 DEF RenamedTo
  <2> QED BY <1>1, <2>2 DEF Labelled, Labelling
<1>3. CASE UNCHANGED <<vars, labels>>
  BY <1>1, <1>3 DEF Labelled, vars, db
<1>4. CASE (DepotSteps \/ \E s \in Serials : Uninstall(s)) /\ UNCHANGED labels
  <2>1. \A s \in Serials : archives'[s] # None => archives[s] # None
    BY <1>1, <1>4, ArchivesKept DEF DepotSteps, Uninstall, db
  <2> QED BY <1>1, <1>4, <2>1 DEF Labelled
<1>5. CASE \E root \in Roots : \E old : Installing(root, old)
  <2>1. PICK root \in Roots : \E old : Installing(root, old)
    BY <1>5
  <2>2. PICK old : Installing(root, old)
    BY <2>1
  <2>3. labels' = [s \in Serials |->
               IF s = nextSerial THEN Labelling(RollbackName, clock', build)
               ELSE IF s = nextSerial + 1 THEN Labelling(NameOf[root], clock', build)
               ELSE labels[s]]
    BY <1>1, <2>2, InstallingLabels
  <2>4. \A s \in Serials : s \notin {nextSerial, nextSerial + 1} => archives'[s] = archives[s]
    BY <1>1, <2>2, InstallingArchives
  <2> QED BY <1>1, <2>3, <2>4 DEF Labelled, Labelling
<1> QED BY <1>2, <1>3, <1>4, <1>5, WhichStep DEF CommandsInv

LEMMA CommandsNext == CommandsInv /\ [CNext]_allvars => CommandsInv'
<1> SUFFICES ASSUME CommandsInv, [CNext]_allvars PROVE CommandsInv'
  OBVIOUS
<1>1. ProcessInv'
  <2>1. CASE CNext
    BY <2>1, ProcessKept DEF CommandsInv
  <2>2. CASE UNCHANGED allvars
    BY <2>2 DEF CommandsInv, ProcessInv, MainShape, OnLine, LeftOf, allvars, shell
  <2> QED BY <2>1, <2>2
<1> QED BY <1>1, DepotKept, LabelledKept DEF CommandsInv

(* The invariant of the depot holds for darwinup as its user calls it:     *)
(* whatever the command lines are, archives renamed, upgraded and          *)
(* uninstalled by keyword, with the process dying in any of them and the   *)
(* statements it keeps prepared; and every statement it finds in its cache *)
(* is the one the name was made for.                                       *)
THEOREM CommandsKeepInvariant == CSpec => []CommandsInv
<1>1. CInit => CommandsInv
  BY CommandsInit
<1>2. CommandsInv /\ [CNext]_allvars => CommandsInv'
  BY CommandsNext
<1> QED BY <1>1, <1>2, PTL DEF CSpec

-----------------------------------------------------------------------------
(***************************************************************************)
(* Look-ups (Depot::get_archive, DarwinupDatabase::get_archive).           *)
(***************************************************************************)
Present(s)  == s \in Serials /\ archives[s] # None
IsCalled(s, name) == Present(s) /\ labels[s].name = name
NotTheirs(s) == Present(s) /\ labels[s].name # RollbackName

(* The archives of a set that a look-up finds: those that come first. *)
RowsIn(W)              == {r \in ArchiveRows : r.serial \in W}
Looked(statement, v)   == {r.serial : r \in First(statement, <<v>>, ArchiveRows)}
Before(statement, a, b) == IF statement.desc THEN a >= b ELSE a <= b
FirstIn(statement, W, column) ==
    {s \in Serials : /\ Present(s) /\ s \in W
                     /\ \A t \in Serials : Present(t) /\ t \in W =>
                          Before(statement, Row(s)[column], Row(t)[column])}

LEMMA SerialsOfFirst ==
    ASSUME NEW statement, NEW v, NEW W, NEW column,
           Selected(statement, <<v>>, ArchiveRows) = RowsIn(W),
           column = IF statement.by = Null THEN "serial" ELSE statement.by
    PROVE  Looked(statement, v) = FirstIn(statement, W, column)
<1> DEFINE found == RowsIn(W)
<1>1. First(statement, <<v>>, ArchiveRows)
          = {r \in found : \A q \in found : Before(statement, r[column], q[column])}
  BY DEF First, Before
<1>2. \A s : Present(s) /\ s \in W => Row(s) \in found /\ Row(s).serial = s
  BY RowOf, RowColumns DEF Present, RowsIn
<1>3. \A r \in found : Present(r.serial) /\ r.serial \in W /\ r = Row(r.serial)
  BY RowOf DEF Present, RowsIn
<1> HIDE DEF found
<1>4. \A r \in found : (\A q \in found : Before(statement, r[column], q[column]))
          <=> \A t \in Serials : Present(t) /\ t \in W =>
                  Before(statement, Row(r.serial)[column], Row(t)[column])
  BY <1>2, <1>3 DEF Present
<1> QED BY <1>1, <1>2, <1>3, <1>4 DEF Present, Looked, FirstIn

LEMMA NumberFound ==
    ASSUME Sound(cache), NEW spec, spec[1] \in {"uuid", "serial"}
    PROVE  GetArchive(spec) = {s \in Serials : Present(s) /\ s = spec[2]}
<1> DEFINE v == spec[2]
           statement == Asks(spec).statement
           W == {s \in Serials : s = v}
<1>1. Prepared(cache, Asks(spec)) = statement /\ Value(spec) = v
  BY AsksNamed, Asked DEF Value
<1>2. /\ \/ statement.where = Where(<<Is("uuid")>>)
         \/ statement.where = Where(<<Is("serial")>>)
      /\ statement.by = Null /\ statement.desc = FALSE
  BY DEF Asks, ByUuid, BySerial, Named, Statement
<1> HIDE DEF statement, v
<1>3. \A r \in ArchiveRows : r.uuid = r.serial /\ r.serial \in Serials
  BY RowOf, RowColumns
<1>4. Selected(statement, <<v>>, ArchiveRows) = RowsIn(W)
  BY <1>2, <1>3, SelectIs DEF RowsIn
<1> HIDE DEF W
<1>5. Looked(statement, v) = FirstIn(statement, W, "serial")
  BY <1>2, <1>4, SerialsOfFirst
<1>6. \A s \in Serials : s \in W => \A t \in Serials : t \in W =>
          Before(statement, Row(s)["serial"], Row(t)["serial"])
  BY <1>2, RowColumns, MaxSerialAssumption DEF Serials, Before, W
<1>7. GetArchive(spec) = Looked(statement, v)
  BY <1>1 DEF GetArchive, Looked
<1> QED BY <1>5, <1>6, <1>7 DEF v, FirstIn, W

LEMMA NameFound ==
    ASSUME Sound(cache), NEW spec, spec[1] = "name"
    PROVE  GetArchive(spec) = {s \in Serials : /\ IsCalled(s, spec[2])
                                 /\ \A t \in Serials : IsCalled(t, spec[2]) => s <= t}
<1> DEFINE v == spec[2]
           statement == Asks(spec).statement
           W == {s \in Serials : labels[s].name = v}
<1>1. Prepared(cache, Asks(spec)) = statement /\ Value(spec) = v
  BY AsksNamed, Asked DEF Value
<1>2. /\ statement.where = Where(<<Is("name")>>)
      /\ statement.by = Null /\ statement.desc = FALSE
  BY DEF Asks, ByName, Named, Statement
<1> HIDE DEF statement, v
<1>3. \A r \in ArchiveRows : r.name = labels[r.serial].name /\ r.serial \in Serials
  BY RowOf, RowColumns
<1>4. Selected(statement, <<v>>, ArchiveRows) = RowsIn(W)
  BY <1>2, <1>3, SelectIs DEF RowsIn
<1> HIDE DEF W
<1>5. Looked(statement, v) = FirstIn(statement, W, "serial")
  BY <1>2, <1>4, SerialsOfFirst
<1>6. GetArchive(spec) = Looked(statement, v)
  BY <1>1 DEF GetArchive, Looked
<1>7. \A s : Row(s)["serial"] = s
  BY RowColumns
<1> QED BY <1>2, <1>5, <1>6, <1>7 DEF v, IsCalled, FirstIn, W, Before

(* "newest" and "oldest" are found by the date, and by their names. *)
LEMMA EndFound ==
    ASSUME Sound(cache), NEW spec, spec[1] \in {"newest", "oldest"}
    PROVE  GetArchive(spec) = {s \in Serials : /\ NotTheirs(s)
               /\ \A t \in Serials : NotTheirs(t) =>
                    IF spec[1] = "newest" THEN labels[s].date >= labels[t].date
                                          ELSE labels[s].date <= labels[t].date}
<1> DEFINE statement == Asks(spec).statement
           W == {s \in Serials : labels[s].name # RollbackName}
<1>1. Prepared(cache, Asks(spec)) = statement /\ Value(spec) = RollbackName
  BY AsksNamed, Asked DEF Value
<1>2. /\ statement.where = Where(<<IsNot("name")>>)
      /\ statement.by = "date_added" /\ statement.desc = (spec[1] = "newest")
  BY DEF Asks, ByNewest, ByOldest, Named, Ordered
<1> HIDE DEF statement
<1>3. \A r \in ArchiveRows : r.name = labels[r.serial].name /\ r.serial \in Serials
  BY RowOf, RowColumns
<1>4. Selected(statement, <<RollbackName>>, ArchiveRows) = RowsIn(W)
  <2>1. Selected(statement, <<RollbackName>>, ArchiveRows)
            = {r \in ArchiveRows : r["name"] # RollbackName}
    BY <1>2, SelectIsNot
  <2> QED BY <1>3, <2>1 DEF RowsIn
<1>5. "date_added" = IF statement.by = Null THEN "serial" ELSE statement.by
  BY <1>2, NullAssumption
<1> HIDE DEF W
<1>6. Looked(statement, RollbackName) = FirstIn(statement, W, "date_added")
  BY <1>4, <1>5, SerialsOfFirst
<1>7. GetArchive(spec) = Looked(statement, RollbackName)
  BY <1>1 DEF GetArchive, Looked
<1>8. \A s : Row(s)["date_added"] = labels[s].date
  BY RowColumns
<1> QED BY <1>2, <1>6, <1>7, <1>8 DEF NotTheirs, FirstIn, W, Before

-----------------------------------------------------------------------------
(***************************************************************************)
(* Serials, names and dates: which archives are darwinup's own, and in     *)
(* which order the others came.                                            *)
(***************************************************************************)
NamesInv ==
    /\ nextSerial % 2 = 1 /\ clock \in Nat
    /\ \A s \in Serials : archives[s] # None =>
        /\ IsRoot(s) <=> labels[s].name # RollbackName
        /\ IsRoot(s) <=> s % 2 = 0
        /\ labels[s].date \in Nat /\ labels[s].date <= clock
    /\ \A s, t \in Serials : archives[s] # None /\ archives[t] # None /\ s < t =>
        labels[s].date <= labels[t].date

(* Only a root is ever renamed, and never to the rollback archives' name. *)
LEMMA RenamedIsRoot ==
    ASSUME RenamesRoots, CommandsInv, NamesInv, Argument({"rename"}), Len(main.args) > 1,
           main.args[1] \notin Keywords, NEW s \in GetArchive(main.args[1])
    PROVE  IsRoot(s) /\ main.args[2] # RollbackName
<1> DEFINE spec == main.args[1]
<1>1. PICK c \in CommandLines, k \in Nat : LeftOf(c, k)
  BY DEF CommandsInv, ProcessInv, OnLine, Argument
<1>2. /\ Len(main.args) \in Nat /\ Len(c.args) \in Nat
      /\ main.op = "rename" /\ main.result = "ok"
  BY LineArgs DEF CommandsInv, ProcessInv, MainShape, Argument
<1>3. /\ spec = c.args[k + 1] /\ main.args[2] = c.args[k + 2] /\ c.op = "rename"
      /\ k + 1 \in DOMAIN c.args /\ k + 2 \in DOMAIN c.args
  BY <1>1, <1>2, LineArgs DEF LeftOf
<1>4. (k + 1) % 2 # 0 /\ (k + 2) % 2 = 0
  <2>1. k % 2 = 0 => (k + 1) % 2 = 1 /\ (k + 2) % 2 = 0
    BY Parity
  <2> QED BY <1>1, <1>2, <2>1 DEF LeftOf
<1>5. /\ main.args[2] # RollbackName
      /\ spec[1] \in {"uuid", "serial"} => spec[2] % 2 = 0
      /\ spec[1] = "name" => spec[2] # RollbackName
  BY <1>3, <1>4 DEF RenamesRoots
<1>6. spec[1] \in {"uuid", "serial", "name", "newest", "oldest"} /\ Sound(cache)
  BY AskedByRename DEF CommandsInv, ProcessInv
<1> HIDE DEF spec
<1>7. s \in GetArchive(spec)
  BY DEF spec
<1>8. CASE spec[1] \in {"uuid", "serial"}
  <2>1. s \in Serials /\ archives[s] # None /\ s = spec[2]
    BY <1>6, <1>7, <1>8, NumberFound DEF Present
  <2> QED BY <1>5, <1>8, <2>1 DEF NamesInv
<1>9. CASE spec[1] = "name"
  <2>1. s \in Serials /\ archives[s] # None /\ labels[s].name = spec[2]
    BY <1>6, <1>7, <1>9, NameFound DEF Present, IsCalled
  <2> QED BY <1>5, <1>9, <2>1 DEF NamesInv
<1>10. CASE spec[1] \in {"newest", "oldest"}
  <2>1. s \in Serials /\ archives[s] # None /\ labels[s].name # RollbackName
    BY <1>6, <1>7, <1>10, EndFound DEF Present, NotTheirs
  <2> QED BY <1>5, <2>1 DEF NamesInv
<1> QED BY <1>6, <1>8, <1>9, <1>10

LEMMA NamesInit == CInit => NamesInv
BY DEF CInit, Init, NamesInv

LEMMA InstallingNames ==
    ASSUME CommandsInv, NamesInv, NEW root, NameOf[root] # RollbackName, NEW old,
           Installing(root, old)
    PROVE  NamesInv'
<1>1. TypeOK /\ DepotInv /\ nextSerial \in Nat
  BY DEF CommandsInv, DepotInv, TypeOK
<1>2. /\ nextSerial \in Serials /\ nextSerial + 1 \in Serials /\ nextSerial' = nextSerial + 2
      /\ \A s \in Serials : s \notin {nextSerial, nextSerial + 1} =>
             archives'[s] = archives[s]
      /\ archives'[nextSerial + 1] = [rollback |-> FALSE, active |-> FALSE]
      /\ archives'[nextSerial] \in {None, [rollback |-> TRUE, active |-> FALSE]}
  BY <1>1, InstallingArchives
<1>3. labels' = [s \in Serials |->
               IF s = nextSerial THEN Labelling(RollbackName, clock', build)
               ELSE IF s = nextSerial + 1 THEN Labelling(NameOf[root], clock', build)
               ELSE labels[s]]
  BY <1>1, InstallingLabels
<1>4. clock' \in Nat /\ clock <= clock'
  BY DEF Installing, NamesInv
<1>5. \A s \in Serials : s >= nextSerial => archives[s] = None
  BY <1>1 DEF DepotInv, FreshSerials
<1>6. nextSerial' % 2 = 1 /\ (nextSerial + 1) % 2 = 0
  <2>1. nextSerial % 2 = 1 => (nextSerial + 1) % 2 = 0 /\ (nextSerial + 2) % 2 = 1
    BY <1>1, Parity
  <2> QED BY <1>2, <2>1 DEF NamesInv
<1>7. /\ Labelling(RollbackName, clock', build).name = RollbackName
      /\ Labelling(RollbackName, clock', build).date = clock'
      /\ Labelling(NameOf[root], clock', build).name = NameOf[root]
      /\ Labelling(NameOf[root], clock', build).date = clock'
  BY DEF Labelling
<1>8. /\ labels'[nextSerial].name = RollbackName /\ labels'[nextSerial].date = clock'
      /\ labels'[nextSerial + 1].name = NameOf[root] /\ labels'[nextSerial + 1].date = clock'
      /\ \A s \in Serials : s \notin {nextSerial, nextSerial + 1} => labels'[s] = labels[s]
  BY <1>1, <1>2, <1>3, <1>7
<1>9. \A s \in Serials : /\ s = nextSerial + 1 => IsRoot(s)'
                         /\ s = nextSerial => ~IsRoot(s)'
  <2> DEFINE new == [rollback |-> FALSE, active |-> FALSE]
             rb  == [rollback |-> TRUE, active |-> FALSE]
  <2>1. new \in Archive /\ new.rollback = FALSE /\ rb.rollback = TRUE
    BY DEF Archive
  <2>2. new # None
    BY <2>1, NoArchiveAssumption
  <2>3. archives'[nextSerial + 1] = new /\ archives'[nextSerial] \in {None, rb}
    BY <1>2
  <2> HIDE DEF new, rb
  <2> QED BY <1>2, <2>1, <2>2, <2>3 DEF IsRoot
<1>10. \A s \in Serials : s \notin {nextSerial, nextSerial + 1} => (IsRoot(s)' <=> IsRoot(s))
  BY <1>2 DEF IsRoot
<1>11. \A s \in Serials : archives'[s] # None =>
         /\ IsRoot(s)' <=> labels'[s].name # RollbackName
         /\ IsRoot(s)' <=> s % 2 = 0
         /\ labels'[s].date \in Nat /\ labels'[s].date <= clock'
  <2> SUFFICES ASSUME NEW s \in Serials, archives'[s] # None
               PROVE  /\ IsRoot(s)' <=> labels'[s].name # RollbackName
                      /\ IsRoot(s)' <=> s % 2 = 0
                      /\ labels'[s].date \in Nat /\ labels'[s].date <= clock'
    OBVIOUS
  <2>1. CASE s = nextSerial
    BY <1>1, <1>4, <1>8, <1>9, <2>1 DEF NamesInv
  <2>2. CASE s = nextSerial + 1
    BY <1>1, <1>4, <1>6, <1>8, <1>9, <2>2
  <2>3. CASE s \notin {nextSerial, nextSerial + 1}
    BY <1>2, <1>4, <1>8, <1>10, <2>3 DEF NamesInv
  <2> QED BY <2>1, <2>2, <2>3
<1>12. \A s, t \in Serials : archives'[s] # None /\ archives'[t] # None /\ s < t =>
         labels'[s].date <= labels'[t].date
  <2> SUFFICES ASSUME NEW s \in Serials, NEW t \in Serials, archives'[s] # None,
                      archives'[t] # None, s < t
               PROVE  labels'[s].date <= labels'[t].date
    OBVIOUS
  <2>1. CASE t \in {nextSerial, nextSerial + 1}
    BY <1>8, <1>11, <2>1
  <2>2. CASE t \notin {nextSerial, nextSerial + 1}
    <3>1. archives[t] # None /\ t < nextSerial
      BY <1>1, <1>2, <1>5, <2>2 DEF Serials
    <3>2. s \notin {nextSerial, nextSerial + 1}
      BY <1>1, <3>1 DEF Serials
    <3> QED BY <1>2, <1>8, <2>2, <3>1, <3>2 DEF NamesInv
  <2> QED BY <2>1, <2>2
<1> QED BY <1>4, <1>6, <1>11, <1>12 DEF NamesInv

LEMMA NamesNext == ASSUME RenamesRoots, CommandsInv, NamesInv, [CNext]_allvars PROVE NamesInv'
<1>1. TypeOK /\ Labelled /\ DepotInv
  BY DEF CommandsInv, DepotInv
<1>2. CASE Rename
  <2>1. PICK s \in GetArchive(main.args[1]) :
            s \in Serials /\ archives[s] # None /\ RenamedTo(s, main.args[2])
    BY <1>1, <1>2, RenameEffect
  <2>2. IsRoot(s) /\ main.args[2] # RollbackName
    BY <1>2, RenamedIsRoot DEF Rename
  <2>3. nextSerial' = nextSerial /\ clock' = clock
    BY <1>2 DEF Rename
  <2>4. /\ \A t \in Serials : t # s => labels'[t] = labels[t] /\ archives'[t] = archives[t]
        /\ labels'[s] = Labelling(main.args[2], labels[s].date, labels[s].build)
        /\ archives'[s] = [archives[s] EXCEPT !.active = TRUE]
    BY <2>1 DEF RenamedTo
  <2>5. labels'[s].name = main.args[2] /\ labels'[s].date = labels[s].date
    BY <2>4 DEF Labelling
  <2>6. IsRoot(s)'
    <3>1. archives[s] \in Archive
      BY <1>1, <2>1 DEF TypeOK
    <3>2. archives'[s] \in Archive /\ archives'[s].rollback = archives[s].rollback
      BY <2>4, <3>1 DEF Archive
    <3> QED BY <2>2, <3>2, NoArchiveAssumption DEF IsRoot
  <2>7. \A t \in Serials : t # s => (IsRoot(t)' <=> IsRoot(t))
    BY <2>4 DEF IsRoot
  <2> QED BY <2>1, <2>2, <2>3, <2>4, <2>5, <2>6, <2>7 DEF NamesInv
<1>3. CASE UNCHANGED <<vars, labels, clock>>
  BY <1>3 DEF NamesInv, IsRoot, vars, db
<1>4. CASE (DepotSteps \/ \E s \in Serials : Uninstall(s)) /\ UNCHANGED <<labels, clock>>
  <2>1. /\ nextSerial' = nextSerial
        /\ \A s \in Serials : archives'[s] # None =>
              archives[s] # None /\ archives'[s].rollback = archives[s].rollback
    BY <1>1, <1>4, ArchivesKept DEF DepotSteps, Uninstall, db
  <2>2. \A s \in Serials : archives'[s] # None => (IsRoot(s)' <=> IsRoot(s))
    BY <2>1 DEF IsRoot
  <2> QED BY <1>4, <2>1, <2>2 DEF NamesInv
<1>5. CASE \E root \in Roots : \E old : Installing(root, old)
  BY <1>5, InstallingNames DEF RenamesRoots
<1> QED BY <1>2, <1>3, <1>4, <1>5, WhichStep DEF CommandsInv

-----------------------------------------------------------------------------
(***************************************************************************)
(* AnswersRight.                                                           *)
(***************************************************************************)
LEMMA FoundRight ==
    ASSUME CommandsInv, NamesInv, NEW spec,
           spec[1] \in {"uuid", "serial", "name", "newest", "oldest"}
    PROVE  /\ GetArchive(spec) \subseteq RootsLike(spec)
           /\ GetArchive(spec) = {} => RootsLike(spec) = {}
<1>1. Sound(cache)
  BY DEF CommandsInv, ProcessInv
<1>2. CASE spec[1] \in {"uuid", "serial"}
  <2>1. RootsLike(spec) = {s \in Serials : s = spec[2] /\ archives[s] # None}
    BY <1>2 DEF RootsLike
  <2> QED BY <1>1, <1>2, <2>1, NumberFound DEF Present
<1>3. CASE spec[1] = "name"
  <2> DEFINE S == {s \in Serials : archives[s] # None /\ labels[s].name = spec[2]}
  <2>1. RootsLike(spec) = S
    BY <1>3 DEF RootsLike
  <2>2. GetArchive(spec) = {s \in S : \A t \in S : s <= t}
    BY <1>1, <1>3, NameFound DEF Present, IsCalled
  <2>3. S \subseteq Nat
    BY MaxSerialAssumption DEF Serials
  <2> HIDE DEF S
  <2>4. S # {} => \E m \in S : \A t \in S : m <= t
    BY <2>3, MinExists
  <2> QED BY <2>1, <2>2, <2>4
<1>4. CASE spec[1] \in {"newest", "oldest"}
  <2> DEFINE S == {s \in Serials : IsRoot(s)}
             D == {labels[s].date : s \in S}
             Ahead(s, t) == IF spec[1] = "newest" THEN labels[s].date >= labels[t].date
                                                  ELSE labels[s].date <= labels[t].date
  <2>1. \A s \in Serials : NotTheirs(s) <=> s \in S
    BY DEF NotTheirs, Present, IsRoot, NamesInv
  <2>2. GetArchive(spec) = {s \in S : \A t \in S : Ahead(s, t)}
    BY <1>1, <1>4, <2>1, EndFound
  <2>3. \A s \in S : s \in Serials /\ archives[s] # None /\ labels[s].date \in 0..clock
    BY DEF NamesInv, IsRoot
  <2>4. D \in SUBSET (0..clock) /\ D \in SUBSET Nat /\ clock \in Nat
    BY <2>3 DEF NamesInv
  <2>5. S # {} => \E s \in S : \A t \in S : Ahead(s, t)
    <3> SUFFICES ASSUME S # {} PROVE \E s \in S : \A t \in S : Ahead(s, t)
      OBVIOUS
    <3>1. D # {}
      OBVIOUS
    <3>2. CASE spec[1] = "newest"
      <4>1. Max(D) \in D /\ \A d \in D : Max(D) >= d
        BY <2>4, <3>1, MaxExists
      <4> QED BY <3>2, <4>1
    <3>3. CASE spec[1] = "oldest"
      <4>1. PICK m \in D : \A d \in D : m <= d
        BY <2>4, <3>1, MinExists
      <4> QED BY <3>3, <4>1
    <3> QED BY <1>4, <3>2, <3>3
  <2>6. ASSUME NEW s \in S, \A t \in S : Ahead(s, t)
        PROVE  s \in RootsLike(spec)
    <3>1. ASSUME NEW t \in Serials, IsRoot(t), spec[1] = "newest", t > s
          PROVE  labels[t].date = labels[s].date
      BY <2>3, <2>6, <3>1 DEF NamesInv, IsRoot
    <3>2. ASSUME NEW t \in Serials, IsRoot(t), spec[1] = "oldest", t < s
          PROVE  labels[t].date = labels[s].date
      BY <2>3, <2>6, <3>2 DEF NamesInv, IsRoot
    <3>3. s \in Serials /\ IsRoot(s)
      OBVIOUS
    <3> HIDE DEF S, Ahead
    <3> QED BY <1>4, <3>1, <3>2, <3>3 DEF RootsLike
  <2>7. RootsLike(spec) \subseteq S
    BY <1>4 DEF RootsLike
  <2> HIDE DEF S, Ahead
  <2> QED BY <2>2, <2>5, <2>6, <2>7
<1> QED BY <1>2, <1>3, <1>4

(* A set of rows in the order of their serials, the last one first. *)
FromRow(F, r) == {q \in F : q["serial"] >= r["serial"]}
RankIn(F, r)  == Cardinality(FromRow(F, r))

LEMMA Ranks ==
    ASSUME NEW F, IsFiniteSet(F), \A r \in F : r["serial"] \in Nat,
           \A r, q \in F : r["serial"] = q["serial"] => r = q
    PROVE  /\ \A r \in F : RankIn(F, r) \in 1..Cardinality(F)
           /\ \A r, q \in F : RankIn(F, r) < RankIn(F, q) => r["serial"] > q["serial"]
           /\ \A r, q \in F : RankIn(F, r) = RankIn(F, q) => r = q
           /\ \A i \in 1..Cardinality(F) : \E r \in F : RankIn(F, r) = i
<1> DEFINE n == Cardinality(F)
<1>0. n \in Nat
  BY FS_CardinalityType
<1>1. \A r \in F : IsFiniteSet(FromRow(F, r)) /\ RankIn(F, r) \in Nat /\ RankIn(F, r) \in 1..n
  <2> SUFFICES ASSUME NEW r \in F
               PROVE  /\ IsFiniteSet(FromRow(F, r)) /\ RankIn(F, r) \in Nat
                      /\ RankIn(F, r) \in 1..n
    OBVIOUS
  <2>1. FromRow(F, r) \in SUBSET F /\ r \in FromRow(F, r)
    BY DEF FromRow
  <2>2. IsFiniteSet(FromRow(F, r)) /\ RankIn(F, r) <= n
    BY <2>1, FS_Subset DEF RankIn
  <2>3. RankIn(F, r) \in Nat
    BY <2>2, FS_CardinalityType DEF RankIn
  <2>4. RankIn(F, r) # 0
    BY <2>1, <2>2, FS_EmptySet DEF RankIn
  <2> QED BY <1>0, <2>2, <2>3, <2>4
<1>2. ASSUME NEW r \in F, NEW q \in F, r["serial"] > q["serial"]
      PROVE  RankIn(F, r) < RankIn(F, q)
  <2>1. /\ FromRow(F, r) \in SUBSET FromRow(F, q)
        /\ q \in FromRow(F, q) /\ q \notin FromRow(F, r)
    BY <1>2 DEF FromRow
  <2>2. IsFiniteSet(FromRow(F, q)) /\ RankIn(F, q) \in Nat /\ RankIn(F, r) \in Nat
    BY <1>1
  <2>3. /\ RankIn(F, r) <= RankIn(F, q)
        /\ RankIn(F, q) = RankIn(F, r) => FromRow(F, q) = FromRow(F, r)
    BY <2>1, <2>2, FS_Subset DEF RankIn
  <2> QED BY <2>1, <2>2, <2>3
<1>3. \A r, q \in F : RankIn(F, r) \in Nat /\ RankIn(F, q) \in Nat
  BY <1>1
<1>4. \A r, q \in F : RankIn(F, r) < RankIn(F, q) => r["serial"] > q["serial"]
  <2> SUFFICES ASSUME NEW r \in F, NEW q \in F, RankIn(F, r) < RankIn(F, q),
                      ~(r["serial"] > q["serial"])
               PROVE  FALSE
    OBVIOUS
  <2>1. CASE r["serial"] = q["serial"]
    BY <1>3, <2>1
  <2>2. CASE q["serial"] > r["serial"]
    BY <1>2, <1>3, <2>2
  <2> QED BY <2>1, <2>2
<1>5. \A r, q \in F : RankIn(F, r) = RankIn(F, q) => r = q
  <2> SUFFICES ASSUME NEW r \in F, NEW q \in F, RankIn(F, r) = RankIn(F, q), r # q
               PROVE  FALSE
    OBVIOUS
  <2>1. r["serial"] > q["serial"] \/ q["serial"] > r["serial"]
    OBVIOUS
  <2> QED BY <1>2, <1>3, <2>1
<1>6. ASSUME NEW i \in 1..n PROVE \E r \in F : RankIn(F, r) = i
  <2> DEFINE f == [r \in F |-> RankIn(F, r)]
  <2>1. f \in Injection(F, 1..n)
    <3>1. f \in [F -> 1..n]
      BY <1>1
    <3>2. \A a, b \in F : f[a] = f[b] => a = b
      BY <1>5
    <3> HIDE DEF f
    <3> QED BY <3>1, <3>2 DEF Injection, IsInjective
  <2>2. IsFiniteSet(1..n) /\ Cardinality(1..n) = n
    BY <1>0, FS_Interval
  <2> HIDE DEF f
  <2>3. f \in Surjection(F, 1..n)
    BY <2>1, <2>2, FS_Injection
  <2>4. \E r \in F : f[r] = i
    BY <2>3 DEF Surjection
  <2> QED BY <2>4 DEF f
<1> QED BY <1>1, <1>4, <1>5, <1>6

(* "all" (Depot::get_all_archives): what is listed, and in which order. *)
RootRows == RowsIn({s \in Serials : labels[s].name # RollbackName})

LEMMA RootRowsFinite ==
    /\ IsFiniteSet(RootRows)
    /\ \A r \in RootRows : /\ r["serial"] \in Nat /\ NotTheirs(r["serial"])
                           /\ r = Row(r["serial"])
    /\ \A s \in Serials : NotTheirs(s) => Row(s) \in RootRows /\ Row(s)["serial"] = s
    /\ \A r, q \in RootRows : r["serial"] = q["serial"] => r = q
<1>1. \A r \in RootRows : r["serial"] \in Serials /\ NotTheirs(r["serial"])
                           /\ r = Row(r["serial"])
  BY RowOf DEF RootRows, RowsIn, NotTheirs, Present
<1>2. \A s \in Serials : NotTheirs(s) => Row(s) \in RootRows /\ Row(s)["serial"] = s
  BY RowOf, RowColumns DEF RootRows, RowsIn, NotTheirs, Present
<1>3. \A r, q \in RootRows : r["serial"] = q["serial"] => r = q
  BY <1>1
<1>4. IsFiniteSet(Serials) /\ Serials \subseteq Nat
  BY MaxSerialAssumption, FS_Interval DEF Serials
<1>5. IsFiniteSet(RootRows)
  <2> DEFINE f == [r \in RootRows |-> r["serial"]]
  <2>1. f \in [RootRows -> Serials] /\ \A a, b \in RootRows : f[a] = f[b] => a = b
    BY <1>1, <1>3
  <2> HIDE DEF f
  <2>2. f \in Injection(RootRows, Serials)
    BY <2>1 DEF Injection, IsInjective
  <2> QED BY <1>4, <2>2, FS_Injection
<1> QED BY <1>1, <1>2, <1>3, <1>4, <1>5

PosIn(statement, found, r) == Cardinality({q \in found :
    IF statement.desc THEN q[statement.by] >= r[statement.by]
                      ELSE q[statement.by] <= r[statement.by]})

LEMMA InOrderIs ==
    ASSUME NEW statement, NEW values, NEW rows, NEW found,
           Selected(statement, values, rows) = found,
           \A i \in 1..Cardinality(found) : \E r \in found : PosIn(statement, found, r) = i
    PROVE  LET in == InOrder(statement, values, rows) IN
           /\ DOMAIN in = 1..Cardinality(found)
           /\ \A i \in 1..Cardinality(found) :
                  in[i] \in found /\ PosIn(statement, found, in[i]) = i
<1>1. InOrder(statement, values, rows)
          = [i \in 1..Cardinality(Selected(statement, values, rows)) |->
                CHOOSE r \in Selected(statement, values, rows) :
                    PosIn(statement, Selected(statement, values, rows), r) = i]
  BY DEF InOrder, PosIn
<1> QED BY <1>1

LEMMA AllListed ==
    ASSUME Sound(cache)
    PROVE  /\ DOMAIN AllArchives = 1..Cardinality(RootRows)
           /\ \A i \in DOMAIN AllArchives : \E r \in RootRows :
                  RankIn(RootRows, r) = i /\ AllArchives[i] = r["serial"]
<1> DEFINE statement == GetArchives.statement
           F == RootRows
           rows == InOrder(statement, <<RollbackName>>, ArchiveRows)
<1>1. GetArchives \in Statements
  BY DEF Statements
<1>2. Prepared(cache, GetArchives) = statement
  BY <1>1, Asked
<1>3. /\ statement.where = Where(<<IsNot("name")>>)
      /\ statement.by = "serial" /\ statement.desc = TRUE
  BY DEF GetArchives, Named, Ordered
<1> HIDE DEF statement
<1>4. Selected(statement, <<RollbackName>>, ArchiveRows) = F
  <2>1. Selected(statement, <<RollbackName>>, ArchiveRows)
            = {r \in ArchiveRows : r["name"] # RollbackName}
    BY <1>3, SelectIsNot
  <2>2. \A r \in ArchiveRows : r.name = labels[r.serial].name /\ r.serial \in Serials
    BY RowOf, RowColumns
  <2> QED BY <2>1, <2>2 DEF RowsIn, RootRows
<1>5. \A r : PosIn(statement, F, r) = RankIn(F, r)
  BY <1>3 DEF RankIn, FromRow, PosIn
<1>6. \A i \in 1..Cardinality(F) : \E r \in F : RankIn(F, r) = i
  BY RootRowsFinite, Ranks
<1>7. AllArchives = [i \in DOMAIN rows |-> rows[i].serial]
  BY <1>2 DEF AllArchives
<1> HIDE DEF F
<1>8. /\ DOMAIN rows = 1..Cardinality(F)
      /\ \A i \in 1..Cardinality(F) : rows[i] \in F /\ PosIn(statement, F, rows[i]) = i
  BY <1>4, <1>5, <1>6, InOrderIs
<1> HIDE DEF rows
<1>9. DOMAIN rows = 1..Cardinality(F)
      /\ \A i \in 1..Cardinality(F) : rows[i] \in F /\ RankIn(F, rows[i]) = i
  BY <1>5, <1>8
<1>10. /\ DOMAIN AllArchives = 1..Cardinality(F)
       /\ \A i \in DOMAIN AllArchives : \E r \in F :
              RankIn(F, r) = i /\ AllArchives[i] = r["serial"]
  BY <1>7, <1>9
<1> QED BY <1>10 DEF F

LEMMA AllRight ==
    ASSUME CommandsInv, NamesInv
    PROVE  /\ \A i \in DOMAIN AllArchives : IsRoot(AllArchives[i])
           /\ \A s \in Serials : IsRoot(s) => \E i \in DOMAIN AllArchives : AllArchives[i] = s
           /\ \A i, j \in DOMAIN AllArchives : i < j => AllArchives[i] > AllArchives[j]
<1>1. Sound(cache)
  BY DEF CommandsInv, ProcessInv
<1>2. /\ \A r \in RootRows : RankIn(RootRows, r) \in 1..Cardinality(RootRows)
      /\ \A r, q \in RootRows : RankIn(RootRows, r) < RankIn(RootRows, q)
             => r["serial"] > q["serial"]
      /\ \A r, q \in RootRows : RankIn(RootRows, r) = RankIn(RootRows, q) => r = q
  BY RootRowsFinite, Ranks
<1>3. \A s \in Serials : NotTheirs(s) <=> IsRoot(s)
  BY DEF NotTheirs, Present, NamesInv, IsRoot
<1>4. /\ DOMAIN AllArchives = 1..Cardinality(RootRows)
      /\ \A i \in DOMAIN AllArchives : \E r \in RootRows :
             RankIn(RootRows, r) = i /\ AllArchives[i] = r["serial"]
  BY <1>1, AllListed
<1>5. \A i \in DOMAIN AllArchives : IsRoot(AllArchives[i])
  BY <1>3, <1>4, RootRowsFinite DEF NotTheirs, Present
<1>6. ASSUME NEW s \in Serials, IsRoot(s)
      PROVE  \E i \in DOMAIN AllArchives : AllArchives[i] = s
  <2>1. Row(s) \in RootRows /\ Row(s)["serial"] = s
    BY <1>3, <1>6, RootRowsFinite
  <2> DEFINE i == RankIn(RootRows, Row(s))
  <2>2. i \in DOMAIN AllArchives
    BY <1>2, <1>4, <2>1
  <2>3. PICK r \in RootRows : RankIn(RootRows, r) = i /\ AllArchives[i] = r["serial"]
    BY <1>4, <2>2
  <2>4. r = Row(s)
    BY <1>2, <2>1, <2>3
  <2> QED BY <2>1, <2>2, <2>3, <2>4
<1>7. ASSUME NEW i \in DOMAIN AllArchives, NEW j \in DOMAIN AllArchives, i < j
      PROVE  AllArchives[i] > AllArchives[j]
  <2>1. PICK r \in RootRows : RankIn(RootRows, r) = i /\ AllArchives[i] = r["serial"]
    BY <1>4
  <2>2. PICK q \in RootRows : RankIn(RootRows, q) = j /\ AllArchives[j] = q["serial"]
    BY <1>4
  <2> QED BY <1>2, <1>7, <2>1, <2>2
<1> QED BY <1>5, <1>6, <1>7

(* DarwinupDatabase::get_next_file *)
LEMMA NeighboursRight ==
    ASSUME CommandsInv, NEW s \in Serials, NEW p \in PathsOf(files, s)
    PROVE  /\ {r.archive : r \in First(Prepared(cache, FilePreceded), <<s, p>>, PathRows)}
                 = {t \in Below(files, s, p) : \A u \in Below(files, s, p) : u <= t}
           /\ {r.archive : r \in First(Prepared(cache, FileSuperseded), <<s, p>>, PathRows)}
                 = {t \in Above(files, s, p) : \A u \in Above(files, s, p) : u >= t}
<1>1. /\ Prepared(cache, FilePreceded) = FilePreceded.statement
      /\ Prepared(cache, FileSuperseded) = FileSuperseded.statement
  BY Asked DEF CommandsInv, ProcessInv, Statements
<1>2. /\ \A r \in PathRows : r.archive \in Serials /\ r.path \in PathsOf(files, r.archive)
                            /\ r = [archive |-> r.archive, path |-> r.path]
      /\ \A t \in Serials : \A q \in PathsOf(files, t) :
             [archive |-> t, path |-> q] \in PathRows
  BY DEF PathRows
<1>3. p \in Paths
  BY DEF PathsOf
<1>4. {r.archive : r \in First(Prepared(cache, FilePreceded), <<s, p>>, PathRows)}
          = {t \in Below(files, s, p) : \A u \in Below(files, s, p) : u <= t}
  <2> DEFINE statement == FilePreceded.statement
             found == {r \in PathRows : r["archive"] < s /\ r["path"] = p}
  <2>1. /\ statement.where = Where(<<LessThan("archive"), Is("path")>>)
        /\ statement.by = "archive" /\ statement.desc = TRUE
    BY DEF FilePreceded, Named, Ordered
  <2> HIDE DEF statement
  <2>2. Selected(statement, <<s, p>>, PathRows) = found
    BY <2>1, SelectBelow
  <2>3. First(statement, <<s, p>>, PathRows)
            = {r \in found : \A q \in found : r["archive"] >= q["archive"]}
    BY <2>1, <2>2, NullAssumption DEF First
  <2>4. /\ \A r \in found : r["archive"] \in Below(files, s, p)
        /\ \A t \in Below(files, s, p) : [archive |-> t, path |-> p] \in found
    BY <1>2, <1>3 DEF Below, PathsOf
  <2>5. /\ \A t \in Below(files, s, p) : [archive |-> t, path |-> p]["archive"] = t
        /\ Below(files, s, p) \subseteq Nat
    BY MaxSerialAssumption DEF Below, Serials
  <2> HIDE DEF found
  <2>6. \A r \in found : (\A q \in found : r["archive"] >= q["archive"])
                           <=> \A u \in Below(files, s, p) : u <= r["archive"]
    BY <2>4, <2>5
  <2> QED BY <1>1, <2>3, <2>4, <2>5, <2>6 DEF statement
<1>5. {r.archive : r \in First(Prepared(cache, FileSuperseded), <<s, p>>, PathRows)}
          = {t \in Above(files, s, p) : \A u \in Above(files, s, p) : u >= t}
  <2> DEFINE statement == FileSuperseded.statement
             found == {r \in PathRows : r["archive"] > s /\ r["path"] = p}
  <2>1. /\ statement.where = Where(<<MoreThan("archive"), Is("path")>>)
        /\ statement.by = "archive" /\ statement.desc = FALSE
    BY DEF FileSuperseded, Named, Ordered
  <2> HIDE DEF statement
  <2>2. Selected(statement, <<s, p>>, PathRows) = found
    BY <2>1, SelectAbove
  <2>3. First(statement, <<s, p>>, PathRows)
            = {r \in found : \A q \in found : r["archive"] <= q["archive"]}
    BY <2>1, <2>2, NullAssumption DEF First
  <2>4. /\ \A r \in found : r["archive"] \in Above(files, s, p)
        /\ \A t \in Above(files, s, p) : [archive |-> t, path |-> p] \in found
    BY <1>2, <1>3 DEF Above, PathsOf
  <2>5. /\ \A t \in Above(files, s, p) : [archive |-> t, path |-> p]["archive"] = t
        /\ Above(files, s, p) \subseteq Nat
    BY MaxSerialAssumption DEF Above, Serials
  <2> HIDE DEF found
  <2>6. \A r, q \in found : r["archive"] <= q["archive"] <=> q["archive"] >= r["archive"]
    BY <2>4, <2>5
  <2>7. \A r \in found : (\A q \in found : r["archive"] <= q["archive"])
                           <=> \A u \in Above(files, s, p) : u >= r["archive"]
    BY <2>4, <2>5, <2>6
  <2> QED BY <1>1, <2>3, <2>4, <2>5, <2>7 DEF statement
<1> QED BY <1>4, <1>5

LEMMA InvAnswers == CommandsInv /\ NamesInv => AnswersRight
<1> SUFFICES ASSUME CommandsInv, NamesInv PROVE AnswersRight
  OBVIOUS
<1>1. ASSUME NEW spec \in ({"uuid", "serial"} \X Serials) \cup ({"name"} \X Names)
                    \cup {<<"newest", 0>>, <<"oldest", 0>>}
      PROVE  /\ GetArchive(spec) \subseteq RootsLike(spec)
             /\ GetArchive(spec) = {} => RootsLike(spec) = {}
  <2>1. spec[1] \in {"uuid", "serial", "name", "newest", "oldest"}
    BY <1>1
  <2> QED BY <2>1, FoundRight
<1> QED BY <1>1, AllRight, NeighboursRight DEF AnswersRight

(* As long as no rollback archive is renamed and no root takes its name,   *)
(* every look-up finds what it is asked for, in whatever state the process *)
(* and its prepared statements are: Depot::get_archive by serial, uuid,    *)
(* name and keyword, get_all_archives and get_next_file.                   *)
THEOREM LookUpsAnswer == RenamesRoots => (CSpec => []AnswersRight)
<1> SUFFICES ASSUME RenamesRoots PROVE CSpec => []AnswersRight
  OBVIOUS
<1>1. CInit => CommandsInv /\ NamesInv
  BY CommandsInit, NamesInit
<1>2. (CommandsInv /\ NamesInv) /\ [CNext]_allvars => (CommandsInv /\ NamesInv)'
  BY CommandsNext, NamesNext
<1>3. CommandsInv /\ NamesInv => AnswersRight
  BY InvAnswers
<1> QED BY <1>1, <1>2, <1>3, PTL DEF CSpec

-----------------------------------------------------------------------------
(***************************************************************************)
(* RowsAsMeant: what is sent against what is meant.                        *)
(***************************************************************************)
RowWith(s, label, archive) ==
    [serial |-> s, uuid |-> s, name |-> label.name, date_added |-> label.date,
     active |-> Flagged(archive.active), info |-> Flagged(archive.rollback),
     osbuild |-> label.build]

LEMMA RowsNow == ArchiveRows = {RowWith(s, labels[s], archives[s]) :
                                   s \in {t \in Serials : archives[t] # None}}
BY DEF ArchiveRows, Row, RowWith

LEMMA RowsThen == ArchiveRows' = {RowWith(s, labels'[s], archives'[s]) :
                                     s \in {t \in Serials : archives'[t] # None}}
BY DEF ArchiveRows, Row, RowWith

LEMMA PathRowsOf ==
    ASSUME NEW s \in Serials
    PROVE  /\ \A p \in PathsOf(files, s) : [archive |-> s, path |-> p] \in PathRows
           /\ \A f \in PathRows : f.archive = s
                  => \E p \in PathsOf(files, s) : f = [archive |-> s, path |-> p]
<1>1. \A f \in PathRows : \E t \in Serials : \E p \in PathsOf(files, t) :
          f = [archive |-> t, path |-> p]
  BY DEF PathRows
<1>2. \A t, p : [archive |-> t, path |-> p].archive = t
  OBVIOUS
<1>3. \A p \in PathsOf(files, s) : [archive |-> s, path |-> p] \in PathRows
  BY DEF PathRows
<1>4. \A f \in PathRows : f.archive = s
          => \E p \in PathsOf(files, s) : f = [archive |-> s, path |-> p]
  BY <1>1, <1>2
<1> QED BY <1>3, <1>4

LEMMA RowWithSerial ==
    ASSUME NEW s, NEW label, NEW archive
    PROVE  RowWith(s, label, archive)["serial"] = s
BY DEF RowWith

(* Table::update_value: the mark "active" of the one archive. *)
Marked(r, S, v) == IF r["serial"] \in S THEN [r EXCEPT !["active"] = v] ELSE r

MarkedAll(rows, S, v) == {Marked(r, S, v) : r \in rows}

LEMMA SecondOfTwo ==
    ASSUME NEW b, NEW n, n = 2, NEW s, b[2] = s
    PROVE  SubSeq(b, 2, n) = <<s>>
<1>1. n \in Int /\ 2 \in Int /\ \A i \in 2..n : b[i] \in {s}
  OBVIOUS
<1>2. /\ SubSeq(b, 2, n) \in Seq({s}) /\ Len(SubSeq(b, 2, n)) = IF 2 <= n THEN n - 2 + 1 ELSE 0
      /\ \A i \in 1..(n - 2 + 1) : SubSeq(b, 2, n)[i] = b[2 + i - 1]
  BY <1>1, SubSeqProperties
<1> DEFINE x == SubSeq(b, 2, n)
<1>3. x \in Seq({s}) /\ Len(x) = 1
  BY <1>2
<1>4. x[1] = s
  BY <1>2
<1> HIDE DEF x
<1>5. x = <<s>>
  BY <1>3, <1>4
<1> QED BY <1>5 DEF x

LEMMA Bound ==
    ASSUME NEW v, NEW s
    PROVE  LET bound == <<v>> \o <<s>> IN
           bound[1] = v /\ SubSeq(bound, 2, Len(bound)) = <<s>>
<1> DEFINE bound == <<v>> \o <<s>>
<1>1. /\ <<v>> \in Seq({v, s}) /\ <<s>> \in Seq({v, s})
      /\ Len(<<v>>) = 1 /\ Len(<<s>>) = 1 /\ <<v>>[1] = v /\ <<s>>[1] = s
  OBVIOUS
<1>2. bound[1] = v /\ bound[2] = s /\ Len(bound) = 2
  BY <1>1, ConcatProperties
<1> HIDE DEF bound
<1>3. SubSeq(bound, 2, Len(bound)) = <<s>>
  BY <1>2, SecondOfTwo
<1> QED BY <1>2, <1>3 DEF bound

LEMMA SetActiveIs ==
    ASSUME NEW s, NEW v, NEW rows
    PROVE  SetActive(s, v, rows) = MarkedAll(rows, {s}, v)
<1> DEFINE bound == <<v>> \o <<s>>
           target == Selected(ActivateArchive, SubSeq(bound, 2, Len(bound)), rows)
<1>2. bound[1] = v /\ SubSeq(bound, 2, Len(bound)) = <<s>>
  BY Bound
<1>3. ActivateArchive.where = Where(<<Is("serial")>>) /\ ActivateArchive.set = "active"
  BY DEF ActivateArchive, UpdateValue
<1>4. Selected(ActivateArchive, <<s>>, rows) = {r \in rows : r["serial"] = s}
  BY <1>3, SelectIs
<1>5. target = {r \in rows : r["serial"] = s}
  BY <1>2, <1>4
<1>6. SetActive(s, v, rows)
          = {IF r \in target THEN [r EXCEPT ![ActivateArchive.set] = bound[1]] ELSE r : r \in rows}
  BY DEF SetActive, ValueUpdated, ConditionParameter
<1> HIDE DEF target, bound
<1> QED BY <1>2, <1>3, <1>5, <1>6 DEF Marked, MarkedAll

LEMMA MarkedWith ==
    ASSUME NEW s, NEW label, NEW a \in Archive, NEW b \in BOOLEAN, NEW S, s \in S
    PROVE  Marked(RowWith(s, label, a), S, Flagged(b))
               = RowWith(s, label, [a EXCEPT !.active = b])
<1>1. [a EXCEPT !.active = b].active = b /\ [a EXCEPT !.active = b].rollback = a.rollback
  BY DEF Archive
<1> DEFINE x == Flagged(b)
<1> HIDE DEF x
<1>2. [RowWith(s, label, a) EXCEPT !["active"] = x]
          = [serial |-> s, uuid |-> s, name |-> label.name, date_added |-> label.date,
             active |-> x, info |-> Flagged(a.rollback), osbuild |-> label.build]
  BY DEF RowWith
<1> QED BY <1>1, <1>2, RowWithSerial DEF Marked, RowWith, x

(* Marking the archives of a set marks their rows. *)
LEMMA MarkedRows ==
    ASSUME TypeOK, labels' = labels, NEW S, NEW b \in BOOLEAN,
           \A s \in Serials : archives'[s] =
               IF archives[s] # None /\ s \in S THEN [archives[s] EXCEPT !.active = b]
               ELSE archives[s]
    PROVE  ArchiveRows' = MarkedAll(ArchiveRows, S, Flagged(b))
<1>1. \A s \in Serials : archives[s] \in Archive \cup {None}
  BY DEF TypeOK
<1>2. \A a \in Archive : [a EXCEPT !.active = b] \in Archive
  BY DEF Archive
<1>3. \A s \in Serials : archives'[s] # None <=> archives[s] # None
  BY <1>1, <1>2, NoArchiveAssumption
<1>4. ASSUME NEW s \in Serials, archives[s] # None
      PROVE  Marked(RowWith(s, labels[s], archives[s]), S, Flagged(b))
                 = RowWith(s, labels'[s], archives'[s])
  <2>1. CASE s \in S
    <3>1. archives[s] \in Archive
      BY <1>1, <1>4
    <3>2. archives'[s] = [archives[s] EXCEPT !.active = b] /\ labels'[s] = labels[s]
      BY <1>4, <2>1
    <3>3. Marked(RowWith(s, labels[s], archives[s]), S, Flagged(b))
              = RowWith(s, labels[s], [archives[s] EXCEPT !.active = b])
      BY <2>1, <3>1, MarkedWith
    <3> QED BY <3>2, <3>3
  <2>2. CASE s \notin S
    <3>1. archives'[s] = archives[s] /\ labels'[s] = labels[s]
      BY <2>2
    <3>2. Marked(RowWith(s, labels[s], archives[s]), S, Flagged(b))
              = RowWith(s, labels[s], archives[s])
      BY <2>2, RowWithSerial DEF Marked
    <3> QED BY <3>1, <3>2
  <2> QED BY <2>1, <2>2
<1> QED BY <1>3, <1>4, RowsNow, RowsThen DEF MarkedAll

LEMMA MarkedTwice ==
    ASSUME NEW s, NEW t, NEW v
    PROVE  MarkedAll(MarkedAll(ArchiveRows, {t}, v), {s}, v) = MarkedAll(ArchiveRows, {t, s}, v)
<1>1. ASSUME NEW r \in ArchiveRows PROVE Marked(Marked(r, {t}, v), {s}, v) = Marked(r, {t, s}, v)
  <2>1. DOMAIN r = {"serial", "uuid", "name", "date_added", "active", "info", "osbuild"}
        /\ r = [c \in DOMAIN r |-> r[c]]
    BY RowOf, RowColumns DEF Row
  <2>2. /\ [r EXCEPT !["active"] = v]["serial"] = r["serial"]
        /\ [[r EXCEPT !["active"] = v] EXCEPT !["active"] = v] = [r EXCEPT !["active"] = v]
    BY <2>1
  <2> QED BY <2>2 DEF Marked
<1> QED BY <1>1 DEF MarkedAll

(* Which step of the depot is taken where it waits for one. *)
LEMMA DepotStepAt ==
    ASSUME DepotInv, DepotSteps
    PROVE  /\ pc = "install" /\ pc' = "cleanup" /\ archives' # archives => Activate
           /\ pc = "deactivate" /\ pc' = "uninstall" => Deactivate
           /\ pc = "remove" /\ pc' = "prune" => RemoveArchive
           /\ pc = "prune" /\ pc' = "idle" /\ budget' = budget => Prune
<1>1. CASE InstallStep
  BY <1>1 DEF InstallStep, CompactArchive, BackupFile, CompactRollback, InstallFile, Cleanup,
              Activate, db
<1>2. CASE UninstallStep
  BY <1>2 DEF UninstallStep, LeaveUnclaimed, RemoveFile, RestoreData, RestoreDataFails,
              RestoreMeta, UninstallStops, DeleteRows, UninstallNext, db, Deactivate,
              RemoveArchive, Prune
<1>3. CASE Failure
  BY <1>3 DEF Failure, CompactArchiveFails, BackupFileAborts, CompactRollbackFails,
              InstallFileFails, NotActivated, UninstallFileFails, UninstallNext, db
<1>4. CASE Crash
  <2>1. budget' = [budget EXCEPT !["crashes"] = budget["crashes"] - 1]
    BY <1>4 DEF Crash, Fault
  <2>2. budget' # budget
    BY <2>1, BudgetAssumption DEF DepotInv, TypeOK
  <2> QED BY <1>4, <2>2 DEF Crash, Idle, db
<1>5. CASE \E p \in Paths, e \in UserEntries : Edit(p, e)
  BY <1>5 DEF Edit, db, proc
<1> QED BY <1>1, <1>2, <1>3, <1>4, <1>5 DEF DepotSteps

LEMMA StepAt ==
    ASSUME CommandsInv, [CNext]_allvars
    PROVE  /\ pc = "install" /\ pc' = "cleanup" /\ archives' # archives
                  => Activate /\ labels' = labels
           /\ pc = "deactivate" /\ pc' = "uninstall" => Deactivate /\ labels' = labels
           /\ pc = "remove" /\ pc' = "prune" => RemoveArchive /\ labels' = labels
           /\ pc = "prune" /\ pc' = "idle" /\ budget' = budget => Prune /\ labels' = labels
<1>1. CASE DepotSteps /\ UNCHANGED <<labels, clock>>
  BY <1>1, DepotStepAt DEF CommandsInv
<1>2. CASE UNCHANGED <<vars, labels, clock>>
  BY <1>2 DEF vars, proc
<1>3. CASE \E s \in Serials : Uninstall(s)
  BY <1>3 DEF Uninstall
<1>4. CASE \E root \in Roots : \E old : Installing(root, old)
  <2>1. pc = "idle"
    BY <1>4, Zenon DEF Installing, Install
  <2> QED BY <2>1
<1>5. CASE Rename
  BY <1>5 DEF Rename, proc
<1> QED BY <1>1, <1>2, <1>3, <1>4, <1>5, WhichStep DEF CommandsInv

LEMMA Activates ==
    ASSUME CommandsInv, Activate, labels' = labels
    PROVE  ArchiveRows' = SetActive(cur, 1, SetActive(RollbackOf(cur), 1, ArchiveRows))
<1> DEFINE rb == RollbackOf(cur)
<1>1. TypeOK /\ DepotInv /\ cur \in Serials /\ rb \in Serials /\ cur # rb
  BY InstallStores DEF CommandsInv, DepotInv, Activate
<1>2. archives' = [archives EXCEPT ![rb] = Activated(archives[rb]),
                                   ![cur] = Activated(archives[cur])]
  BY <1>1 DEF Activate, TypeOK
<1> HIDE DEF rb
<1>3. \A s \in Serials : archives'[s] = IF s \in {rb, cur} THEN Activated(archives[s])
                                                           ELSE archives[s]
  BY <1>1, <1>2 DEF TypeOK
<1>4. \A s \in Serials : archives'[s] =
          IF archives[s] # None /\ s \in {rb, cur} THEN [archives[s] EXCEPT !.active = TRUE]
          ELSE archives[s]
  BY <1>3 DEF Activated
<1>5. ArchiveRows' = MarkedAll(ArchiveRows, {rb, cur}, Flagged(TRUE))
  BY <1>1, <1>4, MarkedRows
<1>6. Flagged(TRUE) = 1
  BY DEF Flagged
<1>7. SetActive(cur, 1, SetActive(rb, 1, ArchiveRows))
          = MarkedAll(MarkedAll(ArchiveRows, {rb}, 1), {cur}, 1)
  BY SetActiveIs
<1>8. MarkedAll(MarkedAll(ArchiveRows, {rb}, 1), {cur}, 1)
          = MarkedAll(ArchiveRows, {rb, cur}, 1)
  BY MarkedTwice
<1>9. ArchiveRows' = MarkedAll(ArchiveRows, {rb, cur}, 1)
  BY <1>5, <1>6, Zenon
<1>10. ArchiveRows' = SetActive(cur, 1, SetActive(rb, 1, ArchiveRows))
  BY <1>7, <1>8, <1>9, Zenon
<1> QED BY <1>10, Zenon DEF rb

LEMMA Deactivates ==
    ASSUME CommandsInv, Deactivate, labels' = labels
    PROVE  ArchiveRows' = SetActive(cur, 0, ArchiveRows)
<1>1. TypeOK /\ IsRoot(cur) /\ cur \in Serials
  BY DEF CommandsInv, DepotInv, CommandShape, Deactivate, IsRoot
<1>2. archives' = [archives EXCEPT ![cur] = [archives[cur] EXCEPT !.active = FALSE]]
  BY DEF Deactivate
<1>3. \A s \in Serials : archives'[s] =
          IF archives[s] # None /\ s \in {cur} THEN [archives[s] EXCEPT !.active = FALSE]
          ELSE archives[s]
  BY <1>1, <1>2 DEF TypeOK, IsRoot
<1>4. ArchiveRows' = MarkedAll(ArchiveRows, {cur}, Flagged(FALSE))
  BY <1>1, <1>3, MarkedRows
<1>5. Flagged(FALSE) = 0
  BY DEF Flagged
<1> QED BY <1>4, <1>5, SetActiveIs

LEMMA Removes ==
    ASSUME CommandsInv, RemoveArchive, labels' = labels
    PROVE  /\ ArchiveRows' = WithoutKey(cur, ArchiveRows)
           /\ PathRows' = Deleted(DeleteFilesOf, <<cur>>, PathRows)
<1>1. TypeOK /\ IsRoot(cur) /\ cur \in Serials
  BY DEF CommandsInv, DepotInv, CommandShape, RemoveArchive, IsRoot
<1>2. \A s \in Serials : /\ archives'[s] # None <=> archives[s] # None /\ s # cur
                         /\ archives'[s] # None => archives'[s] = archives[s]
  BY <1>1 DEF RemoveArchive, TypeOK
<1>3. ArchiveRows' = {r \in ArchiveRows : r["serial"] # cur}
  BY <1>2, RowsNow, RowsThen, RowWithSerial
<1>4. \A s \in Serials : PathsOf(files', s) = IF s = cur THEN {} ELSE PathsOf(files, s)
  BY <1>1 DEF RemoveArchive, DeleteFiles, TypeOK, FileTab, PathsOf, NoFiles
<1>5. PathRows' = {r \in PathRows : r["archive"] # cur}
  BY <1>4 DEF PathRows
<1>6. DeleteFilesOf.where = Where(<<Is("archive")>>)
  BY DEF DeleteFilesOf, Statement
<1>7. Selected(DeleteFilesOf, <<cur>>, PathRows) = {r \in PathRows : r["archive"] = cur}
  BY <1>6, SelectIs
<1> QED BY <1>3, <1>5, <1>7 DEF WithoutKey, Deleted

LEMMA Prunes ==
    ASSUME CommandsInv, Prune, labels' = labels
    PROVE  ArchiveRows' = EmptyDeleted(ArchiveRows)
<1>1. \A s \in Serials : /\ archives'[s] # None <=> archives[s] # None /\ PathsOf(files, s) # {}
                         /\ archives'[s] # None => archives'[s] = archives[s]
  BY DEF Prune
<1>2. \A s \in Serials : PathsOf(files, s) # {} <=> \E f \in PathRows : f.archive = s
  <2> TAKE s \in Serials
  <2>1. \A p : [archive |-> s, path |-> p].archive = s
    OBVIOUS
  <2> QED BY <2>1, PathRowsOf
<1>3. ArchiveRows' = {r \in ArchiveRows : \E f \in PathRows : f.archive = r["serial"]}
  BY <1>1, <1>2, RowsNow, RowsThen, RowWithSerial
<1> QED BY <1>3 DEF EmptyDeleted

LEMMA RowsStep ==
    ASSUME CommandsInv, [CNext]_allvars
    PROVE  ActivationMeant /\ DeactivationMeant /\ RemovalMeant /\ PruningMeant
<1>1. ActivationMeant
  BY StepAt, Activates DEF ActivationMeant
<1>2. DeactivationMeant
  BY StepAt, Deactivates DEF DeactivationMeant
<1>3. RemovalMeant
  BY StepAt, Removes DEF RemovalMeant
<1>4. PruningMeant
  BY StepAt, Prunes DEF PruningMeant
<1> QED BY <1>1, <1>2, <1>3, <1>4

LEMMA RenameStep ==
    ASSUME RenamesRoots, CommandsInv, NamesInv, [CNext]_allvars
    PROVE  RenamingMeant
<1> SUFFICES ASSUME main.op = "rename", labels' # labels
             PROVE  LET changed == {s \in Serials : labels'[s] # labels[s]} IN
                    /\ Cardinality(changed) = 1
                    /\ \A s \in changed :
                        /\ labels'[s] = [labels[s] EXCEPT !.name = main.args[2]]
                        /\ archives'[s] = [archives[s] EXCEPT !.active = TRUE]
                        /\ s \in RootsLike(main.args[1])
                    /\ \A s \in Serials \ changed : archives'[s] = archives[s]
  BY DEF RenamingMeant
<1>1. Rename
  BY WhichStep DEF CommandsInv, Argument
<1>2. TypeOK /\ Labelled /\ ProcessInv
  BY DEF CommandsInv, DepotInv
<1> DEFINE name == main.args[2]
<1>3. PICK s \in GetArchive(main.args[1]) :
          s \in Serials /\ archives[s] # None /\ RenamedTo(s, name)
  BY <1>1, <1>2, RenameEffect
<1> DEFINE changed == {t \in Serials : labels'[t] # labels[t]}
<1>4. /\ \A t \in Serials : t # s => labels'[t] = labels[t] /\ archives'[t] = archives[t]
      /\ labels'[s] = Labelling(name, labels[s].date, labels[s].build)
      /\ archives'[s] = [archives[s] EXCEPT !.active = TRUE]
      /\ labels' = [t \in Serials |-> labels'[t]]
  BY <1>3 DEF RenamedTo
<1>5. labels'[s] # labels[s]
  BY <1>2, <1>4 DEF Labelled
<1>6. changed = {s}
  BY <1>3, <1>4, <1>5
<1>7. labels[s] = Labelling(labels[s].name, labels[s].date, labels[s].build)
  BY <1>2, <1>3 DEF Labelled
<1>8. labels'[s] = [labels[s] EXCEPT !.name = name]
  BY <1>4, <1>7 DEF Labelling
<1>9. s \in RootsLike(main.args[1])
  <2>1. main.args[1][1] \in {"uuid", "serial", "name", "newest", "oldest"}
    BY <1>1, <1>2, AskedByRename DEF Rename
  <2> QED BY <1>3, <2>1, FoundRight
<1>10. Cardinality(changed) = 1
  BY <1>6, FS_Singleton
<1> HIDE DEF changed, name
<1>11. \A t \in Serials \ changed : archives'[t] = archives[t]
  BY <1>4, <1>6
<1> QED BY <1>4, <1>6, <1>8, <1>9, <1>10, <1>11 DEF changed, name

(* Whatever command lines are given, the statements that activate,         *)
(* deactivate, delete and prune change the rows the step is about and no   *)
(* others (Database::update_value, del; Depot.cpp's callers).              *)
THEOREM RowsWritten ==
    CSpec => [][/\ ActivationMeant /\ DeactivationMeant /\ RemovalMeant
                /\ PruningMeant]_allvars
<1>1. CommandsInv /\ [CNext]_allvars
          => [/\ ActivationMeant /\ DeactivationMeant /\ RemovalMeant /\ PruningMeant]_allvars
  BY RowsStep
<1> QED BY <1>1, CommandsKeepInvariant, PTL DEF CSpec

(* And, where rollback archives keep their name, so does the statement     *)
(* that writes the whole row of an archive to rename it: one archive, one  *)
(* the user could have meant, gets the new name, and is marked active.     *)
THEOREM StatementsMeant == RenamesRoots => (CSpec => RowsAsMeant)
<1> SUFFICES ASSUME RenamesRoots PROVE CSpec => RowsAsMeant
  OBVIOUS
<1>1. CInit => CommandsInv /\ NamesInv
  BY CommandsInit, NamesInit
<1>2. (CommandsInv /\ NamesInv) /\ [CNext]_allvars => (CommandsInv /\ NamesInv)'
  BY CommandsNext, NamesNext
<1>3. (CommandsInv /\ NamesInv) /\ [CNext]_allvars
          => [/\ ActivationMeant /\ DeactivationMeant /\ RemovalMeant /\ PruningMeant
              /\ RenamingMeant]_allvars
  BY RowsStep, RenameStep
<1> QED BY <1>1, <1>2, <1>3, PTL DEF CSpec, RowsAsMeant

-----------------------------------------------------------------------------
(***************************************************************************)
(* UpgradeSafe.  A root has rows as long as it has an archive: only rows of*)
(* rollback archives are noted for deletion, so no command prunes a root it*)
(* does not uninstall.                                                     *)
(***************************************************************************)
RootsHaveRows ==
    /\ \A s \in Serials : IsRoot(s) => PathsOf(files, s) # {}
    /\ \A x \in toRemove : ~IsRoot(x[1])

LEMMA RootsHaveRowsInit == CInit => RootsHaveRows
BY DEF CInit, Init, RootsHaveRows, IsRoot

(* A step that writes no row and makes no root. *)
LEMMA RowsStay ==
    ASSUME RootsHaveRows, files' = files, toRemove' \subseteq toRemove,
           \A s \in Serials : IsRoot(s)' => IsRoot(s)
    PROVE  RootsHaveRows'
<1>1. \A s \in Serials : PathsOf(files', s) = PathsOf(files, s)
  BY DEF PathsOf
<1>2. \A s : IsRoot(s)' => IsRoot(s)
  BY DEF IsRoot
<1> QED BY <1>1, <1>2 DEF RootsHaveRows

LEMMA SpentIsRollback ==
    ASSUME DepotInv, pc = "uninstall", NEW p \in todo
    PROVE  \A x \in Spent(p) : ~IsRoot(x[1])
<1> DEFINE t == Preceding(files, cur, p)
<1>1. p \in Paths /\ t \in Serials
  BY PreviousRow
<1>2. p \in PathsOf(files, cur)
  BY DEF DepotInv, CommandShape
<1>3. cur \in Serials /\ IsRoot(cur)
  BY <1>2, CurrentRow
<1>4. files[t][p] # None
  <2>1. IsPreceded(files, cur, p)
    BY <1>2, <1>3, InvPreceded DEF RowsArePreceded
  <2> QED BY <1>1, <1>3, <2>1, PrecedingIsRow DEF DepotInv
<1>5. IsRoot(t) => files[t][p].flags \subseteq {"INSTALL_DATA"}
  BY <1>1, <1>4 DEF DepotInv, RowShape, PathsOf, IsRoot
<1> HIDE DEF t
<1>6. Spent(p) # {} => /\ files[t][p].flags \cap {"NO_ENTRY", "ROLLBACK_DATA"} # {}
                       /\ Spent(p) = {<<t, p>>}
  BY DEF Spent, Previous, t
<1> QED BY <1>5, <1>6

LEMMA InstallHasRows ==
    ASSUME DepotInv, RootsHaveRows, NEW root \in Roots, Install(root)
    PROVE  RootsHaveRows'
<1> DEFINE rb     == nextSerial
           s      == nextSerial + 1
           staged == {p \in Paths : root[p] # Absent}
           saved  == {p \in staged : NeedsRollbackRow(files, s, p, fs[p], root[p])}
<1>1. rb \in Serials /\ s \in Serials /\ rb # s
  BY MaxSerialAssumption DEF DepotInv, TypeOK, Install, Serials
<1>2. PICK p \in Paths : root[p] # Absent
  BY RootsAssumption
<1>3. root[p] \in Node /\ fs[p] \in Entry
  BY <1>2, RootsAssumption DEF DepotInv, TypeOK, Tree, Entry
<1>4. files'[s][p] = StagedRow(files, s, p, fs[p], root[p])
  BY <1>1, <1>2 DEF Install, DepotInv, TypeOK, FileTab
<1>5. PathsOf(files', s) # {}
  BY <1>1, <1>2, <1>3, <1>4, AnalyzeStage DEF PathsOf
<1>6. \A t \in Serials : t # rb /\ t # s =>
          files'[t] = files[t] /\ archives'[t] = archives[t]
  BY <1>1 DEF Install, DepotInv, TypeOK, FileTab
<1>7. \A t \in Serials : t = rb => ~(IsRoot(t)')
  <2>1. PICK a \in {None, [rollback |-> TRUE, active |-> FALSE]} :
            archives' = [archives EXCEPT ![rb] = a,
                             ![s] = [rollback |-> FALSE, active |-> FALSE]]
    BY Zenon DEF Install
  <2>2. archives'[rb] = a
    BY <1>1, <2>1 DEF DepotInv, TypeOK
  <2>3. a # None => a.rollback
    BY <2>1
  <2> HIDE DEF rb
  <2> QED BY <2>2, <2>3 DEF IsRoot
<1>8. toRemove' = {}
  BY DEF Install, DepotInv, CommandShape
<1> HIDE DEF rb, s
<1>9. \A t \in Serials : IsRoot(t)' => PathsOf(files', t) # {}
  <2> SUFFICES ASSUME NEW t \in Serials, IsRoot(t)' PROVE PathsOf(files', t) # {}
    OBVIOUS
  <2>1. CASE t = s
    BY <1>5, <2>1
  <2>2. CASE t # s
    <3>1. t # rb
      BY <1>7
    <3>2. files'[t] = files[t] /\ archives'[t] = archives[t]
      BY <1>6, <2>2, <3>1
    <3>3. IsRoot(t)
      BY <3>2 DEF IsRoot
    <3> QED BY <3>2, <3>3 DEF RootsHaveRows, PathsOf
  <2> QED BY <2>1, <2>2
<1> QED BY <1>8, <1>9 DEF RootsHaveRows

LEMMA DepotHasRows ==
    ASSUME DepotInv, RootsHaveRows, DepotSteps
    PROVE  RootsHaveRows'
<1>1. \A s \in Serials : IsRoot(s)' => IsRoot(s)
  <2>1. \A s \in Serials : archives'[s] # None =>
            archives[s] # None /\ archives'[s].rollback = archives[s].rollback
    BY ArchivesKept DEF DepotSteps
  <2> QED BY <2>1 DEF IsRoot
<1>2. CASE files' = files /\ toRemove' \subseteq toRemove
  BY <1>1, <1>2, RowsStay
<1>3. ASSUME pc = "uninstall", NEW p \in todo, files' = files,
             toRemove' = toRemove \cup Spent(p)
      PROVE  RootsHaveRows'
  <2>1. \A x \in toRemove' : ~IsRoot(x[1])
    BY <1>3, SpentIsRollback DEF RootsHaveRows
  <2>2. \A s \in Serials : PathsOf(files', s) = PathsOf(files, s)
    BY <1>3 DEF PathsOf
  <2>3. \A s : IsRoot(s)' => IsRoot(s)
    BY <1>1 DEF IsRoot
  <2> QED BY <2>1, <2>2, <2>3 DEF RootsHaveRows
<1>4. CASE DeleteRows
  <2>1. \A s \in Serials, p \in Paths : <<s, p>> \notin toRemove => files'[s][p] = files[s][p]
    BY <1>4 DEF DeleteRows
  <2>2. \A s \in Serials : IsRoot(s) => \A p \in Paths : <<s, p>> \notin toRemove
    BY DEF RootsHaveRows
  <2>3. \A s \in Serials : IsRoot(s) => PathsOf(files', s) = PathsOf(files, s)
    BY <2>1, <2>2 DEF PathsOf
  <2>4. toRemove' = {}
    BY <1>4 DEF DeleteRows
  <2> QED BY <1>1, <2>3, <2>4 DEF RootsHaveRows
<1>5. CASE RemoveArchive
  <2>1. \A s \in Serials : s # cur => PathsOf(files', s) = PathsOf(files, s)
    BY <1>5 DEF RemoveArchive, DeleteFiles, DepotInv, TypeOK, FileTab, PathsOf
  <2>2. \A s \in Serials : s = cur => ~(IsRoot(s)')
    BY <1>5 DEF RemoveArchive, DepotInv, TypeOK, IsRoot
  <2>3. toRemove' = toRemove
    BY <1>5 DEF RemoveArchive
  <2>4. \A s : IsRoot(s)' => IsRoot(s)
    BY <1>1 DEF IsRoot
  <2> QED BY <1>1, <2>1, <2>2, <2>3, <2>4 DEF RootsHaveRows
<1>6. InstallStep \/ Failure \/ Crash \/ (\E p \in Paths, e \in UserEntries : Edit(p, e))
          => files' = files /\ toRemove' \subseteq toRemove
  BY DEF InstallStep, CompactArchive, BackupFile, CompactRollback, InstallFile, Activate, Cleanup,
         Failure, CompactArchiveFails, BackupFileAborts, CompactRollbackFails, InstallFileFails,
         NotActivated, UninstallFileFails, UninstallNext, Crash, Idle, Edit, db, proc
<1>7. UninstallStep => \/ DeleteRows \/ RemoveArchive
                       \/ files' = files /\ toRemove' \subseteq toRemove
                       \/ \E p \in todo : /\ pc = "uninstall" /\ files' = files
                                           /\ toRemove' = toRemove \cup Spent(p)
  BY DEF UninstallStep, Deactivate, LeaveUnclaimed, RemoveFile, RestoreData, RestoreDataFails,
         RestoreMeta, UninstallStops, Prune, UninstallNext, Idle, db
<1> QED BY <1>2, <1>3, <1>4, <1>5, <1>6, <1>7 DEF DepotSteps

LEMMA RowsKeptByAll ==
    ASSUME CommandsInv, RootsHaveRows, [CNext]_allvars
    PROVE  RootsHaveRows'
<1>1. TypeOK /\ DepotInv
  BY DEF CommandsInv, DepotInv
<1>2. CASE DepotSteps
  BY <1>1, <1>2, DepotHasRows
<1>3. CASE UNCHANGED vars \/ \E s \in Serials : Uninstall(s)
  <2>1. archives' = archives /\ files' = files /\ toRemove' = toRemove
    BY <1>3 DEF vars, db, proc, Uninstall
  <2> QED BY <2>1 DEF RootsHaveRows, PathsOf, IsRoot
<1>4. CASE \E root \in Roots : \E old : Installing(root, old)
  BY <1>1, <1>4, InstallHasRows DEF Installing
<1>5. CASE Rename
  <2>1. PICK s \in Serials : archives[s] # None /\ RenamedTo(s, main.args[2])
    BY <1>1, <1>5, RenameEffect DEF CommandsInv
  <2>2. archives[s] \in Archive
    BY <1>1, <2>1 DEF TypeOK
  <2>3. archives'[s].rollback = archives[s].rollback
        /\ \A t \in Serials : t # s => archives'[t] = archives[t]
    BY <2>1, <2>2 DEF RenamedTo, Archive
  <2>4. \A t \in Serials : IsRoot(t)' => IsRoot(t)
    BY <2>1, <2>3 DEF IsRoot
  <2>5. files' = files /\ toRemove' = toRemove
    BY <1>5 DEF Rename, proc
  <2> QED BY <2>4, <2>5, RowsStay
<1> QED BY <1>2, <1>3, <1>4, <1>5, WhichStep DEF CommandsInv

(* An archive that is not the current one keeps its mark and, when it is a *)
(* root, stays.                                                            *)
LEMMA OthersStay ==
    ASSUME DepotInv, RootsHaveRows, DepotSteps, NEW s \in Serials, IsRoot(s), s # cur
    PROVE  archives'[s] # None /\ (archives[s].active => archives'[s].active)
<1>1. archives[s] \in Archive /\ archives[s] # None
  BY DEF IsRoot, DepotInv, TypeOK
<1>2. CASE UNCHANGED archives
  BY <1>1, <1>2
<1>3. CASE Activate
  <2>1. archives'[s] \in {archives[s], Activated(archives[s])}
    BY <1>3 DEF Activate, DepotInv, TypeOK
  <2>2. Activated(archives[s]) \in Archive /\ Activated(archives[s]).active = TRUE
    BY <1>1 DEF Activated, Archive
  <2> QED BY <1>1, <2>1, <2>2, NoArchiveAssumption
<1>4. CASE Deactivate
  <2>1. archives'[s] = archives[s]
    BY <1>4 DEF Deactivate, DepotInv, TypeOK
  <2> QED BY <1>1, <2>1
<1>5. CASE RemoveArchive
  <2>1. archives'[s] = archives[s]
    BY <1>5 DEF RemoveArchive, DepotInv, TypeOK
  <2> QED BY <1>1, <2>1
<1>6. CASE Prune
  <2>1. archives'[s] = archives[s]
    BY <1>6 DEF Prune, RootsHaveRows
  <2> QED BY <1>1, <2>1
<1>7. InstallStep => Activate \/ UNCHANGED archives
  BY DEF InstallStep, CompactArchive, BackupFile, CompactRollback, InstallFile, Cleanup, db
<1>8. UninstallStep => Deactivate \/ RemoveArchive \/ Prune \/ UNCHANGED archives
  BY DEF UninstallStep, LeaveUnclaimed, RemoveFile, RestoreData, RestoreDataFails, RestoreMeta,
         UninstallStops, DeleteRows, UninstallNext, db
<1>9. Failure \/ Crash \/ (\E p \in Paths, e \in UserEntries : Edit(p, e)) => UNCHANGED archives
  BY DEF Failure, CompactArchiveFails, BackupFileAborts, CompactRollbackFails, InstallFileFails,
         NotActivated, UninstallFileFails, UninstallNext, Crash, Edit, db
<1> QED BY <1>2, <1>3, <1>4, <1>5, <1>6, <1>7, <1>8, <1>9 DEF DepotSteps

LEMMA CurStays ==
    ASSUME DepotSteps
    PROVE  cur' \in {0, cur}
BY DEF DepotSteps, InstallStep, CompactArchive, BackupFile, CompactRollback, InstallFile, Activate,
       Cleanup, UninstallStep, Deactivate, LeaveUnclaimed, RemoveFile, RestoreData,
       RestoreDataFails, RestoreMeta, UninstallStops, DeleteRows, RemoveArchive, Prune, Failure,
       CompactArchiveFails, BackupFileAborts, CompactRollbackFails, InstallFileFails,
       NotActivated, UninstallFileFails, UninstallNext, Crash, Idle, Edit, proc

(* An upgrade on its way: while it installs, the depot works on the new    *)
(* root; once it lists the old one, the new one is active.                 *)
ActiveRoot(s) == IsRoot(s) /\ archives[s].active

Upgrading ==
    main.op = "upgrade" /\ main.old # 0 =>
        /\ main.old \in Serials /\ nextSerial - 1 \in Serials /\ main.old # nextSerial - 1
        /\ archives[main.old] # None => IsRoot(main.old)
        /\ archives[nextSerial - 1] # None => IsRoot(nextSerial - 1)
        /\ main.pc = "install" => cur \in {0, nextSerial - 1}
        /\ main.pc # "install" =>
               /\ ActiveRoot(nextSerial - 1) /\ cur \in {0, main.old}
               /\ main.list \in {<<>>, <<Listing(main.old, FALSE)>>}
        /\ main.pc = "list" => cur = 0
        /\ main.pc = "uninstall" => main.list # <<>>

UpgradeInv == CommandsInv /\ NamesInv /\ RootsHaveRows /\ Upgrading

LEMMA OldIsRoot ==
    ASSUME RenamesRoots, CommandsInv, NamesInv, NEW root \in Roots,
           NEW old \in GetArchive(<<"name", NameOf[root]>>)
    PROVE  old \in Serials /\ IsRoot(old) /\ old < nextSerial
<1> DEFINE spec == <<"name", NameOf[root]>>
<1>1. spec[1] = "name" /\ spec[2] = NameOf[root] /\ spec[2] # RollbackName
  BY DEF RenamesRoots
<1> HIDE DEF spec
<1>2. GetArchive(spec) = {s \in Serials : /\ IsCalled(s, spec[2])
                               /\ \A t \in Serials : IsCalled(t, spec[2]) => s <= t}
  BY <1>1, NameFound DEF CommandsInv, ProcessInv
<1>3. old \in GetArchive(spec)
  BY DEF spec
<1>4. old \in Serials /\ IsCalled(old, spec[2])
  BY <1>2, <1>3
<1>5. archives[old] # None /\ labels[old].name # RollbackName
  BY <1>1, <1>4 DEF IsCalled, Present
<1>6. old < nextSerial
  BY <1>4, <1>5, MaxSerialAssumption DEF CommandsInv, DepotInv, TypeOK, FreshSerials, Serials
<1> QED BY <1>4, <1>5, <1>6 DEF NamesInv

LEMMA UpgradeBegins ==
    ASSUME RenamesRoots, CommandsInv, NamesInv, NEW root \in Roots,
           NEW old \in GetArchive(<<"name", NameOf[root]>>), Installing(root, old)
    PROVE  Upgrading'
<1>1. old \in Serials /\ IsRoot(old) /\ old < nextSerial
  BY OldIsRoot
<1> DEFINE new == nextSerial + 1
<1>2. /\ nextSerial \in Serials /\ new \in Serials /\ nextSerial' = nextSerial + 2
      /\ \A s \in Serials : s \notin {nextSerial, new} => archives'[s] = archives[s]
      /\ archives'[new] = [rollback |-> FALSE, active |-> FALSE]
      /\ cur' = new
  BY InstallingArchives DEF CommandsInv
<1>3. nextSerial' - 1 = new /\ old # new /\ old # nextSerial
  BY <1>1, <1>2 DEF Serials
<1>4. main'.pc = "install" /\ main'.old = old
  BY DEF Installing, CommandsInv, ProcessInv, MainShape
<1>5. archives'[old] = archives[old]
  BY <1>1, <1>2, <1>3
<1>6. IsRoot(old)'
  BY <1>1, <1>5 DEF IsRoot
<1> HIDE DEF new
<1>7. archives'[new] # None => new \in Serials /\ archives'[new] # None /\ ~archives'[new].rollback
  BY <1>2
<1> QED BY <1>1, <1>2, <1>3, <1>4, <1>6, <1>7 DEF Upgrading, IsRoot

(* While the depot works for an upgrade. *)
LEMMA UpgradeWorks ==
    ASSUME UpgradeInv, DepotSteps, main.op = "upgrade", main.old # 0,
           main.pc \in {"install", "list", "uninstall"}
    PROVE  /\ archives'[main.old] # None => archives'[main.old].rollback = FALSE
           /\ archives'[nextSerial - 1] # None =>
                  nextSerial' = nextSerial /\ archives'[nextSerial - 1].rollback = FALSE
           /\ main.pc # "install" => archives'[nextSerial - 1] # None
                                     /\ archives'[nextSerial - 1].active
<1> DEFINE new == nextSerial - 1
<1>1. DepotInv /\ TypeOK /\ RootsHaveRows /\ Upgrading
  BY DEF UpgradeInv, CommandsInv, DepotInv
<1>2. /\ nextSerial' = nextSerial
      /\ \A s \in Serials : archives'[s] # None =>
             archives[s] # None /\ archives'[s].rollback = archives[s].rollback
  BY <1>1, ArchivesKept DEF DepotSteps
<1>3. /\ main.old \in Serials /\ new \in Serials /\ main.old # new
      /\ archives[main.old] # None => IsRoot(main.old)
      /\ archives[new] # None => IsRoot(new)
      /\ main.pc # "install" => ActiveRoot(new) /\ cur \in {0, main.old}
  BY <1>1 DEF Upgrading
<1> HIDE DEF new
<1>4. main.pc # "install" => archives'[new] # None /\ archives'[new].active
  <2> SUFFICES ASSUME main.pc # "install" PROVE archives'[new] # None /\ archives'[new].active
    OBVIOUS
  <2>1. IsRoot(new) /\ archives[new].active /\ new # cur
    BY <1>3, MaxSerialAssumption DEF ActiveRoot, Serials
  <2> QED BY <1>1, <1>3, <2>1, OthersStay
<1>5. archives'[main.old] # None => archives'[main.old].rollback = FALSE
  <2>1. archives[main.old] \in Archive \cup {None}
    BY <1>1, <1>3 DEF TypeOK
  <2> QED BY <1>2, <1>3, <2>1 DEF IsRoot, Archive
<1>6. archives'[new] # None => archives'[new].rollback = FALSE
  <2>1. archives[new] \in Archive \cup {None}
    BY <1>1, <1>3 DEF TypeOK
  <2> QED BY <1>2, <1>3, <2>1 DEF IsRoot, Archive
<1> QED BY <1>2, <1>4, <1>5, <1>6 DEF new

LEMMA UpgradeStays ==
    ASSUME UpgradeInv, DepotStep \/ UserEdits
    PROVE  Upgrading'
<1>1. main' = main /\ DepotSteps
  BY DEF DepotStep, UserEdits, DepotSteps, Failure, shell
<1> SUFFICES ASSUME main.op = "upgrade", main.old # 0
             PROVE  Upgrading'
  BY <1>1 DEF Upgrading
<1>2. main.pc \in {"install", "list", "uninstall"}
  BY DEF UpgradeInv, CommandsInv, ProcessInv, MainShape
<1>3. /\ archives'[main.old] # None => archives'[main.old].rollback = FALSE
      /\ archives'[nextSerial - 1] # None =>
             nextSerial' = nextSerial /\ archives'[nextSerial - 1].rollback = FALSE
      /\ main.pc # "install" => archives'[nextSerial - 1] # None
                                /\ archives'[nextSerial - 1].active
  BY <1>1, <1>2, UpgradeWorks
<1>4. nextSerial' = nextSerial
  BY <1>1, ArchivesKept DEF UpgradeInv, CommandsInv, DepotSteps
<1>5. cur' \in {0, cur}
  BY <1>1, CurStays
<1>6. Upgrading
  BY DEF UpgradeInv
<1> DEFINE old == main.old  new == nextSerial - 1
<1>7. /\ old \in Serials /\ new \in Serials /\ old # new
      /\ main.pc = "install" => cur \in {0, new}
      /\ main.pc # "install" => /\ cur \in {0, old}
                                /\ main.list \in {<<>>, <<Listing(old, FALSE)>>}
      /\ main.pc = "list" => cur = 0
      /\ main.pc = "uninstall" => main.list # <<>>
  BY <1>6 DEF Upgrading
<1>8. /\ main'.old = old /\ nextSerial' - 1 = new /\ main'.pc = main.pc /\ main'.list = main.list
  BY <1>1, <1>4
<1>9. /\ archives'[old] # None => archives'[old].rollback = FALSE
      /\ archives'[new] # None => archives'[new].rollback = FALSE
      /\ main.pc # "install" => archives'[new] # None /\ archives'[new].active
  BY <1>3
<1> HIDE DEF old, new
<1> QED BY <1>5, <1>7, <1>8, <1>9 DEF Upgrading, ActiveRoot, IsRoot

(* What main does with the list of an upgrade, between two calls of Depot. *)
LEMMA UpgradeListed ==
    ASSUME UpgradeInv, main.op = "upgrade", main.old # 0, archives' = archives,
           nextSerial' = nextSerial, main'.pc \in {"list", "uninstall"}, main'.old = main.old,
           ActiveRoot(nextSerial - 1), cur' \in {0, main.old}, main'.pc = "list" => cur' = 0,
           main'.list \in {<<>>, <<Listing(main.old, FALSE)>>},
           main'.pc = "uninstall" => main'.list # <<>>
    PROVE  Upgrading'
<1>1. Upgrading
  BY DEF UpgradeInv
<1> DEFINE old == main.old  new == nextSerial - 1
<1>2. /\ old \in Serials /\ new \in Serials /\ old # new /\ ActiveRoot(new)
      /\ archives[old] # None => IsRoot(old)
  BY <1>1 DEF Upgrading
<1>3. main'.old = old /\ nextSerial' - 1 = new
  OBVIOUS
<1>4. main'.list \in {<<>>, <<Listing(old, FALSE)>>} /\ cur' \in {0, old}
  OBVIOUS
<1> HIDE DEF old, new
<1> QED BY <1>2, <1>3, <1>4 DEF Upgrading, ActiveRoot, IsRoot

LEMMA UpgradeReturns ==
    ASSUME UpgradeInv, InstallReturns
    PROVE  Upgrading'
<1> DEFINE new == nextSerial - 1
           ok  == archives[new] # None /\ archives[new].active
<1>1. /\ main.pc = "install" /\ pc = "idle" /\ UNCHANGED vars
      /\ IF ok /\ main.op = "upgrade"
         THEN main' = [main EXCEPT !.pc = "list", !.list = <<Listing(main.old, FALSE)>>]
         ELSE Done(IF ok THEN "ok" ELSE "error")
  BY DEF InstallReturns
<1>2. CASE ok /\ main.op = "upgrade"
  <2>1. /\ main'.pc = "list" /\ main'.old = main.old /\ main'.op = main.op
        /\ main'.list = <<Listing(main.old, FALSE)>>
    BY <1>1, <1>2 DEF UpgradeInv, CommandsInv, ProcessInv, MainShape
  <2>2. archives' = archives /\ nextSerial' = nextSerial /\ cur' = 0
    BY <1>1 DEF vars, db, proc, UpgradeInv, CommandsInv, DepotInv, CommandShape
  <2>3. main.old # 0 => ActiveRoot(new)
    BY <1>2 DEF UpgradeInv, Upgrading, ActiveRoot
  <2>4. CASE main.old = 0
    BY <2>1, <2>4 DEF Upgrading
  <2>5. CASE main.old # 0
    BY <1>2, <2>1, <2>2, <2>3, <2>5, UpgradeListed
  <2> QED BY <2>4, <2>5
<1>3. CASE ~(ok /\ main.op = "upgrade")
  <2>1. main'.old = 0
    BY <1>1, <1>3 DEF Done, UpgradeInv, CommandsInv, ProcessInv, MainShape
  <2> QED BY <2>1 DEF Upgrading
<1> QED BY <1>2, <1>3

LEMMA UpgradeUninstalls ==
    ASSUME UpgradeInv, UninstallRefused \/ UninstallArchive \/ UninstallReturns
    PROVE  Upgrading'
<1>1. main.pc \in {"list", "uninstall"} /\ MainShape /\ Upgrading /\ DepotInv
  BY DEF UninstallRefused, UninstallArchive, UninstallReturns, InList, UpgradeInv, CommandsInv,
         ProcessInv
<1>2. archives' = archives /\ nextSerial' = nextSerial
  BY DEF UninstallRefused, UninstallArchive, UninstallReturns, Uninstall, vars, db
<1>3. main'.old = main.old /\ main'.op = main.op
  BY <1>1 DEF UninstallRefused, UninstallArchive, UninstallReturns, Returned, MainShape
<1> SUFFICES ASSUME main.op = "upgrade", main.old # 0 PROVE Upgrading'
  BY <1>3 DEF Upgrading
<1>4. /\ ActiveRoot(nextSerial - 1) /\ cur \in {0, main.old}
      /\ main.list \in {<<>>, <<Listing(main.old, FALSE)>>}
      /\ main.pc = "list" => cur = 0
      /\ main.pc = "uninstall" => main.list # <<>>
  BY <1>1 DEF Upgrading
<1> DEFINE l == <<Listing(main.old, FALSE)>>
<1>5. l # <<>> /\ Head(l).serial = main.old /\ Tail(l) = <<>>
  BY DEF Listing
<1> HIDE DEF l
<1>6. main.list \in {<<>>, l}
  BY <1>4 DEF l
<1>7. CASE UninstallRefused
  <2>1. main.list = l /\ main'.list = Tail(main.list) /\ main'.pc = "list" /\ main.pc = "list"
        /\ cur' = cur
    BY <1>1, <1>6, <1>7 DEF UninstallRefused, InList, Returned, MainShape, vars, proc
  <2> QED BY <1>2, <1>3, <1>4, <1>5, <2>1, UpgradeListed
<1>8. CASE UninstallReturns
  <2>1. main.pc = "uninstall" /\ main'.list = Tail(main.list) /\ main'.pc = "list" /\ cur' = 0
    BY <1>1, <1>8 DEF UninstallReturns, Returned, MainShape, vars, proc, DepotInv, CommandShape
  <2>2. main.list = l
    BY <1>4, <1>6, <2>1
  <2>3. main'.list = <<>>
    BY <1>5, <2>1, <2>2
  <2> QED BY <1>2, <1>3, <1>4, <2>1, <2>3, UpgradeListed
<1>9. CASE UninstallArchive
  <2>1. main.list = l /\ main'.list = main.list /\ main'.pc = "uninstall"
        /\ cur' = Head(main.list).serial
    BY <1>1, <1>6, <1>9 DEF UninstallArchive, Uninstall, InList, MainShape
  <2> QED BY <1>2, <1>3, <1>4, <1>5, <2>1, UpgradeListed DEF l
<1> QED BY <1>7, <1>8, <1>9

LEMMA UpgradeNext ==
    ASSUME RenamesRoots, UpgradeInv, [CNext]_allvars
    PROVE  Upgrading'
<1>1. Upgrading /\ MainShape /\ ProcessInv
  BY DEF UpgradeInv, CommandsInv, ProcessInv
<1>2. CASE DepotStep \/ UserEdits
  BY <1>2, UpgradeStays
<1>3. CASE InstallReturns
  BY <1>3, UpgradeReturns
<1>4. CASE UninstallRefused \/ UninstallArchive \/ UninstallReturns
  BY <1>4, UpgradeUninstalls
<1>5. CASE UpgradeArgument
  <2>1. Head(main.args) \in Roots
    BY <1>1, <1>5, HeadFits DEF UpgradeArgument, Argument, ProcessInv
  <2> QED BY <1>5, <2>1, UpgradeBegins DEF UpgradeArgument, UpgradeInv
<1>6. CASE InstallArgument
  <2>1. main'.old = 0
    BY <1>1, <1>6 DEF InstallArgument, Installing, MainShape
  <2> QED BY <2>1 DEF Upgrading
<1>7. CASE Command \/ Exit \/ Dies
  <2>1. main'.old = 0
    <3>1. main' = Resting => main'.old = 0
      BY DEF Resting
    <3>2. Command => main'.old = 0
      BY DEF Command, Resting
    <3> QED BY <1>7, <3>1, <3>2 DEF Exit, Dies
  <2> QED BY <2>1 DEF Upgrading
<1>8. CASE NothingToUpgrade \/ ListArgument \/ ListDone \/ RenameFails
  <2>1. \A r : Done(r) => main'.old = 0
    BY <1>1 DEF Done, MainShape
  <2>2. main'.old = 0
    BY <1>8, <2>1 DEF NothingToUpgrade, ListArgument, ListDone, RenameFails
  <2> QED BY <2>2 DEF Upgrading
<1>9. CASE SelectAll \/ SelectSuperseded \/ SelectOne \/ FilesOfArchive \/ VerifyArchive
  <2>1. main.op # "upgrade"
    BY <1>9 DEF SelectAll, SelectSuperseded, SelectOne, FilesOfArchive, VerifyArchive, Argument,
                InList
  <2>2. main'.op = main.op
    BY <1>1, <1>9 DEF SelectAll, SelectSuperseded, SelectOne, FilesOfArchive, VerifyArchive,
                      Listed, Returned, Done, MainShape
  <2> QED BY <2>1, <2>2 DEF Upgrading
<1>10. CASE Rename
  <2>1. main.op = "rename" /\ main'.op = main.op
    BY <1>1, <1>10 DEF Rename, Argument, MainShape
  <2> QED BY <2>1 DEF Upgrading
<1>11. CASE UpgradeOS \/ UNCHANGED allvars
  <2>1. UNCHANGED <<main, archives, nextSerial, cur>>
    BY <1>11 DEF UpgradeOS, allvars, shell, vars, db, proc
  <2> QED BY <1>1, <2>1 DEF Upgrading, ActiveRoot, IsRoot
<1> QED BY <1>2, <1>3, <1>4, <1>5, <1>6, <1>7, <1>8, <1>9, <1>10, <1>11 DEF CNext

(* Losing the old root, or its mark, in a step of an upgrade. *)
Lost(s) == /\ archives[s] # None
           /\ \/ archives'[s] = None
              \/ archives[s].active /\ ~archives'[s].active

LEMMA UpgradeLoses ==
    ASSUME UpgradeInv, [CNext]_allvars, main.op = "upgrade", main.old # 0, Lost(main.old)
    PROVE  archives[nextSerial - 1] # None /\ archives[nextSerial - 1].active
<1>1. /\ DepotInv /\ Upgrading /\ MainShape /\ RootsHaveRows /\ ProcessInv /\ TypeOK
  BY DEF UpgradeInv, CommandsInv, ProcessInv, DepotInv
<1>2. CASE main.pc # "install"
  BY <1>1, <1>2 DEF Upgrading, ActiveRoot, IsRoot
<1>3. CASE main.pc = "install"
  <2> DEFINE old == main.old
  <2>1. old \in Serials /\ IsRoot(old) /\ old # cur
    BY <1>1, <1>3, MaxSerialAssumption DEF Upgrading, Lost, Serials
  <2>2. archives'[old] # archives[old]
    BY DEF Lost
  <2> HIDE DEF old
  <2>3. CASE DepotSteps
    <3>1. archives'[old] # None /\ (archives[old].active => archives'[old].active)
      BY <1>1, <2>1, <2>3, OthersStay
    <3> QED BY <3>1 DEF Lost, old
  <2>4. CASE UNCHANGED vars \/ \E s \in Serials : Uninstall(s)
    BY <2>2, <2>4 DEF vars, db, Uninstall
  <2>5. CASE Argument({"install", "upgrade"}) \/ Rename
    BY <1>3, <2>5 DEF Argument, Rename
  <2> QED BY <1>1, <2>3, <2>4, <2>5, WhichStep
<1> QED BY <1>2, <1>3

(* "upgrade" installs the new root and only then uninstalls the one that   *)
(* had its name (main.cpp:228-239): whatever fails or dies on the way, the *)
(* old root loses its mark or its archive only while the new one is there  *)
(* and active.                                                             *)
THEOREM UpgradesAreSafe == RenamesRoots => (CSpec => UpgradeSafe)
<1> SUFFICES ASSUME RenamesRoots PROVE CSpec => UpgradeSafe
  OBVIOUS
<1>1. CInit => UpgradeInv
  <2> SUFFICES ASSUME CInit PROVE UpgradeInv
    OBVIOUS
  <2>1. main.old = 0
    BY DEF CInit, Resting
  <2> QED BY <2>1, CommandsInit, NamesInit, RootsHaveRowsInit DEF UpgradeInv, Upgrading
<1>2. UpgradeInv /\ [CNext]_allvars => UpgradeInv'
  BY CommandsNext, NamesNext, RowsKeptByAll, UpgradeNext DEF UpgradeInv
<1>3. UpgradeInv /\ [CNext]_allvars
          => [/\ main.op = "upgrade" /\ main.old # 0
              /\ archives[main.old] # None
              /\ \/ archives'[main.old] = None
                 \/ archives[main.old].active /\ ~archives'[main.old].active
              => archives[nextSerial - 1] # None /\ archives[nextSerial - 1].active]_allvars
  BY UpgradeLoses DEF Lost
<1> QED BY <1>1, <1>2, <1>3, PTL DEF CSpec, UpgradeSafe
=============================================================================
