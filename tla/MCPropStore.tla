---------------------------- MODULE MCPropStore -----------------------------
(* Values for the constants of PropStore, for TLC. *)
EXTENDS PropStore

Types == [p \in {"configuration", "dependencies", "inherits", "original", "source_sites"} |->
            CASE p = "dependencies" -> "dictionary" [] p = "source_sites" -> "array"
              [] OTHER -> "string"]
Kinds == [p \in DOMAIN Types |->
            CASE p = "inherits" -> "build" [] p = "source_sites" -> "either" [] OTHER -> "project"]
Known == <<"bogus", "configuration", "dependencies", "inherits", "original", "source_sites">>
Names == <<"bar", "foo", "foo_prime">>

AsText == [i \in 1..11 |-> Text(<<0, 1, 10, 2, 3, 4, 5, 6, 7, 8, 9>>[i])]

Columns == {None} \cup Range(AsText)
           \cup {<<sign, type>> : sign \in {"", "-", "+"}, type \in {"build", "lib", "run"}}
Strings == {"1", "2", "3", "8A1", "8A2", "a", "b", "bar", "c", "foo", "foo_prime"}

Str(v)    == Value("string", {<<None, v>>})
Array(s)  == Value("array", {<<Text(i - 1), s[i]>> : i \in DOMAIN s})
Deps(d)   == Value("dictionary", d)

RowsOf(b, o, list) == UNION {{RowOf(b, o, p, item) : item \in list[p].items} : p \in DOMAIN list}

Table(props, groups) == [properties |-> props, groups |-> groups]

(* More than ten elements. *)
Long == Array(<<"a", "b", "c", "1", "2", "3", "a", "b", "c", "1", "2">>)

(* 8A2 inherits 8A1, has an alias of foo that was none before, no longer   *)
(* an alias that was one, and revises its dependencies.                    *)
Inheriting ==
    Table(RowsOf("8A1", None, [source_sites |-> Array(<<"b", "a">>)])
          \cup RowsOf("8A1", "foo", [configuration |-> Str("1"), source_sites |-> Long,
                              dependencies |-> Deps({<<<<"", "lib">>, "bar">>, <<<<"", "build">>, "foo_prime">>})])
          \cup RowsOf("8A1", "foo_prime", [configuration |-> Str("2")])
          \cup RowsOf("8A1", "bar", [original |-> Str("foo")])
          \cup RowsOf("8A2", None, [inherits |-> Str("8A1")])
          \cup RowsOf("8A2", "bar", [dependencies |-> Deps({<<<<"", "run">>, "foo">>})])
          \cup RowsOf("8A2", "foo_prime", [original |-> Str("foo")])
          \cup RowsOf("8A2", "foo", [source_sites |-> Array(<<"c">>),
                              dependencies |-> Deps({<<<<"-", "lib">>, "bar">>, <<<<"+", "lib">>, "bar">>,
                                                     <<<<"+", "run">>, "foo">>})]),
          {<<"8A1", "g", "foo">>})

Empty == Table({}, {})

TwoTables == {Empty, Inheriting}

(* A list with everything in it; one that a property makes invalid after   *)
(* others are set; one with a project that is no dictionary; one that ties *)
(* two builds into a cycle.                                                *)
SomePlists ==
    {Plist([inherits |-> Str("8A1")],
           [o \in {"bar", "foo"} |->
              OfProject(IF o = "foo" THEN [configuration |-> Str("2"), source_sites |-> Array(<<"b">>)]
                        ELSE [source_sites |-> Array(<<>>)])],
           [g \in {"g"} |-> {"bar", "foo"}]),
     Plist([x \in {} |-> {}], [o \in {"bar", "foo"} |->
              OfProject(IF o = "bar" THEN [configuration |-> Str("3")] ELSE [bogus |-> Str("1")])], None),
     Plist([source_sites |-> Str("a"), dependencies |-> Deps({<<<<"", "lib">>, "foo">>})],
           [o \in {"bar"} |-> NotADictionary], None),
     Plist([inherits |-> Str("8A2")], [o \in {"bar"} |-> NotADictionary], NoEntries)}
=============================================================================
