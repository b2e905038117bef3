--------------------------- MODULE MCDepotCommands ---------------------------
(* Values for the constants of DepotCommands, for TLC. *)
EXTENDS DepotCommands

CONSTANTS d0, d1, d2, d3, m0

File(d) == [data |-> d, meta |-> m0]

(* Two versions of one root, and a root above the first file of both.      *)
Tool1 == [p \in Paths |-> File(d1)]
Tool2 == [p \in Paths |-> File(d2)]
Other == [p \in Paths |-> IF p = 1 THEN File(d2) ELSE Absent]

AllRoots == {Tool1, Tool2, Other}
RootName == [r \in AllRoots |-> IF r = Other THEN "other" ELSE "tool"]
Bases    == {[p \in Paths |-> IF p = 1 THEN File(d0) ELSE Absent]}
UserData == {File(d3), Absent}

Line(op, args) == [op |-> op, args |-> args, force |-> FALSE]
Lines ==
    {Line("install", <<Tool1>>), Line("install", <<Tool2, Other>>),
     Line("upgrade", <<Tool2>>),
     Line("uninstall", <<All>>), Line("uninstall", <<Superseded>>),
     Line("uninstall", <<<<"newest", 0>>, <<"oldest", 0>>>>),
     [Line("uninstall", <<<<"serial", 3>>, <<"name", "tool">>>>) EXCEPT !.force = TRUE],
     Line("files", <<<<"oldest", 0>>, Superseded>>), Line("verify", <<All>>),
     Line("list", <<All, Superseded, <<"newest", 0>>>>),
     Line("rename", <<<<"uuid", 2>>, "new">>),
     Line("rename", <<<<"name", "tool">>, "other", <<"newest", 0>>>>),
     Line("rename", <<All, "none">>)}

(* No line here renames a rollback archive, nor anything to its name.      *)
ASSUME LinesAssumption == RenamesRoots

(* One thing in all goes wrong: an edit, a failure or a crash.             *)
OneTrouble ==
    budget'.edits + budget'.crashes + budget'.faults
        >= MaxEdits + MaxCrashes + MaxFaults - 1

TroubledSpec == CInit /\ [][CNext /\ OneTrouble]_allvars
=============================================================================
