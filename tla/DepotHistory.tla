---------------------------- MODULE DepotHistory ----------------------------
(***************************************************************************)
(* The depot with two history variables, so that properties can speak of   *)
(* the file system as it was: before anything was installed, and before    *)
(* the installation that nothing has followed but its own uninstallation.  *)
(***************************************************************************)
EXTENDS Depot

VARIABLES
    base,   \* the root file system before the first command
    undo    \* the last installation: its archive and the tree it found

hvars == <<vars, base, undo>>

NoUndo == [serial |-> 0, tree |-> EmptyTree]

HInit == Init /\ base = fs /\ undo = NoUndo

Installs  == nextSerial' # nextSerial
Disturbs  == \/ budget'.edits # budget.edits
             \/ pc = "idle" /\ pc' = "deactivate" /\ cur' # undo.serial

Record == /\ base' = base
          /\ undo' = IF Installs THEN [serial |-> cur', tree |-> fs]
                     ELSE IF Disturbs THEN NoUndo ELSE undo

HNext == Next /\ Record
HSpec == HInit /\ [][HNext]_hvars
HFairSpec == HSpec /\ WF_hvars((InstallStep \/ UninstallStep \/ Failure) /\ Record)
-----------------------------------------------------------------------------
NoRoots == \A s \in Serials : ~IsRoot(s)

(* NOTES, design goal: once every root is uninstalled, in whatever order,  *)
(* the system is back in the state it had before the first one.            *)
OriginalRestored == pc = "idle" /\ NoRoots => fs = base

(* Installing a root and uninstalling it again, with nothing in between,   *)
(* is the identity on the file system, user changes made before included;  *)
(* so is an installation that fails and is rolled back.                    *)
UninstallUndoesInstall ==
    pc = "prune" /\ cur = undo.serial => fs = undo.tree
-----------------------------------------------------------------------------
(***************************************************************************)
(* The depot as a stack of layers: the rows of an archive are a layer from *)
(* the commit of its installation until its uninstallation has begun to    *)
(* take its files away.                                                    *)
(***************************************************************************)
Leaving(s) == cur = s /\ pc \in {"uninstall", "remove", "prune"}

LayerOf(s) == [p \in Paths |-> IF files[s][p] = None THEN Absent
                               ELSE files[s][p].node]

Layered == INSTANCE RootStack WITH
    Layers <- Serials, view <- fs,
    stack <- [s \in Serials |-> IF IsRoot(s) /\ ~Leaving(s)
                                THEN LayerOf(s) ELSE None]

(* The depot implements the stack of layers, its progress included.        *)
ImplementsRootStack == Layered!Spec
=============================================================================
