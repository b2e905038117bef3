----------------------------- MODULE MCXrefDeps -----------------------------
(* Values for the constants of XrefDeps, for TLC. *)
EXTENDS XrefDeps, TLC

CONSTANTS A, B, lib, tool, bad

ToolLinks == [f \in Paths |-> IF f = tool THEN <<lib>> ELSE <<>>]

(* DSTROOTs and traces. *)
SomeRoots  == {<<lib>>, <<lib, tool>>, <<tool, bad>>}
SmallRoots == {<<lib>>, <<tool>>}
SomeTraces == {<<lib>>, <<lib, tool>>}
LibTrace   == {<<lib>>}

(* What earlier commands left. *)
Empty    == [files |-> {}, unresolved |-> {}, dependencies |-> {}, property |-> {}]
Queued   == [Empty EXCEPT !.files = {<<B, lib>>}, !.unresolved = {<<A, lib>>}]
Resolved == [Empty EXCEPT !.files = {<<B, lib>>, <<B, tool>>},
                          !.unresolved = {<<A, tool>>},
                          !.property = {<<A, B>>}]
Started  == {Empty}
Used     == {Queued, Resolved}
=============================================================================
