----------------------------- MODULE MCDepotOpen ----------------------------
(* Values for the constants of DepotOpen, for TLC. *)
EXTENDS DepotOpen, TLC

CONSTANTS r1, r2

Version0 == [EmptyFile EXCEPT !.rows = {r1},
                !.tables = [OfVersion(0) EXCEPT !["database_information"] = {}]]
Version1 == [tables |-> OfVersion(1), version |-> 1, rows |-> {r1}]
Version2 == [Version1 EXCEPT !.version = 2]

NoDepot == {None}
AnyDb   == {None, Version0, Version1, Version2}
=============================================================================
