------------------------------ MODULE MCDepot -------------------------------
(* Values for the constants of the depot, for TLC. *)
EXTENDS DepotHistory

CONSTANTS d0, d1, d2, d3, m0, m1

File(d, m) == [data |-> d, meta |-> m]

AllTrees(entries) == [Paths -> entries]
Nonempty(trees)   == {t \in trees : \E p \in Paths : t[p] # Absent}

(* Roots that differ in content only, over a base system of another one.   *)
PlainBase  == AllTrees({File(d0, m0), Absent})
PlainRoots == Nonempty(AllTrees({File(d0, m0), File(d1, m0), Absent}))
NoEntries  == {}

(* Roots over a base system they differ from in mode or content.           *)
ModeRoots  == {[p \in Paths |-> IF p = 1 THEN e ELSE g] :
                  e \in {File(d0, m0), File(d0, m1), File(d1, m0), Absent},
                  g \in {File(d1, m0), Absent}} \ {[p \in Paths |-> Absent]}

(* Two different roots. *)
TwoRoots   == Nonempty(AllTrees({File(d1, m0), File(d2, m0)}))
FewRoots   == {[p \in Paths |-> File(d1, m0)],
               [p \in Paths |-> IF p = 1 THEN File(d2, m0) ELSE Absent]}
FewBases   == {[p \in Paths |-> IF p = 1 THEN File(d0, m0) ELSE Absent]}
AnyData    == {File(d, m0) : d \in Data} \cup {Absent}

(* What users put in place of a file: the content of a root, of the base   *)
(* system or their own, the first two with other permissions too.          *)
AnyFile    == AnyData \cup {File(d, m1) : d \in {d0, d1}}

(***************************************************************************)
(* An operator who, once a command was interrupted, installs nothing       *)
(* before the depot is empty, and uninstalls the newest root first, as     *)
(* "darwinup uninstall all" does; system calls that fail during            *)
(* installations only.                                                     *)
(***************************************************************************)
Interrupted   == budget.crashes < MaxCrashes \/ budget.faults < MaxFaults
NewestFirst   == pc = "idle" /\ pc' = "deactivate" =>
                     \A s \in Serials : IsRoot(s) => s <= cur'
Recovering    == Interrupted => ~Installs
InstallFaults == budget'.faults # budget.faults => pc # "uninstall"

CarefulSpec == HInit /\ [][/\ HNext /\ InstallFaults /\ Recovering
                           /\ Interrupted => NewestFirst]_hvars
=============================================================================
