------------------------------ MODULE FileRows ------------------------------
(***************************************************************************)
(* The rows darwinup keeps in the "files" table and the pure functions the *)
(* depot computes with them: File::compare, the searches for the row that  *)
(* precedes or supersedes a row, and the three-way comparison that         *)
(* Depot::analyze_stage makes of each file of a root.                      *)
(*                                                                         *)
(* Every object is a regular file directly below the destination prefix,   *)
(* with a content (what the SHA-1 digest distinguishes) and a meta value   *)
(* that stands for the permissions and the two owners together.  A path is *)
(* a number: the database returns the files of an archive ordered by path. *)
(***************************************************************************)
EXTENDS Integers, FiniteSetsExt

CONSTANTS
    Paths,      \* the paths, ordered as the database orders them
    Data,       \* contents of files
    Meta,       \* permissions and owners
    MaxSerial,  \* bound on the serial numbers the archives table hands out
    Absent,     \* a path where nothing exists (class NoEntry)
    None        \* no row, no directory, no tarball

ASSUME PathsAssumption == Paths \subseteq Nat
ASSUME MaxSerialAssumption == MaxSerial \in Nat

Node    == [data : Data, meta : Meta]
ASSUME AbsentAssumption == Absent \notin Node

Entry   == Node \cup {Absent}
Tree    == [Paths -> Entry]
Serials == 1..MaxSerial

(* The FILE_INFO flags of a row. *)
Flag    == {"BASE_SYSTEM", "NO_ENTRY", "INSTALL_DATA", "ROLLBACK_DATA"}
FileRow == [flags : SUBSET Flag, node : Entry]
FileTab == [Serials -> [Paths -> FileRow \cup {None}]]
ASSUME NoneAssumption == None \notin FileRow \cup Tree

NoFiles == [p \in Paths |-> None]

(* Paths with a row in archive s; the list Depot::iterate_files walks. *)
PathsOf(files, s) == {p \in Paths : files[s][p] # None}

(***************************************************************************)
(* File::compare: which of content and meta differ.  A file and a missing  *)
(* one differ in everything.                                               *)
(***************************************************************************)
Compare(a, b) ==
    IF a = b THEN {}
    ELSE IF Absent \in {a, b} THEN {"TYPE", "DATA", "META"}
    ELSE {d \in {"DATA", "META"} : \/ d = "DATA" /\ a.data # b.data
                                   \/ d = "META" /\ a.meta # b.meta}

DataDiffers(diff) == diff \cap {"TYPE", "DATA"} # {}

(***************************************************************************)
(* DarwinupDatabase::get_next_file.  Rows of rollback archives and of      *)
(* archives that are not active count as much as any other.  An empty set  *)
(* of candidates is the NULL the code tests for.                           *)
(***************************************************************************)
(* Mutated forms: the row itself precedes it; nothing supersedes a row.    *)
BelowOrAt(files, s, p)       == {t \in Serials : t <= s /\ files[t][p] # None}
NeverSuperseded(files, s, p) == FALSE

Below(files, s, p)      == {t \in Serials : t < s /\ files[t][p] # None}
Above(files, s, p)      == {t \in Serials : t > s /\ files[t][p] # None}
IsPreceded(files, s, p) == Below(files, s, p) # {}
Preceding(files, s, p)  == Max(Below(files, s, p))
IsSuperseded(files, s, p) == Above(files, s, p) # {}

(***************************************************************************)
(* Depot::analyze_stage for one staged file, before archive s has a row    *)
(* for it: "staged" is the file of the root, "actual" what the root file   *)
(* system holds.                                                           *)
(***************************************************************************)
PrecedingEntry(files, s, p, actual) ==
    IF IsPreceded(files, s, p) THEN files[Preceding(files, s, p)][p].node
                               ELSE actual

UserChanged(files, s, p, actual) ==
    Compare(actual, PrecedingEntry(files, s, p, actual))

(* Mutated forms: user data is not marked for backup; a file is installed  *)
(* only where the depot has no row; user changes get no rollback row.      *)
BaseFlagsOnly(files, s, p, actual, staged) ==
    {f \in {"BASE_SYSTEM", "NO_ENTRY", "ROLLBACK_DATA"} :
        \/ f = "BASE_SYSTEM" /\ ~IsPreceded(files, s, p)
        \/ f = "NO_ENTRY"    /\ actual = Absent
        \/ f = "ROLLBACK_DATA" /\ actual # Absent /\ ~IsPreceded(files, s, p)}
InstallNewOnly(files, s, p, actual, staged) ==
    {f \in {"INSTALL_DATA"} : ~IsPreceded(files, s, p)}
BaseRowsOnly(files, s, p, actual, staged) == ~IsPreceded(files, s, p)

ActualFlags(files, s, p, actual, staged) ==
    {f \in {"BASE_SYSTEM", "NO_ENTRY", "ROLLBACK_DATA"} :
        \/ f = "BASE_SYSTEM" /\ ~IsPreceded(files, s, p)
        \/ f = "NO_ENTRY"    /\ actual = Absent
        \/ /\ f = "ROLLBACK_DATA"
           /\ actual # Absent
           /\ \/ ~IsPreceded(files, s, p)
              \/ /\ DataDiffers(Compare(staged, actual))
                 /\ DataDiffers(UserChanged(files, s, p, actual))}

StagedFlags(files, s, p, actual, staged) ==
    {f \in {"INSTALL_DATA"} :
        \/ DataDiffers(Compare(staged, actual))
        \/ ~IsPreceded(files, s, p) /\ actual # Absent}

NeedsRollbackRow(files, s, p, actual, staged) ==
    \/ UserChanged(files, s, p, actual) # {}
    \/ ActualFlags(files, s, p, actual, staged)
           \cap {"BASE_SYSTEM", "ROLLBACK_DATA"} # {}

RollbackRow(files, s, p, actual, staged) ==
    [flags |-> ActualFlags(files, s, p, actual, staged), node |-> actual]

StagedRow(files, s, p, actual, staged) ==
    [flags |-> StagedFlags(files, s, p, actual, staged), node |-> staged]
=============================================================================
