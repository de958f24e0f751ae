---------------------------- MODULE MCReplacement ----------------------------
(***************************************************************************)
(* Instances of Replacement: three versions of one package, or a package   *)
(* that was renamed between v1 and v2 with v3 another version of the new   *)
(* one.  v1 needs the source old, v2 and v3 the source new.                *)
(***************************************************************************)
EXTENDS Replacement, TLC

CONSTANTS p1, p2, v1, v2, v3, old, new, tool, renamed

TwoVersions == {v1, v2}
AllVersions == {v1, v2, v3}

OnePackage == [v \in Versions |-> tool]
Renamed    == [v \in Versions |-> IF v = v1 THEN tool ELSE renamed]

OwnSources == [v \in Versions |-> IF v = v1 THEN {old} ELSE {new}]
=============================================================================
