------------------------------ MODULE MCRemoval ------------------------------
(***************************************************************************)
(* A tool with two helpers, one of which needs the other, and a source the *)
(* tool and its first helper share.                                        *)
(***************************************************************************)
EXTENDS Removal

CONSTANTS a, h, k, s

AllTools   == {a, h, k}
AllSources == {s}
Chain      == a :> {h, k} @@ h :> {k} @@ k :> {}
SourceOf   == a :> {s} @@ h :> {s} @@ k :> {}
=============================================================================
