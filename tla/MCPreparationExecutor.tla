------------------------ MODULE MCPreparationExecutor ------------------------
(***************************************************************************)
(* Instances of PreparationExecutor.  Tool a is a root, d its prerequisite, *)
(* src1 and src2 are package sources: a has both, or they share the first. *)
(***************************************************************************)
EXTENDS PreparationRefinement

CONSTANTS p1, p2, a, d, src1, src2

PairTools     == {a, d}
PairResources == {a, d, src1, src2}
PairSources   == (a :> <<src1, src2>> @@ d :> <<>>)
PairRequires  == (a :> {d} @@ d :> {})

SharedTools     == {a, d}
SharedResources == {a, d, src1}
SharedSources   == (a :> <<src1>> @@ d :> <<src1>>)
SharedRequires  == (a :> {d} @@ d :> {})
=============================================================================
