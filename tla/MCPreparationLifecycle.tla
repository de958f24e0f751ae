----------------------- MODULE MCPreparationLifecycle -----------------------
(***************************************************************************)
(* PreparationLifecycle on two shared resources and two tools.  The plans  *)
(* prepare none, one or both resources, with every ownership and rollback  *)
(* policy a mutation may declare.                                          *)
(***************************************************************************)
EXTENDS PreparationLifecycle

CONSTANTS r1, r2, a, b

MCResources  == {r1, r2}
MCDependents == {a, b}

Safely(r)   == [res |-> r, own |-> "depengine", policy |-> "safe"]
Retained1   == [res |-> r1, own |-> "depengine", policy |-> "retain_report"]
Foreign1    == [res |-> r1, own |-> "external", policy |-> "retain_report"]

MCPlans ==
  {[prepare |-> s, uses |-> {}] :
     s \in {<<>>, <<Safely(r1)>>, <<Safely(r1), Safely(r2)>>,
            <<Retained1, Safely(r2)>>, <<Foreign1, Safely(r2)>>}}
=============================================================================
