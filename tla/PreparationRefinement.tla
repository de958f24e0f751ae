------------------------ MODULE PreparationRefinement ------------------------
(***************************************************************************)
(* The executor implements the state layer's promise for each tool.  The   *)
(* lock holder's copy of the state is the abstract state: a save that      *)
(* failed after publishing is seen abstractly when the copy is dropped.    *)
(***************************************************************************)
EXTENDS PreparationExecutor, TLC

PlansOf(t) ==
  {[prepare |-> PreparedBy(m), uses |-> {}] :
     m \in {f \in UNION {[1..n -> ConfiguredSet(t)] : n \in 0..Len(Configured[t])} :
              InOrder(f, t, {f[i] : i \in DOMAIN f})}}

Lifecycle(t) == INSTANCE PreparationLifecycle WITH
  Owner    <- t,
  Plans    <- PlansOf(t),
  journal  <- mem.journals[t],
  plan     <- mem.plans[t],
  owned    <- mem.owned,
  recorded <- t \in mem.tools

\* Whatever processes, attempts, failed saves and crashes do, the journal, the
\* plan, the ownership snapshot and the record of each tool move only as the
\* state layer's operations allow.
ImplementsLifecycle ==
  /\ \A t \in Tools : Lifecycle(t)!StateInit
  /\ [][\A t \in Tools : [Lifecycle(t)!StateNext]_(Lifecycle(t)!stateVars)]_vars
=============================================================================
