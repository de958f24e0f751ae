------------------------ MODULE PreparationLifecycle ------------------------
(***************************************************************************)
(* The state layer's promise about one candidate, internal/state:          *)
(* LockedState.BeginPreparation ... FinalizePreparationRollback, each one  *)
(* durable step over the journal, its exact plan, the ownership snapshot   *)
(* and the tool records.  There is no host and no process here: whoever    *)
(* holds the state lock may call any operation whose conditions hold, and  *)
(* the other holders of the lock change the shared ownership snapshot      *)
(* between two calls.  The executor is shown to implement this module.     *)
(***************************************************************************)
EXTENDS PreparationJournal

CONSTANTS Owner,    \* the tool whose candidate is being prepared
          Plans     \* the plans a candidate may begin with

ASSUME OwnerAssumption == Owner \in Dependents
ASSUME PlansAssumption == \A p \in Plans : ValidPlan(p) /\ p.uses = {}

VARIABLES journal,  \* PreparationJournals[key]
          plan,     \* PreparationPlans[key]
          owned,    \* OwnedResources
          recorded  \* Owner has an entry in Tools

stateVars == <<journal, plan, owned, recorded>>

TypeOK ==
  /\ journal \in Journal
  /\ plan \in Plan
  /\ owned \in Snapshot
  /\ recorded \in BOOLEAN

StateInit ==
  /\ journal = NoJournal
  /\ plan = NoPlan
  /\ owned = NoneOwned
  /\ recorded = FALSE

-----------------------------------------------------------------------------
BeginPreparation(p) ==
  /\ journal.status = "none"
  /\ journal' = NewJournal
  /\ plan' = p
  /\ UNCHANGED <<owned, recorded>>

PlanPreparationApply ==
  /\ CanPlanApply(journal, plan)
  /\ journal' = PlanApply(journal)
  /\ UNCHANGED <<plan, owned, recorded>>

RecordPreparationApplied ==
  /\ CanRecordApplied(journal)
  /\ journal' = RecordApplied(journal, plan)
  /\ UNCHANGED <<plan, owned, recorded>>

ResolvePreparationApplying(outcome) ==
  /\ CanRecordApplied(journal)
  /\ journal' = ResolveApplying(journal, plan, outcome)
  /\ UNCHANGED <<plan, owned, recorded>>

PlanPreparationCommitWithUses(uses) ==
  /\ CanPlanCommit(journal, plan)
  /\ ValidPlan([plan EXCEPT !.uses = uses])
  /\ journal' = PlanCommit(journal)
  /\ plan' = [plan EXCEPT !.uses = uses]
  /\ UNCHANGED <<owned, recorded>>

ResolvePreparationCommitNotApplied ==
  /\ journal.status = "committing"
  /\ journal' = ResolveCommitNotApplied(journal)
  /\ UNCHANGED <<plan, owned, recorded>>

\* One save closes the journal, records the tool and claims its resources.
FinalizePreparationCommitWithTool(tracked) ==
  /\ CanFinalizeCommit(journal, plan, owned)
  /\ DistinctUses(tracked)
  /\ journal' = NoJournal
  /\ plan' = NoPlan
  /\ owned' = TrackResourceUses(
                ClaimResourceUses(FinalizeCommit(plan, owned, Owner), Owner, plan.uses),
                tracked)
  /\ recorded' = TRUE

PlanPreparationRollback ==
  /\ CanPlanRollback(journal, plan, owned)
  /\ journal' = PlanRollback(journal)
  /\ UNCHANGED <<plan, owned, recorded>>

PlanPreparationRollbackApply ==
  /\ CanPlanRollbackApply(journal, plan, owned)
  /\ journal' = PlanRollbackApply(journal, plan, owned)
  /\ UNCHANGED <<plan, owned, recorded>>

RecordPreparationRollbackApplied ==
  /\ CanRecordRollbackApplied(journal, plan, owned)
  /\ journal' = RecordRollbackApplied(journal)
  /\ UNCHANGED <<plan, owned, recorded>>

ResolvePreparationRollbackApplying(outcome) ==
  /\ CanResolveRollbackApplying(journal, plan, owned, outcome)
  /\ journal' = ResolveRollbackApplying(journal, outcome)
  /\ UNCHANGED <<plan, owned, recorded>>

FinalizePreparationRollback ==
  /\ CanFinalizeRollback(journal, plan, owned)
  /\ journal' = NoJournal
  /\ plan' = NoPlan
  /\ owned' = FinalizeRollback(journal, plan, owned)
  /\ UNCHANGED recorded

-----------------------------------------------------------------------------
(***************************************************************************)
(* The other holders of the lock: another candidate's commit or rollback   *)
(* and a run's final writeState (which may also record and claim for       *)
(* Owner) only ever add to the snapshot; the removal of a tool releases    *)
(* its claims and drops the zero-reference resources it cleaned up; undo   *)
(* and forget touch the tool records alone.                                *)
(***************************************************************************)

\* One record after others tracked, claimed or retained the resource.
Grown(before, after) ==
  /\ before.deps \subseteq after.deps
  /\ before.own \in {"none", after.own} \/ (before.own = "external" /\ after.own = "depengine")

ClaimByOthers ==
  /\ owned' \in Snapshot
  /\ \A r \in Resources : Grown(owned[r], owned'[r])
  /\ recorded' \in {recorded, TRUE}
  /\ \A r \in Resources : Owner \in owned'[r].deps \ owned[r].deps => recorded'
  /\ UNCHANGED <<journal, plan>>

\* depengine remove releases the claims of the tool with its record.
ReleaseDependentResources(d) ==
  /\ owned' = [r \in Resources |-> [owned[r] EXCEPT !.deps = @ \ {d}]]
  /\ recorded' = (recorded /\ d # Owner)
  /\ UNCHANGED <<journal, plan>>

FinalizeReleasedResource(r) ==
  /\ owned[r] = [own |-> "depengine", deps |-> {}]
  /\ owned' = [owned EXCEPT ![r].own = "none"]
  /\ UNCHANGED <<journal, plan, recorded>>

\* depengine forget and undo rewrite the tool records and leave the claims.
RewriteTools ==
  /\ recorded' \in BOOLEAN
  /\ UNCHANGED <<journal, plan, owned>>

StateNext ==
  \/ \E p \in Plans : BeginPreparation(p)
  \/ PlanPreparationApply
  \/ RecordPreparationApplied
  \/ \E outcome \in {"applied", "not_applied"} : ResolvePreparationApplying(outcome)
  \/ \E uses \in SUBSET Use : PlanPreparationCommitWithUses(uses)
  \/ ResolvePreparationCommitNotApplied
  \/ \E tracked \in SUBSET Use : FinalizePreparationCommitWithTool(tracked)
  \/ PlanPreparationRollback
  \/ PlanPreparationRollbackApply
  \/ RecordPreparationRollbackApplied
  \/ \E outcome \in {"applied", "not_applied"} : ResolvePreparationRollbackApplying(outcome)
  \/ FinalizePreparationRollback
  \/ ClaimByOthers
  \/ \E d \in Dependents : ReleaseDependentResources(d)
  \/ \E r \in Resources : FinalizeReleasedResource(r)
  \/ RewriteTools

StateSpec == StateInit /\ [][StateNext]_stateVars

-----------------------------------------------------------------------------
\* A persisted journal always passes the validation that a restart applies to
\* it, and a plan is persisted exactly when its journal is: whatever order the
\* calls come in and whatever the other holders do, recovery can read the file.
JournalValid ==
  /\ ValidPlan(plan)
  /\ ValidJournal(journal, plan)
  /\ journal.status = "none" => plan = NoPlan
  /\ journal.status \notin {"none", "committing", "ready", "rolling_back"} => plan.uses = {}

\* A resource depengine owns and some tool needs never loses its record and
\* never turns external, whichever candidate commits or rolls back: a later
\* cleanup could not tell it from something the user put on the host.
OwnershipNeverLost ==
  [][\A r \in Resources : owned[r].own = "depengine" /\ owned[r].deps # {}
       => owned'[r].own = "depengine"]_stateVars

\* FinalizeRollback forgets nothing: when the journal closes, every mutation
\* that was applied has been compensated or its resource keeps a record.
RollbackForgetsNothing ==
  [][journal.status = "rolling_back" /\ journal'.status = "none" =>
       \A i \in 1..journal.applied :
         i \in journal.undone \/ owned'[plan.prepare[i].res].own # "none"]_stateVars

\* A rollback never closes over a claim on something it removed: when another
\* tool claimed the resource meanwhile, the journal must stay open.
CompensatedStaysUnclaimed ==
  [][journal.status = "rolling_back" /\ journal'.status = "none" =>
       \A i \in journal.undone : owned'[plan.prepare[i].res].deps = {}]_stateVars

\* Closing a commit records the tool and claims, in the same step, everything
\* that was prepared, with the ownership the plan declared, and every use.
CommitClaimsEverything ==
  [][journal.status = "committing" /\ journal'.status = "none" =>
       /\ recorded'
       /\ \A m \in Mutations(plan) : owned'[m.res].own \in {m.own, "depengine"} /\ Owner \in owned'[m.res].deps
       /\ \A u \in plan.uses : Owner \in owned'[u.res].deps]_stateVars
=============================================================================
