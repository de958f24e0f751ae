------------------------- MODULE PreparationJournal -------------------------
(***************************************************************************)
(* The pure layer of candidate preparation, internal/plan/preparation.go:  *)
(* preparation plans, the write-ahead journal of one candidate, and the    *)
(* ownership snapshot of shared host resources.  Every operator here is a  *)
(* function of its arguments: "CanX" holds when the Go method X returns no *)
(* error and "X" is the value it returns.                                  *)
(*                                                                         *)
(* Mutation ids are the positions 1..Len(plan.prepare); the code rejects   *)
(* duplicate ids and any order but the plan's, so a position says as much. *)
(* The confirmed prefix is its length.  The confirmed compensations, which *)
(* the code keeps as a list it forces to be strictly descending, are a set.*)
(***************************************************************************)
EXTENDS Integers, Sequences, FiniteSets

CONSTANTS Resources,    \* identities of shared host resources
          Dependents    \* tool identities that may claim a resource

Ownership == {"external", "depengine"}

Mutation ==
  {m \in [res : Resources, own : Ownership, policy : {"safe", "retain_report"}] :
     m.policy = "safe" => m.own = "depengine"}

Use == [res : Resources, created : BOOLEAN]

DistinctUses(uses) == \A u, v \in uses : u.res = v.res => u = v

Plan == [prepare : Seq(Mutation), uses : SUBSET Use]

\* No two mutations of a plan target one resource, and no two commit uses do.
ValidPlan(p) ==
  /\ p \in Plan
  /\ \A i, k \in 1..Len(p.prepare) : p.prepare[i].res = p.prepare[k].res => i = k
  /\ DistinctUses(p.uses)

NoPlan == [prepare |-> <<>>, uses |-> {}]

(***************************************************************************)
(* Ownership snapshot.  "none" stands for the absence of a record.         *)
(***************************************************************************)
OwnedState == [own : Ownership \cup {"none"}, deps : SUBSET Dependents]

Snapshot == {o \in [Resources -> OwnedState] :
               \A r \in Resources : o[r].own = "none" => o[r].deps = {}}

NoneOwned == [r \in Resources |-> [own |-> "none", deps |-> {}]]

\* A resource the operation created or re-created becomes depengine's own.
TrackOne(s, created) ==
  IF s.own = "depengine" THEN s
  ELSE [s EXCEPT !.own = IF created THEN "depengine" ELSE "external"]

\* Resources some use names, and those a use says the operation created.
UsedBy(uses)    == {u.res : u \in uses}
CreatedBy(uses) == {u.res : u \in {v \in uses : v.created}}

TrackResourceUses(o, uses) ==
  [r \in Resources |->
     IF r \in UsedBy(uses) THEN TrackOne(o[r], r \in CreatedBy(uses)) ELSE o[r]]

ClaimResource(s, d) == [s EXCEPT !.deps = @ \cup {d}]

\* Mutant: dependents are added to resources nobody tracked.
ClaimUntracked(o, d, uses) ==
  [r \in Resources |-> IF r \in UsedBy(uses) THEN ClaimResource(o[r], d) ELSE o[r]]

ClaimResourceUses(o, d, uses) ==
  LET tracked == TrackResourceUses(o, uses) IN
  [r \in Resources |->
     IF r \in UsedBy(uses) THEN ClaimResource(tracked[r], d) ELSE tracked[r]]

(***************************************************************************)
(* The journal.  Status "none" means that no journal is persisted.         *)
(***************************************************************************)
OpenStatus   == {"pending", "applying", "preparing", "ready"}
ActiveStatus == OpenStatus \cup {"committing", "rolling_back"}

Journal == [status : ActiveStatus \cup {"none"}, applied : Nat, applying : Nat,
            undone : SUBSET Nat, undoing : Nat]

NoJournal  == [status |-> "none", applied |-> 0, applying |-> 0,
               undone |-> {}, undoing |-> 0]
NewJournal == [NoJournal EXCEPT !.status = "pending"]

\* PreparationJournal.ValidateShape and Validate.
ValidJournal(j, p) ==
  LET n == Len(p.prepare) IN
  /\ j \in Journal
  /\ j.applied <= n
  /\ j.status # "rolling_back" => j.undone = {} /\ j.undoing = 0
  /\ \A i \in j.undone : i \in 1..j.applied /\ p.prepare[i].policy = "safe"
  /\ j.undoing # 0 => /\ j.undoing \in 1..j.applied
                      /\ p.prepare[j.undoing].policy = "safe"
                      /\ \A i \in j.undone : j.undoing < i
  /\ j.status # "applying" => j.applying = 0
  /\ j.status \in {"none", "pending"} => j.applied = 0
  /\ j.status = "applying"  => j.applied < n /\ j.applying = j.applied + 1
  /\ j.status = "preparing" => j.applied > 0 /\ j.applied < n
  /\ j.status \in {"ready", "committing"} => j.applied = n

(***************************************************************************)
(* Preparation and commit transitions.                                     *)
(***************************************************************************)
CanPlanApply(j, p) == /\ j.status \in {"pending", "preparing"}
                      /\ j.applied < Len(p.prepare)

PlanApply(j) == [j EXCEPT !.status = "applying", !.applying = j.applied + 1]

CanRecordApplied(j) == j.status = "applying"

RecordApplied(j, p) ==
  [j EXCEPT !.applied = @ + 1, !.applying = 0,
            !.status = IF j.applied + 1 = Len(p.prepare) THEN "ready" ELSE "preparing"]

\* Mutant: an add that did not happen leaves the journal applying.
ResolveKeepsApplying(j, p, outcome) ==
  IF outcome = "applied" THEN RecordApplied(j, p) ELSE [j EXCEPT !.applying = 0]

ResolveApplying(j, p, outcome) ==
  IF outcome = "applied" THEN RecordApplied(j, p)
  ELSE [j EXCEPT !.applying = 0,
                 !.status = IF j.applied = 0 THEN "pending" ELSE "preparing"]

CanPlanCommit(j, p) == \/ j.status = "ready"
                       \/ Len(p.prepare) = 0 /\ j.status = "pending"

PlanCommit(j) == [j EXCEPT !.status = "committing"]

ResolveCommitNotApplied(j) == [j EXCEPT !.status = "ready"]

Mutations(p) == {p.prepare[i] : i \in 1..Len(p.prepare)}

\* Mutant: the recorded owner is not compared with the plan's.
CanFinalizeUnchecked(j, p, o) == j.status = "committing"

\* Every prepared resource with a record has the ownership the plan declares.
CanFinalizeCommit(j, p, o) ==
  /\ j.status = "committing"
  /\ \A m \in Mutations(p) : o[m.res].own \in {"none", m.own}

\* Mutant: the commit records who owns the prepared resources, not who needs them.
FinalizeWithoutClaim(p, o, d) ==
  [r \in Resources |->
     LET ms == {m \in Mutations(p) : m.res = r} IN
     IF ms = {} THEN o[r] ELSE [o[r] EXCEPT !.own = (CHOOSE m \in ms : TRUE).own]]

FinalizeCommit(p, o, d) ==
  [r \in Resources |->
     LET ms == {m \in Mutations(p) : m.res = r} IN
     IF ms = {} THEN o[r]
     ELSE ClaimResource([o[r] EXCEPT !.own = (CHOOSE m \in ms : TRUE).own], d)]

(***************************************************************************)
(* Rollback.                                                               *)
(***************************************************************************)
Safe(p, i) == p.prepare[i].policy = "safe"

\* rollbackStepsFor fails as a whole when one safe resource changed owner.
OwnershipConflict(j, p, o) ==
  \E i \in 1..j.applied : Safe(p, i) /\ o[p.prepare[i].res].own \notin {"none", p.prepare[i].own}

\* Mutant: claims by other tools are not looked at.
RollbackStepsIgnoringClaims(j, p, o) == {i \in 1..j.applied : Safe(p, i)}

\* The applied mutations to compensate, in descending order of position.
RollbackSteps(j, p, o) == {i \in 1..j.applied : Safe(p, i) /\ o[p.prepare[i].res].deps = {}}

Retained(j, p, o) == (1..j.applied) \ RollbackSteps(j, p, o)

\* Mutant: confirmed compensations are not compared with the decision.
DonePrefixUnchecked(done, steps) == TRUE

\* The confirmed compensations are the first ones of the current decision.
DonePrefix(done, steps) == done \subseteq steps /\ \A i \in steps \ done, k \in done : i < k

CanRemainingRollback(j, p, o) ==
  /\ ~OwnershipConflict(j, p, o)
  /\ DonePrefix(j.undone, RollbackSteps(j, p, o))

Remaining(j, p, o) == RollbackSteps(j, p, o) \ j.undone

Highest(S) == CHOOSE i \in S : \A k \in S : k <= i

CanPlanRollback(j, p, o) ==
  /\ j.status \in {"pending", "preparing", "ready"}
  /\ ~OwnershipConflict(j, p, o)

PlanRollback(j) == [j EXCEPT !.status = "rolling_back", !.undone = {}, !.undoing = 0]

CanPlanRollbackApply(j, p, o) ==
  /\ j.status = "rolling_back"
  /\ j.undoing = 0
  /\ CanRemainingRollback(j, p, o)
  /\ Remaining(j, p, o) # {}

PlanRollbackApply(j, p, o) == [j EXCEPT !.undoing = Highest(Remaining(j, p, o))]

\* The step in flight must still be the next one of the current decision.
CanRecordRollbackApplied(j, p, o) ==
  /\ j.status = "rolling_back"
  /\ j.undoing # 0
  /\ ~OwnershipConflict(j, p, o)
  /\ LET steps == RollbackSteps(j, p, o) IN
       /\ j.undoing \in steps
       /\ Cardinality({i \in steps : i > j.undoing}) = Cardinality(j.undone)

\* Mutant: the confirmed compensation is not kept.
RecordWithoutTrace(j) == [j EXCEPT !.undoing = 0]

RecordRollbackApplied(j) == [j EXCEPT !.undone = @ \cup {j.undoing}, !.undoing = 0]

CanResolveRollbackApplying(j, p, o, outcome) ==
  /\ j.status = "rolling_back"
  /\ j.undoing # 0
  /\ outcome = "applied" => CanRecordRollbackApplied(j, p, o)

\* Mutant: the meaning of the probe is the one it has for an add.
ResolveRollbackSwapped(j, outcome) ==
  IF outcome = "not_applied" THEN RecordRollbackApplied(j) ELSE [j EXCEPT !.undoing = 0]

\* Mutant: a removal that did not happen stays in flight.
ResolveRollbackStuck(j, outcome) ==
  IF outcome = "applied" THEN RecordRollbackApplied(j) ELSE j

ResolveRollbackApplying(j, outcome) ==
  IF outcome = "applied" THEN RecordRollbackApplied(j) ELSE [j EXCEPT !.undoing = 0]

CanFinalizeRollback(j, p, o) ==
  /\ j.status = "rolling_back"
  /\ j.undoing = 0
  /\ CanRemainingRollback(j, p, o)
  /\ Remaining(j, p, o) = {}
  /\ \A i \in Retained(j, p, o) : o[p.prepare[i].res].own \in {"none", p.prepare[i].own}

\* Mutant: retained resources get no record.
FinalizeRollbackForgets(j, p, o) == o

\* A retained resource without a record gets one with no dependents.
FinalizeRollback(j, p, o) ==
  [r \in Resources |->
     LET kept == {i \in Retained(j, p, o) : p.prepare[i].res = r} IN
     IF kept # {} /\ o[r].own = "none"
     THEN [o[r] EXCEPT !.own = p.prepare[CHOOSE i \in kept : TRUE].own]
     ELSE o[r]]

(***************************************************************************)
(* RecoveryFor: the one next step for a persisted journal.  "satisfied" is *)
(* the reconciled state of the committing target.                          *)
(***************************************************************************)
RecoveryFor(j, p, o, satisfied) ==
  CASE j.status \in {"pending", "preparing", "ready"} ->
         IF OwnershipConflict(j, p, o) THEN "error" ELSE "rollback"
    [] j.status = "applying"     -> "blocked"
    [] j.status = "committing"   -> IF satisfied THEN "finalize" ELSE "blocked"
    [] j.status = "rolling_back" ->
         IF j.undoing # 0 THEN "blocked"
         ELSE IF CanRemainingRollback(j, p, o) THEN "resume" ELSE "error"
    [] OTHER -> "error"
=============================================================================
