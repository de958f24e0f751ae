------------------------- MODULE PreparationProofs -------------------------
(***************************************************************************)
(* Transactional preparation: the lemmas about the pure layer              *)
(* (PreparationJournal), the theorems of the state layer's promise         *)
(* (PreparationLifecycle) for every set of resources and tools and every   *)
(* family of plans, and those of the executor that implements it for any   *)
(* number of processes, any tools, sources and prerequisites, any faults   *)
(* and any number of them.                                                 *)
(***************************************************************************)
EXTENDS PreparationLifecycle, PreparationRefinement, FiniteSetTheorems, WellFoundedInduction, TLAPS

(***************************************************************************)
(* Lemmas about the ownership snapshot.                                    *)
(***************************************************************************)

\* A snapshot gives each resource a state, and no claims without a record.
LEMMA SnapshotMembers ==
  ASSUME NEW o
  PROVE  o \in Snapshot <=> /\ o \in [Resources -> OwnedState]
                            /\ \A r \in Resources : o[r].own = "none" => o[r].deps = {}
BY DEF Snapshot

\* Tracking keeps the record's claims and gives it an owner.
LEMMA TrackOneType ==
  ASSUME NEW s \in OwnedState, NEW created \in BOOLEAN
  PROVE  /\ TrackOne(s, created) \in OwnedState
         /\ TrackOne(s, created).own # "none"
         /\ TrackOne(s, created).deps = s.deps
BY DEF TrackOne, OwnedState, Ownership

LEMMA TrackType ==
  ASSUME NEW o \in Snapshot, NEW uses \in SUBSET Use
  PROVE  /\ TrackResourceUses(o, uses) \in Snapshot
         /\ \A r \in Resources : TrackResourceUses(o, uses)[r].deps = o[r].deps
         /\ \A r \in UsedBy(uses) \cap Resources : TrackResourceUses(o, uses)[r].own # "none"
<1>1. /\ o \in [Resources -> OwnedState]
      /\ \A r \in Resources : o[r].own = "none" => o[r].deps = {}
  BY SnapshotMembers
<1> DEFINE T == TrackResourceUses(o, uses)
<1>2. T = [r \in Resources |->
             IF r \in UsedBy(uses) THEN TrackOne(o[r], r \in CreatedBy(uses)) ELSE o[r]]
  BY DEF TrackResourceUses
<1>3. ASSUME NEW r \in Resources
      PROVE  /\ T[r] \in OwnedState
             /\ T[r].deps = o[r].deps
             /\ r \in UsedBy(uses) => T[r].own # "none"
             /\ T[r].own = "none" => T[r].deps = {}
  <2>1. CASE r \in UsedBy(uses)
    <3>1. T[r] = TrackOne(o[r], r \in CreatedBy(uses))
      BY <1>2, <2>1
    <3>2. o[r] \in OwnedState /\ (r \in CreatedBy(uses)) \in BOOLEAN
      BY <1>1
    <3>3. /\ TrackOne(o[r], r \in CreatedBy(uses)) \in OwnedState
          /\ TrackOne(o[r], r \in CreatedBy(uses)).own # "none"
          /\ TrackOne(o[r], r \in CreatedBy(uses)).deps = o[r].deps
      BY <3>2, TrackOneType
    <3> HIDE DEF T
    <3> QED BY <3>1, <3>3
  <2>2. CASE r \notin UsedBy(uses)
    BY <1>1, <1>2, <2>2
  <2> QED BY <2>1, <2>2
<1>4. T \in [Resources -> OwnedState]
  BY <1>2, <1>3
<1> QED BY <1>3, <1>4, SnapshotMembers

\* A recorded owner is kept, or rises to depengine's own.
LEMMA OwnerOnlyRises ==
  ASSUME NEW o \in Snapshot, NEW uses \in SUBSET Use, NEW r \in Resources, o[r].own # "none"
  PROVE  TrackResourceUses(o, uses)[r].own \in {o[r].own, "depengine"}
<1>1. o[r] \in OwnedState
  BY SnapshotMembers
<1>2. \/ TrackResourceUses(o, uses)[r] = TrackOne(o[r], r \in CreatedBy(uses))
      \/ TrackResourceUses(o, uses)[r] = o[r]
  BY DEF TrackResourceUses
<1>3. TrackOne(o[r], r \in CreatedBy(uses)).own \in {o[r].own, "depengine"}
  BY <1>1 DEF TrackOne, OwnedState, Ownership
<1> QED BY <1>2, <1>3

LEMMA ClaimType ==
  ASSUME NEW o \in Snapshot, NEW d \in Dependents, NEW uses \in SUBSET Use
  PROVE  /\ ClaimResourceUses(o, d, uses) \in Snapshot
         /\ \A u \in uses : d \in ClaimResourceUses(o, d, uses)[u.res].deps
         /\ \A r \in Resources : o[r].deps \subseteq ClaimResourceUses(o, d, uses)[r].deps
<1> DEFINE T == TrackResourceUses(o, uses)
           C == ClaimResourceUses(o, d, uses)
<1>1. /\ T \in [Resources -> OwnedState]
      /\ \A r \in Resources : T[r].own = "none" => T[r].deps = {}
      /\ \A r \in Resources : T[r].deps = o[r].deps
      /\ \A r \in UsedBy(uses) \cap Resources : T[r].own # "none"
  BY TrackType, SnapshotMembers
<1>2. C = [r \in Resources |-> IF r \in UsedBy(uses) THEN ClaimResource(T[r], d) ELSE T[r]]
  BY DEF ClaimResourceUses
<1>3. ASSUME NEW r \in Resources
      PROVE  /\ C[r] \in OwnedState
             /\ o[r].deps \subseteq C[r].deps
             /\ r \in UsedBy(uses) => d \in C[r].deps
             /\ C[r].own = "none" => C[r].deps = {}
  <2>1. T[r] \in OwnedState /\ T[r].deps = o[r].deps
    BY <1>1
  <2>2. CASE r \in UsedBy(uses)
    <3>1. C[r] = ClaimResource(T[r], d) /\ T[r].own # "none"
      BY <1>1, <1>2, <2>2
    <3> QED BY <3>1, <2>1 DEF ClaimResource, OwnedState
  <2>3. CASE r \notin UsedBy(uses)
    BY <1>1, <1>2, <2>1, <2>3
  <2> QED BY <2>2, <2>3
<1>4. C \in [Resources -> OwnedState]
  BY <1>2, <1>3
<1>5. \A u \in uses : u.res \in Resources /\ u.res \in UsedBy(uses)
  BY DEF Use, UsedBy
<1> QED BY <1>3, <1>4, <1>5, SnapshotMembers

\* Claiming changes no owner beyond what tracking does.
LEMMA ClaimKeepsTracked ==
  ASSUME NEW o \in Snapshot, NEW d \in Dependents, NEW uses \in SUBSET Use, NEW r \in Resources
  PROVE  ClaimResourceUses(o, d, uses)[r].own = TrackResourceUses(o, uses)[r].own
<1> DEFINE T == TrackResourceUses(o, uses)
<1>1. T[r] \in OwnedState
  BY TrackType, SnapshotMembers
<1>2. ClaimResourceUses(o, d, uses)[r] = IF r \in UsedBy(uses) THEN ClaimResource(T[r], d) ELSE T[r]
  BY DEF ClaimResourceUses
<1> HIDE DEF T
<1>3. ClaimResourceUses(o, d, uses)[r].own = T[r].own
  BY <1>1, <1>2 DEF ClaimResource, OwnedState
<1> QED BY <1>3 DEF T

\* Committing keeps every claim, adds the dependent's to each prepared
\* resource and gives it the ownership its mutation declares.
LEMMA FinalizeCommitType ==
  ASSUME NEW o \in Snapshot, NEW d \in Dependents, NEW p, ValidPlan(p)
  PROVE  /\ FinalizeCommit(p, o, d) \in Snapshot
         /\ \A m \in Mutations(p) : /\ FinalizeCommit(p, o, d)[m.res].own = m.own
                                    /\ d \in FinalizeCommit(p, o, d)[m.res].deps
<1> DEFINE F == FinalizeCommit(p, o, d)
           M(r) == {m \in Mutations(p) : m.res = r}
<1>1. /\ o \in [Resources -> OwnedState]
      /\ \A r \in Resources : o[r].own = "none" => o[r].deps = {}
  BY SnapshotMembers
<1>2. F = [r \in Resources |->
             IF M(r) = {} THEN o[r]
             ELSE ClaimResource([o[r] EXCEPT !.own = (CHOOSE m \in M(r) : TRUE).own], d)]
  BY DEF FinalizeCommit
<1>3. Mutations(p) \subseteq Mutation
  BY DEF Mutations, ValidPlan, Plan
<1>4. \A m, q \in Mutations(p) : m.res = q.res => m = q
  BY DEF Mutations, ValidPlan
<1>5. ASSUME NEW r \in Resources
      PROVE  /\ F[r] \in OwnedState
             /\ F[r].own = "none" => F[r].deps = {}
             /\ \A m \in M(r) : F[r].own = m.own /\ d \in F[r].deps
  <2>1. CASE M(r) = {}
    <3>1. F[r] = o[r]
      BY <1>2, <2>1
    <3> QED BY <1>1, <2>1, <3>1
  <2>2. CASE M(r) # {}
    <3>1. PICK m \in M(r) : m = CHOOSE q \in M(r) : TRUE
      BY <2>2
    <3>2. \A q \in M(r) : q = m
      BY <1>4
    <3>3. F[r] = ClaimResource([o[r] EXCEPT !.own = m.own], d)
      BY <1>2, <2>2, <3>1
    <3>4. m.own \in Ownership
      BY <1>3 DEF Mutation
    <3>5. F[r] = [own |-> m.own, deps |-> o[r].deps \cup {d}] /\ o[r] \in OwnedState
      <4>1. o[r] \in OwnedState
        BY <1>1
      <4>2. ClaimResource([o[r] EXCEPT !.own = m.own], d)
              = [own |-> m.own, deps |-> o[r].deps \cup {d}]
        <5>1. [o[r] EXCEPT !.own = m.own] = [own |-> m.own, deps |-> o[r].deps]
          BY <4>1 DEF OwnedState
        <5>2. ClaimResource([own |-> m.own, deps |-> o[r].deps], d)
                = [own |-> m.own, deps |-> o[r].deps \cup {d}]
          BY DEF ClaimResource
        <5> QED BY <5>1, <5>2, Zenon
      <4> QED BY <3>3, <4>1, <4>2
    <3>6. F[r] \in OwnedState /\ F[r].own = m.own /\ d \in F[r].deps /\ m.own # "none"
      BY <3>4, <3>5 DEF OwnedState, Ownership
    <3> QED BY <3>2, <3>6
  <2> QED BY <2>1, <2>2
<1>6. F \in [Resources -> OwnedState]
  <2>1. \A r \in Resources : F[r] \in OwnedState
    BY <1>5
  <2> QED BY <1>2, <2>1
<1>7. F \in Snapshot
  <2>1. \A r \in Resources : F[r].own = "none" => F[r].deps = {}
    BY <1>5
  <2> HIDE DEF F
  <2> QED BY <1>6, <2>1, SnapshotMembers
<1>8. \A m \in Mutations(p) : m.res \in Resources /\ m \in M(m.res)
  BY <1>3 DEF Mutation
<1>9. \A m \in Mutations(p) : F[m.res].own = m.own /\ d \in F[m.res].deps
  BY <1>5, <1>8
<1> QED BY <1>7, <1>9

\* Closing a rollback changes no claim; every retained resource has a record.
LEMMA FinalizeRollbackType ==
  ASSUME NEW o \in Snapshot, NEW p, ValidPlan(p), NEW j, ValidJournal(j, p)
  PROVE  /\ FinalizeRollback(j, p, o) \in Snapshot
         /\ \A r \in Resources : FinalizeRollback(j, p, o)[r].deps = o[r].deps
         /\ \A i \in Retained(j, p, o) : FinalizeRollback(j, p, o)[p.prepare[i].res].own # "none"
<1> DEFINE F == FinalizeRollback(j, p, o)
           K(r) == {i \in Retained(j, p, o) : p.prepare[i].res = r}
<1>1. /\ o \in [Resources -> OwnedState]
      /\ \A r \in Resources : o[r].own = "none" => o[r].deps = {}
  BY SnapshotMembers
<1>2. F = [r \in Resources |->
             IF K(r) # {} /\ o[r].own = "none"
             THEN [o[r] EXCEPT !.own = p.prepare[CHOOSE i \in K(r) : TRUE].own]
             ELSE o[r]]
  BY DEF FinalizeRollback
<1>3. \A i \in Retained(j, p, o) : p.prepare[i] \in Mutation
  <2>1. p.prepare \in Seq(Mutation) /\ j.applied \in Nat /\ j.applied <= Len(p.prepare)
    BY DEF ValidPlan, Plan, ValidJournal, Journal
  <2>2. Retained(j, p, o) \subseteq 1..Len(p.prepare)
    BY <2>1 DEF Retained
  <2> QED BY <2>1, <2>2
<1>4. ASSUME NEW r \in Resources
      PROVE  /\ F[r] \in OwnedState
             /\ F[r].deps = o[r].deps
             /\ F[r].own = "none" => F[r].deps = {}
             /\ K(r) # {} => F[r].own # "none"
  <2>1. CASE K(r) # {} /\ o[r].own = "none"
    <3>1. PICK i \in K(r) : i = CHOOSE k \in K(r) : TRUE
      BY <2>1
    <3>2. F[r] = [o[r] EXCEPT !.own = p.prepare[i].own]
      BY <1>2, <2>1, <3>1
    <3>3. p.prepare[i].own \in Ownership
      BY <1>3 DEF Mutation
    <3>4. o[r] \in OwnedState
      BY <1>1
    <3>5. F[r] = [own |-> p.prepare[i].own, deps |-> o[r].deps]
      BY <3>2, <3>4 DEF OwnedState
    <3> QED BY <3>3, <3>4, <3>5 DEF OwnedState, Ownership
  <2>2. CASE ~(K(r) # {} /\ o[r].own = "none")
    <3>1. F[r] = o[r]
      BY <1>2, <2>2
    <3> QED BY <1>1, <2>2, <3>1
  <2> QED BY <2>1, <2>2
<1>5. F \in [Resources -> OwnedState]
  <2>1. \A r \in Resources : F[r] \in OwnedState
    BY <1>4
  <2> QED BY <1>2, <2>1
<1>6. F \in Snapshot
  <2>1. \A r \in Resources : F[r].own = "none" => F[r].deps = {}
    BY <1>4
  <2> HIDE DEF F
  <2> QED BY <1>5, <2>1, SnapshotMembers
<1>7. \A i \in Retained(j, p, o) : p.prepare[i].res \in Resources /\ i \in K(p.prepare[i].res)
  BY <1>3 DEF Mutation
<1>8. \A i \in Retained(j, p, o) : F[p.prepare[i].res].own # "none"
  BY <1>4, <1>7
<1> QED BY <1>4, <1>6, <1>8

\* A commit that may close leaves depengine's own resources depengine's.
LEMMA FinalizeCommitKeepsOwner ==
  ASSUME NEW o \in Snapshot, NEW d \in Dependents, NEW p, ValidPlan(p), NEW j,
         CanFinalizeCommit(j, p, o), NEW r \in Resources, o[r].own = "depengine"
  PROVE  FinalizeCommit(p, o, d)[r].own = "depengine"
<1> DEFINE ms == {m \in Mutations(p) : m.res = r}
<1>1. o[r] \in OwnedState
  BY SnapshotMembers
<1>2. CASE ms = {}
  BY <1>2 DEF FinalizeCommit
<1>3. CASE ms # {}
  <2>1. PICK m \in Mutations(p) : m.res = r
    BY <1>3
  <2>2. m.own = "depengine"
    BY <2>1 DEF CanFinalizeCommit
  <2>3. FinalizeCommit(p, o, d)[r].own = m.own
    BY <2>1, FinalizeCommitType
  <2> QED BY <2>2, <2>3
<1> QED BY <1>2, <1>3

(***************************************************************************)
(* Lemmas about the rollback decision.                                     *)
(***************************************************************************)

\* A non-empty set of positions has a highest one.
LEMMA HighestExists ==
  ASSUME NEW n \in Nat, NEW S \in SUBSET (1..n), S # {}
  PROVE  Highest(S) \in S /\ \A k \in S : k <= Highest(S)
<1> DEFINE T == {n - i : i \in S}
           R == OpToRel(<, Nat)
<1>1. ASSUME NEW i \in S PROVE i \in Int /\ n - i \in Nat /\ n - i \in T
  <2>1. i \in 1..n
    OBVIOUS
  <2>2. i \in Int /\ n - i \in Nat
    BY <2>1
  <2>3. n - i \in T
    BY Zenon
  <2> QED BY <2>2, <2>3
<1>2. T \subseteq Nat /\ T # {}
  BY <1>1
<1>3. IsWellFoundedOn(R, Nat)
  BY NatLessThanWellFounded
<1>4. \A x, y \in Nat : y < x => <<y, x>> \in R
  BY DEF OpToRel
<1> HIDE DEF R
<1>5. PICK x \in T : \A y \in T : ~(<<y, x>> \in R)
  BY <1>2, <1>3, WFMin
<1>6. PICK i \in S : x = n - i
  BY <1>5
<1>7. ASSUME NEW k \in S PROVE k <= i
  <2>1. ~(n - k < n - i)
    BY <1>1, <1>4, <1>5, <1>6
  <2>2. k \in Int /\ i \in Int
    BY <1>1
  <2> QED BY <2>1, <2>2
<1> QED BY <1>7 DEF Highest

\* The next compensation is a safe applied position below all confirmed ones.
LEMMA NextCompensation ==
  ASSUME NEW p, ValidPlan(p), NEW j, ValidJournal(j, p), NEW o,
         CanPlanRollbackApply(j, p, o)
  PROVE  LET i == Highest(Remaining(j, p, o)) IN
           /\ i \in 1..j.applied
           /\ p.prepare[i].policy = "safe"
           /\ i \notin j.undone
           /\ \A k \in j.undone : i < k
           /\ i \in RollbackSteps(j, p, o)
<1> DEFINE S == Remaining(j, p, o)
<1>1. j.applied \in Nat
  BY DEF ValidJournal, Journal
<1>2. S \in SUBSET (1..j.applied) /\ S # {}
  BY DEF CanPlanRollbackApply, Remaining, RollbackSteps
<1>3. Highest(S) \in S
  BY <1>1, <1>2, HighestExists
<1>4. \A i \in S : i \in 1..j.applied /\ p.prepare[i].policy = "safe" /\ i \notin j.undone
  BY DEF Remaining, RollbackSteps, Safe
<1>5. \A i \in S : \A k \in j.undone : i < k
  BY DEF CanPlanRollbackApply, CanRemainingRollback, DonePrefix, Remaining
<1>6. \A i \in S : i \in RollbackSteps(j, p, o)
  BY DEF Remaining
<1> QED BY <1>3, <1>4, <1>5, <1>6

\* When a rollback may close, the confirmed compensations are exactly those of
\* the current decision, so what is not compensated is retained.
LEMMA ClosedRollback ==
  ASSUME NEW p, NEW j, NEW o, CanFinalizeRollback(j, p, o)
  PROVE  /\ j.undone = RollbackSteps(j, p, o)
         /\ Retained(j, p, o) = (1..j.applied) \ j.undone
BY DEF CanFinalizeRollback, CanRemainingRollback, DonePrefix, Remaining, Retained

(***************************************************************************)
(* The transitions of a journal keep it valid for its plan.                *)
(***************************************************************************)

\* The pure transitions of a journal that is still preparing keep it valid.
LEMMA ForwardTransitions ==
  ASSUME NEW p, ValidPlan(p), NEW j, ValidJournal(j, p)
  PROVE  /\ CanPlanApply(j, p) => ValidJournal(PlanApply(j), p) /\ PlanApply(j).status = "applying"
         /\ CanRecordApplied(j) => /\ ValidJournal(RecordApplied(j, p), p)
                                   /\ RecordApplied(j, p).status \in {"ready", "preparing"}
         /\ CanRecordApplied(j) =>
               LET k == ResolveApplying(j, p, "not_applied") IN
               ValidJournal(k, p) /\ k.status \in {"pending", "preparing"}
<1> DEFINE n == Len(p.prepare)
<1>1. j \in Journal /\ n \in Nat
  BY DEF ValidJournal, ValidPlan, Plan
<1>2. j.status # "rolling_back" => j.undone = {} /\ j.undoing = 0
  BY DEF ValidJournal
<1>3. ASSUME NEW k \in Journal, k.undone = {}, k.undoing = 0, k.applied <= n,
             k.status # "applying" => k.applying = 0,
             k.status \in {"none", "pending"} => k.applied = 0,
             k.status = "applying"  => k.applied < n /\ k.applying = k.applied + 1,
             k.status = "preparing" => k.applied > 0 /\ k.applied < n,
             k.status \in {"ready", "committing"} => k.applied = n
      PROVE  ValidJournal(k, p)
  BY <1>1, <1>3 DEF ValidJournal
<1>4. ASSUME CanPlanApply(j, p)
      PROVE  ValidJournal(PlanApply(j), p) /\ PlanApply(j).status = "applying"
  <2> DEFINE k == PlanApply(j)
  <2>1. /\ k \in Journal /\ k.status = "applying" /\ k.applied = j.applied
        /\ k.applying = j.applied + 1 /\ k.undone = j.undone /\ k.undoing = j.undoing
    <3>1. j.applied + 1 \in Nat
      BY <1>1 DEF Journal
    <3>2. k \in Journal
      BY <1>1, <3>1 DEF PlanApply, Journal, ActiveStatus, OpenStatus
    <3> QED BY <1>1, <3>2 DEF PlanApply, Journal
  <2>2. j.applied < n /\ j.applied \in Nat /\ j.undone = {} /\ j.undoing = 0
    BY <1>1, <1>2, <1>4 DEF CanPlanApply, Journal
  <2> HIDE DEF k
  <2>3. ValidJournal(k, p)
    BY <1>1, <1>3, <2>1, <2>2
  <2> QED BY <2>1, <2>3 DEF k
<1>5. ASSUME CanRecordApplied(j)
      PROVE  /\ j.applied \in Nat /\ j.applied < n /\ j.undone = {} /\ j.undoing = 0
             /\ j.applying = j.applied + 1
  BY <1>1, <1>2, <1>5 DEF CanRecordApplied, ValidJournal, Journal
<1>6. ASSUME CanRecordApplied(j)
      PROVE  /\ ValidJournal(RecordApplied(j, p), p)
             /\ RecordApplied(j, p).status \in {"ready", "preparing"}
  <2> DEFINE k == RecordApplied(j, p)
  <2>1. /\ k \in Journal /\ k.applied = j.applied + 1 /\ k.applying = 0
        /\ k.undone = j.undone /\ k.undoing = j.undoing
        /\ k.status = IF j.applied + 1 = n THEN "ready" ELSE "preparing"
    <3>1. j.applied + 1 \in Nat
      BY <1>1 DEF Journal
    <3>2. k \in Journal
      BY <1>1, <3>1 DEF RecordApplied, Journal, ActiveStatus, OpenStatus
    <3> QED BY <1>1, <3>2 DEF RecordApplied, Journal
  <2> HIDE DEF k
  <2>2. ValidJournal(k, p)
    BY <1>1, <1>3, <1>5, <1>6, <2>1
  <2> QED BY <2>1, <2>2 DEF k
<1>7. ASSUME CanRecordApplied(j)
      PROVE  LET k == ResolveApplying(j, p, "not_applied") IN
             ValidJournal(k, p) /\ k.status \in {"pending", "preparing"}
  <2> DEFINE k == ResolveApplying(j, p, "not_applied")
  <2>1. /\ k \in Journal /\ k.applied = j.applied /\ k.applying = 0
        /\ k.undone = j.undone /\ k.undoing = j.undoing
        /\ k.status = IF j.applied = 0 THEN "pending" ELSE "preparing"
    BY <1>1 DEF ResolveApplying, Journal, ActiveStatus, OpenStatus
  <2> HIDE DEF k
  <2>2. ValidJournal(k, p)
    BY <1>1, <1>3, <1>5, <1>7, <2>1
  <2> QED BY <2>1, <2>2 DEF k
<1> QED BY <1>4, <1>6, <1>7

\* The pure transitions of a journal that is rolling back keep it valid.
LEMMA RollbackTransitions ==
  ASSUME NEW p, ValidPlan(p), NEW j, ValidJournal(j, p), NEW o
  PROVE  /\ CanPlanRollback(j, p, o) => /\ ValidJournal(PlanRollback(j), p)
                                        /\ PlanRollback(j).status = "rolling_back"
         /\ CanPlanRollbackApply(j, p, o) => /\ ValidJournal(PlanRollbackApply(j, p, o), p)
                                             /\ PlanRollbackApply(j, p, o).status = "rolling_back"
         /\ CanRecordRollbackApplied(j, p, o) => /\ ValidJournal(RecordRollbackApplied(j), p)
                                                 /\ RecordRollbackApplied(j).status = "rolling_back"
         /\ j.status = "rolling_back" => LET k == [j EXCEPT !.undoing = 0] IN
                                           ValidJournal(k, p) /\ k.status = "rolling_back"
<1> DEFINE n == Len(p.prepare)
<1>1. j \in Journal /\ n \in Nat /\ j.applied \in Nat /\ j.applied <= n
  BY DEF ValidJournal, ValidPlan, Plan, Journal
<1>2. /\ \A i \in j.undone : i \in 1..j.applied /\ p.prepare[i].policy = "safe"
      /\ j.undoing # 0 => /\ j.undoing \in 1..j.applied
                          /\ p.prepare[j.undoing].policy = "safe"
                          /\ \A i \in j.undone : j.undoing < i
      /\ j.status # "applying" => j.applying = 0
  BY DEF ValidJournal
<1>3. ASSUME NEW k \in Journal, k.status = "rolling_back", k.applied = j.applied, k.applying = 0,
             \A i \in k.undone : i \in 1..j.applied /\ p.prepare[i].policy = "safe",
             k.undoing # 0 => /\ k.undoing \in 1..j.applied
                              /\ p.prepare[k.undoing].policy = "safe"
                              /\ \A i \in k.undone : k.undoing < i
      PROVE  ValidJournal(k, p)
  BY <1>1, <1>3 DEF ValidJournal
<1>4. ASSUME CanPlanRollback(j, p, o)
      PROVE  ValidJournal(PlanRollback(j), p) /\ PlanRollback(j).status = "rolling_back"
  <2> DEFINE k == PlanRollback(j)
  <2>1. /\ k.status = "rolling_back" /\ k.applied = j.applied /\ k.applying = j.applying
        /\ k.undone = {} /\ k.undoing = 0
    BY <1>1 DEF PlanRollback, Journal
  <2>2. j.applying = 0
    BY <1>2, <1>4 DEF CanPlanRollback
  <2>3. k \in Journal
    BY <1>1 DEF PlanRollback, Journal, ActiveStatus
  <2> HIDE DEF k
  <2>4. ValidJournal(k, p)
    BY <1>3, <2>1, <2>2, <2>3
  <2> QED BY <2>1, <2>4 DEF k
<1>5. ASSUME CanPlanRollbackApply(j, p, o)
      PROVE  /\ ValidJournal(PlanRollbackApply(j, p, o), p)
             /\ PlanRollbackApply(j, p, o).status = "rolling_back"
  <2> DEFINE k == PlanRollbackApply(j, p, o)
             i == Highest(Remaining(j, p, o))
  <2>1. j.status = "rolling_back"
    BY <1>5 DEF CanPlanRollbackApply
  <2>2. k = [status |-> "rolling_back", applied |-> j.applied, applying |-> j.applying,
             undone |-> j.undone, undoing |-> i]
    BY <1>1, <2>1 DEF PlanRollbackApply, Journal
  <2>3. /\ i \in 1..j.applied /\ p.prepare[i].policy = "safe"
        /\ \A m \in j.undone : i < m
    BY <1>5, NextCompensation
  <2> HIDE DEF k, i
  <2>4. k \in Journal
    BY <1>1, <2>2, <2>3 DEF Journal, ActiveStatus
  <2>5. ValidJournal(k, p)
    BY <1>2, <1>3, <2>1, <2>2, <2>3, <2>4
  <2> QED BY <2>2, <2>5 DEF k
<1>6. ASSUME CanRecordRollbackApplied(j, p, o)
      PROVE  ValidJournal(RecordRollbackApplied(j), p) /\ RecordRollbackApplied(j).status = "rolling_back"
  <2> DEFINE k == RecordRollbackApplied(j)
  <2>1. j.status = "rolling_back" /\ j.undoing # 0
    BY <1>6 DEF CanRecordRollbackApplied
  <2>2. /\ k.status = "rolling_back" /\ k.applied = j.applied /\ k.applying = j.applying
        /\ k.undone = j.undone \cup {j.undoing} /\ k.undoing = 0
    BY <1>1, <2>1 DEF RecordRollbackApplied, Journal
  <2>3. k \in Journal
    BY <1>1 DEF RecordRollbackApplied, Journal, ActiveStatus
  <2> HIDE DEF k
  <2>4. ValidJournal(k, p)
    BY <1>2, <1>3, <2>1, <2>2, <2>3
  <2> QED BY <2>2, <2>4 DEF k
<1>7. ASSUME j.status = "rolling_back"
      PROVE  LET k == [j EXCEPT !.undoing = 0] IN ValidJournal(k, p) /\ k.status = "rolling_back"
  <2> DEFINE k == [j EXCEPT !.undoing = 0]
  <2>1. k = [status |-> "rolling_back", applied |-> j.applied, applying |-> j.applying,
             undone |-> j.undone, undoing |-> 0]
    BY <1>1, <1>7 DEF Journal
  <2> HIDE DEF k
  <2>2. k \in Journal
    BY <1>1, <2>1 DEF Journal, ActiveStatus
  <2>3. ValidJournal(k, p)
    BY <1>2, <1>3, <1>7, <2>1, <2>2
  <2> QED BY <2>1, <2>3 DEF k
<1> QED BY <1>4, <1>5, <1>6, <1>7


(* The inductive invariant: what TLC checks as TypeOK and JournalValid.    *)
(***************************************************************************)
Inv == TypeOK /\ JournalValid

LEMMA InvInit == StateInit => Inv
<1> SUFFICES ASSUME StateInit PROVE Inv
  OBVIOUS
<1>1. NoJournal \in Journal /\ NoJournal.status = "none"
  BY DEF NoJournal, Journal
<1>2. <<>> \in Seq(Mutation) /\ Len(<<>>) = 0
  OBVIOUS
<1>3. NoPlan \in Plan /\ ValidPlan(NoPlan)
  BY <1>2 DEF NoPlan, Plan, ValidPlan, DistinctUses
<1>4. NoneOwned \in Snapshot
  BY DEF NoneOwned, Snapshot, OwnedState
<1>5. ValidJournal(NoJournal, NoPlan)
  BY <1>1, <1>2 DEF NoJournal, NoPlan, ValidJournal
<1> QED BY <1>1, <1>3, <1>4, <1>5 DEF StateInit, Inv, TypeOK, JournalValid

\* A journal step that keeps the plan keeps the invariant if the new journal is valid.
LEMMA JournalStep ==
  ASSUME Inv, ValidJournal(journal', plan), plan' = plan,
         owned' = owned, recorded' = recorded,
         journal'.status # "none",
         plan.uses = {} \/ journal'.status \in {"committing", "ready", "rolling_back"}
  PROVE  Inv'
<1>1. TypeOK'
  BY DEF Inv, TypeOK, ValidJournal
<1>2. JournalValid'
  BY DEF Inv, JournalValid
<1> QED BY <1>1, <1>2 DEF Inv

\* A step that keeps journal and plan keeps the invariant if the snapshot stays one.
LEMMA SnapshotStep ==
  ASSUME Inv, journal' = journal, plan' = plan, owned' \in Snapshot, recorded' \in BOOLEAN
  PROVE  Inv'
BY DEF Inv, TypeOK, JournalValid

\* Closing the journal together with its plan keeps the invariant.
LEMMA ClosingStep ==
  ASSUME journal' = NoJournal, plan' = NoPlan, owned' \in Snapshot, recorded' \in BOOLEAN
  PROVE  Inv'
<1>1. NoJournal \in Journal /\ NoJournal.status = "none"
  BY DEF NoJournal, Journal
<1>2. <<>> \in Seq(Mutation) /\ Len(<<>>) = 0
  OBVIOUS
<1>3. NoPlan \in Plan /\ ValidPlan(NoPlan)
  BY <1>2 DEF NoPlan, Plan, ValidPlan, DistinctUses
<1>4. ValidJournal(NoJournal, NoPlan)
  BY <1>1, <1>2 DEF NoJournal, NoPlan, ValidJournal
<1>5. TypeOK'
  BY <1>1, <1>3 DEF TypeOK
<1>6. JournalValid'
  BY <1>1, <1>3, <1>4 DEF JournalValid
<1> QED BY <1>5, <1>6 DEF Inv

(***************************************************************************)
(* One lemma per group of actions, then the step.                          *)
(***************************************************************************)
LEMMA PreparationSteps ==
  ASSUME Inv,
         \/ \E p \in Plans : BeginPreparation(p)
         \/ PlanPreparationApply
         \/ RecordPreparationApplied
         \/ \E outcome \in {"applied", "not_applied"} : ResolvePreparationApplying(outcome)
  PROVE  Inv'
<1>1. /\ journal \in Journal /\ plan \in Plan /\ Len(plan.prepare) \in Nat
      /\ ValidPlan(plan) /\ ValidJournal(journal, plan)
      /\ journal.status \notin {"none", "committing", "ready", "rolling_back"} => plan.uses = {}
  BY DEF Inv, TypeOK, JournalValid, Plan
<1>2. ASSUME NEW p \in Plans, BeginPreparation(p) PROVE Inv'
  <2>1. ValidPlan(p) /\ p \in Plan /\ p.uses = {} /\ Len(p.prepare) \in Nat
    BY PlansAssumption DEF ValidPlan, Plan
  <2>2. ValidJournal(NewJournal, p) /\ NewJournal.status = "pending"
    BY <2>1 DEF ValidJournal, NewJournal, NoJournal, Journal, ActiveStatus, OpenStatus
  <2>3. JournalValid'
    BY <1>2, <2>1, <2>2 DEF BeginPreparation, JournalValid
  <2>4. TypeOK'
    BY <1>2, <2>1, <2>2 DEF BeginPreparation, Inv, TypeOK, ValidJournal
  <2> QED BY <2>3, <2>4 DEF Inv
<1>3. ASSUME PlanPreparationApply PROVE Inv'
  <2>1. ValidJournal(journal', plan) /\ journal'.status = "applying"
    BY <1>1, <1>3, ForwardTransitions DEF PlanPreparationApply
  <2>2. plan.uses = {}
    BY <1>1, <1>3 DEF PlanPreparationApply, CanPlanApply
  <2> QED BY <1>3, <2>1, <2>2, JournalStep DEF PlanPreparationApply
<1>4. CanRecordApplied(journal) => plan.uses = {}
  BY <1>1 DEF CanRecordApplied
<1>5. ASSUME RecordPreparationApplied PROVE Inv'
  <2>1. ValidJournal(journal', plan) /\ journal'.status # "none"
    BY <1>1, <1>5, ForwardTransitions DEF RecordPreparationApplied
  <2> QED BY <1>4, <1>5, <2>1, JournalStep DEF RecordPreparationApplied
<1>6. ASSUME NEW outcome \in {"applied", "not_applied"}, ResolvePreparationApplying(outcome)
      PROVE  Inv'
  <2>1. ValidJournal(journal', plan) /\ journal'.status # "none"
    <3>1. CASE outcome = "applied"
      <4>1. journal' = RecordApplied(journal, plan)
        BY <1>6, <3>1 DEF ResolvePreparationApplying, ResolveApplying
      <4> QED BY <1>1, <1>6, <4>1, ForwardTransitions DEF ResolvePreparationApplying
    <3>2. CASE outcome = "not_applied"
      BY <1>1, <1>6, <3>2, ForwardTransitions DEF ResolvePreparationApplying
    <3> QED BY <3>1, <3>2
  <2> QED BY <1>4, <1>6, <2>1, JournalStep DEF ResolvePreparationApplying
<1> QED BY <1>2, <1>3, <1>5, <1>6

LEMMA CommitSteps ==
  ASSUME Inv,
         \/ \E uses \in SUBSET Use : PlanPreparationCommitWithUses(uses)
         \/ ResolvePreparationCommitNotApplied
         \/ \E tracked \in SUBSET Use : FinalizePreparationCommitWithTool(tracked)
  PROVE  Inv'
<1>1. /\ journal \in Journal /\ plan \in Plan /\ owned \in Snapshot
      /\ ValidPlan(plan) /\ ValidJournal(journal, plan)
  BY DEF Inv, TypeOK, JournalValid
<1>2. ASSUME NEW uses \in SUBSET Use, PlanPreparationCommitWithUses(uses) PROVE Inv'
  <2>1. plan' = [plan EXCEPT !.uses = uses] /\ ValidPlan(plan') /\ plan'.prepare = plan.prepare
    BY <1>1, <1>2 DEF PlanPreparationCommitWithUses, Plan
  <2>2. ValidJournal(journal', plan) /\ journal'.status = "committing"
    BY <1>1, <1>2 DEF PlanPreparationCommitWithUses, CanPlanCommit, PlanCommit, ValidJournal,
       Journal, ActiveStatus, OpenStatus
  <2>3. ValidJournal(journal', plan')
    BY <2>1, <2>2 DEF ValidJournal
  <2>4. JournalValid'
    BY <2>1, <2>2, <2>3 DEF JournalValid
  <2>5. TypeOK'
    BY <1>2, <2>1, <2>3 DEF PlanPreparationCommitWithUses, Inv, TypeOK, ValidPlan, ValidJournal
  <2> QED BY <2>4, <2>5 DEF Inv
<1>3. ASSUME ResolvePreparationCommitNotApplied PROVE Inv'
  <2>1. ValidJournal(journal', plan) /\ journal'.status = "ready"
    BY <1>1, <1>3 DEF ResolvePreparationCommitNotApplied, ResolveCommitNotApplied, ValidJournal,
       Journal, ActiveStatus, OpenStatus
  <2> QED BY <1>3, <2>1, JournalStep DEF ResolvePreparationCommitNotApplied
<1>4. ASSUME NEW tracked \in SUBSET Use, FinalizePreparationCommitWithTool(tracked) PROVE Inv'
  <2> DEFINE F == FinalizeCommit(plan, owned, Owner)
             C == ClaimResourceUses(F, Owner, plan.uses)
  <2>1. F \in Snapshot
    BY <1>1, FinalizeCommitType, OwnerAssumption
  <2>2. plan.uses \in SUBSET Use
    BY <1>1 DEF Plan
  <2> HIDE DEF F
  <2>3. C \in Snapshot
    BY <2>1, <2>2, ClaimType, OwnerAssumption
  <2>4. owned' = TrackResourceUses(C, tracked)
    BY <1>4 DEF FinalizePreparationCommitWithTool, F
  <2> HIDE DEF C
  <2>5. owned' \in Snapshot
    BY <2>3, <2>4, TrackType
  <2> QED BY <1>4, <2>5, ClosingStep DEF FinalizePreparationCommitWithTool
<1> QED BY <1>2, <1>3, <1>4

LEMMA RollbackStepsKeepInv ==
  ASSUME Inv,
         \/ PlanPreparationRollback
         \/ PlanPreparationRollbackApply
         \/ RecordPreparationRollbackApplied
         \/ \E outcome \in {"applied", "not_applied"} : ResolvePreparationRollbackApplying(outcome)
         \/ FinalizePreparationRollback
  PROVE  Inv'
<1>1. ValidPlan(plan) /\ ValidJournal(journal, plan) /\ owned \in Snapshot /\ recorded \in BOOLEAN
  BY DEF Inv, TypeOK, JournalValid
<1>2. ASSUME PlanPreparationRollback PROVE Inv'
  <2>1. ValidJournal(journal', plan) /\ journal'.status = "rolling_back"
    BY <1>1, <1>2, RollbackTransitions DEF PlanPreparationRollback
  <2> QED BY <1>2, <2>1, JournalStep DEF PlanPreparationRollback
<1>3. ASSUME PlanPreparationRollbackApply PROVE Inv'
  <2>1. ValidJournal(journal', plan) /\ journal'.status = "rolling_back"
    <3>1. /\ CanPlanRollbackApply(journal, plan, owned)
          /\ journal' = PlanRollbackApply(journal, plan, owned)
      BY <1>3 DEF PlanPreparationRollbackApply
    <3>2. /\ ValidJournal(PlanRollbackApply(journal, plan, owned), plan)
          /\ PlanRollbackApply(journal, plan, owned).status = "rolling_back"
      <4> HIDE DEF Inv
      <4>1. CanPlanRollbackApply(journal, plan, owned) =>
              /\ ValidJournal(PlanRollbackApply(journal, plan, owned), plan)
              /\ PlanRollbackApply(journal, plan, owned).status = "rolling_back"
        BY <1>1, RollbackTransitions, ZenonT(30)
      <4> QED BY <3>1, <4>1
    <3> QED BY <3>1, <3>2, Zenon
  <2> QED BY <1>3, <2>1, JournalStep DEF PlanPreparationRollbackApply
<1>4. ASSUME RecordPreparationRollbackApplied PROVE Inv'
  <2>1. ValidJournal(journal', plan) /\ journal'.status = "rolling_back"
    BY <1>1, <1>4, RollbackTransitions DEF RecordPreparationRollbackApplied
  <2> QED BY <1>4, <2>1, JournalStep DEF RecordPreparationRollbackApplied
<1>5. ASSUME NEW outcome \in {"applied", "not_applied"}, ResolvePreparationRollbackApplying(outcome)
      PROVE  Inv'
  <2>1. ValidJournal(journal', plan) /\ journal'.status = "rolling_back"
    <3>1. CASE outcome = "applied"
      <4>1. CanRecordRollbackApplied(journal, plan, owned) /\ journal' = RecordRollbackApplied(journal)
        BY <1>5, <3>1 DEF ResolvePreparationRollbackApplying, CanResolveRollbackApplying,
           ResolveRollbackApplying
      <4> QED BY <1>1, <4>1, RollbackTransitions
    <3>2. CASE outcome = "not_applied"
      <4>1. journal.status = "rolling_back" /\ journal' = [journal EXCEPT !.undoing = 0]
        BY <1>5, <3>2 DEF ResolvePreparationRollbackApplying, CanResolveRollbackApplying,
           ResolveRollbackApplying
      <4> QED BY <1>1, <4>1, RollbackTransitions
    <3> QED BY <3>1, <3>2
  <2> QED BY <1>5, <2>1, JournalStep DEF ResolvePreparationRollbackApplying
<1>6. ASSUME FinalizePreparationRollback PROVE Inv'
  <2>1. owned' \in Snapshot
    BY <1>1, <1>6, FinalizeRollbackType DEF FinalizePreparationRollback
  <2> QED BY <1>1, <1>6, <2>1, ClosingStep DEF FinalizePreparationRollback
<1> QED BY <1>2, <1>3, <1>4, <1>5, <1>6

LEMMA OtherSteps ==
  ASSUME Inv,
         \/ ClaimByOthers
         \/ \E d \in Dependents : ReleaseDependentResources(d)
         \/ \E r \in Resources : FinalizeReleasedResource(r)
         \/ RewriteTools
  PROVE  Inv'
<1>1. owned \in Snapshot /\ recorded \in BOOLEAN
  BY DEF Inv, TypeOK
<1>2. /\ owned \in [Resources -> OwnedState]
      /\ \A r \in Resources : owned[r].own = "none" => owned[r].deps = {}
  BY <1>1, SnapshotMembers
<1>3. ASSUME ClaimByOthers PROVE Inv'
  BY <1>1, <1>3, SnapshotStep DEF ClaimByOthers
<1>4. ASSUME NEW d \in Dependents, ReleaseDependentResources(d) PROVE Inv'
  <2>1. owned' = [r \in Resources |-> [owned[r] EXCEPT !.deps = @ \ {d}]] /\ recorded' \in BOOLEAN
    BY <1>1, <1>4 DEF ReleaseDependentResources
  <2>2. ASSUME NEW r \in Resources
        PROVE  owned'[r] \in OwnedState /\ (owned'[r].own = "none" => owned'[r].deps = {})
    <3>1. owned'[r] = [own |-> owned[r].own, deps |-> owned[r].deps \ {d}]
      BY <1>2, <2>1 DEF OwnedState
    <3> QED BY <1>2, <3>1 DEF OwnedState
  <2>3. owned' \in [Resources -> OwnedState]
    BY <2>1, <2>2
  <2>4. owned' \in Snapshot
    BY <2>2, <2>3 DEF Snapshot
  <2> QED BY <1>4, <2>1, <2>4, SnapshotStep DEF ReleaseDependentResources
<1>5. ASSUME NEW r \in Resources, FinalizeReleasedResource(r) PROVE Inv'
  <2>1. owned' = [owned EXCEPT ![r].own = "none"] /\ owned[r].deps = {}
    BY <1>5 DEF FinalizeReleasedResource
  <2>2. ASSUME NEW q \in Resources
        PROVE  owned'[q] \in OwnedState /\ (owned'[q].own = "none" => owned'[q].deps = {})
    <3>1. CASE q = r
      <4>1. owned'[q] = [own |-> "none", deps |-> {}]
        BY <1>2, <2>1, <3>1 DEF OwnedState
      <4> QED BY <4>1 DEF OwnedState
    <3>2. CASE q # r
      BY <1>2, <2>1, <3>2
    <3> QED BY <3>1, <3>2
  <2>3. owned' \in [Resources -> OwnedState]
    BY <1>2, <2>1, <2>2
  <2>4. owned' \in Snapshot
    BY <2>2, <2>3 DEF Snapshot
  <2> QED BY <1>1, <1>5, <2>4, SnapshotStep DEF FinalizeReleasedResource
<1>6. ASSUME RewriteTools PROVE Inv'
  BY <1>1, <1>6, SnapshotStep DEF RewriteTools
<1> QED BY <1>3, <1>4, <1>5, <1>6

LEMMA InvStep == Inv /\ [StateNext]_stateVars => Inv'
<1> SUFFICES ASSUME Inv, [StateNext]_stateVars PROVE Inv'
  OBVIOUS
<1>1. CASE UNCHANGED stateVars
  BY <1>1 DEF stateVars, Inv, TypeOK, JournalValid
<1>2. CASE StateNext
  BY <1>2, PreparationSteps, CommitSteps, RollbackStepsKeepInv, OtherSteps DEF StateNext
<1> QED BY <1>1, <1>2

\* The state layer is type correct: every operation, in any order, returns a
\* well-formed journal, plan and canonical snapshot.
THEOREM TypeCorrect == StateSpec => []TypeOK
<1>1. Inv => TypeOK
  BY DEF Inv
<1> QED BY <1>1, InvInit, InvStep, PTL DEF StateSpec

\* A persisted journal always passes the validation a restart applies to it.
THEOREM JournalsStayValid == StateSpec => []JournalValid
<1>1. Inv => JournalValid
  BY DEF Inv
<1> QED BY <1>1, InvInit, InvStep, PTL DEF StateSpec

(***************************************************************************)
(* Ownership.                                                              *)
(***************************************************************************)

LEMMA OwnershipStep ==
  ASSUME Inv, [StateNext]_stateVars, NEW r \in Resources, owned[r].own = "depengine", owned[r].deps # {}
  PROVE  owned'[r].own = "depengine"
<1>1. /\ owned \in Snapshot /\ owned[r] \in OwnedState
      /\ ValidPlan(plan) /\ ValidJournal(journal, plan) /\ plan.uses \in SUBSET Use
  BY SnapshotMembers DEF Inv, TypeOK, JournalValid, Plan
<1>2. CASE UNCHANGED stateVars
  BY <1>2 DEF stateVars
<1>3. CASE \/ \E p \in Plans : BeginPreparation(p)
           \/ PlanPreparationApply
           \/ RecordPreparationApplied
           \/ \E outcome \in {"applied", "not_applied"} : ResolvePreparationApplying(outcome)
           \/ RewriteTools
  BY <1>3 DEF BeginPreparation, PlanPreparationApply, RecordPreparationApplied,
     ResolvePreparationApplying, RewriteTools
<1>4. CASE \/ \E uses \in SUBSET Use : PlanPreparationCommitWithUses(uses)
           \/ ResolvePreparationCommitNotApplied
           \/ PlanPreparationRollback
           \/ PlanPreparationRollbackApply
           \/ RecordPreparationRollbackApplied
           \/ \E outcome \in {"applied", "not_applied"} : ResolvePreparationRollbackApplying(outcome)
  BY <1>4 DEF PlanPreparationCommitWithUses, ResolvePreparationCommitNotApplied,
     PlanPreparationRollback, PlanPreparationRollbackApply, RecordPreparationRollbackApplied,
     ResolvePreparationRollbackApplying
<1>5. CASE \E tracked \in SUBSET Use : FinalizePreparationCommitWithTool(tracked)
  <2> DEFINE F == FinalizeCommit(plan, owned, Owner)
             C == ClaimResourceUses(F, Owner, plan.uses)
  <2>1. PICK tracked \in SUBSET Use :
          /\ CanFinalizeCommit(journal, plan, owned)
          /\ owned' = TrackResourceUses(C, tracked)
    BY <1>5 DEF FinalizePreparationCommitWithTool
  <2>2. F \in Snapshot /\ F[r].own = "depengine"
    BY <1>1, <2>1, FinalizeCommitType, FinalizeCommitKeepsOwner, OwnerAssumption
  <2> HIDE DEF F
  <2>3. C \in Snapshot /\ C[r].own = TrackResourceUses(F, plan.uses)[r].own
    BY <1>1, <2>2, ClaimType, ClaimKeepsTracked, OwnerAssumption
  <2>4. C[r].own = "depengine"
    BY <1>1, <2>2, <2>3, OwnerOnlyRises
  <2> HIDE DEF C
  <2> QED BY <2>1, <2>3, <2>4, OwnerOnlyRises
<1>6. CASE FinalizePreparationRollback
  <2>1. owned' = FinalizeRollback(journal, plan, owned)
    BY <1>6 DEF FinalizePreparationRollback
  <2>2. FinalizeRollback(journal, plan, owned)[r] = owned[r]
    BY DEF FinalizeRollback
  <2> QED BY <2>1, <2>2
<1>7. CASE ClaimByOthers
  <2>1. Grown(owned[r], owned'[r])
    BY <1>7 DEF ClaimByOthers
  <2> QED BY <2>1 DEF Grown
<1>8. CASE \E d \in Dependents : ReleaseDependentResources(d)
  <2>1. PICK d \in Dependents : owned' = [q \in Resources |-> [owned[q] EXCEPT !.deps = @ \ {d}]]
    BY <1>8 DEF ReleaseDependentResources
  <2>2. owned'[r] = [owned[r] EXCEPT !.deps = @ \ {d}]
    BY <2>1
  <2> QED BY <1>1, <2>2 DEF OwnedState
<1>9. CASE \E q \in Resources : FinalizeReleasedResource(q)
  <2>1. PICK q \in Resources : FinalizeReleasedResource(q)
    BY <1>9
  <2>2. q # r
    BY <2>1 DEF FinalizeReleasedResource
  <2>3. owned \in [Resources -> OwnedState]
    BY <1>1, SnapshotMembers
  <2> QED BY <2>1, <2>2, <2>3 DEF FinalizeReleasedResource
<1> QED BY <1>2, <1>3, <1>4, <1>5, <1>6, <1>7, <1>8, <1>9 DEF StateNext

\* A resource that depengine owns and a tool needs is never forgotten and never
\* taken for somebody else's, whatever is prepared, committed or rolled back.
THEOREM OwnershipKept == StateSpec => OwnershipNeverLost
<1>1. Inv /\ [StateNext]_stateVars =>
        [\A r \in Resources : owned[r].own = "depengine" /\ owned[r].deps # {}
           => owned'[r].own = "depengine"]_stateVars
  BY OwnershipStep
<1> QED BY <1>1, InvInit, InvStep, PTL DEF StateSpec, OwnershipNeverLost

(***************************************************************************)
(* How a journal closes.                                                   *)
(***************************************************************************)

\* A journal disappears only by finalizing its rollback or its commit.
LEMMA OnlyFinalizeCloses ==
  ASSUME Inv, [StateNext]_stateVars, journal.status # "none", journal'.status = "none"
  PROVE  \/ FinalizePreparationRollback
         \/ \E tracked \in SUBSET Use : FinalizePreparationCommitWithTool(tracked)
<1>1. ValidPlan(plan) /\ ValidJournal(journal, plan) /\ journal \in Journal
  BY DEF Inv, TypeOK, JournalValid
<1>2. ~ UNCHANGED stateVars
  BY DEF stateVars
<1>3. ~ \/ \E p \in Plans : BeginPreparation(p)
        \/ ClaimByOthers
        \/ \E d \in Dependents : ReleaseDependentResources(d)
        \/ \E r \in Resources : FinalizeReleasedResource(r)
        \/ RewriteTools
  BY DEF BeginPreparation, ClaimByOthers, ReleaseDependentResources, FinalizeReleasedResource,
     RewriteTools
<1>4. ~ PlanPreparationApply
  BY <1>1, ForwardTransitions DEF PlanPreparationApply
<1>5. ~ RecordPreparationApplied
  BY <1>1, ForwardTransitions DEF RecordPreparationApplied
<1>6. ASSUME NEW outcome \in {"applied", "not_applied"}, ResolvePreparationApplying(outcome)
      PROVE  FALSE
  <2>1. CASE outcome = "applied"
    <3>1. journal' = RecordApplied(journal, plan)
      BY <1>6, <2>1 DEF ResolvePreparationApplying, ResolveApplying
    <3> QED BY <1>1, <1>6, <3>1, ForwardTransitions DEF ResolvePreparationApplying
  <2>2. CASE outcome = "not_applied"
    BY <1>1, <1>6, <2>2, ForwardTransitions DEF ResolvePreparationApplying
  <2> QED BY <2>1, <2>2
<1>7. ASSUME NEW uses \in SUBSET Use, PlanPreparationCommitWithUses(uses) PROVE FALSE
  <2>1. journal'.status = "committing"
    BY <1>1, <1>7 DEF PlanPreparationCommitWithUses, PlanCommit, Journal
  <2> QED BY <2>1
<1>8. ASSUME ResolvePreparationCommitNotApplied PROVE FALSE
  <2>1. journal'.status = "ready"
    BY <1>1, <1>8 DEF ResolvePreparationCommitNotApplied, ResolveCommitNotApplied, Journal
  <2> QED BY <2>1
<1>9. ~ PlanPreparationRollback
  BY <1>1, RollbackTransitions DEF PlanPreparationRollback
<1>10. ASSUME PlanPreparationRollbackApply PROVE FALSE
  <2>1. PlanRollbackApply(journal, plan, owned).status = "rolling_back"
    BY <1>1, <1>10, RollbackTransitions DEF PlanPreparationRollbackApply
  <2> QED BY <1>10, <2>1 DEF PlanPreparationRollbackApply
<1>11. ~ RecordPreparationRollbackApplied
  BY <1>1, RollbackTransitions DEF RecordPreparationRollbackApplied
<1>12. ASSUME NEW outcome \in {"applied", "not_applied"}, ResolvePreparationRollbackApplying(outcome)
       PROVE  FALSE
  <2>1. CASE outcome = "applied"
    <3>1. CanRecordRollbackApplied(journal, plan, owned) /\ journal' = RecordRollbackApplied(journal)
      BY <1>12, <2>1 DEF ResolvePreparationRollbackApplying, CanResolveRollbackApplying,
         ResolveRollbackApplying
    <3> QED BY <1>1, <3>1, RollbackTransitions
  <2>2. CASE outcome = "not_applied"
    <3>1. journal.status = "rolling_back" /\ journal' = [journal EXCEPT !.undoing = 0]
      BY <1>12, <2>2 DEF ResolvePreparationRollbackApplying, CanResolveRollbackApplying,
         ResolveRollbackApplying
    <3> QED BY <1>1, <3>1, RollbackTransitions
  <2> QED BY <2>1, <2>2
<1>13. StateNext
  BY <1>2
<1> QED BY <1>3, <1>4, <1>5, <1>6, <1>7, <1>8, <1>9, <1>10, <1>11, <1>12, <1>13 DEF StateNext

LEMMA RollbackCloses ==
  ASSUME Inv, [StateNext]_stateVars, journal.status = "rolling_back", journal'.status = "none"
  PROVE  /\ \A i \in 1..journal.applied :
              i \in journal.undone \/ owned'[plan.prepare[i].res].own # "none"
         /\ \A i \in journal.undone : owned'[plan.prepare[i].res].deps = {}
<1>1. ValidPlan(plan) /\ ValidJournal(journal, plan) /\ owned \in Snapshot
  BY DEF Inv, TypeOK, JournalValid
<1>2. FinalizePreparationRollback
  BY OnlyFinalizeCloses DEF FinalizePreparationCommitWithTool, CanFinalizeCommit
<1>3. /\ CanFinalizeRollback(journal, plan, owned)
      /\ owned' = FinalizeRollback(journal, plan, owned)
  BY <1>2 DEF FinalizePreparationRollback
<1>4. /\ journal.undone = RollbackSteps(journal, plan, owned)
      /\ Retained(journal, plan, owned) = (1..journal.applied) \ journal.undone
  BY <1>3, ClosedRollback
<1>5. /\ \A r \in Resources : owned'[r].deps = owned[r].deps
      /\ \A i \in Retained(journal, plan, owned) : owned'[plan.prepare[i].res].own # "none"
  BY <1>1, <1>3, FinalizeRollbackType
<1>6. \A i \in journal.undone : plan.prepare[i].res \in Resources
  <2>1. \A i \in journal.undone : i \in 1..Len(plan.prepare)
    BY <1>1 DEF ValidJournal, Journal, ValidPlan, Plan
  <2> QED BY <1>1, <2>1 DEF ValidPlan, Plan, Mutation
<1>7. \A i \in journal.undone : owned[plan.prepare[i].res].deps = {}
  BY <1>4 DEF RollbackSteps
<1> QED BY <1>4, <1>5, <1>6, <1>7

\* Whatever was applied and not compensated has an ownership record when the
\* rollback closes, for every plan, resource set and interleaving of claims.
THEOREM RollbackForgets == StateSpec => RollbackForgetsNothing
<1>1. Inv /\ [StateNext]_stateVars =>
        [journal.status = "rolling_back" /\ journal'.status = "none" =>
           \A i \in 1..journal.applied :
             i \in journal.undone \/ owned'[plan.prepare[i].res].own # "none"]_stateVars
  BY RollbackCloses
<1> QED BY <1>1, InvInit, InvStep, PTL DEF StateSpec, RollbackForgetsNothing

\* No rollback closes while somebody claims what it took off the host.
THEOREM CompensatedUnclaimed == StateSpec => CompensatedStaysUnclaimed
<1>1. Inv /\ [StateNext]_stateVars =>
        [journal.status = "rolling_back" /\ journal'.status = "none" =>
           \A i \in journal.undone : owned'[plan.prepare[i].res].deps = {}]_stateVars
  BY RollbackCloses
<1> QED BY <1>1, InvInit, InvStep, PTL DEF StateSpec, CompensatedStaysUnclaimed

LEMMA CommitCloses ==
  ASSUME Inv, [StateNext]_stateVars, journal.status = "committing", journal'.status = "none"
  PROVE  /\ recorded'
         /\ \A m \in Mutations(plan) : /\ owned'[m.res].own \in {m.own, "depengine"}
                                       /\ Owner \in owned'[m.res].deps
         /\ \A u \in plan.uses : Owner \in owned'[u.res].deps
<1> DEFINE F == FinalizeCommit(plan, owned, Owner)
           C == ClaimResourceUses(F, Owner, plan.uses)
<1>1. ValidPlan(plan) /\ owned \in Snapshot /\ plan.uses \in SUBSET Use
  BY DEF Inv, TypeOK, JournalValid, Plan
<1>2. PICK tracked \in SUBSET Use : FinalizePreparationCommitWithTool(tracked)
  BY OnlyFinalizeCloses DEF FinalizePreparationRollback, CanFinalizeRollback
<1>3. recorded' /\ owned' = TrackResourceUses(C, tracked)
  BY <1>2 DEF FinalizePreparationCommitWithTool
<1>4. /\ F \in Snapshot
      /\ \A m \in Mutations(plan) : F[m.res].own = m.own /\ Owner \in F[m.res].deps
  BY <1>1, FinalizeCommitType, OwnerAssumption
<1>5. \A m \in Mutations(plan) : m.res \in Resources /\ m.own \in Ownership
  BY <1>1 DEF Mutations, ValidPlan, Plan, Mutation
<1>6. \A u \in plan.uses : u.res \in Resources
  BY <1>1 DEF Use
<1> HIDE DEF F
<1>7. /\ C \in Snapshot
      /\ \A r \in Resources : F[r].deps \subseteq C[r].deps
      /\ \A u \in plan.uses : Owner \in C[u.res].deps
  BY <1>1, <1>4, ClaimType, OwnerAssumption
<1>8. \A r \in Resources : F[r].own # "none" => C[r].own \in {F[r].own, "depengine"}
  BY OwnerOnlyRises, ClaimKeepsTracked, <1>1, <1>4, OwnerAssumption
<1> HIDE DEF C
<1>9. \A r \in Resources : owned'[r].deps = C[r].deps
  BY <1>3, <1>7, TrackType
<1>10. \A r \in Resources : C[r].own # "none" => owned'[r].own \in {C[r].own, "depengine"}
  BY <1>3, <1>7, OwnerOnlyRises
<1>11. \A m \in Mutations(plan) : owned'[m.res].own \in {m.own, "depengine"}
  <2>1. SUFFICES ASSUME NEW m \in Mutations(plan) PROVE owned'[m.res].own \in {m.own, "depengine"}
    OBVIOUS
  <2>2. F[m.res].own = m.own /\ m.own # "none" /\ m.res \in Resources
    BY <1>4, <1>5 DEF Ownership
  <2>3. C[m.res].own \in {m.own, "depengine"}
    BY <1>8, <2>2
  <2> QED BY <1>10, <2>2, <2>3
<1> QED BY <1>3, <1>4, <1>5, <1>6, <1>7, <1>9, <1>11

\* A commit closes only together with the tool's record and its claims on
\* everything that was prepared and on every use bound to the commit.
THEOREM CommitClaims == StateSpec => CommitClaimsEverything
<1>1. Inv /\ [StateNext]_stateVars =>
        [journal.status = "committing" /\ journal'.status = "none" =>
           /\ recorded'
           /\ \A m \in Mutations(plan) : owned'[m.res].own \in {m.own, "depengine"} /\ Owner \in owned'[m.res].deps
           /\ \A u \in plan.uses : Owner \in owned'[u.res].deps]_stateVars
  BY CommitCloses
<1> QED BY <1>1, InvInit, InvStep, PTL DEF StateSpec, CommitClaimsEverything
(***************************************************************************)
(* The steps of an attempt, and what its own journal is at each of them.   *)
(***************************************************************************)
AddLabels     == {"add", "record", "resolve"}
OpenLabels    == {"apply", "recheck", "resume", "unwind"} \cup AddLabels
InstallLabels == {"install", "verify", "reconcile"}
UndoLabels    == {"rb_plan", "rb_next", "rb_remove", "rb_record", "rb_resolve"}
Labels        == {"idle", "probe", "begin", "gate", "deps", "commit", "finalize", "done"}
                   \cup OpenLabels \cup InstallLabels \cup UndoLabels

\* The declared sources of t that an attempt may find missing, in order.
Orders(t) ==
  {f \in UNION {[1..n -> ConfiguredSet(t)] : n \in 0..Len(Configured[t])} :
     InOrder(f, t, {f[i] : i \in DOMAIN f})}

LocalType ==
  /\ phase \in [Procs -> {"start", "recover", "run"}]
  /\ pc \in [Procs -> [Tools -> Labels]]
  /\ tx \in [Procs -> [Tools -> {"none", "open", "bound"}]]
  /\ helpers \in [Procs -> [Tools -> SUBSET Tools]]
  /\ DOMAIN missing = Procs
  /\ \A p \in Procs : DOMAIN missing[p] = Tools
  /\ \A p \in Procs, t \in Tools : missing[p][t] \in Orders(t)

\* An attempt installs without a journal only for a root with nothing to
\* prepare and no prerequisite.
AttemptOK(p, t) ==
  /\ phase[p] = "start" => pc[p][t] = "idle"
  /\ phase[p] = "recover" => pc[p][t] \in {"idle", "done"} \cup UndoLabels
  /\ phase[p] # "run" \/ pc[p][t] \in {"idle", "probe", "begin"} => tx[p][t] = "none"
  /\ phase[p] = "run" =>
       /\ pc[p][t] \in OpenLabels => tx[p][t] = "open"
       /\ pc[p][t] \in {"gate", "deps", "commit"} => tx[p][t] # "bound"
       /\ pc[p][t] \in InstallLabels => tx[p][t] # "open"
       /\ pc[p][t] = "finalize" => tx[p][t] = "bound"
       /\ pc[p][t] \in UndoLabels => tx[p][t] # "none"
       /\ tx[p][t] = "none" /\ pc[p][t] \in {"gate", "deps", "commit"} \cup InstallLabels
            => t \in Roots
       /\ tx[p][t] = "none" /\ pc[p][t] \in {"commit"} \cup InstallLabels => Requires[t] = {}

LocalInv ==
  /\ LocalType
  /\ \A p \in Procs, t \in Tools : AttemptOK(p, t)

(***************************************************************************)
(* Who holds the state lock.                                               *)
(***************************************************************************)
Holding(p, t) ==
  \/ pc[p][t] \in {"apply", "recheck", "finalize"} \cup AddLabels \cup UndoLabels
  \/ tx[p][t] # "none" /\ pc[p][t] \in {"gate", "commit"} \cup InstallLabels

LockInv ==
  /\ lock \in {Free} \cup (Procs \X (Tools \cup {Recovery}))
  /\ \A p \in Procs : phase[p] = "recover" <=> lock = <<p, Recovery>>
  /\ \A p \in Procs, t \in Tools : phase[p] = "run" /\ Holding(p, t) => lock = <<p, t>>
  /\ \A p \in Procs, t, u \in Tools :
       phase[p] = "recover" /\ pc[p][t] \in UndoLabels /\ pc[p][u] \in UndoLabels => t = u

\* Nobody but the attempt (p, t) is at a step that needs the lock.
OthersWait(p, t) ==
  \A q \in Procs, u \in Tools : q # p \/ u # t => ~Holding(q, u)

LEMMA HolderIsAlone ==
  ASSUME LocalInv, LockInv, NEW p \in Procs, NEW t \in Tools, Holding(p, t)
  PROVE  /\ OthersWait(p, t)
         /\ lock = IF phase[p] = "recover" THEN <<p, Recovery>> ELSE <<p, t>>
<1>1. phase[p] # "start" /\ lock # Free
  BY LockAssumption DEF LocalInv, LocalType, LockInv, AttemptOK, Holding, AddLabels, UndoLabels,
     InstallLabels
<1>2. lock = IF phase[p] = "recover" THEN <<p, Recovery>> ELSE <<p, t>>
  BY <1>1 DEF LocalInv, LocalType, LockInv
<1>3. ASSUME NEW q \in Procs, NEW u \in Tools, q # p \/ u # t, Holding(q, u) PROVE FALSE
  <2>1. phase[q] # "start"
    BY <1>3 DEF LocalInv, AttemptOK, Holding, AddLabels, UndoLabels, InstallLabels
  <2>2. lock = IF phase[q] = "recover" THEN <<q, Recovery>> ELSE <<q, u>>
    BY <1>3, <2>1 DEF LocalInv, LocalType, LockInv
  <2>3. q = p /\ phase[p] = "recover"
    BY <1>2, <1>3, <2>2, LockAssumption
  <2>4. pc[p][t] \in UndoLabels /\ pc[p][u] \in UndoLabels
    BY <1>3, <2>3 DEF LocalInv, AttemptOK, Holding, AddLabels, UndoLabels, InstallLabels
  <2> QED BY <1>3, <2>3, <2>4 DEF LockInv
<1> QED BY <1>2, <1>3 DEF OthersWait

LEMMA FreeMeansNobody ==
  ASSUME LocalInv, LockInv, lock = Free
  PROVE  \A q \in Procs, u \in Tools : ~Holding(q, u)
<1> SUFFICES ASSUME NEW q \in Procs, NEW u \in Tools, Holding(q, u) PROVE FALSE
  OBVIOUS
<1> QED BY HolderIsAlone, LockAssumption

(***************************************************************************)
(* A step concerns one attempt, or resets one process.                     *)
(***************************************************************************)
Same(q, u) ==
  /\ pc'[q][u] = pc[q][u]
  /\ tx'[q][u] = tx[q][u]
  /\ helpers'[q][u] = helpers[q][u]
  /\ missing'[q][u] = missing[q][u]

OneMoves(p, t) ==
  /\ LocalType'
  /\ phase' = phase
  /\ \A q \in Procs, u \in Tools : q # p \/ u # t => Same(q, u)

Resets(p) ==
  /\ LocalType'
  /\ phase'[p] = "start"
  /\ \A u \in Tools : pc'[p][u] = "idle" /\ tx'[p][u] = "none"
  /\ \A q \in Procs \ {p} : phase'[q] = phase[q]
  /\ \A q \in Procs \ {p}, u \in Tools : Same(q, u)

LEMMA ContinueMoves ==
  ASSUME LocalInv, NEW p \in Procs, NEW t \in Tools, NEW label \in Labels, Continue(p, t, label)
  PROVE  /\ OneMoves(p, t)
         /\ pc'[p][t] = label /\ tx' = tx /\ helpers' = helpers /\ missing' = missing
BY DEF Continue, Go, LocalInv, LocalType, OneMoves, Same

LEMMA FinishMoves ==
  ASSUME LocalInv, NEW p \in Procs, NEW t \in Tools, NEW r, Finish(p, t, r)
  PROVE  /\ OneMoves(p, t)
         /\ pc'[p][t] = "done" /\ tx' = tx /\ helpers' = helpers /\ missing' = missing
BY DEF Finish, Go, LocalInv, LocalType, OneMoves, Same, Labels

LEMMA EmptyOrder == ASSUME NEW t \in Tools PROVE <<>> \in Orders(t)
<1>1. Len(Configured[t]) \in Nat
  BY ConfiguredAssumption
<1>2. <<>> \in [1..0 -> ConfiguredSet(t)]
  OBVIOUS
<1>3. InOrder(<<>>, t, {<<>>[i] : i \in DOMAIN <<>>})
  BY DEF InOrder
<1> QED BY <1>1, <1>2, <1>3 DEF Orders

LEMMA ResetMoves ==
  ASSUME LocalInv, NEW p \in Procs, Reset(p)
  PROVE  Resets(p)
<1>1. \A t \in Tools : <<>> \in Orders(t)
  BY EmptyOrder
<1> QED BY <1>1 DEF Reset, LocalInv, LocalType, Resets, Same, Labels

\* What an attempt's step may do to the lock.
LockMoves(p, t) ==
  \/ lock' = lock
  \/ lock = Free /\ lock' = <<p, t>>
  \/ lock = <<p, t>> /\ lock' = Free

LEMMA MoveKeeps ==
  ASSUME LocalInv, LockInv, NEW p \in Procs, NEW t \in Tools,
         OneMoves(p, t), LockMoves(p, t), AttemptOK(p, t)',
         phase[p] = "run" /\ Holding(p, t)' => lock' = <<p, t>>,
         phase[p] = "recover" /\ pc'[p][t] \in UndoLabels
           => pc[p][t] \in UndoLabels \/ \A u \in Tools : pc[p][u] \notin UndoLabels
  PROVE  LocalInv' /\ LockInv'
<1>1. LocalInv'
  BY DEF LocalInv, OneMoves, AttemptOK, Same
<1>2. lock' \in {Free} \cup (Procs \X (Tools \cup {Recovery}))
  BY DEF LockInv, LockMoves
<1>3. ASSUME NEW q \in Procs PROVE phase'[q] = "recover" <=> lock' = <<q, Recovery>>
  BY LockAssumption DEF LockInv, LockMoves, OneMoves
<1>4. ASSUME NEW q \in Procs, NEW u \in Tools, phase'[q] = "run", Holding(q, u)'
      PROVE  lock' = <<q, u>>
  <2>1. CASE q = p /\ u = t
    BY <1>4, <2>1 DEF OneMoves
  <2>2. CASE q # p \/ u # t
    <3>1. phase[q] = "run" /\ Holding(q, u)
      BY <1>4, <2>2 DEF OneMoves, Same, Holding
    <3>2. lock = <<q, u>>
      BY <3>1 DEF LockInv
    <3>3. lock # Free /\ lock # <<p, t>>
      BY <2>2, <3>2, LockAssumption
    <3> QED BY <3>2, <3>3 DEF LockMoves
  <2> QED BY <2>1, <2>2
<1>5. ASSUME NEW q \in Procs, NEW u \in Tools, NEW v \in Tools,
             phase'[q] = "recover", pc'[q][u] \in UndoLabels, pc'[q][v] \in UndoLabels
      PROVE  u = v
  BY <1>5 DEF LockInv, OneMoves, Same
<1> QED BY <1>1, <1>2, <1>3, <1>4, <1>5 DEF LockInv

LEMMA ResetKeeps ==
  ASSUME LocalInv, LockInv, NEW p \in Procs, Resets(p),
         IF lock \in {p} \X (Tools \cup {Recovery}) THEN lock' = Free ELSE lock' = lock
  PROVE  LocalInv' /\ LockInv'
<1>1. LocalInv'
  BY DEF LocalInv, Resets, AttemptOK, Same
<1>2. lock' \in {Free} \cup (Procs \X (Tools \cup {Recovery}))
  BY DEF LockInv
<1>3. ASSUME NEW q \in Procs PROVE phase'[q] = "recover" <=> lock' = <<q, Recovery>>
  BY LockAssumption DEF LockInv, Resets
<1>4. ASSUME NEW q \in Procs, NEW u \in Tools, phase'[q] = "run", Holding(q, u)'
      PROVE  lock' = <<q, u>>
  <2>1. q # p
    BY <1>4 DEF Resets
  <2>2. phase[q] = "run" /\ Holding(q, u)
    BY <1>4, <2>1 DEF Resets, Same, Holding
  <2> QED BY <2>1, <2>2 DEF LockInv
<1>5. ASSUME NEW q \in Procs, NEW u \in Tools, NEW v \in Tools,
             phase'[q] = "recover", pc'[q][u] \in UndoLabels, pc'[q][v] \in UndoLabels
      PROVE  u = v
  BY <1>5 DEF LockInv, Resets, Same
<1> QED BY <1>1, <1>2, <1>3, <1>4, <1>5 DEF LockInv

\* The holder of the lock, or whoever finds it free, may abort.
Entitled(p, t) ==
  \/ phase[p] = "recover"
  \/ phase[p] = "run" /\ lock \in {Free, <<p, t>>}

LEMMA HolderEntitled ==
  ASSUME LocalInv, LockInv, NEW p \in Procs, NEW t \in Tools, Holding(p, t)
  PROVE  Entitled(p, t) /\ (phase[p] = "run" => lock = <<p, t>>)
<1>1. phase[p] # "start"
  BY DEF LocalInv, AttemptOK, Holding, AddLabels, UndoLabels, InstallLabels
<1> QED BY <1>1 DEF LocalInv, LocalType, LockInv, Entitled

LEMMA AbortKeeps ==
  ASSUME LocalInv, LockInv, NEW p \in Procs, NEW t \in Tools, Entitled(p, t),
         pc[p][t] \notin {"idle", "probe"} \/ phase[p] = "recover", Abort(p, t)
  PROVE  LocalInv' /\ LockInv' /\ lock' = Free
<1>1. lock' = Free
  BY DEF Abort, Release
<1>2. CASE phase[p] = "recover"
  <2>1. lock = <<p, Recovery>>
    BY <1>2 DEF LockInv
  <2>2. Resets(p)
    BY <1>2, ResetMoves DEF Abort
  <2> QED BY <1>1, <2>1, <2>2, ResetKeeps
<1>3. CASE phase[p] # "recover"
  <2>1. phase[p] = "run" /\ Finish(p, t, "failed") /\ lock \in {Free, <<p, t>>}
    BY <1>3 DEF Abort, Entitled
  <2>2. OneMoves(p, t) /\ pc'[p][t] = "done" /\ tx' = tx
    BY <2>1, FinishMoves
  <2>3. AttemptOK(p, t)'
    BY <2>1, <2>2 DEF AttemptOK, OneMoves, OpenLabels, AddLabels, InstallLabels, UndoLabels
  <2>4. ~Holding(p, t)'
    BY <2>2 DEF Holding, AddLabels, InstallLabels, UndoLabels
  <2> QED BY <1>1, <1>3, <2>1, <2>2, <2>3, <2>4, MoveKeeps DEF LockMoves
<1> QED BY <1>2, <1>3

\* The step label is one (p, t) may go to while it holds the lock.
Fits(p, t, label) ==
  \/ phase[p] = "recover" /\ label = "idle"
  \/ phase[p] = "recover" /\ label \in UndoLabels /\ pc[p][t] \in UndoLabels
  \/ /\ phase[p] = "run" /\ lock = <<p, t>>
     /\ \/ tx[p][t] = "open" /\ label \in {"apply", "recheck"} \cup AddLabels
        \/ tx[p][t] # "none" /\ label \in UndoLabels

LEMMA FitKeeps ==
  ASSUME LocalInv, LockInv, NEW p \in Procs, NEW t \in Tools, NEW label, Fits(p, t, label),
         Continue(p, t, label), lock' = lock
  PROVE  LocalInv' /\ LockInv'
<1>1. label \in Labels
  BY DEF Fits, Labels, OpenLabels
<1>2. OneMoves(p, t) /\ pc'[p][t] = label /\ tx' = tx
  BY <1>1, ContinueMoves
<1>3. AttemptOK(p, t)'
  BY <1>2 DEF Fits, AttemptOK, LocalInv, OneMoves, OpenLabels, AddLabels, InstallLabels,
     UndoLabels
<1>4. phase[p] = "run" => lock' = <<p, t>>
  BY DEF Fits
<1>5. phase[p] = "recover" /\ pc'[p][t] \in UndoLabels => pc[p][t] \in UndoLabels
  BY <1>2 DEF Fits, UndoLabels
<1> QED BY <1>2, <1>3, <1>4, <1>5, MoveKeeps DEF LockMoves

LEMMA PersistKeeps ==
  ASSUME LocalInv, LockInv, NEW p \in Procs, NEW t \in Tools, NEW label, Fits(p, t, label),
         pc[p][t] \notin {"idle", "probe"} \/ phase[p] = "recover",
         NEW j, Persist(p, t, j, label)
  PROVE  LocalInv' /\ LockInv'
<1>1. CASE Continue(p, t, label) /\ lock' = lock
  BY <1>1, FitKeeps
<1>2. CASE Abort(p, t)
  <2>1. Entitled(p, t)
    BY DEF Fits, Entitled
  <2> QED BY <1>2, <2>1, AbortKeeps
<1> QED BY <1>1, <1>2 DEF Persist

\* An attempt that ends its own way.
LEMMA FinishKeeps ==
  ASSUME LocalInv, LockInv, NEW p \in Procs, NEW t \in Tools, NEW r, Finish(p, t, r),
         phase[p] = "run", pc[p][t] \notin {"idle", "probe"} \/ tx[p][t] = "none", LockMoves(p, t)
  PROVE  LocalInv' /\ LockInv'
<1>1. OneMoves(p, t) /\ pc'[p][t] = "done" /\ tx' = tx
  BY FinishMoves
<1>2. AttemptOK(p, t)'
  BY <1>1 DEF AttemptOK, OneMoves, OpenLabels, AddLabels, InstallLabels, UndoLabels
<1>3. ~Holding(p, t)'
  BY <1>1 DEF Holding, AddLabels, InstallLabels, UndoLabels
<1> QED BY <1>1, <1>2, <1>3, MoveKeeps

\* Any other step within a run.
LEMMA RunKeeps ==
  ASSUME LocalInv, LockInv, NEW p \in Procs, NEW t \in Tools, phase[p] = "run",
         OneMoves(p, t), LockMoves(p, t), AttemptOK(p, t)',
         Holding(p, t)' => lock' = <<p, t>>
  PROVE  LocalInv' /\ LockInv'
BY MoveKeeps

LEMMA RollBackKeeps ==
  ASSUME LocalInv, LockInv, NEW p \in Procs, NEW t \in Tools, RollBack(p, t),
         pc[p][t] \in {"gate", "commit"}
  PROVE  LocalInv' /\ LockInv'
<1>1. phase[p] = "run"
  BY DEF LocalInv, LocalType, AttemptOK, UndoLabels
<1>2. CASE tx[p][t] = "none"
  <2>1. Finish(p, t, "failed") /\ lock' = lock
    BY <1>2 DEF RollBack, GiveUp
  <2> QED BY <1>1, <1>2, <2>1, FinishKeeps DEF LockMoves
<1>3. CASE tx[p][t] # "none"
  <2>1. Continue(p, t, "rb_plan") /\ lock' = lock
    BY <1>3 DEF RollBack
  <2>2. lock = <<p, t>>
    BY <1>1, <1>3 DEF LockInv, Holding
  <2>3. Fits(p, t, "rb_plan")
    BY <1>1, <1>3, <2>2 DEF Fits, UndoLabels
  <2> QED BY <2>1, <2>3, FitKeeps
<1> QED BY <1>2, <1>3

LEMMA GiveUpKeeps ==
  ASSUME LocalInv, LockInv, NEW p \in Procs, NEW t \in Tools, GiveUp(p, t),
         pc[p][t] \in InstallLabels
  PROVE  LocalInv' /\ LockInv'
<1>1. phase[p] = "run"
  BY DEF LocalInv, LocalType, AttemptOK, UndoLabels, InstallLabels
<1>2. CASE tx[p][t] = "none"
  <2>1. Finish(p, t, "failed") /\ lock' = lock
    BY <1>2 DEF GiveUp
  <2> QED BY <1>1, <1>2, <2>1, FinishKeeps DEF LockMoves
<1>3. CASE tx[p][t] # "none"
  <2>1. lock = <<p, t>>
    BY <1>1, <1>3 DEF LockInv, Holding
  <2>2. pc[p][t] \notin {"idle", "probe"} /\ Abort(p, t) /\ Entitled(p, t)
    BY <1>1, <1>3, <2>1 DEF GiveUp, Entitled, InstallLabels
  <2> QED BY <2>2, AbortKeeps
<1> QED BY <1>2, <1>3

(***************************************************************************)
(* Every action keeps the lock discipline.                                 *)
(***************************************************************************)
LEMMA StartRunLocal ==
  ASSUME LocalInv, LockInv, NEW p \in Procs, StartRun(p)
  PROVE  LocalInv' /\ LockInv'
<1>1. /\ lock = Free /\ lock' = <<p, Recovery>> /\ phase[p] = "start"
      /\ phase' = [phase EXCEPT ![p] = "recover"]
      /\ pc' = pc /\ missing' = missing /\ helpers' = helpers /\ tx' = tx
  BY DEF StartRun
<1>2. \A t \in Tools : pc[p][t] = "idle" /\ tx[p][t] = "none"
  BY <1>1 DEF LocalInv, AttemptOK
<1>3. LocalInv'
  BY <1>1, <1>2 DEF LocalInv, LocalType, AttemptOK
<1>4. \A q \in Procs, u \in Tools : ~(phase[q] = "run" /\ Holding(q, u))
  BY <1>1, FreeMeansNobody
<1>5. \A q \in Procs : phase[q] # "recover"
  BY <1>1, LockAssumption DEF LockInv
<1>6. \A q \in Procs : phase'[q] = "recover" <=> q = p
  BY <1>1, <1>5 DEF LocalInv, LocalType
<1>7. \A q \in Procs, u \in Tools : ~(phase'[q] = "run" /\ Holding(q, u)')
  BY <1>1, <1>2, <1>4 DEF LocalInv, LocalType, Holding
<1>8. \A t \in Tools : pc'[p][t] \notin UndoLabels
  BY <1>1, <1>2 DEF UndoLabels
<1>9. lock' \in {Free} \cup (Procs \X (Tools \cup {Recovery}))
  BY <1>1
<1> QED BY <1>1, <1>3, <1>6, <1>7, <1>8, <1>9 DEF LockInv

LEMMA RecoverDoneLocal ==
  ASSUME LocalInv, LockInv, NEW p \in Procs, RecoverDone(p)
  PROVE  LocalInv' /\ LockInv'
<1>1. /\ lock' = Free /\ phase[p] = "recover" /\ phase' = [phase EXCEPT ![p] = "run"]
      /\ pc' = pc /\ missing' = missing /\ helpers' = helpers /\ tx' = tx
      /\ \A t \in Tools : pc[p][t] \in {"idle", "done"}
  BY DEF RecoverDone, Release
<1>2. lock = <<p, Recovery>> /\ \A t \in Tools : tx[p][t] = "none"
  BY <1>1 DEF LocalInv, LocalType, AttemptOK, LockInv
<1>3. LocalInv'
  BY <1>1, <1>2 DEF LocalInv, LocalType, AttemptOK, OpenLabels, AddLabels, InstallLabels,
     UndoLabels
<1>4. \A q \in Procs, u \in Tools : ~(phase[q] = "run" /\ Holding(q, u))
  BY <1>2, LockAssumption DEF LockInv
<1>5. \A q \in Procs : phase'[q] # "recover"
  BY <1>1, <1>2 DEF LockInv, LocalInv, LocalType
<1>6. \A q \in Procs, u \in Tools : ~(phase'[q] = "run" /\ Holding(q, u)')
  BY <1>1, <1>4 DEF LocalInv, LocalType, Holding, AddLabels, UndoLabels, InstallLabels
<1> QED BY <1>1, <1>3, <1>5, <1>6, LockAssumption DEF LockInv

\* What recovery sees when it picks a journal.
LEMMA RecoveringFacts ==
  ASSUME LocalInv, LockInv, NEW p \in Procs, NEW t \in Tools, NEW S, Recovering(p, t, S)
  PROVE  /\ phase[p] = "recover" /\ lock = <<p, Recovery>> /\ Entitled(p, t)
         /\ \A u \in Tools : pc[p][u] \notin UndoLabels
         /\ Fits(p, t, "idle")
         /\ \A q \in Procs, u \in Tools : ~Holding(q, u)
<1>1. /\ phase[p] = "recover" /\ lock = <<p, Recovery>> /\ Entitled(p, t)
      /\ \A u \in Tools : pc[p][u] \in {"idle", "done"}
      /\ Fits(p, t, "idle")
  BY DEF Recovering, LockInv, Entitled, Fits
<1>2. \A u \in Tools : ~Holding(p, u)
  BY <1>1 DEF Holding, AddLabels, UndoLabels, InstallLabels
<1>3. ASSUME NEW q \in Procs, NEW u \in Tools, Holding(q, u) PROVE FALSE
  <2>1. lock = IF phase[q] = "recover" THEN <<q, Recovery>> ELSE <<q, u>>
    BY <1>3, HolderIsAlone
  <2> QED BY <1>1, <1>2, <1>3, <2>1, LockAssumption
<1> QED BY <1>1, <1>3 DEF UndoLabels

LEMMA RecoverLocal ==
  ASSUME LocalInv, LockInv, NEW p \in Procs, NEW t \in Tools,
         \/ RecoverApplying(p, t) \/ RecoverUndoing(p, t)
         \/ RecoverRollback(p, t) \/ RecoverCommit(p, t)
  PROVE  LocalInv' /\ LockInv'
<1>1. PICK S : Recovering(p, t, S)
  BY DEF RecoverApplying, RecoverUndoing, RecoverRollback, RecoverCommit
<1>2. /\ phase[p] = "recover" /\ lock = <<p, Recovery>> /\ Entitled(p, t)
      /\ \A u \in Tools : pc[p][u] \notin UndoLabels
      /\ Fits(p, t, "idle")
  BY <1>1, RecoveringFacts
<1>3. ASSUME Abort(p, t) PROVE LocalInv' /\ LockInv'
  BY <1>2, <1>3, AbortKeeps
<1>4. ASSUME NEW j, Persist(p, t, j, "idle") PROVE LocalInv' /\ LockInv'
  BY <1>2, <1>4, PersistKeeps
<1>5. ASSUME NEW label \in {"done", "rb_plan", "rb_next"}, Go(p, t, label), lock' = lock,
             UNCHANGED <<phase, missing, helpers, tx>>
      PROVE  LocalInv' /\ LockInv'
  <2>1. OneMoves(p, t) /\ pc'[p][t] = label /\ tx' = tx
    BY <1>5 DEF Go, LocalInv, LocalType, OneMoves, Same, Labels, UndoLabels
  <2>2. AttemptOK(p, t)'
    BY <1>2, <2>1 DEF LocalInv, AttemptOK, OneMoves, UndoLabels
  <2> QED BY <1>2, <1>5, <2>1, <2>2, MoveKeeps DEF LockMoves
<1>6. CASE RecoverApplying(p, t)
  BY <1>3, <1>4, <1>6 DEF RecoverApplying, ProbeFails
<1>7. CASE RecoverUndoing(p, t)
  BY <1>3, <1>4, <1>7 DEF RecoverUndoing, ProbeFails, Refused
<1>8. CASE RecoverRollback(p, t)
  BY <1>3, <1>5, <1>8 DEF RecoverRollback, Refused, Continue
<1>9. CASE RecoverCommit(p, t)
  BY <1>3, <1>5, <1>9 DEF RecoverCommit, Refused, ProbeFails
<1> QED BY <1>6, <1>7, <1>8, <1>9

\* A source list that a probe returns is one of the orders.
LEMMA ProbeOrders ==
  ASSUME NEW t \in Tools, NEW absent, absent \subseteq ConfiguredSet(t),
         NEW m \in [1..Cardinality(absent) -> absent], InOrder(m, t, absent)
  PROVE  m \in Orders(t) /\ Len(m) = Cardinality(absent) /\ Cardinality(absent) \in Nat
<1>1. Len(Configured[t]) \in Nat /\ Configured[t] \in Seq(Sources)
  BY ConfiguredAssumption
<1>2. /\ IsFiniteSet(1..Len(Configured[t]))
      /\ Cardinality(1..Len(Configured[t])) = Len(Configured[t])
  <2>1. /\ IsFiniteSet(1..Len(Configured[t]))
        /\ Cardinality(1..Len(Configured[t])) =
             IF 1 > Len(Configured[t]) THEN 0 ELSE Len(Configured[t]) - 1 + 1
    <3>1. 1 \in Int /\ Len(Configured[t]) \in Int
      BY <1>1
    <3> QED BY <3>1, FS_Interval, Zenon
  <2> QED BY <1>1, <2>1
<1>3. /\ IsFiniteSet(ConfiguredSet(t))
      /\ Cardinality(ConfiguredSet(t)) <= Cardinality(1..Len(Configured[t]))
  <2>1. Configured[t] \in Surjection(1..Len(Configured[t]), ConfiguredSet(t))
    BY <1>1 DEF ConfiguredSet, Surjection
  <2> QED BY <1>2, <2>1, FS_Surjection
<1>4. /\ IsFiniteSet(absent) /\ Cardinality(absent) \in Nat
      /\ Cardinality(absent) <= Cardinality(ConfiguredSet(t))
      /\ Cardinality(ConfiguredSet(t)) \in Nat
  BY <1>3, FS_Subset, FS_CardinalityType
<1>5. Cardinality(absent) \in 0..Len(Configured[t])
  BY <1>1, <1>2, <1>3, <1>4
<1>6. m \in [1..Cardinality(absent) -> ConfiguredSet(t)]
  OBVIOUS
<1>7. {m[i] : i \in DOMAIN m} = absent
  <2>1. Len(m) = Cardinality(absent) /\ DOMAIN m = 1..Len(m)
    BY <1>4
  <2> QED BY <2>1 DEF InOrder
<1>8. InOrder(m, t, {m[i] : i \in DOMAIN m})
  BY <1>7
<1>9. Len(m) = Cardinality(absent)
  BY <1>4
<1> QED BY <1>4, <1>5, <1>6, <1>8, <1>9 DEF Orders

(***************************************************************************)
(* The attempt's own steps.                                                *)
(***************************************************************************)
\* An attempt at one of these steps belongs to a run.
LEMMA AtRun ==
  ASSUME LocalInv, NEW p \in Procs, NEW t \in Tools,
         pc[p][t] \notin {"idle", "done"} \cup UndoLabels
  PROVE  phase[p] = "run"
BY DEF LocalInv, LocalType, AttemptOK

LEMMA ProbeLocal ==
  ASSUME LocalInv, LockInv, NEW p \in Procs, NEW t \in Tools,
         StartAttempt(p, t) \/ ProbeSources(p, t)
  PROVE  LocalInv' /\ LockInv'
<1>1. CASE StartAttempt(p, t)
  <2>1. phase[p] = "run" /\ pc[p][t] = "idle" /\ lock' = lock /\ tx[p][t] = "none"
    BY <1>1 DEF StartAttempt, At, LocalInv, AttemptOK
  <2>2. CASE Continue(p, t, "probe")
    <3>1. OneMoves(p, t) /\ pc'[p][t] = "probe" /\ tx' = tx
      BY <2>2, ContinueMoves DEF Labels
    <3>2. AttemptOK(p, t)' /\ ~Holding(p, t)'
      BY <2>1, <3>1 DEF AttemptOK, OneMoves, Holding, OpenLabels, AddLabels, InstallLabels,
         UndoLabels
    <3> QED BY <2>1, <3>1, <3>2, RunKeeps DEF LockMoves
  <2>3. CASE Finish(p, t, "failed")
    BY <2>1, <2>3, FinishKeeps DEF LockMoves
  <2> QED BY <1>1, <2>2, <2>3 DEF StartAttempt
<1>2. CASE ProbeSources(p, t)
  <2> DEFINE absent == {s \in ConfiguredSet(t) : ~Present(s)}
             next == IF absent = {} /\ t \in Roots THEN "gate" ELSE "begin"
  <2>1. pc[p][t] = "probe" /\ lock' = lock /\ phase[p] = "run" /\ tx[p][t] = "none"
    BY <1>2, AtRun DEF ProbeSources, At, UndoLabels, LocalInv, AttemptOK
  <2>2. CASE Finish(p, t, "failed")
    BY <2>1, <2>2, FinishKeeps DEF LockMoves
  <2>3. CASE ~Finish(p, t, "failed")
    <3>1. /\ Go(p, t, next) /\ UNCHANGED <<phase, helpers, tx>>
          /\ \E m \in [1..Cardinality(absent) -> absent] :
               InOrder(m, t, absent) /\ missing' = [missing EXCEPT ![p][t] = m]
      BY <1>2, <2>3 DEF ProbeSources
    <3>2. PICK m \in [1..Cardinality(absent) -> absent] :
            InOrder(m, t, absent) /\ missing' = [missing EXCEPT ![p][t] = m]
      BY <3>1, Zenon
    <3>3. m \in Orders(t)
      BY <3>2, ProbeOrders
    <3> HIDE DEF absent
    <3>4. OneMoves(p, t) /\ pc'[p][t] \in {"gate", "begin"} /\ tx' = tx
            /\ (pc'[p][t] = "gate" => t \in Roots)
      BY <3>1, <3>2, <3>3 DEF Go, LocalInv, LocalType, OneMoves, Same, Labels
    <3>5. AttemptOK(p, t)' /\ ~Holding(p, t)'
      BY <2>1, <3>4 DEF AttemptOK, OneMoves, Holding, OpenLabels, AddLabels, InstallLabels,
         UndoLabels
    <3> QED BY <2>1, <3>4, <3>5, RunKeeps DEF LockMoves
  <2> QED BY <2>2, <2>3
<1> QED BY <1>1, <1>2

LEMMA BeginLocal ==
  ASSUME LocalInv, LockInv, NEW p \in Procs, NEW t \in Tools, OpenJournal(p, t)
  PROVE  LocalInv' /\ LockInv'
<1>1. pc[p][t] = "begin" /\ phase[p] = "run" /\ tx[p][t] = "none"
  BY AtRun DEF OpenJournal, At, UndoLabels, LocalInv, AttemptOK
<1>2. CASE Finish(p, t, "failed") /\ lock' = lock
  BY <1>1, <1>2, FinishKeeps DEF LockMoves
<1>3. CASE lock = Free /\ Abort(p, t)
  BY <1>1, <1>3, AbortKeeps DEF Entitled
<1>4. CASE /\ lock = Free /\ lock' = <<p, t>>
           /\ tx' = [tx EXCEPT ![p][t] = "open"]
           /\ \E next \in {"commit", "gate", "apply"} : Go(p, t, next)
           /\ UNCHANGED <<phase, missing, helpers>>
  <2>1. OneMoves(p, t) /\ pc'[p][t] \in {"commit", "gate", "apply"} /\ tx'[p][t] = "open"
    BY <1>4 DEF Go, LocalInv, LocalType, OneMoves, Same, Labels, OpenLabels
  <2>2. AttemptOK(p, t)'
    BY <1>1, <2>1 DEF AttemptOK, OneMoves, OpenLabels, AddLabels, InstallLabels, UndoLabels
  <2> QED BY <1>1, <1>4, <2>1, <2>2, RunKeeps DEF LockMoves
<1> QED BY <1>2, <1>3, <1>4 DEF OpenJournal, Refused

LEMMA AddLocal ==
  ASSUME LocalInv, LockInv, NEW p \in Procs, NEW t \in Tools,
         \/ PlanApplyNext(p, t) \/ AddSourceToHost(p, t) \/ ConfirmAdd(p, t)
         \/ ResolveFailedAdd(p, t) \/ RecheckAvailability(p, t)
  PROVE  LocalInv' /\ LockInv'
<1>1. pc[p][t] \in {"apply", "recheck"} \cup AddLabels
  BY DEF PlanApplyNext, AddSourceToHost, ConfirmAdd, ResolveFailedAdd, RecheckAvailability, At,
     AddLabels
<1>2. phase[p] = "run" /\ tx[p][t] = "open" /\ lock = <<p, t>> /\ pc[p][t] \notin {"idle", "probe"}
  <2>1. phase[p] = "run"
    BY <1>1, AtRun DEF UndoLabels, AddLabels
  <2> QED BY <1>1, <2>1 DEF LocalInv, AttemptOK, LockInv, Holding, OpenLabels, AddLabels
<1>3. \A label \in {"apply", "add", "record", "resolve", "recheck", "rb_plan"} : Fits(p, t, label)
  BY <1>2 DEF Fits, AddLabels, UndoLabels
<1>4. ASSUME NEW j, NEW label \in {"apply", "add", "recheck", "rb_plan"}, Persist(p, t, j, label)
      PROVE  LocalInv' /\ LockInv'
  BY <1>2, <1>3, <1>4, PersistKeeps
<1>5. ASSUME NEW label \in {"record", "resolve", "rb_plan"}, Continue(p, t, label), lock' = lock
      PROVE  LocalInv' /\ LockInv'
  BY <1>3, <1>5, FitKeeps
<1>6. CASE PlanApplyNext(p, t)
  BY <1>4, <1>6 DEF PlanApplyNext
<1>7. CASE AddSourceToHost(p, t)
  BY <1>5, <1>7 DEF AddSourceToHost
<1>8. CASE ConfirmAdd(p, t)
  BY <1>4, <1>8 DEF ConfirmAdd
<1>9. CASE ResolveFailedAdd(p, t)
  <2>1. Entitled(p, t)
    BY <1>2 DEF Entitled
  <2> QED BY <1>2, <1>4, <1>9, <2>1, AbortKeeps DEF ResolveFailedAdd, ProbeFails
<1>10. CASE RecheckAvailability(p, t)
  <2>1. CASE Continue(p, t, "gate")
    <3>1. OneMoves(p, t) /\ pc'[p][t] = "gate" /\ tx' = tx
      BY <2>1, ContinueMoves DEF Labels
    <3>2. AttemptOK(p, t)'
      BY <1>2, <3>1 DEF AttemptOK, OneMoves, OpenLabels, AddLabels, InstallLabels, UndoLabels
    <3> QED BY <1>2, <1>10, <3>1, <3>2, RunKeeps DEF RecheckAvailability, LockMoves
  <2> QED BY <1>5, <1>10, <2>1 DEF RecheckAvailability
<1> QED BY <1>6, <1>7, <1>8, <1>9, <1>10

LEMMA GateLocal ==
  ASSUME LocalInv, LockInv, NEW p \in Procs, NEW t \in Tools, GateAlreadyInstalled(p, t)
  PROVE  LocalInv' /\ LockInv'
<1>1. pc[p][t] = "gate" /\ phase[p] = "run" /\ tx[p][t] \in {"none", "open"}
  <2>1. pc[p][t] = "gate" /\ phase[p] = "run"
    BY AtRun DEF GateAlreadyInstalled, At, UndoLabels
  <2> QED BY <2>1 DEF LocalInv, LocalType, AttemptOK
<1>2. tx[p][t] # "none" => lock = <<p, t>>
  BY <1>1 DEF LockInv, Holding
<1>3. CASE /\ Go(p, t, IF tx[p][t] = "none" THEN "done" ELSE "rb_plan")
           /\ UNCHANGED <<lock, phase, missing, helpers, tx>>
  <2>1. /\ OneMoves(p, t) /\ tx' = tx
        /\ pc'[p][t] = IF tx[p][t] = "none" THEN "done" ELSE "rb_plan"
    BY <1>3 DEF Go, LocalInv, LocalType, OneMoves, Same, Labels, UndoLabels
  <2>2. AttemptOK(p, t)'
    BY <1>1, <2>1 DEF AttemptOK, OneMoves, OpenLabels, AddLabels, InstallLabels, UndoLabels
  <2>3. Holding(p, t)' => tx[p][t] # "none"
    BY <2>1 DEF Holding, AddLabels, InstallLabels, UndoLabels
  <2> QED BY <1>1, <1>2, <1>3, <2>1, <2>2, <2>3, RunKeeps DEF LockMoves
<1>4. CASE Finish(p, t, "failed") /\ lock' = lock
  BY <1>1, <1>4, FinishKeeps DEF LockMoves
<1>5. CASE RollBack(p, t)
  BY <1>1, <1>5, RollBackKeeps
<1>6. CASE Continue(p, t, "deps") /\ (IF tx[p][t] = "none" THEN UNCHANGED <<lock, mem>> ELSE Release)
  <2>1. OneMoves(p, t) /\ pc'[p][t] = "deps" /\ tx' = tx
    BY <1>6, ContinueMoves DEF Labels
  <2>2. AttemptOK(p, t)' /\ ~Holding(p, t)'
    BY <1>1, <2>1 DEF LocalInv, AttemptOK, OneMoves, Holding, OpenLabels, AddLabels,
       InstallLabels,
       UndoLabels
  <2>3. LockMoves(p, t)
    BY <1>2, <1>6 DEF LockMoves, Release
  <2> QED BY <1>1, <2>1, <2>2, <2>3, RunKeeps
<1> QED BY <1>3, <1>4, <1>5, <1>6 DEF GateAlreadyInstalled

LEMMA DependenciesLocal ==
  ASSUME LocalInv, LockInv, NEW p \in Procs, NEW t \in Tools,
         EnsureDependencies(p, t) \/ ResumeTransaction(p, t)
  PROVE  LocalInv' /\ LockInv'
<1>1. CASE EnsureDependencies(p, t)
  <2>1. /\ pc[p][t] = "deps" /\ phase[p] = "run" /\ lock' = lock
        /\ tx[p][t] \in {"none", "open"} /\ (tx[p][t] = "none" => t \in Roots)
    <3>1. pc[p][t] = "deps" /\ phase[p] = "run" /\ lock' = lock
      BY <1>1, AtRun DEF EnsureDependencies, At, UndoLabels
    <3> QED BY <3>1 DEF LocalInv, LocalType, AttemptOK
  <2>2. CASE /\ \E S \in SUBSET Tools : helpers' = [helpers EXCEPT ![p][t] = S]
             /\ Go(p, t, IF tx[p][t] # "none" THEN "resume"
                         ELSE IF Requires[t] = {} THEN "commit" ELSE "begin")
             /\ UNCHANGED <<phase, missing, tx>>
    <3>1. /\ OneMoves(p, t) /\ tx' = tx
          /\ pc'[p][t] = IF tx[p][t] # "none" THEN "resume"
                         ELSE IF Requires[t] = {} THEN "commit" ELSE "begin"
      BY <2>2 DEF Go, LocalInv, LocalType, OneMoves, Same, Labels, OpenLabels
    <3>2. AttemptOK(p, t)' /\ ~Holding(p, t)'
      BY <2>1, <3>1 DEF AttemptOK, OneMoves, Holding, OpenLabels, AddLabels, InstallLabels,
         UndoLabels
    <3> QED BY <2>1, <3>1, <3>2, RunKeeps DEF LockMoves
  <2>3. CASE Finish(p, t, "failed")
    BY <2>1, <2>3, FinishKeeps DEF LockMoves
  <2>4. CASE tx[p][t] # "none" /\ Continue(p, t, "unwind")
    <3>1. OneMoves(p, t) /\ pc'[p][t] = "unwind" /\ tx' = tx
      BY <2>4, ContinueMoves DEF Labels, OpenLabels
    <3>2. AttemptOK(p, t)' /\ ~Holding(p, t)'
      BY <2>1, <2>4, <3>1 DEF AttemptOK, OneMoves, Holding, OpenLabels, AddLabels, InstallLabels,
         UndoLabels
    <3> QED BY <2>1, <3>1, <3>2, RunKeeps DEF LockMoves
  <2>5. {d \in Requires[t] : result[p][d] \in {"installed", "recovered"}} \in SUBSET Tools
    BY RequiresAssumption
  <2> QED BY <1>1, <2>2, <2>3, <2>4, <2>5 DEF EnsureDependencies
<1>2. CASE ResumeTransaction(p, t)
  <2>1. pc[p][t] \in {"resume", "unwind"} /\ phase[p] = "run" /\ tx[p][t] = "open"
    <3>1. pc[p][t] \in {"resume", "unwind"} /\ phase[p] = "run"
      BY <1>2, AtRun DEF ResumeTransaction, UndoLabels
    <3> QED BY <3>1 DEF LocalInv, AttemptOK, OpenLabels
  <2>2. CASE Finish(p, t, "failed") /\ lock' = lock
    BY <2>1, <2>2, FinishKeeps DEF LockMoves
  <2>3. CASE /\ lock = Free /\ lock' = <<p, t>>
             /\ \E label \in {"commit", "rb_plan"} : Continue(p, t, label)
    <3>1. OneMoves(p, t) /\ pc'[p][t] \in {"commit", "rb_plan"} /\ tx' = tx
      BY <2>3, ContinueMoves DEF Labels, UndoLabels
    <3>2. AttemptOK(p, t)'
      BY <2>1, <3>1 DEF AttemptOK, OneMoves, OpenLabels, AddLabels, InstallLabels, UndoLabels
    <3> QED BY <2>1, <2>3, <3>1, <3>2, RunKeeps DEF LockMoves
  <2> QED BY <1>2, <2>2, <2>3 DEF ResumeTransaction
<1> QED BY <1>1, <1>2

LEMMA CommitLocal ==
  ASSUME LocalInv, LockInv, NEW p \in Procs, NEW t \in Tools, PlanCandidateCommit(p, t)
  PROVE  LocalInv' /\ LockInv'
<1>1. /\ pc[p][t] = "commit" /\ phase[p] = "run" /\ tx[p][t] \in {"none", "open"}
      /\ tx[p][t] = "none" => t \in Roots /\ Requires[t] = {}
      /\ tx[p][t] # "none" => lock = <<p, t>>
  <2>1. pc[p][t] = "commit" /\ phase[p] = "run"
    BY AtRun DEF PlanCandidateCommit, At, UndoLabels
  <2> QED BY <2>1 DEF LocalInv, LocalType, AttemptOK, LockInv, Holding
<1>2. CASE RollBack(p, t)
  BY <1>1, <1>2, RollBackKeeps
<1>3. CASE tx[p][t] = "none" /\ Continue(p, t, "install") /\ lock' = lock
  <2>1. OneMoves(p, t) /\ pc'[p][t] = "install" /\ tx' = tx
    BY <1>3, ContinueMoves DEF Labels, InstallLabels
  <2>2. AttemptOK(p, t)' /\ ~Holding(p, t)'
    BY <1>1, <1>3, <2>1 DEF AttemptOK, OneMoves, Holding, OpenLabels, AddLabels, InstallLabels,
       UndoLabels
  <2> QED BY <1>1, <1>3, <2>1, <2>2, RunKeeps DEF LockMoves
<1>4. CASE /\ tx[p][t] = "open" /\ tx' = [tx EXCEPT ![p][t] = "bound"]
           /\ Go(p, t, "install") /\ UNCHANGED <<lock, phase, missing, helpers>>
  <2>1. OneMoves(p, t) /\ pc'[p][t] = "install" /\ tx'[p][t] = "bound"
    BY <1>4 DEF Go, LocalInv, LocalType, OneMoves, Same, Labels, InstallLabels
  <2>2. AttemptOK(p, t)'
    BY <1>1, <2>1 DEF AttemptOK, OneMoves, OpenLabels, AddLabels, InstallLabels, UndoLabels
  <2> QED BY <1>1, <1>4, <2>1, <2>2, RunKeeps DEF LockMoves
<1>5. CASE tx[p][t] = "open" /\ Continue(p, t, "rb_plan") /\ lock' = lock
  <2>1. Fits(p, t, "rb_plan")
    BY <1>1, <1>5 DEF Fits, UndoLabels
  <2> QED BY <1>5, <2>1, FitKeeps
<1> QED BY <1>2, <1>3, <1>4, <1>5 DEF PlanCandidateCommit

LEMMA InstallLocal ==
  ASSUME LocalInv, LockInv, NEW p \in Procs, NEW t \in Tools,
         \/ InstallTarget(p, t) \/ VerifyInstalled(p, t)
         \/ ReconcileFailedInstall(p, t) \/ FinalizeCandidateCommit(p, t)
  PROVE  LocalInv' /\ LockInv'
<1>1. /\ pc[p][t] \in {"finalize"} \cup InstallLabels /\ phase[p] = "run"
      /\ tx[p][t] \in {"none", "bound"}
      /\ tx[p][t] = "none" => t \in Roots /\ Requires[t] = {}
      /\ tx[p][t] # "none" => lock = <<p, t>>
      /\ pc[p][t] = "finalize" => lock = <<p, t>>
  <2>1. pc[p][t] \in {"finalize"} \cup InstallLabels
    BY DEF InstallTarget, VerifyInstalled, ReconcileFailedInstall, FinalizeCandidateCommit, At,
       InstallLabels
  <2>2. phase[p] = "run"
    BY <2>1, AtRun DEF UndoLabels, InstallLabels
  <2> QED BY <2>1, <2>2 DEF LocalInv, LocalType, AttemptOK, LockInv, Holding
<1>2. CASE InstallTarget(p, t)
  <2>1. pc[p][t] = "install" /\ lock' = lock /\ \E label \in {"verify", "reconcile"} : Continue(p, t, label)
    BY <1>2 DEF InstallTarget, At
  <2>2. OneMoves(p, t) /\ pc'[p][t] \in {"verify", "reconcile"} /\ tx' = tx
    BY <2>1, ContinueMoves DEF Labels, InstallLabels
  <2>3. AttemptOK(p, t)' /\ (Holding(p, t)' => tx[p][t] # "none")
    BY <1>1, <2>2 DEF AttemptOK, OneMoves, Holding, OpenLabels, AddLabels, InstallLabels,
       UndoLabels
  <2> QED BY <1>1, <2>1, <2>2, <2>3, RunKeeps DEF LockMoves
<1>3. ASSUME tx[p][t] # "none", Continue(p, t, "finalize"), lock' = lock
      PROVE  LocalInv' /\ LockInv'
  <2>1. OneMoves(p, t) /\ pc'[p][t] = "finalize" /\ tx' = tx
    BY <1>3, ContinueMoves DEF Labels
  <2>2. AttemptOK(p, t)'
    BY <1>1, <1>3, <2>1 DEF AttemptOK, OneMoves, OpenLabels, AddLabels, InstallLabels, UndoLabels
  <2> QED BY <1>1, <1>3, <2>1, <2>2, RunKeeps DEF LockMoves
<1>4. CASE VerifyInstalled(p, t)
  <2>1. pc[p][t] \in InstallLabels
    BY <1>4 DEF VerifyInstalled, At, InstallLabels
  <2>2. CASE GiveUp(p, t)
    BY <2>1, <2>2, GiveUpKeeps
  <2>3. CASE ~GiveUp(p, t)
    <3>1. lock' = lock /\ IF tx[p][t] = "none" THEN \E r \in {"installed", "unfinished"} : Finish(p, t, r)
                          ELSE Continue(p, t, "finalize")
      BY <1>4, <2>3 DEF VerifyInstalled
    <3>2. CASE tx[p][t] = "none"
      <4>1. PICK r : Finish(p, t, r)
        BY <3>1, <3>2
      <4> QED BY <1>1, <3>1, <3>2, <4>1, FinishKeeps DEF LockMoves
    <3>3. CASE tx[p][t] # "none"
      BY <1>3, <3>1, <3>3
    <3> QED BY <3>2, <3>3
  <2> QED BY <2>2, <2>3
<1>5. CASE ReconcileFailedInstall(p, t)
  <2>1. pc[p][t] \in InstallLabels
    BY <1>5 DEF ReconcileFailedInstall, At, InstallLabels
  <2>2. CASE GiveUp(p, t)
    BY <2>1, <2>2, GiveUpKeeps
  <2>3. CASE tx[p][t] = "bound" /\ Continue(p, t, "finalize") /\ lock' = lock
    BY <1>3, <2>3
  <2>4. CASE tx[p][t] = "bound" /\ Persist(p, t, ResolveCommitNotApplied(mem.journals[t]), "rb_plan")
    <3>1. Fits(p, t, "rb_plan") /\ pc[p][t] \notin {"idle", "probe"}
      BY <1>1, <2>1, <2>4 DEF Fits, UndoLabels, InstallLabels
    <3> QED BY <2>4, <3>1, PersistKeeps
  <2> QED BY <1>5, <2>2, <2>3, <2>4 DEF ReconcileFailedInstall
<1>6. CASE FinalizeCandidateCommit(p, t)
  <2>1. pc[p][t] = "finalize" /\ lock' = Free /\ \E r : Finish(p, t, r)
    BY <1>6 DEF FinalizeCandidateCommit, At
  <2>2. PICK r : Finish(p, t, r)
    BY <2>1
  <2> QED BY <1>1, <2>1, <2>2, FinishKeeps DEF LockMoves
<1> QED BY <1>2, <1>4, <1>5, <1>6

LEMMA UndoLocal ==
  ASSUME LocalInv, LockInv, NEW p \in Procs, NEW t \in Tools, Undo(p, t)
  PROVE  LocalInv' /\ LockInv'
<1>1. pc[p][t] \in UndoLabels /\ pc[p][t] \notin {"idle", "probe"} /\ Holding(p, t)
  BY DEF Undo, PlanUndo, PlanUndoNext, RemoveSource, ConfirmUndo, ResolveFailedUndo, FinishUndo,
     At,
     UndoLabels, Holding
<1>2. Entitled(p, t) /\ (phase[p] = "run" => lock = <<p, t>> /\ tx[p][t] # "none")
  <2>1. Entitled(p, t) /\ (phase[p] = "run" => lock = <<p, t>>)
    BY <1>1, HolderEntitled
  <2> QED BY <1>1, <2>1 DEF LocalInv, AttemptOK
<1>3. \A label \in UndoLabels : Fits(p, t, label)
  BY <1>1, <1>2 DEF Fits, Entitled
<1>4. ASSUME NEW j, NEW label \in UndoLabels, Persist(p, t, j, label)
      PROVE  LocalInv' /\ LockInv'
  BY <1>1, <1>3, <1>4, PersistKeeps
<1>5. ASSUME Abort(p, t) PROVE LocalInv' /\ LockInv'
  BY <1>1, <1>2, <1>5, AbortKeeps
<1>6. {"rb_plan", "rb_next", "rb_remove", "rb_record", "rb_resolve"} = UndoLabels
  BY DEF UndoLabels
<1>7. CASE PlanUndo(p, t)
  BY <1>4, <1>5, <1>6, <1>7 DEF PlanUndo, Refused
<1>8. CASE PlanUndoNext(p, t)
  BY <1>4, <1>6, <1>8 DEF PlanUndoNext
<1>9. CASE RemoveSource(p, t)
  <2>1. lock' = lock /\ \E label \in UndoLabels : Continue(p, t, label)
    BY <1>6, <1>9 DEF RemoveSource
  <2> QED BY <1>3, <2>1, FitKeeps
<1>10. CASE ConfirmUndo(p, t)
  BY <1>4, <1>5, <1>6, <1>10 DEF ConfirmUndo, Refused
<1>11. CASE ResolveFailedUndo(p, t)
  BY <1>4, <1>5, <1>6, <1>11 DEF ResolveFailedUndo, Refused, ProbeFails
<1>12. CASE FinishUndo(p, t)
  <2>1. CASE Abort(p, t)
    BY <1>5, <2>1
  <2>2. CASE phase[p] = "recover" /\ Continue(p, t, "idle") /\ lock' = lock
    <3>1. Fits(p, t, "idle")
      BY <2>2 DEF Fits
    <3> QED BY <2>2, <3>1, FitKeeps
  <2>3. CASE phase[p] # "recover" /\ lock' = Free /\ \E r : Finish(p, t, r)
    <3>1. phase[p] = "run" /\ lock = <<p, t>>
      BY <1>2, <2>3 DEF Entitled
    <3>2. PICK r : Finish(p, t, r)
      BY <2>3
    <3> QED BY <1>1, <2>3, <3>1, <3>2, FinishKeeps DEF LockMoves
  <2> QED BY <1>12, <2>1, <2>2, <2>3 DEF FinishUndo, Refused
<1> QED BY <1>7, <1>8, <1>9, <1>10, <1>11, <1>12 DEF Undo

LEMMA RunEndLocal ==
  ASSUME LocalInv, LockInv, NEW p \in Procs, WriteState(p) \/ Crash(p)
  PROVE  LocalInv' /\ LockInv'
<1>1. Resets(p)
  BY ResetMoves DEF WriteState, Crash
<1>2. CASE WriteState(p)
  BY <1>1, <1>2, ResetKeeps, LockAssumption DEF WriteState
<1>3. CASE Crash(p)
  BY <1>1, <1>3, ResetKeeps DEF Crash, Release
<1> QED BY <1>2, <1>3

LEMMA LeakedLocal ==
  ASSUME LocalInv, LockInv, NEW p \in Procs, NEW t \in Tools, FinalizeLeakedLock(p, t)
  PROVE  LocalInv' /\ LockInv' /\ OthersWait(p, t) /\ ~Holding(p, t)
<1>1. /\ lock = <<p, t>> /\ lock' = Free /\ pc[p][t] = "done"
      /\ phase' = phase /\ pc' = pc /\ missing' = missing /\ helpers' = helpers /\ tx' = tx
  BY DEF FinalizeLeakedLock, Release, local, At
<1>2. ~Holding(p, t) /\ phase[p] # "recover"
  BY <1>1, LockAssumption DEF Holding, AddLabels, UndoLabels, InstallLabels, LockInv
<1>3. ASSUME NEW q \in Procs, NEW u \in Tools, q # p \/ u # t, Holding(q, u) PROVE FALSE
  BY <1>1, <1>3, HolderIsAlone, LockAssumption
<1>4. OneMoves(p, t) /\ AttemptOK(p, t)'
  BY <1>1 DEF OneMoves, LocalInv, LocalType, AttemptOK, Same
<1>5. ~Holding(p, t)'
  BY <1>1, <1>2 DEF Holding
<1>6. LocalInv' /\ LockInv'
  BY <1>1, <1>2, <1>4, <1>5, MoveKeeps DEF LockMoves
<1> QED BY <1>2, <1>3, <1>6 DEF OthersWait

LEMMA LockStep == LocalInv /\ LockInv /\ [Next]_vars => LocalInv' /\ LockInv'
<1> SUFFICES ASSUME LocalInv, LockInv, [Next]_vars PROVE LocalInv' /\ LockInv'
  OBVIOUS
<1>1. CASE UNCHANGED vars
  BY <1>1 DEF vars, LocalInv, LocalType, LockInv, AttemptOK, Holding
<1>2. CASE \E s \in Sources : AdminRemovesSource(s)
  BY <1>2 DEF AdminRemovesSource, local, LocalInv, LocalType, LockInv, AttemptOK, Holding
<1>3. ASSUME NEW p \in Procs, Recover(p) \/ WriteState(p) \/ Crash(p) PROVE LocalInv' /\ LockInv'
  BY <1>3, StartRunLocal, RecoverDoneLocal, RecoverLocal, RunEndLocal DEF Recover
<1>4. ASSUME NEW p \in Procs, NEW t \in Tools, Prepare(p, t) PROVE LocalInv' /\ LockInv'
  BY <1>4, ProbeLocal, BeginLocal, AddLocal DEF Prepare
<1>5. ASSUME NEW p \in Procs, NEW t \in Tools, Install(p, t) PROVE LocalInv' /\ LockInv'
  BY <1>5, GateLocal, DependenciesLocal, CommitLocal, InstallLocal DEF Install
<1>6. ASSUME NEW p \in Procs, NEW t \in Tools, Undo(p, t) \/ FinalizeLeakedLock(p, t)
      PROVE  LocalInv' /\ LockInv'
  BY <1>6, UndoLocal, LeakedLocal
<1> QED BY <1>1, <1>2, <1>3, <1>4, <1>5, <1>6 DEF Next

LEMMA LockInit == Init => LocalInv /\ LockInv
<1> SUFFICES ASSUME Init PROVE LocalInv /\ LockInv
  OBVIOUS
<1>1. \A t \in Tools : <<>> \in Orders(t)
  BY EmptyOrder
<1>2. LocalInv
  BY <1>1 DEF Init, LocalInv, LocalType, AttemptOK, Labels
<1>3. LockInv
  BY LockAssumption DEF Init, LockInv
<1> QED BY <1>2, <1>3

(***************************************************************************)
(* The state file and the holder's copy of it.                             *)
(***************************************************************************)
State == [journals : [Tools -> Journal], plans : [Tools -> Plan], owned : Snapshot,
          tools : SUBSET Tools]

\* A journal and a plan that recovery can read and that only add sources of t.
SoundEntry(t, j, pl) ==
  /\ ValidPlan(pl) /\ ValidJournal(j, pl)
  /\ j.status = "none" => pl = NoPlan
  /\ j.status \notin {"none", "committing", "ready", "rolling_back"} => pl.uses = {}
  /\ \A i \in 1..Len(pl.prepare) :
       /\ pl.prepare[i].res \in ConfiguredSet(t)
       /\ pl.prepare[i] = AddSource(pl.prepare[i].res)

Sound(st) ==
  /\ st \in State
  /\ \A t \in Tools : SoundEntry(t, st.journals[t], st.plans[t])

\* The holder's state with the entries of t replaced.
Changed(t, j, pl, o, rec) ==
  [journals |-> [mem.journals EXCEPT ![t] = j], plans |-> [mem.plans EXCEPT ![t] = pl],
   owned |-> o, tools |-> rec]

JournalMoves(t, j) ==
  LET J == mem.journals[t]  P == mem.plans[t]  O == mem.owned IN
  \/ CanPlanApply(J, P) /\ j = PlanApply(J)
  \/ CanRecordApplied(J) /\ j = RecordApplied(J, P)
  \/ /\ CanRecordApplied(J) /\ host[InFlightAdd(t)] = "absent"
     /\ j = ResolveApplying(J, P, "not_applied")
  \/ J.status = "committing" /\ target[t] = "absent" /\ t \in Roots /\ j = ResolveCommitNotApplied(J)
  \/ CanPlanRollback(J, P, O) /\ j = PlanRollback(J)
  \/ CanPlanRollbackApply(J, P, O) /\ j = PlanRollbackApply(J, P, O)
  \/ /\ CanRecordRollbackApplied(J, P, O) /\ host[InFlightUndo(t)] = "absent"
     /\ j = RecordRollbackApplied(J)
  \/ J.status = "rolling_back" /\ J.undoing # 0 /\ j = [J EXCEPT !.undoing = 0]

Begins(p, t, new) ==
  /\ mem.journals[t].status = "none" /\ tx[p][t] = "none"
  /\ new = Changed(t, NewJournal, TxPlan(p, t), mem.owned, mem.tools)

Binds(p, t, new) ==
  /\ CanPlanCommit(mem.journals[t], mem.plans[t])
  /\ pc[p][t] = "commit" /\ tx[p][t] = "open" /\ TxMatches(p, t)
  /\ new = Changed(t, PlanCommit(mem.journals[t]), [mem.plans[t] EXCEPT !.uses = UsesOf(p, t)],
                   mem.owned, mem.tools)

\* The snapshot after the commit of t.
CommittedOwned(t) ==
  TrackResourceUses(
    ClaimResourceUses(FinalizeCommit(mem.plans[t], mem.owned, t), t, mem.plans[t].uses),
    IF t \in Roots THEN {} ELSE {[res |-> t, created |-> TRUE]})

Commits(p, t, new) ==
  /\ CanCommit(t) /\ (Satisfied(t) \/ pc[p][t] = "finalize")
  /\ new = Changed(t, NoJournal, NoPlan, CommittedOwned(t), mem.tools \cup {t})

Undone(t, new) ==
  /\ CanFinalizeRollback(mem.journals[t], mem.plans[t], mem.owned)
  /\ new = Changed(t, NoJournal, NoPlan,
                   FinalizeRollback(mem.journals[t], mem.plans[t], mem.owned), mem.tools)

Moves(p, t, new) ==
  \/ \E j : JournalMoves(t, j) /\ new = Changed(t, j, mem.plans[t], mem.owned, mem.tools)
  \/ Begins(p, t, new)
  \/ Binds(p, t, new)
  \/ Commits(p, t, new)
  \/ Undone(t, new)

LEMMA ChangedEntries ==
  ASSUME mem \in State, NEW t \in Tools, NEW j, NEW pl, NEW o, NEW rec
  PROVE  LET c == Changed(t, j, pl, o, rec) IN
           /\ c.journals[t] = j /\ c.plans[t] = pl /\ c.owned = o /\ c.tools = rec
           /\ \A u \in Tools \ {t} : /\ c.journals[u] = mem.journals[u]
                                     /\ c.plans[u] = mem.plans[u]
           /\ j \in Journal /\ pl \in Plan /\ o \in Snapshot /\ rec \in SUBSET Tools
                => c \in State
BY DEF Changed, State

\* The updates of the code, as changed entries.
LEMMA Updates ==
  ASSUME mem \in State, NEW t \in Tools
  PROVE  /\ \A j : SetJournal(t, j) = Changed(t, j, mem.plans[t], mem.owned, mem.tools)
         /\ \A j, pl : [mem EXCEPT !.journals[t] = j, !.plans[t] = pl]
                         = Changed(t, j, pl, mem.owned, mem.tools)
         /\ \A j, us : [mem EXCEPT !.journals[t] = j, !.plans[t].uses = us]
                         = Changed(t, j, [mem.plans[t] EXCEPT !.uses = us], mem.owned, mem.tools)
         /\ \A o : [Closed(t) EXCEPT !.owned = o] = Changed(t, NoJournal, NoPlan, o, mem.tools)
         /\ Committed(t) = Changed(t, NoJournal, NoPlan, CommittedOwned(t), mem.tools \cup {t})
<1>1. mem = [journals |-> mem.journals, plans |-> mem.plans, owned |-> mem.owned,
             tools |-> mem.tools]
  BY DEF State
<1>2. DOMAIN mem.journals = Tools /\ DOMAIN mem.plans = Tools
  BY DEF State
<1>3. \A j : SetJournal(t, j) = Changed(t, j, mem.plans[t], mem.owned, mem.tools)
  BY <1>1, <1>2 DEF SetJournal, Changed, State
<1>4. ASSUME NEW j, NEW pl
      PROVE  [mem EXCEPT !.journals[t] = j, !.plans[t] = pl]
               = Changed(t, j, pl, mem.owned, mem.tools)
  <2> DEFINE x == Changed(t, j, mem.plans[t], mem.owned, mem.tools)
  <2>1. [mem EXCEPT !.journals[t] = j] = x
    BY <1>3 DEF SetJournal
  <2>2. [x EXCEPT !.plans[t] = pl] = Changed(t, j, pl, mem.owned, mem.tools)
    BY <1>2 DEF Changed
  <2>3. [mem EXCEPT !.journals[t] = j, !.plans[t] = pl] = [x EXCEPT !.plans[t] = pl]
    <3> HIDE DEF x
    <3> QED BY <2>1, Zenon
  <2> QED BY <2>2, <2>3, Zenon
<1>5. ASSUME NEW j, NEW us
      PROVE  [mem EXCEPT !.journals[t] = j, !.plans[t].uses = us]
               = Changed(t, j, [mem.plans[t] EXCEPT !.uses = us], mem.owned, mem.tools)
  <2> DEFINE x == Changed(t, j, mem.plans[t], mem.owned, mem.tools)
  <2>1. [mem EXCEPT !.journals[t] = j] = x
    BY <1>3 DEF SetJournal
  <2>2. [x EXCEPT !.plans[t].uses = us]
          = Changed(t, j, [mem.plans[t] EXCEPT !.uses = us], mem.owned, mem.tools)
    BY <1>2 DEF Changed
  <2>3. [mem EXCEPT !.journals[t] = j, !.plans[t].uses = us] = [x EXCEPT !.plans[t].uses = us]
    <3> HIDE DEF x
    <3> QED BY <2>1, Zenon
  <2> QED BY <2>2, <2>3, Zenon
<1>6. Closed(t) = Changed(t, NoJournal, NoPlan, mem.owned, mem.tools)
  BY <1>4 DEF Closed
<1>7. \A o : [Closed(t) EXCEPT !.owned = o] = Changed(t, NoJournal, NoPlan, o, mem.tools)
  BY <1>6 DEF Changed
<1>8. Committed(t) = Changed(t, NoJournal, NoPlan, CommittedOwned(t), mem.tools \cup {t})
  <2> DEFINE x == Changed(t, NoJournal, NoPlan, CommittedOwned(t), mem.tools)
  <2>1. Committed(t) = [Closed(t) EXCEPT !.owned = CommittedOwned(t), !.tools = @ \cup {t}]
    BY DEF Committed, CommittedOwned
  <2>2. [Closed(t) EXCEPT !.owned = CommittedOwned(t)] = x
    BY <1>7
  <2>3. [x EXCEPT !.tools = mem.tools \cup {t}]
          = Changed(t, NoJournal, NoPlan, CommittedOwned(t), mem.tools \cup {t})
    BY DEF Changed
  <2>4. Closed(t).tools = mem.tools
    BY <1>6 DEF Changed
  <2>5. [Closed(t) EXCEPT !.owned = CommittedOwned(t), !.tools = @ \cup {t}]
          = [x EXCEPT !.tools = mem.tools \cup {t}]
    <3> HIDE DEF x
    <3> QED BY <2>2, <2>4, Zenon
  <2> QED BY <2>1, <2>3, <2>5, Zenon
<1> QED BY <1>3, <1>4, <1>5, <1>7, <1>8, Zenon

(***************************************************************************)
(* Every move leaves the state sound.                                      *)
(***************************************************************************)
LEMMA SoundParts ==
  ASSUME NEW st, Sound(st), NEW t \in Tools
  PROVE  /\ st \in State /\ st.owned \in Snapshot /\ st.tools \in SUBSET Tools
         /\ SoundEntry(t, st.journals[t], st.plans[t])
         /\ ValidPlan(st.plans[t]) /\ ValidJournal(st.journals[t], st.plans[t])
         /\ st.journals[t] \in Journal /\ st.plans[t] \in Plan
BY DEF Sound, State, SoundEntry

LEMMA JournalMovesSound ==
  ASSUME Sound(mem), NEW t \in Tools, NEW j, JournalMoves(t, j)
  PROVE  SoundEntry(t, j, mem.plans[t]) /\ j \in Journal /\ j.status # "none"
<1> DEFINE J == mem.journals[t]
           P == mem.plans[t]
<1>1. /\ SoundEntry(t, J, P) /\ ValidPlan(P) /\ ValidJournal(J, P) /\ J \in Journal
      /\ Len(P.prepare) \in Nat
  BY SoundParts DEF ValidPlan, Plan
<1>2. ASSUME ValidJournal(j, P), j.status # "none",
             P.uses = {} \/ j.status \in {"committing", "ready", "rolling_back"}
      PROVE  SoundEntry(t, j, P) /\ j \in Journal /\ j.status # "none"
  BY <1>1, <1>2 DEF SoundEntry, ValidJournal
<1>3. J.status \in {"pending", "preparing", "applying"} => P.uses = {}
  BY <1>1 DEF SoundEntry
<1>4. CASE CanPlanApply(J, P) /\ j = PlanApply(J)
  BY <1>1, <1>2, <1>3, <1>4, ForwardTransitions DEF CanPlanApply
<1>5. CASE CanRecordApplied(J) /\ j = RecordApplied(J, P)
  BY <1>1, <1>2, <1>3, <1>5, ForwardTransitions DEF CanRecordApplied
<1>6. CASE CanRecordApplied(J) /\ j = ResolveApplying(J, P, "not_applied")
  BY <1>1, <1>2, <1>3, <1>6, ForwardTransitions DEF CanRecordApplied
<1>7. CASE J.status = "committing" /\ j = ResolveCommitNotApplied(J)
  <2>1. ValidJournal(j, P) /\ j.status = "ready"
    BY <1>1, <1>7 DEF ResolveCommitNotApplied, ValidJournal, Journal, ActiveStatus, OpenStatus
  <2> QED BY <1>2, <2>1
<1>8. CASE CanPlanRollback(J, P, mem.owned) /\ j = PlanRollback(J)
  BY <1>1, <1>2, <1>8, RollbackTransitions
<1>9. CASE CanPlanRollbackApply(J, P, mem.owned) /\ j = PlanRollbackApply(J, P, mem.owned)
  <2>1. CanPlanRollbackApply(J, P, mem.owned) =>
          /\ ValidJournal(PlanRollbackApply(J, P, mem.owned), P)
          /\ PlanRollbackApply(J, P, mem.owned).status = "rolling_back"
    <3>1. ValidPlan(P) /\ ValidJournal(J, P)
      BY <1>1
    <3> HIDE DEF J, P
    <3> QED BY <3>1, RollbackTransitions, ZenonT(30)
  <2>2. ValidJournal(j, P) /\ j.status = "rolling_back"
    BY <1>9, <2>1, Zenon
  <2> QED BY <1>2, <2>2
<1>10. CASE CanRecordRollbackApplied(J, P, mem.owned) /\ j = RecordRollbackApplied(J)
  BY <1>1, <1>2, <1>10, RollbackTransitions
<1>11. CASE J.status = "rolling_back" /\ j = [J EXCEPT !.undoing = 0]
  BY <1>1, <1>2, <1>11, RollbackTransitions
<1> QED BY <1>4, <1>5, <1>6, <1>7, <1>8, <1>9, <1>10, <1>11 DEF JournalMoves

\* The plan of a list of missing sources.
LEMMA OrdersPlan ==
  ASSUME NEW t \in Tools, NEW m \in Orders(t)
  PROVE  LET pl == [prepare |-> PreparedBy(m), uses |-> {}] IN
           /\ ValidPlan(pl) /\ Len(pl.prepare) \in Nat
           /\ \A i \in 1..Len(pl.prepare) : /\ pl.prepare[i].res \in ConfiguredSet(t)
                                            /\ pl.prepare[i].res = m[i] /\ i \in 1..Len(m)
                                            /\ pl.prepare[i] = AddSource(pl.prepare[i].res)
<1> DEFINE pl == [prepare |-> PreparedBy(m), uses |-> {}]
<1>1. PICK n \in Nat : m \in [1..n -> ConfiguredSet(t)]
  <2>1. Len(Configured[t]) \in Nat
    BY ConfiguredAssumption
  <2>2. m \in UNION {[1..n -> ConfiguredSet(t)] : n \in 0..Len(Configured[t])}
    BY DEF Orders
  <2>3. PICK n \in 0..Len(Configured[t]) : m \in [1..n -> ConfiguredSet(t)]
    BY <2>2
  <2> QED BY <2>1, <2>3
<1>2. Len(m) = n /\ DOMAIN m = 1..n
  BY <1>1
<1>3. ConfiguredSet(t) \subseteq Sources /\ Sources \subseteq Resources
  BY ConfiguredAssumption DEF ConfiguredSet, Sources
<1>4. \A i, k \in 1..n : m[i] = m[k] => i = k
  <2>1. \A i, k \in 1..Len(m) : i < k =>
          \E a, b \in 1..Len(Configured[t]) :
             a < b /\ Configured[t][a] = m[i] /\ Configured[t][b] = m[k]
    BY DEF Orders, InOrder
  <2>2. ASSUME NEW i \in 1..n, NEW k \in 1..n, i < k PROVE m[i] # m[k]
    <3>1. PICK a, b \in 1..Len(Configured[t]) :
             a < b /\ Configured[t][a] = m[i] /\ Configured[t][b] = m[k]
      BY <1>2, <2>1, <2>2
    <3>2. Configured[t][a] = Configured[t][b] => a = b
      BY ConfiguredAssumption
    <3> QED BY <3>1, <3>2
  <2> QED BY <1>1, <2>2
<1>5. pl.prepare = [i \in 1..n |-> AddSource(m[i])]
  BY <1>2 DEF PreparedBy
<1>6. \A i \in 1..n : /\ AddSource(m[i]) \in Mutation /\ AddSource(m[i]).res = m[i]
                      /\ m[i] \in ConfiguredSet(t)
  BY <1>1, <1>3 DEF AddSource, Mutation, Ownership
<1>7. pl.prepare \in Seq(Mutation) /\ Len(pl.prepare) = n
  BY <1>5, <1>6
<1>8. ValidPlan(pl)
  BY <1>4, <1>5, <1>6, <1>7 DEF ValidPlan, Plan, DistinctUses
<1> QED BY <1>2, <1>5, <1>6, <1>7, <1>8

LEMMA UsesOfType ==
  ASSUME LocalInv, NEW p \in Procs, NEW t \in Tools
  PROVE  UsesOf(p, t) \in SUBSET Use /\ DistinctUses(UsesOf(p, t))
<1>1. ConfiguredSet(t) \subseteq Resources /\ Requires[t] \subseteq Resources
  BY ConfiguredAssumption, RequiresAssumption, ToolsAssumption DEF ConfiguredSet, Sources, Tools
<1>2. \A r \in Resources : [res |-> r, created |-> r \in Created(p, t)] \in Use
  BY DEF Use
<1>3. UsesOf(p, t) \in SUBSET Use
  BY <1>1, <1>2 DEF UsesOf
<1>4. \A u \in UsesOf(p, t) : u = [res |-> u.res, created |-> u.res \in Created(p, t)]
  BY DEF UsesOf
<1>5. DistinctUses(UsesOf(p, t))
  BY <1>4 DEF DistinctUses
<1> QED BY <1>3, <1>5

\* A closed journal is a sound entry.
LEMMA ClosedSound ==
  ASSUME NEW t \in Tools
  PROVE  SoundEntry(t, NoJournal, NoPlan) /\ NoJournal \in Journal /\ NoPlan \in Plan
<1>1. NoJournal \in Journal /\ NoJournal.status = "none"
  BY DEF NoJournal, Journal
<1>2. <<>> \in Seq(Mutation) /\ Len(<<>>) = 0
  OBVIOUS
<1>3. NoPlan \in Plan /\ ValidPlan(NoPlan) /\ Len(NoPlan.prepare) = 0
  BY <1>2 DEF NoPlan, Plan, ValidPlan, DistinctUses
<1>4. ValidJournal(NoJournal, NoPlan)
  BY <1>1, <1>2 DEF NoJournal, NoPlan, ValidJournal
<1> QED BY <1>1, <1>3, <1>4 DEF SoundEntry

\* What a commit of t makes of the ownership snapshot.
LEMMA CommittedOwnedType ==
  ASSUME Sound(mem), NEW t \in Tools, CanCommit(t)
  PROVE  /\ CommittedOwned(t) \in Snapshot
         /\ \A r \in Resources : mem.owned[r].own = "depengine" => CommittedOwned(t)[r].own = "depengine"
         /\ \A m \in Mutations(mem.plans[t]) : m.own = "depengine" => CommittedOwned(t)[m.res].own = "depengine"
         /\ t \notin Roots => CommittedOwned(t)[t].own = "depengine"
<1> DEFINE P == mem.plans[t]
           F == FinalizeCommit(P, mem.owned, t)
           C == ClaimResourceUses(F, t, P.uses)
           tracked == IF t \in Roots THEN {} ELSE {[res |-> t, created |-> TRUE]}
<1>1. ValidPlan(P) /\ P.uses \in SUBSET Use /\ mem.owned \in Snapshot /\ t \in Resources
        /\ t \in Dependents
  BY SoundParts, ToolsAssumption DEF Tools, Plan
<1>2. tracked \in SUBSET Use
  BY <1>1 DEF Use
<1>3. /\ F \in Snapshot
      /\ \A m \in Mutations(P) : F[m.res].own = m.own
      /\ \A r \in Resources : mem.owned[r].own = "depengine" => F[r].own = "depengine"
  BY <1>1, FinalizeCommitType, FinalizeCommitKeepsOwner DEF CanCommit
<1>4. \A m \in Mutations(P) : m.res \in Resources
  BY <1>1 DEF Mutations, ValidPlan, Plan, Mutation
<1> HIDE DEF F, tracked
<1>5. C \in Snapshot /\ \A r \in Resources : F[r].own = "depengine" => C[r].own = "depengine"
  <2>1. C \in Snapshot /\ \A r \in Resources : C[r].own = TrackResourceUses(F, P.uses)[r].own
    BY <1>1, <1>3, ClaimType, ClaimKeepsTracked
  <2> HIDE DEF C
  <2>2. ASSUME NEW r \in Resources, F[r].own = "depengine" PROVE C[r].own = "depengine"
    <3>1. TrackResourceUses(F, P.uses)[r].own \in {F[r].own, "depengine"}
      BY <1>1, <1>3, <2>2, OwnerOnlyRises
    <3> QED BY <2>1, <2>2, <3>1
  <2> QED BY <2>1, <2>2
<1> HIDE DEF C
<1>6. CommittedOwned(t) = TrackResourceUses(C, tracked)
  BY DEF CommittedOwned, C, F, tracked
<1>7. CommittedOwned(t) \in Snapshot
  BY <1>2, <1>5, <1>6, TrackType
<1>8. ASSUME NEW r \in Resources, C[r].own = "depengine" PROVE CommittedOwned(t)[r].own = "depengine"
  BY <1>2, <1>5, <1>6, <1>8, OwnerOnlyRises
<1>9. t \notin Roots => CommittedOwned(t)[t].own = "depengine"
  <2>1. SUFFICES ASSUME t \notin Roots PROVE CommittedOwned(t)[t].own = "depengine"
    OBVIOUS
  <2>2. t \in UsedBy(tracked) /\ t \in CreatedBy(tracked)
    <3>1. tracked = {[res |-> t, created |-> TRUE]}
      BY <2>1 DEF tracked
    <3> QED BY <3>1 DEF UsedBy, CreatedBy
  <2>3. CommittedOwned(t)[t] = TrackOne(C[t], TRUE) /\ C[t] \in OwnedState
    <3>1. TrackResourceUses(C, tracked)[t] = TrackOne(C[t], t \in CreatedBy(tracked))
      BY <1>1, <2>2 DEF TrackResourceUses
    <3>2. (t \in CreatedBy(tracked)) = TRUE
      BY <2>2
    <3> QED BY <1>1, <1>5, <1>6, <3>1, <3>2, SnapshotMembers
  <2> QED BY <2>3 DEF TrackOne, OwnedState
<1> QED BY <1>1, <1>3, <1>4, <1>5, <1>7, <1>8, <1>9

LEMMA MovesSound ==
  ASSUME LocalInv, Sound(mem), NEW p \in Procs, NEW t \in Tools, NEW new, Moves(p, t, new)
  PROVE  /\ Sound(new)
         /\ \A u \in Tools \ {t} : /\ new.journals[u] = mem.journals[u]
                                   /\ new.plans[u] = mem.plans[u]
<1>1. /\ mem \in State /\ mem.owned \in Snapshot /\ mem.tools \in SUBSET Tools
      /\ \A u \in Tools : SoundEntry(u, mem.journals[u], mem.plans[u])
      /\ mem.journals[t] \in Journal /\ mem.plans[t] \in Plan
  BY SoundParts
<1>2. ASSUME NEW j \in Journal, NEW pl \in Plan, NEW o \in Snapshot, NEW rec \in SUBSET Tools,
             SoundEntry(t, j, pl), new = Changed(t, j, pl, o, rec)
      PROVE  /\ Sound(new)
             /\ \A u \in Tools \ {t} : /\ new.journals[u] = mem.journals[u]
                                       /\ new.plans[u] = mem.plans[u]
  <2>1. /\ new.journals[t] = j /\ new.plans[t] = pl /\ new \in State
        /\ \A u \in Tools \ {t} : /\ new.journals[u] = mem.journals[u]
                                  /\ new.plans[u] = mem.plans[u]
    BY <1>1, <1>2, ChangedEntries
  <2>2. \A u \in Tools : SoundEntry(u, new.journals[u], new.plans[u])
    BY <1>1, <1>2, <2>1
  <2> QED BY <2>1, <2>2 DEF Sound
<1>3. CASE \E j : JournalMoves(t, j) /\ new = Changed(t, j, mem.plans[t], mem.owned, mem.tools)
  BY <1>1, <1>2, <1>3, JournalMovesSound
<1>4. CASE Begins(p, t, new)
  <2>1. TxPlan(p, t) = [prepare |-> PreparedBy(missing[p][t]), uses |-> {}]
    BY <1>4 DEF Begins, TxPlan
  <2>2. missing[p][t] \in Orders(t)
    BY DEF LocalInv, LocalType
  <2>3. /\ ValidPlan(TxPlan(p, t)) /\ Len(TxPlan(p, t).prepare) \in Nat /\ TxPlan(p, t).uses = {}
        /\ \A i \in 1..Len(TxPlan(p, t).prepare) :
             /\ TxPlan(p, t).prepare[i].res \in ConfiguredSet(t)
             /\ TxPlan(p, t).prepare[i] = AddSource(TxPlan(p, t).prepare[i].res)
    BY <2>1, <2>2, OrdersPlan
  <2>4. TxPlan(p, t) \in Plan
    BY <2>3 DEF ValidPlan
  <2>5. ValidJournal(NewJournal, TxPlan(p, t)) /\ NewJournal.status = "pending" /\ NewJournal \in Journal
    BY <2>3 DEF ValidJournal, NewJournal, NoJournal, Journal, ActiveStatus, OpenStatus
  <2>6. SoundEntry(t, NewJournal, TxPlan(p, t))
    BY <2>3, <2>5 DEF SoundEntry
  <2> QED BY <1>1, <1>2, <1>4, <2>4, <2>5, <2>6 DEF Begins
<1>5. CASE Binds(p, t, new)
  <2> DEFINE J == mem.journals[t]
             P == mem.plans[t]
             pl == [P EXCEPT !.uses = UsesOf(p, t)]
             j == PlanCommit(J)
  <2>1. /\ ValidPlan(P) /\ ValidJournal(J, P) /\ P \in Plan /\ J \in Journal
        /\ \A i \in 1..Len(P.prepare) : /\ P.prepare[i].res \in ConfiguredSet(t)
                                        /\ P.prepare[i] = AddSource(P.prepare[i].res)
    BY <1>1 DEF SoundEntry
  <2>2. pl = [prepare |-> P.prepare, uses |-> UsesOf(p, t)]
    BY <2>1 DEF Plan
  <2>3. pl \in Plan /\ ValidPlan(pl)
    BY <2>1, <2>2, UsesOfType DEF Plan, ValidPlan
  <2>4. j \in Journal /\ j.status = "committing" /\ ValidJournal(j, P)
    BY <1>5, <2>1 DEF Binds, CanPlanCommit, PlanCommit, ValidJournal, Journal, ActiveStatus,
       OpenStatus
  <2>5. ValidJournal(j, pl)
    BY <2>2, <2>4 DEF ValidJournal
  <2>6. SoundEntry(t, j, pl)
    BY <2>1, <2>2, <2>3, <2>4, <2>5 DEF SoundEntry
  <2> QED BY <1>1, <1>2, <1>5, <2>3, <2>4, <2>6 DEF Binds
<1>6. CASE Commits(p, t, new)
  <2>1. CommittedOwned(t) \in Snapshot
    BY <1>6, CommittedOwnedType DEF Commits
  <2>2. mem.tools \cup {t} \in SUBSET Tools
    BY <1>1
  <2> QED BY <1>2, <1>6, <2>1, <2>2, ClosedSound DEF Commits
<1>7. CASE Undone(t, new)
  <2>1. FinalizeRollback(mem.journals[t], mem.plans[t], mem.owned) \in Snapshot
    BY <1>1, FinalizeRollbackType DEF SoundEntry
  <2> QED BY <1>1, <1>2, <1>7, <2>1, ClosedSound DEF Undone
<1> QED BY <1>3, <1>4, <1>5, <1>6, <1>7 DEF Moves

(***************************************************************************)
(* What each attempt relies on while it holds the lock, and the one moment *)
(* at which the holder's copy and the state file differ: after the save of *)
(* a commit boundary failed, until the rollback that follows.              *)
(***************************************************************************)
Labelled(p, t) ==
  /\ pc[p][t] \in AddLabels => mem.journals[t].status = "applying"
  /\ tx[p][t] = "bound" /\ pc[p][t] \in {"finalize"} \cup InstallLabels
       => mem.journals[t].status = "committing"
  /\ pc[p][t] \in {"rb_remove", "rb_record"} =>
       mem.journals[t].undoing \in RollbackSteps(mem.journals[t], mem.plans[t], mem.owned)
  /\ pc[p][t] = "rb_record" => host[InFlightUndo(t)] = "absent"

Drifted(p, t) ==
  /\ phase[p] = "run" /\ pc[p][t] = "rb_plan" /\ tx[p][t] = "open" /\ lock = <<p, t>>
  /\ TxMatches(p, t) /\ CanPlanCommit(mem.journals[t], mem.plans[t])
  /\ disk = BindUses(p, t)

HostType ==
  /\ host \in [Sources -> {"absent", "found", "added"}]
  /\ target \in [Tools -> {"absent", "found", "installed", "broken"}]

StateInv ==
  /\ HostType
  /\ Sound(mem) /\ Sound(disk)
  /\ mem = disk \/ \E p \in Procs, t \in Tools : Drifted(p, t)
  /\ \A p \in Procs, t \in Tools : Labelled(p, t)

\* Whoever is at a step under the lock, the rollback of a failed boundary
\* excepted, has the state file's content.
LEMMA InSync ==
  ASSUME LocalInv, LockInv, StateInv, NEW p \in Procs, NEW t \in Tools,
         Holding(p, t), pc[p][t] # "rb_plan"
  PROVE  mem = disk
<1>1. ASSUME NEW q \in Procs, NEW u \in Tools, Drifted(q, u) PROVE FALSE
  <2>1. Holding(q, u) /\ pc[q][u] = "rb_plan"
    BY <1>1 DEF Drifted, Holding, UndoLabels
  <2> QED BY <2>1, HolderIsAlone DEF OthersWait
<1> QED BY <1>1 DEF StateInv

LEMMA FreeInSync ==
  ASSUME LocalInv, LockInv, StateInv, \A p \in Procs, t \in Tools : ~Holding(p, t)
  PROVE  mem = disk
BY DEF StateInv, Drifted, Holding, UndoLabels

\* The sources that journals in flight are about.
LEMMA InFlight ==
  ASSUME Sound(mem), NEW t \in Tools
  PROVE  LET J == mem.journals[t]  P == mem.plans[t] IN
           /\ J.status = "applying" =>
                /\ J.applying = J.applied + 1 /\ J.applying \in 1..Len(P.prepare)
                /\ InFlightAdd(t) \in ConfiguredSet(t)
           /\ J.undoing # 0 =>
                /\ J.status = "rolling_back"
                /\ J.undoing \in 1..J.applied /\ J.undoing \in 1..Len(P.prepare)
                /\ InFlightUndo(t) \in ConfiguredSet(t)
           /\ ConfiguredSet(t) \subseteq Sources
<1> DEFINE J == mem.journals[t]
           P == mem.plans[t]
<1>1. /\ SoundEntry(t, J, P) /\ ValidPlan(P) /\ ValidJournal(J, P) /\ J \in Journal
      /\ Len(P.prepare) \in Nat
  BY SoundParts DEF ValidPlan, Plan
<1> HIDE DEF J, P
<1>2. J.applied \in Nat /\ J.applying \in Nat /\ J.applied <= Len(P.prepare)
  BY <1>1 DEF ValidJournal, Journal
<1>3. J.status = "applying" => J.applying = J.applied + 1 /\ J.applying \in 1..Len(P.prepare)
  <2>1. J.status = "applying" => J.applying = J.applied + 1 /\ J.applied < Len(P.prepare)
    BY <1>1 DEF ValidJournal
  <2> QED BY <1>1, <1>2, <2>1
<1>4. J.undoing # 0 => /\ J.status = "rolling_back"
                       /\ J.undoing \in 1..J.applied /\ J.undoing \in 1..Len(P.prepare)
  <2>1. J.undoing # 0 => J.status = "rolling_back" /\ J.undoing \in 1..J.applied
    BY <1>1 DEF ValidJournal
  <2> QED BY <1>1, <1>2, <2>1
<1> USE DEF J, P
<1>5. ConfiguredSet(t) \subseteq Sources
  BY ConfiguredAssumption DEF ConfiguredSet
<1> QED BY <1>1, <1>3, <1>4, <1>5 DEF SoundEntry, InFlightAdd, InFlightUndo

(***************************************************************************)
(* How a step of the attempt (p, t) touches the state, the host and the    *)
(* other attempts.                                                         *)
(***************************************************************************)
Others(p, t) ==
  /\ phase' = phase
  /\ \A q \in Procs, u \in Tools : q # p \/ u # t => Same(q, u)

ResetOthers(p) ==
  /\ phase'[p] = "start"
  /\ \A u \in Tools : pc'[p][u] = "idle" /\ tx'[p][u] = "none" /\ missing'[p][u] = <<>>
  /\ \A q \in Procs \ {p} : phase'[q] = phase[q]
  /\ \A q \in Procs \ {p}, u \in Tools : Same(q, u)

Framed(p, t) == Others(p, t) \/ (phase[p] = "recover" /\ ResetOthers(p))

Quiet == mem' = mem /\ disk' = disk

Sees(p, t) ==
  \/ missing'[p][t] \in {missing[p][t], <<>>}
  \/ /\ Quiet /\ host' = host
     /\ \A i \in 1..Len(missing'[p][t]) : host[missing'[p][t][i]] = "absent"

Releases == disk' = disk /\ mem' = disk /\ lock' = Free

Saves(p, t) == \E new : Moves(p, t, new) /\ disk' = new /\ mem' = new

Drifts(p, t) ==
  /\ mem = disk /\ Binds(p, t, disk') /\ disk' = BindUses(p, t) /\ mem' = mem /\ lock' = lock
  /\ lock = <<p, t>> /\ phase[p] = "run"
  /\ phase' = phase /\ pc'[p][t] = "rb_plan" /\ UNCHANGED <<tx, missing, helpers>>

Touches(p, t) ==
  \/ UNCHANGED <<host, target>>
  \/ /\ pc[p][t] = "add" /\ Quiet /\ target' = target
     /\ host' \in {Added(InFlightAdd(t)), [host EXCEPT ![InFlightAdd(t)] = "absent"]}
  \/ /\ pc[p][t] = "rb_remove" /\ Quiet /\ target' = target
     /\ host' = [host EXCEPT ![InFlightUndo(t)] = "absent"]
  \/ /\ pc[p][t] = "install" /\ Quiet /\ host' = host
     /\ \E s \in {"installed", "broken"} : target' = [target EXCEPT ![t] = s]

Effect(p, t) ==
  /\ Framed(p, t) /\ Sees(p, t) /\ Touches(p, t)
  /\ OthersWait(p, t) \/ (Quiet /\ host' = host)
  /\ (Quiet /\ ~Drifted(p, t)) \/ Releases \/ Saves(p, t) \/ Drifts(p, t)
  /\ Labelled(p, t)'

\* Steps at which an attempt relies on nothing that concerns the state.
Plain == Labels \ (AddLabels \cup InstallLabels \cup {"finalize", "rb_remove", "rb_record"})

LEMMA PlainLabels ==
  /\ {"idle", "done", "probe", "begin", "gate", "deps", "commit", "apply", "recheck", "resume",
      "unwind", "rb_plan", "rb_next", "rb_resolve"} \subseteq Plain
  /\ \A p \in Procs, t \in Tools : (pc[p][t] \in Plain)' => Labelled(p, t)'
BY DEF Plain, Labelled, Labels, OpenLabels, AddLabels, InstallLabels, UndoLabels

LEMMA ContinueFrames ==
  ASSUME LocalInv, NEW p \in Procs, NEW t \in Tools, NEW label, Continue(p, t, label)
  PROVE  Framed(p, t) /\ Sees(p, t) /\ pc'[p][t] = label /\ tx' = tx
BY DEF Continue, Go, LocalInv, LocalType, Framed, Others, Same, Sees

LEMMA FinishFrames ==
  ASSUME LocalInv, NEW p \in Procs, NEW t \in Tools, NEW r, Finish(p, t, r)
  PROVE  Framed(p, t) /\ Sees(p, t) /\ pc'[p][t] = "done" /\ tx' = tx
BY DEF Finish, Go, LocalInv, LocalType, Framed, Others, Same, Sees

LEMMA AbortFrames ==
  ASSUME LocalInv, NEW p \in Procs, NEW t \in Tools, Abort(p, t)
  PROVE  /\ Framed(p, t) /\ Sees(p, t) /\ pc'[p][t] \in {"idle", "done"}
         /\ disk' = disk => Releases
<1>1. disk' = disk => Releases
  BY DEF Abort, Release, Releases
<1>2. ASSUME phase[p] = "recover", Reset(p)
      PROVE  Framed(p, t) /\ Sees(p, t) /\ pc'[p][t] \in {"idle", "done"}
  <2>1. ResetOthers(p)
    BY <1>2 DEF Reset, LocalInv, LocalType, ResetOthers, Same
  <2> QED BY <1>2, <2>1 DEF Framed, ResetOthers, Sees
<1>3. ASSUME Finish(p, t, "failed")
      PROVE  Framed(p, t) /\ Sees(p, t) /\ pc'[p][t] \in {"idle", "done"}
  BY <1>3, FinishFrames
<1> QED BY <1>1, <1>2, <1>3 DEF Abort

LEMMA NotDrifted ==
  ASSUME NEW p \in Procs, NEW t \in Tools, pc[p][t] # "rb_plan"
  PROVE  ~Drifted(p, t)
BY DEF Drifted

\* The probe of a source decides what became of it.
LEMMA ProbeDecides == ASSUME NEW s PROVE ~Present(s) => host[s] = "absent"
BY DEF Present

LEMMA AbortEffect ==
  ASSUME LocalInv, NEW p \in Procs, NEW t \in Tools, OthersWait(p, t),
         Abort(p, t), disk' = disk, UNCHANGED <<host, target>>
  PROVE  Effect(p, t)
<1>1. Framed(p, t) /\ Sees(p, t) /\ pc'[p][t] \in {"idle", "done"} /\ Releases
  BY AbortFrames
<1>2. Labelled(p, t)'
  BY <1>1, PlainLabels
<1> QED BY <1>1, <1>2 DEF Effect, Touches

\* A state that a move saves, or that a failed save left behind.
LEMMA SaveEffect ==
  ASSUME LocalInv, NEW p \in Procs, NEW t \in Tools, OthersWait(p, t),
         NEW new, Moves(p, t, new), UNCHANGED <<host, target>>,
         \/ Saved(new) /\ Framed(p, t) /\ Sees(p, t) /\ Labelled(p, t)'
         \/ NotSaved(new) /\ Abort(p, t)
  PROVE  Effect(p, t)
<1>1. CASE Saved(new) /\ Framed(p, t) /\ Sees(p, t) /\ Labelled(p, t)'
  BY <1>1 DEF Saved, Saves, Effect, Touches
<1>2. CASE NotSaved(new) /\ Abort(p, t)
  <2>1. Framed(p, t) /\ Sees(p, t) /\ pc'[p][t] \in {"idle", "done"}
    BY <1>2, AbortFrames
  <2>2. Labelled(p, t)'
    BY <2>1, PlainLabels
  <2>3. lock' = Free /\ mem' = disk' /\ disk' \in {disk, new}
    BY <1>2 DEF NotSaved, Abort, Release
  <2>4. Releases \/ Saves(p, t)
    BY <2>3 DEF Releases, Saves
  <2> QED BY <2>1, <2>2, <2>4 DEF Effect, Touches
<1> QED BY <1>1, <1>2

LEMMA PersistEffect ==
  ASSUME LocalInv, Sound(mem), NEW p \in Procs, NEW t \in Tools, OthersWait(p, t),
         NEW j, JournalMoves(t, j), NEW label, Persist(p, t, j, label), UNCHANGED <<host, target>>,
         label \notin Plain =>
           \/ label = "add" /\ j.status = "applying"
           \/ label = "rb_remove" /\ j.undoing \in RollbackSteps(j, mem.plans[t], mem.owned)
  PROVE  Effect(p, t)
<1> DEFINE new == Changed(t, j, mem.plans[t], mem.owned, mem.tools)
<1>1. /\ SetJournal(t, j) = new /\ Moves(p, t, new)
      /\ new.journals[t] = j /\ new.plans[t] = mem.plans[t] /\ new.owned = mem.owned
  <2>1. mem \in State
    BY DEF Sound
  <2>2. SetJournal(t, j) = new
    BY <2>1, Updates
  <2>3. Moves(p, t, new)
    BY DEF Moves
  <2>4. new.journals[t] = j /\ new.plans[t] = mem.plans[t] /\ new.owned = mem.owned
    BY <2>1, ChangedEntries
  <2> QED BY <2>2, <2>3, <2>4
<1> HIDE DEF new
<1>2. CASE Saved(new) /\ Continue(p, t, label)
  <2>1. Framed(p, t) /\ Sees(p, t) /\ pc'[p][t] = label /\ tx' = tx /\ mem' = new
    BY <1>2, ContinueFrames DEF Saved
  <2>2. CASE label \in Plain
    <3>1. Labelled(p, t)'
      BY <2>1, <2>2, PlainLabels
    <3> QED BY <1>1, <1>2, <2>1, <3>1, SaveEffect
  <2>3. CASE label = "add" /\ j.status = "applying"
    <3>1. Labelled(p, t)'
      BY <1>1, <2>1, <2>3 DEF Labelled, AddLabels, InstallLabels
    <3> QED BY <1>1, <1>2, <2>1, <3>1, SaveEffect
  <2>4. CASE label = "rb_remove" /\ j.undoing \in RollbackSteps(j, mem.plans[t], mem.owned)
    <3>1. Labelled(p, t)'
      BY <1>1, <2>1, <2>4 DEF Labelled, AddLabels, InstallLabels
    <3> QED BY <1>1, <1>2, <2>1, <3>1, SaveEffect
  <2> QED BY <2>2, <2>3, <2>4
<1>3. CASE NotSaved(new) /\ Abort(p, t)
  BY <1>1, <1>3, SaveEffect
<1> QED BY <1>1, <1>2, <1>3 DEF Persist

LEMMA QuietEffect ==
  ASSUME LocalInv, NEW p \in Procs, NEW t \in Tools, ~Drifted(p, t),
         Quiet, UNCHANGED <<host, target>>,
         \/ \E label \in Plain : Continue(p, t, label)
         \/ \E r : Finish(p, t, r)
         \/ Framed(p, t) /\ Sees(p, t) /\ pc'[p][t] \in Plain
  PROVE  Effect(p, t)
<1>1. CASE \E label \in Plain : Continue(p, t, label)
  <2>1. Framed(p, t) /\ Sees(p, t) /\ pc'[p][t] \in Plain
    BY <1>1, ContinueFrames
  <2> QED BY <2>1, PlainLabels DEF Effect, Touches
<1>2. CASE \E r : Finish(p, t, r)
  <2>1. PICK r : Finish(p, t, r)
    BY <1>2
  <2>2. Framed(p, t) /\ Sees(p, t) /\ pc'[p][t] \in Plain
    BY <2>1, FinishFrames, PlainLabels
  <2> QED BY <2>2, PlainLabels DEF Effect, Touches
<1>3. CASE Framed(p, t) /\ Sees(p, t) /\ pc'[p][t] \in Plain
  BY <1>3, PlainLabels DEF Effect, Touches
<1> QED BY <1>1, <1>2, <1>3

(***************************************************************************)
(* Every action has an effect of that kind.                                *)
(***************************************************************************)
LEMMA RecoverEffect ==
  ASSUME LocalInv, LockInv, StateInv, NEW p \in Procs, NEW t \in Tools,
         \/ RecoverApplying(p, t) \/ RecoverUndoing(p, t)
         \/ RecoverRollback(p, t) \/ RecoverCommit(p, t)
  PROVE  Effect(p, t)
<1> DEFINE J == mem.journals[t]
           P == mem.plans[t]
<1>1. PICK S : Recovering(p, t, S)
  BY DEF RecoverApplying, RecoverUndoing, RecoverRollback, RecoverCommit
<1>2. OthersWait(p, t) /\ ~Drifted(p, t)
  <2>1. \A q \in Procs, u \in Tools : ~Holding(q, u)
    BY <1>1, RecoveringFacts
  <2> QED BY <2>1 DEF OthersWait, Drifted, Holding, UndoLabels
<1>3. UNCHANGED <<host, target>> /\ Sound(mem) /\ mem \in State
  BY DEF RecoverApplying, RecoverUndoing, RecoverRollback, RecoverCommit, StateInv, Sound
<1>4. ASSUME ProbeFails(p, t) \/ Refused(p, t) PROVE Effect(p, t)
  BY <1>2, <1>3, <1>4, AbortEffect DEF ProbeFails, Refused
<1>5. ASSUME NEW j, JournalMoves(t, j), Persist(p, t, j, "idle") PROVE Effect(p, t)
  BY <1>2, <1>3, <1>5, PersistEffect, PlainLabels
<1>6. CASE RecoverApplying(p, t)
  <2>1. CanRecordApplied(J)
    BY <1>6 DEF RecoverApplying, Recovering, CanRecordApplied
  <2>2. JournalMoves(t, ResolveApplying(J, P, "applied"))
    BY <2>1 DEF JournalMoves, ResolveApplying
  <2>3. ~Present(InFlightAdd(t)) => JournalMoves(t, ResolveApplying(J, P, "not_applied"))
    BY <2>1, ProbeDecides DEF JournalMoves
  <2> QED BY <1>4, <1>5, <1>6, <2>2, <2>3 DEF RecoverApplying
<1>7. CASE RecoverUndoing(p, t)
  <2>1. J.status = "rolling_back" /\ J.undoing # 0
    BY <1>7 DEF RecoverUndoing, Recovering
  <2>2. JournalMoves(t, ResolveRollbackApplying(J, "not_applied"))
    BY <2>1 DEF JournalMoves, ResolveRollbackApplying
  <2>3. ~Present(InFlightUndo(t)) /\ CanResolveRollbackApplying(J, P, mem.owned, "applied")
          => JournalMoves(t, ResolveRollbackApplying(J, "applied"))
    BY ProbeDecides DEF JournalMoves, ResolveRollbackApplying, CanResolveRollbackApplying
  <2> QED BY <1>4, <1>5, <1>7, <2>2, <2>3 DEF RecoverUndoing
<1>8. CASE RecoverRollback(p, t)
  <2>1. CASE Refused(p, t)
    BY <1>4, <2>1
  <2>2. CASE (Continue(p, t, "rb_next") \/ Continue(p, t, "rb_plan")) /\ Quiet
    BY <1>2, <1>3, <2>2, QuietEffect, PlainLabels
  <2> QED BY <1>8, <2>1, <2>2 DEF RecoverRollback, Quiet
<1>9. CASE RecoverCommit(p, t)
  <2> DEFINE new == Changed(t, NoJournal, NoPlan, CommittedOwned(t), mem.tools \cup {t})
  <2>1. CASE ProbeFails(p, t) \/ Refused(p, t)
    BY <1>4, <2>1
  <2>2. CASE /\ Decision(t) = "finalize" /\ CanCommit(t)
             /\ \/ /\ Saved(Committed(t))
                   /\ Go(p, t, "done") /\ UNCHANGED <<phase, missing, helpers, tx>>
                \/ NotSaved(Committed(t)) /\ Abort(p, t)
    <3>1. J.status = "committing"
      BY <2>2 DEF CanCommit, CanFinalizeCommit
    <3>2. Satisfied(t)
      BY <2>2, <3>1 DEF Decision, RecoveryFor
    <3>3. Committed(t) = new
      BY <1>3, Updates
    <3>4. Moves(p, t, new)
      BY <2>2, <3>2 DEF Commits, Moves
    <3> HIDE DEF new
    <3>5. CASE /\ Saved(Committed(t))
               /\ Go(p, t, "done") /\ UNCHANGED <<phase, missing, helpers, tx>>
      <4>1. Framed(p, t) /\ Sees(p, t) /\ pc'[p][t] = "done"
        BY <3>5 DEF Go, LocalInv, LocalType, Framed, Others, Same, Sees
      <4>2. Labelled(p, t)'
        BY <4>1, PlainLabels
      <4> QED BY <1>2, <1>3, <3>3, <3>4, <3>5, <4>1, <4>2, SaveEffect
    <3>6. CASE NotSaved(Committed(t)) /\ Abort(p, t)
      BY <1>2, <1>3, <3>3, <3>4, <3>6, SaveEffect
    <3> QED BY <2>2, <3>5, <3>6
  <2> QED BY <1>9, <2>1, <2>2 DEF RecoverCommit
<1> QED BY <1>6, <1>7, <1>8, <1>9

LEMMA ProbeEffect ==
  ASSUME LocalInv, NEW p \in Procs, NEW t \in Tools, StartAttempt(p, t) \/ ProbeSources(p, t)
  PROVE  Effect(p, t)
<1>1. /\ Quiet /\ UNCHANGED <<host, target>> /\ ~Drifted(p, t)
  BY DEF StartAttempt, ProbeSources, At, Quiet, Drifted
<1>2. CASE StartAttempt(p, t)
  BY <1>1, <1>2, QuietEffect, PlainLabels DEF StartAttempt
<1>3. CASE ProbeSources(p, t)
  <2>1. CASE Finish(p, t, "failed")
    BY <1>1, <2>1, QuietEffect
  <2>2. CASE ~Finish(p, t, "failed")
    <3> DEFINE absent == {s \in ConfiguredSet(t) : ~Present(s)}
    <3>1. PICK m \in [1..Cardinality(absent) -> absent] :
             InOrder(m, t, absent) /\ missing' = [missing EXCEPT ![p][t] = m]
      BY <1>3, <2>2 DEF ProbeSources
    <3>2. /\ Go(p, t, "gate") \/ Go(p, t, "begin")
          /\ UNCHANGED <<phase, helpers, tx>>
      BY <1>3, <2>2 DEF ProbeSources
    <3>3. Cardinality(absent) \in Nat /\ \A i \in 1..Len(m) : host[m[i]] = "absent"
      <4>1. Len(m) = Cardinality(absent) /\ Cardinality(absent) \in Nat
        BY <3>1, ProbeOrders
      <4> QED BY <4>1, ProbeDecides
    <3>4. missing'[p][t] = m /\ pc'[p][t] \in Plain
      BY <3>1, <3>2, PlainLabels DEF Go, LocalInv, LocalType
    <3>5. Others(p, t)
      BY <3>1, <3>2 DEF Go, LocalInv, LocalType, Others, Same
    <3>6. Framed(p, t) /\ Sees(p, t)
      BY <1>1, <3>3, <3>4, <3>5 DEF Framed, Sees
    <3> QED BY <1>1, <3>4, <3>6, QuietEffect
  <2> QED BY <2>1, <2>2
<1> QED BY <1>2, <1>3

LEMMA BeginEffect ==
  ASSUME LocalInv, LockInv, StateInv, NEW p \in Procs, NEW t \in Tools, OpenJournal(p, t)
  PROVE  Effect(p, t)
<1> DEFINE new == [mem EXCEPT !.journals[t] = NewJournal, !.plans[t] = TxPlan(p, t)]
<1>1. /\ pc[p][t] = "begin" /\ UNCHANGED <<host, target>> /\ ~Drifted(p, t)
      /\ tx[p][t] = "none"
  BY DEF OpenJournal, At, Drifted, LocalInv, AttemptOK
<1>2. CASE Finish(p, t, "failed") /\ Quiet
  BY <1>1, <1>2, QuietEffect
<1>3. CASE ~(Finish(p, t, "failed") /\ Quiet)
  <2>1. lock = Free
    BY <1>3 DEF OpenJournal, Quiet
  <2>2. OthersWait(p, t)
    BY <2>1, FreeMeansNobody DEF OthersWait
  <2>3. CASE Refused(p, t)
    BY <1>1, <2>2, <2>3, AbortEffect DEF Refused
  <2>4. CASE ~Refused(p, t)
    <3>1. mem.journals[t].status = "none"
      BY <1>3, <2>4 DEF OpenJournal, Quiet
    <3>2. \/ NotSaved(new) /\ Abort(p, t)
          \/ /\ Saved(new) /\ tx' = [tx EXCEPT ![p][t] = "open"] /\ UNCHANGED <<phase, missing, helpers>>
             /\ \E label \in {"commit", "gate", "apply"} : Go(p, t, label)
      BY <1>3, <2>4 DEF OpenJournal, Quiet
    <3>3. Moves(p, t, new)
      <4>1. new = Changed(t, NewJournal, TxPlan(p, t), mem.owned, mem.tools)
        BY Updates DEF StateInv, Sound
      <4> QED BY <1>1, <3>1, <4>1 DEF Begins, Moves
    <3> HIDE DEF new
    <3>4. CASE NotSaved(new) /\ Abort(p, t)
      BY <1>1, <2>2, <3>3, <3>4, SaveEffect
    <3>5. CASE ~(NotSaved(new) /\ Abort(p, t))
      <4>1. PICK label \in {"commit", "gate", "apply"} : Go(p, t, label)
        BY <3>2, <3>5
      <4>2. Framed(p, t) /\ Sees(p, t) /\ pc'[p][t] = label
        BY <3>2, <3>5, <4>1 DEF Go, LocalInv, LocalType, Framed, Others, Same, Sees
      <4>3. Labelled(p, t)'
        BY <4>2, PlainLabels
      <4> QED BY <1>1, <2>2, <3>2, <3>3, <3>5, <4>2, <4>3, SaveEffect
    <3> QED BY <3>4, <3>5
  <2> QED BY <2>3, <2>4
<1> QED BY <1>2, <1>3

LEMMA AddEffect ==
  ASSUME LocalInv, LockInv, StateInv, NEW p \in Procs, NEW t \in Tools,
         \/ PlanApplyNext(p, t) \/ AddSourceToHost(p, t) \/ ConfirmAdd(p, t)
         \/ ResolveFailedAdd(p, t) \/ RecheckAvailability(p, t)
  PROVE  Effect(p, t)
<1> DEFINE J == mem.journals[t]
           P == mem.plans[t]
<1>1. pc[p][t] \in {"apply", "recheck"} \cup AddLabels /\ pc[p][t] # "rb_plan"
  BY DEF PlanApplyNext, AddSourceToHost, ConfirmAdd, ResolveFailedAdd, RecheckAvailability, At,
     AddLabels
<1>2. OthersWait(p, t) /\ ~Drifted(p, t) /\ Sound(mem)
  BY <1>1, HolderIsAlone DEF Holding, Drifted, StateInv
<1>3. pc[p][t] \in AddLabels => CanRecordApplied(J)
  BY DEF StateInv, Labelled, CanRecordApplied
<1>4. CASE PlanApplyNext(p, t)
  <2>1. JournalMoves(t, PlanApply(J)) /\ PlanApply(J).status = "applying"
    <3>1. CanPlanApply(J, P) /\ ValidPlan(P) /\ ValidJournal(J, P)
      BY <1>2, <1>4, SoundParts DEF PlanApplyNext
    <3> QED BY <3>1, ForwardTransitions DEF JournalMoves
  <2> QED BY <1>2, <1>4, <2>1, PersistEffect DEF PlanApplyNext
<1>5. CASE AddSourceToHost(p, t)
  <2>1. /\ pc[p][t] = "add" /\ Quiet /\ target' = target
        /\ host' \in {host, Added(InFlightAdd(t)), [host EXCEPT ![InFlightAdd(t)] = "absent"]}
        /\ \E label \in {"record", "resolve"} : Continue(p, t, label)
    BY <1>5 DEF AddSourceToHost, At, Quiet
  <2>2. PICK label \in {"record", "resolve"} : Continue(p, t, label)
    BY <2>1
  <2>3. Framed(p, t) /\ Sees(p, t) /\ pc'[p][t] = label /\ tx' = tx
    BY <2>2, ContinueFrames
  <2>4. Labelled(p, t)'
    BY <1>3, <2>1, <2>2, <2>3 DEF Labelled, Quiet, AddLabels, InstallLabels, CanRecordApplied
  <2> QED BY <1>2, <2>1, <2>3, <2>4 DEF Effect, Touches
<1>6. CASE ConfirmAdd(p, t)
  <2>1. JournalMoves(t, RecordApplied(J, P))
    BY <1>3, <1>6 DEF ConfirmAdd, At, AddLabels, JournalMoves
  <2> QED BY <1>2, <1>6, <2>1, PersistEffect, PlainLabels DEF ConfirmAdd
<1>7. CASE ResolveFailedAdd(p, t)
  <2>1. CanRecordApplied(J) /\ UNCHANGED <<host, target>>
    BY <1>3, <1>7 DEF ResolveFailedAdd, At, AddLabels
  <2>2. JournalMoves(t, ResolveApplying(J, P, "applied"))
    BY <2>1 DEF JournalMoves, ResolveApplying
  <2>3. ~Present(InFlightAdd(t)) => JournalMoves(t, ResolveApplying(J, P, "not_applied"))
    BY <2>1, ProbeDecides DEF JournalMoves
  <2>4. ASSUME NEW j, JournalMoves(t, j), Persist(p, t, j, "rb_plan") PROVE Effect(p, t)
    BY <1>2, <2>1, <2>4, PersistEffect, PlainLabels
  <2>5. CASE ProbeFails(p, t)
    BY <1>2, <2>1, <2>5, AbortEffect DEF ProbeFails
  <2> QED BY <1>7, <2>2, <2>3, <2>4, <2>5 DEF ResolveFailedAdd
<1>8. CASE RecheckAvailability(p, t)
  <2>1. /\ Quiet /\ UNCHANGED <<host, target>>
        /\ \E label \in {"gate", "rb_plan"} : Continue(p, t, label)
    BY <1>8 DEF RecheckAvailability, Quiet
  <2> QED BY <1>2, <2>1, QuietEffect, PlainLabels
<1> QED BY <1>4, <1>5, <1>6, <1>7, <1>8

LEMMA RollBackEffect ==
  ASSUME LocalInv, NEW p \in Procs, NEW t \in Tools, RollBack(p, t), ~Drifted(p, t),
         UNCHANGED <<host, target>>
  PROVE  Effect(p, t)
<1>1. Quiet /\ (Finish(p, t, "failed") \/ Continue(p, t, "rb_plan"))
  BY DEF RollBack, GiveUp, Quiet
<1> QED BY <1>1, QuietEffect, PlainLabels

LEMMA GateEffect ==
  ASSUME LocalInv, LockInv, StateInv, NEW p \in Procs, NEW t \in Tools,
         \/ GateAlreadyInstalled(p, t) \/ EnsureDependencies(p, t) \/ ResumeTransaction(p, t)
  PROVE  Effect(p, t)
<1>1. /\ UNCHANGED <<host, target>> /\ ~Drifted(p, t)
      /\ pc[p][t] \in {"gate", "deps", "resume", "unwind"}
  BY DEF GateAlreadyInstalled, EnsureDependencies, ResumeTransaction, At, Drifted
<1>2. ASSUME Quiet, NEW label \in Plain, Go(p, t, label), UNCHANGED <<phase, missing, tx>>,
             \/ helpers' = helpers
             \/ \E hs : helpers' = [helpers EXCEPT ![p][t] = hs]
      PROVE  Effect(p, t)
  <2>1. Others(p, t) /\ Sees(p, t) /\ pc'[p][t] \in Plain
    BY <1>2 DEF Go, LocalInv, LocalType, Others, Same, Sees
  <2> QED BY <1>1, <1>2, <2>1, QuietEffect DEF Framed
<1>3. CASE GateAlreadyInstalled(p, t)
  <2>1. CASE RollBack(p, t)
    BY <1>1, <2>1, RollBackEffect
  <2>2. CASE Finish(p, t, "failed") /\ Quiet
    BY <1>1, <2>2, QuietEffect
  <2>3. CASE /\ Go(p, t, IF tx[p][t] = "none" THEN "done" ELSE "rb_plan") /\ Quiet
             /\ UNCHANGED <<phase, missing, helpers, tx>>
    BY <1>2, <2>3, PlainLabels
  <2>4. CASE Continue(p, t, "deps") /\ Quiet
    BY <1>1, <2>4, QuietEffect, PlainLabels
  <2>5. CASE Continue(p, t, "deps") /\ tx[p][t] # "none" /\ disk' = disk /\ Release
    <3>1. Holding(p, t) /\ pc[p][t] # "rb_plan"
      BY <1>3, <2>5 DEF GateAlreadyInstalled, At, Holding
    <3>2. OthersWait(p, t) /\ Releases
      BY <2>5, <3>1, HolderIsAlone, InSync DEF Release, Releases
    <3>3. Framed(p, t) /\ Sees(p, t) /\ pc'[p][t] \in Plain
      BY <2>5, ContinueFrames, PlainLabels
    <3> QED BY <1>1, <3>2, <3>3, PlainLabels DEF Effect, Touches
  <2> QED BY <1>1, <1>3, <2>1, <2>2, <2>3, <2>4, <2>5 DEF GateAlreadyInstalled, At, Quiet
<1>4. CASE EnsureDependencies(p, t)
  <2>1. Quiet
    BY <1>4 DEF EnsureDependencies, Quiet
  <2>2. CASE \/ Finish(p, t, "failed") \/ Continue(p, t, "unwind")
    BY <1>1, <2>1, <2>2, QuietEffect, PlainLabels
  <2>3. CASE /\ \E hs : helpers' = [helpers EXCEPT ![p][t] = hs]
             /\ UNCHANGED <<phase, missing, tx>>
             /\ \E label \in {"resume", "commit", "begin"} : Go(p, t, label)
    BY <1>2, <2>1, <2>3, PlainLabels
  <2> QED BY <1>4, <2>2, <2>3 DEF EnsureDependencies
<1>5. CASE ResumeTransaction(p, t)
  <2>1. /\ Quiet
        /\ \/ \E label \in {"commit", "rb_plan"} : Continue(p, t, label)
           \/ Finish(p, t, "failed")
    BY <1>5 DEF ResumeTransaction, Quiet
  <2> QED BY <1>1, <2>1, QuietEffect, PlainLabels
<1> QED BY <1>3, <1>4, <1>5

LEMMA CommitEffect ==
  ASSUME LocalInv, LockInv, StateInv, NEW p \in Procs, NEW t \in Tools, PlanCandidateCommit(p, t)
  PROVE  Effect(p, t)
<1>1. /\ pc[p][t] = "commit" /\ UNCHANGED <<host, target>> /\ ~Drifted(p, t) /\ phase[p] = "run"
      /\ Sound(mem) /\ mem \in State
  <2>1. pc[p][t] = "commit" /\ UNCHANGED <<host, target>>
    BY DEF PlanCandidateCommit, At
  <2>2. phase[p] = "run"
    BY <2>1, AtRun DEF UndoLabels
  <2> QED BY <2>1, <2>2 DEF Drifted, StateInv, Sound
<1>2. CASE RollBack(p, t)
  BY <1>1, <1>2, RollBackEffect
<1>3. CASE tx[p][t] = "none" /\ Continue(p, t, "install") /\ Quiet
  <2>1. Framed(p, t) /\ Sees(p, t) /\ pc'[p][t] = "install" /\ tx' = tx
    BY <1>3, ContinueFrames
  <2>2. Labelled(p, t)'
    BY <1>3, <2>1 DEF Labelled, AddLabels, InstallLabels
  <2> QED BY <1>1, <1>3, <2>1, <2>2 DEF Effect, Touches
<1>4. CASE /\ tx[p][t] = "open" /\ TxMatches(p, t) /\ CanPlanCommit(mem.journals[t], mem.plans[t])
  <2> DEFINE J == mem.journals[t]
             pl == [mem.plans[t] EXCEPT !.uses = UsesOf(p, t)]
             new == Changed(t, PlanCommit(J), pl, mem.owned, mem.tools)
  <2>1. Holding(p, t) /\ OthersWait(p, t) /\ mem = disk /\ lock = <<p, t>>
    BY <1>1, <1>4, HolderIsAlone, InSync DEF Holding
  <2>2. BindUses(p, t) = new
    <3>1. \A j, us : [mem EXCEPT !.journals[t] = j, !.plans[t].uses = us]
                        = Changed(t, j, [mem.plans[t] EXCEPT !.uses = us], mem.owned, mem.tools)
      BY <1>1, Updates
    <3> QED BY <3>1, Zenon DEF BindUses
  <2>3. Binds(p, t, new) /\ Moves(p, t, new)
    BY <1>1, <1>4 DEF Binds, Moves
  <2>4. new.journals[t].status = "committing"
    BY <1>1, ChangedEntries, SoundParts DEF PlanCommit, Journal
  <2> HIDE DEF new
  <2>5. CASE /\ Saved(new) /\ tx' = [tx EXCEPT ![p][t] = "bound"] /\ Go(p, t, "install")
             /\ UNCHANGED <<phase, missing, helpers>>
    <3>1. Framed(p, t) /\ Sees(p, t) /\ pc'[p][t] = "install"
      BY <2>5 DEF Go, LocalInv, LocalType, Framed, Others, Same, Sees
    <3>2. Labelled(p, t)'
      BY <2>4, <2>5, <3>1 DEF Labelled, AddLabels, InstallLabels, Saved
    <3> QED BY <1>1, <2>1, <2>3, <2>5, <3>1, <3>2, SaveEffect
  <2>6. CASE NotSaved(new) /\ Continue(p, t, "rb_plan") /\ UNCHANGED <<mem, lock>>
    <3>1. Framed(p, t) /\ Sees(p, t) /\ pc'[p][t] = "rb_plan"
      BY <2>6, ContinueFrames
    <3>2. Labelled(p, t)'
      BY <3>1, PlainLabels
    <3>3. CASE disk' = disk
      BY <1>1, <2>6, <3>3, QuietEffect, PlainLabels DEF Quiet
    <3>4. CASE disk' = new
      <4>1. Drifts(p, t)
        BY <1>1, <2>1, <2>2, <2>3, <2>6, <3>1, <3>4 DEF Drifts, Continue
      <4> QED BY <1>1, <2>1, <3>1, <3>2, <4>1 DEF Effect, Touches
    <3> QED BY <2>6, <3>3, <3>4 DEF NotSaved
  <2> QED BY <1>4, <1>2, <1>3, <2>2, <2>5, <2>6 DEF PlanCandidateCommit
<1> QED BY <1>2, <1>3, <1>4 DEF PlanCandidateCommit, Quiet

LEMMA GiveUpEffect ==
  ASSUME LocalInv, LockInv, StateInv, NEW p \in Procs, NEW t \in Tools, GiveUp(p, t),
         pc[p][t] \in InstallLabels, UNCHANGED <<host, target>>
  PROVE  Effect(p, t)
<1>1. CASE tx[p][t] = "none"
  <2>1. Finish(p, t, "failed") /\ Quiet /\ ~Drifted(p, t)
    BY <1>1 DEF GiveUp, Quiet, Drifted
  <2> QED BY <2>1, QuietEffect
<1>2. CASE tx[p][t] # "none"
  <2>1. Abort(p, t) /\ disk' = disk /\ OthersWait(p, t)
    BY <1>2, HolderIsAlone DEF GiveUp, Holding
  <2> QED BY <2>1, AbortEffect
<1> QED BY <1>1, <1>2

LEMMA InstallEffect ==
  ASSUME LocalInv, LockInv, StateInv, NEW p \in Procs, NEW t \in Tools,
         \/ InstallTarget(p, t) \/ VerifyInstalled(p, t)
         \/ ReconcileFailedInstall(p, t) \/ FinalizeCandidateCommit(p, t)
  PROVE  Effect(p, t)
<1> DEFINE J == mem.journals[t]
<1>1. /\ pc[p][t] \in {"finalize"} \cup InstallLabels /\ pc[p][t] # "rb_plan"
      /\ phase[p] = "run" /\ tx[p][t] \in {"none", "bound"}
      /\ tx[p][t] = "bound" => J.status = "committing" /\ OthersWait(p, t)
      /\ pc[p][t] = "finalize" => tx[p][t] = "bound"
  <2>1. pc[p][t] \in {"finalize"} \cup InstallLabels /\ pc[p][t] # "rb_plan"
    BY DEF InstallTarget, VerifyInstalled, ReconcileFailedInstall, FinalizeCandidateCommit, At,
       InstallLabels
  <2>2. phase[p] = "run"
    BY <2>1, AtRun DEF UndoLabels, InstallLabels
  <2>3. tx[p][t] \in {"none", "bound"} /\ (pc[p][t] = "finalize" => tx[p][t] = "bound")
    BY <2>1, <2>2 DEF LocalInv, LocalType, AttemptOK
  <2>4. tx[p][t] = "bound" => Holding(p, t)
    BY <2>1 DEF Holding
  <2> QED BY <2>1, <2>2, <2>3, <2>4, HolderIsAlone DEF StateInv, Labelled
<1>2. ~Drifted(p, t) /\ Sound(mem) /\ mem \in State
  BY <1>1 DEF Drifted, StateInv, Sound
<1>3. ASSUME Quiet, host' = host, Framed(p, t), Sees(p, t), Touches(p, t), tx' = tx,
             pc'[p][t] \in {"finalize"} \cup InstallLabels
      PROVE  Effect(p, t)
  <2>1. Labelled(p, t)'
    BY <1>1, <1>3 DEF Quiet, Labelled, AddLabels, InstallLabels
  <2> QED BY <1>2, <1>3, <2>1 DEF Effect
<1>4. CASE InstallTarget(p, t)
  <2>1. PICK label \in {"verify", "reconcile"} : Continue(p, t, label)
    BY <1>4 DEF InstallTarget
  <2>2. Framed(p, t) /\ Sees(p, t) /\ pc'[p][t] \in InstallLabels /\ tx' = tx
    BY <2>1, ContinueFrames DEF InstallLabels
  <2>3. Quiet /\ host' = host /\ pc[p][t] = "install"
    BY <1>4 DEF InstallTarget, Quiet, At
  <2>4. target' = target \/ \E s \in {"installed", "broken"} : target' = [target EXCEPT ![t] = s]
    <3>1. PICK s \in {target[t], "installed", "broken"} : target' = [target EXCEPT ![t] = s]
      BY <1>4 DEF InstallTarget
    <3>2. [target EXCEPT ![t] = target[t]] = target
      BY DEF StateInv, HostType
    <3> QED BY <3>1, <3>2
  <2>5. Touches(p, t)
    BY <2>3, <2>4 DEF Touches
  <2> QED BY <1>3, <2>2, <2>3, <2>5
<1>5. ASSUME UNCHANGED <<host, target>>, Quiet, Continue(p, t, "finalize") PROVE Effect(p, t)
  <2>1. Framed(p, t) /\ Sees(p, t) /\ pc'[p][t] = "finalize" /\ tx' = tx
    BY <1>5, ContinueFrames
  <2> QED BY <1>3, <1>5, <2>1 DEF Touches
<1>6. CASE VerifyInstalled(p, t)
  <2>1. pc[p][t] \in InstallLabels /\ UNCHANGED <<host, target>>
    BY <1>6 DEF VerifyInstalled, At, InstallLabels
  <2>2. CASE GiveUp(p, t)
    BY <2>1, <2>2, GiveUpEffect
  <2>3. CASE ~GiveUp(p, t)
    <3>1. Quiet /\ (Continue(p, t, "finalize") \/ \E r : Finish(p, t, r))
      BY <1>6, <2>3 DEF VerifyInstalled, Quiet
    <3> QED BY <1>2, <1>5, <2>1, <3>1, QuietEffect
  <2> QED BY <2>2, <2>3
<1>7. CASE ReconcileFailedInstall(p, t)
  <2>1. pc[p][t] \in InstallLabels /\ UNCHANGED <<host, target>>
    BY <1>7 DEF ReconcileFailedInstall, At, InstallLabels
  <2>2. CASE GiveUp(p, t)
    BY <2>1, <2>2, GiveUpEffect
  <2>3. CASE ~GiveUp(p, t)
    <3>1. /\ tx[p][t] = "bound" /\ t \in Roots
          /\ \/ Continue(p, t, "finalize") /\ Quiet
             \/ target[t] = "absent" /\ Persist(p, t, ResolveCommitNotApplied(J), "rb_plan")
      BY <1>7, <2>3 DEF ReconcileFailedInstall, Quiet
    <3>2. CASE target[t] = "absent" /\ Persist(p, t, ResolveCommitNotApplied(J), "rb_plan")
      <4>1. JournalMoves(t, ResolveCommitNotApplied(J)) /\ OthersWait(p, t)
        BY <1>1, <3>1, <3>2 DEF JournalMoves
      <4> QED BY <1>2, <2>1, <3>2, <4>1, PersistEffect, PlainLabels
    <3> QED BY <1>5, <2>1, <3>1, <3>2
  <2> QED BY <2>2, <2>3
<1>8. CASE FinalizeCandidateCommit(p, t)
  <2> DEFINE new == Changed(t, NoJournal, NoPlan, CommittedOwned(t), mem.tools \cup {t})
  <2>1. /\ pc[p][t] = "finalize" /\ UNCHANGED <<host, target>> /\ lock' = Free
        /\ OthersWait(p, t) /\ \E r : Finish(p, t, r)
    BY <1>1, <1>8 DEF FinalizeCandidateCommit, At
  <2>2. Committed(t) = new
    BY <1>2, Updates
  <2>3. PICK r : Finish(p, t, r)
    BY <2>1
  <2>4. Framed(p, t) /\ Sees(p, t) /\ Labelled(p, t)'
    BY <2>3, FinishFrames, PlainLabels
  <2>5. CASE ~CanCommit(t)
    <3>1. Quiet
      BY <1>8, <2>5 DEF FinalizeCandidateCommit, Quiet
    <3> QED BY <1>2, <2>1, <2>3, <3>1, QuietEffect
  <2>6. CASE CanCommit(t)
    <3>1. Moves(p, t, new)
      BY <2>1, <2>6 DEF Commits, Moves
    <3>2. mem' = disk' /\ disk' \in {disk, Committed(t)}
      BY <1>8, <2>6 DEF FinalizeCandidateCommit, Saved, NotSaved
    <3> HIDE DEF new
    <3>3. Releases \/ Saves(p, t)
      BY <2>1, <2>2, <3>1, <3>2 DEF Releases, Saves
    <3> QED BY <2>1, <2>4, <3>3 DEF Effect, Touches
  <2> QED BY <2>5, <2>6
<1> QED BY <1>4, <1>6, <1>7, <1>8

LEMMA UndoEffect ==
  ASSUME LocalInv, LockInv, StateInv, NEW p \in Procs, NEW t \in Tools, Undo(p, t)
  PROVE  Effect(p, t)
<1> DEFINE J == mem.journals[t]
           P == mem.plans[t]
<1>1. pc[p][t] \in UndoLabels /\ OthersWait(p, t) /\ Sound(mem) /\ mem \in State
  <2>1. pc[p][t] \in UndoLabels
    BY DEF Undo, PlanUndo, PlanUndoNext, RemoveSource, ConfirmUndo, ResolveFailedUndo, FinishUndo,
       At,
       UndoLabels
  <2> QED BY <2>1, HolderIsAlone DEF Holding, StateInv, Sound
<1>2. ASSUME UNCHANGED <<host, target>>, Refused(p, t) \/ ProbeFails(p, t) PROVE Effect(p, t)
  BY <1>1, <1>2, AbortEffect DEF Refused, ProbeFails
<1>3. ASSUME UNCHANGED <<host, target>>, NEW j, JournalMoves(t, j),
             NEW label \in Plain, Persist(p, t, j, label)
      PROVE  Effect(p, t)
  BY <1>1, <1>3, PersistEffect
<1>4. CASE PlanUndo(p, t)
  <2>1. CanPlanRollback(J, P, mem.owned) => JournalMoves(t, PlanRollback(J))
    BY DEF JournalMoves
  <2> QED BY <1>2, <1>3, <1>4, <2>1, PlainLabels DEF PlanUndo
<1>5. CASE PlanUndoNext(p, t)
  <2> DEFINE j == PlanRollbackApply(J, P, mem.owned)
  <2>1. CanPlanRollbackApply(J, P, mem.owned) /\ UNCHANGED <<host, target>> /\ Persist(p, t, j, "rb_remove")
    BY <1>5 DEF PlanUndoNext
  <2>2. JournalMoves(t, j)
    BY <2>1 DEF JournalMoves
  <2>3. j.undoing \in RollbackSteps(j, P, mem.owned)
    <3>1. ValidPlan(P) /\ ValidJournal(J, P) /\ J \in Journal
      BY <1>1, SoundParts
    <3>2. Highest(Remaining(J, P, mem.owned)) \in RollbackSteps(J, P, mem.owned)
      <4>1. CanPlanRollbackApply(J, P, mem.owned)
        BY <2>1
      <4> HIDE DEF J, P
      <4> QED BY <3>1, <4>1, NextCompensation, ZenonT(30)
    <3>3. j.undoing = Highest(Remaining(J, P, mem.owned)) /\ j.applied = J.applied
      BY <3>1 DEF PlanRollbackApply, Journal
    <3> QED BY <3>2, <3>3 DEF RollbackSteps
  <2> HIDE DEF j
  <2> QED BY <1>1, <2>1, <2>2, <2>3, PersistEffect
<1>6. CASE RemoveSource(p, t)
  <2>1. /\ pc[p][t] = "rb_remove" /\ Quiet /\ target' = target /\ ~Drifted(p, t)
        /\ host' = host \/ host' = [host EXCEPT ![InFlightUndo(t)] = "absent"]
        /\ \/ Continue(p, t, "rb_resolve")
           \/ host' = [host EXCEPT ![InFlightUndo(t)] = "absent"] /\ Continue(p, t, "rb_record")
    BY <1>6 DEF RemoveSource, At, Quiet, Drifted
  <2>2. PICK label \in {"rb_resolve", "rb_record"} : Continue(p, t, label)
    BY <2>1
  <2>3. Framed(p, t) /\ Sees(p, t) /\ pc'[p][t] = label /\ tx' = tx
    BY <2>2, ContinueFrames
  <2>4. CASE label = "rb_resolve"
    <3>1. Labelled(p, t)'
      BY <2>3, <2>4, PlainLabels
    <3> QED BY <1>1, <2>1, <2>3, <3>1 DEF Effect, Touches
  <2>5. CASE label = "rb_record"
    <3>1. Continue(p, t, "rb_record") /\ ~Continue(p, t, "rb_resolve")
      <4>1. Continue(p, t, "rb_resolve") => pc'[p][t] = "rb_resolve"
        BY ContinueFrames
      <4> QED BY <2>2, <2>3, <2>5, <4>1
    <3>2. J.undoing \in RollbackSteps(J, P, mem.owned)
      BY <2>1 DEF StateInv, Labelled
    <3>3. InFlightUndo(t) \in Sources
      <4>1. J.applied \in Nat
        BY <1>1, SoundParts DEF Journal
      <4>2. J.undoing \in 1..J.applied
        BY <3>2 DEF RollbackSteps
      <4>3. J.undoing # 0
        BY <4>1, <4>2
      <4> QED BY <1>1, <4>3, InFlight
    <3>4. host'[InFlightUndo(t)] = "absent" /\ InFlightUndo(t)' = InFlightUndo(t)
      BY <2>1, <3>1, <3>3 DEF StateInv, HostType, InFlightUndo, Quiet
    <3>5. Labelled(p, t)'
      BY <2>1, <2>3, <2>5, <3>2, <3>4 DEF Labelled, Quiet, AddLabels, InstallLabels
    <3> QED BY <1>1, <2>1, <2>3, <3>5 DEF Effect, Touches
  <2> QED BY <2>4, <2>5
<1>7. CASE ConfirmUndo(p, t)
  <2>1. CanRecordRollbackApplied(J, P, mem.owned) => JournalMoves(t, RecordRollbackApplied(J))
    BY <1>7 DEF ConfirmUndo, At, StateInv, Labelled, JournalMoves
  <2> QED BY <1>2, <1>3, <1>7, <2>1, PlainLabels DEF ConfirmUndo
<1>8. CASE ResolveFailedUndo(p, t)
  <2> DEFINE outcome == IF Present(InFlightUndo(t)) THEN "not_applied" ELSE "applied"
             j == ResolveRollbackApplying(J, outcome)
             new == Changed(t, j, P, mem.owned, mem.tools)
  <2>1. UNCHANGED <<host, target>>
    BY <1>8 DEF ResolveFailedUndo
  <2>2. CASE Refused(p, t) \/ ProbeFails(p, t)
    BY <1>2, <2>1, <2>2
  <2>3. CASE CanResolveRollbackApplying(J, P, mem.owned, outcome)
    <3>1. JournalMoves(t, j)
      BY <2>3, ProbeDecides DEF JournalMoves, ResolveRollbackApplying, CanResolveRollbackApplying
    <3>2. SetJournal(t, j) = new /\ Moves(p, t, new)
      <4>1. SetJournal(t, j) = new
        BY <1>1, Updates
      <4>2. Moves(p, t, new)
        BY <3>1 DEF Moves
      <4> QED BY <4>1, <4>2
    <3>3. CASE Persist(p, t, j, "rb_next")
      BY <1>3, <2>1, <3>1, <3>3, PlainLabels
    <3>4. CASE (disk' = new \/ NotSaved(new)) /\ Abort(p, t)
      <4>1. Framed(p, t) /\ Sees(p, t) /\ pc'[p][t] \in {"idle", "done"}
        BY <3>4, AbortFrames
      <4>2. Labelled(p, t)'
        BY <4>1, PlainLabels
      <4> HIDE DEF new
      <4>3. lock' = Free /\ mem' = disk' /\ disk' \in {disk, new}
        BY <3>4 DEF NotSaved, Abort, Release
      <4>4. Releases \/ Saves(p, t)
        BY <3>2, <4>3 DEF Releases, Saves
      <4> QED BY <1>1, <2>1, <4>1, <4>2, <4>4 DEF Effect, Touches
    <3> QED BY <1>8, <2>2, <2>3, <3>2, <3>3, <3>4 DEF ResolveFailedUndo
  <2> QED BY <1>8, <2>2, <2>3 DEF ResolveFailedUndo
<1>9. CASE FinishUndo(p, t)
  <2> DEFINE o == FinalizeRollback(J, P, mem.owned)
             new == Changed(t, NoJournal, NoPlan, o, mem.tools)
  <2>1. UNCHANGED <<host, target>> /\ [Closed(t) EXCEPT !.owned = o] = new
    BY <1>1, <1>9, Updates DEF FinishUndo
  <2>2. CASE Refused(p, t)
    BY <1>2, <2>1, <2>2
  <2>3. CASE CanFinalizeRollback(J, P, mem.owned)
    <3>1. Moves(p, t, new)
      BY <2>3 DEF Undone, Moves
    <3>2. \/ NotSaved(new) /\ Abort(p, t)
          \/ Saved(new) /\ (Continue(p, t, "idle") \/ \E r : Finish(p, t, r))
      BY <1>9, <2>1, <2>3 DEF FinishUndo
    <3>3. CASE Saved(new) /\ (Continue(p, t, "idle") \/ \E r : Finish(p, t, r))
      <4>1. Framed(p, t) /\ Sees(p, t) /\ pc'[p][t] \in {"idle", "done"}
        <5>1. CASE Continue(p, t, "idle")
          BY <5>1, ContinueFrames
        <5>2. CASE \E r : Finish(p, t, r)
          <6>1. PICK r : Finish(p, t, r)
            BY <5>2
          <6> QED BY <6>1, FinishFrames
        <5> QED BY <3>3, <5>1, <5>2
      <4>2. Labelled(p, t)'
        BY <4>1, PlainLabels
      <4> HIDE DEF new
      <4> QED BY <1>1, <2>1, <3>1, <3>3, <4>1, <4>2, SaveEffect
    <3> HIDE DEF new
    <3> QED BY <1>1, <2>1, <3>1, <3>2, <3>3, SaveEffect
  <2> QED BY <1>9, <2>2, <2>3 DEF FinishUndo
<1> QED BY <1>4, <1>5, <1>6, <1>7, <1>8, <1>9 DEF Undo

LEMMA LeakedEffect ==
  ASSUME LocalInv, LockInv, StateInv, NEW p \in Procs, NEW t \in Tools, FinalizeLeakedLock(p, t)
  PROVE  Effect(p, t)
<1>1. OthersWait(p, t) /\ ~Holding(p, t)
  BY LeakedLocal
<1>2. mem = disk
  BY <1>1, FreeInSync DEF OthersWait
<1>3. /\ Quiet /\ UNCHANGED <<host, target>> /\ pc[p][t] = "done" /\ ~Drifted(p, t)
      /\ UNCHANGED <<phase, pc, missing, helpers, tx>>
  BY <1>2 DEF FinalizeLeakedLock, Release, Quiet, At, Drifted, local
<1>4. Framed(p, t) /\ Sees(p, t) /\ pc'[p][t] \in Plain
  BY <1>3, PlainLabels DEF Framed, Others, Same, Sees
<1> QED BY <1>3, <1>4, QuietEffect

(***************************************************************************)
(* Every step keeps the invariant of the state.                            *)
(***************************************************************************)
LEMMA LabelledNeedsHolding ==
  ASSUME NEW p \in Procs, NEW t \in Tools, ~Holding(p, t)
  PROVE  Labelled(p, t)
BY DEF Labelled, Holding, AddLabels, UndoLabels, InstallLabels

\* An attempt that does not move keeps what it relies on while the state and
\* the host stay, or when it is at no step under the lock.
LEMMA SameLabelled ==
  ASSUME NEW p \in Procs, NEW t \in Tools, Labelled(p, t), Same(p, t),
         ~Holding(p, t) \/ (Quiet /\ host' = host)
  PROVE  Labelled(p, t)'
<1>1. CASE ~Holding(p, t)
  <2>1. ~Holding(p, t)'
    BY <1>1 DEF Same, Holding
  <2> QED BY <2>1 DEF Labelled, Holding, AddLabels, UndoLabels, InstallLabels
<1>2. CASE Quiet /\ host' = host
  BY <1>2 DEF Quiet, Same, Labelled, InFlightUndo
<1> QED BY <1>1, <1>2

LEMMA SameDrifted ==
  ASSUME LockInv', NEW p \in Procs, NEW t \in Tools, Drifted(p, t), Same(p, t), Quiet,
         phase'[p] = phase[p]
  PROVE  Drifted(p, t)'
<1>1. lock' = <<p, t>>
  <2>1. (phase[p] = "run" /\ Holding(p, t))'
    BY DEF Drifted, Same, Holding, UndoLabels
  <2> QED BY <2>1 DEF LockInv
<1>2. TxPlan(p, t)' = TxPlan(p, t) /\ UsesOf(p, t)' = UsesOf(p, t)
  BY DEF Same, TxPlan, UsesOf, Created
<1>3. BindUses(p, t)' = BindUses(p, t) /\ TxMatches(p, t)' = TxMatches(p, t)
  BY <1>2 DEF BindUses, TxMatches, Quiet
<1> QED BY <1>1, <1>3 DEF Drifted, Same, Quiet

LEMMA TouchesType ==
  ASSUME HostType, NEW p \in Procs, NEW t \in Tools, Touches(p, t)
  PROVE  HostType'
<1>1. CASE UNCHANGED <<host, target>>
  BY <1>1 DEF HostType
<1>2. ASSUME NEW s, host' \in {Added(s), [host EXCEPT ![s] = "absent"]}, target' = target
      PROVE  HostType'
  BY <1>2 DEF HostType, Added
<1>3. ASSUME host' = host, NEW s \in {"installed", "broken"}, target' = [target EXCEPT ![t] = s]
      PROVE  HostType'
  BY <1>3 DEF HostType
<1> QED BY <1>1, <1>2, <1>3 DEF Touches

LEMMA EffectKeeps ==
  ASSUME LocalInv, LockInv, StateInv, LockInv', NEW p \in Procs, NEW t \in Tools, Effect(p, t)
  PROVE  StateInv'
<1>1. HostType'
  BY TouchesType DEF StateInv, Effect
<1>2. Sound(mem') /\ Sound(disk')
  <2>1. CASE Quiet \/ Releases
    BY <2>1 DEF StateInv, Quiet, Releases
  <2>2. CASE Saves(p, t)
    <3>1. PICK new : Moves(p, t, new) /\ disk' = new /\ mem' = new
      BY <2>2 DEF Saves
    <3> QED BY <3>1, MovesSound DEF StateInv
  <2>3. CASE Drifts(p, t)
    <3>1. Moves(p, t, disk') /\ mem' = mem
      BY <2>3 DEF Drifts, Moves
    <3> QED BY <3>1, MovesSound DEF StateInv
  <2> QED BY <2>1, <2>2, <2>3 DEF Effect
<1>3. mem' = disk' \/ \E q \in Procs, u \in Tools : Drifted(q, u)'
  <2>1. CASE Quiet /\ ~Drifted(p, t)
    <3>1. SUFFICES ASSUME mem # disk PROVE \E q \in Procs, u \in Tools : Drifted(q, u)'
      BY <2>1 DEF Quiet
    <3>2. PICK q \in Procs, u \in Tools : Drifted(q, u)
      BY <3>1 DEF StateInv
    <3>3. (q # p \/ u # t) /\ phase[q] = "run" /\ lock = <<q, u>>
      BY <2>1, <3>2 DEF Drifted
    <3>4. Same(q, u) /\ phase'[q] = phase[q]
      <4>1. CASE Others(p, t)
        BY <3>3, <4>1 DEF Others
      <4>2. CASE phase[p] = "recover" /\ ResetOthers(p)
        BY <3>3, <4>2 DEF ResetOthers
      <4> QED BY <4>1, <4>2 DEF Effect, Framed
    <3> QED BY <2>1, <3>2, <3>4, SameDrifted
  <2>2. CASE Releases \/ Saves(p, t)
    BY <2>2 DEF Releases, Saves
  <2>3. CASE Drifts(p, t)
    <3>1. /\ tx[p][t] = "open" /\ TxMatches(p, t)
          /\ CanPlanCommit(mem.journals[t], mem.plans[t])
      BY <2>3 DEF Drifts, Binds
    <3>2. TxPlan(p, t)' = TxPlan(p, t) /\ UsesOf(p, t)' = UsesOf(p, t)
      BY <2>3 DEF Drifts, TxPlan, UsesOf, Created
    <3>3. BindUses(p, t)' = BindUses(p, t) /\ TxMatches(p, t)' = TxMatches(p, t)
      BY <2>3, <3>2 DEF BindUses, TxMatches, Drifts
    <3>4. Drifted(p, t)'
      BY <2>3, <3>1, <3>3 DEF Drifts, Drifted
    <3> QED BY <3>4
  <2> QED BY <2>1, <2>2, <2>3 DEF Effect
<1>4. ASSUME NEW q \in Procs, NEW u \in Tools PROVE Labelled(q, u)'
  <2>1. CASE q = p /\ u = t
    BY <2>1 DEF Effect
  <2>2. CASE q # p \/ u # t
    <3>1. Labelled(q, u) /\ (~Holding(q, u) \/ (Quiet /\ host' = host))
      BY <2>2 DEF StateInv, Effect, OthersWait
    <3>2. CASE Same(q, u)
      BY <3>1, <3>2, SameLabelled
    <3>3. CASE pc'[q][u] = "idle"
      BY <3>3, PlainLabels
    <3> QED BY <2>2, <3>2, <3>3 DEF Effect, Framed, Others, ResetOthers
  <2> QED BY <2>1, <2>2
<1> QED BY <1>1, <1>2, <1>3, <1>4 DEF StateInv

\* What a run's final write makes of the state file.
LEMMA WrittenParts ==
  ASSUME Sound(disk), NEW p \in Procs
  PROVE  LET W == WrittenState(p) IN
           /\ Sound(W) /\ W.journals = disk.journals /\ W.plans = disk.plans
           /\ W.tools = disk.tools \cup Reported(p)
           /\ \A r \in Resources :
                \/ Claimants(p, r) = {} /\ W.owned[r] = disk.owned[r]
                \/ /\ Claimants(p, r) \subseteq Reported(p)
                   /\ W.owned[r].own = TrackOne(disk.owned[r], \E t \in Claimants(p, r) : r \in Created(p, t)).own
                   /\ W.owned[r].deps = disk.owned[r].deps \cup Claimants(p, r)
<1> DEFINE W == WrittenState(p)
           new(r) == [TrackOne(disk.owned[r], \E t \in Claimants(p, r) : r \in Created(p, t))
                        EXCEPT !.deps = @ \cup Claimants(p, r)]
<1>1. /\ disk.owned \in Snapshot /\ disk.tools \in SUBSET Tools /\ disk \in State
      /\ \A r \in Resources : disk.owned[r] \in OwnedState
      /\ \A r \in Resources : disk.owned[r].own = "none" => disk.owned[r].deps = {}
  BY SnapshotMembers DEF Sound, State
<1>2. /\ W.journals = disk.journals /\ W.plans = disk.plans
      /\ W.tools = disk.tools \cup Reported(p)
      /\ W = [journals |-> disk.journals, plans |-> disk.plans, owned |-> W.owned, tools |-> W.tools]
      /\ W.owned = [r \in Resources |-> IF Claimants(p, r) = {} THEN disk.owned[r] ELSE new(r)]
  <2> DEFINE o == [r \in Resources |-> IF Claimants(p, r) = {} THEN disk.owned[r] ELSE new(r)]
             k == disk.tools \cup Reported(p)
  <2>1. W = [disk EXCEPT !.tools = k, !.owned = o]
    BY DEF WrittenState
  <2> HIDE DEF o, k, new, W
  <2>2. W = [journals |-> disk.journals, plans |-> disk.plans, owned |-> o, tools |-> k]
    BY <1>1, <2>1 DEF State
  <2>3. W.owned = o /\ W.tools = k /\ W.journals = disk.journals /\ W.plans = disk.plans
    BY <2>2
  <2> QED BY <2>2, <2>3 DEF o, k
<1>3. ASSUME NEW r \in Resources
      PROVE  /\ new(r) \in OwnedState /\ new(r).own # "none"
             /\ new(r).own = TrackOne(disk.owned[r], \E t \in Claimants(p, r) : r \in Created(p, t)).own
             /\ new(r).deps = disk.owned[r].deps \cup Claimants(p, r)
  <2> DEFINE b == \E t \in Claimants(p, r) : r \in Created(p, t)
             s == TrackOne(disk.owned[r], b)
  <2>1. b \in BOOLEAN
    OBVIOUS
  <2>2. s \in OwnedState /\ s.own # "none" /\ s.deps = disk.owned[r].deps
    <3> HIDE DEF b
    <3> QED BY <1>1, <2>1, TrackOneType
  <2>3. Claimants(p, r) \in SUBSET Dependents
    BY DEF Claimants, Tools
  <2> HIDE DEF s
  <2>4. /\ [s EXCEPT !.deps = @ \cup Claimants(p, r)] \in OwnedState
        /\ [s EXCEPT !.deps = @ \cup Claimants(p, r)].own = s.own
        /\ [s EXCEPT !.deps = @ \cup Claimants(p, r)].deps = s.deps \cup Claimants(p, r)
    BY <2>2, <2>3 DEF OwnedState
  <2> QED BY <2>2, <2>4 DEF s
<1>4. ASSUME NEW r \in Resources PROVE Claimants(p, r) \subseteq Reported(p)
  BY DEF Claimants, Reported
<1> HIDE DEF new
<1>5. W.owned \in Snapshot
  <2>1. W.owned \in [Resources -> OwnedState]
    BY <1>1, <1>2, <1>3
  <2>2. \A r \in Resources : W.owned[r].own = "none" => W.owned[r].deps = {}
    BY <1>1, <1>2, <1>3
  <2> QED BY <2>1, <2>2 DEF Snapshot
<1>6. W.tools \in SUBSET Tools
  BY <1>1, <1>2 DEF Reported
<1>7. W \in State
  <2>1. disk.journals \in [Tools -> Journal] /\ disk.plans \in [Tools -> Plan]
    BY <1>1 DEF State
  <2> HIDE DEF W
  <2> QED BY <1>2, <1>5, <1>6, <2>1 DEF State
<1>8. Sound(W)
  BY <1>2, <1>7 DEF Sound
<1>9. ASSUME NEW r \in Resources
      PROVE  \/ Claimants(p, r) = {} /\ W.owned[r] = disk.owned[r]
             \/ /\ Claimants(p, r) \subseteq Reported(p)
                /\ W.owned[r].own = TrackOne(disk.owned[r], \E t \in Claimants(p, r) : r \in Created(p, t)).own
                /\ W.owned[r].deps = disk.owned[r].deps \cup Claimants(p, r)
  BY <1>2, <1>3, <1>4
<1> HIDE DEF W
<1> QED BY <1>2, <1>8, <1>9 DEF W

(***************************************************************************)
(* A step rests, is an attempt's, or ends a run.                           *)
(***************************************************************************)
Rests ==
  /\ Quiet /\ UNCHANGED <<target, pc, tx, missing, helpers>>
  /\ mem = disk \/ UNCHANGED <<phase, lock>>
  /\ host' = host \/ \E s \in Sources : AdminRemovesSource(s)

Writes(p) ==
  /\ mem = disk /\ mem' = disk' /\ disk' \in {disk, WrittenState(p)}
  /\ ResetOthers(p) /\ UNCHANGED <<host, target>>
  /\ \A q \in Procs, u \in Tools : ~Holding(q, u)

Crashes(p) ==
  /\ disk' = disk /\ ResetOthers(p) /\ UNCHANGED <<host, target>>
  /\ \/ mem' = disk /\ \A q \in Procs \ {p}, u \in Tools : ~Holding(q, u)
     \/ mem' = mem /\ \A u \in Tools : ~Drifted(p, u)

LEMMA ResetFrames ==
  ASSUME LocalInv, NEW p \in Procs, Reset(p)
  PROVE  ResetOthers(p)
BY DEF Reset, LocalInv, LocalType, ResetOthers, Same

LEMMA StepKinds ==
  ASSUME LocalInv, LockInv, StateInv, [Next]_vars
  PROVE  \/ Rests
         \/ \E p \in Procs, t \in Tools : Effect(p, t)
         \/ \E p \in Procs : Writes(p) \/ Crashes(p)
<1>1. CASE UNCHANGED vars
  BY <1>1 DEF vars, Rests, Quiet
<1>2. CASE \E s \in Sources : AdminRemovesSource(s)
  BY <1>2 DEF AdminRemovesSource, local, Rests, Quiet
<1>3. ASSUME NEW p \in Procs, StartRun(p) PROVE Rests
  <2>1. mem = disk
    BY <1>3, FreeMeansNobody, FreeInSync DEF StartRun
  <2> QED BY <1>3, <2>1 DEF StartRun, Rests, Quiet
<1>4. ASSUME NEW p \in Procs, RecoverDone(p) PROVE Rests
  <2>1. lock = <<p, Recovery>>
    BY <1>4 DEF RecoverDone, LockInv
  <2>2. \A q \in Procs, u \in Tools : ~Drifted(q, u)
    BY <2>1, LockAssumption DEF Drifted
  <2>3. mem = disk
    BY <2>2 DEF StateInv
  <2> QED BY <1>4, <2>3 DEF RecoverDone, Release, Rests, Quiet
<1>5. ASSUME NEW p \in Procs, WriteState(p) PROVE Writes(p)
  <2>1. lock = Free /\ Reset(p) /\ mem' = disk' /\ disk' \in {disk, WrittenState(p)}
        /\ UNCHANGED <<host, target>>
    BY <1>5 DEF WriteState, NotSaved
  <2>2. \A q \in Procs, u \in Tools : ~Holding(q, u)
    BY <2>1, FreeMeansNobody
  <2>3. mem = disk
    BY <2>2, FreeInSync
  <2> QED BY <2>1, <2>2, <2>3, ResetFrames DEF Writes
<1>6. ASSUME NEW p \in Procs, Crash(p) PROVE Crashes(p)
  <2>1. disk' = disk /\ ResetOthers(p) /\ UNCHANGED <<host, target>>
    BY <1>6, ResetFrames DEF Crash
  <2>2. CASE lock \in {p} \X (Tools \cup {Recovery})
    <3>1. mem' = disk
      BY <1>6, <2>2 DEF Crash, Release
    <3>2. ASSUME NEW q \in Procs \ {p}, NEW u \in Tools, Holding(q, u) PROVE FALSE
      <4>1. lock = IF phase[q] = "recover" THEN <<q, Recovery>> ELSE <<q, u>>
        BY <3>2, HolderIsAlone
      <4> QED BY <2>2, <4>1
    <3> QED BY <2>1, <3>1, <3>2 DEF Crashes
  <2>3. CASE lock \notin {p} \X (Tools \cup {Recovery})
    <3>1. mem' = mem
      BY <1>6, <2>3 DEF Crash
    <3>2. \A u \in Tools : ~Drifted(p, u)
      BY <2>3 DEF Drifted
    <3> QED BY <2>1, <3>1, <3>2 DEF Crashes
  <2> QED BY <2>2, <2>3
<1>7. ASSUME NEW p \in Procs, NEW t \in Tools,
             \/ RecoverApplying(p, t) \/ RecoverUndoing(p, t)
             \/ RecoverRollback(p, t) \/ RecoverCommit(p, t)
             \/ Prepare(p, t) \/ Install(p, t) \/ Undo(p, t) \/ FinalizeLeakedLock(p, t)
      PROVE  Effect(p, t)
  BY <1>7, RecoverEffect, ProbeEffect, BeginEffect, AddEffect, GateEffect, CommitEffect,
     InstallEffect, UndoEffect, LeakedEffect DEF Prepare, Install
<1> QED BY <1>1, <1>2, <1>3, <1>4, <1>5, <1>6, <1>7 DEF Next, Recover

LEMMA StateStep ==
  LocalInv /\ LockInv /\ StateInv /\ [Next]_vars => StateInv'
<1> SUFFICES ASSUME LocalInv, LockInv, StateInv, [Next]_vars PROVE StateInv'
  OBVIOUS
<1>1. LocalInv' /\ LockInv'
  BY LockStep
<1>2. CASE Rests
  <2>1. HostType'
    BY <1>2 DEF Rests, AdminRemovesSource, StateInv, HostType
  <2>2. Sound(mem') /\ Sound(disk')
    BY <1>2 DEF Rests, Quiet, StateInv
  <2>3. mem' = disk' \/ \E q \in Procs, u \in Tools : Drifted(q, u)'
    <3>1. SUFFICES ASSUME mem # disk PROVE \E q \in Procs, u \in Tools : Drifted(q, u)'
      BY <1>2 DEF Rests, Quiet
    <3>2. PICK q \in Procs, u \in Tools : Drifted(q, u)
      BY <3>1 DEF StateInv
    <3>3. Same(q, u) /\ Quiet /\ phase'[q] = phase[q]
      BY <1>2, <3>1 DEF Rests, Same
    <3> QED BY <1>1, <3>2, <3>3, SameDrifted
  <2>4. ASSUME NEW q \in Procs, NEW u \in Tools PROVE Labelled(q, u)'
    <3>1. Labelled(q, u) /\ Same(q, u) /\ Quiet
      BY <1>2 DEF StateInv, Rests, Same
    <3>2. CASE host' = host
      BY <3>1, <3>2, SameLabelled
    <3>3. CASE \E s \in Sources : AdminRemovesSource(s)
      <4>1. PICK s \in Sources : host' = [host EXCEPT ![s] = "absent"]
        BY <3>3 DEF AdminRemovesSource
      <4>2. host[InFlightUndo(u)] = "absent" /\ InFlightUndo(u) \in Sources
              => host'[InFlightUndo(u)] = "absent"
        BY <4>1 DEF StateInv, HostType
      <4>3. mem.journals[u].undoing \in RollbackSteps(mem.journals[u], mem.plans[u], mem.owned)
              => InFlightUndo(u) \in Sources
        <5>1. mem.journals[u].applied \in Nat
          BY SoundParts DEF StateInv, Journal
        <5>2. mem.journals[u].undoing \in RollbackSteps(mem.journals[u], mem.plans[u], mem.owned)
                => mem.journals[u].undoing \in 1..mem.journals[u].applied
          BY DEF RollbackSteps
        <5>3. mem.journals[u].undoing \in RollbackSteps(mem.journals[u], mem.plans[u], mem.owned)
                => mem.journals[u].undoing # 0
          BY <5>1, <5>2
        <5> QED BY <5>3, InFlight DEF StateInv
      <4> QED BY <3>1, <4>2, <4>3 DEF Labelled, Same, Quiet, InFlightUndo
    <3> QED BY <1>2, <3>2, <3>3 DEF Rests
  <2> QED BY <2>1, <2>2, <2>3, <2>4 DEF StateInv
<1>3. ASSUME NEW p \in Procs, NEW t \in Tools, Effect(p, t) PROVE StateInv'
  BY <1>1, <1>3, EffectKeeps
<1>4. ASSUME NEW p \in Procs, ResetOthers(p), UNCHANGED <<host, target>>,
             \/ \A q \in Procs \ {p}, u \in Tools : ~Holding(q, u)
             \/ Quiet
      PROVE  HostType' /\ \A q \in Procs, u \in Tools : Labelled(q, u)'
  <2>1. HostType'
    BY <1>4 DEF StateInv, HostType
  <2>2. ASSUME NEW q \in Procs, NEW u \in Tools PROVE Labelled(q, u)'
    <3>1. CASE q = p
      BY <1>4, <3>1, PlainLabels DEF ResetOthers
    <3>2. CASE q # p
      <4>1. Labelled(q, u) /\ Same(q, u)
        BY <1>4, <3>2 DEF StateInv, ResetOthers
      <4> QED BY <1>4, <3>2, <4>1, SameLabelled
    <3> QED BY <3>1, <3>2
  <2> QED BY <2>1, <2>2
<1>5. ASSUME NEW p \in Procs, Writes(p) PROVE StateInv'
  <2>1. Sound(mem') /\ Sound(disk') /\ mem' = disk'
    BY <1>5, WrittenParts DEF Writes, StateInv
  <2> QED BY <1>4, <1>5, <2>1 DEF Writes, StateInv
<1>6. ASSUME NEW p \in Procs, Crashes(p) PROVE StateInv'
  <2>1. CASE mem' = disk /\ \A q \in Procs \ {p}, u \in Tools : ~Holding(q, u)
    BY <1>4, <1>6, <2>1 DEF Crashes, StateInv
  <2>2. CASE mem' = mem /\ \A u \in Tools : ~Drifted(p, u)
    <3>1. Quiet
      BY <1>6, <2>2 DEF Crashes, Quiet
    <3>2. mem' = disk' \/ \E q \in Procs, u \in Tools : Drifted(q, u)'
      <4>1. SUFFICES ASSUME mem # disk PROVE \E q \in Procs, u \in Tools : Drifted(q, u)'
        BY <3>1 DEF Quiet
      <4>2. PICK q \in Procs, u \in Tools : Drifted(q, u)
        BY <4>1 DEF StateInv
      <4>3. q # p
        BY <2>2, <4>2
      <4>4. Same(q, u) /\ phase'[q] = phase[q]
        BY <1>6, <4>3 DEF Crashes, ResetOthers
      <4> QED BY <1>1, <3>1, <4>2, <4>4, SameDrifted
    <3> QED BY <1>4, <1>6, <3>1, <3>2 DEF Crashes, StateInv, Quiet
  <2> QED BY <1>6, <2>1, <2>2 DEF Crashes
<1> QED BY <1>2, <1>3, <1>5, <1>6, StepKinds

ExecInv == LocalInv /\ LockInv /\ StateInv

LEMMA ExecInit == Init => ExecInv
<1> SUFFICES ASSUME Init PROVE ExecInv
  OBVIOUS
<1>1. NoneOwned \in Snapshot
  BY DEF NoneOwned, Snapshot, OwnedState
<1>2. EmptyState \in State /\ \A t \in Tools : EmptyState.journals[t] = NoJournal /\ EmptyState.plans[t] = NoPlan
  BY <1>1, ClosedSound DEF EmptyState, State
<1>3. Sound(EmptyState)
  BY <1>2, ClosedSound DEF Sound
<1>4. mem = EmptyState /\ disk = EmptyState /\ HostType /\ \A p \in Procs, t \in Tools : pc[p][t] = "idle"
  BY DEF Init, HostType
<1>5. \A p \in Procs, t \in Tools : Labelled(p, t)
  BY <1>4 DEF Labelled, AddLabels, InstallLabels
<1> QED BY <1>3, <1>4, <1>5, LockInit DEF StateInv, ExecInv

LEMMA ExecStep == ExecInv /\ [Next]_vars => ExecInv'
BY LockStep, StateStep DEF ExecInv

\* The attempt, or the recovery it belongs to, holds the lock, all others wait,
\* and its copy of the state is what is on disk, save for its own boundary.
Disciplined(p, t) ==
  /\ lock = IF phase[p] = "recover" THEN <<p, Recovery>> ELSE <<p, t>>
  /\ OthersWait(p, t)
  /\ \/ mem = disk
     \/ pc[p][t] = "rb_plan" /\ disk = BindUses(p, t)

\* At most one attempt, of all attempts of all processes, is ever at a step
\* that reads or writes the state under the lock; that attempt, or the recovery
\* it belongs to, holds the lock; and what it works on is what the state file
\* says.  The one exception is the rollback of a commit boundary whose save was
\* not confirmed and yet had reached the disk: then the file is one boundary
\* ahead of the holder's copy, and it is the holder's own boundary.
THEOREM LockDiscipline ==
  Spec => [](\A p \in Procs, t \in Tools : Holding(p, t) => Disciplined(p, t))
<1>1. ExecInv => \A p \in Procs, t \in Tools : Holding(p, t) => Disciplined(p, t)
  <2> SUFFICES ASSUME ExecInv, NEW p \in Procs, NEW t \in Tools, Holding(p, t)
               PROVE  Disciplined(p, t)
    OBVIOUS
  <2>1. OthersWait(p, t) /\ lock = IF phase[p] = "recover" THEN <<p, Recovery>> ELSE <<p, t>>
    BY HolderIsAlone DEF ExecInv
  <2>2. ASSUME NEW q \in Procs, NEW u \in Tools, Drifted(q, u)
        PROVE  pc[p][t] = "rb_plan" /\ disk = BindUses(p, t)
    <3>1. Holding(q, u)
      BY <2>2 DEF Drifted, Holding, UndoLabels
    <3>2. q = p /\ u = t
      BY <2>1, <3>1 DEF OthersWait
    <3> QED BY <2>2, <3>2 DEF Drifted
  <2> QED BY <2>1, <2>2 DEF ExecInv, StateInv, Disciplined
<1> QED BY <1>1, ExecInit, ExecStep, PTL DEF Spec

\* Whatever is on disk at any moment, a crash or a torn save included, can be
\* read and validated by the next run: every plan and journal is well formed
\* and fits its tool's declared sources, and the snapshot is consistent.
THEOREM StateReadable == Spec => []Sound(disk)
<1>1. ExecInv => Sound(disk)
  BY DEF ExecInv, StateInv
<1> QED BY <1>1, ExecInit, ExecStep, PTL DEF Spec

(***************************************************************************)
(* Write-ahead, unless the administrator takes sources away, and rollback. *)
(***************************************************************************)
LEMMA EffectWritesAhead ==
  ASSUME ExecInv, NEW p \in Procs, NEW t \in Tools, Effect(p, t)
  PROVE  /\ \A s \in Sources : host'[s] # host[s] =>
              LET j == disk.journals[t] IN
              \E i \in {j.applying, j.undoing} \ {0} : disk.plans[t].prepare[i].res = s
         /\ \A u \in Tools : target'[u] # target[u] /\ (u \notin Roots \/ Requires[u] # {})
              => disk.journals[u].status = "committing"
<1> DEFINE J == mem.journals[t]
           P == mem.plans[t]
<1>1. /\ LocalInv /\ LockInv /\ StateInv /\ HostType /\ Sound(mem) /\ J \in Journal
      /\ Touches(p, t) /\ Labelled(p, t)
  BY SoundParts DEF ExecInv, StateInv, Effect
<1>2. CASE UNCHANGED <<host, target>>
  BY <1>2
<1>3. CASE /\ pc[p][t] = "add" /\ target' = target
           /\ host' \in {Added(InFlightAdd(t)), [host EXCEPT ![InFlightAdd(t)] = "absent"]}
  <2>1. mem = disk
    BY <1>1, <1>3, InSync DEF Holding, AddLabels
  <2>2. J.status = "applying" /\ J.applying # 0 /\ P.prepare[J.applying].res = InFlightAdd(t)
    <3>1. J.status = "applying"
      BY <1>1, <1>3 DEF Labelled, AddLabels
    <3>2. J.applying = J.applied + 1 /\ J.applied \in Nat
      BY <1>1, <3>1, InFlight DEF Journal
    <3> QED BY <3>1, <3>2 DEF InFlightAdd
  <2>3. \A s \in Sources : s # InFlightAdd(t) => host'[s] = host[s]
    BY <1>1, <1>3 DEF HostType, Added
  <2> QED BY <1>3, <2>1, <2>2, <2>3
<1>4. CASE /\ pc[p][t] = "rb_remove" /\ target' = target
           /\ host' = [host EXCEPT ![InFlightUndo(t)] = "absent"]
  <2>1. mem = disk
    BY <1>1, <1>4, InSync DEF Holding, UndoLabels
  <2>2. J.undoing # 0 /\ P.prepare[J.undoing].res = InFlightUndo(t)
    <3>1. J.undoing \in 1..J.applied /\ J.applied \in Nat
      BY <1>1, <1>4 DEF Labelled, RollbackSteps, Journal
    <3> QED BY <3>1 DEF InFlightUndo
  <2>3. \A s \in Sources : s # InFlightUndo(t) => host'[s] = host[s]
    BY <1>1, <1>4 DEF HostType
  <2> QED BY <1>4, <2>1, <2>2, <2>3
<1>5. CASE /\ pc[p][t] = "install" /\ host' = host
           /\ \E s \in {"installed", "broken"} : target' = [target EXCEPT ![t] = s]
  <2>1. \A u \in Tools : u # t => target'[u] = target[u]
    BY <1>1, <1>5 DEF HostType
  <2>2. t \notin Roots \/ Requires[t] # {} => disk.journals[t].status = "committing"
    <3>1. SUFFICES ASSUME t \notin Roots \/ Requires[t] # {} PROVE disk.journals[t].status = "committing"
      OBVIOUS
    <3>2. phase[p] = "run"
      BY <1>1, <1>5, AtRun DEF UndoLabels
    <3>3. tx[p][t] = "bound"
      BY <1>1, <1>5, <3>1, <3>2 DEF LocalInv, LocalType, AttemptOK, InstallLabels
    <3>4. mem = disk
      BY <1>1, <1>5, <3>3, InSync DEF Holding, InstallLabels
    <3> QED BY <1>1, <1>5, <3>3, <3>4 DEF Labelled, InstallLabels
  <2> QED BY <1>5, <2>1, <2>2
<1> QED BY <1>1, <1>2, <1>3, <1>4, <1>5 DEF Touches

\* Write-ahead: when nobody but depengine touches the package sources, each
\* change of one, and each journaled installation, happens only while the
\* journal on disk says so.
THEOREM WriteAheadHolds ==
  ASSUME "admin" \notin Faults
  PROVE  Spec => WriteAhead
<1>1. ExecInv /\ [Next]_vars =>
        [/\ \A s \in Sources : host'[s] # host[s] =>
              \E t \in Tools : LET j == disk.journals[t] IN
                \E i \in {j.applying, j.undoing} \ {0} : disk.plans[t].prepare[i].res = s
         /\ \A t \in Tools : target'[t] # target[t] /\ (t \notin Roots \/ Requires[t] # {})
              => disk.journals[t].status = "committing"]_vars
  <2>1. SUFFICES ASSUME ExecInv, [Next]_vars
        PROVE  /\ \A s \in Sources : host'[s] # host[s] =>
                    \E t \in Tools : LET j == disk.journals[t] IN
                      \E i \in {j.applying, j.undoing} \ {0} : disk.plans[t].prepare[i].res = s
               /\ \A t \in Tools : target'[t] # target[t] /\ (t \notin Roots \/ Requires[t] # {})
                    => disk.journals[t].status = "committing"
    OBVIOUS
  <2>2. CASE UNCHANGED <<host, target>>
    BY <2>2
  <2>3. CASE \E p \in Procs, t \in Tools : Effect(p, t)
    <3>1. PICK p \in Procs, t \in Tools : Effect(p, t)
      BY <2>3
    <3> QED BY <2>1, <3>1, EffectWritesAhead
  <2>4. UNCHANGED <<host, target>> \/ \E p \in Procs, t \in Tools : Effect(p, t)
    <3>1. ~ \E s \in Sources : AdminRemovesSource(s)
      BY DEF AdminRemovesSource, Fault
    <3> QED BY <2>1, <3>1, StepKinds DEF ExecInv, Rests, Writes, Crashes
  <2> QED BY <2>2, <2>3, <2>4
<1> QED BY <1>1, ExecInit, ExecStep, PTL DEF Spec, WriteAhead

\* A rollback never takes away what another tool claims, whatever claims were
\* made since it was planned and whichever process resumes it.
THEOREM ClaimedAlwaysSpared == Spec => RollbackSparesClaimed
<1>1. ExecInv /\ [Next]_vars =>
        [\A s \in Sources : /\ host[s] # "absent" /\ host'[s] = "absent"
                            /\ \E p \in Procs, t \in Tools : At(p, t, "rb_remove") /\ ~At(p, t, "rb_remove")'
           => disk.owned[s].deps = {}]_vars
  <2>1. SUFFICES ASSUME ExecInv, [Next]_vars, NEW s \in Sources, host[s] # "absent", host'[s] = "absent",
                        NEW p \in Procs, NEW t \in Tools, At(p, t, "rb_remove"), ~At(p, t, "rb_remove")'
                 PROVE  disk.owned[s].deps = {}
    BY Zenon
  <2>2. /\ LocalInv /\ LockInv /\ StateInv /\ HostType /\ Holding(p, t) /\ mem = disk /\ OthersWait(p, t)
        /\ mem.journals[t].undoing \in RollbackSteps(mem.journals[t], mem.plans[t], mem.owned)
    <3>1. LocalInv /\ LockInv /\ StateInv /\ HostType /\ Holding(p, t) /\ pc[p][t] # "rb_plan"
      BY <2>1 DEF ExecInv, StateInv, At, Holding, UndoLabels
    <3> QED BY <2>1, <3>1, InSync, HolderIsAlone DEF StateInv, Labelled, At
  <2>3. PICK q \in Procs, u \in Tools : Effect(q, u) /\ host' # host
    <3>1. ~Rests
      BY <2>1 DEF Rests, At
    <3> QED BY <2>1, <2>2, <3>1, StepKinds DEF Writes, Crashes
  <2>4. q = p /\ u = t
    BY <2>2, <2>3, <2>1 DEF OthersWait, Effect
  <2>5. host' = [host EXCEPT ![InFlightUndo(t)] = "absent"]
    BY <2>1, <2>3, <2>4 DEF Effect, Touches, At
  <2>6. s = InFlightUndo(t)
    BY <2>1, <2>2, <2>5 DEF HostType
  <2>7. mem.owned[mem.plans[t].prepare[mem.journals[t].undoing].res].deps = {}
    BY <2>2 DEF RollbackSteps
  <2> QED BY <2>2, <2>6, <2>7 DEF InFlightUndo
<1> QED BY <1>1, ExecInit, ExecStep, PTL DEF Spec, RollbackSparesClaimed

(***************************************************************************)
(* A source that was on the host before depengine stays foreign: it is in  *)
(* no list of missing sources, in no plan, among no created uses, and      *)
(* depengine owns it neither in the state file nor in the holder's copy.   *)
(***************************************************************************)
LeavesForeign(st) ==
  \A s \in Sources : host[s] = "found" =>
    /\ st.owned[s].own # "depengine"
    /\ \A t \in Tools : /\ \A i \in 1..Len(st.plans[t].prepare) : st.plans[t].prepare[i].res # s
                        /\ s \notin CreatedBy(st.plans[t].uses)

MissingNotFound ==
  \A p \in Procs, t \in Tools : \A i \in 1..Len(missing[p][t]) : host[missing[p][t][i]] # "found"

ForeignInv == LeavesForeign(mem) /\ LeavesForeign(disk) /\ MissingNotFound

\* Tracking makes depengine's own only what it says was created.
LEMMA TrackedOwn ==
  ASSUME NEW o, NEW uses, NEW r \in Resources, TrackResourceUses(o, uses)[r].own = "depengine",
         o[r] \in OwnedState
  PROVE  o[r].own = "depengine" \/ r \in CreatedBy(uses)
<1>1. TrackResourceUses(o, uses)[r] = IF r \in UsedBy(uses) THEN TrackOne(o[r], r \in CreatedBy(uses)) ELSE o[r]
  BY DEF TrackResourceUses
<1>2. ASSUME r \notin CreatedBy(uses) PROVE TrackOne(o[r], r \in CreatedBy(uses)).own # "depengine" \/ o[r].own = "depengine"
  BY <1>2 DEF TrackOne, OwnedState
<1> QED BY <1>1, <1>2

LEMMA CommittedOwnedRises ==
  ASSUME Sound(mem), NEW t \in Tools, CanCommit(t), NEW r \in Resources,
         CommittedOwned(t)[r].own = "depengine"
  PROVE  \/ mem.owned[r].own = "depengine"
         \/ \E i \in 1..Len(mem.plans[t].prepare) : mem.plans[t].prepare[i].res = r
         \/ r \in CreatedBy(mem.plans[t].uses)
         \/ r = t
<1> DEFINE P == mem.plans[t]
           F == FinalizeCommit(P, mem.owned, t)
           C == ClaimResourceUses(F, t, P.uses)
           tracked == IF t \in Roots THEN {} ELSE {[res |-> t, created |-> TRUE]}
<1>1. ValidPlan(P) /\ P.uses \in SUBSET Use /\ mem.owned \in Snapshot /\ t \in Dependents
  BY SoundParts DEF Tools, Plan
<1>2. F \in Snapshot /\ F[r] \in OwnedState
  BY <1>1, FinalizeCommitType, SnapshotMembers
<1>3. F[r].own # "depengine" \/ mem.owned[r].own = "depengine" \/ \E m \in Mutations(P) : m.res = r
  <2>1. SUFFICES ASSUME ~ \E m \in Mutations(P) : m.res = r PROVE F[r] = mem.owned[r]
    OBVIOUS
  <2>2. {m \in Mutations(P) : m.res = r} = {}
    BY <2>1
  <2> QED BY <2>2 DEF FinalizeCommit
<1> HIDE DEF F
<1>4. C \in Snapshot /\ C[r] \in OwnedState /\ C[r].own = TrackResourceUses(F, P.uses)[r].own
  BY <1>1, <1>2, ClaimType, ClaimKeepsTracked, SnapshotMembers
<1>5. C[r].own = "depengine" => F[r].own = "depengine" \/ r \in CreatedBy(P.uses)
  BY <1>2, <1>4, TrackedOwn
<1> HIDE DEF C
<1>6. CommittedOwned(t) = TrackResourceUses(C, tracked)
  BY DEF CommittedOwned, C, F
<1> HIDE DEF tracked
<1>7. C[r].own = "depengine" \/ r \in CreatedBy(tracked)
  BY <1>4, <1>6, TrackedOwn
<1>8. r \in CreatedBy(tracked) => r = t
  BY DEF tracked, CreatedBy
<1> QED BY <1>3, <1>5, <1>7, <1>8 DEF Mutations

LEMMA MovesLeaveForeign ==
  ASSUME LocalInv, Sound(mem), ForeignInv, NEW p \in Procs, NEW t \in Tools, NEW new, Moves(p, t, new)
  PROVE  LeavesForeign(new)
<1>1. SUFFICES ASSUME NEW s \in Sources, host[s] = "found"
               PROVE  /\ new.owned[s].own # "depengine"
                      /\ \A u \in Tools : /\ \A i \in 1..Len(new.plans[u].prepare) : new.plans[u].prepare[i].res # s
                                          /\ s \notin CreatedBy(new.plans[u].uses)
  BY DEF LeavesForeign
<1>2. /\ mem \in State /\ s \in Resources /\ s \notin Tools
      /\ mem.owned[s].own # "depengine"
      /\ \A u \in Tools : /\ \A i \in 1..Len(mem.plans[u].prepare) : mem.plans[u].prepare[i].res # s
                          /\ s \notin CreatedBy(mem.plans[u].uses)
  BY <1>1 DEF Sound, ForeignInv, LeavesForeign, Sources, Tools
<1>3. ASSUME NEW j, NEW pl, NEW o, NEW rec, new = Changed(t, j, pl, o, rec),
             o[s].own # "depengine", s \notin CreatedBy(pl.uses),
             \A i \in 1..Len(pl.prepare) : pl.prepare[i].res # s
      PROVE  /\ new.owned[s].own # "depengine"
             /\ \A u \in Tools : /\ \A i \in 1..Len(new.plans[u].prepare) : new.plans[u].prepare[i].res # s
                                 /\ s \notin CreatedBy(new.plans[u].uses)
  <2>1. new.owned = o /\ new.plans[t] = pl /\ \A u \in Tools \ {t} : new.plans[u] = mem.plans[u]
    BY <1>2, <1>3, ChangedEntries
  <2> QED BY <1>2, <1>3, <2>1
<1>4. s \notin Created(p, t)
  <2>1. helpers[p][t] \subseteq Tools
    BY DEF LocalInv, LocalType
  <2>2. \A i \in 1..Len(missing[p][t]) : missing[p][t][i] # s
    BY <1>1 DEF ForeignInv, MissingNotFound
  <2> QED BY <1>2, <2>1, <2>2 DEF Created
<1>5. s \notin CreatedBy(NoPlan.uses) /\ \A i \in 1..Len(NoPlan.prepare) : NoPlan.prepare[i].res # s
  BY DEF NoPlan, CreatedBy
<1>6. CASE \E j : JournalMoves(t, j) /\ new = Changed(t, j, mem.plans[t], mem.owned, mem.tools)
  BY <1>2, <1>3, <1>6
<1>7. CASE Begins(p, t, new)
  <2>1. TxPlan(p, t) = [prepare |-> PreparedBy(missing[p][t]), uses |-> {}]
    BY <1>7 DEF Begins, TxPlan
  <2>2. missing[p][t] \in Orders(t)
    BY DEF LocalInv, LocalType
  <2>3. \A i \in 1..Len(TxPlan(p, t).prepare) : /\ TxPlan(p, t).prepare[i].res = missing[p][t][i]
                                                /\ i \in 1..Len(missing[p][t])
    BY <2>1, <2>2, OrdersPlan
  <2>4. \A i \in 1..Len(TxPlan(p, t).prepare) : TxPlan(p, t).prepare[i].res # s
    BY <1>1, <2>3 DEF ForeignInv, MissingNotFound
  <2>5. s \notin CreatedBy(TxPlan(p, t).uses)
    BY <2>1 DEF CreatedBy
  <2> QED BY <1>2, <1>3, <1>7, <2>4, <2>5 DEF Begins
<1>8. CASE Binds(p, t, new)
  <2> DEFINE pl == [mem.plans[t] EXCEPT !.uses = UsesOf(p, t)]
  <2>1. pl.prepare = mem.plans[t].prepare /\ pl.uses = UsesOf(p, t)
    BY <1>2 DEF State, Plan
  <2>2. s \notin CreatedBy(UsesOf(p, t))
    <3>1. SUFFICES ASSUME s \in CreatedBy(UsesOf(p, t)) PROVE FALSE
      OBVIOUS
    <3>2. PICK u \in UsesOf(p, t) : u.created /\ u.res = s
      BY <3>1 DEF CreatedBy
    <3>3. PICK r \in ConfiguredSet(t) \cup Requires[t] : u = [res |-> r, created |-> r \in Created(p, t)]
      BY DEF UsesOf
    <3>4. u.res = r /\ (u.created <=> r \in Created(p, t))
      BY <3>3
    <3> QED BY <1>4, <3>2, <3>4
  <2>3. new = Changed(t, PlanCommit(mem.journals[t]), pl, mem.owned, mem.tools)
    BY <1>8 DEF Binds
  <2>4. s \notin CreatedBy(pl.uses) /\ \A i \in 1..Len(pl.prepare) : pl.prepare[i].res # s
    BY <1>2, <2>1, <2>2
  <2> HIDE DEF pl
  <2> QED BY <1>2, <1>3, <2>3, <2>4
<1>9. CASE Commits(p, t, new)
  <2>1. CommittedOwned(t)[s].own # "depengine"
    BY <1>2, <1>9, CommittedOwnedRises DEF Commits
  <2> QED BY <1>3, <1>5, <1>9, <2>1 DEF Commits
<1>10. CASE Undone(t, new)
  <2> DEFINE J == mem.journals[t]
             P == mem.plans[t]
  <2>1. {i \in Retained(J, P, mem.owned) : P.prepare[i].res = s} = {}
    <3>1. ValidJournal(J, P) /\ J.applied \in Nat /\ Len(P.prepare) \in Nat /\ J.applied <= Len(P.prepare)
      BY SoundParts DEF ValidPlan, Plan, ValidJournal, Journal
    <3>2. Retained(J, P, mem.owned) \subseteq 1..J.applied
      BY DEF Retained
    <3> QED BY <1>2, <3>1, <3>2
  <2>2. FinalizeRollback(J, P, mem.owned)[s] = mem.owned[s]
    BY <1>2, <2>1 DEF FinalizeRollback
  <2> QED BY <1>2, <1>3, <1>5, <1>10, <2>2 DEF Undone
<1> QED BY <1>6, <1>7, <1>8, <1>9, <1>10 DEF Moves

LEMMA CreatedNotFound ==
  ASSUME LocalInv, MissingNotFound, NEW p \in Procs, NEW t \in Tools, NEW s \in Sources, host[s] = "found"
  PROVE  s \notin Created(p, t)
<1>1. helpers[p][t] \subseteq Tools /\ s \notin Tools
  BY DEF LocalInv, LocalType, Sources, Tools
<1>2. \A i \in 1..Len(missing[p][t]) : missing[p][t][i] # s
  BY DEF MissingNotFound
<1> QED BY <1>1, <1>2 DEF Created

\* No step puts a source back as "found".
LEMMA FoundBefore ==
  ASSUME HostType, NEW s \in Sources, host'[s] = "found",
         Rests \/ host' = host \/ \E p \in Procs, t \in Tools : Effect(p, t)
  PROVE  host[s] = "found"
<1>1. CASE Rests
  BY <1>1 DEF HostType, Rests, AdminRemovesSource
<1>2. ASSUME NEW p \in Procs, NEW t \in Tools, Touches(p, t) PROVE host[s] = "found"
  BY <1>2 DEF HostType, Touches, Added
<1> QED BY <1>1, <1>2 DEF Effect

\* What attempts know to be missing was not found then and is not found now.
LEMMA MissingStep ==
  ASSUME LocalInv, LocalInv', HostType, MissingNotFound,
         \A s \in Sources : host'[s] = "found" => host[s] = "found",
         \A p \in Procs, t \in Tools :
           \/ missing'[p][t] \in {missing[p][t], <<>>}
           \/ \A i \in 1..Len(missing'[p][t]) : host[missing'[p][t][i]] = "absent"
  PROVE  MissingNotFound'
<1> SUFFICES ASSUME NEW p \in Procs, NEW t \in Tools, NEW i \in 1..Len(missing'[p][t]),
                    host'[missing'[p][t][i]] = "found"
             PROVE  FALSE
  BY DEF MissingNotFound
<1>1. missing'[p][t][i] \in Sources
  <2>1. missing'[p][t] \in Orders(t)
    BY DEF LocalInv, LocalType
  <2>2. PICK n \in Nat : missing'[p][t] \in [1..n -> ConfiguredSet(t)]
    <3>1. missing'[p][t] \in UNION {[1..n -> ConfiguredSet(t)] : n \in 0..Len(Configured[t])}
      BY <2>1 DEF Orders
    <3>2. PICK n \in 0..Len(Configured[t]) : missing'[p][t] \in [1..n -> ConfiguredSet(t)]
      BY <3>1
    <3>3. Len(Configured[t]) \in Nat
      BY ConfiguredAssumption
    <3>4. n \in Nat
      BY <3>3
    <3> QED BY <3>2, <3>4
  <2>3. missing'[p][t][i] \in ConfiguredSet(t)
    BY <2>2
  <2> QED BY <2>3, ConfiguredAssumption DEF ConfiguredSet
<1>2. host[missing'[p][t][i]] = "found"
  BY <1>1
<1>3. CASE missing'[p][t] = missing[p][t]
  BY <1>2, <1>3 DEF MissingNotFound
<1>4. CASE missing'[p][t] = <<>>
  BY <1>4
<1>5. CASE \A k \in 1..Len(missing'[p][t]) : host[missing'[p][t][k]] = "absent"
  BY <1>2, <1>5
<1> QED BY <1>3, <1>4, <1>5

LEMMA ForeignStep ==
  ExecInv /\ ForeignInv /\ [Next]_vars => ForeignInv'
<1> SUFFICES ASSUME ExecInv, ForeignInv, [Next]_vars PROVE ForeignInv'
  OBVIOUS
<1>1. LocalInv /\ LockInv /\ StateInv /\ HostType /\ Sound(mem) /\ Sound(disk) /\ LocalInv'
  BY LockStep DEF ExecInv, StateInv
<1>2. \A s \in Sources : host'[s] = "found" => host[s] = "found"
  <2>1. Rests \/ host' = host \/ \E p \in Procs, t \in Tools : Effect(p, t)
    BY <1>1, StepKinds DEF Writes, Crashes
  <2> QED BY <1>1, <2>1, FoundBefore
<1>3. ASSUME NEW st, LeavesForeign(st) PROVE \A s \in Sources : host'[s] = "found" =>
         /\ st.owned[s].own # "depengine"
         /\ \A t \in Tools : /\ \A i \in 1..Len(st.plans[t].prepare) : st.plans[t].prepare[i].res # s
                             /\ s \notin CreatedBy(st.plans[t].uses)
  BY <1>2, <1>3 DEF LeavesForeign
<1>4. ASSUME LeavesForeign(mem'), LeavesForeign(disk') PROVE LeavesForeign(mem)' /\ LeavesForeign(disk)'
  <2>1. mem' = mem' /\ disk' = disk'
    OBVIOUS
  <2> QED BY <1>3, <1>4 DEF LeavesForeign
<1>5. MissingNotFound'
  <2>1. ASSUME NEW p \in Procs, NEW t \in Tools
        PROVE  \/ missing'[p][t] \in {missing[p][t], <<>>}
               \/ \A i \in 1..Len(missing'[p][t]) : host[missing'[p][t][i]] = "absent"
    <3>1. CASE Rests
      BY <3>1 DEF Rests
    <3>2. ASSUME NEW q \in Procs, NEW u \in Tools, Effect(q, u)
          PROVE  \/ missing'[p][t] \in {missing[p][t], <<>>}
                 \/ \A i \in 1..Len(missing'[p][t]) : host[missing'[p][t][i]] = "absent"
      <4>1. CASE p = q /\ t = u
        BY <3>2, <4>1 DEF Effect, Sees
      <4>2. CASE p # q \/ t # u
        BY <3>2, <4>2 DEF Effect, Framed, Others, ResetOthers, Same
      <4> QED BY <4>1, <4>2
    <3>3. ASSUME NEW q \in Procs, ResetOthers(q) PROVE missing'[p][t] \in {missing[p][t], <<>>}
      BY <3>3 DEF ResetOthers, Same
    <3> QED BY <1>1, <3>1, <3>2, <3>3, StepKinds DEF Writes, Crashes
  <2> QED BY <1>1, <1>2, <2>1, MissingStep DEF ForeignInv
<1>6. LeavesForeign(mem') /\ LeavesForeign(disk')
  <2>1. LeavesForeign(mem) /\ LeavesForeign(disk)
    BY DEF ForeignInv
  <2>2. ASSUME NEW p \in Procs, NEW t \in Tools, Effect(p, t)
        PROVE  LeavesForeign(mem') /\ LeavesForeign(disk')
    <3>1. CASE Quiet \/ Releases
      BY <2>1, <3>1 DEF Quiet, Releases
    <3>2. CASE Saves(p, t)
      <4>1. PICK new : Moves(p, t, new) /\ disk' = new /\ mem' = new
        BY <3>2 DEF Saves
      <4>2. LeavesForeign(new)
        BY <1>1, <4>1, MovesLeaveForeign
      <4> QED BY <4>1, <4>2
    <3>3. CASE Drifts(p, t)
      <4>1. Moves(p, t, disk') /\ mem' = mem
        BY <3>3 DEF Drifts, Moves
      <4>2. LeavesForeign(disk')
        BY <1>1, <4>1, MovesLeaveForeign
      <4> QED BY <2>1, <4>1, <4>2
    <3> QED BY <2>2, <3>1, <3>2, <3>3 DEF Effect
  <2>3. ASSUME NEW p \in Procs PROVE LeavesForeign(WrittenState(p))
    <3> DEFINE W == WrittenState(p)
    <3>1. Sound(disk) /\ W.plans = disk.plans
      BY <1>1, WrittenParts DEF StateInv
    <3> HIDE DEF W
    <3>f. SUFFICES ASSUME NEW s \in Sources, host[s] = "found" PROVE W.owned[s].own # "depengine"
      <4>1. LeavesForeign(W)
        BY <2>1, <3>1, <3>f DEF LeavesForeign
      <4> QED BY <4>1 DEF W
    <3> USE DEF W
    <3>2. s \in Resources /\ disk.owned[s] \in OwnedState /\ disk.owned[s].own # "depengine"
      BY <1>1, <2>1, <3>f, SnapshotMembers DEF Sources, LeavesForeign, Sound, State
    <3>3. \A t \in Tools : s \notin Created(p, t)
      BY <1>1, <3>f, CreatedNotFound DEF ForeignInv
    <3>4. ~ \E t \in Claimants(p, s) : s \in Created(p, t)
      BY <3>3 DEF Claimants
    <3>5. TrackOne(disk.owned[s], \E t \in Claimants(p, s) : s \in Created(p, t)).own # "depengine"
      BY <3>2, <3>4 DEF TrackOne, OwnedState
    <3> QED BY <1>1, <3>2, <3>5, WrittenParts
  <2> QED BY <1>1, <2>1, <2>2, <2>3, StepKinds DEF Rests, Quiet, Writes, Crashes
<1> QED BY <1>4, <1>5, <1>6 DEF ForeignInv

\* A source that the host had before depengine is never taken for depengine's
\* own, whatever attempts, rollbacks, recoveries and final writes do, and
\* although every attempt decides what to create before it takes the lock.
THEOREM ForeignSources == Spec => []FoundStaysForeign
<1>1. Init => ForeignInv
  <2>1. SUFFICES ASSUME Init PROVE ForeignInv
    OBVIOUS
  <2>2. /\ \A t \in Tools : EmptyState.plans[t] = NoPlan
        /\ \A r \in Resources : EmptyState.owned[r].own = "none"
    BY DEF EmptyState, NoneOwned
  <2>3. Sources \subseteq Resources
    BY DEF Sources
  <2>4. LeavesForeign(EmptyState)
    BY <2>2, <2>3 DEF LeavesForeign, NoPlan, CreatedBy
  <2>5. MissingNotFound
    BY <2>1 DEF Init, MissingNotFound
  <2> QED BY <2>1, <2>4, <2>5 DEF Init, ForeignInv
<1>2. ForeignInv => FoundStaysForeign
  BY DEF ForeignInv, LeavesForeign, FoundStaysForeign
<1> QED BY <1>1, <1>2, ExecInit, ExecStep, ForeignStep, PTL DEF Spec

(***************************************************************************)
(* Nothing depengine put on the host is forgotten.  What the property says *)
(* of the state file holds of the lock holder's copy too, and that is what *)
(* the next save starts from.                                              *)
(***************************************************************************)
StandsFor(j, i) == (i \in 1..j.applied /\ i \notin j.undone) \/ (i # 0 /\ i = j.applying)

Covered(st, s) ==
  \E t \in Tools : \E i \in 1..Len(st.plans[t].prepare) :
     st.plans[t].prepare[i].res = s /\ StandsFor(st.journals[t], i)

Remembers(st) ==
  /\ \A s \in Sources : host[s] = "added" => st.owned[s].own = "depengine" \/ Covered(st, s)
  /\ \A t \in Tools \ Roots : target[t] = "installed" =>
       \/ st.journals[t].status = "committing"
       \/ t \in st.tools /\ st.owned[t].own = "depengine"

\* A transition of a journal uncovers only a source that is not there.
LEMMA JournalMovesCover ==
  ASSUME Sound(mem), NEW t \in Tools, NEW j, JournalMoves(t, j),
         NEW i \in 1..Len(mem.plans[t].prepare), StandsFor(mem.journals[t], i),
         host[mem.plans[t].prepare[i].res] # "absent"
  PROVE  StandsFor(j, i)
<1> DEFINE J == mem.journals[t]
           P == mem.plans[t]
<1>1. /\ ValidPlan(P) /\ ValidJournal(J, P) /\ J \in Journal /\ Len(P.prepare) \in Nat
      /\ J.applied \in Nat /\ J.applying \in Nat /\ i \in Nat /\ i # 0
  BY SoundParts DEF ValidPlan, Plan, Journal
<1>2. /\ J.status # "rolling_back" => J.undone = {}
      /\ J.status # "applying" => J.applying = 0
      /\ J.status = "applying" => J.applying = J.applied + 1
  BY <1>1 DEF ValidJournal
<1>3. (i \in 1..J.applied /\ i \notin J.undone) \/ i = J.applying
  BY DEF StandsFor
<1>4. i = J.applying => InFlightAdd(t) = P.prepare[i].res
  BY DEF InFlightAdd
<1>5. i = J.undoing => InFlightUndo(t) = P.prepare[i].res
  BY DEF InFlightUndo
<1>6. CASE CanPlanApply(J, P) /\ j = PlanApply(J)
  <2>1. J.applying = 0 /\ j.applied = J.applied /\ j.undone = J.undone
    BY <1>1, <1>2, <1>6 DEF CanPlanApply, PlanApply, Journal
  <2> QED BY <1>1, <1>3, <2>1 DEF StandsFor
<1>7. CASE CanRecordApplied(J) /\ j = RecordApplied(J, P)
  <2>1. /\ J.applying = J.applied + 1 /\ J.undone = {}
        /\ j.applied = J.applied + 1 /\ j.undone = J.undone
    BY <1>1, <1>2, <1>7 DEF CanRecordApplied, RecordApplied, Journal
  <2> QED BY <1>1, <1>3, <2>1 DEF StandsFor
<1>8. CASE /\ CanRecordApplied(J) /\ host[InFlightAdd(t)] = "absent"
           /\ j = ResolveApplying(J, P, "not_applied")
  <2>1. j.applied = J.applied /\ j.undone = J.undone
    BY <1>1, <1>8 DEF ResolveApplying, Journal
  <2> QED BY <1>3, <1>4, <1>8, <2>1 DEF StandsFor
<1>9. CASE j = ResolveCommitNotApplied(J)
  <2>1. j.applied = J.applied /\ j.undone = J.undone /\ j.applying = J.applying
    BY <1>1, <1>9 DEF ResolveCommitNotApplied, Journal
  <2> QED BY <1>1, <1>3, <2>1 DEF StandsFor
<1>10. CASE CanPlanRollback(J, P, mem.owned) /\ j = PlanRollback(J)
  <2>1. j.applied = J.applied /\ j.undone = {} /\ j.applying = J.applying
    BY <1>1, <1>10 DEF PlanRollback, Journal
  <2> QED BY <1>1, <1>3, <2>1 DEF StandsFor
<1>11. CASE j = PlanRollbackApply(J, P, mem.owned)
  <2>1. j.applied = J.applied /\ j.undone = J.undone /\ j.applying = J.applying
    BY <1>1, <1>11 DEF PlanRollbackApply, Journal
  <2> QED BY <1>1, <1>3, <2>1 DEF StandsFor
<1>12. CASE host[InFlightUndo(t)] = "absent" /\ j = RecordRollbackApplied(J)
  <2>1. j.applied = J.applied /\ j.undone = J.undone \cup {J.undoing} /\ j.applying = J.applying
    BY <1>1, <1>12 DEF RecordRollbackApplied, Journal
  <2> QED BY <1>1, <1>3, <1>5, <1>12, <2>1 DEF StandsFor
<1>13. CASE j = [J EXCEPT !.undoing = 0]
  <2>1. j.applied = J.applied /\ j.undone = J.undone /\ j.applying = J.applying
    BY <1>1, <1>13 DEF Journal
  <2> QED BY <1>1, <1>3, <2>1 DEF StandsFor
<1> QED BY <1>6, <1>7, <1>8, <1>9, <1>10, <1>11, <1>12, <1>13 DEF JournalMoves

\* The commit boundary of a prerequisite is not taken back.
LEMMA JournalMovesBoundary ==
  ASSUME NEW t \in Tools, NEW j, JournalMoves(t, j), mem.journals[t].status = "committing"
  PROVE  t \in Roots /\ target[t] = "absent"
BY DEF JournalMoves, CanPlanApply, CanRecordApplied, CanPlanRollback, CanPlanRollbackApply,
   CanRecordRollbackApplied

\* Every mutation a journal may be about adds a source of its own tool.
LEMMA PreparesSources ==
  ASSUME NEW st, Sound(st), NEW t \in Tools, NEW k \in 1..Len(st.plans[t].prepare)
  PROVE  /\ st.plans[t].prepare[k].own = "depengine"
         /\ st.plans[t].prepare[k].res \in Sources \cap Resources
         /\ st.plans[t].prepare[k] \in Mutations(st.plans[t])
<1> DEFINE m == st.plans[t].prepare[k]
<1>1. m.res \in ConfiguredSet(t) /\ m = AddSource(m.res)
  BY SoundParts DEF SoundEntry
<1>2. AddSource(m.res).own = "depengine"
  BY DEF AddSource
<1>3. ConfiguredSet(t) \subseteq Sources /\ Sources \subseteq Resources
  BY ConfiguredAssumption DEF ConfiguredSet, Sources
<1>4. m \in Mutations(st.plans[t])
  BY DEF Mutations
<1> HIDE DEF m
<1>5. m.own = "depengine"
  BY <1>1, <1>2, Zenon
<1>6. m.res \in Sources \cap Resources
  BY <1>1, <1>3
<1> QED BY <1>4, <1>5, <1>6 DEF m

LEMMA MovesRemember ==
  ASSUME Sound(mem), Remembers(mem), NEW p \in Procs, NEW t \in Tools, NEW new, Moves(p, t, new)
  PROVE  Remembers(new)
<1> DEFINE J == mem.journals[t]
           P == mem.plans[t]
<1>1. /\ mem \in State /\ mem.owned \in Snapshot /\ ValidPlan(P) /\ ValidJournal(J, P)
      /\ J \in Journal /\ P \in Plan /\ SoundEntry(t, J, P) /\ Tools \subseteq Resources
  BY SoundParts, ToolsAssumption DEF Tools
<1>2. ASSUME NEW j, NEW pl, NEW o, NEW rec, new = Changed(t, j, pl, o, rec),
             mem.tools \subseteq rec,
             \A r \in Resources : mem.owned[r].own = "depengine" => o[r].own = "depengine",
             \A i \in 1..Len(P.prepare) :
               StandsFor(J, i) /\ host[P.prepare[i].res] = "added" =>
                 \/ o[P.prepare[i].res].own = "depengine"
                 \/ i \in 1..Len(pl.prepare) /\ pl.prepare[i] = P.prepare[i] /\ StandsFor(j, i),
             J.status = "committing" /\ t \notin Roots =>
               j.status = "committing" \/ (t \in rec /\ o[t].own = "depengine")
      PROVE  Remembers(new)
  <2>1. /\ new.journals[t] = j /\ new.plans[t] = pl /\ new.owned = o /\ new.tools = rec
        /\ \A u \in Tools \ {t} : /\ new.journals[u] = mem.journals[u]
                                  /\ new.plans[u] = mem.plans[u]
    BY <1>1, <1>2, ChangedEntries
  <2>2. ASSUME NEW s \in Sources, host[s] = "added"
        PROVE  new.owned[s].own = "depengine" \/ Covered(new, s)
    <3>1. s \in Resources
      BY DEF Sources
    <3>2. CASE mem.owned[s].own = "depengine"
      BY <1>2, <2>1, <3>1, <3>2
    <3>3. CASE Covered(mem, s)
      <4>1. PICK u \in Tools : \E i \in 1..Len(mem.plans[u].prepare) :
                 mem.plans[u].prepare[i].res = s /\ StandsFor(mem.journals[u], i)
        BY <3>3 DEF Covered
      <4>2. PICK i \in 1..Len(mem.plans[u].prepare) :
                 mem.plans[u].prepare[i].res = s /\ StandsFor(mem.journals[u], i)
        BY <4>1
      <4>3. CASE u = t
        BY <1>2, <2>1, <2>2, <3>1, <4>2, <4>3 DEF Covered
      <4>4. CASE u # t
        BY <2>1, <4>2, <4>4 DEF Covered
      <4> QED BY <4>3, <4>4
    <3> QED BY <2>2, <3>2, <3>3 DEF Remembers
  <2>3. ASSUME NEW u \in Tools \ Roots, target[u] = "installed"
        PROVE  \/ new.journals[u].status = "committing"
               \/ u \in new.tools /\ new.owned[u].own = "depengine"
    <3>1. \/ mem.journals[u].status = "committing"
          \/ u \in mem.tools /\ mem.owned[u].own = "depengine"
      BY <2>3 DEF Remembers
    <3> QED BY <1>1, <1>2, <2>1, <2>3, <3>1
  <2> QED BY <2>2, <2>3 DEF Remembers
<1>3. CASE \E j : JournalMoves(t, j) /\ new = Changed(t, j, P, mem.owned, mem.tools)
  <2>1. PICK j : JournalMoves(t, j) /\ new = Changed(t, j, P, mem.owned, mem.tools)
    BY <1>3
  <2>2. \A i \in 1..Len(P.prepare) :
           StandsFor(J, i) /\ host[P.prepare[i].res] = "added" => StandsFor(j, i)
    BY <2>1, JournalMovesCover
  <2>3. J.status = "committing" => t \in Roots
    BY <2>1, JournalMovesBoundary
  <2> QED BY <1>2, <2>1, <2>2, <2>3
<1>4. CASE Begins(p, t, new)
  <2>1. J.status = "none" /\ P.prepare = <<>>
    BY <1>1, <1>4 DEF Begins, SoundEntry, NoPlan
  <2> QED BY <1>2, <1>4, <2>1 DEF Begins
<1>5. CASE Binds(p, t, new)
  <2> DEFINE pl == [P EXCEPT !.uses = UsesOf(p, t)]
             j == PlanCommit(J)
  <2>1. pl.prepare = P.prepare
    BY <1>1 DEF Plan
  <2>2. j.status = "committing" /\ j.applied = J.applied /\ j.undone = J.undone /\ j.applying = J.applying
    BY <1>1 DEF PlanCommit, Journal
  <2>3. \A i : StandsFor(J, i) => StandsFor(j, i)
    BY <2>2 DEF StandsFor
  <2>4. new = Changed(t, j, pl, mem.owned, mem.tools)
    BY <1>5 DEF Binds
  <2> HIDE DEF pl, j
  <2> QED BY <1>2, <2>1, <2>2, <2>3, <2>4
<1>6. CASE Commits(p, t, new)
  <2>1. /\ \A r \in Resources : mem.owned[r].own = "depengine" => CommittedOwned(t)[r].own = "depengine"
        /\ \A m \in Mutations(P) : m.own = "depengine" => CommittedOwned(t)[m.res].own = "depengine"
        /\ t \notin Roots => CommittedOwned(t)[t].own = "depengine"
    BY <1>6, CommittedOwnedType DEF Commits
  <2>2. \A i \in 1..Len(P.prepare) : P.prepare[i] \in Mutations(P) /\ P.prepare[i].own = "depengine"
    BY PreparesSources
  <2>3. \A i \in 1..Len(P.prepare) : CommittedOwned(t)[P.prepare[i].res].own = "depengine"
    BY <2>1, <2>2
  <2>4. new = Changed(t, NoJournal, NoPlan, CommittedOwned(t), mem.tools \cup {t})
    BY <1>6 DEF Commits
  <2> QED BY <1>2, <2>1, <2>3, <2>4
<1>7. CASE Undone(t, new)
  <2> DEFINE o == FinalizeRollback(J, P, mem.owned)
  <2>1. /\ CanFinalizeRollback(J, P, mem.owned) /\ J.status = "rolling_back"
        /\ new = Changed(t, NoJournal, NoPlan, o, mem.tools)
    BY <1>7 DEF Undone, CanFinalizeRollback
  <2>2. \A r \in Resources : mem.owned[r].own = "depengine" => o[r].own = "depengine"
    BY DEF FinalizeRollback
  <2>3. ASSUME NEW i \in 1..Len(P.prepare), StandsFor(J, i)
        PROVE  o[P.prepare[i].res].own = "depengine"
    <3>1. J.applying = 0 /\ i # 0 /\ Len(P.prepare) \in Nat
      BY <1>1, <2>1 DEF ValidJournal, ValidPlan, Plan
    <3>2. i \in 1..J.applied /\ i \notin J.undone
      BY <2>3, <3>1 DEF StandsFor
    <3>3. i \in Retained(J, P, mem.owned)
      BY <2>1, <3>2, ClosedRollback
    <3>4. \A k \in 1..Len(P.prepare) : P.prepare[k].own = "depengine" /\ P.prepare[k].res \in Resources
      BY PreparesSources
    <3>5. CASE mem.owned[P.prepare[i].res].own = "none"
      <4> DEFINE kept == {k \in Retained(J, P, mem.owned) : P.prepare[k].res = P.prepare[i].res}
      <4>1. i \in kept
        BY <3>3
      <4>2. kept \subseteq 1..Len(P.prepare)
        BY <1>1, <3>1 DEF Retained, ValidJournal, Journal
      <4>3. (CHOOSE k \in kept : TRUE) \in kept
        BY <4>1
      <4>4. o[P.prepare[i].res] = [mem.owned[P.prepare[i].res] EXCEPT !.own = P.prepare[CHOOSE k \in kept : TRUE].own]
        BY <3>4, <3>5, <4>1 DEF FinalizeRollback
      <4>5. mem.owned[P.prepare[i].res] \in OwnedState
        BY <1>1, <3>4, SnapshotMembers
      <4> HIDE DEF kept
      <4> QED BY <3>4, <4>2, <4>3, <4>4, <4>5 DEF OwnedState
    <3>6. CASE mem.owned[P.prepare[i].res].own = "depengine"
      BY <2>2, <3>4, <3>6
    <3> QED BY <2>1, <3>3, <3>4, <3>5, <3>6 DEF CanFinalizeRollback
  <2> HIDE DEF o
  <2> QED BY <1>2, <2>1, <2>2, <2>3
<1> QED BY <1>3, <1>4, <1>5, <1>6, <1>7 DEF Moves


\* What is remembered stays so while nothing new is on the host but what the
\* state's journals are about.
LEMMA KeepsRemembering ==
  ASSUME NEW st, Remembers(st),
         \A s \in Sources : host'[s] = "added" => host[s] = "added" \/ Covered(st, s),
         \A t \in Tools \ Roots : target'[t] = "installed" =>
            target[t] = "installed" \/ st.journals[t].status = "committing"
  PROVE  /\ \A s \in Sources : host'[s] = "added" => st.owned[s].own = "depengine" \/ Covered(st, s)
         /\ \A t \in Tools \ Roots : target'[t] = "installed" =>
              \/ st.journals[t].status = "committing"
              \/ t \in st.tools /\ st.owned[t].own = "depengine"
BY DEF Remembers

\* An attempt puts on the host only what its journal stands for.
LEMMA TouchesCovered ==
  ASSUME ExecInv, NEW p \in Procs, NEW t \in Tools, Effect(p, t)
  PROVE  /\ \A s \in Sources : host'[s] = "added" =>
              host[s] = "added" \/ (mem = disk /\ Covered(mem, s))
         /\ \A u \in Tools \ Roots : target'[u] = "installed" =>
              target[u] = "installed" \/ (mem = disk /\ mem.journals[u].status = "committing")
<1> DEFINE J == mem.journals[t]
           P == mem.plans[t]
<1>1. /\ LocalInv /\ LockInv /\ StateInv /\ HostType /\ Sound(mem) /\ J \in Journal
      /\ Touches(p, t) /\ Labelled(p, t)
  BY SoundParts DEF ExecInv, StateInv, Effect
<1>2. CASE UNCHANGED <<host, target>>
  BY <1>2
<1>3. CASE /\ pc[p][t] = "add" /\ target' = target
           /\ host' \in {Added(InFlightAdd(t)), [host EXCEPT ![InFlightAdd(t)] = "absent"]}
  <2>1. mem = disk
    BY <1>1, <1>3, InSync DEF Holding, AddLabels
  <2>2. Covered(mem, InFlightAdd(t))
    <3>1. J.status = "applying"
      BY <1>1, <1>3 DEF Labelled, AddLabels
    <3>2. J.applying = J.applied + 1 /\ J.applied \in Nat /\ J.applying \in 1..Len(P.prepare)
      BY <1>1, <3>1, InFlight DEF Journal
    <3>3. StandsFor(J, J.applying)
      BY <3>2 DEF StandsFor
    <3> QED BY <3>2, <3>3 DEF Covered, InFlightAdd
  <2>3. \A s \in Sources : s # InFlightAdd(t) => host'[s] = host[s]
    BY <1>1, <1>3 DEF HostType, Added
  <2> QED BY <1>3, <2>1, <2>2, <2>3
<1>4. CASE /\ pc[p][t] = "rb_remove" /\ target' = target
           /\ host' = [host EXCEPT ![InFlightUndo(t)] = "absent"]
  BY <1>1, <1>4 DEF HostType
<1>5. CASE /\ pc[p][t] = "install" /\ host' = host
           /\ \E s \in {"installed", "broken"} : target' = [target EXCEPT ![t] = s]
  <2>1. \A u \in Tools : u # t => target'[u] = target[u]
    BY <1>1, <1>5 DEF HostType
  <2>2. t \notin Roots => mem = disk /\ J.status = "committing"
    <3>1. SUFFICES ASSUME t \notin Roots PROVE mem = disk /\ J.status = "committing"
      OBVIOUS
    <3>2. phase[p] = "run"
      BY <1>1, <1>5, AtRun DEF UndoLabels
    <3>3. tx[p][t] = "bound"
      BY <1>1, <1>5, <3>1, <3>2 DEF LocalInv, LocalType, AttemptOK, InstallLabels
    <3>4. mem = disk
      BY <1>1, <1>5, <3>3, InSync DEF Holding, InstallLabels
    <3> QED BY <1>1, <1>5, <3>3, <3>4 DEF Labelled, InstallLabels
  <2> QED BY <1>5, <2>1, <2>2
<1> QED BY <1>1, <1>2, <1>3, <1>4, <1>5 DEF Touches

LEMMA RememberStep ==
  ExecInv /\ Remembers(mem) /\ Remembers(disk) /\ [Next]_vars => Remembers(mem)' /\ Remembers(disk)'
<1> SUFFICES ASSUME ExecInv, Remembers(mem), Remembers(disk), [Next]_vars
             PROVE  Remembers(mem)' /\ Remembers(disk)'
  OBVIOUS
<1>1. LocalInv /\ LockInv /\ StateInv /\ HostType /\ Sound(mem) /\ Sound(disk)
  BY DEF ExecInv, StateInv
<1>2. ASSUME Remembers(mem'), Remembers(disk'), UNCHANGED <<host, target>>
      PROVE  Remembers(mem)' /\ Remembers(disk)'
  BY <1>2 DEF Remembers
<1>3. ASSUME NEW p \in Procs, NEW t \in Tools, Effect(p, t)
      PROVE  Remembers(mem)' /\ Remembers(disk)'
  <2>1. CASE Quiet
    <3>1. /\ \A s \in Sources : host'[s] = "added" =>
               host[s] = "added" \/ (mem = disk /\ Covered(mem, s))
          /\ \A u \in Tools \ Roots : target'[u] = "installed" =>
               target[u] = "installed" \/ (mem = disk /\ mem.journals[u].status = "committing")
      BY <1>3, TouchesCovered
    <3>2. ASSUME NEW st \in {mem, disk}
          PROVE  /\ \A s \in Sources : host'[s] = "added" => st.owned[s].own = "depengine" \/ Covered(st, s)
                 /\ \A u \in Tools \ Roots : target'[u] = "installed" =>
                      \/ st.journals[u].status = "committing"
                      \/ u \in st.tools /\ st.owned[u].own = "depengine"
      BY <3>1, KeepsRemembering
    <3> QED BY <2>1, <3>2 DEF Quiet, Remembers
  <2>2. CASE ~Quiet
    <3>1. UNCHANGED <<host, target>>
      BY <1>3, <2>2 DEF Effect, Touches
    <3>2. CASE Releases
      BY <1>2, <3>1, <3>2 DEF Releases
    <3>3. CASE Saves(p, t)
      <4>1. PICK new : Moves(p, t, new) /\ disk' = new /\ mem' = new
        BY <3>3 DEF Saves
      <4>2. Remembers(new)
        BY <1>1, <4>1, MovesRemember
      <4> QED BY <1>2, <3>1, <4>1, <4>2
    <3>4. CASE Drifts(p, t)
      <4>1. Moves(p, t, disk') /\ mem' = mem
        BY <3>4 DEF Drifts, Moves
      <4>2. Remembers(disk')
        BY <1>1, <4>1, MovesRemember
      <4> QED BY <1>2, <3>1, <4>1, <4>2
    <3> QED BY <1>3, <2>2, <3>2, <3>3, <3>4 DEF Effect
  <2> QED BY <2>1, <2>2
<1>4. CASE Rests
  <2>1. \A s \in Sources : host'[s] = "added" => host[s] = "added"
    BY <1>1, <1>4 DEF Rests, AdminRemovesSource, HostType
  <2> QED BY <1>4, <2>1 DEF Rests, Quiet, Remembers
<1>5. ASSUME NEW p \in Procs, Writes(p) PROVE Remembers(mem)' /\ Remembers(disk)'
  <2> DEFINE W == WrittenState(p)
  <2>1. W.journals = disk.journals /\ W.plans = disk.plans /\ disk.tools \subseteq W.tools
    BY <1>1, WrittenParts
  <2>2. ASSUME NEW r \in Resources, disk.owned[r].own = "depengine" PROVE W.owned[r].own = "depengine"
    <3>1. TrackOne(disk.owned[r], \E t \in Claimants(p, r) : r \in Created(p, t)).own = "depengine"
      BY <2>2 DEF TrackOne
    <3> QED BY <1>1, <2>2, <3>1, WrittenParts
  <2>3. Sources \subseteq Resources /\ Tools \subseteq Resources
    BY ToolsAssumption DEF Sources, Tools
  <2> HIDE DEF W
  <2>4. \A s : Covered(disk, s) => Covered(W, s)
    BY <2>1 DEF Covered
  <2>5. Remembers(W)
    BY <2>1, <2>2, <2>3, <2>4 DEF Remembers
  <2>6. disk' \in {disk, W} /\ mem' = disk' /\ UNCHANGED <<host, target>>
    BY <1>5 DEF Writes, W
  <2> QED BY <1>2, <2>5, <2>6
<1>6. ASSUME NEW p \in Procs, Crashes(p) PROVE Remembers(mem)' /\ Remembers(disk)'
  BY <1>2, <1>6 DEF Crashes
<1> QED BY <1>1, <1>3, <1>4, <1>5, <1>6, StepKinds

\* Nothing depengine put on the host is ever forgotten: at every moment, crashes
\* and failed or torn saves included, a source is owned in the state file or
\* covered by an open journal there, and an installed prerequisite has its
\* record and its entry or its commit is still open.
THEOREM NothingEverForgotten == Spec => []NothingForgotten
<1>1. Init => Remembers(mem) /\ Remembers(disk)
  BY DEF Init, Remembers
<1>2. ASSUME Remembers(disk) PROVE NothingForgotten
  <2>1. \A t \in Tools : \A i : StandsFor(disk.journals[t], i) <=> Covers(t, i)
    BY DEF StandsFor, Covers
  <2>2. SourcesRemembered
    BY <1>2, <2>1 DEF Remembers, Covered, SourcesRemembered
  <2>3. PrerequisitesRemembered
    BY <1>2 DEF Remembers, PrerequisitesRemembered
  <2> QED BY <2>2, <2>3 DEF NothingForgotten
<1> QED BY <1>1, <1>2, ExecInit, ExecStep, RememberStep, PTL DEF Spec


(***************************************************************************)
(* The outcome of a commit boundary.  A journaled installation of a tool   *)
(* happens under the lock; only a root that needs no prerequisite and      *)
(* misses no source is installed without it, by whichever process wants it.*)
(***************************************************************************)

\* Nobody installs a tool without the lock while somebody else commits it.
AloneOrJournaled == (\A p, q \in Procs : p = q) \/ (\A t \in Roots : Requires[t] # {})

FinalizesSatisfied == \A p \in Procs, t \in Tools : pc[p][t] = "finalize" => Satisfied(t)

LEMMA EndLabels ==
  ASSUME LocalType, NEW p \in Procs, NEW t \in Tools, NEW label, NEW r, NEW j
  PROVE  /\ Go(p, t, label) => pc'[p][t] = label
         /\ Continue(p, t, label) => pc'[p][t] = label
         /\ Finish(p, t, r) => pc'[p][t] = "done"
         /\ Abort(p, t) => pc'[p][t] \in {"idle", "done"}
         /\ GiveUp(p, t) => pc'[p][t] \in {"idle", "done"}
         /\ RollBack(p, t) => pc'[p][t] \in {"idle", "done", "rb_plan"}
         /\ Refused(p, t) => pc'[p][t] \in {"idle", "done"}
         /\ ProbeFails(p, t) => pc'[p][t] \in {"idle", "done"}
         /\ Persist(p, t, j, label) => pc'[p][t] \in {label, "idle", "done"}
<1>1. \A x : Go(p, t, x) => pc'[p][t] = x
  BY DEF LocalType, Go
<1>2. \A x : Continue(p, t, x) => pc'[p][t] = x
  BY <1>1 DEF Continue
<1>3. \A x : Finish(p, t, x) => pc'[p][t] = "done"
  BY <1>1 DEF Finish
<1>4. Abort(p, t) => pc'[p][t] \in {"idle", "done"}
  <2>1. Reset(p) => pc'[p][t] = "idle"
    BY DEF LocalType, Reset
  <2> QED BY <1>3, <2>1 DEF Abort
<1> QED BY <1>1, <1>2, <1>3, <1>4 DEF GiveUp, RollBack, Refused, ProbeFails, Persist

\* An attempt is to finalize only what it has just seen satisfied.
LEMMA FinalizeSeen ==
  ASSUME LocalType, NEW p \in Procs, NEW t \in Tools, pc'[p][t] = "finalize",
         \/ RecoverApplying(p, t) \/ RecoverUndoing(p, t)
         \/ RecoverRollback(p, t) \/ RecoverCommit(p, t)
         \/ Prepare(p, t) \/ Install(p, t) \/ Undo(p, t) \/ FinalizeLeakedLock(p, t)
  PROVE  target' = target /\ (Satisfied(t) \/ pc[p][t] = "finalize")
<1>1. CASE \/ RecoverApplying(p, t) \/ RecoverUndoing(p, t)
           \/ RecoverRollback(p, t) \/ RecoverCommit(p, t)
  <2>1. pc'[p][t] \in {"idle", "done", "rb_next", "rb_plan"}
    BY <1>1, EndLabels DEF RecoverApplying, RecoverUndoing, RecoverRollback, RecoverCommit
  <2> QED BY <2>1
<1>2. CASE Prepare(p, t)
  <2>1. CASE StartAttempt(p, t) \/ RecheckAvailability(p, t)
    <3>1. pc'[p][t] \in {"done", "probe", "gate", "rb_plan"}
      BY <2>1, EndLabels DEF StartAttempt, RecheckAvailability
    <3> QED BY <3>1
  <2>2. CASE ProbeSources(p, t)
    <3>1. pc'[p][t] \in {"done", "gate", "begin"}
      BY <2>2, EndLabels DEF ProbeSources
    <3> QED BY <3>1
  <2>3. CASE OpenJournal(p, t)
    <3>1. pc'[p][t] \in {"idle", "done", "gate", "commit", "apply"}
      BY <2>3, EndLabels DEF OpenJournal
    <3> QED BY <3>1
  <2>4. CASE PlanApplyNext(p, t) \/ ResolveFailedAdd(p, t)
    <3>1. pc'[p][t] \in {"idle", "done", "add", "rb_plan"}
      BY <2>4, EndLabels DEF PlanApplyNext, ResolveFailedAdd
    <3> QED BY <3>1
  <2>5. CASE ConfirmAdd(p, t)
    <3>1. pc'[p][t] \in {"idle", "done", "recheck", "apply"}
      BY <2>5, EndLabels DEF ConfirmAdd
    <3> QED BY <3>1
  <2>6. CASE AddSourceToHost(p, t)
    <3>1. pc'[p][t] \in {"record", "resolve"}
      BY <2>6, EndLabels DEF AddSourceToHost
    <3> QED BY <3>1
  <2> QED BY <1>2, <2>1, <2>2, <2>3, <2>4, <2>5, <2>6 DEF Prepare
<1>3. CASE Install(p, t)
  <2>1. CASE GateAlreadyInstalled(p, t)
    <3>1. pc'[p][t] \in {"idle", "done", "rb_plan", "deps"}
      BY <2>1, EndLabels DEF GateAlreadyInstalled
    <3> QED BY <3>1
  <2>2. CASE EnsureDependencies(p, t)
    <3>1. pc'[p][t] \in {"done", "resume", "commit", "begin", "unwind"}
      BY <2>2, EndLabels DEF EnsureDependencies
    <3> QED BY <3>1
  <2>3. CASE ResumeTransaction(p, t)
    <3>1. pc'[p][t] \in {"done", "commit", "rb_plan"}
      BY <2>3, EndLabels DEF ResumeTransaction
    <3> QED BY <3>1
  <2>4. CASE PlanCandidateCommit(p, t)
    <3>1. pc'[p][t] \in {"idle", "done", "install", "rb_plan"}
      BY <2>4, EndLabels DEF PlanCandidateCommit
    <3> QED BY <3>1
  <2>5. CASE InstallTarget(p, t)
    <3>1. pc'[p][t] \in {"verify", "reconcile"}
      BY <2>5, EndLabels DEF InstallTarget
    <3> QED BY <3>1
  <2>6. CASE VerifyInstalled(p, t)
    BY <2>6, EndLabels DEF VerifyInstalled
  <2>7. CASE ReconcileFailedInstall(p, t)
    <3>1. target' = target
      BY <2>7 DEF ReconcileFailedInstall
    <3>2. Satisfied(t) \/ pc'[p][t] \in {"idle", "done", "rb_plan"}
      BY <2>7, EndLabels DEF ReconcileFailedInstall
    <3> QED BY <3>1, <3>2
  <2>8. CASE FinalizeCandidateCommit(p, t)
    BY <2>8 DEF FinalizeCandidateCommit, At
  <2> QED BY <1>3, <2>1, <2>2, <2>3, <2>4, <2>5, <2>6, <2>7, <2>8 DEF Install
<1>4. CASE Undo(p, t)
  <2>1. CASE PlanUndo(p, t) \/ PlanUndoNext(p, t) \/ ConfirmUndo(p, t)
    <3>1. pc'[p][t] \in {"idle", "done", "rb_next", "rb_remove"}
      BY <2>1, EndLabels DEF PlanUndo, PlanUndoNext, ConfirmUndo
    <3> QED BY <3>1
  <2>2. CASE RemoveSource(p, t)
    <3>1. pc'[p][t] \in {"rb_record", "rb_resolve"}
      BY <2>2, EndLabels DEF RemoveSource
    <3> QED BY <3>1
  <2>3. CASE ResolveFailedUndo(p, t)
    <3>1. pc'[p][t] \in {"idle", "done", "rb_next"}
      BY <2>3, EndLabels DEF ResolveFailedUndo
    <3> QED BY <3>1
  <2>4. CASE FinishUndo(p, t)
    <3>1. pc'[p][t] \in {"idle", "done"}
      BY <2>4, EndLabels DEF FinishUndo
    <3> QED BY <3>1
  <2> QED BY <1>4, <2>1, <2>2, <2>3, <2>4 DEF Undo
<1>5. CASE FinalizeLeakedLock(p, t)
  BY <1>5 DEF FinalizeLeakedLock, local
<1> QED BY <1>1, <1>2, <1>3, <1>4, <1>5


LEMMA SatisfiedStep ==
  ASSUME AloneOrJournaled, ExecInv, FinalizesSatisfied, [Next]_vars
  PROVE  FinalizesSatisfied'
<1> SUFFICES ASSUME NEW q \in Procs, NEW u \in Tools, pc'[q][u] = "finalize"
             PROVE  target'[u] \in {"found", "installed"}
  BY DEF FinalizesSatisfied, Satisfied
<1>1. LocalInv /\ LocalType /\ LockInv /\ StateInv /\ HostType
  BY DEF ExecInv, LocalInv, StateInv
<1>2. ASSUME target' = target, pc'[q][u] = pc[q][u] PROVE target'[u] \in {"found", "installed"}
  BY <1>2 DEF FinalizesSatisfied, Satisfied
<1>3. CASE UNCHANGED <<target, pc>>
  BY <1>2, <1>3
<1>4. ASSUME NEW p \in Procs, WriteState(p) \/ Crash(p) PROVE target'[u] \in {"found", "installed"}
  <2>1. ResetOthers(p) /\ target' = target
    BY <1>1, <1>4, ResetFrames DEF WriteState, Crash
  <2>2. q # p
    BY <2>1 DEF ResetOthers
  <2> QED BY <1>2, <2>1, <2>2 DEF ResetOthers, Same
<1>5. ASSUME NEW p \in Procs, NEW t \in Tools,
             \/ RecoverApplying(p, t) \/ RecoverUndoing(p, t)
             \/ RecoverRollback(p, t) \/ RecoverCommit(p, t)
             \/ Prepare(p, t) \/ Install(p, t) \/ Undo(p, t) \/ FinalizeLeakedLock(p, t)
      PROVE  target'[u] \in {"found", "installed"}
  <2>1. Effect(p, t)
    BY <1>1, <1>5, RecoverEffect, ProbeEffect, BeginEffect, AddEffect, GateEffect, CommitEffect,
       InstallEffect, UndoEffect, LeakedEffect DEF Prepare, Install
  <2>2. CASE q = p /\ u = t
    BY <1>1, <1>5, <2>2, FinalizeSeen DEF FinalizesSatisfied, Satisfied
  <2>3. CASE q # p \/ u # t
    <3>1. pc[q][u] = "finalize"
      BY <2>1, <2>3 DEF Effect, Framed, Others, ResetOthers, Same
    <3>2. Holding(q, u) /\ target[u] \in {"found", "installed"}
      BY <3>1 DEF Holding, FinalizesSatisfied, Satisfied
    <3>3. target' = target \/ (pc[p][t] = "install" /\ \E s : target' = [target EXCEPT ![t] = s])
      BY <2>1 DEF Effect, Touches
    <3>4. CASE target' # target /\ t = u
      <4>1. pc[p][t] = "install" /\ q # p
        BY <2>3, <3>3, <3>4
      <4>2. phase[p] = "run"
        BY <1>1, <4>1, AtRun DEF UndoLabels
      <4>3. tx[p][t] # "none"
        BY <1>1, <4>1, <4>2 DEF AloneOrJournaled, LocalInv, AttemptOK, InstallLabels
      <4>4. Holding(p, t)
        BY <4>1, <4>3 DEF Holding, InstallLabels
      <4> QED BY <1>1, <3>2, <4>1, <4>4, HolderIsAlone DEF OthersWait
    <3> QED BY <1>1, <3>2, <3>3, <3>4 DEF HostType
  <2> QED BY <2>2, <2>3
<1>6. ASSUME NEW p \in Procs, StartRun(p) \/ RecoverDone(p) PROVE UNCHANGED <<target, pc>>
  BY <1>6 DEF StartRun, RecoverDone
<1>7. ASSUME NEW s \in Sources, AdminRemovesSource(s) PROVE UNCHANGED <<target, pc>>
  BY <1>7 DEF AdminRemovesSource, local
<1> QED BY <1>3, <1>4, <1>5, <1>6, <1>7 DEF Next, Recover, vars

\* Where the copy and the file differ, they differ only in the boundary that
\* the attempt at its rollback bound.
LEMMA DriftEntries ==
  ASSUME Sound(mem), NEW p \in Procs, NEW t \in Tools, Drifted(p, t)
  PROVE  /\ CanPlanCommit(mem.journals[t], mem.plans[t])
         /\ disk.journals[t] = PlanCommit(mem.journals[t])
         /\ \A u \in Tools \ {t} : disk.journals[u] = mem.journals[u]
         /\ pc[p][t] = "rb_plan" /\ tx[p][t] = "open" /\ Holding(p, t)
<1>1. mem \in State
  BY DEF Sound
<1>2. disk = Changed(t, PlanCommit(mem.journals[t]), [mem.plans[t] EXCEPT !.uses = UsesOf(p, t)],
                     mem.owned, mem.tools)
  <2>1. disk = BindUses(p, t)
    BY DEF Drifted
  <2>2. \A j, us : [mem EXCEPT !.journals[t] = j, !.plans[t].uses = us]
                     = Changed(t, j, [mem.plans[t] EXCEPT !.uses = us], mem.owned, mem.tools)
    BY <1>1, Updates
  <2>3. BindUses(p, t) = Changed(t, PlanCommit(mem.journals[t]),
                                 [mem.plans[t] EXCEPT !.uses = UsesOf(p, t)], mem.owned, mem.tools)
    BY <2>2, Zenon DEF BindUses
  <2> QED BY <2>1, <2>3, Zenon
<1> QED BY <1>1, <1>2, ChangedEntries DEF Drifted, Holding, UndoLabels

\* A commit boundary leaves the copy only with a known outcome.
LEMMA MovesCommitKnown ==
  ASSUME FinalizesSatisfied, Sound(mem), NEW p \in Procs, NEW u \in Tools, NEW new, Moves(p, u, new),
         NEW t \in Tools, mem.journals[t].status = "committing", new.journals[t].status # "committing"
  PROVE  \/ new.journals[t].status = "none" /\ Satisfied(t) /\ t \in new.tools
         \/ new.journals[t].status # "none" /\ target[t] = "absent"
<1> DEFINE J == mem.journals[t]
<1>1. mem \in State /\ J \in Journal
  BY SoundParts
<1>2. CASE \E j : JournalMoves(u, j) /\ new = Changed(u, j, mem.plans[u], mem.owned, mem.tools)
  <2>1. PICK j : JournalMoves(u, j) /\ new = Changed(u, j, mem.plans[u], mem.owned, mem.tools)
    BY <1>2
  <2>2. u = t /\ new.journals[t] = j
    BY <1>1, <2>1, ChangedEntries
  <2>3. target[t] = "absent" /\ j = ResolveCommitNotApplied(J)
    BY <2>1, <2>2 DEF JournalMoves, CanPlanApply, CanRecordApplied, CanPlanRollback,
       CanPlanRollbackApply,
       CanRecordRollbackApplied
  <2>4. j.status = "ready"
    BY <1>1, <2>3 DEF ResolveCommitNotApplied, Journal
  <2> QED BY <2>2, <2>3, <2>4
<1>3. CASE Begins(p, u, new) \/ Binds(p, u, new) \/ Undone(u, new)
  <2>1. mem.journals[u].status # "committing"
    BY <1>3 DEF Begins, Binds, Undone, CanPlanCommit, CanFinalizeRollback
  <2>2. new.journals[t] = mem.journals[t]
    BY <1>1, <1>3, <2>1, ChangedEntries DEF Begins, Binds, Undone
  <2> QED BY <2>2
<1>4. CASE Commits(p, u, new)
  <2>1. new = Changed(u, NoJournal, NoPlan, CommittedOwned(u), mem.tools \cup {u})
        /\ (Satisfied(u) \/ pc[p][u] = "finalize")
    BY <1>4 DEF Commits
  <2>2. u = t /\ new.journals[t] = NoJournal /\ t \in new.tools
    BY <1>1, <2>1, ChangedEntries
  <2>3. Satisfied(t)
    BY <2>1, <2>2 DEF FinalizesSatisfied
  <2> QED BY <2>2, <2>3 DEF NoJournal
<1> QED BY <1>2, <1>3, <1>4 DEF Moves

LEMMA DriftMoves ==
  ASSUME Sound(mem), NEW p \in Procs, NEW t \in Tools, CanPlanCommit(mem.journals[t], mem.plans[t]),
         NEW new, Moves(p, t, new)
  PROVE  new.journals[t].status # "none"
<1> DEFINE J == mem.journals[t]
<1>1. mem \in State /\ J \in Journal /\ J.status \in {"ready", "pending"}
  BY SoundParts DEF CanPlanCommit
<1>2. CASE \E j : JournalMoves(t, j) /\ new = Changed(t, j, mem.plans[t], mem.owned, mem.tools)
  <2>1. PICK j : JournalMoves(t, j) /\ new = Changed(t, j, mem.plans[t], mem.owned, mem.tools)
    BY <1>2
  <2>2. j = PlanApply(J) \/ j = PlanRollback(J)
    BY <1>1, <2>1 DEF JournalMoves, CanRecordApplied, CanPlanRollbackApply,
       CanRecordRollbackApplied
  <2>3. j.status \in {"applying", "rolling_back"}
    BY <1>1, <2>2 DEF PlanApply, PlanRollback, Journal
  <2> QED BY <1>1, <2>1, <2>3, ChangedEntries
<1>3. CASE Binds(p, t, new)
  <2>1. PlanCommit(J).status = "committing"
    BY <1>1 DEF PlanCommit, Journal
  <2> QED BY <1>1, <1>3, <2>1, ChangedEntries DEF Binds
<1> QED BY <1>1, <1>2, <1>3 DEF Moves, Begins, Commits, Undone, CanCommit, CanFinalizeCommit,
     CanFinalizeRollback

\* A commit boundary on disk is closed only together with the tool's record and
\* with the target in place, and taken back only when the target is known to be
\* absent or by the attempt whose own save of it failed.  Either there is one
\* process, or every root needs a prerequisite: a root without any is installed
\* with no journal and no lock, and another process may then break the target
\* between the verification and the save.
THEOREM OutcomeKnown ==
  ASSUME AloneOrJournaled
  PROVE  Spec => CommitOutcomeKnown
<1>1. ExecInv /\ FinalizesSatisfied /\ [Next]_vars =>
        [\A t \in Tools :
           disk.journals[t].status = "committing" /\ disk'.journals[t].status # "committing" =>
             IF disk'.journals[t].status = "none" THEN Satisfied(t) /\ t \in disk'.tools
             ELSE \/ target[t] = "absent"
                  \/ \E p \in Procs : At(p, t, "rb_plan") /\ tx[p][t] = "open"]_vars
  <2>1. SUFFICES ASSUME ExecInv, FinalizesSatisfied, [Next]_vars, NEW t \in Tools,
                        disk.journals[t].status = "committing", disk'.journals[t].status # "committing"
                 PROVE  IF disk'.journals[t].status = "none" THEN Satisfied(t) /\ t \in disk'.tools
                        ELSE \/ target[t] = "absent"
                             \/ \E p \in Procs : At(p, t, "rb_plan") /\ tx[p][t] = "open"
    BY Zenon
  <2>2. LocalInv /\ LockInv /\ StateInv /\ Sound(mem) /\ Sound(disk)
    BY <2>1 DEF ExecInv, StateInv
  <2>3. disk' # disk /\ disk'.journals # disk.journals
    BY <2>1
  <2>4. PICK p \in Procs, u \in Tools : Effect(p, u)
    <3>1. ASSUME NEW p \in Procs, Writes(p) PROVE disk'.journals = disk.journals
      BY <2>2, <3>1, WrittenParts DEF Writes
    <3> QED BY <2>1, <2>2, <2>3, <3>1, StepKinds DEF Rests, Quiet, Crashes
  <2>5. OthersWait(p, u) /\ (Saves(p, u) \/ Drifts(p, u))
    BY <2>3, <2>4 DEF Effect, Quiet, Releases
  <2>6. Moves(p, u, disk')
    BY <2>5 DEF Saves, Drifts, Moves
  <2>7. CASE mem.journals[t].status = "committing"
    BY <2>1, <2>2, <2>6, <2>7, MovesCommitKnown
  <2>8. CASE mem.journals[t].status # "committing"
    <3>1. PICK q \in Procs, v \in Tools : Drifted(q, v)
      BY <2>1, <2>2, <2>8 DEF StateInv
    <3>2. v = t /\ CanPlanCommit(mem.journals[t], mem.plans[t]) /\ Holding(q, v)
          /\ pc[q][t] = "rb_plan" /\ tx[q][t] = "open"
      BY <2>1, <2>2, <2>8, <3>1, DriftEntries
    <3>3. q = p /\ u = t
      BY <2>5, <3>2 DEF OthersWait
    <3>4. disk'.journals[t].status # "none"
      BY <2>2, <2>6, <3>2, <3>3, DriftMoves
    <3> QED BY <3>2, <3>3, <3>4 DEF At
  <2> QED BY <2>7, <2>8
<1>2. Init => FinalizesSatisfied
  BY DEF Init, FinalizesSatisfied
<1>3. ExecInv /\ FinalizesSatisfied /\ [Next]_vars => FinalizesSatisfied'
  BY SatisfiedStep
<1> QED BY <1>1, <1>2, <1>3, ExecInit, ExecStep, PTL DEF Spec, CommitOutcomeKnown

(***************************************************************************)
(* The refinement: the holder's copy moves, for each tool, only as the     *)
(* operations of the state layer do.  The abstract module is instantiated  *)
(* for each tool, so its pure operators are copies of this module's.       *)
(***************************************************************************)
LEMMA SameForward ==
  ASSUME NEW t, NEW j, NEW p
  PROVE  /\ Lifecycle(t)!NoJournal = NoJournal
         /\ Lifecycle(t)!NewJournal = NewJournal
         /\ Lifecycle(t)!NoPlan = NoPlan
         /\ Lifecycle(t)!CanPlanApply(j, p) <=> CanPlanApply(j, p)
         /\ Lifecycle(t)!PlanApply(j) = PlanApply(j)
         /\ Lifecycle(t)!CanRecordApplied(j) <=> CanRecordApplied(j)
         /\ Lifecycle(t)!RecordApplied(j, p) = RecordApplied(j, p)
         /\ Lifecycle(t)!ResolveApplying(j, p, "not_applied") = ResolveApplying(j, p, "not_applied")
         /\ Lifecycle(t)!CanPlanCommit(j, p) <=> CanPlanCommit(j, p)
         /\ Lifecycle(t)!PlanCommit(j) = PlanCommit(j)
         /\ Lifecycle(t)!ResolveCommitNotApplied(j) = ResolveCommitNotApplied(j)
<1>1. Lifecycle(t)!NoJournal = NoJournal
  BY DEF Lifecycle!NoJournal, NoJournal
<1>2. Lifecycle(t)!CanPlanApply(j, p) <=> CanPlanApply(j, p)
  BY DEF Lifecycle!CanPlanApply, CanPlanApply
<1>3. Lifecycle(t)!NewJournal = NewJournal
  BY DEF Lifecycle!NewJournal, NewJournal, Lifecycle!NoJournal, NoJournal
<1>4. Lifecycle(t)!RecordApplied(j, p) = RecordApplied(j, p)
  BY Zenon DEF Lifecycle!RecordApplied, RecordApplied
<1>5. Lifecycle(t)!ResolveApplying(j, p, "not_applied") = ResolveApplying(j, p, "not_applied")
  BY DEF Lifecycle!ResolveApplying, ResolveApplying
<1> QED BY <1>1, <1>2, <1>3, <1>4, <1>5 DEF Lifecycle!NoPlan, NoPlan, Lifecycle!PlanApply,
     PlanApply,
   Lifecycle!CanRecordApplied, CanRecordApplied, Lifecycle!CanPlanCommit, CanPlanCommit,
   Lifecycle!PlanCommit, PlanCommit, Lifecycle!ResolveCommitNotApplied, ResolveCommitNotApplied

LEMMA SameRollback ==
  ASSUME NEW t, NEW j, NEW p, NEW o
  PROVE  /\ Lifecycle(t)!CanPlanRollback(j, p, o) <=> CanPlanRollback(j, p, o)
         /\ Lifecycle(t)!PlanRollback(j) = PlanRollback(j)
         /\ Lifecycle(t)!CanPlanRollbackApply(j, p, o) <=> CanPlanRollbackApply(j, p, o)
         /\ Lifecycle(t)!PlanRollbackApply(j, p, o) = PlanRollbackApply(j, p, o)
         /\ Lifecycle(t)!CanRecordRollbackApplied(j, p, o) <=> CanRecordRollbackApplied(j, p, o)
         /\ Lifecycle(t)!RecordRollbackApplied(j) = RecordRollbackApplied(j)
         /\ Lifecycle(t)!CanFinalizeRollback(j, p, o) <=> CanFinalizeRollback(j, p, o)
         /\ Lifecycle(t)!FinalizeRollback(j, p, o) = FinalizeRollback(j, p, o)
<1>1. Lifecycle(t)!RollbackSteps(j, p, o) = RollbackSteps(j, p, o)
  BY DEF Lifecycle!RollbackSteps, RollbackSteps, Lifecycle!Safe, Safe
<1>2. Lifecycle(t)!OwnershipConflict(j, p, o) <=> OwnershipConflict(j, p, o)
  BY DEF Lifecycle!OwnershipConflict, OwnershipConflict, Lifecycle!Safe, Safe
<1>3. \A a, b : Lifecycle(t)!DonePrefix(a, b) <=> DonePrefix(a, b)
  BY DEF Lifecycle!DonePrefix, DonePrefix
<1>4. Lifecycle(t)!CanRemainingRollback(j, p, o) <=> CanRemainingRollback(j, p, o)
  BY <1>1, <1>2, <1>3 DEF Lifecycle!CanRemainingRollback, CanRemainingRollback
<1>5. Lifecycle(t)!Remaining(j, p, o) = Remaining(j, p, o)
  BY <1>1 DEF Lifecycle!Remaining, Remaining
<1>6. Lifecycle(t)!Retained(j, p, o) = Retained(j, p, o)
  BY <1>1 DEF Lifecycle!Retained, Retained
<1>7. \A S : Lifecycle(t)!Highest(S) = Highest(S)
  BY Zenon DEF Lifecycle!Highest, Highest
<1>8. Lifecycle(t)!CanPlanRollback(j, p, o) <=> CanPlanRollback(j, p, o)
  BY <1>2 DEF Lifecycle!CanPlanRollback, CanPlanRollback
<1>9. Lifecycle(t)!CanPlanRollbackApply(j, p, o) <=> CanPlanRollbackApply(j, p, o)
  BY <1>4, <1>5 DEF Lifecycle!CanPlanRollbackApply, CanPlanRollbackApply
<1>10. Lifecycle(t)!PlanRollbackApply(j, p, o) = PlanRollbackApply(j, p, o)
  BY <1>5, <1>7, Zenon DEF Lifecycle!PlanRollbackApply, PlanRollbackApply
<1>11. Lifecycle(t)!CanRecordRollbackApplied(j, p, o) <=> CanRecordRollbackApplied(j, p, o)
  <2>1. \A S : Lifecycle(t)!Cardinality(S) = Cardinality(S)
    BY Zenon DEF Lifecycle!Cardinality, Cardinality
  <2> QED BY <1>1, <1>2, <2>1 DEF Lifecycle!CanRecordRollbackApplied, CanRecordRollbackApplied
<1>12. Lifecycle(t)!CanFinalizeRollback(j, p, o) <=> CanFinalizeRollback(j, p, o)
  BY <1>4, <1>5, <1>6 DEF Lifecycle!CanFinalizeRollback, CanFinalizeRollback
<1>13. Lifecycle(t)!FinalizeRollback(j, p, o) = FinalizeRollback(j, p, o)
  BY <1>6, Zenon DEF Lifecycle!FinalizeRollback, FinalizeRollback
<1>14. Lifecycle(t)!PlanRollback(j) = PlanRollback(j)
  BY DEF Lifecycle!PlanRollback, PlanRollback
<1>15. Lifecycle(t)!RecordRollbackApplied(j) = RecordRollbackApplied(j)
  BY DEF Lifecycle!RecordRollbackApplied, RecordRollbackApplied
<1> QED BY <1>8, <1>9, <1>10, <1>11, <1>12, <1>13, <1>14, <1>15

LEMMA SameOwnership ==
  ASSUME NEW t, NEW j, NEW p, NEW o, NEW d, NEW uses
  PROVE  /\ Lifecycle(t)!Use = Use
         /\ Lifecycle(t)!Snapshot = Snapshot
         /\ Lifecycle(t)!ValidPlan(p) <=> ValidPlan(p)
         /\ Lifecycle(t)!DistinctUses(uses) <=> DistinctUses(uses)
         /\ Lifecycle(t)!CanFinalizeCommit(j, p, o) <=> CanFinalizeCommit(j, p, o)
         /\ Lifecycle(t)!FinalizeCommit(p, o, d) = FinalizeCommit(p, o, d)
         /\ Lifecycle(t)!TrackResourceUses(o, uses) = TrackResourceUses(o, uses)
         /\ Lifecycle(t)!ClaimResourceUses(o, d, uses) = ClaimResourceUses(o, d, uses)
<1>1. Lifecycle(t)!Use = Use
  BY DEF Lifecycle!Use, Use
<1>2. Lifecycle(t)!Ownership = Ownership
  BY DEF Lifecycle!Ownership, Ownership
<1>3. Lifecycle(t)!OwnedState = OwnedState
  BY <1>2 DEF Lifecycle!OwnedState, OwnedState
<1>4. Lifecycle(t)!Snapshot = Snapshot
  BY <1>3 DEF Lifecycle!Snapshot, Snapshot
<1>5. Lifecycle(t)!Mutation = Mutation
  BY <1>2 DEF Lifecycle!Mutation, Mutation
<1>6. Lifecycle(t)!Plan = Plan
  BY <1>1, <1>5 DEF Lifecycle!Plan, Plan
<1>7. \A us : Lifecycle(t)!DistinctUses(us) <=> DistinctUses(us)
  BY DEF Lifecycle!DistinctUses, DistinctUses
<1>8. Lifecycle(t)!ValidPlan(p) <=> ValidPlan(p)
  BY <1>6, <1>7 DEF Lifecycle!ValidPlan, ValidPlan
<1>9. Lifecycle(t)!Mutations(p) = Mutations(p)
  BY DEF Lifecycle!Mutations, Mutations
<1>10. Lifecycle(t)!CanFinalizeCommit(j, p, o) <=> CanFinalizeCommit(j, p, o)
  BY <1>9 DEF Lifecycle!CanFinalizeCommit, CanFinalizeCommit
<1>11. \A s, e : Lifecycle(t)!ClaimResource(s, e) = ClaimResource(s, e)
  BY DEF Lifecycle!ClaimResource, ClaimResource
<1>12. \A s, c : Lifecycle(t)!TrackOne(s, c) = TrackOne(s, c)
  BY DEF Lifecycle!TrackOne, TrackOne
<1>13. Lifecycle(t)!UsedBy(uses) = UsedBy(uses) /\ Lifecycle(t)!CreatedBy(uses) = CreatedBy(uses)
  BY DEF Lifecycle!UsedBy, UsedBy, Lifecycle!CreatedBy, CreatedBy
<1>14. Lifecycle(t)!TrackResourceUses(o, uses) = TrackResourceUses(o, uses)
  BY <1>12, <1>13, Zenon DEF Lifecycle!TrackResourceUses, TrackResourceUses
<1>15. Lifecycle(t)!ClaimResourceUses(o, d, uses) = ClaimResourceUses(o, d, uses)
  BY <1>11, <1>13, <1>14, Zenon DEF Lifecycle!ClaimResourceUses, ClaimResourceUses
<1>16. Lifecycle(t)!FinalizeCommit(p, o, d) = FinalizeCommit(p, o, d)
  BY <1>9, <1>11, Zenon DEF Lifecycle!FinalizeCommit, FinalizeCommit
<1> QED BY <1>1, <1>4, <1>7, <1>8, <1>10, <1>14, <1>15, <1>16

\* What an attempt begins with is one of the plans of its tool.
LEMMA BeginsWithPlan ==
  ASSUME LocalInv, NEW p \in Procs, NEW t \in Tools, tx[p][t] = "none"
  PROVE  TxPlan(p, t) \in PlansOf(t)
<1>1. missing[p][t] \in Orders(t)
  BY DEF LocalInv, LocalType
<1>2. TxPlan(p, t) = [prepare |-> PreparedBy(missing[p][t]), uses |-> {}]
  BY DEF TxPlan
<1> QED BY <1>1, <1>2 DEF PlansOf, Orders

\* The plans of a tool meet what the state layer assumes of them.
LEMMA LifecyclePlans ==
  ASSUME NEW t \in Tools, NEW pl \in PlansOf(t)
  PROVE  t \in Dependents /\ ValidPlan(pl) /\ pl.uses = {}
<1>1. PICK m \in Orders(t) : pl = [prepare |-> PreparedBy(m), uses |-> {}]
  BY DEF PlansOf, Orders
<1> QED BY <1>1, OrdersPlan DEF Tools

\* Every transition of a journal is an operation of the state layer.
LEMMA JournalMovesImplement ==
  ASSUME NEW t \in Tools, NEW j, JournalMoves(t, j),
         mem'.journals[t] = j, mem'.plans[t] = mem.plans[t], mem'.owned = mem.owned,
         mem'.tools = mem.tools
  PROVE  Lifecycle(t)!StateNext
<1> DEFINE J == mem.journals[t]
           P == mem.plans[t]
           O == mem.owned
<1>1. CASE CanPlanApply(J, P) /\ j = PlanApply(J)
  BY <1>1, SameForward DEF Lifecycle!StateNext, Lifecycle!PlanPreparationApply
<1>2. CASE CanRecordApplied(J) /\ j = RecordApplied(J, P)
  BY <1>2, SameForward DEF Lifecycle!StateNext, Lifecycle!RecordPreparationApplied
<1>3. CASE CanRecordApplied(J) /\ j = ResolveApplying(J, P, "not_applied")
  <2>1. Lifecycle(t)!ResolvePreparationApplying("not_applied")
    BY <1>3, SameForward DEF Lifecycle!ResolvePreparationApplying
  <2> QED BY <2>1 DEF Lifecycle!StateNext
<1>4. CASE J.status = "committing" /\ j = ResolveCommitNotApplied(J)
  BY <1>4, SameForward DEF Lifecycle!StateNext, Lifecycle!ResolvePreparationCommitNotApplied
<1>5. CASE CanPlanRollback(J, P, O) /\ j = PlanRollback(J)
  BY <1>5, SameRollback DEF Lifecycle!StateNext, Lifecycle!PlanPreparationRollback
<1>6. CASE CanPlanRollbackApply(J, P, O) /\ j = PlanRollbackApply(J, P, O)
  BY <1>6, SameRollback DEF Lifecycle!StateNext, Lifecycle!PlanPreparationRollbackApply
<1>7. CASE CanRecordRollbackApplied(J, P, O) /\ j = RecordRollbackApplied(J)
  BY <1>7, SameRollback DEF Lifecycle!StateNext, Lifecycle!RecordPreparationRollbackApplied
<1>8. CASE J.status = "rolling_back" /\ J.undoing # 0 /\ j = [J EXCEPT !.undoing = 0]
  <2>1. Lifecycle(t)!CanResolveRollbackApplying(J, P, O, "not_applied")
    BY <1>8 DEF Lifecycle!CanResolveRollbackApplying
  <2>2. j = Lifecycle(t)!ResolveRollbackApplying(J, "not_applied")
    BY <1>8 DEF Lifecycle!ResolveRollbackApplying
  <2>3. Lifecycle(t)!ResolvePreparationRollbackApplying("not_applied")
    BY <2>1, <2>2 DEF Lifecycle!ResolvePreparationRollbackApplying
  <2> QED BY <2>3 DEF Lifecycle!StateNext
<1> QED BY <1>1, <1>2, <1>3, <1>4, <1>5, <1>6, <1>7, <1>8 DEF JournalMoves

\* Binding the uses of an attempt at its commit boundary is one too.
LEMMA BindingImplements ==
  ASSUME Sound(mem), Sound(mem'), NEW p \in Procs, NEW t \in Tools,
         CanPlanCommit(mem.journals[t], mem.plans[t]), UsesOf(p, t) \in SUBSET Use,
         mem' = Changed(t, PlanCommit(mem.journals[t]), [mem.plans[t] EXCEPT !.uses = UsesOf(p, t)],
                        mem.owned, mem.tools)
  PROVE  Lifecycle(t)!StateNext
<1> DEFINE P == mem.plans[t]
           pl == [P EXCEPT !.uses = UsesOf(p, t)]
<1>1. /\ mem'.journals[t] = PlanCommit(mem.journals[t]) /\ mem'.plans[t] = pl
      /\ mem'.owned = mem.owned /\ mem'.tools = mem.tools
  BY ChangedEntries DEF Sound
<1>2. ValidPlan(pl)
  BY <1>1, SoundParts
<1>3. Lifecycle(t)!ValidPlan(pl) /\ Lifecycle(t)!CanPlanCommit(mem.journals[t], P)
      /\ Lifecycle(t)!PlanCommit(mem.journals[t]) = PlanCommit(mem.journals[t])
  BY <1>2, SameForward, SameOwnership
<1>4. Lifecycle(t)!PlanPreparationCommitWithUses(UsesOf(p, t))
  BY <1>1, <1>3 DEF Lifecycle!PlanPreparationCommitWithUses
<1>5. UsesOf(p, t) \in SUBSET Lifecycle(t)!Use
  BY SameOwnership
<1> QED BY <1>4, <1>5 DEF Lifecycle!StateNext

LEMMA OwnMoves ==
  ASSUME LocalInv, Sound(mem), Sound(mem'), NEW p \in Procs, NEW t \in Tools, Moves(p, t, mem')
  PROVE  Lifecycle(t)!StateNext
<1> DEFINE J == mem.journals[t]
           P == mem.plans[t]
<1>1. mem \in State
  BY DEF Sound
<1>2. ASSUME NEW j, JournalMoves(t, j), mem' = Changed(t, j, P, mem.owned, mem.tools)
      PROVE  Lifecycle(t)!StateNext
  <2>1. /\ mem'.journals[t] = j /\ mem'.plans[t] = P
        /\ mem'.owned = mem.owned /\ mem'.tools = mem.tools
    BY <1>1, <1>2, ChangedEntries
  <2> QED BY <1>2, <2>1, JournalMovesImplement
<1>3. CASE Begins(p, t, mem')
  <2>1. /\ mem'.journals[t] = NewJournal /\ mem'.plans[t] = TxPlan(p, t)
        /\ mem'.owned = mem.owned /\ mem'.tools = mem.tools
    BY <1>1, <1>3, ChangedEntries DEF Begins
  <2>2. J.status = "none" /\ TxPlan(p, t) \in PlansOf(t)
    BY <1>3, BeginsWithPlan DEF Begins
  <2>3. Lifecycle(t)!BeginPreparation(TxPlan(p, t))
    BY <2>1, <2>2, SameForward DEF Lifecycle!BeginPreparation
  <2> QED BY <2>2, <2>3 DEF Lifecycle!StateNext
<1>4. CASE Binds(p, t, mem')
  <2>1. UsesOf(p, t) \in SUBSET Use
    BY UsesOfType
  <2> QED BY <1>4, <2>1, BindingImplements DEF Binds
<1>5. CASE Commits(p, t, mem')
  <2> DEFINE tracked == IF t \in Roots THEN {} ELSE {[res |-> t, created |-> TRUE]}
  <2>1. /\ mem'.journals[t] = NoJournal /\ mem'.plans[t] = NoPlan
        /\ mem'.owned = CommittedOwned(t) /\ mem'.tools = mem.tools \cup {t}
    BY <1>1, <1>5, ChangedEntries DEF Commits
  <2>2. CanFinalizeCommit(J, P, mem.owned)
    BY <1>5 DEF Commits, CanCommit
  <2>3. tracked \in SUBSET Use /\ DistinctUses(tracked)
    <3>1. t \in Resources /\ [res |-> t, created |-> TRUE] \in Use
      BY ToolsAssumption DEF Use, Tools
    <3> QED BY <3>1 DEF DistinctUses
  <2> HIDE DEF tracked
  <2>4. CommittedOwned(t) =
          Lifecycle(t)!TrackResourceUses(
            Lifecycle(t)!ClaimResourceUses(Lifecycle(t)!FinalizeCommit(P, mem.owned, t), t, P.uses),
            tracked)
    BY SameOwnership DEF CommittedOwned, tracked
  <2>5. Lifecycle(t)!FinalizePreparationCommitWithTool(tracked)
    <3>1. Lifecycle(t)!CanFinalizeCommit(J, P, mem.owned) /\ Lifecycle(t)!DistinctUses(tracked)
      BY <2>2, <2>3, SameOwnership
    <3>2. (t \in mem'.tools) = TRUE
      BY <2>1
    <3>3. mem'.journals[t] = Lifecycle(t)!NoJournal /\ mem'.plans[t] = Lifecycle(t)!NoPlan
      BY <2>1, SameForward
    <3> QED BY <2>1, <2>4, <3>1, <3>2, <3>3 DEF Lifecycle!FinalizePreparationCommitWithTool
  <2>6. tracked \in SUBSET Lifecycle(t)!Use
    BY <2>3, SameOwnership
  <2> QED BY <2>5, <2>6 DEF Lifecycle!StateNext
<1>6. CASE Undone(t, mem')
  <2>1. /\ mem'.journals[t] = NoJournal /\ mem'.plans[t] = NoPlan
        /\ mem'.owned = FinalizeRollback(J, P, mem.owned) /\ mem'.tools = mem.tools
    BY <1>1, <1>6, ChangedEntries DEF Undone
  <2>2. CanFinalizeRollback(J, P, mem.owned)
    BY <1>6 DEF Undone
  <2> QED BY <2>1, <2>2, SameForward, SameRollback
          DEF Lifecycle!StateNext, Lifecycle!FinalizePreparationRollback
<1> QED BY <1>2, <1>3, <1>4, <1>5, <1>6 DEF Moves

(***************************************************************************)
(* To every other tool, a move is a claim by others or nothing at all.     *)
(***************************************************************************)

\* One record after others tracked, claimed or retained the resource.
Grows(before, after) ==
  /\ before.deps \subseteq after.deps
  /\ before.own \in {"none", after.own} \/ (before.own = "external" /\ after.own = "depengine")

LEMMA CommittedOwnedGrows ==
  ASSUME Sound(mem), NEW t \in Tools, CanCommit(t), NEW r \in Resources
  PROVE  /\ Grows(mem.owned[r], CommittedOwned(t)[r])
         /\ CommittedOwned(t)[r].deps \subseteq mem.owned[r].deps \cup {t}
<1> DEFINE P == mem.plans[t]
           F == FinalizeCommit(P, mem.owned, t)
           C == ClaimResourceUses(F, t, P.uses)
           tracked == IF t \in Roots THEN {} ELSE {[res |-> t, created |-> TRUE]}
           D == TrackResourceUses(C, tracked)
<1>1. ValidPlan(P) /\ P.uses \in SUBSET Use /\ mem.owned \in Snapshot /\ t \in Resources
      /\ t \in Dependents /\ mem.owned[r] \in OwnedState
  BY SoundParts, ToolsAssumption, SnapshotMembers DEF Tools, Plan
<1>2. tracked \in SUBSET Use
  BY <1>1 DEF Use
<1>3. /\ F \in Snapshot /\ F[r] \in OwnedState
      /\ mem.owned[r].deps \subseteq F[r].deps /\ F[r].deps \subseteq mem.owned[r].deps \cup {t}
      /\ mem.owned[r].own \in {"none", F[r].own} \/ (mem.owned[r].own = "external" /\ F[r].own = "depengine")
  <2> DEFINE ms == {m \in Mutations(P) : m.res = r}
             m == CHOOSE x \in ms : TRUE
  <2>1. F \in Snapshot /\ F[r] \in OwnedState
    BY <1>1, FinalizeCommitType, SnapshotMembers
  <2>2. CASE ms = {}
    <3>1. F[r] = mem.owned[r]
      BY <2>2 DEF FinalizeCommit
    <3> HIDE DEF F
    <3> QED BY <2>1, <3>1
  <2>3. CASE ms # {}
    <3>1. F[r] = ClaimResource([mem.owned[r] EXCEPT !.own = m.own], t)
      BY <2>3 DEF FinalizeCommit
    <3>2. m \in Mutations(P) /\ m.res = r
      BY <2>3
    <3>3. mem.owned[r].own \in {"none", m.own}
      BY <3>2 DEF CanCommit, CanFinalizeCommit
    <3> HIDE DEF m, F
    <3>4. F[r].own = m.own /\ F[r].deps = mem.owned[r].deps \cup {t}
      BY <1>1, <3>1 DEF ClaimResource, OwnedState
    <3> QED BY <2>1, <3>3, <3>4 DEF F
  <2> QED BY <2>1, <2>2, <2>3
<1> HIDE DEF F
<1>4. /\ C \in Snapshot /\ C[r] \in OwnedState
      /\ F[r].deps \subseteq C[r].deps /\ C[r].deps \subseteq F[r].deps \cup {t}
      /\ F[r].own \in {"none", C[r].own} \/ C[r].own = "depengine"
  <2> DEFINE T == TrackResourceUses(F, P.uses)
  <2>1. C \in Snapshot /\ C[r] \in OwnedState /\ C[r].own = T[r].own /\ F[r].deps \subseteq C[r].deps
    BY <1>1, <1>3, ClaimType, ClaimKeepsTracked, SnapshotMembers
  <2>2. T \in Snapshot /\ T[r] \in OwnedState /\ T[r].deps = F[r].deps
    BY <1>1, <1>3, TrackType, SnapshotMembers
  <2>3. F[r].own # "none" => T[r].own \in {F[r].own, "depengine"}
    BY <1>1, <1>3, OwnerOnlyRises
  <2>4. C[r] = T[r] \/ C[r] = ClaimResource(T[r], t)
    BY DEF ClaimResourceUses
  <2> HIDE DEF T, C
  <2>5. C[r].deps \subseteq T[r].deps \cup {t}
    BY <2>2, <2>4 DEF ClaimResource, OwnedState
  <2> QED BY <2>1, <2>2, <2>3, <2>5
<1> HIDE DEF C, tracked
<1>5. /\ D[r].deps = C[r].deps
      /\ C[r].own # "none" => D[r].own \in {C[r].own, "depengine"}
  BY <1>2, <1>4, TrackType, OwnerOnlyRises
<1>6. CommittedOwned(t) = D
  BY DEF CommittedOwned, C, F, tracked
<1> HIDE DEF D
<1>7. mem.owned[r].own \in {"none", "external", "depengine"}
  BY <1>1 DEF OwnedState, Ownership
<1>8. F[r].own \in {"none", "external", "depengine"} /\ C[r].own \in {"none", "external", "depengine"}
  BY <1>3, <1>4 DEF OwnedState, Ownership
<1> QED BY <1>3, <1>4, <1>5, <1>6, <1>7, <1>8 DEF Grows

LEMMA RetainedGrows ==
  ASSUME Sound(mem), NEW t \in Tools, NEW r \in Resources
  PROVE  LET o == FinalizeRollback(mem.journals[t], mem.plans[t], mem.owned) IN
           Grows(mem.owned[r], o[r]) /\ o[r].deps = mem.owned[r].deps
<1> DEFINE o == FinalizeRollback(mem.journals[t], mem.plans[t], mem.owned)
<1>1. o[r].deps = mem.owned[r].deps
  BY SoundParts, FinalizeRollbackType
<1>2. mem.owned[r].own = "none" \/ o[r] = mem.owned[r]
  BY DEF FinalizeRollback
<1> QED BY <1>1, <1>2 DEF Grows

\* A step that leaves the journal and the plan of t alone and only lets the
\* snapshot grow, claiming for t only along with its record.
LEMMA ClaimsImplement ==
  ASSUME NEW t \in Tools,
         mem'.journals[t] = mem.journals[t], mem'.plans[t] = mem.plans[t], mem'.owned \in Snapshot,
         \A r \in Resources : Grows(mem.owned[r], mem'.owned[r]),
         \A r \in Resources : t \in mem'.owned[r].deps \ mem.owned[r].deps => t \in mem'.tools,
         t \in mem.tools => t \in mem'.tools
  PROVE  Lifecycle(t)!StateNext
<1>1. \A b, c : Lifecycle(t)!Grown(b, c) <=> Grows(b, c)
  BY DEF Lifecycle!Grown, Grows
<1>2. mem'.owned \in Lifecycle(t)!Snapshot
  BY SameOwnership
<1>3. (t \in mem'.tools) \in {(t \in mem.tools), TRUE}
  <2>1. CASE t \in mem'.tools
    <3>1. (t \in mem'.tools) = TRUE
      BY <2>1
    <3> QED BY <3>1
  <2>2. CASE t \notin mem'.tools
    <3>1. t \notin mem.tools
      BY <2>2
    <3>2. (t \in mem'.tools) = (t \in mem.tools)
      BY <2>2, <3>1
    <3> QED BY <3>2
  <2> QED BY <2>1, <2>2
<1>4. Lifecycle(t)!ClaimByOthers
  BY <1>1, <1>2, <1>3 DEF Lifecycle!ClaimByOthers
<1> QED BY <1>4 DEF Lifecycle!StateNext

LEMMA OthersMove ==
  ASSUME Sound(mem), Sound(mem'), NEW p \in Procs, NEW u \in Tools, Moves(p, u, mem'),
         NEW t \in Tools, t # u
  PROVE  [Lifecycle(t)!StateNext]_(Lifecycle(t)!stateVars)
<1>1. mem \in State /\ mem'.owned \in Snapshot
  BY SoundParts DEF Sound
<1>2. PICK j, pl, o, k : mem' = Changed(u, j, pl, o, k)
  BY DEF Moves, Begins, Binds, Commits, Undone
<1>3. mem'.journals[t] = mem.journals[t] /\ mem'.plans[t] = mem.plans[t]
  BY <1>1, <1>2, ChangedEntries
<1>4. CASE mem'.owned = mem.owned /\ mem'.tools = mem.tools
  BY <1>3, <1>4 DEF Lifecycle!stateVars
<1>5. CASE Commits(p, u, mem')
  <2>1. mem'.owned = CommittedOwned(u) /\ mem'.tools = mem.tools \cup {u} /\ CanCommit(u)
    BY <1>1, <1>5, ChangedEntries DEF Commits
  <2>2. \A r \in Resources : /\ Grows(mem.owned[r], mem'.owned[r])
                             /\ mem'.owned[r].deps \subseteq mem.owned[r].deps \cup {u}
    BY <2>1, CommittedOwnedGrows
  <2>3. Lifecycle(t)!StateNext
    BY <1>1, <1>3, <2>1, <2>2, ClaimsImplement
  <2> QED BY <2>3
<1>6. CASE Undone(u, mem')
  <2>1. /\ mem'.owned = FinalizeRollback(mem.journals[u], mem.plans[u], mem.owned)
        /\ mem'.tools = mem.tools
    BY <1>1, <1>6, ChangedEntries DEF Undone
  <2>2. \A r \in Resources : /\ Grows(mem.owned[r], mem'.owned[r])
                             /\ mem'.owned[r].deps = mem.owned[r].deps
    BY <2>1, RetainedGrows
  <2>3. Lifecycle(t)!StateNext
    BY <1>1, <1>3, <2>1, <2>2, ClaimsImplement
  <2> QED BY <2>3
<1>7. \/ mem'.owned = mem.owned /\ mem'.tools = mem.tools
      \/ Commits(p, u, mem') \/ Undone(u, mem')
  BY <1>1, ChangedEntries DEF Moves, Begins, Binds
<1> QED BY <1>4, <1>5, <1>6, <1>7

\* Dropping a copy whose boundary save failed shows the boundary abstractly.
LEMMA DroppedCopy ==
  ASSUME LocalInv, LockInv, StateInv, mem' \in {mem, disk}, NEW t \in Tools
  PROVE  [Lifecycle(t)!StateNext]_(Lifecycle(t)!stateVars)
<1>1. Sound(mem) /\ Sound(mem') /\ mem \in State
  BY DEF StateInv, Sound
<1>2. CASE mem' = mem
  BY <1>2 DEF Lifecycle!stateVars
<1>3. CASE mem' # mem
  <2>1. PICK q \in Procs, v \in Tools : Drifted(q, v)
    BY <1>3 DEF StateInv
  <2>2. mem' = Changed(v, PlanCommit(mem.journals[v]), [mem.plans[v] EXCEPT !.uses = UsesOf(q, v)],
                       mem.owned, mem.tools)
    <3>1. mem' = BindUses(q, v)
      BY <1>3, <2>1 DEF Drifted
    <3>2. \A j, us : [mem EXCEPT !.journals[v] = j, !.plans[v].uses = us]
                       = Changed(v, j, [mem.plans[v] EXCEPT !.uses = us], mem.owned, mem.tools)
      BY <1>1, Updates
    <3>3. BindUses(q, v) = Changed(v, PlanCommit(mem.journals[v]),
                                   [mem.plans[v] EXCEPT !.uses = UsesOf(q, v)], mem.owned, mem.tools)
      BY <3>2, Zenon DEF BindUses
    <3> QED BY <3>1, <3>3, Zenon
  <2>3. CASE t = v
    <3>1. CanPlanCommit(mem.journals[v], mem.plans[v]) /\ UsesOf(q, v) \in SUBSET Use
      BY <2>1, UsesOfType DEF Drifted
    <3>2. Lifecycle(v)!StateNext
      BY <1>1, <2>2, <3>1, BindingImplements
    <3> QED BY <2>3, <3>2
  <2>4. CASE t # v
    <3>1. /\ mem'.journals[t] = mem.journals[t] /\ mem'.plans[t] = mem.plans[t]
          /\ mem'.owned = mem.owned /\ mem'.tools = mem.tools
      BY <1>1, <2>2, <2>4, ChangedEntries
    <3> QED BY <3>1 DEF Lifecycle!stateVars
  <2> QED BY <2>3, <2>4
<1> QED BY <1>2, <1>3

\* To a tool, the final write of a run is a claim by others.
LEMMA WritesImplement ==
  ASSUME ExecInv, NEW p \in Procs, Writes(p), NEW t \in Tools
  PROVE  [Lifecycle(t)!StateNext]_(Lifecycle(t)!stateVars)
<1>1. LocalInv /\ LockInv /\ StateInv /\ Sound(disk) /\ mem = disk /\ mem' \in {mem, WrittenState(p)}
  BY DEF ExecInv, StateInv, Writes
<1>2. CASE mem' = mem
  BY <1>2 DEF Lifecycle!stateVars
<1>3. CASE mem' = WrittenState(p)
  <2>1. /\ mem'.journals = mem.journals /\ mem'.plans = mem.plans /\ mem'.owned \in Snapshot
        /\ mem'.tools = mem.tools \cup Reported(p)
    BY <1>1, <1>3, WrittenParts DEF Sound, State
  <2>2. ASSUME NEW r \in Resources
        PROVE  /\ Grows(mem.owned[r], mem'.owned[r])
               /\ t \in mem'.owned[r].deps \ mem.owned[r].deps => t \in mem'.tools
    <3> DEFINE b == \E u \in Claimants(p, r) : r \in Created(p, u)
    <3>1. mem.owned[r] \in OwnedState
      BY <1>1, SnapshotMembers DEF Sound, State
    <3>2. CASE mem'.owned[r] = mem.owned[r]
      BY <3>2 DEF Grows
    <3>3. CASE /\ Claimants(p, r) \subseteq Reported(p)
               /\ mem'.owned[r].own = TrackOne(mem.owned[r], b).own
               /\ mem'.owned[r].deps = mem.owned[r].deps \cup Claimants(p, r)
      <4>1. TrackOne(mem.owned[r], b).own \in {"external", "depengine"}
            /\ (mem.owned[r].own = "depengine" => TrackOne(mem.owned[r], b).own = "depengine")
        BY <3>1 DEF TrackOne, OwnedState
      <4> HIDE DEF b
      <4>2. mem.owned[r].own \in {"none", "external", "depengine"}
        BY <3>1 DEF OwnedState, Ownership
      <4> QED BY <2>1, <3>3, <4>1, <4>2 DEF Grows
    <3> QED BY <1>1, <1>3, <3>2, <3>3, WrittenParts
  <2>3. Lifecycle(t)!StateNext
    BY <2>1, <2>2, ClaimsImplement
  <2> QED BY <2>3
<1> QED BY <1>1, <1>2, <1>3

LEMMA LifecycleStep ==
  ASSUME ExecInv, [Next]_vars, NEW t \in Tools
  PROVE  [Lifecycle(t)!StateNext]_(Lifecycle(t)!stateVars)
<1>1. LocalInv /\ LockInv /\ StateInv /\ Sound(mem)
  BY DEF ExecInv, StateInv
<1>2. Sound(mem')
  BY ExecStep DEF ExecInv, StateInv
<1>3. CASE mem' \in {mem, disk}
  BY <1>1, <1>3, DroppedCopy
<1>4. ASSUME NEW p \in Procs, Writes(p) PROVE [Lifecycle(t)!StateNext]_(Lifecycle(t)!stateVars)
  BY <1>4, WritesImplement
<1>5. ASSUME NEW p \in Procs, NEW u \in Tools, Saves(p, u) PROVE [Lifecycle(t)!StateNext]_(Lifecycle(t)!stateVars)
  <2>1. Moves(p, u, mem')
    BY <1>5 DEF Saves
  <2>2. CASE t = u
    <3>1. Lifecycle(u)!StateNext
      BY <1>1, <1>2, <2>1, OwnMoves
    <3> QED BY <2>2, <3>1
  <2>3. CASE t # u
    BY <1>1, <1>2, <2>1, <2>3, OthersMove
  <2> QED BY <2>2, <2>3
<1>6. \/ mem' \in {mem, disk}
      \/ \E p \in Procs, u \in Tools : Saves(p, u)
      \/ \E p \in Procs : Writes(p)
  BY <1>1, StepKinds DEF Effect, Rests, Quiet, Releases, Drifts, Crashes
<1> QED BY <1>3, <1>4, <1>5, <1>6

LEMMA LifecycleInit ==
  ASSUME Init, NEW t \in Tools
  PROVE  Lifecycle(t)!StateInit
<1>1. /\ mem.journals[t] = NoJournal /\ mem.plans[t] = NoPlan /\ mem.owned = NoneOwned
      /\ mem.tools = {}
  BY DEF Init, EmptyState
<1>2. Lifecycle(t)!NoJournal = NoJournal /\ Lifecycle(t)!NoPlan = NoPlan
  BY SameForward
<1>3. Lifecycle(t)!NoneOwned = NoneOwned
  BY DEF Lifecycle!NoneOwned, NoneOwned
<1>4. (t \in mem.tools) = FALSE
  BY <1>1
<1> QED BY <1>1, <1>2, <1>3, <1>4 DEF Lifecycle!StateInit

\* The executor implements the state layer's promise for every tool: whatever
\* processes, attempts, failed and torn saves and crashes do, the journal, the
\* plan, the ownership snapshot and the record of each tool move only as the
\* state layer's operations allow.
THEOREM ExecutorImplementsLifecycle == Spec => ImplementsLifecycle
<1>1. Init => \A t \in Tools : Lifecycle(t)!StateInit
  BY LifecycleInit
<1>2. ExecInv /\ [Next]_vars => [\A t \in Tools : [Lifecycle(t)!StateNext]_(Lifecycle(t)!stateVars)]_vars
  BY LifecycleStep
<1> QED BY <1>1, <1>2, ExecInit, ExecStep, PTL DEF Spec, ImplementsLifecycle
=============================================================================
