------------------------ MODULE PreparationExecutor ------------------------
(***************************************************************************)
(* Transactional candidate preparation as the executor runs it,            *)
(* internal/exec: several depengine processes over one state file and one  *)
(* host.  A process first recovers every persisted journal under the state *)
(* lock, then attempts its root tools (in parallel) and the tools their    *)
(* methods require (lazily), then writes its report into the state.  An    *)
(* attempt holds the state lock from BeginPreparation on, gives it up      *)
(* while prerequisites run, and takes it again to commit or roll back.     *)
(*                                                                         *)
(* A tool has one candidate here, so a tool names its journal key.  A tool *)
(* outside Roots is dependency_only and runs as a prerequisite, always     *)
(* under a journal; its prerequisite resource is the tool itself.  Targets *)
(* never drift: upgrades have their own journal and are not in this module.*)
(***************************************************************************)
EXTENDS PreparationJournal

CONSTANTS
  Procs,       \* depengine processes
  Roots,       \* tools a process attempts on its own account
  Configured,  \* tool -> sequence of the sources its candidate declares
  Requires,    \* tool -> prerequisites of its method (method.requires)
  Faults,      \* the kinds of failure that may happen
  MaxFaults,   \* bound: how many failures happen in one behaviour
  Free,        \* value of the lock when nobody holds it
  Recovery     \* the part of a process that recovers journals

Tools   == Dependents
Sources == Resources \ Dependents

ASSUME ToolsAssumption == Dependents \subseteq Resources
ASSUME RootsAssumption == Roots \subseteq Tools
ASSUME ConfiguredAssumption ==
  /\ Configured \in [Tools -> Seq(Sources)]
  /\ \A t \in Tools : \A i, k \in 1..Len(Configured[t]) :
        Configured[t][i] = Configured[t][k] => i = k
ASSUME RequiresAssumption ==
  Requires \in [Tools -> SUBSET (Tools \ Roots)] /\ \A t \in Tools : t \notin Requires[t]
ASSUME FaultsAssumption == MaxFaults \in Nat
ASSUME LockAssumption ==
  Recovery \notin Tools /\ Free \notin Procs \X (Tools \cup {Recovery})

VARIABLES
  disk,     \* the state file
  mem,      \* the lock holder's copy of it; the same as disk when nobody holds it
  lock,     \* who holds the exclusive state lock
  host,     \* package sources: absent, found on the host, or added by depengine
  target,   \* installed tools: absent, found, installed by depengine, or broken
  phase,    \* what each process is doing: start, recover or run
  pc,       \* next step of each attempt
  missing,  \* the declared sources each attempt saw missing, in order
  helpers,  \* the prerequisites each attempt had to have installed
  tx,       \* the attempt's own journal: none, open, or bound to its commit
  result,   \* what the attempt reports
  faults    \* failures so far

vars == <<disk, mem, lock, host, target, phase, pc, missing, helpers, tx, result, faults>>

local == <<phase, pc, missing, helpers, tx, result>>

EmptyState == [journals |-> [t \in Tools |-> NoJournal], plans |-> [t \in Tools |-> NoPlan],
               owned |-> NoneOwned, tools |-> {}]

Init ==
  /\ disk = EmptyState
  /\ mem = EmptyState
  /\ lock = Free
  /\ host \in [Sources -> {"absent", "found"}]
  /\ target \in [Tools -> {"absent", "found", "broken"}]
  /\ phase = [p \in Procs |-> "start"]
  /\ pc = [p \in Procs |-> [t \in Tools |-> "idle"]]
  /\ missing = [p \in Procs |-> [t \in Tools |-> <<>>]]
  /\ helpers = [p \in Procs |-> [t \in Tools |-> {}]]
  /\ tx = [p \in Procs |-> [t \in Tools |-> "none"]]
  /\ result = [p \in Procs |-> [t \in Tools |-> "none"]]
  /\ faults = 0

-----------------------------------------------------------------------------
Satisfied(t) == target[t] \in {"found", "installed"}

\* The mutation that adds a source: depengine's own, safe to roll back.
AddSource(s) == [res |-> s, own |-> "depengine", policy |-> "safe"]

ConfiguredSet(t) == {Configured[t][i] : i \in 1..Len(Configured[t])}

\* The subset S of the declared sources of t, in the order they are declared.
InOrder(m, t, S) ==
  /\ {m[i] : i \in 1..Len(m)} = S
  /\ \A i, k \in 1..Len(m) : i < k =>
       \E a, b \in 1..Len(Configured[t]) :
         a < b /\ Configured[t][a] = m[i] /\ Configured[t][b] = m[k]

PreparedBy(m) == [i \in 1..Len(m) |-> AddSource(m[i])]

\* Mutant: every declared source counts as created by the attempt.
CreatedAnyway(p, t) == ConfiguredSet(t) \cup helpers[p][t]

\* What the attempt had to create for itself.
Created(p, t) == {missing[p][t][i] : i \in 1..Len(missing[p][t])} \cup helpers[p][t]

\* ToolResult.ResourceUses: declared sources and required tools, each with
\* whether this attempt had to create it.
UsesOf(p, t) == {[res |-> r, created |-> r \in Created(p, t)] : r \in ConfiguredSet(t) \cup Requires[t]}

\* The plan the attempt keeps in tx.plan; commit uses join it at the boundary.
TxPlan(p, t) == [prepare |-> PreparedBy(missing[p][t]),
                 uses    |-> IF tx[p][t] = "bound" THEN UsesOf(p, t) ELSE {}]

\* The stored transaction is there and is still the one this attempt began.
TxMatches(p, t) == mem.journals[t].status # "none" /\ mem.plans[t] = TxPlan(p, t)

Go(p, t, label) == pc' = [pc EXCEPT ![p][t] = label]

Report(p, t, r) == result' = [result EXCEPT ![p][t] = r]

Fault(kind) == kind \in Faults /\ faults < MaxFaults /\ faults' = faults + 1

NoFault == UNCHANGED faults

(***************************************************************************)
(* LockedState.Save publishes the new state, or fails.  A failed save is   *)
(* undone in the holder's copy, yet may have replaced the file: the error  *)
(* can come from syncing the directory after the rename.                   *)
(***************************************************************************)
Saved(new) == disk' = new /\ mem' = new /\ NoFault

NotSaved(new) ==
  \/ Fault("save") /\ UNCHANGED disk
  \/ Fault("torn") /\ disk' = new

\* The lock is released and the holder's copy dropped.
Release == lock' = Free /\ mem' = disk'

Reset(p) ==
  /\ phase' = [phase EXCEPT ![p] = "start"]
  /\ pc' = [pc EXCEPT ![p] = [t \in Tools |-> "idle"]]
  /\ missing' = [missing EXCEPT ![p] = [t \in Tools |-> <<>>]]
  /\ helpers' = [helpers EXCEPT ![p] = [t \in Tools |-> {}]]
  /\ tx' = [tx EXCEPT ![p] = [t \in Tools |-> "none"]]
  /\ result' = [result EXCEPT ![p] = [t \in Tools |-> "none"]]

\* The attempt ends with this report, holding no lock.
Finish(p, t, r) ==
  /\ Go(p, t, "done")
  /\ Report(p, t, r)
  /\ UNCHANGED <<phase, missing, helpers, tx>>

\* An error under the lock: close it; in recovery that ends the whole run.
Abort(p, t) ==
  /\ Release
  /\ IF phase[p] = "recover" THEN Reset(p) ELSE Finish(p, t, "failed")

At(p, t, label) == pc[p][t] = label

Continue(p, t, label) == Go(p, t, label) /\ UNCHANGED <<phase, missing, helpers, tx, result>>

SetJournal(t, j) == [mem EXCEPT !.journals[t] = j]

\* Mutant: the plan outlives its journal.
ClosedKeepsPlan(t) == SetJournal(t, NoJournal)

Closed(t) == [mem EXCEPT !.journals[t] = NoJournal, !.plans[t] = NoPlan]

\* Persist the journal of t and go on to label, or fail and abort.
Persist(p, t, j, label) ==
  \/ Saved(SetJournal(t, j)) /\ Continue(p, t, label) /\ UNCHANGED lock
  \/ NotSaved(SetJournal(t, j)) /\ Abort(p, t)

\* Close the attempt's journal, if it has one, leaving it as it stands.
GiveUp(p, t) ==
  /\ UNCHANGED disk
  /\ IF tx[p][t] = "none" THEN Finish(p, t, "failed") /\ UNCHANGED <<lock, mem>>
                          ELSE Abort(p, t)

\* candidateSourcePreparation.rollback: nothing to undo without a journal.
RollBack(p, t) ==
  IF tx[p][t] = "none" THEN GiveUp(p, t)
  ELSE Continue(p, t, "rb_plan") /\ UNCHANGED <<disk, mem, lock>>

-----------------------------------------------------------------------------
(***************************************************************************)
(* Start of a run: recovery of every persisted journal under one lock.     *)
(* The code goes through the keys in sorted order; any order is allowed    *)
(* here, as any naming of the tools is.                                    *)
(***************************************************************************)
StartRun(p) ==
  /\ phase[p] = "start"
  /\ lock = Free
  /\ lock' = <<p, Recovery>>
  /\ phase' = [phase EXCEPT ![p] = "recover"]
  /\ UNCHANGED <<disk, mem, host, target, pc, missing, helpers, tx, result, faults>>

Recovering(p, t, statuses) ==
  /\ phase[p] = "recover"
  /\ \A u \in Tools : pc[p][u] \in {"idle", "done"}
  /\ mem.journals[t].status \in statuses

\* The probe of a source that an in-flight add or removal may have changed.
Present(s) == host[s] # "absent"

InFlightAdd(t) == mem.plans[t].prepare[mem.journals[t].applying].res
InFlightUndo(t) == mem.plans[t].prepare[mem.journals[t].undoing].res

ProbeFails(p, t) == Fault("probe") /\ UNCHANGED disk /\ Abort(p, t)

Refused(p, t) == NoFault /\ UNCHANGED disk /\ Abort(p, t)

RecoverApplying(p, t) ==
  /\ Recovering(p, t, {"applying"})
  /\ LET outcome == IF Present(InFlightAdd(t)) THEN "applied" ELSE "not_applied" IN
       \/ Persist(p, t, ResolveApplying(mem.journals[t], mem.plans[t], outcome), "idle")
       \/ ProbeFails(p, t)
  /\ UNCHANGED <<host, target>>

RecoverUndoing(p, t) ==
  /\ Recovering(p, t, {"rolling_back"})
  /\ mem.journals[t].undoing # 0
  /\ LET outcome == IF Present(InFlightUndo(t)) THEN "not_applied" ELSE "applied" IN
       \/ IF CanResolveRollbackApplying(mem.journals[t], mem.plans[t], mem.owned, outcome)
          THEN Persist(p, t, ResolveRollbackApplying(mem.journals[t], outcome), "idle")
          ELSE Refused(p, t)
       \/ ProbeFails(p, t)
  /\ UNCHANGED <<host, target>>

\* What recovery decides on a journal without anything in flight.
Decision(t) ==
  RecoveryFor(mem.journals[t], mem.plans[t], mem.owned, Satisfied(t))

\* A journal that never reached its commit is rolled back, or rolled back on.
RecoverRollback(p, t) ==
  /\ Recovering(p, t, {"pending", "preparing", "ready", "rolling_back"})
  /\ mem.journals[t].undoing = 0
  /\ IF Decision(t) = "error" THEN Refused(p, t)
     ELSE /\ Continue(p, t, IF Decision(t) = "resume" THEN "rb_next" ELSE "rb_plan")
          /\ UNCHANGED <<disk, mem, lock, faults>>
  /\ UNCHANGED <<host, target>>

\* What one save makes durable when the candidate of t is committed.
Committed(t) ==
  LET claimed == ClaimResourceUses(FinalizeCommit(mem.plans[t], mem.owned, t), t, mem.plans[t].uses)
      tracked == IF t \in Roots THEN {} ELSE {[res |-> t, created |-> TRUE]}
  IN  [Closed(t) EXCEPT !.owned = TrackResourceUses(claimed, tracked), !.tools = @ \cup {t}]

CanCommit(t) == CanFinalizeCommit(mem.journals[t], mem.plans[t], mem.owned)

\* Mutant: the target is not observed before its commit is completed.
RecoverCommitUnseen(p, t) ==
  /\ Recovering(p, t, {"committing"})
  /\ CanCommit(t)
  /\ Saved(Committed(t))
  /\ Go(p, t, "done") /\ Report(p, t, "recovered")
  /\ UNCHANGED <<lock, host, target, phase, missing, helpers, tx>>

\* Only a target observed as satisfied completes an interrupted commit.
RecoverCommit(p, t) ==
  /\ Recovering(p, t, {"committing"})
  /\ \/ /\ Decision(t) = "finalize" /\ CanCommit(t)
        /\ \/ /\ Saved(Committed(t))
              /\ Go(p, t, "done") /\ Report(p, t, "recovered")
              /\ UNCHANGED <<lock, phase, missing, helpers, tx>>
           \/ NotSaved(Committed(t)) /\ Abort(p, t)
     \/ ~(Decision(t) = "finalize" /\ CanCommit(t)) /\ Refused(p, t)
     \/ ProbeFails(p, t)
  /\ UNCHANGED <<host, target>>

RecoverDone(p) ==
  /\ phase[p] = "recover"
  /\ \A t \in Tools : pc[p][t] \in {"idle", "done"} /\ mem.journals[t].status = "none"
  /\ UNCHANGED disk /\ Release
  /\ phase' = [phase EXCEPT ![p] = "run"]
  /\ UNCHANGED <<host, target, pc, missing, helpers, tx, result, faults>>

-----------------------------------------------------------------------------
(***************************************************************************)
(* One attempt: probe and prepare the missing sources.                     *)
(***************************************************************************)
Succeeded(p, t) == At(p, t, "done") /\ result[p][t] \in {"already", "installed", "recovered"}

\* An owner waiting for its prerequisites runs those nobody ran yet.
Wanted(p, t) ==
  \/ t \in Roots
  \/ \E o \in Tools : /\ At(p, o, "deps") /\ t \in Requires[o]
                      /\ \A d \in Requires[o] : At(p, d, "idle") \/ Succeeded(p, d)

StartAttempt(p, t) ==
  /\ phase[p] = "run"
  /\ At(p, t, "idle")
  /\ Wanted(p, t)
  /\ \/ NoFault /\ Continue(p, t, "probe")
     \/ Fault("cancel") /\ Finish(p, t, "failed")
  /\ UNCHANGED <<disk, mem, lock, host, target>>

\* Sources are observed, and the plan drawn up, before the lock is taken.
ProbeSources(p, t) ==
  /\ At(p, t, "probe")
  /\ \/ LET absent == {s \in ConfiguredSet(t) : ~Present(s)} IN
        /\ NoFault
        /\ \E m \in [1..Cardinality(absent) -> absent] :
             InOrder(m, t, absent) /\ missing' = [missing EXCEPT ![p][t] = m]
        /\ Go(p, t, IF absent = {} /\ t \in Roots THEN "gate" ELSE "begin")
        /\ UNCHANGED <<phase, helpers, tx, result>>
     \/ Fault("gate") /\ Finish(p, t, "failed")
  /\ UNCHANGED <<disk, mem, lock, host, target>>

\* The lock is taken, a fresh journal persisted, and the lock kept.  An owner
\* of prerequisites with nothing to prepare begins one after they have run.
OpenJournal(p, t) ==
  /\ At(p, t, "begin")
  /\ \/ /\ lock = Free
        /\ LET new  == [mem EXCEPT !.journals[t] = NewJournal, !.plans[t] = TxPlan(p, t)]
               next == IF t \in Roots /\ TxPlan(p, t).prepare = <<>> THEN "commit"
                       ELSE IF TxPlan(p, t).prepare = <<>> THEN "gate" ELSE "apply"
           IN  \/ /\ mem.journals[t].status = "none"
                  /\ Saved(new)
                  /\ lock' = <<p, t>>
                  /\ tx' = [tx EXCEPT ![p][t] = "open"]
                  /\ Go(p, t, next)
                  /\ UNCHANGED <<phase, missing, helpers, result>>
               \/ /\ mem.journals[t].status = "none"
                  /\ NotSaved(new)
                  /\ Abort(p, t)
               \/ mem.journals[t].status # "none" /\ Refused(p, t)
     \/ Fault("cancel") /\ Finish(p, t, "failed") /\ UNCHANGED <<disk, mem, lock>>
  /\ UNCHANGED <<host, target>>

PlanApplyNext(p, t) ==
  /\ At(p, t, "apply")
  /\ CanPlanApply(mem.journals[t], mem.plans[t])
  /\ Persist(p, t, PlanApply(mem.journals[t]), "add")
  /\ UNCHANGED <<host, target>>

Added(s) == IF Present(s) THEN host ELSE [host EXCEPT ![s] = "added"]

\* Mutant: one batch adds every missing source under the first journal entry.
AddSourcesAtOnce(p, t) ==
  /\ At(p, t, "add")
  /\ NoFault
  /\ host' = [s \in Sources |->
       IF s \in ConfiguredSet(t) /\ ~Present(s) THEN "added" ELSE host[s]]
  /\ Continue(p, t, "record")
  /\ UNCHANGED <<disk, mem, lock, target>>

\* A failing add may have had its effect, and one that fails to record the
\* revision of the source takes the source away again.
AddSourceToHost(p, t) ==
  /\ At(p, t, "add")
  /\ LET s == InFlightAdd(t) IN
       \/ NoFault /\ host' = Added(s) /\ Continue(p, t, "record")
       \/ /\ Fault("add")
          /\ host' \in {host, Added(s), [host EXCEPT ![s] = "absent"]}
          /\ Continue(p, t, "resolve")
  /\ UNCHANGED <<disk, mem, lock, target>>

ConfirmAdd(p, t) ==
  /\ At(p, t, "record")
  /\ LET j == RecordApplied(mem.journals[t], mem.plans[t]) IN
       Persist(p, t, j, IF j.status = "ready" THEN "recheck" ELSE "apply")
  /\ UNCHANGED <<host, target>>

ResolveFailedAdd(p, t) ==
  /\ At(p, t, "resolve")
  /\ LET outcome == IF Present(InFlightAdd(t)) THEN "applied" ELSE "not_applied" IN
       \/ Persist(p, t, ResolveApplying(mem.journals[t], mem.plans[t], outcome), "rb_plan")
       \/ ProbeFails(p, t)
  /\ UNCHANGED <<host, target>>

\* With its sources in place the candidate may still be unavailable.
RecheckAvailability(p, t) ==
  /\ At(p, t, "recheck")
  /\ \/ NoFault /\ Continue(p, t, "gate")
     \/ Fault("gate") /\ Continue(p, t, "rb_plan")
  /\ UNCHANGED <<disk, mem, lock, host, target>>

-----------------------------------------------------------------------------
(***************************************************************************)
(* Already installed?  Hooks, prerequisites, commit and installation.      *)
(***************************************************************************)

\* A satisfied target ends the attempt and undoes its preparation.  A target
\* that cannot be verified ends it too, and neither rolls back nor closes.
GateAlreadyInstalled(p, t) ==
  /\ At(p, t, "gate")
  /\ \/ /\ Satisfied(t)
        /\ NoFault
        /\ Report(p, t, "already")
        /\ Go(p, t, IF tx[p][t] = "none" THEN "done" ELSE "rb_plan")
        /\ UNCHANGED <<disk, mem, lock, phase, missing, helpers, tx>>
     \/ /\ IF target[t] = "broken" THEN NoFault ELSE Fault("probe")
        /\ Finish(p, t, "failed")
        /\ UNCHANGED <<disk, mem, lock>>
     \/ /\ target[t] = "absent"
        /\ Fault("gate")
        /\ RollBack(p, t)
     \/ /\ target[t] = "absent"     \* tx.suspend gives the lock up
        /\ NoFault
        /\ Continue(p, t, "deps")
        /\ UNCHANGED disk
        /\ IF tx[p][t] = "none" THEN UNCHANGED <<lock, mem>> ELSE Release
  /\ UNCHANGED <<host, target>>

\* The lock file's finalizer closes a lock no live attempt refers to.
FinalizeLeakedLock(p, t) ==
  /\ lock = <<p, t>>
  /\ At(p, t, "done")
  /\ UNCHANGED disk /\ Release
  /\ UNCHANGED <<host, target, faults>> /\ UNCHANGED local

EnsureDependencies(p, t) ==
  /\ At(p, t, "deps")
  /\ \/ /\ \A d \in Requires[t] : Succeeded(p, d)
        /\ NoFault
        /\ helpers' = [helpers EXCEPT ![p][t] =
             {d \in Requires[t] : result[p][d] \in {"installed", "recovered"}}]
        /\ Go(p, t, IF tx[p][t] # "none" THEN "resume"
                    ELSE IF Requires[t] = {} THEN "commit" ELSE "begin")
        /\ UNCHANGED <<phase, missing, tx, result>>
     \/ /\ \/ NoFault /\ \E d \in Requires[t] : At(p, d, "done") /\ ~Succeeded(p, d)
           \/ Fault("cancel")
        /\ IF tx[p][t] = "none" THEN Finish(p, t, "failed") ELSE Continue(p, t, "unwind")
  /\ UNCHANGED <<disk, mem, lock, host, target>>

\* The journal may have been recovered by another process in the meantime.
ResumeTransaction(p, t) ==
  /\ pc[p][t] \in {"resume", "unwind"}
  /\ \/ /\ lock = Free
        /\ NoFault
        /\ lock' = <<p, t>>
        /\ Continue(p, t, IF At(p, t, "resume") THEN "commit" ELSE "rb_plan")
     \/ Fault("cancel") /\ Finish(p, t, "failed") /\ UNCHANGED lock
  /\ UNCHANGED <<disk, mem, host, target>>

BindUses(p, t) == [mem EXCEPT !.journals[t] = PlanCommit(mem.journals[t]),
                              !.plans[t].uses = UsesOf(p, t)]

PlanCandidateCommit(p, t) ==
  /\ At(p, t, "commit")
  /\ \/ Fault("gate") /\ RollBack(p, t)
     \/ /\ tx[p][t] = "none"
        /\ NoFault /\ Continue(p, t, "install")
        /\ UNCHANGED <<disk, mem, lock>>
     \/ /\ tx[p][t] = "open" /\ TxMatches(p, t) /\ CanPlanCommit(mem.journals[t], mem.plans[t])
        /\ \/ /\ Saved(BindUses(p, t))
              /\ tx' = [tx EXCEPT ![p][t] = "bound"]
              /\ Go(p, t, "install")
              /\ UNCHANGED <<lock, phase, missing, helpers, result>>
           \/ /\ NotSaved(BindUses(p, t))
              /\ Continue(p, t, "rb_plan")
              /\ UNCHANGED <<mem, lock>>
     \/ /\ tx[p][t] = "open"
        /\ ~(TxMatches(p, t) /\ CanPlanCommit(mem.journals[t], mem.plans[t]))
        /\ NoFault /\ RollBack(p, t)
  /\ UNCHANGED <<host, target>>

InstallTarget(p, t) ==
  /\ At(p, t, "install")
  /\ \/ NoFault /\ target' = [target EXCEPT ![t] = "installed"] /\ Continue(p, t, "verify")
     \/ /\ Fault("install")
        /\ \E s \in {target[t], "installed", "broken"} : target' = [target EXCEPT ![t] = s]
        /\ \E label \in {"verify", "reconcile"} : Continue(p, t, label)
  /\ UNCHANGED <<disk, mem, lock, host>>

\* Anything but a satisfied target leaves the commit unresolved.
VerifyInstalled(p, t) ==
  /\ At(p, t, "verify")
  /\ \/ /\ Satisfied(t) /\ NoFault
        /\ IF tx[p][t] = "none" THEN \E r \in {"installed", "unfinished"} : Finish(p, t, r)
                                ELSE Continue(p, t, "finalize")
        /\ UNCHANGED <<disk, mem, lock>>
     \/ (IF Satisfied(t) THEN Fault("probe") ELSE NoFault) /\ GiveUp(p, t)
  /\ UNCHANGED <<host, target>>

\* Only an owner without sources of its own asks what a failed install did.
ReconcileFailedInstall(p, t) ==
  /\ At(p, t, "reconcile")
  /\ \/ NoFault /\ GiveUp(p, t)
     \/ /\ tx[p][t] = "bound" /\ t \in Roots
        /\ mem.plans[t].prepare = <<>> /\ mem.plans[t].uses # {}
        /\ \/ /\ Satisfied(t) /\ NoFault
              /\ Continue(p, t, "finalize") /\ UNCHANGED <<disk, mem, lock>>
           \/ /\ target[t] = "absent"
              /\ Persist(p, t, ResolveCommitNotApplied(mem.journals[t]), "rb_plan")
  /\ UNCHANGED <<host, target>>

\* Once installed, a tool whose commit cannot be recorded is "unfinished":
\* reported as failed, yet written to the state when the run ends.
FinalizeCandidateCommit(p, t) ==
  /\ At(p, t, "finalize")
  /\ \/ CanCommit(t) /\ Saved(Committed(t)) /\ \E r \in {"installed", "unfinished"} : Finish(p, t, r)
     \/ CanCommit(t) /\ NotSaved(Committed(t)) /\ Finish(p, t, "unfinished") /\ mem' = disk'
     \/ ~CanCommit(t) /\ NoFault /\ Finish(p, t, "unfinished") /\ UNCHANGED <<disk, mem>>
  /\ lock' = Free
  /\ UNCHANGED <<host, target>>

-----------------------------------------------------------------------------
(***************************************************************************)
(* Rollback, by the attempt itself or by recovery.                         *)
(***************************************************************************)
PlanUndo(p, t) ==
  /\ At(p, t, "rb_plan")
  /\ IF /\ phase[p] = "recover" \/ TxMatches(p, t)
        /\ CanPlanRollback(mem.journals[t], mem.plans[t], mem.owned)
     THEN Persist(p, t, PlanRollback(mem.journals[t]), "rb_next")
     ELSE Refused(p, t)
  /\ UNCHANGED <<host, target>>

PlanUndoNext(p, t) ==
  /\ At(p, t, "rb_next")
  /\ CanPlanRollbackApply(mem.journals[t], mem.plans[t], mem.owned)
  /\ Persist(p, t, PlanRollbackApply(mem.journals[t], mem.plans[t], mem.owned), "rb_remove")
  /\ UNCHANGED <<host, target>>

RemoveSource(p, t) ==
  /\ At(p, t, "rb_remove")
  /\ LET gone == [host EXCEPT ![InFlightUndo(t)] = "absent"] IN
       \/ NoFault /\ host' = gone /\ Continue(p, t, "rb_record")
       \/ Fault("remove") /\ host' \in {host, gone} /\ Continue(p, t, "rb_resolve")
  /\ UNCHANGED <<disk, mem, lock, target>>

ConfirmUndo(p, t) ==
  /\ At(p, t, "rb_record")
  /\ IF CanRecordRollbackApplied(mem.journals[t], mem.plans[t], mem.owned)
     THEN Persist(p, t, RecordRollbackApplied(mem.journals[t]), "rb_next")
     ELSE Refused(p, t)
  /\ UNCHANGED <<host, target>>

\* A removal that failed is retried by a later run, not by this one.
ResolveFailedUndo(p, t) ==
  /\ At(p, t, "rb_resolve")
  /\ LET j       == mem.journals[t]
         outcome == IF Present(InFlightUndo(t)) THEN "not_applied" ELSE "applied"
         new     == SetJournal(t, ResolveRollbackApplying(j, outcome))
     IN IF ~CanResolveRollbackApplying(j, mem.plans[t], mem.owned, outcome) THEN Refused(p, t)
        ELSE \/ Persist(p, t, ResolveRollbackApplying(j, outcome), "rb_next") /\ outcome = "applied"
             \/ disk' = new /\ NoFault /\ Abort(p, t) /\ outcome = "not_applied"
             \/ NotSaved(new) /\ Abort(p, t) /\ outcome = "not_applied"
             \/ ProbeFails(p, t)
  /\ UNCHANGED <<host, target>>

FinishUndo(p, t) ==
  LET new == [Closed(t) EXCEPT !.owned = FinalizeRollback(mem.journals[t], mem.plans[t], mem.owned)] IN
  /\ At(p, t, "rb_next")
  /\ ~CanPlanRollbackApply(mem.journals[t], mem.plans[t], mem.owned)
  /\ IF CanFinalizeRollback(mem.journals[t], mem.plans[t], mem.owned)
     THEN \/ /\ Saved(new)
             /\ IF phase[p] = "recover" THEN Continue(p, t, "idle") /\ UNCHANGED lock
                ELSE Finish(p, t, IF result[p][t] = "already" THEN "already" ELSE "failed") /\ lock' = Free
          \/ NotSaved(new) /\ Abort(p, t)
     ELSE Refused(p, t)
  /\ UNCHANGED <<host, target>>

-----------------------------------------------------------------------------
(***************************************************************************)
(* End of a run, crashes and the administrator.                            *)
(***************************************************************************)

Reported(p) == {t \in Tools : result[p][t] \in {"already", "installed", "unfinished", "recovered"}}

\* Attempts that installed claim what they used; recovered ones did before.
Claimants(p, r) == {t \in Tools : /\ result[p][t] \in {"installed", "unfinished"}
                                  /\ r \in ConfiguredSet(t) \cup Requires[t]}

WrittenState(p) ==
  [disk EXCEPT
     !.tools = @ \cup Reported(p),
     !.owned = [r \in Resources |->
        IF Claimants(p, r) = {} THEN disk.owned[r]
        ELSE [TrackOne(disk.owned[r], \E t \in Claimants(p, r) : r \in Created(p, t))
                EXCEPT !.deps = @ \cup Claimants(p, r)]]]

WriteState(p) ==
  /\ phase[p] = "run"
  /\ \A t \in Tools : At(p, t, "done") \/ (At(p, t, "idle") /\ t \notin Roots)
  /\ lock = Free
  /\ \/ disk' = WrittenState(p) /\ NoFault
     \/ NotSaved(WrittenState(p))
  /\ mem' = disk'
  /\ Reset(p)
  /\ UNCHANGED <<lock, host, target>>

Crash(p) ==
  /\ phase[p] # "start"
  /\ Fault("crash")
  /\ UNCHANGED disk
  /\ IF lock \in {p} \X (Tools \cup {Recovery}) THEN Release ELSE UNCHANGED <<lock, mem>>
  /\ Reset(p)
  /\ UNCHANGED <<host, target>>

\* Somebody other than depengine takes a source off the host.
AdminRemovesSource(s) ==
  /\ Present(s)
  /\ Fault("admin")
  /\ host' = [host EXCEPT ![s] = "absent"]
  /\ UNCHANGED <<disk, mem, lock, target>> /\ UNCHANGED local

Recover(p) ==
  \/ StartRun(p) \/ RecoverDone(p)
  \/ \E t \in Tools : \/ RecoverApplying(p, t) \/ RecoverUndoing(p, t)
                      \/ RecoverRollback(p, t) \/ RecoverCommit(p, t)

Prepare(p, t) ==
  \/ StartAttempt(p, t) \/ ProbeSources(p, t) \/ OpenJournal(p, t)
  \/ PlanApplyNext(p, t) \/ AddSourceToHost(p, t) \/ ConfirmAdd(p, t)
  \/ ResolveFailedAdd(p, t) \/ RecheckAvailability(p, t)

Install(p, t) ==
  \/ GateAlreadyInstalled(p, t) \/ EnsureDependencies(p, t) \/ ResumeTransaction(p, t)
  \/ PlanCandidateCommit(p, t) \/ InstallTarget(p, t) \/ VerifyInstalled(p, t)
  \/ ReconcileFailedInstall(p, t) \/ FinalizeCandidateCommit(p, t)

Undo(p, t) ==
  \/ PlanUndo(p, t) \/ PlanUndoNext(p, t) \/ RemoveSource(p, t)
  \/ ConfirmUndo(p, t) \/ ResolveFailedUndo(p, t) \/ FinishUndo(p, t)

Next ==
  \/ \E p \in Procs : Recover(p) \/ WriteState(p) \/ Crash(p)
  \/ \E p \in Procs, t \in Tools : \/ Prepare(p, t) \/ Install(p, t) \/ Undo(p, t)
                                   \/ FinalizeLeakedLock(p, t)
  \/ \E s \in Sources : AdminRemovesSource(s)

Spec == Init /\ [][Next]_vars

(***************************************************************************)
(* Fairness: every attempt and every run takes its next step if it can;    *)
(* the waits of the code all end on their own (the lock is polled, timeouts*)
(* bound the subprocesses) and the user runs depengine again.  Nothing     *)
(* forces a failure, a crash or the administrator.                         *)
(***************************************************************************)
Fairness ==
  \A p \in Procs :
    /\ WF_vars(Recover(p))
    /\ WF_vars(WriteState(p))
    /\ \A t \in Tools : WF_vars(Prepare(p, t) \/ Install(p, t) \/ Undo(p, t) \/ FinalizeLeakedLock(p, t))

FairSpec == Spec /\ Fairness

-----------------------------------------------------------------------------
(***************************************************************************)
(* Safety.                                                                 *)
(***************************************************************************)

\* Position i of the journal of t may stand for a mutation that took effect.
Covers(t, i) ==
  LET j == disk.journals[t] IN (i \in 1..j.applied /\ i \notin j.undone) \/ (i # 0 /\ i = j.applying)

SourcesRemembered ==
  \A s \in Sources :
    host[s] = "added" =>
      \/ disk.owned[s].own = "depengine"
      \/ \E t \in Tools : \E i \in 1..Len(disk.plans[t].prepare) :
            disk.plans[t].prepare[i].res = s /\ Covers(t, i)

PrerequisitesRemembered ==
  \A t \in Tools \ Roots :
    target[t] = "installed" =>
      \/ disk.journals[t].status = "committing"
      \/ t \in disk.tools /\ disk.owned[t].own = "depengine"

\* Nothing depengine put on the host is ever forgotten, at any moment, a crash
\* included: a source is owned in the state file or covered by an open journal,
\* a prerequisite has a state entry and a record, or its commit is still open.
NothingForgotten == SourcesRemembered /\ PrerequisitesRemembered

\* Cleanup needs ownership evidence: a source that was on the host before
\* depengine never becomes depengine's own, so no remove may take it away.
FoundStaysForeign ==
  \A s \in Sources : host[s] = "found" => disk.owned[s].own # "depengine"

\* Write-ahead: a source changes only while the journal that says so is on
\* disk, and a target installed under a journal only after its commit boundary.
WriteAhead ==
  [][/\ \A s \in Sources : host'[s] # host[s] =>
          \E t \in Tools : LET j == disk.journals[t] IN
            \E i \in {j.applying, j.undoing} \ {0} : disk.plans[t].prepare[i].res = s
     /\ \A t \in Tools : target'[t] # target[t] /\ (t \notin Roots \/ Requires[t] # {})
          => disk.journals[t].status = "committing"]_vars

\* A commit boundary that reached the disk is given up only when the target is
\* known to be absent, or by the attempt whose own boundary save failed and that
\* therefore never installed; it is closed only together with the tool's record.
CommitOutcomeKnown ==
  [][\A t \in Tools :
       disk.journals[t].status = "committing" /\ disk'.journals[t].status # "committing" =>
         IF disk'.journals[t].status = "none" THEN Satisfied(t) /\ t \in disk'.tools
         ELSE \/ target[t] = "absent"
              \/ \E p \in Procs : At(p, t, "rb_plan") /\ tx[p][t] = "open"]_vars

\* A rollback takes a source off the host only when no tool claims it.
RollbackSparesClaimed ==
  [][\A s \in Sources : /\ host[s] # "absent" /\ host'[s] = "absent"
                        /\ \E p \in Procs, t \in Tools : At(p, t, "rb_remove") /\ ~At(p, t, "rb_remove")'
       => disk.owned[s].deps = {}]_vars

-----------------------------------------------------------------------------
(***************************************************************************)
(* Liveness, for one process: the lock is polled, not queued, so a process *)
(* competing with others for it has no promise of ever getting it.         *)
(***************************************************************************)

\* No waiting cycle: a run, recovering or attempting, always comes to its end,
\* its owners waiting for prerequisites that wait for the state lock included.
RunsEnd == \A p \in Procs : phase[p] # "start" ~> phase[p] = "start"

\* Recovery makes progress: a journal that is not at its commit boundary is
\* closed in the end, or recovery stops at another one's unresolved commit.
JournalsClose ==
  \A t \in Tools :
    disk.journals[t].status \in OpenStatus \cup {"rolling_back"} ~>
      \/ disk.journals[t].status \in {"none", "committing"}
      \/ \E u \in Tools \ {t} : disk.journals[u].status = "committing" /\ ~Satisfied(u)

=============================================================================
