----------------------------- MODULE Replacement -----------------------------
(***************************************************************************)
(* Upgrading a tracked tool behind a write-ahead log: internal/plan,       *)
(* internal/state and internal/exec/replacement.go, the recovery in        *)
(* exec/run.go and the discovery in app/upgrade.go.  The log has to say,   *)
(* after a crash at any point, whether the host has the old installation   *)
(* or the new one.                                                         *)
(*                                                                         *)
(* One tool, several depengine processes.  The preparation journal of the  *)
(* candidate, PreparationExecutor's subject, is reduced to its status: the *)
(* sources are added and removed as one step.  A package manager that      *)
(* reports success has done what it was asked to.                          *)
(***************************************************************************)
EXTENDS Naturals

CONSTANTS
  Procs,        \* depengine processes
  Versions,     \* versions of the tool, or the packages that carry them
  PackageOf,    \* version -> the package it is installed as
  UsesOf,       \* version -> the resources its candidate uses
  Preparation,  \* what the candidate journals: none, empty or sources
  Hooks,        \* whether an after-upgrade hook is declared
  Faults,       \* the kinds of failure that may happen
  MaxFaults,    \* bound: how many failures happen in one behaviour
  Nobody,       \* the lock when it is free
  NoVersion     \* no version

Packages  == {PackageOf[v] : v \in Versions}
Resources == UNION {UsesOf[v] : v \in Versions}

\* What the state file records of the tool.
ToolRecords == [version : Versions, post : BOOLEAN]

ASSUME VersionsAssumption ==
  /\ NoVersion \notin Versions \cup ToolRecords
  /\ {"absent", "broken"} \cap Versions = {}
  /\ DOMAIN PackageOf = Versions
  /\ DOMAIN UsesOf = Versions
ASSUME NobodyAssumption == Nobody \notin Procs
ASSUME PreparationAssumption == Preparation \in {"none", "empty", "sources"}
ASSUME HooksAssumption == Hooks \in BOOLEAN
ASSUME FaultsAssumption == MaxFaults \in Nat

VARIABLES
  disk,       \* the state file: tool record, claims, replacement log, preparation
  host,       \* what is installed as each package
  hooked,     \* what the hook of the latest replacement has done: no, ok, failed, again
  lock,       \* who holds the state lock
  pc,         \* next step of each process
  mode,       \* whether the step is part of recovery or of the attempt
  seen,       \* the tool record when the upgrade was discovered
  target,     \* the version to upgrade to; NoVersion in a run that only recovers
  recovered,  \* the version a recovered replacement reports
  done,       \* what the attempt reports: committed, post (hook ran), ok
  faults      \* failures so far

vars == <<disk, host, hooked, lock, pc, mode, seen, target, recovered, done, faults>>

\* A replacement transaction: phase, persisted old and desired version, and
\* whether it names a preparation.  Its phases are removal_planned, removing,
\* removed, installing, installed and post_hook_running.
NoLog == [phase |-> "none", from |-> NoVersion, to |-> NoVersion, keyed |-> FALSE]

\* A tool depengine installed and tracks.  Another package, if there is one,
\* may carry a version depengine does not track.
Init ==
  /\ \E v \in Versions, p \in BOOLEAN :
       disk = [tool |-> [version |-> v, post |-> p], claims |-> UsesOf[v], log |-> NoLog,
               prep |-> "none"]
  /\ host \in [Packages -> Versions \cup {"absent"}]
  /\ \A k \in Packages : host[k] # "absent" => PackageOf[host[k]] = k
  /\ host[PackageOf[disk.tool.version]] = disk.tool.version
  /\ hooked = "no"
  /\ lock = Nobody
  /\ pc = [p \in Procs |-> "idle"]
  /\ mode = [p \in Procs |-> "recover"]
  /\ seen = [p \in Procs |-> NoVersion]
  /\ target = [p \in Procs |-> NoVersion]
  /\ recovered = [p \in Procs |-> NoVersion]
  /\ done = [p \in Procs |-> {}]
  /\ faults = 0

-----------------------------------------------------------------------------
(***************************************************************************)
(* The pure part.                                                          *)
(***************************************************************************)

\* Observation of the host h reconciled with the identity of version v.
VerdictOn(h, v) ==
  LET found == h[PackageOf[v]] IN
  CASE found = v        -> "satisfied"
    [] found = "absent" -> "absent"
    [] found = "broken" -> "broken"
    [] OTHER            -> "drifted"

Verdict(v) == VerdictOn(host, v)

CanPlanRemove(phase)  == phase \in {"removal_planned", "removing"}
CanPlanInstall(phase) == phase \in {"removed", "installing"}

\* Mutant: the outcome of an interrupted hook is taken for granted.
HookReplayed(phase, old, desired) ==
  CASE phase = "removal_planned" /\ old = "satisfied" /\ desired = "absent" -> "retry_removal"
    [] phase = "removing" /\ old = "satisfied" /\ desired = "absent" -> "retry_removal"
    [] phase = "removing" /\ old = "absent" /\ desired = "absent" -> "record_removed"
    [] phase \in {"removed", "installing"} /\ desired = "satisfied" -> "record_installed"
    [] phase \in {"removed", "installing"} /\ old = "absent" /\ desired = "absent" -> "start_install"
    [] phase \in {"installed", "post_hook_running"} /\ desired = "satisfied" -> "continue_installed"
    [] OTHER -> "blocked"

\* ReplacementRecoveryFor: the next safe step from the phase on disk and the
\* verdicts on the old and the desired version.
ReplacementRecoveryFor(phase, old, desired) ==
  LET replaced == desired = "satisfied" /\ old \in {"absent", "drifted"}
      gone     == old = "absent" /\ desired = "absent"
  IN  CASE CanPlanRemove(phase) /\ old = "satisfied" /\ desired = "absent" -> "retry_removal"
        [] phase = "removing" /\ gone          -> "record_removed"
        [] CanPlanInstall(phase) /\ replaced   -> "record_installed"
        [] CanPlanInstall(phase) /\ gone       -> "start_install"
        [] phase = "installed" /\ replaced     -> "continue_installed"
        [] OTHER                               -> "blocked"

-----------------------------------------------------------------------------
Fault(kind) == kind \in Faults /\ faults < MaxFaults /\ faults' = faults + 1

NoFault == UNCHANGED faults

Go(p, label) == pc' = [pc EXCEPT ![p] = label]

At(p, label) == pc[p] = label

report == <<recovered, done>>
local  == <<mode, seen, target, recovered, done>>

\* A record written for an installation carries a new InstalledAt: it differs
\* from every record seen before.
Unseen == [p \in Procs |-> NoVersion]

ResetSeeing(p, view) ==
  /\ Go(p, "idle")
  /\ mode' = [mode EXCEPT ![p] = "recover"]
  /\ seen' = [view EXCEPT ![p] = NoVersion]
  /\ target' = [target EXCEPT ![p] = NoVersion]
  /\ recovered' = [recovered EXCEPT ![p] = NoVersion]
  /\ done' = [done EXCEPT ![p] = {}]

Reset(p) == ResetSeeing(p, seen)

Unlocked(p) == lock' = IF lock = p THEN Nobody ELSE lock

\* An error.  In recovery it ends the run and closes the lock.  In the
\* attempt, failReplacement reports it: replaceCandidate closes the lock it
\* took itself, and leaves one that came with the preparation.
Fail(p) ==
  IF mode[p] = "recover" THEN Reset(p) /\ Unlocked(p)
  ELSE /\ Go(p, "report")
       /\ IF Preparation = "none" THEN Unlocked(p) ELSE UNCHANGED lock
       /\ UNCHANGED local

\* One save of the state file and the step after it.  A save that fails is
\* undone in memory, yet may have replaced the file.
Persist(p, new, label) ==
  \/ disk' = new /\ NoFault /\ Go(p, label) /\ UNCHANGED <<lock, local>>
  \/ Fault("save") /\ UNCHANGED disk /\ Fail(p)
  \/ Fault("torn") /\ disk' = new /\ Fail(p)

Advanced(phase) == [disk EXCEPT !.log.phase = phase]

-----------------------------------------------------------------------------
(***************************************************************************)
(* Discovery and recovery at the start of a run.                           *)
(***************************************************************************)

\* runUpgrade compares host and lock file under the state lock and gives it
\* up; an install run needs no target to recover.
Discover(p) ==
  /\ At(p, "idle")
  /\ lock = Nobody
  /\ \/ \E v \in Versions :
          /\ Verdict(v) = "drifted"
          /\ target' = [target EXCEPT ![p] = v]
          /\ seen' = [seen EXCEPT ![p] = disk.tool]
     \/ UNCHANGED <<target, seen>>
  /\ Go(p, "start")
  /\ UNCHANGED <<disk, host, hooked, lock, mode, recovered, done, faults>>

\* recoverReplacementTransactions takes the lock; it looks at the log again
\* after every replacement it has closed.
RecoverReplacements(p) ==
  /\ At(p, "start")
  /\ lock = Nobody
  /\ lock' = p
  /\ Go(p, "recover")
  /\ UNCHANGED <<disk, host, hooked, local, faults>>

RecoveryAction ==
  ReplacementRecoveryFor(disk.log.phase, Verdict(disk.log.from), Verdict(disk.log.to))

Open == disk.log.phase # "none"

Recovering(p) == At(p, "recover") /\ Open

RetryRemoval(p) ==
  /\ Recovering(p)
  /\ RecoveryAction = "retry_removal"
  /\ Persist(p, Advanced("removing"), "remove")
  /\ UNCHANGED <<host, hooked>>

AfterInstalled == IF Hooks THEN "hook_boundary" ELSE "complete"

Resumed ==
  LET removed == disk.log.phase = "removed" IN
  CASE RecoveryAction = "record_removed"     -> "record"
    [] RecoveryAction = "start_install"      -> IF removed THEN "commit" ELSE "install"
    [] RecoveryAction = "record_installed"   -> IF removed THEN "commit_found" ELSE "finish"
    [] RecoveryAction = "continue_installed" -> AfterInstalled

\* The other decisions take up the steps of replaceCandidate where they stopped.
Resume(p) ==
  /\ Recovering(p)
  /\ RecoveryAction \notin {"retry_removal", "blocked"}
  /\ Go(p, Resumed)
  /\ UNCHANGED <<disk, host, hooked, lock, local, faults>>

\* A verdict that authorizes nothing, or an observation that failed, which
\* counts as broken, ends the run.
RecoveryBlocked(p) ==
  /\ Recovering(p)
  /\ \/ RecoveryAction = "blocked" /\ NoFault
     \/ Fault("probe")
  /\ Fail(p)
  /\ UNCHANGED <<disk, host, hooked>>

\* Mutant: recovery passes over an open replacement.
RecoverySkipped(p) ==
  /\ At(p, "recover")
  /\ lock' = Nobody
  /\ Go(p, "unprepare")
  /\ UNCHANGED <<disk, host, hooked, local, faults>>

RecoveryDone(p) ==
  /\ At(p, "recover")
  /\ ~Open
  /\ lock' = Nobody
  /\ Go(p, "unprepare")
  /\ UNCHANGED <<disk, host, hooked, local, faults>>

\* The installed version as the run reports it: probed, or else the intended one.
Reported(v) == IF host[PackageOf[v]] \in Versions THEN host[PackageOf[v]] ELSE v

\* recoverPreparationTransactions, under a lock of its own: a preparation
\* that is not committing is rolled back, one that is belongs to a target
\* that has to be there.
RecoverPreparations(p) ==
  /\ At(p, "unprepare")
  /\ lock = Nobody
  /\ \/ /\ disk.prep # "committing"
        /\ disk' = [disk EXCEPT !.prep = "none"]
        /\ NoFault
        /\ IF target[p] = NoVersion THEN Go(p, "report") /\ UNCHANGED mode
           ELSE Go(p, "prepare") /\ mode' = [mode EXCEPT ![p] = "attempt"]
        /\ UNCHANGED <<seen, target, report>>
     \/ /\ disk.prep = "committing"
        /\ Verdict(disk.log.to) # "satisfied"
        /\ NoFault
        /\ UNCHANGED disk
        /\ Reset(p)
     \/ /\ disk.prep = "committing"
        /\ Verdict(disk.log.to) = "satisfied"
        /\ NoFault
        /\ disk' = [disk EXCEPT !.prep = "none", !.claims = @ \cup UsesOf[disk.log.to],
                      !.tool = [version |-> disk.log.to, post |-> FALSE]]
        /\ recovered' = [recovered EXCEPT ![p] = disk.log.to]
        /\ seen' = Unseen
        /\ UNCHANGED <<pc, mode, target, done>>
     \/ /\ Fault("probe")
        /\ disk.prep # "none"
        /\ UNCHANGED disk
        /\ Reset(p)
  /\ UNCHANGED <<host, hooked, lock>>

-----------------------------------------------------------------------------
(***************************************************************************)
(* The attempt up to the replacement.                                      *)
(***************************************************************************)

\* Missing sources are prepared before the target is looked at, and the lock
\* is kept from then on.
PrepareSources(p) ==
  /\ At(p, "prepare")
  /\ IF Preparation # "sources"
     THEN Go(p, "gate") /\ UNCHANGED <<disk, lock>>
     ELSE /\ lock = Nobody
          /\ IF disk.prep = "none"
             THEN /\ disk' = [disk EXCEPT !.prep = "ready"]
                  /\ lock' = p
                  /\ Go(p, "gate")
             ELSE Go(p, "report") /\ UNCHANGED <<disk, lock>>
  /\ UNCHANGED <<host, hooked, local, faults>>

\* The lock is given up before the prerequisites run.
Gate(p) ==
  /\ At(p, "gate")
  /\ \/ /\ Verdict(target[p]) \in {"satisfied", "drifted"}
        /\ NoFault
        /\ Go(p, "deps")
        /\ Unlocked(p)
        /\ UNCHANGED local
     \/ /\ \/ Verdict(target[p]) \in {"absent", "broken"} /\ NoFault
           \/ Fault("probe")
        /\ Fail(p)
  /\ UNCHANGED <<disk, host, hooked>>

RunPrerequisites(p) ==
  /\ At(p, "deps")
  /\ Go(p, "resume")
  /\ UNCHANGED <<disk, host, hooked, lock, local, faults>>

\* A prerequisite failed: the journal is taken back and rolled back.
PrerequisiteFails(p) ==
  /\ At(p, "deps")
  /\ lock = Nobody
  /\ Fault("gate")
  /\ Go(p, "report")
  /\ disk' = IF Preparation = "sources" /\ disk.prep = "ready"
             THEN [disk EXCEPT !.prep = "none"] ELSE disk
  /\ UNCHANGED <<host, hooked, lock, local>>

\* sourcePreparationTransaction.resume only takes the lock again.  A method
\* with prerequisites and no missing source begins its journal here, and
\* replaceCandidate takes a lock of its own for a candidate without journal.
TakeLock(p) ==
  /\ At(p, "resume")
  /\ lock = Nobody
  /\ IF Preparation = "empty" /\ disk.prep # "none"
     THEN Go(p, "report") /\ UNCHANGED <<disk, lock>>
     ELSE /\ lock' = p
          /\ Go(p, "begin")
          /\ IF Preparation = "empty" THEN disk' = [disk EXCEPT !.prep = "pending"]
                                      ELSE UNCHANGED disk
  /\ UNCHANGED <<host, hooked, local, faults>>

-----------------------------------------------------------------------------
(***************************************************************************)
(* replaceCandidate, and recovery on its way through the same phases.  The *)
(* lock is held throughout.                                                *)
(***************************************************************************)

\* Mutant: the record is not compared with the one the discovery saw.
StaleRecordAccepted(p) == TRUE

\* The record is still the one the discovery saw; every field counts.
RecordUnchanged(p) == disk.tool = seen[p]

BeginReplacement(p) ==
  /\ At(p, "begin")
  /\ LET begun == [disk EXCEPT !.log = [phase |-> "removal_planned", from |-> disk.tool.version,
                                        to |-> target[p], keyed |-> Preparation # "none"]]
     IN  IF RecordUnchanged(p) /\ ~Open
         THEN Persist(p, begun, "boundary") /\ hooked' = IF disk' = disk THEN hooked ELSE "no"
         ELSE Fail(p) /\ UNCHANGED <<disk, hooked, faults>>
  /\ UNCHANGED host

PlanReplacementRemoval(p) ==
  /\ At(p, "boundary")
  /\ CanPlanRemove(disk.log.phase)
  /\ Persist(p, Advanced("removing"), "remove")
  /\ UNCHANGED <<host, hooked>>

\* Mutant: the adapter's error is dropped and the removal recorded.
RemovalErrorIgnored(p) ==
  /\ At(p, "remove")
  /\ LET k == PackageOf[disk.log.from] IN
     \E left \in {host[k], "absent"} :
       /\ host' = [host EXCEPT ![k] = left]
       /\ IF left = "absent" THEN NoFault ELSE Fault("remove")
  /\ Go(p, "record")
  /\ UNCHANGED <<disk, hooked, lock, local>>

\* The adapter removes the tracked package.  Recovery observes both versions
\* afterwards, the attempt neither.
RemoveOld(p) ==
  /\ At(p, "remove")
  /\ LET k == PackageOf[disk.log.from] IN
     \/ /\ NoFault
        /\ host' = [host EXCEPT ![k] = "absent"]
        /\ \/ /\ mode[p] = "attempt" \/ VerdictOn(host', disk.log.to) = "absent"
              /\ Go(p, "record")
              /\ UNCHANGED <<lock, local>>
           \/ /\ mode[p] = "recover" /\ VerdictOn(host', disk.log.to) # "absent"
              /\ Fail(p)
     \/ /\ Fault("remove")
        /\ \E left \in {host[k], "absent", "broken"} : host' = [host EXCEPT ![k] = left]
        /\ Fail(p)
  /\ UNCHANGED <<disk, hooked>>

RecordReplacementRemoved(p) ==
  /\ At(p, "record")
  /\ Persist(p, Advanced("removed"), "commit")
  /\ UNCHANGED <<host, hooked>>

\* The attempt commits a preparation whose plan has nothing left to apply.
ReadyForCommit == disk.prep = (IF Preparation = "sources" THEN "ready" ELSE "pending")

\* Recovery wants the journal committing already, or ready.
RecoveryCommits == disk.prep \in {"ready", "committing"}

MayCommit(p) ==
  \/ ~disk.log.keyed
  \/ IF mode[p] = "attempt" THEN ReadyForCommit ELSE RecoveryCommits

\* planCommit and planReplacementPreparationCommit.
PlanPreparationCommit(p, label) ==
  IF disk.log.keyed /\ MayCommit(p)
  THEN Persist(p, [disk EXCEPT !.prep = "committing"], label)
  ELSE /\ IF MayCommit(p) THEN Go(p, label) /\ UNCHANGED <<lock, local>> ELSE Fail(p)
       /\ UNCHANGED <<disk, faults>>

PlanCommit(p) ==
  /\ \/ At(p, "commit") /\ PlanPreparationCommit(p, "install_boundary")
     \/ At(p, "commit_found") /\ PlanPreparationCommit(p, "install_boundary_found")
  /\ UNCHANGED <<host, hooked>>

PlanReplacementInstall(p) ==
  /\ \/ At(p, "install_boundary") /\ Persist(p, Advanced("installing"), "install")
     \/ At(p, "install_boundary_found") /\ Persist(p, Advanced("installing"), "finish")
  /\ UNCHANGED <<host, hooked>>

\* The exact target is installed and verified; recovery also wants the old
\* version gone.
InstallResolved(p) ==
  /\ At(p, "install")
  /\ LET k == PackageOf[disk.log.to] IN
     \/ /\ host' = [host EXCEPT ![k] = disk.log.to]
        /\ LET verified == mode[p] = "attempt" \/ VerdictOn(host', disk.log.from) \in {"absent", "drifted"}
           IN  \/ verified /\ NoFault /\ Go(p, "finish") /\ UNCHANGED <<lock, local>>
               \/ ~verified /\ NoFault /\ Fail(p)
               \/ Fault("probe") /\ Fail(p)
     \/ /\ Fault("install")
        /\ \E left \in {host[k], "broken", disk.log.to} : host' = [host EXCEPT ![k] = left]
        /\ Fail(p)
  /\ UNCHANGED <<disk, hooked>>

\* What the commit saves at once: record, claims, phase and preparation.
Installed ==
  [disk EXCEPT !.tool = [version |-> disk.log.to, post |-> FALSE],
               !.claims = UsesOf[disk.log.to], !.log.phase = "installed", !.prep = "none"]

\* The verified install is what the attempt reports, even if it cannot be recorded.
CommitReplacementInstall(p) ==
  /\ At(p, "finish")
  /\ LET refused == disk.log.keyed /\ disk.prep # "committing"
         recovering == mode[p] = "recover"
         committed == IF recovering THEN done ELSE [done EXCEPT ![p] = @ \cup {"committed"}]
         Viewed == IF disk' = disk THEN seen ELSE Unseen
     IN  \/ /\ ~refused /\ NoFault
            /\ disk' = Installed
            /\ Go(p, AfterInstalled)
            /\ done' = committed
            /\ seen' = Unseen
            /\ UNCHANGED <<lock, mode, target, recovered>>
         \/ /\ \/ refused /\ NoFault /\ UNCHANGED disk
               \/ ~refused /\ Fault("save") /\ UNCHANGED disk
               \/ ~refused /\ Fault("torn") /\ disk' = Installed
            /\ IF recovering THEN ResetSeeing(p, Viewed) /\ Unlocked(p)
               ELSE /\ Go(p, "report")
                    /\ done' = committed
                    /\ seen' = Viewed
                    /\ IF Preparation = "none" THEN Unlocked(p) ELSE UNCHANGED lock
                    /\ UNCHANGED <<mode, target, recovered>>
  /\ UNCHANGED <<host, hooked>>

PlanReplacementPostHook(p) ==
  /\ At(p, "hook_boundary")
  /\ Persist(p, Advanced("post_hook_running"), "hook")
  /\ UNCHANGED <<host, hooked>>

RunHook(p) ==
  /\ At(p, "hook")
  /\ \/ /\ NoFault
        /\ hooked' = IF hooked = "no" THEN "ok" ELSE "again"
        /\ Go(p, "complete")
     \/ /\ Fault("hook")
        /\ hooked' = IF hooked = "no" THEN "failed" ELSE "again"
        /\ Go(p, "complete_failed")
  /\ UNCHANGED <<disk, host, lock, local>>

\* CompleteReplacement closes the log whatever the hook returned.  A failed
\* hook fails the run in recovery, the tool in an attempt.
CompleteReplacement(p) ==
  /\ pc[p] \in {"complete", "complete_failed"}
  /\ LET ran == At(p, "complete") /\ Hooks
         closed == [disk EXCEPT !.log = NoLog, !.tool.post = ran]
         facts == (IF ran THEN {"post"} ELSE {}) \cup done[p]
     IN  IF mode[p] = "recover"
         THEN IF At(p, "complete")
              THEN \/ /\ disk' = closed /\ NoFault
                      /\ recovered' = [recovered EXCEPT ![p] = disk.log.to]
                      /\ Go(p, "recover")
                      /\ UNCHANGED <<lock, mode, seen, target, done>>
                   \/ /\ \/ Fault("save") /\ UNCHANGED disk
                         \/ Fault("torn") /\ disk' = closed
                      /\ Fail(p)
              ELSE /\ \/ disk' = closed /\ NoFault
                      \/ Fault("save") /\ UNCHANGED disk
                   /\ Fail(p)
         ELSE /\ \/ /\ disk' = closed /\ NoFault
                    /\ done' = [done EXCEPT ![p] =
                                  IF At(p, "complete") THEN facts \cup {"ok"} ELSE facts]
                 \/ /\ \/ Fault("save") /\ UNCHANGED disk
                       \/ Fault("torn") /\ disk' = closed
                    /\ done' = [done EXCEPT ![p] = facts]
              /\ Go(p, "report")
              /\ IF Preparation = "none" THEN Unlocked(p) ELSE UNCHANGED lock
              /\ UNCHANGED <<mode, seen, target, recovered>>
  /\ UNCHANGED <<host, hooked>>

-----------------------------------------------------------------------------
(***************************************************************************)
(* The end of a run, and what may end one.                                 *)
(***************************************************************************)

\* toolStateForResult of a recovered replacement: its hook is not in the result.
WithRecovered(p) ==
  IF recovered[p] = NoVersion THEN disk
  ELSE [disk EXCEPT !.tool = [version |-> Reported(recovered[p]), post |-> FALSE]]

\* The attempt's own result follows; a failed one keeps the recorded version
\* when the installed one cannot be told.
WithCommitted(p, current) ==
  IF "committed" \notin done[p] THEN current
  ELSE LET found == host[PackageOf[target[p]]]
           version == IF found \in Versions THEN found
                      ELSE IF "ok" \in done[p] THEN target[p] ELSE current.tool.version
       IN  [current EXCEPT !.tool = [version |-> version, post |-> "post" \in done[p]],
                           !.claims = @ \cup UsesOf[target[p]]]

\* writeState: every committed result of the run, under a fresh lock.
WriteState(p) ==
  /\ At(p, "report")
  /\ lock = Nobody
  /\ \/ /\ disk' = WithCommitted(p, WithRecovered(p)) /\ NoFault
        /\ ResetSeeing(p, IF recovered[p] = NoVersion /\ "committed" \notin done[p] THEN seen
                          ELSE Unseen)
     \/ Fault("save") /\ UNCHANGED disk /\ Reset(p)
  /\ UNCHANGED <<host, hooked, lock>>

\* The finalizer of the lock file closes a lock no live attempt refers to.
FinalizeLeakedLock(p) ==
  /\ At(p, "report")
  /\ lock = p
  /\ lock' = Nobody
  /\ UNCHANGED <<disk, host, hooked, pc, local, faults>>

Crash(p) ==
  /\ ~At(p, "idle")
  /\ Fault("crash")
  /\ Reset(p)
  /\ Unlocked(p)
  /\ UNCHANGED <<disk, host, hooked>>

\* The administrator removes a package or installs another version behind
\* depengine's back, though never the one that is being replaced.
AdminChanges(k) ==
  /\ Fault("admin")
  /\ \E left \in {"absent"} \cup {v \in Versions \ {disk.log.from} : PackageOf[v] = k} :
       host' = [host EXCEPT ![k] = left]
  /\ UNCHANGED <<disk, hooked, lock, pc, local>>

Recover(p) ==
  \/ RecoverReplacements(p) \/ RetryRemoval(p) \/ Resume(p) \/ RecoveryBlocked(p)
  \/ RecoveryDone(p) \/ RecoverPreparations(p)

Attempt(p) ==
  \/ PrepareSources(p) \/ Gate(p) \/ RunPrerequisites(p) \/ PrerequisiteFails(p)
  \/ TakeLock(p) \/ BeginReplacement(p)

Replace(p) ==
  \/ PlanReplacementRemoval(p) \/ RemoveOld(p) \/ RecordReplacementRemoved(p)
  \/ PlanCommit(p) \/ PlanReplacementInstall(p) \/ InstallResolved(p)
  \/ CommitReplacementInstall(p) \/ PlanReplacementPostHook(p) \/ RunHook(p)
  \/ CompleteReplacement(p)

Run(p) == Discover(p) \/ Recover(p) \/ Attempt(p) \/ Replace(p) \/ WriteState(p) \/ FinalizeLeakedLock(p)

Next ==
  \/ \E p \in Procs : Run(p) \/ Crash(p)
  \/ \E k \in Packages : AdminChanges(k)

Spec == Init /\ [][Next]_vars

\* Every run takes its next step and the user runs depengine again; nothing
\* forces a failure, a crash or the administrator.
FairSpec == Spec /\ \A p \in Procs : WF_vars(Run(p))
-----------------------------------------------------------------------------
(***************************************************************************)
(* Safety.                                                                 *)
(***************************************************************************)

\* Of the host: before the removal boundary the old installation, from the
\* verified install on the new one, and without a log the recorded version.
PhaseTellsHost ==
  LET log == disk.log IN
  CASE log.phase = "none" -> Verdict(disk.tool.version) = "satisfied"
    [] log.phase = "removal_planned" -> Verdict(log.from) = "satisfied"
    [] log.phase = "removing" -> Verdict(log.from) \in {"satisfied", "absent", "broken"}
    [] log.phase = "removed" -> Verdict(log.from) = "absent"
    [] log.phase = "installing" -> Verdict(log.from) # "satisfied"
    [] OTHER -> Verdict(log.to) = "satisfied"

\* Of the claims: without a log the tool holds every resource of the recorded
\* version.
PhaseTellsClaims == ~Open => UsesOf[disk.tool.version] \subseteq disk.claims

\* Of the preparation: beyond its commit boundary it always has a replacement
\* in the phases that know what became of the target, which startup recovery
\* closes first.
PhaseTellsPreparation ==
  disk.prep = "committing" => disk.log.keyed /\ CanPlanInstall(disk.log.phase)

\* The phase on disk says what became of the host, the claims and the
\* preparation, whatever crashed and whichever save failed.
\* (Nobody else touches the host; one process at a time upgrades a tool.)
PhaseTells == PhaseTellsHost /\ PhaseTellsClaims /\ PhaseTellsPreparation

\* The after-upgrade hook has arbitrary effects: no crash, failed save or
\* recovery runs it a second time for one replacement.
HookRunsOnce == hooked # "again"

\* What an upgrade replaces is gone when the new installation is recorded,
\* under whichever package name it was installed.  (An upgrade may bring back
\* the recorded version when the host has drifted from it.)
OldVersionGone ==
  disk.log.phase \in {"installed", "post_hook_running"} /\ disk.log.from # disk.log.to
    => Verdict(disk.log.from) # "satisfied"

(***************************************************************************)
(* Liveness.                                                               *)
(***************************************************************************)

\* Recovery gives up: the verdicts authorize nothing, or the preparation
\* cannot be committed.
Stuck ==
  /\ Open
  /\ \/ RecoveryAction = "blocked"
     \/ disk.log.keyed /\ disk.prep \notin {"ready", "committing"}

\* An interrupted upgrade is closed by later runs, or it stops where nothing
\* that was observed says what to do.
ReplacementsEnd == Open ~> (~Open \/ Stuck)

(***************************************************************************)
(* What the code, its documents and its tests say.                         *)
(***************************************************************************)

\* The lock is released when the upgrade has ended.
EndedUpgradesHoldNoLock == \A p \in Procs : At(p, "report") => lock # p

=============================================================================
