--------------------------- MODULE ReplacementProofs ---------------------------
(***************************************************************************)
(* The write-ahead log of an upgrade, for every set of processes and       *)
(* versions and any number of crashes and failures: no hook runs a second  *)
(* time, and the phase on disk says what became of the host.               *)
(***************************************************************************)
EXTENDS Replacement, TLAPS

(***************************************************************************)
(* The discipline: who may be where, whatever the host looks like.         *)
(***************************************************************************)
Phases ==
  {"none", "removal_planned", "removing", "removed", "installing", "installed",
   "post_hook_running"}

\* The steps of an attempt before the replacement begins.
Attempting == {"prepare", "gate", "deps", "resume", "begin"}

\* The steps that a process takes only while it holds the state lock.
Locked ==
  {"recover", "begin", "boundary", "remove", "record", "commit", "commit_found",
   "install_boundary", "install_boundary_found", "install", "finish",
   "hook_boundary", "hook", "complete", "complete_failed"}

Recorded == Versions \cup {NoVersion}

\* An attempt has a target, from its first step to the report of its result.
LocalTypes ==
  /\ DOMAIN pc = Procs /\ mode \in [Procs -> {"recover", "attempt"}]
  /\ seen \in [Procs -> ToolRecords \cup {NoVersion}]
  /\ target \in [Procs -> Recorded] /\ recovered \in [Procs -> Recorded]
  /\ done \in [Procs -> SUBSET {"committed", "post", "ok"}]
  /\ \A p \in Procs :
       /\ pc[p] \in Attempting => mode[p] = "attempt"
       /\ "committed" \in done[p] => mode[p] = "attempt"
       /\ mode[p] = "attempt" => target[p] \in Versions

Logs == [phase : Phases, from : Recorded, to : Recorded, keyed : BOOLEAN]

DiskTypes ==
  /\ disk \in [tool : ToolRecords, claims : SUBSET Resources, log : Logs,
               prep : {"none", "pending", "ready", "committing"}]
  /\ Open => disk.log.from \in Versions /\ disk.log.to \in Versions

\* Up to its boundary the hook has not run.
HookPending == disk.log.phase \notin {"none", "post_hook_running"} => hooked = "no"

DiskGood == DiskTypes /\ PhaseTellsPreparation /\ HookPending

\* The phase a process has saved, by the step it is at.
Positioned(p) ==
  LET phase == disk.log.phase IN
  /\ At(p, "boundary") => phase = "removal_planned"
  /\ pc[p] \in {"remove", "record"} => phase = "removing"
  /\ pc[p] \in {"commit", "commit_found", "install_boundary", "install_boundary_found"}
       => phase = "removed"
  /\ pc[p] \in {"install", "finish"} => phase = "installing"
  /\ At(p, "hook_boundary") => phase = "installed"
  /\ At(p, "hook") => phase = "post_hook_running" /\ hooked = "no"
  /\ pc[p] \in {"complete", "complete_failed"} => phase \in {"installed", "post_hook_running"}

\* A process works on the log only under the lock, and where it has saved that
\* it is.
Working(p) == pc[p] \in Locked => lock = p /\ Positioned(p)

Discipline == LocalTypes /\ DiskGood /\ \A p \in Procs : Working(p)

(***************************************************************************)
(* What the parts of a step do.                                            *)
(***************************************************************************)
\* A recovery decision needs its phase.
LEMMA RecoveryPhases ==
  /\ RecoveryAction = "retry_removal" => CanPlanRemove(disk.log.phase)
  /\ RecoveryAction = "record_removed" => disk.log.phase = "removing"
  /\ RecoveryAction \in {"record_installed", "start_install"} => CanPlanInstall(disk.log.phase)
  /\ RecoveryAction = "continue_installed" => disk.log.phase = "installed"
  /\ RecoveryAction \in {"retry_removal", "record_removed", "record_installed",
                         "start_install", "continue_installed", "blocked"}
  BY DEF RecoveryAction, ReplacementRecoveryFor, CanPlanRemove, CanPlanInstall

\* The ends of a run or an attempt: the process works on no log afterwards,
\* and it may have closed its own lock.
Stops(p) ==
  /\ \/ Fail(p)
     \/ /\ \E view \in {seen, Unseen} : ResetSeeing(p, view)
        /\ Unlocked(p) \/ UNCHANGED lock

LEMMA UnseenType == Unseen \in [Procs -> ToolRecords \cup {NoVersion}]
  BY DEF Unseen

\* A process that starts over has no target and no result.
LEMMA ResetTypes ==
  ASSUME LocalTypes, NEW p \in Procs, NEW view \in {seen, Unseen}, ResetSeeing(p, view)
  PROVE  LocalTypes' /\ pc' = [pc EXCEPT ![p] = "idle"]
<1>1. /\ pc' = [pc EXCEPT ![p] = "idle"]
      /\ mode' = [mode EXCEPT ![p] = "recover"]
      /\ seen' = [view EXCEPT ![p] = NoVersion]
      /\ target' = [target EXCEPT ![p] = NoVersion]
      /\ recovered' = [recovered EXCEPT ![p] = NoVersion]
      /\ done' = [done EXCEPT ![p] = {}]
  BY DEF ResetSeeing, Go
<1>2. view \in [Procs -> ToolRecords \cup {NoVersion}]
  BY UnseenType DEF LocalTypes
<1>3. /\ DOMAIN pc' = Procs /\ mode' \in [Procs -> {"recover", "attempt"}]
      /\ seen' \in [Procs -> ToolRecords \cup {NoVersion}]
      /\ target' \in [Procs -> Recorded] /\ recovered' \in [Procs -> Recorded]
      /\ done' \in [Procs -> SUBSET {"committed", "post", "ok"}]
  BY <1>1, <1>2 DEF LocalTypes, Recorded
<1>4. ASSUME NEW q \in Procs
      PROVE  /\ pc'[q] \in Attempting => mode'[q] = "attempt"
             /\ "committed" \in done'[q] => mode'[q] = "attempt"
             /\ mode'[q] = "attempt" => target'[q] \in Versions
  BY <1>1 DEF LocalTypes, Attempting
<1> QED
  BY <1>1, <1>3, <1>4 DEF LocalTypes

\* A step to another place in the program, with what the process knows kept.
LEMMA GoTypes ==
  ASSUME LocalTypes, NEW p \in Procs, NEW label,
         label \in Attempting => mode[p] = "attempt",
         Go(p, label), UNCHANGED local
  PROVE  LocalTypes'
  BY DEF LocalTypes, Go, local

LEMMA StopTypes ==
  ASSUME LocalTypes, NEW p \in Procs, Stops(p)
  PROVE  /\ LocalTypes'
         /\ pc'[p] \in {"idle", "report"}
         /\ \A q \in Procs \ {p} : pc'[q] = pc[q]
         /\ lock' = lock \/ lock = p
<1>1. ASSUME NEW view \in {seen, Unseen}, ResetSeeing(p, view), Unlocked(p) \/ UNCHANGED lock
      PROVE  LocalTypes' /\ pc' = [pc EXCEPT ![p] = "idle"] /\ (lock' = lock \/ lock = p)
  BY <1>1, ResetTypes DEF Unlocked
<1>2. ASSUME Go(p, "report"), UNCHANGED local, Unlocked(p) \/ UNCHANGED lock
      PROVE  LocalTypes' /\ pc' = [pc EXCEPT ![p] = "report"] /\ (lock' = lock \/ lock = p)
  BY <1>2, GoTypes DEF Attempting, Go, Unlocked
<1>3. \/ /\ \E view \in {seen, Unseen} : ResetSeeing(p, view)
         /\ Unlocked(p) \/ UNCHANGED lock
      \/ /\ Go(p, "report") /\ UNCHANGED local
         /\ Unlocked(p) \/ UNCHANGED lock
  BY DEF Stops, Fail, Reset
<1>4. LocalTypes' /\ (lock' = lock \/ lock = p) /\ \E label \in {"idle", "report"} : pc' = [pc EXCEPT ![p] = label]
  BY <1>1, <1>2, <1>3
<1> QED
  BY <1>4 DEF LocalTypes

\* Nobody works on the log but the holder of the lock: what one process does
\* under the lock, or without touching the state, moves no other.
LEMMA OthersWork ==
  ASSUME NEW p \in Procs, \A q \in Procs : Working(q),
         \A q \in Procs \ {p} : pc'[q] = pc[q],
         \/ lock \in {p, Nobody}
         \/ lock' = lock /\ UNCHANGED <<disk, hooked>>
  PROVE  \A q \in Procs \ {p} : Working(q)'
<1> SUFFICES ASSUME NEW q \in Procs \ {p}
             PROVE  Working(q)'
  OBVIOUS
<1>1. Working(q) /\ pc'[q] = pc[q]
  OBVIOUS
<1>2. CASE lock \in {p, Nobody}
  BY <1>1, <1>2, NobodyAssumption DEF Working
<1>3. CASE lock' = lock /\ UNCHANGED <<disk, hooked>>
  BY <1>1, <1>3 DEF Working, Positioned, At
<1> QED
  BY <1>2, <1>3

\* So each action has to answer for its own process only.
LEMMA OwnStep ==
  ASSUME Discipline, NEW p \in Procs,
         \A q \in Procs \ {p} : pc'[q] = pc[q],
         \/ lock \in {p, Nobody}
         \/ lock' = lock /\ UNCHANGED <<disk, hooked>>,
         LocalTypes', DiskGood', Working(p)'
  PROVE  Discipline'
  BY OthersWork DEF Discipline

LEMMA SameDisk ==
  ASSUME DiskGood, UNCHANGED <<disk, hooked>>
  PROVE  DiskGood'
  BY DEF DiskGood, DiskTypes, Open, PhaseTellsPreparation, HookPending

LEMMA StopKeeps ==
  ASSUME Discipline, NEW p \in Procs, Stops(p), DiskGood',
         lock \in {p, Nobody} \/ UNCHANGED <<disk, hooked>>
  PROVE  Discipline'
<1>1. /\ LocalTypes' /\ pc'[p] \in {"idle", "report"}
      /\ \A q \in Procs \ {p} : pc'[q] = pc[q]
      /\ lock' = lock \/ lock = p
  BY StopTypes DEF Discipline
<1>2. Working(p)'
  BY <1>1 DEF Working, Locked
<1> QED
  BY <1>1, <1>2, OwnStep

\* A process that leaves the state alone and is not about to work on the log.
LEMMA MoveKeeps ==
  ASSUME Discipline, NEW p \in Procs, NEW label, label \notin Locked,
         label \in Attempting => mode[p] = "attempt",
         Go(p, label), UNCHANGED <<disk, hooked, local>>,
         lock' = lock \/ lock \in {p, Nobody}
  PROVE  Discipline'
<1>1. LocalTypes' /\ DiskGood'
  BY GoTypes, SameDisk DEF Discipline
<1>2. pc'[p] = label /\ \A q \in Procs \ {p} : pc'[q] = pc[q]
  BY DEF Go, Discipline, LocalTypes
<1>3. Working(p)'
  BY <1>2 DEF Working
<1> QED
  BY <1>1, <1>2, <1>3, OwnStep

\* A save that succeeds, and one that fails, which may have replaced the file.
LEMMA PersistOutcome ==
  ASSUME NEW p, NEW new, NEW label, Persist(p, new, label)
  PROVE  /\ disk' \in {disk, new}
         /\ \/ disk' = new /\ Go(p, label) /\ UNCHANGED <<lock, local>>
            \/ Stops(p)
  BY DEF Persist, Stops

LEMMA PersistKeeps ==
  ASSUME Discipline, NEW p \in Procs, lock = p,
         NEW new, NEW label, label \notin Attempting, Persist(p, new, label),
         DiskGood',
         disk' = new /\ lock' = lock /\ pc'[p] = label => Working(p)'
  PROVE  Discipline'
<1>1. CASE disk' = new /\ Go(p, label) /\ UNCHANGED <<lock, local>>
  <2>1. LocalTypes'
    BY <1>1, GoTypes DEF Discipline
  <2>2. pc'[p] = label /\ \A q \in Procs \ {p} : pc'[q] = pc[q]
    BY <1>1 DEF Go, Discipline, LocalTypes
  <2> QED
    BY <1>1, <2>1, <2>2, OwnStep
<1>2. CASE Stops(p)
  BY <1>2, StopKeeps
<1> QED
  BY <1>1, <1>2, PersistOutcome

\* Saving the next phase keeps the log readable and its preparation covered.
LEMMA AdvanceGood ==
  ASSUME DiskGood, Open, NEW phase \in Phases \ {"none"}, UNCHANGED hooked,
         disk' \in {disk, Advanced(phase)},
         disk.prep = "committing" => CanPlanInstall(phase),
         disk.log.phase # "post_hook_running"
  PROVE  DiskGood'
<1>1. CASE disk' = disk
  BY <1>1, SameDisk
<1>2. CASE disk' = Advanced(phase)
  <2>1. disk' = [disk EXCEPT !.log = [disk.log EXCEPT !.phase = phase]]
    BY <1>2 DEF Advanced
  <2>2. /\ disk \in [tool : ToolRecords, claims : SUBSET Resources, log : Logs,
                     prep : {"none", "pending", "ready", "committing"}]
        /\ disk.log \in Logs
    BY DEF DiskGood, DiskTypes
  <2>3. [disk.log EXCEPT !.phase = phase] \in Logs
    BY <2>2 DEF Logs
  <2>4. DiskTypes'
    BY <2>1, <2>2, <2>3 DEF DiskGood, DiskTypes, Open, Logs
  <2>5. disk'.log.phase = phase /\ disk'.log.keyed = disk.log.keyed /\ disk'.prep = disk.prep
    BY <2>1, <2>2 DEF Logs
  <2> QED
    BY <2>4, <2>5 DEF DiskGood, PhaseTellsPreparation, HookPending, Open
<1> QED
  BY <1>1, <1>2

\* The log a process has saved is the one it finds.
LEMMA AdvancedPhase ==
  ASSUME DiskGood, NEW phase, disk' = Advanced(phase)
  PROVE  disk'.log.phase = phase
  BY DEF DiskGood, DiskTypes, Logs, Advanced

LEMMA Holding ==
  ASSUME Discipline, NEW p \in Procs, pc[p] \in Locked
  PROVE  lock = p /\ Positioned(p)
  BY DEF Discipline, Working

(***************************************************************************)
(* Discovery, recovery and the attempt.                                    *)
(***************************************************************************)
LEMMA InitDiscipline == Init => Discipline
<1> SUFFICES ASSUME Init
             PROVE  Discipline
  OBVIOUS
<1>1. PICK v \in Versions, b \in BOOLEAN :
        disk = [tool |-> [version |-> v, post |-> b], claims |-> UsesOf[v],
                log |-> NoLog, prep |-> "none"]
  BY DEF Init
<1>2. NoLog \in Logs
  BY DEF NoLog, Logs, Phases, Recorded
<1>3. disk.log.phase = "none" /\ disk.prep = "none"
  BY <1>1 DEF NoLog
<1>4. UsesOf[v] \subseteq Resources
  BY DEF Resources
<1>5. DiskTypes
  BY <1>1, <1>2, <1>3, <1>4 DEF DiskTypes, Open, ToolRecords
<1>6. DiskGood
  BY <1>3, <1>5 DEF DiskGood, PhaseTellsPreparation, HookPending
<1>7. LocalTypes
  BY DEF Init, LocalTypes, Recorded, Attempting
<1>8. \A p \in Procs : Working(p)
  BY DEF Init, Working, Locked
<1> QED
  BY <1>6, <1>7, <1>8 DEF Discipline

LEMMA DiscoverKeeps ==
  ASSUME Discipline, NEW p \in Procs, Discover(p)
  PROVE  Discipline'
<1>1. /\ pc[p] = "idle" /\ lock = Nobody
      /\ pc' = [pc EXCEPT ![p] = "start"]
      /\ UNCHANGED <<disk, hooked, lock, mode, recovered, done>>
  BY DEF Discover, At, Go
<1>2. /\ seen' \in [Procs -> ToolRecords \cup {NoVersion}]
      /\ target' \in [Procs -> Recorded]
      /\ \A q \in Procs : target[q] \in Versions => target'[q] \in Versions
  BY DEF Discover, Discipline, DiskGood, DiskTypes, LocalTypes, Recorded
<1>3. LocalTypes'
  BY <1>1, <1>2 DEF Discipline, LocalTypes, Attempting
<1>4. Working(p)' /\ \A q \in Procs \ {p} : pc'[q] = pc[q]
  BY <1>1 DEF Discipline, LocalTypes, Working, Locked
<1>5. DiskGood'
  BY <1>1, SameDisk DEF Discipline
<1> QED
  BY <1>1, <1>3, <1>4, <1>5, OwnStep

LEMMA RecoverReplacementsKeeps ==
  ASSUME Discipline, NEW p \in Procs, RecoverReplacements(p)
  PROVE  Discipline'
<1>1. /\ lock = Nobody /\ lock' = p /\ Go(p, "recover")
      /\ UNCHANGED <<disk, hooked, local>>
  BY DEF RecoverReplacements
<1>2. LocalTypes' /\ DiskGood'
  BY <1>1, GoTypes, SameDisk DEF Discipline, Attempting
<1>3. pc'[p] = "recover" /\ \A q \in Procs \ {p} : pc'[q] = pc[q]
  BY <1>1 DEF Go, Discipline, LocalTypes
<1>4. Working(p)'
  BY <1>1, <1>3 DEF Working, Positioned, At
<1> QED
  BY <1>1, <1>2, <1>3, <1>4, OwnStep

LEMMA RetryRemovalKeeps ==
  ASSUME Discipline, NEW p \in Procs, RetryRemoval(p)
  PROVE  Discipline'
<1>1. /\ pc[p] = "recover" /\ Open /\ CanPlanRemove(disk.log.phase)
      /\ Persist(p, Advanced("removing"), "remove")
      /\ UNCHANGED hooked
  BY RecoveryPhases DEF RetryRemoval, Recovering, At
<1>2. lock = p
  BY <1>1, Holding DEF Locked
<1>3. DiskGood'
  BY <1>1, PersistOutcome, AdvanceGood
     DEF Discipline, DiskGood, PhaseTellsPreparation, CanPlanRemove, CanPlanInstall, Phases
<1>4. ASSUME disk' = Advanced("removing"), lock' = lock, pc'[p] = "remove"
      PROVE  Working(p)'
  BY <1>2, <1>4, AdvancedPhase DEF Discipline, Working, Positioned, At
<1> QED
  BY <1>1, <1>2, <1>3, <1>4, PersistKeeps DEF Attempting

LEMMA ResumeKeeps ==
  ASSUME Discipline, NEW p \in Procs, Resume(p)
  PROVE  Discipline'
<1>1. /\ pc[p] = "recover" /\ Open
      /\ RecoveryAction \notin {"retry_removal", "blocked"}
      /\ Go(p, Resumed)
      /\ UNCHANGED <<disk, hooked, lock, local>>
  BY DEF Resume, Recovering, At
<1>2. lock = p
  BY <1>1, Holding DEF Locked
<1>3. LET phase == disk.log.phase IN
      /\ Resumed \in {"record", "commit", "install", "commit_found", "finish",
                      "hook_boundary", "complete"}
      /\ Resumed = "record" => phase = "removing"
      /\ Resumed \in {"commit", "commit_found"} => phase = "removed"
      /\ Resumed \in {"install", "finish"} => phase = "installing"
      /\ Resumed \in {"hook_boundary", "complete"} => phase = "installed"
  <2>1. CASE RecoveryAction = "record_removed"
    BY <2>1, RecoveryPhases DEF Resumed
  <2>2. CASE RecoveryAction = "start_install"
    BY <2>2, RecoveryPhases DEF Resumed, CanPlanInstall
  <2>3. CASE RecoveryAction = "record_installed"
    BY <2>3, RecoveryPhases DEF Resumed, CanPlanInstall
  <2>4. CASE RecoveryAction = "continue_installed"
    BY <2>4, RecoveryPhases DEF Resumed, AfterInstalled
  <2> QED
    BY <1>1, <2>1, <2>2, <2>3, <2>4, RecoveryPhases
<1>4. pc'[p] = Resumed /\ \A q \in Procs \ {p} : pc'[q] = pc[q]
  BY <1>1 DEF Go, Discipline, LocalTypes
<1>5. Working(p)'
  BY <1>1, <1>2, <1>3, <1>4 DEF Working, Positioned, At
<1>6. LocalTypes' /\ DiskGood'
  <2>1. Resumed \notin Attempting
    BY <1>3 DEF Attempting
  <2> QED
    BY <1>1, <2>1, GoTypes, SameDisk DEF Discipline
<1> QED
  BY <1>2, <1>4, <1>5, <1>6, OwnStep

LEMMA RecoveryEndsKeep ==
  ASSUME Discipline, NEW p \in Procs, RecoveryBlocked(p) \/ RecoveryDone(p)
  PROVE  Discipline'
<1>1. pc[p] = "recover" /\ UNCHANGED <<disk, hooked>>
  BY DEF RecoveryBlocked, RecoveryDone, Recovering, At
<1>2. CASE Fail(p)
  BY <1>1, <1>2, SameDisk, StopKeeps DEF Stops, Discipline
<1>3. CASE RecoveryDone(p)
  <2>1. lock = p
    BY <1>1, Holding DEF Locked
  <2> QED
    BY <1>3, <2>1, MoveKeeps DEF RecoveryDone, Locked, Attempting
<1> QED
  BY <1>2, <1>3 DEF RecoveryBlocked

LEMMA RecoverPreparationsKeeps ==
  ASSUME Discipline, NEW p \in Procs, RecoverPreparations(p)
  PROVE  Discipline'
<1>1. pc[p] = "unprepare" /\ lock = Nobody /\ UNCHANGED <<hooked, lock>>
  BY DEF RecoverPreparations, At
<1>2. CASE UNCHANGED disk /\ Reset(p)
  BY <1>1, <1>2, SameDisk, StopKeeps DEF Stops, Reset, Discipline
<1>3. CASE /\ disk.prep # "committing"
           /\ disk' = [disk EXCEPT !.prep = "none"]
           /\ IF target[p] = NoVersion THEN Go(p, "report") /\ UNCHANGED mode
              ELSE Go(p, "prepare") /\ mode' = [mode EXCEPT ![p] = "attempt"]
           /\ UNCHANGED <<seen, target, report>>
  <2>1. DiskGood'
    BY <1>1, <1>3 DEF Discipline, DiskGood, DiskTypes, Open, PhaseTellsPreparation,
       HookPending, Logs
  <2>2. LocalTypes'
    <3>1. CASE Go(p, "report") /\ UNCHANGED mode
      BY <1>3, <3>1, GoTypes DEF Discipline, local, report, Attempting
    <3>2. CASE target[p] # NoVersion /\ Go(p, "prepare") /\ mode' = [mode EXCEPT ![p] = "attempt"]
      BY <1>3, <3>2 DEF Discipline, LocalTypes, Go, report, Recorded
    <3> QED
      BY <1>3, <3>1, <3>2
  <2>3. pc'[p] \in {"report", "prepare"} /\ \A q \in Procs \ {p} : pc'[q] = pc[q]
    BY <1>3 DEF Go, Discipline, LocalTypes
  <2>4. Working(p)'
    BY <2>3 DEF Working, Locked
  <2> QED
    BY <1>1, <2>1, <2>2, <2>3, <2>4, OwnStep
<1>4. CASE /\ disk.prep = "committing"
           /\ disk' = [disk EXCEPT !.prep = "none", !.claims = @ \cup UsesOf[disk.log.to],
                         !.tool = [version |-> disk.log.to, post |-> FALSE]]
           /\ recovered' = [recovered EXCEPT ![p] = disk.log.to]
           /\ seen' = Unseen
           /\ UNCHANGED <<pc, mode, target, done>>
  <2>1. disk.log.to \in Versions
    BY <1>4 DEF Discipline, DiskGood, PhaseTellsPreparation, DiskTypes, Open, CanPlanInstall
  <2>2. UsesOf[disk.log.to] \subseteq Resources
    BY <2>1 DEF Resources
  <2>3. DiskGood'
    BY <1>1, <1>4, <2>1, <2>2 DEF Discipline, DiskGood, DiskTypes, Open,
       PhaseTellsPreparation, HookPending, Logs, ToolRecords
  <2>4. LocalTypes'
    BY <1>4, <2>1, UnseenType DEF Discipline, LocalTypes, Recorded
  <2>5. Working(p)'
    BY <1>1, <1>4 DEF Working, Locked
  <2> QED
    BY <1>1, <1>4, <2>3, <2>4, <2>5, OwnStep
<1> QED
  BY <1>2, <1>3, <1>4 DEF RecoverPreparations

\* A journal that begins or ends outside the log.
LEMMA JournalGood ==
  ASSUME DiskGood, UNCHANGED hooked, NEW status \in {"none", "pending", "ready"},
         disk' = [disk EXCEPT !.prep = status]
  PROVE  DiskGood'
  BY DEF DiskGood, DiskTypes, Open, PhaseTellsPreparation, HookPending, Logs

LEMMA AttemptKeeps ==
  ASSUME Discipline, NEW p \in Procs,
         PrepareSources(p) \/ Gate(p) \/ RunPrerequisites(p) \/ PrerequisiteFails(p)
  PROVE  Discipline'
<1>1. CASE PrepareSources(p)
  <2>1. pc[p] = "prepare" /\ UNCHANGED <<hooked, local>>
    BY <1>1 DEF PrepareSources, At
  <2>2. mode[p] = "attempt"
    BY <2>1 DEF Discipline, LocalTypes, Attempting
  <2>3. CASE UNCHANGED <<disk, lock>> /\ \E label \in {"gate", "report"} : Go(p, label)
    BY <2>1, <2>2, <2>3, MoveKeeps DEF Locked, Attempting
  <2>4. CASE /\ lock = Nobody /\ Go(p, "gate")
             /\ disk' = [disk EXCEPT !.prep = "ready"]
    <3>1. DiskGood'
      BY <2>1, <2>4, JournalGood DEF Discipline
    <3>2. LocalTypes'
      BY <2>1, <2>2, <2>4, GoTypes DEF Discipline
    <3>3. pc'[p] = "gate" /\ \A q \in Procs \ {p} : pc'[q] = pc[q]
      BY <2>4 DEF Go, Discipline, LocalTypes
    <3>4. Working(p)'
      BY <3>3 DEF Working, Locked
    <3> QED
      BY <2>4, <3>1, <3>2, <3>3, <3>4, OwnStep
  <2> QED
    BY <1>1, <2>3, <2>4 DEF PrepareSources
<1>2. CASE Gate(p)
  <2>1. pc[p] = "gate" /\ UNCHANGED <<disk, hooked>>
    BY <1>2 DEF Gate, At
  <2>2. mode[p] = "attempt"
    BY <2>1 DEF Discipline, LocalTypes, Attempting
  <2>3. CASE Fail(p)
    BY <2>1, <2>3, SameDisk, StopKeeps DEF Stops, Discipline
  <2>4. CASE Go(p, "deps") /\ Unlocked(p) /\ UNCHANGED local
    BY <2>1, <2>2, <2>4, MoveKeeps DEF Locked, Unlocked
  <2> QED
    BY <1>2, <2>3, <2>4 DEF Gate
<1>3. CASE RunPrerequisites(p)
  <2>1. mode[p] = "attempt"
    BY <1>3 DEF RunPrerequisites, At, Discipline, LocalTypes, Attempting
  <2> QED
    BY <1>3, <2>1, MoveKeeps DEF RunPrerequisites, Locked
<1>4. CASE PrerequisiteFails(p)
  <2>1. /\ lock = Nobody /\ Go(p, "report")
        /\ disk' = disk \/ disk' = [disk EXCEPT !.prep = "none"]
        /\ UNCHANGED <<hooked, lock, local>>
    BY <1>4 DEF PrerequisiteFails
  <2>2. DiskGood'
    BY <2>1, JournalGood, SameDisk DEF Discipline
  <2>3. LocalTypes'
    BY <2>1, GoTypes DEF Discipline, Attempting
  <2>4. pc'[p] = "report" /\ \A q \in Procs \ {p} : pc'[q] = pc[q]
    BY <2>1 DEF Go, Discipline, LocalTypes
  <2>5. Working(p)'
    BY <2>4 DEF Working, Locked
  <2> QED
    BY <2>1, <2>2, <2>3, <2>4, <2>5, OwnStep
<1> QED
  BY <1>1, <1>2, <1>3, <1>4

LEMMA TakeLockKeeps ==
  ASSUME Discipline, NEW p \in Procs, TakeLock(p)
  PROVE  Discipline'
<1>1. pc[p] = "resume" /\ lock = Nobody /\ UNCHANGED <<hooked, local>>
  BY DEF TakeLock, At
<1>2. mode[p] = "attempt"
  BY <1>1 DEF Discipline, LocalTypes, Attempting
<1>3. CASE Go(p, "report") /\ UNCHANGED <<disk, lock>>
  BY <1>1, <1>3, MoveKeeps DEF Locked, Attempting
<1>4. CASE /\ lock' = p /\ Go(p, "begin")
           /\ disk' = [disk EXCEPT !.prep = "pending"] \/ UNCHANGED disk
  <2>1. DiskGood'
    BY <1>1, <1>4, JournalGood, SameDisk DEF Discipline
  <2>2. LocalTypes'
    BY <1>1, <1>2, <1>4, GoTypes DEF Discipline
  <2>3. pc'[p] = "begin" /\ \A q \in Procs \ {p} : pc'[q] = pc[q]
    BY <1>4 DEF Go, Discipline, LocalTypes
  <2>4. Working(p)'
    BY <1>4, <2>3 DEF Working, Positioned, At
  <2> QED
    BY <1>1, <2>1, <2>2, <2>3, <2>4, OwnStep
<1> QED
  BY <1>3, <1>4 DEF TakeLock

(***************************************************************************)
(* The replacement.                                                        *)
(***************************************************************************)
LEMMA BeginKeeps ==
  ASSUME Discipline, NEW p \in Procs, BeginReplacement(p)
  PROVE  Discipline'
<1> DEFINE log == [phase |-> "removal_planned", from |-> disk.tool.version,
                   to |-> target[p], keyed |-> Preparation # "none"]
           begun == [disk EXCEPT !.log = log]
<1>1. pc[p] = "begin"
  BY DEF BeginReplacement, At
<1>2. lock = p
  BY <1>1, Holding DEF Locked
<1>3. CASE Fail(p) /\ UNCHANGED <<disk, hooked>>
  BY <1>2, <1>3, SameDisk, StopKeeps DEF Stops, Discipline
<1>4. CASE /\ ~Open /\ Persist(p, begun, "boundary")
           /\ hooked' = IF disk' = disk THEN hooked ELSE "no"
  <2>1. target[p] \in Versions
    BY <1>1 DEF Discipline, LocalTypes, Attempting
  <2>2. log \in Logs /\ disk.tool.version \in Versions
    BY <2>1 DEF Discipline, DiskGood, DiskTypes, Logs, ToolRecords, Phases, Recorded
  <2>3. disk.prep # "committing" /\ disk.log.phase = "none"
    BY <1>4 DEF Discipline, DiskGood, PhaseTellsPreparation, Open, CanPlanInstall
  <2>4. DiskGood'
    <3>1. CASE disk' = disk
      BY <1>4, <3>1, SameDisk DEF Discipline
    <3>2. CASE disk' = begun /\ disk' # disk
      <4>1. disk'.log = log /\ disk'.prep = disk.prep
        BY <3>2 DEF Discipline, DiskGood, DiskTypes
      <4>2. DiskTypes'
        BY <2>1, <2>2, <3>2, <4>1 DEF Discipline, DiskGood, DiskTypes, Open
      <4> QED
        BY <1>4, <2>3, <3>2, <4>1, <4>2 DEF DiskGood, PhaseTellsPreparation, HookPending
    <3> QED
      BY <1>4, <3>1, <3>2, PersistOutcome
  <2>5. ASSUME disk' = begun, lock' = lock, pc'[p] = "boundary"
        PROVE  Working(p)'
    <3>1. disk'.log.phase = "removal_planned"
      BY <2>5 DEF Discipline, DiskGood, DiskTypes
    <3> QED
      BY <1>2, <2>5, <3>1 DEF Working, Positioned, At
  <2> HIDE DEF begun
  <2> QED
    BY <1>2, <1>4, <2>4, <2>5, PersistKeeps DEF Attempting
<1> QED
  BY <1>3, <1>4 DEF BeginReplacement

LEMMA BoundariesKeep ==
  ASSUME Discipline, NEW p \in Procs,
         \/ PlanReplacementRemoval(p) \/ RecordReplacementRemoved(p)
         \/ PlanReplacementInstall(p) \/ PlanReplacementPostHook(p)
  PROVE  Discipline'
<1>1. PICK next \in {<<"removing", "remove">>, <<"removed", "commit">>,
                     <<"installing", "install">>, <<"installing", "finish">>,
                     <<"post_hook_running", "hook">>} :
        /\ Persist(p, Advanced(next[1]), next[2])
        /\ next[1] = "removing" => CanPlanRemove(disk.log.phase)
        /\ next[1] = "removed" => pc[p] = "record"
        /\ next[1] = "installing" => pc[p] \in {"install_boundary", "install_boundary_found"}
        /\ next[1] = "post_hook_running" => pc[p] = "hook_boundary"
        /\ pc[p] \in Locked /\ UNCHANGED hooked
  <2>1. CASE PlanReplacementRemoval(p)
    BY <2>1 DEF PlanReplacementRemoval, At, Locked
  <2>2. CASE RecordReplacementRemoved(p)
    BY <2>2 DEF RecordReplacementRemoved, At, Locked
  <2>3. CASE PlanReplacementInstall(p)
    BY <2>3 DEF PlanReplacementInstall, At, Locked
  <2>4. CASE PlanReplacementPostHook(p)
    BY <2>4 DEF PlanReplacementPostHook, At, Locked
  <2> QED
    BY <2>1, <2>2, <2>3, <2>4
<1>2. lock = p /\ Positioned(p)
  BY <1>1, Holding
<1> DEFINE phase == disk.log.phase
<1>3. /\ next[1] = "removing" => phase \in {"removal_planned", "removing"}
      /\ next[1] = "removed" => phase = "removing"
      /\ next[1] = "installing" => phase = "removed"
      /\ next[1] = "post_hook_running" => phase = "installed"
  BY <1>1, <1>2 DEF Positioned, At, CanPlanRemove
<1>4. DiskGood'
  <2>1. phase \notin {"none", "post_hook_running"} /\ next[1] \in Phases \ {"none"}
    BY <1>1, <1>3 DEF Phases
  <2>2. disk.prep = "committing" => CanPlanInstall(next[1])
    BY <1>1, <1>3 DEF Discipline, DiskGood, PhaseTellsPreparation, CanPlanInstall
  <2>3. disk' \in {disk, Advanced(next[1])}
    BY <1>1, PersistOutcome
  <2> QED
    BY <1>1, <2>1, <2>2, <2>3, AdvanceGood DEF Discipline, Open
<1>5. ASSUME disk' = Advanced(next[1]), lock' = lock, pc'[p] = next[2]
      PROVE  Working(p)'
  <2>1. disk'.log.phase = next[1]
    BY <1>5, AdvancedPhase DEF Discipline
  <2>2. next[1] = "post_hook_running" => hooked' = "no"
    BY <1>1, <1>3 DEF Discipline, DiskGood, HookPending
  <2> QED
    BY <1>1, <1>2, <1>5, <2>1, <2>2 DEF Working, Positioned, At
<1> QED
  BY <1>1, <1>2, <1>4, <1>5, PersistKeeps DEF Attempting

\* The host may change under the lock, and that is all the discipline sees.
LEMMA HostStepsKeep ==
  ASSUME Discipline, NEW p \in Procs, RemoveOld(p) \/ InstallResolved(p)
  PROVE  Discipline'
<1>1. /\ pc[p] \in {"remove", "install"} /\ UNCHANGED <<disk, hooked>>
      /\ \/ Fail(p)
         \/ pc[p] = "remove" /\ Go(p, "record") /\ UNCHANGED <<lock, local>>
         \/ pc[p] = "install" /\ Go(p, "finish") /\ UNCHANGED <<lock, local>>
  BY DEF RemoveOld, InstallResolved, At
<1>2. lock = p /\ Positioned(p)
  BY <1>1, Holding DEF Locked
<1>3. CASE Fail(p)
  BY <1>1, <1>3, SameDisk, StopKeeps DEF Stops, Discipline
<1>4. ASSUME NEW label \in {"record", "finish"}, Go(p, label), UNCHANGED <<lock, local>>,
             label = "record" => pc[p] = "remove", label = "finish" => pc[p] = "install"
      PROVE  Discipline'
  <2>1. LocalTypes' /\ DiskGood'
    BY <1>1, <1>4, GoTypes, SameDisk DEF Discipline, Attempting
  <2>2. pc'[p] = label /\ \A q \in Procs \ {p} : pc'[q] = pc[q]
    BY <1>4 DEF Go, Discipline, LocalTypes
  <2>3. Working(p)'
    BY <1>1, <1>2, <1>4, <2>2 DEF Working, Positioned, At
  <2> QED
    BY <1>2, <2>1, <2>2, <2>3, OwnStep
<1> QED
  BY <1>1, <1>3, <1>4

LEMMA PlanCommitKeeps ==
  ASSUME Discipline, NEW p \in Procs, PlanCommit(p)
  PROVE  Discipline'
<1>1. PICK label \in {"install_boundary", "install_boundary_found"} :
        PlanPreparationCommit(p, label)
  BY DEF PlanCommit
<1>2. pc[p] \in {"commit", "commit_found"} /\ UNCHANGED hooked
  BY DEF PlanCommit, At
<1>3. lock = p /\ disk.log.phase = "removed"
  BY <1>2, Holding DEF Locked, Positioned
<1>4. CASE Fail(p) /\ UNCHANGED disk
  BY <1>2, <1>4, SameDisk, StopKeeps DEF Stops, Discipline
<1>5. CASE Go(p, label) /\ UNCHANGED <<disk, lock, local>>
  <2>1. LocalTypes' /\ DiskGood'
    BY <1>2, <1>5, GoTypes, SameDisk DEF Discipline, Attempting
  <2>2. pc'[p] = label /\ \A q \in Procs \ {p} : pc'[q] = pc[q]
    BY <1>5 DEF Go, Discipline, LocalTypes
  <2>3. Working(p)'
    BY <1>3, <1>5, <2>2 DEF Working, Positioned, At
  <2> QED
    BY <1>3, <2>1, <2>2, <2>3, OwnStep
<1>6. CASE disk.log.keyed /\ Persist(p, [disk EXCEPT !.prep = "committing"], label)
  <2> DEFINE new == [disk EXCEPT !.prep = "committing"]
  <2>1. new.log = disk.log /\ new.prep = "committing"
    BY DEF Discipline, DiskGood, DiskTypes
  <2>2. DiskGood'
    <3>1. CASE disk' = disk
      BY <1>2, <3>1, SameDisk DEF Discipline
    <3>2. CASE disk' = new
      <4>1. DiskTypes'
        BY <3>2 DEF Discipline, DiskGood, DiskTypes, Open
      <4> QED
        BY <1>2, <1>3, <1>6, <2>1, <3>2, <4>1
           DEF Discipline, DiskGood, PhaseTellsPreparation, HookPending, CanPlanInstall
    <3> QED
      BY <1>6, <3>1, <3>2, PersistOutcome
  <2>3. ASSUME disk' = new, lock' = lock, pc'[p] = label
        PROVE  Working(p)'
    BY <1>3, <2>1, <2>3 DEF Working, Positioned, At
  <2> HIDE DEF new
  <2> QED
    BY <1>3, <1>6, <2>2, <2>3, PersistKeeps DEF Attempting, new
<1> QED
  BY <1>1, <1>4, <1>5, <1>6 DEF PlanPreparationCommit

\* What a verified install saves.
LEMMA InstalledGood ==
  ASSUME DiskGood, disk.log.phase = "installing", disk' = Installed, UNCHANGED hooked
  PROVE  DiskGood' /\ disk'.log.phase = "installed"
<1>1. disk.log.to \in Versions
  BY DEF DiskGood, DiskTypes, Open
<1>2. disk.log \in Logs /\ UsesOf[disk.log.to] \subseteq Resources
  BY <1>1 DEF DiskGood, DiskTypes, Resources
<1> DEFINE record == [version |-> disk.log.to, post |-> FALSE]
           log == [disk.log EXCEPT !.phase = "installed"]
<1>3. record \in ToolRecords /\ log \in Logs /\ log.phase = "installed"
      /\ log.from = disk.log.from /\ log.to = disk.log.to
  BY <1>1, <1>2 DEF ToolRecords, Logs, Phases
<1>4. disk' = [disk EXCEPT !.tool = record, !.claims = UsesOf[disk.log.to],
                 !.log = log, !.prep = "none"]
  BY DEF Installed
<1>5. /\ disk' \in [tool : ToolRecords, claims : SUBSET Resources, log : Logs,
                    prep : {"none", "pending", "ready", "committing"}]
      /\ disk'.log = log /\ disk'.prep = "none"
  <2> HIDE DEF record, log
  <2> QED
    BY <1>2, <1>3, <1>4 DEF DiskGood, DiskTypes
<1> QED
  BY <1>3, <1>5 DEF DiskGood, DiskTypes, Open, PhaseTellsPreparation, HookPending

LEMMA CommitInstallKeeps ==
  ASSUME Discipline, NEW p \in Procs, CommitReplacementInstall(p)
  PROVE  Discipline'
<1> DEFINE committed == IF mode[p] = "recover" THEN done
                        ELSE [done EXCEPT ![p] = @ \cup {"committed"}]
<1>1. pc[p] = "finish" /\ UNCHANGED hooked
  BY DEF CommitReplacementInstall, At
<1>2. lock = p /\ disk.log.phase = "installing"
  BY <1>1, Holding DEF Locked, Positioned
<1>3. disk' = disk \/ disk' = Installed
  BY DEF CommitReplacementInstall
<1>4. DiskGood'
  BY <1>1, <1>2, <1>3, SameDisk, InstalledGood DEF Discipline
<1>5. /\ committed \in [Procs -> SUBSET {"committed", "post", "ok"}]
      /\ \A q \in Procs \ {p} : committed[q] = done[q]
      /\ "committed" \in committed[p] => mode[p] # "recover" \/ "committed" \in done[p]
  BY DEF Discipline, LocalTypes
<1>6. CASE /\ \E view \in {seen, Unseen} : ResetSeeing(p, view)
           /\ Unlocked(p)
  BY <1>2, <1>4, <1>6, StopKeeps DEF Stops
<1>7. ASSUME NEW label \in {"hook_boundary", "complete", "report"}, Go(p, label),
             label # "report" => disk' = Installed /\ lock' = lock,
             done' = committed, seen' \in {seen, Unseen}, UNCHANGED <<mode, target, recovered>>
      PROVE  Discipline'
  <2>1. pc'[p] = label /\ \A q \in Procs \ {p} : pc'[q] = pc[q]
    BY <1>7 DEF Go, Discipline, LocalTypes
  <2>2. LocalTypes'
    <3>1. seen' \in [Procs -> ToolRecords \cup {NoVersion}] /\ DOMAIN pc' = Procs
      BY <1>7, UnseenType DEF Discipline, LocalTypes, Go
    <3>2. ASSUME NEW q \in Procs
          PROVE  /\ pc'[q] \in Attempting => mode[q] = "attempt"
                 /\ "committed" \in committed[q] => mode[q] = "attempt"
                 /\ mode[q] = "attempt" => target[q] \in Versions
      BY <1>5, <1>7, <2>1 DEF Discipline, LocalTypes, Attempting
    <3> QED
      BY <1>5, <1>7, <3>1, <3>2 DEF Discipline, LocalTypes
  <2>3. Working(p)'
    BY <1>1, <1>2, <1>7, <2>1, InstalledGood DEF Discipline, Working, Positioned, At, Locked
  <2> QED
    BY <1>2, <1>4, <2>1, <2>2, <2>3, OwnStep
<1> QED
  BY <1>6, <1>7 DEF CommitReplacementInstall, AfterInstalled

LEMMA RunHookKeeps ==
  ASSUME Discipline, NEW p \in Procs, RunHook(p)
  PROVE  Discipline' /\ hooked = "no"
<1>1. /\ pc[p] = "hook" /\ UNCHANGED <<disk, lock, local>>
      /\ Go(p, "complete") \/ Go(p, "complete_failed")
  BY DEF RunHook, At
<1>2. lock = p /\ disk.log.phase = "post_hook_running" /\ hooked = "no"
  BY <1>1, Holding DEF Locked, Positioned, At
<1>3. DiskGood'
  BY <1>1, <1>2 DEF Discipline, DiskGood, DiskTypes, Open, PhaseTellsPreparation, HookPending
<1>4. LocalTypes'
  BY <1>1, GoTypes DEF Discipline, Attempting
<1>5. pc'[p] \in {"complete", "complete_failed"} /\ \A q \in Procs \ {p} : pc'[q] = pc[q]
  BY <1>1 DEF Go, Discipline, LocalTypes
<1>6. Working(p)'
  BY <1>1, <1>2, <1>5 DEF Working, Positioned, At
<1> QED
  BY <1>2, <1>3, <1>4, <1>5, <1>6, OwnStep

LEMMA CompleteKeeps ==
  ASSUME Discipline, NEW p \in Procs, CompleteReplacement(p)
  PROVE  Discipline'
<1> DEFINE ran == At(p, "complete") /\ Hooks
           closed == [disk EXCEPT !.log = NoLog, !.tool.post = ran]
           facts == (IF ran THEN {"post"} ELSE {}) \cup done[p]
<1>1. pc[p] \in {"complete", "complete_failed"} /\ UNCHANGED hooked
  BY DEF CompleteReplacement
<1>2. lock = p /\ disk.log.phase \in {"installed", "post_hook_running"}
  BY <1>1, Holding DEF Locked, Positioned
<1>3. ran \in BOOLEAN
  BY DEF At
<1>4. disk' = disk \/ disk' = closed
  BY <1>1 DEF CompleteReplacement
<1>5. DiskGood'
  <2>1. CASE disk' = disk
    BY <1>1, <2>1, SameDisk DEF Discipline
  <2>2. CASE disk' = closed
    <3> DEFINE record == [disk.tool EXCEPT !.post = ran]
    <3>1. record \in ToolRecords /\ NoLog \in Logs
      BY <1>3 DEF Discipline, DiskGood, DiskTypes, ToolRecords, NoLog, Logs, Phases, Recorded
    <3>2. disk' = [disk EXCEPT !.log = NoLog, !.tool = record]
      BY <2>2
    <3>3. /\ disk' \in [tool : ToolRecords, claims : SUBSET Resources, log : Logs,
                        prep : {"none", "pending", "ready", "committing"}]
          /\ disk'.log = NoLog /\ disk'.prep = disk.prep
      <4> HIDE DEF record
      <4> QED
        BY <3>1, <3>2 DEF Discipline, DiskGood, DiskTypes
    <3>4. disk.prep # "committing"
      BY <1>2 DEF Discipline, DiskGood, PhaseTellsPreparation, CanPlanInstall
    <3> QED
      BY <3>3, <3>4 DEF DiskGood, DiskTypes, Open, PhaseTellsPreparation, HookPending, NoLog
  <2> QED
    BY <1>4, <2>1, <2>2
<1>6. CASE Fail(p)
  BY <1>2, <1>5, <1>6, StopKeeps DEF Stops
<1>7. CASE /\ recovered' = [recovered EXCEPT ![p] = disk.log.to]
           /\ Go(p, "recover")
           /\ UNCHANGED <<lock, mode, seen, target, done>>
  <2>1. disk.log.to \in Versions
    BY <1>2 DEF Discipline, DiskGood, DiskTypes, Open
  <2>2. pc'[p] = "recover" /\ \A q \in Procs \ {p} : pc'[q] = pc[q]
    BY <1>7 DEF Go, Discipline, LocalTypes
  <2>3. LocalTypes'
    BY <1>7, <2>1 DEF Discipline, LocalTypes, Go, Recorded, Attempting
  <2>4. Working(p)'
    BY <1>2, <1>7, <2>2 DEF Working, Positioned, At
  <2> QED
    BY <1>2, <1>5, <2>2, <2>3, <2>4, OwnStep
<1>8. CASE /\ done' \in {[done EXCEPT ![p] = facts], [done EXCEPT ![p] = facts \cup {"ok"}]}
           /\ Go(p, "report")
           /\ UNCHANGED <<mode, seen, target, recovered>>
  <2>1. /\ done' \in [Procs -> SUBSET {"committed", "post", "ok"}]
        /\ \A q \in Procs : "committed" \in done'[q] => "committed" \in done[q]
    BY <1>8 DEF Discipline, LocalTypes
  <2>2. pc'[p] = "report" /\ \A q \in Procs \ {p} : pc'[q] = pc[q]
    BY <1>8 DEF Go, Discipline, LocalTypes
  <2>3. LocalTypes'
    BY <1>8, <2>1 DEF Discipline, LocalTypes, Go, Attempting
  <2>4. Working(p)'
    BY <2>2 DEF Working, Locked
  <2> QED
    BY <1>2, <1>5, <2>2, <2>3, <2>4, OwnStep
<1> QED
  BY <1>6, <1>7, <1>8 DEF CompleteReplacement

(***************************************************************************)
(* The end of a run.                                                       *)
(***************************************************************************)
\* What the final write of a run leaves of the log and the preparation, and
\* what it may record of the tool.
LEMMA WrittenState ==
  ASSUME LocalTypes, DiskTypes, NEW p \in Procs,
         NEW new, new = WithCommitted(p, WithRecovered(p))
  PROVE  /\ new \in [tool : ToolRecords, claims : SUBSET Resources, log : Logs,
                     prep : {"none", "pending", "ready", "committing"}]
         /\ new.log = disk.log /\ new.prep = disk.prep
         /\ disk.claims \subseteq new.claims
<1> DEFINE current == WithRecovered(p)
<1>1. /\ current \in [tool : ToolRecords, claims : SUBSET Resources, log : Logs,
                      prep : {"none", "pending", "ready", "committing"}]
      /\ current.log = disk.log /\ current.prep = disk.prep /\ current.claims = disk.claims
  <2>1. CASE recovered[p] = NoVersion
    BY <2>1 DEF WithRecovered, DiskTypes
  <2>2. CASE recovered[p] # NoVersion
    <3>1. Reported(recovered[p]) \in Versions
      BY <2>2 DEF LocalTypes, Recorded, Reported
    <3> QED
      BY <2>2, <3>1 DEF WithRecovered, DiskTypes, ToolRecords
  <2> QED
    BY <2>1, <2>2
<1>2. CASE "committed" \notin done[p]
  BY <1>1, <1>2 DEF WithCommitted
<1>3. CASE "committed" \in done[p]
  <2>1. target[p] \in Versions
    BY <1>3 DEF LocalTypes
  <2>2. PICK version \in Versions, post \in BOOLEAN :
          new = [current EXCEPT !.tool = [version |-> version, post |-> post],
                                !.claims = current.claims \cup UsesOf[target[p]]]
    <3> DEFINE found == host[PackageOf[target[p]]]
               version == IF found \in Versions THEN found
                          ELSE IF "ok" \in done[p] THEN target[p] ELSE current.tool.version
    <3>1. version \in Versions
      BY <1>1, <2>1 DEF ToolRecords
    <3>2. ("post" \in done[p]) \in BOOLEAN
      OBVIOUS
    <3>3. new = [current EXCEPT !.tool = [version |-> version, post |-> "post" \in done[p]],
                                !.claims = current.claims \cup UsesOf[target[p]]]
      BY <1>3 DEF WithCommitted
    <3> QED
      BY <3>1, <3>2, <3>3
  <2>3. UsesOf[target[p]] \subseteq Resources
    BY <2>1 DEF Resources
  <2> DEFINE record == [version |-> version, post |-> post]
             claims == current.claims \cup UsesOf[target[p]]
  <2>4. record \in ToolRecords
    BY DEF ToolRecords
  <2> HIDE DEF current
  <2>5. claims \in SUBSET Resources /\ disk.claims \subseteq claims
    BY <1>1, <2>3
  <2>6. new = [current EXCEPT !.tool = record, !.claims = claims]
    BY <2>2
  <2> HIDE DEF record, claims
  <2> QED
    BY <1>1, <2>4, <2>5, <2>6
<1> QED
  BY <1>2, <1>3

LEMMA WriteStateKeeps ==
  ASSUME Discipline, NEW p \in Procs, WriteState(p)
  PROVE  Discipline'
<1>1. lock = Nobody /\ UNCHANGED <<hooked, lock>>
  BY DEF WriteState
<1>2. DiskGood'
  <2>1. CASE UNCHANGED disk
    BY <1>1, <2>1, SameDisk DEF Discipline
  <2>2. CASE disk' = WithCommitted(p, WithRecovered(p))
    BY <1>1, <2>2, WrittenState DEF Discipline, DiskGood, DiskTypes, Open,
       PhaseTellsPreparation, HookPending
  <2> QED
    BY <2>1, <2>2 DEF WriteState
<1>3. \E view \in {seen, Unseen} : ResetSeeing(p, view)
  BY DEF WriteState, Reset
<1> QED
  BY <1>1, <1>2, <1>3, StopKeeps DEF Stops

LEMMA EndsKeep ==
  ASSUME Discipline, NEW p \in Procs, FinalizeLeakedLock(p) \/ Crash(p)
  PROVE  Discipline'
<1>1. CASE Crash(p)
  BY <1>1, SameDisk, StopKeeps DEF Crash, Stops, Reset, Discipline
<1>2. CASE FinalizeLeakedLock(p)
  <2>1. pc[p] = "report" /\ lock = p /\ UNCHANGED <<disk, hooked, pc, local>>
    BY <1>2 DEF FinalizeLeakedLock, At
  <2>2. LocalTypes' /\ DiskGood'
    BY <2>1, SameDisk DEF Discipline, LocalTypes, local
  <2>3. Working(p)'
    BY <2>1 DEF Working, Locked
  <2> QED
    BY <2>1, <2>2, <2>3, OwnStep
<1> QED
  BY <1>1, <1>2

\* Neither the administrator nor a stuttering step moves a process.
LEMMA OutsideKeeps ==
  ASSUME Discipline, UNCHANGED <<disk, hooked, lock, pc, local>>
  PROVE  Discipline'
<1>1. LocalTypes' /\ DiskGood'
  BY SameDisk DEF Discipline, LocalTypes, local
<1>2. \A q \in Procs : Working(q)'
  BY DEF Discipline, Working, Positioned, At
<1> QED
  BY <1>1, <1>2 DEF Discipline

LEMMA NextDiscipline == Discipline /\ [Next]_vars => Discipline'
<1> SUFFICES ASSUME Discipline, [Next]_vars
             PROVE  Discipline'
  OBVIOUS
<1>1. ASSUME NEW p \in Procs, Run(p) \/ Crash(p)
      PROVE  Discipline'
  <2>1. CASE Discover(p) \/ Recover(p)
    BY <2>1, DiscoverKeeps, RecoverReplacementsKeeps, RetryRemovalKeeps, ResumeKeeps,
       RecoveryEndsKeep, RecoverPreparationsKeeps DEF Recover
  <2>2. CASE Attempt(p)
    BY <2>2, AttemptKeeps, TakeLockKeeps, BeginKeeps DEF Attempt
  <2>3. CASE Replace(p)
    BY <2>3, BoundariesKeep, HostStepsKeep, PlanCommitKeeps, CommitInstallKeeps,
       RunHookKeeps, CompleteKeeps DEF Replace
  <2> QED
    BY <1>1, <2>1, <2>2, <2>3, WriteStateKeeps, EndsKeep DEF Run
<1>2. CASE \E k \in Packages : AdminChanges(k)
  BY <1>2, OutsideKeeps DEF AdminChanges
<1>3. CASE UNCHANGED vars
  BY <1>3, OutsideKeeps DEF vars, local
<1> QED
  BY <1>1, <1>2, <1>3 DEF Next

\* Whoever is about to run the hook finds that it has not run.
LEMMA NextHook ==
  ASSUME Discipline, HookRunsOnce, [Next]_vars
  PROVE  HookRunsOnce'
<1>1. ASSUME NEW p \in Procs, Run(p)
      PROVE  HookRunsOnce'
  <2>1. CASE RunHook(p)
    BY <2>1, RunHookKeeps DEF RunHook, HookRunsOnce
  <2>2. CASE BeginReplacement(p)
    BY <2>2 DEF BeginReplacement, HookRunsOnce
  <2>3. CASE UNCHANGED hooked
    BY <2>3 DEF HookRunsOnce
  <2>4. Discover(p) \/ Recover(p) => UNCHANGED hooked
    BY DEF Discover, Recover, RecoverReplacements, RetryRemoval, Resume, RecoveryBlocked,
       RecoveryDone, RecoverPreparations
  <2>5. Attempt(p) => BeginReplacement(p) \/ UNCHANGED hooked
    BY DEF Attempt, PrepareSources, Gate, RunPrerequisites, PrerequisiteFails, TakeLock
  <2>6. Replace(p) => RunHook(p) \/ UNCHANGED hooked
    BY DEF Replace, PlanReplacementRemoval, RemoveOld, RecordReplacementRemoved, PlanCommit,
       PlanReplacementInstall, InstallResolved, CommitReplacementInstall,
       PlanReplacementPostHook, CompleteReplacement
  <2>7. WriteState(p) \/ FinalizeLeakedLock(p) => UNCHANGED hooked
    BY DEF WriteState, FinalizeLeakedLock
  <2> QED
    BY <1>1, <2>1, <2>2, <2>3, <2>4, <2>5, <2>6, <2>7 DEF Run
<1>2. CASE UNCHANGED hooked
  BY <1>2 DEF HookRunsOnce
<1> QED
  BY <1>1, <1>2 DEF Next, Crash, AdminChanges, vars

\* One process at a time is beyond the beginning of a replacement or of its
\* recovery, whatever crashed and whichever save failed: the state lock that
\* internal/exec/replacement.go and run.go take covers every step of both.
THEOREM OneReplacementAtATime ==
  Spec => [](\A p, q \in Procs : pc[p] \in Locked /\ pc[q] \in Locked => p = q)
<1>1. Discipline => \A p, q \in Procs : pc[p] \in Locked /\ pc[q] \in Locked => p = q
  BY DEF Discipline, Working
<1> QED
  BY <1>1, InitDiscipline, NextDiscipline, PTL DEF Spec

\* The after-upgrade hook runs once for a replacement: the boundary is saved
\* before it, and internal/plan/replacement.go authorizes nothing beyond it.
THEOREM HookNeverRepeated == Spec => []HookRunsOnce
<1>1. Init => HookRunsOnce
  BY DEF Init, HookRunsOnce
<1>2. Discipline /\ HookRunsOnce /\ [Next]_vars => HookRunsOnce'
  BY NextHook
<1> QED
  BY <1>1, <1>2, InitDiscipline, NextDiscipline, PTL DEF Spec

(***************************************************************************)
(* What the log says of the host is true, as long as nobody else touches   *)
(* the host and the versions are those of one package; and once it says    *)
(* that the old version is gone, that is so whatever anybody else does.    *)
(***************************************************************************)
SinglePackage == \A v, w \in Versions : PackageOf[v] = PackageOf[w]

Alone == "admin" \notin Faults

(***************************************************************************)
(* The inductive invariant.                                                *)
(***************************************************************************)
On(v) == host[PackageOf[v]]

\* PhaseTellsHost, by what is installed.
HostTells ==
  LET log == disk.log IN
  /\ log.phase = "none" => On(disk.tool.version) = disk.tool.version
  /\ log.phase = "removal_planned" => On(log.from) = log.from
  /\ log.phase = "removing" => On(log.from) \in {log.from, "absent", "broken"}
  /\ log.phase = "removed" => On(log.from) = "absent"
  /\ log.phase = "installing" => On(log.from) # log.from
  /\ log.phase \in {"installed", "post_hook_running"} => On(log.to) = log.to

\* Without a replacement, or once its install is recorded.
Settled == {"none", "installed", "post_hook_running"}

\* What is recorded with the install is the version that was installed, and
\* the resources it uses are claimed.
RecordTells ==
  LET log == disk.log IN
  /\ log.phase \in Settled => UsesOf[disk.tool.version] \subseteq disk.claims
  /\ log.phase \in Settled \ {"none"} => disk.tool.version = log.to

\* A replacement replaces a version by another.
Moves == Open => disk.log.from # disk.log.to

HostGood ==
  /\ host \in [Packages -> Versions \cup {"absent", "broken"}]
  /\ HostTells /\ RecordTells /\ Moves

\* A record that is still the one a process saw differs from its target.
Seeing ==
  disk.log.phase \in Settled =>
    \A p \in Procs : seen[p] # NoVersion => seen[p].version # target[p]

Verifying == {"record", "finish", "commit_found", "install_boundary_found"}

\* What a process has verified and not yet saved; recovery never finds a
\* target installed whose installation it has not begun.
Sees(p) ==
  /\ At(p, "record") => On(disk.log.from) = "absent"
  /\ At(p, "finish") => On(disk.log.to) = disk.log.to
  /\ pc[p] \notin {"commit_found", "install_boundary_found"}

Truth == HostGood /\ Seeing /\ \A p \in Procs : Sees(p)

(***************************************************************************)
(* The host.                                                               *)
(***************************************************************************)
\* What a verdict says of what is installed.
LEMMA Verdicts ==
  ASSUME NEW h, NEW v \in Versions
  PROVE  /\ VerdictOn(h, v) = "satisfied" <=> h[PackageOf[v]] = v
         /\ VerdictOn(h, v) = "absent" <=> h[PackageOf[v]] = "absent"
         /\ VerdictOn(h, v) = "broken" <=> h[PackageOf[v]] = "broken"
<1>1. v # "absent" /\ v # "broken"
  BY VersionsAssumption
<1> QED
  BY <1>1 DEF VerdictOn

\* Every version is at the place of every other.
LEMMA Places ==
  ASSUME SinglePackage, NEW v \in Versions, NEW w \in Versions
  PROVE  On(v) = On(w) /\ PackageOf[v] \in Packages
  BY DEF SinglePackage, On, Packages

\* The invariant says what the property does.
LEMMA TruthTells == Discipline /\ Truth => PhaseTells
<1> SUFFICES ASSUME Discipline, Truth
             PROVE  PhaseTells
  OBVIOUS
<1> DEFINE log == disk.log
<1>1. log.phase \in Phases /\ disk.tool.version \in Versions
  BY DEF Discipline, DiskGood, DiskTypes, Logs, ToolRecords
<1>2. log.phase # "none" => log.from \in Versions /\ log.to \in Versions
  BY DEF Discipline, DiskGood, DiskTypes, Open
<1>3. PhaseTellsHost
  <2>1. CASE log.phase = "none"
    BY <1>1, <2>1, Verdicts DEF PhaseTellsHost, Truth, HostGood, HostTells, On, Verdict
  <2>2. CASE log.phase = "removal_planned"
    BY <1>2, <2>2, Verdicts DEF PhaseTellsHost, Truth, HostGood, HostTells, On, Verdict
  <2>3. CASE log.phase = "removing"
    <3>1. Verdict(log.from) \in {"satisfied", "absent", "broken"}
      BY <1>2, <2>3, Verdicts DEF Truth, HostGood, HostTells, On, Verdict
    <3> QED
      BY <2>3, <3>1 DEF PhaseTellsHost
  <2>4. CASE log.phase = "removed"
    BY <1>2, <2>4, Verdicts DEF PhaseTellsHost, Truth, HostGood, HostTells, On, Verdict
  <2>5. CASE log.phase = "installing"
    BY <1>2, <2>5, Verdicts DEF PhaseTellsHost, Truth, HostGood, HostTells, On, Verdict
  <2>6. CASE log.phase \in {"installed", "post_hook_running"}
    <3>1. Verdict(log.to) = "satisfied"
      BY <1>2, <2>6, Verdicts DEF Truth, HostGood, HostTells, On, Verdict
    <3> QED
      BY <2>6, <3>1 DEF PhaseTellsHost
  <2> QED
    BY <1>1, <2>1, <2>2, <2>3, <2>4, <2>5, <2>6 DEF Phases
<1>4. PhaseTellsClaims
  BY DEF PhaseTellsClaims, Open, Truth, HostGood, RecordTells, Settled
<1> QED
  BY <1>3, <1>4 DEF PhaseTells, Discipline, DiskGood

(***************************************************************************)
(* What the parts of a step do.                                            *)
(***************************************************************************)
\* Nobody sees anything new.
Forgetting ==
  \A q \in Procs : \/ seen'[q] = NoVersion
                   \/ seen'[q] = seen[q] /\ target'[q] = target[q]

LEMMA LocalForgets ==
  ASSUME UNCHANGED local
  PROVE  Forgetting
  BY DEF local, Forgetting

LEMMA StopForgets ==
  ASSUME LocalTypes, NEW p \in Procs, Stops(p)
  PROVE  Forgetting
<1>1. ASSUME NEW view \in {seen, Unseen}, ResetSeeing(p, view)
      PROVE  Forgetting
  <2>1. view \in [Procs -> ToolRecords \cup {NoVersion}]
    BY UnseenType DEF LocalTypes
  <2>2. ASSUME NEW q \in Procs
        PROVE  view[q] = NoVersion \/ view[q] = seen[q]
    BY DEF Unseen
  <2> QED
    BY <1>1, <2>1, <2>2 DEF ResetSeeing, LocalTypes, Forgetting
<1>2. CASE UNCHANGED local
  BY <1>2, LocalForgets
<1>3. UNCHANGED local \/ \E view \in {seen, Unseen} : ResetSeeing(p, view)
  BY DEF Stops, Fail, Reset
<1> QED
  BY <1>1, <1>2, <1>3

\* Only one process acts, and it has verified nothing that is to be saved.
Alike(p) ==
  /\ \A q \in Procs \ {p} : pc'[q] = pc[q]
  /\ pc'[p] \notin Verifying

LEMMA StopAlike ==
  ASSUME LocalTypes, NEW p \in Procs, Stops(p)
  PROVE  Alike(p) /\ Forgetting
<1>1. pc'[p] \in {"idle", "report"} /\ \A q \in Procs \ {p} : pc'[q] = pc[q]
  BY StopTypes
<1> QED
  BY <1>1, StopForgets DEF Alike, Verifying

LEMMA GoAlike ==
  ASSUME LocalTypes, NEW p \in Procs, NEW label, label \notin Verifying, Go(p, label)
  PROVE  Alike(p)
  BY DEF LocalTypes, Go, Alike

\* A step that leaves the host, the record and the log as they are.
LEMMA QuietKeeps ==
  ASSUME Truth, NEW p \in Procs, Alike(p), Forgetting, UNCHANGED host,
         disk'.tool = disk.tool, disk'.log = disk.log, disk'.claims = disk.claims
  PROVE  Truth'
<1>1. HostGood'
  BY DEF Truth, HostGood, HostTells, RecordTells, Moves, Open, On
<1>2. Seeing'
  BY DEF Truth, Seeing, Forgetting
<1>3. \A q \in Procs : Sees(q)'
  BY DEF Truth, Sees, Alike, Verifying, At, On
<1> QED
  BY <1>1, <1>2, <1>3 DEF Truth

\* A step under the lock: nobody else has verified anything.
LEMMA HolderKeeps ==
  ASSUME Discipline, Truth, NEW p \in Procs, lock = p,
         \A q \in Procs \ {p} : pc'[q] = pc[q],
         HostGood', Seeing', Sees(p)'
  PROVE  Truth'
<1>1. ASSUME NEW q \in Procs \ {p}
      PROVE  Sees(q)'
  <2>1. pc[q] \notin Locked
    BY DEF Discipline, Working
  <2> QED
    BY <2>1 DEF Locked, Sees, At
<1> QED
  BY <1>1 DEF Truth

(***************************************************************************)
(* The steps.                                                              *)
(***************************************************************************)
LEMMA InitTruth == Init => Truth
<1> SUFFICES ASSUME Init
             PROVE  Truth
  OBVIOUS
<1>1. disk.log.phase = "none" /\ UsesOf[disk.tool.version] \subseteq disk.claims
  BY DEF Init, NoLog
<1>2. HostGood
  BY <1>1 DEF Init, HostGood, HostTells, RecordTells, Moves, Open, On, Settled
<1>3. Seeing /\ \A p \in Procs : Sees(p)
  BY DEF Init, Seeing, Sees, At
<1> QED
  BY <1>2, <1>3 DEF Truth

\* What an upgrade is started for differs from what is recorded.
LEMMA DiscoverTells ==
  ASSUME SinglePackage, Discipline, Truth, NEW p \in Procs, Discover(p)
  PROVE  Truth'
<1>1. UNCHANGED <<disk, host>> /\ Go(p, "start")
  BY DEF Discover
<1>2. Alike(p)
  BY <1>1, GoAlike DEF Discipline, Verifying
<1>3. HostGood' /\ \A q \in Procs : Sees(q)'
  BY <1>1, <1>2 DEF Truth, HostGood, HostTells, RecordTells, Moves, Open, On, Sees, Alike,
     Verifying, At
<1>4. Seeing'
  <2>1. CASE UNCHANGED <<target, seen>>
    BY <1>1, <2>1 DEF Truth, Seeing
  <2>2. ASSUME NEW v \in Versions, Verdict(v) = "drifted",
               target' = [target EXCEPT ![p] = v], seen' = [seen EXCEPT ![p] = disk.tool]
        PROVE  Seeing'
    <3>1. On(v) # v
      BY <2>2 DEF Verdict, VerdictOn, On
    <3>2. ASSUME disk.log.phase \in Settled
          PROVE  disk.tool.version # v
      <4>1. On(disk.tool.version) = disk.tool.version
        BY <3>2 DEF Truth, HostGood, HostTells, RecordTells, Settled
      <4> QED
        BY <3>1, <4>1
    <3>3. ASSUME NEW q \in Procs, disk.log.phase \in Settled, seen'[q] # NoVersion
          PROVE  seen'[q].version # target'[q]
      BY <2>2, <3>2, <3>3 DEF Truth, Seeing, Discipline, LocalTypes
    <3> QED
      BY <1>1, <3>3 DEF Seeing
  <2> QED
    BY <2>1, <2>2 DEF Discover
<1> QED
  BY <1>3, <1>4 DEF Truth

\* The steps of recovery and of the attempt that save nothing of the log.
LEMMA QuietSteps ==
  ASSUME Discipline, Truth, NEW p \in Procs,
         \/ RecoverReplacements(p) \/ RecoveryBlocked(p) \/ RecoveryDone(p)
         \/ PrepareSources(p) \/ Gate(p) \/ RunPrerequisites(p) \/ PrerequisiteFails(p)
         \/ TakeLock(p) \/ RunHook(p) \/ FinalizeLeakedLock(p) \/ Crash(p)
  PROVE  Truth'
<1>1. /\ UNCHANGED host
      /\ \/ Stops(p)
         \/ UNCHANGED <<pc, local>>
         \/ UNCHANGED local /\ \E label \in {"recover", "unprepare", "gate", "report", "deps",
                                             "resume", "begin", "complete", "complete_failed"} :
                                 Go(p, label)
  BY DEF RecoverReplacements, RecoveryBlocked, RecoveryDone, PrepareSources, Gate,
     RunPrerequisites, PrerequisiteFails, TakeLock, RunHook, FinalizeLeakedLock, Crash,
     Stops, Reset
<1>2. \/ disk' = disk
      \/ \E status \in {"none", "pending", "ready"} : disk' = [disk EXCEPT !.prep = status]
  BY DEF RecoverReplacements, RecoveryBlocked, RecoveryDone, PrepareSources, Gate,
     RunPrerequisites, PrerequisiteFails, TakeLock, RunHook, FinalizeLeakedLock, Crash
<1>3. disk'.tool = disk.tool /\ disk'.log = disk.log /\ disk'.claims = disk.claims
  BY <1>2 DEF Discipline, DiskGood, DiskTypes
<1>4. CASE UNCHANGED <<pc, local>>
  <2>1. Forgetting
    BY <1>4, LocalForgets
  <2>2. HostGood' /\ Seeing' /\ \A q \in Procs : Sees(q)'
    BY <1>1, <1>3, <1>4, <2>1 DEF Truth, HostGood, HostTells, RecordTells, Moves, Open, On,
       Seeing, Forgetting, Sees, At
  <2> QED
    BY <2>2 DEF Truth
<1>5. CASE Stops(p)
  BY <1>1, <1>3, <1>5, StopAlike, QuietKeeps DEF Discipline
<1>6. ASSUME UNCHANGED local,
             NEW label \in {"recover", "unprepare", "gate", "report", "deps",
                            "resume", "begin", "complete", "complete_failed"},
             Go(p, label)
      PROVE  Truth'
  BY <1>1, <1>3, <1>6, LocalForgets, GoAlike, QuietKeeps DEF Discipline, Verifying
<1> QED
  BY <1>1, <1>4, <1>5, <1>6

\* Recovery takes a replacement up where the host says that it stopped.
LEMMA ResumeTells ==
  ASSUME SinglePackage, Discipline, Truth, NEW p \in Procs, Resume(p)
  PROVE  Truth'
<1> DEFINE log == disk.log
<1>1. /\ pc[p] = "recover" /\ Open /\ Go(p, Resumed)
      /\ RecoveryAction \notin {"retry_removal", "blocked"}
      /\ UNCHANGED <<disk, host, lock, local>>
  BY DEF Resume, Recovering, At
<1>2. lock = p
  BY <1>1, Holding DEF Locked
<1>3. log.from \in Versions /\ log.to \in Versions
  BY <1>1 DEF Discipline, DiskGood, DiskTypes
<1>4. /\ RecoveryAction = "record_removed" => On(log.from) = "absent"
      /\ RecoveryAction = "record_installed" => On(log.to) = log.to /\ log.phase # "removed"
  <2>1. RecoveryAction = "record_removed" => Verdict(log.from) = "absent"
    BY DEF RecoveryAction, ReplacementRecoveryFor
  <2>2. RecoveryAction = "record_installed" => Verdict(log.to) = "satisfied"
    BY DEF RecoveryAction, ReplacementRecoveryFor
  <2>3. On(log.to) = log.to => log.phase # "removed"
    <3>1. log.phase = "removed" => On(log.to) = "absent"
      BY <1>3, Places DEF Truth, HostGood, HostTells
    <3> QED
      BY <1>3, <3>1, VersionsAssumption
  <2> QED
    BY <1>3, <2>1, <2>2, <2>3, Verdicts DEF Verdict, On
<1>5. /\ Resumed \notin {"commit_found", "install_boundary_found"}
      /\ Resumed = "record" => On(log.from) = "absent"
      /\ Resumed = "finish" => On(log.to) = log.to
  <2>1. CASE RecoveryAction = "record_removed"
    BY <1>4, <2>1 DEF Resumed
  <2>2. CASE RecoveryAction = "start_install"
    BY <2>2 DEF Resumed
  <2>3. CASE RecoveryAction = "record_installed"
    BY <1>4, <2>3 DEF Resumed
  <2>4. CASE RecoveryAction = "continue_installed"
    BY <2>4 DEF Resumed, AfterInstalled
  <2> QED
    BY <1>1, <2>1, <2>2, <2>3, <2>4, RecoveryPhases
<1>6. pc'[p] = Resumed /\ \A q \in Procs \ {p} : pc'[q] = pc[q]
  BY <1>1 DEF Go, Discipline, LocalTypes
<1>7. HostGood' /\ Seeing'
  BY <1>1, LocalForgets DEF Truth, HostGood, HostTells, RecordTells, Moves, Open, On, Seeing,
     Forgetting
<1>8. Sees(p)'
  BY <1>1, <1>5, <1>6 DEF Sees, At, On
<1> QED
  BY <1>2, <1>6, <1>7, <1>8, HolderKeeps

LEMMA RecoverPreparationsTells ==
  ASSUME Discipline, Truth, NEW p \in Procs, RecoverPreparations(p)
  PROVE  Truth'
<1>1. UNCHANGED <<host, lock>>
  BY DEF RecoverPreparations
<1>2. CASE UNCHANGED disk /\ Reset(p)
  BY <1>1, <1>2, StopAlike, QuietKeeps DEF Stops, Reset, Discipline
<1>3. CASE /\ disk' = [disk EXCEPT !.prep = "none"]
           /\ Go(p, "report") \/ Go(p, "prepare")
           /\ UNCHANGED <<seen, target>>
  <2>1. Alike(p)
    BY <1>3, GoAlike DEF Discipline, Verifying
  <2>2. disk'.tool = disk.tool /\ disk'.log = disk.log /\ disk'.claims = disk.claims
    BY <1>3 DEF Discipline, DiskGood, DiskTypes
  <2> QED
    BY <1>1, <1>3, <2>1, <2>2, QuietKeeps DEF Forgetting
<1>4. CASE /\ disk.prep = "committing" /\ UNCHANGED pc /\ seen' = Unseen
           /\ disk' = [disk EXCEPT !.prep = "none", !.claims = @ \cup UsesOf[disk.log.to],
                         !.tool = [version |-> disk.log.to, post |-> FALSE]]
  <2>1. disk.log.phase \in {"removed", "installing"} /\ disk'.log = disk.log
    BY <1>4 DEF Discipline, DiskGood, DiskTypes, PhaseTellsPreparation, CanPlanInstall
  <2>2. HostGood'
    BY <1>1, <2>1 DEF Truth, HostGood, HostTells, RecordTells, Moves, Open, On, Settled
  <2>3. Seeing' /\ \A q \in Procs : Sees(q)'
    BY <1>1, <1>4, <2>1 DEF Truth, Seeing, Settled, Sees, At, On
  <2> QED
    BY <2>2, <2>3 DEF Truth
<1> QED
  BY <1>2, <1>3, <1>4 DEF RecoverPreparations, report

\* A save of the next phase, when the host is what that phase says.
LEMMA PhaseStep ==
  ASSUME Discipline, Truth, NEW p \in Procs, lock = p, UNCHANGED host,
         Alike(p), Forgetting,
         NEW phase \in {"removing", "removed", "installing", "post_hook_running"},
         disk' = Advanced(phase),
         phase = "removing" => disk.log.phase \in {"removal_planned", "removing"},
         phase = "removed" => disk.log.phase = "removing" /\ On(disk.log.from) = "absent",
         phase = "installing" => disk.log.phase = "removed",
         phase = "post_hook_running" => disk.log.phase = "installed"
  PROVE  Truth'
<1>1. /\ disk'.log.phase = phase
      /\ disk'.log.from = disk.log.from /\ disk'.log.to = disk.log.to
      /\ disk'.tool = disk.tool /\ disk'.claims = disk.claims
  BY DEF Discipline, DiskGood, DiskTypes, Logs, Advanced
<1>2. Open /\ disk.log.from \in Versions /\ disk.log.from # "absent"
  BY VersionsAssumption DEF Discipline, DiskGood, DiskTypes, Open
<1>3. HostTells'
  BY <1>1, <1>2 DEF Truth, HostGood, HostTells, On
<1>4. HostGood'
  BY <1>1, <1>2, <1>3 DEF Truth, HostGood, RecordTells, Moves, Open, Settled
<1>5. Seeing'
  BY <1>1 DEF Truth, Seeing, Forgetting, Settled
<1>6. Sees(p)'
  BY DEF Alike, Sees, Verifying, At
<1> QED
  BY <1>4, <1>5, <1>6, HolderKeeps DEF Alike

LEMMA PersistAlike ==
  ASSUME Discipline, NEW p \in Procs, NEW new, NEW label, label \notin Verifying,
         Persist(p, new, label)
  PROVE  Alike(p) /\ Forgetting
<1>1. CASE Go(p, label) /\ UNCHANGED local
  BY <1>1, GoAlike, LocalForgets DEF Discipline
<1>2. CASE Stops(p)
  BY <1>2, StopAlike DEF Discipline
<1> QED
  BY <1>1, <1>2, PersistOutcome

LEMMA BoundariesTell ==
  ASSUME Discipline, Truth, NEW p \in Procs,
         \/ RetryRemoval(p) \/ PlanReplacementRemoval(p) \/ RecordReplacementRemoved(p)
         \/ PlanReplacementInstall(p) \/ PlanReplacementPostHook(p)
  PROVE  Truth'
<1>1. PICK next \in {<<"removing", "remove">>, <<"removed", "commit">>,
                     <<"installing", "install">>, <<"post_hook_running", "hook">>} :
        /\ Persist(p, Advanced(next[1]), next[2])
        /\ next[1] = "removing" => CanPlanRemove(disk.log.phase)
        /\ next[1] = "removed" => pc[p] = "record"
        /\ next[1] = "installing" => pc[p] = "install_boundary"
        /\ next[1] = "post_hook_running" => pc[p] = "hook_boundary"
        /\ pc[p] \in Locked /\ UNCHANGED host
  <2>1. CASE RetryRemoval(p)
    BY <2>1, RecoveryPhases DEF RetryRemoval, Recovering, At, Locked
  <2>2. CASE PlanReplacementRemoval(p)
    BY <2>2 DEF PlanReplacementRemoval, At, Locked
  <2>3. CASE RecordReplacementRemoved(p)
    BY <2>3 DEF RecordReplacementRemoved, At, Locked
  <2>4. CASE PlanReplacementInstall(p)
    BY <2>4 DEF PlanReplacementInstall, At, Locked, Truth, Sees
  <2>5. CASE PlanReplacementPostHook(p)
    BY <2>5 DEF PlanReplacementPostHook, At, Locked
  <2> QED
    BY <2>1, <2>2, <2>3, <2>4, <2>5
<1>2. lock = p /\ Positioned(p) /\ Sees(p)
  BY <1>1, Holding DEF Truth
<1>3. Alike(p) /\ Forgetting
  BY <1>1, PersistAlike DEF Verifying
<1>4. CASE disk' = disk
  BY <1>1, <1>3, <1>4, QuietKeeps
<1>5. CASE disk' = Advanced(next[1])
  <2>1. /\ next[1] = "removing" => disk.log.phase \in {"removal_planned", "removing"}
        /\ next[1] = "removed" => disk.log.phase = "removing" /\ On(disk.log.from) = "absent"
        /\ next[1] = "installing" => disk.log.phase = "removed"
        /\ next[1] = "post_hook_running" => disk.log.phase = "installed"
    BY <1>1, <1>2 DEF Positioned, Sees, At, CanPlanRemove
  <2>2. next[1] \in {"removing", "removed", "installing", "post_hook_running"}
    BY <1>1
  <2> QED
    BY <1>1, <1>2, <1>3, <1>5, <2>1, <2>2, PhaseStep
<1> QED
  BY <1>1, <1>4, <1>5, PersistOutcome

\* The replacement of the version that is recorded and installed begins, by
\* another one.
LEMMA BeginTells ==
  ASSUME Discipline, Truth, NEW p \in Procs, BeginReplacement(p)
  PROVE  Truth'
<1> DEFINE log == [phase |-> "removal_planned", from |-> disk.tool.version,
                   to |-> target[p], keyed |-> Preparation # "none"]
           begun == [disk EXCEPT !.log = log]
<1>1. pc[p] = "begin" /\ UNCHANGED host
  BY DEF BeginReplacement, At
<1>2. lock = p
  BY <1>1, Holding DEF Locked
<1>3. CASE Fail(p) /\ UNCHANGED disk
  BY <1>1, <1>3, StopAlike, QuietKeeps DEF Stops, Discipline
<1>4. CASE RecordUnchanged(p) /\ ~Open /\ Persist(p, begun, "boundary")
  <2>1. Alike(p) /\ Forgetting
    <3> HIDE DEF begun
    <3> QED
      BY <1>4, PersistAlike DEF Verifying
  <2>2. CASE disk' = disk
    BY <1>1, <2>1, <2>2, QuietKeeps
  <2>3. CASE disk' = begun
    <3>1. disk'.log = log
      BY <2>3 DEF Discipline, DiskGood, DiskTypes
    <3>2. disk.log.phase = "none" /\ disk.tool \in ToolRecords
      BY <1>4 DEF Open, Discipline, DiskGood, DiskTypes
    <3>3. disk.tool.version # target[p]
      BY <1>4, <3>2, VersionsAssumption DEF RecordUnchanged, Truth, Seeing, Settled
    <3>4. On(disk.tool.version) = disk.tool.version
      BY <3>2 DEF Truth, HostGood, HostTells
    <3>5. HostGood'
      BY <1>1, <3>1, <3>3, <3>4 DEF Truth, HostGood, HostTells, RecordTells, Moves, Open, On,
         Settled
    <3>6. Seeing' /\ Sees(p)'
      BY <2>1, <3>1 DEF Seeing, Settled, Alike, Sees, Verifying, At
    <3> QED
      BY <1>2, <2>1, <3>5, <3>6, HolderKeeps DEF Alike
  <2> QED
    BY <1>4, <2>2, <2>3, PersistOutcome
<1> QED
  BY <1>3, <1>4 DEF BeginReplacement

LEMMA PlanCommitTells ==
  ASSUME Discipline, Truth, NEW p \in Procs, PlanCommit(p)
  PROVE  Truth'
<1>1. PlanPreparationCommit(p, "install_boundary") /\ UNCHANGED host
  BY DEF PlanCommit, Truth, Sees, At
<1>2. CASE Fail(p) /\ UNCHANGED disk
  BY <1>1, <1>2, StopAlike, QuietKeeps DEF Stops, Discipline
<1>3. CASE Go(p, "install_boundary") /\ UNCHANGED <<disk, local>>
  BY <1>1, <1>3, GoAlike, LocalForgets, QuietKeeps DEF Discipline, Verifying
<1>4. CASE Persist(p, [disk EXCEPT !.prep = "committing"], "install_boundary")
  <2> DEFINE new == [disk EXCEPT !.prep = "committing"]
  <2>1. new.tool = disk.tool /\ new.log = disk.log /\ new.claims = disk.claims
    BY DEF Discipline, DiskGood, DiskTypes
  <2> HIDE DEF new
  <2>2. disk' \in {disk, new} /\ Alike(p) /\ Forgetting
    BY <1>4, PersistOutcome, PersistAlike DEF Verifying, new
  <2> QED
    BY <1>1, <2>1, <2>2, QuietKeeps
<1> QED
  BY <1>1, <1>2, <1>3, <1>4 DEF PlanPreparationCommit

\* A removal leaves the old installation, or part of it, or nothing; what an
\* install leaves is not the old one.
LEMMA HostStepsTell ==
  ASSUME SinglePackage, Discipline, Truth, NEW p \in Procs, RemoveOld(p) \/ InstallResolved(p)
  PROVE  Truth'
<1> DEFINE log == disk.log
<1>1. UNCHANGED disk
  BY DEF RemoveOld, InstallResolved
<1>2. pc[p] \in {"remove", "install"}
  BY DEF RemoveOld, InstallResolved, At
<1>3. /\ lock = p
      /\ pc[p] = "remove" => log.phase = "removing"
      /\ pc[p] = "install" => log.phase = "installing"
  BY <1>2, Holding DEF Locked, Positioned
<1>4. /\ log.from \in Versions /\ log.to \in Versions /\ log.from # log.to
      /\ log.from \notin {"absent", "broken"} /\ log.to \notin {"absent", "broken"}
  BY <1>2, <1>3, VersionsAssumption DEF Discipline, DiskGood, DiskTypes, Open, Truth, HostGood,
     Moves
<1>5. PackageOf[log.to] = PackageOf[log.from] /\ PackageOf[log.from] \in Packages
  BY <1>4, Places DEF SinglePackage
<1> DEFINE k == PackageOf[log.from]
<1>6. /\ \/ Stops(p)
         \/ Go(p, "record") /\ UNCHANGED local
            /\ log.phase = "removing" /\ host' = [host EXCEPT ![k] = "absent"]
         \/ Go(p, "finish") /\ UNCHANGED local
            /\ log.phase = "installing" /\ host' = [host EXCEPT ![k] = log.to]
      /\ \/ log.phase = "removing"
            /\ \E left \in {host[k], "absent", "broken"} : host' = [host EXCEPT ![k] = left]
         \/ log.phase = "installing"
            /\ \E left \in {host[k], "broken", log.to} : host' = [host EXCEPT ![k] = left]
  <2>1. CASE RemoveOld(p)
    BY <1>3, <2>1 DEF RemoveOld, Stops, At
  <2>2. CASE InstallResolved(p)
    BY <1>3, <1>5, <2>2 DEF InstallResolved, Stops, At
  <2> QED
    BY <2>1, <2>2
<1>7. HostGood'
  <2>1. host' \in [Packages -> Versions \cup {"absent", "broken"}]
    BY <1>4, <1>5, <1>6 DEF Truth, HostGood
  <2>2. log.phase = "removing" => host'[k] \in {log.from, "absent", "broken"}
    BY <1>5, <1>6 DEF Truth, HostGood, HostTells, On
  <2>3. log.phase = "installing" => host'[k] # log.from
    BY <1>4, <1>5, <1>6 DEF Truth, HostGood, HostTells, On
  <2>4. log.phase \in {"removing", "installing"}
    BY <1>2, <1>3
  <2>5. HostTells'
    BY <1>1, <2>2, <2>3, <2>4 DEF HostTells, On
  <2> QED
    BY <1>1, <2>1, <2>5 DEF Truth, HostGood, RecordTells, Moves, Open
<1>8. /\ \A q \in Procs \ {p} : pc'[q] = pc[q]
      /\ Forgetting
      /\ \/ pc'[p] \notin Verifying
         \/ pc'[p] = "record" /\ host'[k] = "absent"
         \/ pc'[p] = "finish" /\ host'[k] = log.to
  <2>1. CASE Stops(p)
    BY <2>1, StopAlike DEF Discipline, Alike
  <2>2. CASE ~Stops(p)
    BY <1>5, <1>6, <2>2, LocalForgets DEF Discipline, LocalTypes, Go, Truth, HostGood
  <2> QED
    BY <2>1, <2>2
<1>9. Seeing' /\ Sees(p)'
  BY <1>1, <1>5, <1>8 DEF Truth, Seeing, Forgetting, Sees, Verifying, At, On
<1> QED
  BY <1>3, <1>7, <1>8, <1>9, HolderKeeps

\* The record, the claims and the phase change at once, and every process that
\* saw the old record has seen another.
LEMMA CommitInstallTells ==
  ASSUME Discipline, Truth, NEW p \in Procs, CommitReplacementInstall(p)
  PROVE  Truth'
<1>1. pc[p] = "finish" /\ UNCHANGED host
  BY DEF CommitReplacementInstall, At
<1>2. lock = p /\ disk.log.phase = "installing" /\ On(disk.log.to) = disk.log.to
  BY <1>1, Holding DEF Locked, Positioned, Truth, Sees, At
<1>3. /\ disk' = disk \/ disk' = Installed
      /\ \/ \E view \in {seen, Unseen} : ResetSeeing(p, view) /\ (disk' = disk \/ view = Unseen)
                                         /\ Unlocked(p)
         \/ /\ Go(p, "hook_boundary") \/ Go(p, "complete") \/ Go(p, "report")
            /\ UNCHANGED target
            /\ seen' = Unseen \/ (disk' = disk /\ seen' = seen)
  BY DEF CommitReplacementInstall, AfterInstalled
<1>4. Alike(p) /\ Forgetting
  <2>1. CASE \E view \in {seen, Unseen} : ResetSeeing(p, view) /\ Unlocked(p)
    BY <2>1, StopAlike DEF Stops, Discipline
  <2>2. CASE /\ Go(p, "hook_boundary") \/ Go(p, "complete") \/ Go(p, "report")
             /\ UNCHANGED target
             /\ seen' \in {Unseen, seen}
    BY <2>2, GoAlike DEF Discipline, Forgetting, Unseen, Verifying
  <2> QED
    BY <1>3, <2>1, <2>2
<1>5. CASE disk' = disk
  BY <1>1, <1>4, <1>5, QuietKeeps
<1>6. CASE disk' = Installed /\ disk' # disk
  <2>1. /\ disk'.log.phase = "installed" /\ disk'.log.to = disk.log.to
        /\ disk'.log.from = disk.log.from
        /\ disk'.tool.version = disk.log.to /\ disk'.claims = UsesOf[disk.log.to]
    BY <1>6 DEF Discipline, DiskGood, DiskTypes, Logs, ToolRecords, Installed
  <2>2. HostGood'
    BY <1>1, <1>2, <2>1 DEF Truth, HostGood, HostTells, RecordTells, Moves, Open, On, Settled
  <2>3. \A q \in Procs : seen'[q] = NoVersion
    BY <1>3, <1>6 DEF ResetSeeing, Unseen
  <2>4. Seeing' /\ Sees(p)'
    BY <1>4, <2>3 DEF Seeing, Alike, Sees, Verifying, At
  <2> QED
    BY <1>2, <1>4, <2>2, <2>4, HolderKeeps DEF Alike
<1> QED
  BY <1>3, <1>5, <1>6

\* A replacement is closed on what its install recorded.
LEMMA CompleteTells ==
  ASSUME Discipline, Truth, NEW p \in Procs, CompleteReplacement(p)
  PROVE  Truth'
<1> DEFINE ran == At(p, "complete") /\ Hooks
           closed == [disk EXCEPT !.log = NoLog, !.tool.post = ran]
<1>1. pc[p] \in {"complete", "complete_failed"} /\ UNCHANGED host
  BY DEF CompleteReplacement
<1>2. lock = p /\ disk.log.phase \in {"installed", "post_hook_running"}
  BY <1>1, Holding DEF Locked, Positioned
<1>3. /\ disk' = disk \/ disk' = closed
      /\ \/ Fail(p)
         \/ /\ Go(p, "recover") \/ Go(p, "report")
            /\ UNCHANGED <<seen, target>>
  BY <1>1 DEF CompleteReplacement
<1>4. Alike(p) /\ Forgetting
  <2>1. CASE Fail(p)
    BY <2>1, StopAlike DEF Stops, Discipline
  <2>2. CASE (Go(p, "recover") \/ Go(p, "report")) /\ UNCHANGED <<seen, target>>
    BY <2>2, GoAlike DEF Discipline, Forgetting, Verifying
  <2> QED
    BY <1>3, <2>1, <2>2
<1>5. CASE disk' = disk
  BY <1>1, <1>4, <1>5, QuietKeeps
<1>6. CASE disk' = closed
  <2>1. /\ disk'.log.phase = "none"
        /\ disk'.tool.version = disk.tool.version /\ disk'.claims = disk.claims
    BY <1>6 DEF Discipline, DiskGood, DiskTypes, ToolRecords, NoLog
  <2>2. disk.tool.version = disk.log.to /\ On(disk.log.to) = disk.log.to
    BY <1>2 DEF Truth, HostGood, HostTells, RecordTells, Settled
  <2>3. HostGood'
    BY <1>1, <1>2, <2>1, <2>2 DEF Truth, HostGood, HostTells, RecordTells, Moves, Open, On,
       Settled
  <2>4. Seeing' /\ Sees(p)'
    BY <1>2, <1>4, <2>1 DEF Truth, Seeing, Forgetting, Settled, Alike, Sees, Verifying, At
  <2> QED
    BY <1>2, <1>4, <2>3, <2>4, HolderKeeps DEF Alike
<1> QED
  BY <1>3, <1>5, <1>6

\* The final write of a run records what is installed, which the record says
\* already unless a replacement is under way.
LEMMA WriteStateTells ==
  ASSUME SinglePackage, Discipline, Truth, NEW p \in Procs, WriteState(p)
  PROVE  Truth'
<1> DEFINE new == WithCommitted(p, WithRecovered(p))
<1>1. /\ UNCHANGED host
      /\ \E view \in {seen, Unseen} : ResetSeeing(p, view)
      /\ UNCHANGED lock
  BY DEF WriteState, Reset
<1>2. Alike(p) /\ Forgetting
  BY <1>1, StopAlike DEF Stops, Discipline
<1>3. CASE UNCHANGED disk
  BY <1>1, <1>2, <1>3, QuietKeeps
<1>4. CASE disk' = new
  <2>1. /\ new \in [tool : ToolRecords, claims : SUBSET Resources, log : Logs,
                    prep : {"none", "pending", "ready", "committing"}]
        /\ new.log = disk.log /\ disk.claims \subseteq new.claims
    BY WrittenState DEF Discipline, DiskGood
  <2>2. ASSUME disk.log.phase \in Settled
        PROVE  new.tool.version = disk.tool.version
    <3> DEFINE old == disk.tool.version
    <3>1. /\ \A v \in Versions : On(v) = old
          /\ old \in Versions
      <4>1. old \in Versions /\ On(old) = old
        BY <2>2 DEF Discipline, DiskGood, DiskTypes, ToolRecords, Truth, HostGood, HostTells,
           RecordTells, Settled
      <4> QED
        BY <4>1, Places
    <3>2. /\ WithRecovered(p).tool.version = old
          /\ WithRecovered(p) \in [tool : ToolRecords, claims : SUBSET Resources, log : Logs,
                                   prep : {"none", "pending", "ready", "committing"}]
      <4>1. recovered[p] # NoVersion => Reported(recovered[p]) = old
        BY <3>1 DEF Discipline, LocalTypes, Recorded, Reported, On
      <4> QED
        BY <3>1, <4>1 DEF WithRecovered, Discipline, DiskGood, DiskTypes, ToolRecords
    <3>3. CASE "committed" \notin done[p]
      BY <3>2, <3>3 DEF WithCommitted
    <3>4. CASE "committed" \in done[p]
      <4>1. target[p] \in Versions
        BY <3>4 DEF Discipline, LocalTypes
      <4>2. host[PackageOf[target[p]]] = old
        BY <3>1, <4>1 DEF On
      <4> QED
        BY <3>1, <3>2, <3>4, <4>2 DEF WithCommitted
    <3> QED
      BY <3>3, <3>4
  <2> HIDE DEF new
  <2>3. HostGood'
    BY <1>1, <1>4, <2>1, <2>2 DEF Truth, HostGood, HostTells, RecordTells, Moves, Open, On,
       Settled
  <2>4. Seeing' /\ \A q \in Procs : Sees(q)'
    BY <1>1, <1>2, <1>4, <2>1 DEF Truth, Seeing, Forgetting, Alike, Sees, Verifying, At, On
  <2> QED
    BY <2>3, <2>4 DEF Truth
<1> QED
  BY <1>3, <1>4 DEF WriteState

LEMMA StutterTells ==
  ASSUME Truth, UNCHANGED vars
  PROVE  Truth'
<1>1. HostGood' /\ Seeing'
  BY DEF vars, Truth, HostGood, HostTells, RecordTells, Moves, Open, On, Seeing
<1>2. \A q \in Procs : Sees(q)'
  BY DEF vars, Truth, Sees, At, On
<1> QED
  BY <1>1, <1>2 DEF Truth

LEMMA NextTruth ==
  ASSUME SinglePackage, Alone, Discipline, Truth, [Next]_vars
  PROVE  Truth'
<1>1. ASSUME NEW p \in Procs, Run(p) \/ Crash(p)
      PROVE  Truth'
  <2>1. CASE Discover(p) \/ Recover(p)
    BY <2>1, DiscoverTells, QuietSteps, BoundariesTell, ResumeTells, RecoverPreparationsTells
       DEF Recover
  <2>2. CASE Attempt(p)
    BY <2>2, QuietSteps, BeginTells DEF Attempt
  <2>3. CASE Replace(p)
    BY <2>3, BoundariesTell, HostStepsTell, PlanCommitTells, CommitInstallTells, QuietSteps,
       CompleteTells DEF Replace
  <2> QED
    BY <1>1, <2>1, <2>2, <2>3, WriteStateTells, QuietSteps DEF Run
<1>2. ~ \E k \in Packages : AdminChanges(k)
  BY DEF AdminChanges, Fault, Alone
<1> QED
  BY <1>1, <1>2, StutterTells DEF Next

(***************************************************************************)
(* The theorem.                                                            *)
(***************************************************************************)
\* The phase on disk (internal/plan/replacement.go) says what became of the
\* host, the claims and the preparation, at every moment and whichever step a
\* crash or a failed save falls on, so that recovery has something to go by.
THEOREM PhaseAlwaysTells ==
  ASSUME SinglePackage, Alone
  PROVE  Spec => []PhaseTells
<1>1. Discipline /\ Truth /\ [Next]_vars => Truth'
  BY NextTruth
<1>2. Discipline /\ Truth => PhaseTells
  BY TruthTells
<1> QED
  BY <1>1, <1>2, InitDiscipline, NextDiscipline, InitTruth, PTL DEF Spec

(***************************************************************************)
(* The old version, whatever packages the versions are of and whoever      *)
(* touches the host.                                                       *)
(***************************************************************************)
\* The phases beyond the recorded removal.
After == {"removed", "installing", "installed", "post_hook_running"}

OldGone ==
  /\ host \in [Packages -> Versions \cup {"absent", "broken"}]
  /\ disk.log.phase \in After /\ disk.log.from # disk.log.to
       => On(disk.log.from) # disk.log.from
  /\ \A p \in Procs : At(p, "record") => On(disk.log.from) # disk.log.from

\* What a step does to the log: a phase beyond the removal is reached from
\* another one, or by recording the removal, and only under the lock.
LogMoves(p) ==
  \/ disk'.log = disk.log
  \/ /\ pc[p] \in Locked
     /\ \/ disk'.log.phase \notin After
        \/ /\ disk'.log.from = disk.log.from /\ disk'.log.to = disk.log.to
           /\ disk.log.phase \in After \/ At(p, "record")

\* Nobody but the process that acts comes to the record of a removal.
Elsewhere(p) == pc'[p] # "record" /\ \A q \in Procs \ {p} : pc'[q] = pc[q]

LEMMA PersistElsewhere ==
  ASSUME Discipline, NEW p \in Procs, NEW new, NEW label, label # "record",
         Persist(p, new, label)
  PROVE  Elsewhere(p)
<1>1. CASE Go(p, label)
  BY <1>1 DEF Go, Elsewhere, Discipline, LocalTypes
<1>2. CASE Stops(p)
  BY <1>2, StopTypes DEF Elsewhere, Discipline
<1> QED BY <1>1, <1>2, PersistOutcome

LEMMA StopElsewhere ==
  ASSUME Discipline, NEW p \in Procs, Stops(p)
  PROVE  Elsewhere(p)
  BY StopTypes DEF Elsewhere, Discipline

LEMMA GoElsewhere ==
  ASSUME Discipline, NEW p \in Procs, NEW label, label # "record", Go(p, label)
  PROVE  Elsewhere(p)
  BY DEF Go, Elsewhere, Discipline, LocalTypes

\* The steps that leave the log alone, or move it without touching the host.
LEMMA LogSteps ==
  ASSUME Discipline, NEW p \in Procs,
         \/ Discover(p) \/ Recover(p) \/ Attempt(p) \/ WriteState(p) \/ FinalizeLeakedLock(p)
         \/ Crash(p)
         \/ PlanReplacementRemoval(p) \/ RecordReplacementRemoved(p) \/ PlanCommit(p)
         \/ PlanReplacementInstall(p) \/ CommitReplacementInstall(p)
         \/ PlanReplacementPostHook(p) \/ RunHook(p) \/ CompleteReplacement(p),
         ~Resume(p)
  PROVE  UNCHANGED host /\ LogMoves(p) /\ Elsewhere(p)
<1> USE DEF After
<1>1. disk.log \in Logs /\ DOMAIN disk = {"tool", "claims", "log", "prep"}
  BY DEF Discipline, DiskGood, DiskTypes
<1>2. CASE Discover(p)
  BY <1>2, GoElsewhere DEF Discover, LogMoves
<1>3. CASE Recover(p)
  <2>1. CASE RecoverReplacements(p) \/ RecoveryDone(p)
    BY <2>1, GoElsewhere DEF RecoverReplacements, RecoveryDone, LogMoves
  <2>2. CASE RecoveryBlocked(p)
    BY <2>2, StopElsewhere DEF RecoveryBlocked, LogMoves, Stops
  <2>3. CASE RetryRemoval(p)
    <3>1. Persist(p, Advanced("removing"), "remove") /\ pc[p] \in Locked /\ UNCHANGED host
      BY <2>3 DEF RetryRemoval, Recovering, At, Locked
    <3>2. Advanced("removing").log.phase = "removing"
      BY <1>1 DEF Advanced, Logs
    <3> QED BY <3>1, <3>2, PersistOutcome, PersistElsewhere DEF LogMoves
  <2>4. CASE RecoverPreparations(p)
    <3>1. disk'.log = disk.log /\ UNCHANGED host
      BY <1>1, <2>4 DEF RecoverPreparations
    <3>2. Elsewhere(p)
      <4>1. \/ Go(p, "report") \/ Go(p, "prepare") \/ Stops(p)
            \/ UNCHANGED pc /\ At(p, "unprepare")
        BY <2>4 DEF RecoverPreparations, Stops, Reset
      <4> QED BY <4>1, GoElsewhere, StopElsewhere DEF Elsewhere, At
    <3> QED BY <3>1, <3>2 DEF LogMoves
  <2> QED BY <1>3, <2>1, <2>2, <2>3, <2>4 DEF Recover
<1>4. CASE Attempt(p)
  <2>1. CASE ~BeginReplacement(p)
    <3>1. UNCHANGED host /\ disk'.log = disk.log
      BY <1>1, <1>4, <2>1 DEF Attempt, PrepareSources, Gate, RunPrerequisites,
         PrerequisiteFails, TakeLock
    <3>2. \/ Go(p, "gate") \/ Go(p, "report") \/ Go(p, "deps") \/ Go(p, "resume")
          \/ Go(p, "begin") \/ Stops(p)
      BY <1>4, <2>1 DEF Attempt, PrepareSources, Gate, RunPrerequisites,
         PrerequisiteFails, TakeLock, Stops
    <3> QED BY <3>1, <3>2, GoElsewhere, StopElsewhere DEF LogMoves
  <2>2. CASE BeginReplacement(p)
    <3> DEFINE begun == [disk EXCEPT !.log = [phase |-> "removal_planned",
                            from |-> disk.tool.version, to |-> target[p],
                            keyed |-> Preparation # "none"]]
    <3>1. begun.log.phase = "removal_planned"
      BY <1>1
    <3> HIDE DEF begun
    <3>2. /\ UNCHANGED host /\ pc[p] \in Locked
          /\ Persist(p, begun, "boundary") \/ (Fail(p) /\ UNCHANGED disk)
      BY <2>2 DEF BeginReplacement, begun, At, Locked
    <3> QED BY <3>1, <3>2, PersistOutcome, PersistElsewhere, StopElsewhere DEF LogMoves, Stops
  <2> QED BY <2>1, <2>2
<1>5. CASE WriteState(p)
  <2>1. disk'.log = disk.log /\ UNCHANGED host
    BY <1>1, <1>5, WrittenState DEF WriteState, Discipline, DiskGood
  <2>2. Stops(p)
    BY <1>5 DEF WriteState, Stops, Reset
  <2> QED BY <2>1, <2>2, StopElsewhere DEF LogMoves
<1>6. CASE FinalizeLeakedLock(p)
  BY <1>6 DEF FinalizeLeakedLock, LogMoves, Elsewhere, At
<1>7. CASE Crash(p)
  BY <1>7, StopElsewhere DEF Crash, LogMoves, Stops, Reset
<1>8. CASE \/ PlanReplacementRemoval(p) \/ RecordReplacementRemoved(p)
           \/ PlanReplacementInstall(p) \/ PlanReplacementPostHook(p)
  <2>1. PICK phase \in Phases, label \in {"remove", "commit", "install", "finish", "hook"} :
          /\ Persist(p, Advanced(phase), label) /\ UNCHANGED host
          /\ pc[p] \in Locked
          /\ phase \in After => disk.log.phase \in After \/ At(p, "record")
    <3>1. CASE PlanReplacementRemoval(p)
      BY <3>1 DEF PlanReplacementRemoval, At, Locked, Phases
    <3>2. CASE RecordReplacementRemoved(p)
      BY <3>2 DEF RecordReplacementRemoved, At, Locked, Phases
    <3>3. CASE PlanReplacementInstall(p)
      BY <3>3, Holding DEF PlanReplacementInstall, At, Locked, Phases, Positioned
    <3>4. CASE PlanReplacementPostHook(p)
      BY <3>4, Holding DEF PlanReplacementPostHook, At, Locked, Phases, Positioned
    <3> QED BY <1>8, <3>1, <3>2, <3>3, <3>4
  <2>2. /\ Advanced(phase).log.phase = phase /\ Advanced(phase).log.from = disk.log.from
        /\ Advanced(phase).log.to = disk.log.to
    BY <1>1 DEF Advanced, Logs
  <2> QED BY <2>1, <2>2, PersistOutcome, PersistElsewhere DEF LogMoves
<1>9. CASE PlanCommit(p)
  <2> DEFINE new == [disk EXCEPT !.prep = "committing"]
  <2>1. new.log = disk.log
    BY <1>1
  <2> HIDE DEF new
  <2>2. PICK label \in {"install_boundary", "install_boundary_found"} :
          /\ UNCHANGED host
          /\ \/ Persist(p, new, label)
             \/ UNCHANGED disk /\ (Go(p, label) \/ Stops(p))
    BY <1>9 DEF PlanCommit, PlanPreparationCommit, new, Stops
  <2> QED BY <2>1, <2>2, PersistOutcome, PersistElsewhere, GoElsewhere, StopElsewhere DEF LogMoves
<1>10. CASE CommitReplacementInstall(p)
  <2>1. /\ UNCHANGED host /\ At(p, "finish") /\ disk' \in {disk, Installed}
        /\ Go(p, AfterInstalled) \/ Go(p, "report") \/ Stops(p)
    BY <1>10 DEF CommitReplacementInstall, Stops
  <2>2. disk.log.phase \in After /\ pc[p] \in Locked
    BY <2>1, Holding DEF At, Locked, Positioned
  <2>3. Installed.log.from = disk.log.from /\ Installed.log.to = disk.log.to
    BY <1>1 DEF Installed, Logs
  <2> QED BY <2>1, <2>2, <2>3, GoElsewhere, StopElsewhere DEF LogMoves, AfterInstalled
<1>11. CASE RunHook(p)
  BY <1>11, GoElsewhere DEF RunHook, LogMoves
<1>12. CASE CompleteReplacement(p)
  <2>1. /\ UNCHANGED host /\ pc[p] \in Locked
        /\ Go(p, "recover") \/ Go(p, "report") \/ Stops(p)
    BY <1>12 DEF CompleteReplacement, Stops, Locked
  <2>2. disk'.log = disk.log \/ disk'.log.phase = "none"
    <3> DEFINE closed(ran) == [disk EXCEPT !.log = NoLog, !.tool.post = ran]
    <3>1. \A ran : closed(ran).log.phase = "none"
      BY <1>1 DEF NoLog
    <3>2. disk' = disk \/ disk' = closed(At(p, "complete") /\ Hooks)
      BY <1>12 DEF CompleteReplacement
    <3> HIDE DEF closed
    <3> QED BY <3>1, <3>2
  <2> QED BY <2>1, <2>2, GoElsewhere, StopElsewhere DEF LogMoves
<1> QED BY <1>2, <1>3, <1>4, <1>5, <1>6, <1>7, <1>8, <1>9, <1>10, <1>11, <1>12

LEMMA LogStepsKeepGone ==
  ASSUME Discipline, OldGone, NEW p \in Procs, UNCHANGED host, LogMoves(p), Elsewhere(p)
  PROVE  OldGone'
<1>1. \A q \in Procs : At(q, "record")' => At(q, "record") /\ q # p
  BY DEF At, Elsewhere
<1>2. CASE disk'.log = disk.log
  BY <1>1, <1>2 DEF OldGone, On
<1>3. CASE /\ pc[p] \in Locked
           /\ \/ disk'.log.phase \notin After
              \/ /\ disk'.log.from = disk.log.from /\ disk'.log.to = disk.log.to
                 /\ disk.log.phase \in After \/ At(p, "record")
  <2>1. \A q \in Procs : ~At(q, "record")'
    BY <1>1, <1>3, Holding DEF Locked, At
  <2> QED BY <1>3, <2>1 DEF OldGone, On
<1> QED BY <1>2, <1>3 DEF LogMoves

\* A removal makes the old version go; an install brings the new one.
LEMMA HostStepsKeepGone ==
  ASSUME Discipline, OldGone, NEW p \in Procs, RemoveOld(p) \/ InstallResolved(p)
  PROVE  OldGone'
<1> DEFINE log == disk.log
<1>1. UNCHANGED disk /\ pc[p] \in {"remove", "install"}
  BY DEF RemoveOld, InstallResolved, At
<1>2. /\ lock = p
      /\ pc[p] = "remove" => log.phase = "removing"
      /\ pc[p] = "install" => log.phase = "installing"
  BY <1>1, Holding DEF Locked, Positioned
<1>3. /\ log.from \in Versions /\ log.to \in Versions
      /\ log.from \notin {"absent", "broken"} /\ log.to \notin {"absent", "broken"}
      /\ PackageOf[log.from] \in Packages /\ PackageOf[log.to] \in Packages
  BY <1>1, <1>2, VersionsAssumption DEF Discipline, DiskGood, DiskTypes, Open, Packages
<1>4. \A q \in Procs \ {p} : ~At(q, "record")
  BY <1>2, Holding DEF Locked, At
<1>5. host \in [Packages -> Versions \cup {"absent", "broken"}]
  BY DEF OldGone
<1>6. CASE RemoveOld(p)
  <2> DEFINE k == PackageOf[log.from]
  <2>1. /\ \/ Stops(p)
           \/ Go(p, "record") /\ host' = [host EXCEPT ![k] = "absent"]
        /\ \E left \in {host[k], "absent", "broken"} : host' = [host EXCEPT ![k] = left]
    BY <1>6 DEF RemoveOld, Stops
  <2>2. host' \in [Packages -> Versions \cup {"absent", "broken"}]
    BY <1>3, <1>5, <2>1
  <2>3. log.phase = "removing"
    BY <1>2, <1>6 DEF RemoveOld, At
  <2>4. CASE Stops(p)
    <3>1. \A q \in Procs : ~At(q, "record")'
      BY <1>4, <2>4, StopTypes DEF At, Discipline
    <3> QED BY <1>1, <2>2, <2>3, <3>1 DEF OldGone, After
  <2>5. CASE Go(p, "record") /\ host' = [host EXCEPT ![k] = "absent"]
    <3>1. host'[k] # log.from
      BY <1>3, <1>5, <2>5
    <3> QED BY <1>1, <2>2, <2>3, <3>1 DEF OldGone, After, On
  <2> QED BY <2>1, <2>4, <2>5
<1>7. CASE InstallResolved(p)
  <2> DEFINE k == PackageOf[log.to]
  <2>1. /\ Stops(p) \/ Go(p, "finish")
        /\ \E left \in {host[k], "broken", log.to} : host' = [host EXCEPT ![k] = left]
    BY <1>7 DEF InstallResolved, Stops
  <2>2. host' \in [Packages -> Versions \cup {"absent", "broken"}]
    BY <1>3, <1>5, <2>1
  <2>3. log.phase = "installing"
    BY <1>2, <1>7 DEF InstallResolved, At
  <2>4. log.from # log.to => host'[PackageOf[log.from]] # log.from
    <3>1. log.from # log.to => host[PackageOf[log.from]] # log.from
      BY <2>3 DEF OldGone, After, On
    <3> QED BY <1>3, <1>5, <2>1, <3>1
  <2>5. \A q \in Procs : ~At(q, "record")'
    <3>1. Elsewhere(p)
      BY <2>1, GoElsewhere, StopElsewhere
    <3> QED BY <1>4, <3>1 DEF Elsewhere, At
  <2> QED BY <1>1, <2>2, <2>4, <2>5 DEF OldGone, After, On
<1> QED BY <1>6, <1>7

LEMMA InitOldGone == Init => OldGone
  BY DEF Init, OldGone, NoLog, After, At

LEMMA NextOldGone ==
  ASSUME Discipline, OldGone, [Next]_vars
  PROVE  OldGone'
<1>1. ASSUME NEW p \in Procs, Resume(p)
      PROVE  OldGone'
  <2>1. /\ UNCHANGED <<disk, host>> /\ Open /\ Go(p, Resumed)
        /\ RecoveryAction \notin {"retry_removal", "blocked"}
    BY <1>1 DEF Resume, Recovering
  <2>2. disk.log.from \in Versions /\ disk.log.from # "absent"
    BY <2>1, VersionsAssumption DEF Discipline, DiskGood, DiskTypes
  <2>3. RecoveryAction = "record_removed" => On(disk.log.from) # disk.log.from
    <3>1. RecoveryAction = "record_removed" => Verdict(disk.log.from) = "absent"
      BY DEF RecoveryAction, ReplacementRecoveryFor
    <3> QED BY <2>2, <3>1, Verdicts DEF Verdict, On
  <2>4. Resumed = "record" => RecoveryAction = "record_removed"
    BY <2>1, RecoveryPhases DEF Resumed, AfterInstalled
  <2>5. \A q \in Procs : At(q, "record")' => At(q, "record") \/ Resumed = "record"
    BY <2>1 DEF Go, At, Discipline, LocalTypes
  <2> QED BY <2>1, <2>3, <2>4, <2>5 DEF OldGone, On
<1>2. ASSUME NEW p \in Procs, Run(p) \/ Crash(p), ~Resume(p)
      PROVE  OldGone'
  <2>1. CASE RemoveOld(p) \/ InstallResolved(p)
    BY <2>1, HostStepsKeepGone
  <2>2. CASE ~(RemoveOld(p) \/ InstallResolved(p))
    BY <1>2, <2>2, LogSteps, LogStepsKeepGone DEF Run, Replace
  <2> QED BY <2>1, <2>2
<1>3. ASSUME NEW k \in Packages, AdminChanges(k)
      PROVE  OldGone'
  <2>1. PICK left \in {"absent"} \cup {v \in Versions \ {disk.log.from} : PackageOf[v] = k} :
          host' = [host EXCEPT ![k] = left]
    BY <1>3 DEF AdminChanges
  <2>2. UNCHANGED <<disk, pc>>
    BY <1>3 DEF AdminChanges
  <2>3. disk.log.phase # "none" => disk.log.from \in Versions /\ disk.log.from # "absent"
    BY VersionsAssumption DEF Discipline, DiskGood, DiskTypes, Open
  <2>4. \A q \in Procs : At(q, "record") => disk.log.phase # "none"
    BY Holding DEF Locked, Positioned, At
  <2>5. /\ host' \in [Packages -> Versions \cup {"absent", "broken"}]
        /\ disk.log.phase # "none" /\ On(disk.log.from) # disk.log.from
             => host'[PackageOf[disk.log.from]] # disk.log.from
    BY <2>1, <2>3 DEF OldGone, On, Packages
  <2> QED BY <2>2, <2>4, <2>5 DEF OldGone, On, At, After
<1>4. CASE UNCHANGED vars
  BY <1>4 DEF vars, OldGone, On, At
<1> QED BY <1>1, <1>2, <1>3, <1>4 DEF Next

\* What an upgrade replaces is gone once the new installation is recorded, in
\* whichever package either is and whoever else changes the host: the removal
\* is recorded only when it succeeded or recovery saw its effect.
THEOREM OldVersionAlwaysGone == Spec => []OldVersionGone
<1>1. Discipline /\ OldGone => OldVersionGone
  <2> SUFFICES ASSUME Discipline, OldGone,
                      disk.log.phase \in {"installed", "post_hook_running"},
                      disk.log.from # disk.log.to
               PROVE  Verdict(disk.log.from) # "satisfied"
    BY DEF OldVersionGone
  <2>1. disk.log.from \in Versions
    BY DEF Discipline, DiskGood, DiskTypes, Open
  <2> QED BY <2>1, Verdicts DEF OldGone, After, On, Verdict
<1> QED
  BY <1>1, InitDiscipline, NextDiscipline, InitOldGone, NextOldGone, PTL DEF Spec

================================================================================
