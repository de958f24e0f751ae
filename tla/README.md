# TLA+ model of depengine

depengine installs the tools a schema describes, each by the first of its
candidate methods that works, and keeps what it did in one JSON state file so
that later runs can verify, upgrade, undo and remove it. The hard part of it is
that an install changes things that no transaction joins, the host, the state
file, the lock file and the download cache, while processes crash, saves fail
halfway, package managers answer nonsense, prerequisites run in the middle,
other tools share the same host resources and the administrator works beside
it. This directory models that part, checks it with TLC and proves the state
layer's and the verification's share of it with TLAPS.

Paths below are relative to `src/`. `PROJECT.json` maps every definition to the
lines it translates.

## 1. Inventory

| Component | State it keeps | Operations | What makes it correct |
|---|---|---|---|
| Preparation journal, `internal/plan/preparation.go` | `PreparationPlan`, `PreparationJournal`, owned resources: values, no state of its own | plan, record and resolve an apply; plan, resolve and finalize a commit; plan, apply, record, resolve and finalize a rollback; track, claim and release resources; `RecoveryFor` | every reachable journal passes its own validation; a commit claims everything, a rollback forgets nothing and removes nothing that is claimed |
| State layer, `internal/state/preparation.go` | journals, plans, owned resources and tools of the state file | one `LockedState` method per durable step, each one save | one save changes all that must change together |
| State file and lock, `internal/state/state.go`, `lock_*.go`, `atomic_write.go` | the file, the lock file, the holder's copy | `LoadLocked`, `Save`, `Close`, validation on load | the file is always loadable; only the lock holder writes |
| Candidate preparation, `internal/exec/preparation.go` | the transaction of an attempt, the host's sources | probe, begin, add, confirm, suspend, resume, commit, roll back, recover | the host changes only behind a journal on disk; every source added is owned or journalled |
| Candidate attempt, `internal/exec/attempt.go` | the step of each attempt, its prerequisites, its result | gates, prerequisites, install, verify, reconcile, complete | no lock is waited for by whoever its holder waits for; an installed prerequisite is never an orphan |
| Package source manager, `internal/source` | none; changes the host under a mutex | probe, add, remove, capture revision | idempotent add and remove, a failed capture is undone |
| Run scheduling, `internal/exec/run.go`, `execute.go`, `batch.go` | results, dependency memo, levels, worker stacks | gate, batch, run levels in parallel, run prerequisites lazily, fall back, write state | what is reported is there; nothing is installed before what it requires; a helper runs once at a time; the run ends |
| Report to state, `internal/exec/state.go` | none | `writeState` at the end of a run | what was installed is recorded with its claims |
| Replacement log, `internal/plan/replacement.go`, `internal/state/replacement.go`, `internal/exec/replacement.go` | replacement transactions in the state file | plan, removal boundary, removed, installed, post, finalize, recover | old installation or new one, and the state says which |
| Remove, undo, forget, snapshots, `internal/app`, `internal/state/snapshot.go` | snapshots, tools, claims | remove with blockers and released prerequisites, restore a snapshot, forget | nothing needed is removed; what is on the host stays recorded until it is gone |
| Dependency graph, `internal/graph` | none | build, level sort, slice, projections, analysis, rendering | levels respect edges, cycles are reported |
| Desired state, `internal/plan/verification.go`, `lifecycle.go` | none | observe, reconcile, choose a transition | missing, drifted, broken and satisfied are told apart by evidence |
| Lock file, `internal/plan/lock.go`, `internal/lock`, `internal/app/update.go`, `universal_lock.go`, `lock_pin.go` | the lock document, of two versions | resolve, merge, validate, pin, complete, sync | an update changes what it was asked to; an install reproduces the lock |
| Download cache, `internal/downloadcache` | cache directory and its size | lookup, store, evict | never a wrong or half written artifact |
| Archives and local artifacts, `internal/httpdownload`, `internal/localartifact` | payload, backup, launchers, ownership markers | verify, stage, replace, restore, remove | old content or new content under every failing step; foreign files stay |
| Package manager adapters, `internal/ecosystem`, `internal/native`, `internal/exec/native_adapter.go`, `win.go` | none of their own | ask, read the answer, install, remove through external programs | absence and presence are concluded from answers that prove them |
| Git adapter, `internal/git` | temporary checkout, installed files | resolve, clone, check out, copy or build, observe, remove | what is installed is whole and of the resolved revision |
| Configuration and validation, `internal/config`, `internal/validate` | none | parse, layer, specialize, order, check | precedence of layers; every declared candidate is reachable |
| Subprocess runner and privileged session, `internal/run` | the sudo keep-alive | run, elevate, redact | a result tells failure, silence and cut output apart |
| Other adapters (`container`, `deb`, `dmg`), command line, reports, SBOM, platform | none | one command or text | out of scope |

How they interact. `install` starts a run: under the exclusive lock it recovers
every replacement and every preparation journal, then executes the levels of
the graph. An attempt probes its declared sources without the lock, takes the
lock to persist a journal, keeps it while sources are added one by one (journal,
host, journal), gives it up while its prerequisites run as attempts of their
own, takes it back, persists the commit boundary, runs the installer, verifies
and closes journal, tool record and claims in one save. The installer is an
adapter: it resolves the candidate's plan (against the lock file, if there is
one), changes the host, and observes it before and after; what it observed is
reconciled with the plan into a verdict, and only verdicts decide. Everything
else of the report reaches the state file when the run ends. `remove`, `undo`
and `forget` change the same file between runs, `update` writes the lock file,
and `install` completes it.

What is hard: the step that dies between the host and the journal; the save
that reports an error after it replaced the file; the probe that is stale by
the time the lock is held; the journal another process recovers while its
attempt is suspended; the rollback that meets a source someone else relies on;
the decision computed again from a snapshot that changed; the lock a
prerequisite needs while its owner holds it; the helper two workers need at
once; the batch that succeeds and skipped a tool; the answer of a package manager
that failed, was cut off or speaks of another package; the branch that moves
between resolution and clone; the payload between two renames; the lock written
over one that was read minutes ago. `PROJECT.json` lists each hazard at its
line with the properties that watch it.

## 2. Modules

| Module | Models | State |
|---|---|---|
| `PreparationJournal` | the pure layer: every method of `PreparationJournal` as a pair `CanX` / `X` (no error / the value returned), the ownership snapshot, `RecoveryFor` | none |
| `PreparationLifecycle` | the state layer's promise about one candidate: one action per `LockedState` operation, plus what other lock holders may do to the snapshot | `journal`, `plan`, `owned`, `recorded` |
| `PreparationExecutor` | the executor over one state file and one host: processes, lock, saves, attempts, rollback, recovery, crashes, the administrator | see below |
| `PreparationRefinement` | the executor implements the lifecycle, for each tool | none |
| `PreparationProofs` | lemmas about the pure layer, theorems about `PreparationLifecycle`, `PreparationExecutor` and the refinement | none |
| `Replacement` | upgrading a tracked tool behind the replacement log: discovery, attempt, recovery, several processes, crashes, the administrator | see below |
| `ReplacementProofs` | theorems about `Replacement`: who may be at which step; what that says of the host | none |
| `DependencyGraph`, `GraphFacts` | the graph: build, project, sort, slice, analyse; what these compute against set definitions | none |
| `Scheduling` | one run of `Executor.Execute` over such a graph: levels, gates, native batch, worker pool, lazily executed prerequisites, fallback, cancellation | see below |
| `SchedulingProofs` | theorems about the sort and about `Scheduling` | none |
| `Removal` | `remove`, `undo`, `forget`, snapshots, over one state file and one host | see below |
| `RemovalProofs` | theorems about `Removal` | none |
| `DownloadCache`, `ArtifactInstall` | the cache as a value; archive installs over it, local artifacts, launchers, markers, backups | see below |
| `ArtifactInstallProofs` | theorems about `ArtifactInstall` | none |
| `ResolvedLock`, `ProjectLock` | what a plan becomes in the lock and the lock in a plan; the lock file in use by updates and installs | see below |
| `ProjectLockProofs` | theorems about `ProjectLock` | none |
| `Verification` | observation, reconciliation, transition | none |
| `PackageManagers`, `ToolchainManagers`, `NativeManagers` | how each adapter reads its manager's answers and what it asks it to install and remove | none |
| `ManagedTool` | gate, installation, confirmation and removal of one tool over any of these adapters | see below |
| `VerificationProofs` | theorems about `Verification` and `ManagedTool` | none |
| `GitCheckout` | a tool installed from a repository in each way of placing its files, and removed | see below |
| `GitCheckoutProofs` | theorems about `GitCheckout` | none |
| `MethodSelection`, `SelectionFacts` | layers, conditions, distributions, order of candidates; facts about them | none |
| `ToolDeclaration`, `DeclarationFacts` | how what a schema file says becomes candidates; facts about that | none |
| `MC…` | instances for TLC | none |

A module named `…Facts` holds assumptions without constants of its own: TLC
evaluates them, over every input of a small set, before the run of the module
that extends it. They compare a loop of the code with a definition that
quantifies.

State of `PreparationExecutor` and the code:

| Variable | Code |
|---|---|
| `disk` | the state file: `PreparationJournals`, `PreparationPlans`, `OwnedResources`, the keys of `Tools` |
| `mem` | `LockedState.state`, the lock holder's copy (equal to `disk` when nobody holds the lock) |
| `lock` | the `flock` on the lock file, and who took it |
| `host`, `target` | package sources and installed tools as the world has them; *found* and *added*/*installed* keep apart what was there and what depengine did |
| `phase`, `pc` | where a process is in `Run`, and each attempt in `tryCandidate` |
| `missing`, `helpers`, `tx`, `result` | locals of an attempt: the sources its probe missed, prerequisites it had to have installed, its `sourcePreparationTransaction`, its `ToolResult` |
| `faults` | how many failures have happened, a bound of the model only |

Each action runs from one durable or visible step to the next: a save, a host
change, taking or giving up the lock. `Persist` is `LockedState.Save`: it
succeeds, fails and leaves the file alone ("save"), or fails after the rename
replaced it ("torn", the directory sync of `atomic_write.go`); the holder's copy
goes back to the old value in both. Positions stand for mutation ids, since the
code refuses any order but the plan's, and the confirmed compensations, a list
the code forces to be strictly descending, are a set.

Simplifications. A tool has one candidate, so it names its journal; fallback to
a second candidate starts over with another key. A tool outside `Roots` is
`dependency_only` and runs only as a prerequisite. Recovery visits the journals
in any order (the code sorts keys, the names are arbitrary). Secrets,
elevation, command lines, messages and dry runs are left out. A prerequisite
resource is identified with its tool.

State of `Replacement`: `disk` is the state file reduced to one tool (its record,
its claims, its `ReplacementTransaction` and the status of one preparation
journal), `host` what is installed as each package, `hooked` what the
after-upgrade hook of the latest replacement did, `lock` the state lock, `pc` and
`mode` the step of each process and whether recovery or the attempt takes it,
`seen` and `target` what `runUpgrade` discovered, `recovered` and `done` what the
final `writeState` has to report. Recovery takes up the steps of
`replaceCandidate` where they stopped, so both share their actions and differ in
what they observe: recovery looks at both versions after a removal and an
install, the attempt only at the new one after the install.

Its simplifications. The installed version is observable, as a satisfied,
drifted, absent or broken verdict. An adapter that reports success has done what
it was asked to. A preparation is one step and one status, since
`PreparationExecutor` has its journal. A record is known by version and hook
flag; that a new installation has a new `InstalledAt` is modelled by `Unseen`:
after it no discovery has seen the record. The administrator never puts back
the version being replaced while the replacement is open.


State of `Scheduling`: `levels` and `level` are those `sortExecutionLevels`
returned and the one under way, `phase` the step of the run in it (gates, batch,
pool, recording), `batch` and `queue` what `runLevel` has split the level into.
A worker's entry of `stacks` is the Go call stack of one goroutine, a "tool" frame
per `executeTool` with its position in the candidates and a "dep" frame per
`executeDependency`; `memo` is the table of dependency runs with their owners and
`failed` the set `recordLevelFailures` fills. `host` has the candidates that are
present, `created` what the run put there, and `owned`, `tracked` what the final
write makes of it. An installation is one step with the outcomes
`PreparationExecutor` leaves it.

State of `Removal`: `disk` and `snaps` are the state file and the snapshots
beside it, `cmd` the command under way with the copy of the state it will save
at its end and the frames of `removeTool`, `host` what is there, and `ours` which of
it depengine put there, which the code cannot see. Every host change is a step,
the save is one step, and a command may die before any of them. The ownership
algebra is that of `PreparationJournal`.

State of `ArtifactInstall`: `dest` and `backup` are the payload directory and the
fixed backup path, each with what it holds, whether all of it, and whose marker;
`launcher` is what is at each entry point's link; `cache` is `DownloadCache`'s
value, `recorded` the adapter the state names, and `proc` the place of each process
in download, verification, staging, commit, launchers, cleanup, undo and store,
with what it remembers of the payload before. Every file operation of
`archive_install.go`, and every one of `localartifact/install.go`,
is a step that may fail.

State of `ProjectLock`: `file` is `depengine.lock`, of either version, missing or
corrupt; `schema` and `upstream` are what is edited and what moves; `host` and
`records` what is installed and what the state file says of it; `proc` what a
process has loaded and resolved so far. An update reads, resolves one tool after
the other and writes; an install reads, validates, pins, installs, syncs the
recorded versions and completes a lock of the first version. `ResolvedLock` is
`internal/plan/lock.go`, definition by definition: what of a plan enters the
lock, when it may, and how an entry becomes a plan an adapter must reproduce.

State of `ManagedTool`: `host` is the manager's inventory, `stage` the step of the
command, `answers` what the manager has said so far and `seen` the inventory at
each of these moments, `doubt` how it may lie this time (command fails, binary
not found, output cut, nonsense), `verdict` the reconciled result. The parsers of
the answers are operators, one per adapter, over what tells answers apart
(exit status, whole or cut, a listing, a "not found", something else): which of
these an adapter takes for absence is what differs between thirty of them and
what the properties are about. `Plausible` says what a manager may list for a candidate at
all: under a package's name that package unless the kind renames, whole unless the kind
knows packages that are not, with a version but on Windows and for programs of go built
from no module's version. `Bare` is a constant, the version without a leading "v":
composer shows versions so, cargo and go compare them so. An import path of go is a
sequence of elements; `GoBinaryName` is the adapter's reading of it, `GoInstallName`
the name that go gives the program (external).

State of `GitCheckout`: `remote` is what the selector names now and `named` what
it has named since the command began, `plan` the revision resolved, `clone` the
temporary checkout, `todo` and `dest` the entries still to be copied and what is
at each path, `elsewhere` whether the `PATH` has another program of the binary's
name. An entry may be written in part when the process dies.

`MethodSelection` and `ToolDeclaration` have no state. Names are numbers in the
order of the strings; a declaration is a function whose domain is what the code
keeps as the presence of a field. They are pure, so facts evaluated over every
small input say more than a run would; `MCGitCheckout` extends them because its
candidates are the ones they produce.

## 3. What the runs check

Faults are drawn from the kinds a run lists, at most `MaxFaults` of them in one
behaviour: `save`, `torn` (failed saves), `probe` (an observation fails),
`gate` (a check, hook or availability test rejects), `cancel` (context ends),
`add`, `remove`, `install` (the command fails, with or without its effect), `hook` (a
hook fails), `crash` (the process dies and drops its lock), `admin`
(someone removes a source, or changes a package or file); in `Scheduling` also
`batch`, `skip` (the native command fails, or succeeds without one of its
packages), `effect`, `terminal`, `timeout`; in `ArtifactInstall` one kind per file
operation, and `content` (a mirror serves something else).

| Run | Instance | States | Shows |
|---|---|---|---|
| `lifecycle` | 2 resources, 2 tools, 5 plans of 0–2 mutations with every owner and policy | 43 416 | `JournalValid`: the journal always passes a restart's validation; `OwnershipNeverLost`: a needed resource of depengine's keeps its owner; rollback forgets nothing, removes nothing claimed; commit claims everything |
| `attempt_faults` | owner with 2 sources and a prerequisite, 4 faults, fairness | 33 051 | `NothingForgotten`, `WriteAhead`, `CommitOutcomeKnown` under crashes and torn saves at every point; `RunsEnd`: no cycle of lock and prerequisite waits; `JournalsClose`: a journal left behind is closed or stops at its commit boundary; `ImplementsLifecycle`: every executor step is a lifecycle step of each tool or a stutter |
| `shared_source` | 2 processes, a tool and its prerequisite on 1 source, 2 faults incl. `admin` | 1 058 000 | `FoundStaysForeign`: what was there before is never recorded as depengine's; `RollbackSparesClaimed` |
| `upgrade_races` | 2 processes, 3 versions of one package, sources and a hook, 2 faults | 1 169 742 | `PhaseTells`: the phase on disk says what is on the host, what is claimed and what became of the preparation, for competing upgrades with stale discoveries and a failure or crash at every step; `HookRunsOnce` |
| `upgrade_renamed` | 1 process, 3 versions in 2 packages, a hook, 4 faults incl. `admin`, fairness | 21 212 | `OldVersionGone` when old and new are different packages and somebody changes them; `ReplacementsEnd`: an interrupted upgrade is closed by later runs or stops at a decision recovery cannot take |
| `artifacts` | 2 processes, 2 versions, a cache for 1 entry, 1 entry point, 1 fault | 1 560 000 | `VerifiedContent` although entries are stored and evicted by another process; `PayloadNeverLost`, `FailedInstallRestores` under every failing file operation; `ForeignSpared`: directories without a marker and foreign links stay |
| `scheduling` | 6 schemas of 3–5 tools, 2 hosts, 2 jobs, 2 faults, fairness | 169 000 | `InstallsJustified`: nothing is installed before what it requires, nor arbitrary code that was not allowed; `ReportIsTrue`; `OneRunPerHelper`; `RunEnds`: no worker waits for a helper that waits for it |
| `removal` | a tool, its helper, the helper's helper, a source; 2 installs, 2 commands, 1 snapshot, 1 fault, 1 act of the administrator | 848 000 | `NothingForgotten`, `TrackedUntilGone` although the save comes last; `TakesOnlyItsOwn`, `CleanExit` |
| `locking` | 2 processes, both versions, 1 move, 1 edit, 2 runs, 1 failure | 807 000 | `SavedLockValidates`, `UpdateKeepsOthers`, `InstallKeepsIdentity`, `LockReproduced` |
| `managed_tools` | a candidate of each of 30 kinds, up to 3 entries that differ from what it asks for in one way each, 2 commands, 2 faults, 2 outsiders | 1 930 000 | `AbsenceProven`, `ReportedIsMet` under wrong answers; `HonestInstallSucceeds`; `TakesOnlyItsOwn` |
| `git_checkout` | every mode with every reference, 2 commits, 3 commands, 2 faults, 1 move, 1 tampering | 600 000 | `InstalledIsWhole` while the remote moves; `ReleasedIsGone`, in directories of the tool and shared ones |
| `upgrade_leaks_lock` | smallest instance that shows it | | violates `EndedUpgradesHoldNoLock`, section 6 |

Facts evaluated on the way: by `scheduling`, that the level sort succeeds exactly
on acyclic relations and is the earliest one, that a slice is a closure, that
components partition, that a projection only takes edges away (every relation on
three tools); by `git_checkout`, that conditions are monotone, layering is
associative and idempotent, specialisation is settled, selection has every
eligible candidate once and in order, recorded candidates are found again or not
at all, declared keys become candidates, checked selectors select, and the two
facts of section 6.

Why the bounds are enough. A journal needs two mutations to be `preparing` and
to have a rollback with an order; two tools make a resource shared; a failure
during recovery needs one fault to create the journal, one to break the
recovery and one more for the recovery after that, and the single-process runs
allow four. Two processes are what it takes for one to act on the
other's suspended journal. An upgrade needs a second version and a competing one
a third; a second package is what makes the desired version absent while the old
one is there. In `artifacts` one fault is enough for the single undo the code has,
and a crash leaves the state another process's install then starts from; a cache
of one entry makes every store evict. A wait between workers needs two of them and
two helpers; `CandidateCycle` and `SharedHelper` of `MCScheduling` have both. A chain of
three tools is what makes a released helper release another. A lock race needs
two runs that overlap, an update and an edit between; a third run would repeat
one. A manager's inventory with the wanted entry and two that differ from it by
one field each is every confusion two fields can make. A git command can leave
half an entry, the next one find it and the third remove it.

Fairness. `FairSpec` of the executor is weak fairness of every attempt, of
recovery and of the final write; that of `Replacement`, of a process's next
step; that of `Scheduling`, of the run and of each worker. The code waits for
nothing that need not end: the lock is polled with the context's deadline, subprocesses run
under tool and method timeouts, a goroutine that can run is run, and recovery
happens again because the user runs depengine again. Faults, crashes and the
administrator are never forced. Liveness of the executor and of `Replacement` is
checked for one process: the lock is polled and not queued, so a process in
competition has no promise of getting it. `Stuck` in `ReplacementsEnd` names the two
places where recovery refuses for good.

Deadlock is not checked where the bounds let the system stop (`artifacts`,
`removal`, `locking`, `managed_tools`, `git_checkout`: no command is left to
start); it is in the others, where a finished state stutters.

Every property of a passing run has a mutant in `PROJECT.json`, a plausible bug in
one mapped definition that makes TLC find the property violated.

Conditions some properties carry, and why. `AbsenceProven` speaks of `Believable`
answers: those an adapter documents no defence against (section 6) are
excluded by name, kind by kind, and so are go programs that are looked for under another
name than go gives them (`Misnamed`). `HonestInstallSucceeds` is about what is
`Confirmable`: not a crate of another registry, not a version that composer is asked for
with a "v", not a misnamed program, and no leftover of another architecture on the host. In all four the code
reports an installation that worked as failed (section 6), and `managed_tools` has a
candidate or an entry for each of the last three. Where `GoPresent` looks on the `PATH`, the directory
go installs into is taken to be on it. `ReportedIsMet` leaves out `Lenient`: the
unversioned kinds whose observation proves nothing by design, and a scoop package
of the user's scope, whose query (`internal/scoopruntime/runtime.go:117`) is the one
of no scope: whether it lists global packages as well is up to scoop.
Both go by `Serves`, which says of an entry what the kind of method can mean by
the package: a crate of the default registry, the version sdkman was asked for or has made
current, the scope, channel or remote the manifest names. `InstalledIsWhole`
holds while nobody takes files away, `ReleasedIsGone` for a checkout that is
the installation under everything, for copied files while nothing was
interrupted: a managed path or a binary that is missing makes a target absent
(section 6). It leaves out, by name (`LeftBehind`), what the code leaves in a
directory shared with others: all but the binary.

## 4. What is proved

`PreparationProofs` proves, of the state layer's promise (`StateSpec`) for every
set of resources and tools and for plans of every length:

| Theorem | Statement |
|---|---|
| `TypeCorrect` | `StateSpec => []TypeOK` |
| `JournalsStayValid` | `StateSpec => []JournalValid` |
| `OwnershipKept` | `StateSpec => OwnershipNeverLost` |
| `RollbackForgets` | `StateSpec => RollbackForgetsNothing` |
| `CompensatedUnclaimed` | `StateSpec => CompensatedStaysUnclaimed` |
| `CommitClaims` | `StateSpec => CommitClaimsEverything` |

Assumptions: `OwnerAssumption` (the candidate's tool is a tool) and
`PlansAssumption` (the plans a candidate may begin with are valid and bind no
uses yet, which `prepareCandidateSources` validates before `BeginPreparation`).
TLC evaluates both in every run of the module.

Argument. The inductive invariant is `TypeOK /\ JournalValid`. Types alone are
not inductive: that `RecordApplied` stays within the plan needs `applied <
Len(prepare)` while `applying`, and that a compensation in flight indexes an
applied safe mutation needs the clauses of `rolling_back`. With them each
action is one step of the induction; lemmas state what the operators return
(tracking and claiming keep a snapshot and never lose an owner, `Highest` exists
for a finite set of positions, each journal transition keeps validity). The four
action properties then follow from the invariant action by action; only
finalizing a commit or a rollback and the environment touch what they speak of.
That a rollback forgets nothing rests on `CanFinalizeRollback`: nothing remains,
so every applied position is compensated or retained, and a retained resource
without a record receives one.

The same module proves about `PreparationExecutor`, for every number of processes, tools and sources, whatever tools need and may fail, and any bound on the
faults:

| Theorem | Statement |
|---|---|
| `LockDiscipline` | at most one attempt is at a step that needs the lock, and it, or the recovery it belongs to, holds the lock and has what is on disk, save for its own boundary whose save was not confirmed |
| `StateReadable` | `Spec => []Sound(disk)`: what a crash or a torn save leaves is a state the next run reads and validates |
| `WriteAheadHolds` | without the administrator, `Spec => WriteAhead` |
| `ClaimedAlwaysSpared` | `Spec => RollbackSparesClaimed` |
| `ForeignSources` | `Spec => []FoundStaysForeign` |
| `NothingEverForgotten` | `Spec => []NothingForgotten` |
| `OutcomeKnown` | `AloneOrJournaled` implies `Spec => CommitOutcomeKnown` |
| `ExecutorImplementsLifecycle` | `Spec => ImplementsLifecycle` |

The constants are under the assumptions of the module (`LockAssumption` and the others,
which TLC evaluates in its two runs). The inductive invariant is `ExecInv ==
LocalInv /\ LockInv /\ StateInv`. `LocalInv` relates each attempt's step to its own
transaction and lists; `LockInv` says who holds the lock; `StateInv` says that the
holder's copy and the file are both `Sound`, that they are equal but for one case, and
that a step which is about to act on the journal finds it as it left it (`Labelled`).
The one case is `Drifted`: the save of a commit boundary reported a failure and
reached the disk all the same, and the attempt that made it has not yet rolled back.
Every other failed save either restores the copy or ends the process. Once `ExecInv`
holds, each step of `Next` is of one of four kinds (`StepKinds`): it leaves host and
state alone, it has one effect on the host, it moves one entry of the file, or it ends a process.
Each property is then argued kind by kind, and the conditions under which the code
moves an entry (`Moves`) are gathered once.

`ForeignSources` needs that what an attempt has decided to create was not found on the
host (`ForeignInv`), although it decides before it has the lock. `NothingEverForgotten`
is proved of the file and the copy together, since a save makes the one the other. The
refinement has no hypothesis: the shared pure operators are the same in both modules
(`SameForward`, `SameRollback`, `SameOwnership`), a copy that is dropped for the content of the
file moves at most by the boundary whose save was torn (`DroppedCopy`), and a step moves one
tool's entry as an operation of the lifecycle does, while for every other tool
it is an environment step or a stutter (`OwnMoves`, `OthersMove`).

Two theorems carry a condition. A source that the administrator takes away changes
without a journal, hence `"admin" \notin Faults`. `AloneOrJournaled` is that there is one process or every root
has a prerequisite: a root with nothing missing and no prerequisite is installed with
neither journal nor lock (`attemptMethod`), so a competing installation that fails
may break the target after the first process has verified it and before it records
it. With two processes, one tool with one source and no prerequisite, and one fault, TLC finds that
behaviour.

`ArtifactInstallProofs` proves about `ArtifactInstall`, for every set of processes,
versions and binaries and every bound:

| Theorem | Statement |
|---|---|
| `PayloadAlwaysThere` | `Spec => []PayloadNeverLost` |
| `FailureRestores` | `Spec => FailedInstallRestores` |
| `ForeignAlwaysSpared` | `Spec => ForeignSpared` |
| `ContentAlwaysVerified` | `Spec => []VerifiedContent` |

The first three share `PayloadInv`, which follows the payload through the steps of a
replacement: before the save the directory is what the install found (`Untouched`) and
the backup's place is free (`ReadyToCommit`); between save and commit the backup is
what was found (`OldPayloadKept`); from the commit on the directory is the new payload
with its marker (`NewPayload`), which is why removing it in an undo removes nothing
else. An adapter that removes has checked the marker (`OwnRemoved`), and the links that
an undo takes are nobody else's (`LinksMade`). `VerifiedContent` is inductive with the
shape of the records: beyond the verification no step changes what was fetched, and
what comes from the cache is verified like what is downloaded.

`VerificationProofs` proves, for every set of fields, every identity, every answer
an adapter may give and every candidate:

| Theorem | Statement |
|---|---|
| `ReconcileValid` | whatever is desired and observed, `Reconcile` returns a result that `VerificationResult.Validate` accepts |
| `SatisfiedIsMet` | satisfied means present, with every desired field observed at the desired value |
| `DriftedDiffers` | drifted means present, with a desired field observed at another value |
| `TransitionNeedsEvidence` | install and upgrade are chosen only on an answer without error that said absent, or present |
| `ResultsAlwaysValid` | `Spec => []ResultsValid` of `ManagedTool` |
| `AlwaysDecidedOnEvidence` | `Spec => []DecidedOnEvidence` of `ManagedTool`: it installs only over a verdict of absence, removes only over one of presence, and reports only what its plan demands and the verdict states |
| `AlwaysReportedIsMet` | `Spec => []ReportedIsMet` of `ManagedTool`: what is reported as installed had an entry that meets the whole plan while it was last observed |
| `AlwaysAbsenceProven` | `Spec => []AbsenceProven` of `ManagedTool`: what is taken for absent was absent at some moment of the observation |
| `AlwaysTakesItsOwn` | `Spec => TakesOnlyItsOwn` of `ManagedTool`: a removal takes only entries that serve the candidate, in its slot and of its pinned version |
| `AlwaysHonestSucceeds` | `Spec => []HonestInstallSucceeds` of `ManagedTool`: no installation fails for want of a confirmation when nothing goes wrong and nothing about is one of the four things `Confirmable` excepts |

All but the last four assume nothing: `Fields`, `Candidates` and `Universe` may be any sets.
`ResultsValid` is inductive by `ReconcileValid`, since every verdict is one
`Reconcile` made or the empty one. `DecidedOnEvidence` is not: that a step which ends a command
reports something true needs that nothing had been reported while it ran, hence
`DecidedInv == DecidedOnEvidence /\ NothingReportedYet`.

`AlwaysReportedIsMet` and `AlwaysAbsenceProven` say that the evidence is true of the host. Like
`AlwaysTakesItsOwn` they rest on
`UniverseAssumption`: the entries about are `Plausible`, which `managed_tools` evaluates for
its own. `ReadingInv` is the invariant: while a command is asking, each answer is one the
manager may give, under the fault in `doubt`, about the host in `seen`, it has neither a
verdict nor a report yet, and every entry on a host, the one an installation leaves
(`InstalledSound`) included, is plausible. From a finished reading (`Read`) two
lemmas per family of adapters then go by kind: `BasePresent`, `ToolchainPresent` and `NativePresent`
find the entry behind "present" and that version and build are its own, which with
`SatisfiedObservation` gives `SatisfiedMeets`; `BaseAbsent`, `ToolchainAbsent` and `NativeAbsent`
show that an honest answer lists an entry that serves (`ServesQueried`,
`HonestLists`) and that no wrong answer that is `Believable` reads as absence
(`FaultProvesNothing`).

`AlwaysTakesItsOwn` needs more: a verdict shows one entry, and a removal takes by name.
`RemovalInv` adds to `ReadingInv` that a manager holds no two entries in one place
(`WellPlaced`), and that a removal that has been decided on, of a host nobody has changed
since, has an entry that meets what was asked (`Found`). `VerdictFinds` shows the latter by the same
kinds (`AptHolds`, `PipxHolds`, `GoKnows`); then what is taken, being in the place of the entry
that was found (`OnePlace`) or listed under a name only the candidate's package has, serves as
well (`TakenServes`).

`AlwaysHonestSucceeds` goes the other way, from the host to the verdict: what an adapter makes
of an honest listing of what it has just installed is what the plan wants. That is a
theorem about each adapter (`BaseShows`, `ToolchainShows`, `NativeShows`): its query
reaches the entry the command makes, its reading picks that entry and no other
(`OnlyEntry`), and what it reads agrees with every field the kind verifies
(`ShownSatisfies`). Three adapters need more than the entry: two active elements that match
break nix, two scopes that list a package break scoop, two records break a
database. What excludes the second is the absence on which the installation began
(`AbsentIsVacant`), so the invariant, `HonestSoFar`, has to carry the verdict from the gate to the
command, and the host it was about: it says that, while nothing has gone wrong
(`Clean`), what was seen is the host, an installation in progress is of a candidate that
`Judged(host)` calls absent, and what follows the command asks about a host that it calls
satisfied. It also assumes `ValuesAssumption` (a manifest states, and a manager chooses, no value
that an identity may not state), `BoundsAssumption` and `CandidatesAssumption` (an import path
of go has an element). The property itself excepts what is not `Confirmable`: a crate of another registry, a
version composer is asked for with a "v", a go program looked for under another name than
go gives it, and a leftover of another architecture on the host. In the code each of the four makes an installation
that worked fail (section 6). Of `Bare` nothing is assumed: which
spellings are one version to an adapter is for `SameVersion` to say (`RespelledIs`).

`GitCheckoutProofs` proves about `GitCheckout`, for every set of commits and candidates
and every bound:

| Theorem | Statement |
|---|---|
| `InstalledAlwaysWhole` | `Spec => []InstalledIsWhole` |
| `ReleasedAlwaysGone` | `Spec => ReleasedIsGone` |

They assume `GitConstants` (no
commit is spelled like one of the marks of `dest`), `BoundsAssumption` (the bounds are
numbers) and `CandidatesAssumption` (a candidate is of one of the four modes,
configures a commit, and what it has locked is a commit or nothing, which the code
checks of the lock file's spelling), which TLC evaluates in `git_checkout`. The
invariant of the first has to say
three things the property does not: from its resolution on the plan is a promise, and
a candidate without one follows the remote (`PlanPromised`); the checkout is of a
promised commit (`ClonePromised`); and what is not to be written any more is at the
commit of the checkout, unless somebody took a file away (`Written`). A push only adds
to what was named, so it takes no promise back. The proof uses nothing of the
verification that follows the copy: where only part of the checkout is kept it
compares nothing, and the promise rests on the order of the steps alone.

The second needs `GoneInv`: a directory that is not there holds nothing, entries are written
only once it is there, and a tool that is recorded is on the host as the last command
left it, unless something was disturbed. Then an observation that says absent finds
nothing left to forget, although it looks only at what the candidate's mode has it look at.

`ReplacementProofs` proves about `Replacement`, for every set
of processes and versions, whatever a candidate prepares and hooks, and any number of
failures:

| Theorem | Statement |
|---|---|
| `OneReplacementAtATime` | `Spec => []` (no two processes are at a step that needs the state lock) |
| `HookNeverRepeated` | `Spec => []HookRunsOnce` |
| `OldVersionAlwaysGone` | `Spec => []OldVersionGone` |
| `PhaseAlwaysTells` | `SinglePackage` and `Alone` imply `Spec => []PhaseTells` |

`VersionsAssumption` keeps versions, records and the marks of the host apart, and
`NobodyAssumption` the free lock from the processes; TLC evaluates both in the upgrade runs. The
argument has two layers. `Discipline` does not look at the host: a process at a step of
`Locked` holds the lock and finds the phase it has saved (`Working`), the hook has
not run before its boundary (`HookPending`), and a preparation beyond its commit has
a keyed log (`PhaseTellsPreparation`). Since whatever changes the state file takes
the lock or finds it free, a step disturbs no other process (`OthersWork`), so that
each action answers for its own only (`OwnStep`). That the lock leaks
(section 6) does not matter to it: a leaked lock is still its owner's.

`OldVersionAlwaysGone` has no condition. Its invariant, `OldGone`, begins earlier than the
property: once the removal is recorded, or is about to be, the old version is not
there. It survives the administrator, who in the model may remove a package or put in
any version but the one being replaced (no code could prevent that), and every
install between the two phases is of the new one.

`Truth` adds the host: what each phase says of it (`HostTells`), what a process has
verified and not yet saved (`Sees`), that a record equal to the one the discovery saw
is not of the target (`Seeing`), hence that a replacement replaces a version by another
(`Moves`), and that what is recorded with an install is what it installed
(`RecordTells`), hence that the final write of a run, possibly much later, changes
nothing of it. `Alone` (`"admin"` is no possible failure) and `SinglePackage` (all versions are of
one package) are the conditions under which `upgrade_races` checks `PhaseTells`. Both are
needed. Somebody who removes a package between two phases makes the phase wrong. And
where versions are in several packages, the final write of an upgrade to one package
may come after a second upgrade that moved the tool to another package: it finds
nothing at its own target and records it all the same.

`RemovalProofs` proves about `Removal`, for every set of tools and sources, whatever the
tools require of each other, any number of snapshots and every bound:

| Theorem | Statement |
|---|---|
| `RemovalInvariant` | `Spec => []RemovalInv` |
| `SourcesNeverForgotten` | `Spec => []NothingForgotten` |
| `TrackedAlwaysUntilGone` | `Spec => TrackedUntilGone` |
| `AlwaysTakesOnlyItsOwn` | `Spec => TakesOnlyItsOwn` |
| `AlwaysCleanExit` | `Spec => CleanExit` |

`RemovalAssumption` is all they assume. `RemovalInv` has three layers. `OwnTruth` ties the state
file to the host: a source depengine added is recorded as its own, and what is
recorded as its own and is there was put there by it. `Sound` ties a command's copy of the
state to the file: ownership is only given up in it, a record it lacks is of a tool
that was seen to be gone, and what each frame of the recursion may take is its own. `Complete`
looks ahead: as long as nothing has failed, whatever lost its last dependent and is
still recorded is `Pending`, that is, a root, in the hands of the frame that is at work, on the
list of a frame below it, or among the tools still to be visited. At the end
nothing of that is left but the roots. Each operation makes the command a
`Later` one, whose copy has fewer claims and records; what is true of the frames below
the top carries over (`LaterFrame`), so each step answers only for the frame it
touches. While a command runs, the host and its ownership only shrink (`Takes`), which
covers the administrator too.

`ProjectLockProofs` proves about `ProjectLock`, for every set of processes, schemas,
profiles and selectors and every bound:

| Theorem | Statement |
|---|---|
| `LockValidates` | `Spec => []SavedLockValidates` |
| `OtherToolsKept` | `Spec => []UpdateKeepsOthers` |
| `StoredIdentityKept` | `Spec => []InstallKeepsIdentity` |
| `InstallReproducesLock` | `Spec => []LockReproduced` |

They assume `SchemasAssumption` (a schema is finite and its candidates have the fields
the module reads) and `NoneAssumption` (what is empty is told from a selector and
from a value), which TLC evaluates in `locking`. The invariant, `IInv`, says what a lock
file can be: one an update or an installation made. A pin of a selector has a
value and the value is of that selector (`PinOK`), only `git` and `npm` pin one, and an entry is
immutable and retained as a plan that projects to the very same entry
(`EntryOK`). Of the merge that completes or updates a lock, `MergedPins` says which pins
come out of the old and the fresh ones: those of keys outside the schema unchanged, those of
mutable candidates with the selector they have now. That a second update of a profile writes the
entries of the other tools as they were follows from `ProjectedEntry`: projecting is idempotent.
`IInv` then says of each process what its lock has to do with the one it loaded
(`OthersKept`, `IdentityKept`), and that every tool it has settled is settled on what the lock in
its hands says (`Reproduces`). A process keeps to the lock and the schema of its
first step (an installation looks at the file again only to record versions), so other
processes and edits do not disturb it; that selectors move while it settles its tools
matters only where the lock has nothing to say (`SurroundingSteps`, `InstallToolStep`).
`DocumentReproduced` and `PinReproduced` are the two ways a tool is settled, by a document
and by pins.

`SchedulingProofs` proves, for graphs of any size, every schema, every finite set of
tools, any number of workers and whatever is found on the host:

| Theorem | Statement |
|---|---|
| `SortOrders` | what `SortGraph` accepts it lays out in full: each tool in one level, after everything it depends on |
| `SortRefusesCycles` | what it refuses has an edge to nowhere, or tools each of which depends on another of them |
| `Inductive` | `Spec => []IInv` of `Scheduling` |
| `HelpersRunOnce` | `Spec => []OneRunPerHelper` |
| `ReportTold` | `Spec => []ReportIsTrue` |
| `OnlyJustifiedInstalls` | `Spec => InstallsJustified` |

They assume that the tools are numbered and finite in number, that a schema gives each
tool the fields the module reads (`SchemasAssumption`) and that what is found on a host are
candidates (`InstalledAssumption`); TLC evaluates these in `scheduling`.

The sort is Kahn's, an iteration. What it does in every round is shown by induction on
the number of rounds, which needs no induction rule with an operator for a parameter: a set
of rounds that is closed under the next one has no least exception (`NatMin`, from
`WFMin`, and `UpTo`). While something is stuck every round takes a tool, so as many rounds as
there are tools suffice; what is taken in a round depends only on what went before. From
the sort comes `LevelsOf`: the levels of `SortExecutionLevels` name each planned tool once
and after what it requires, and nothing a tool or a candidate requires is outside the schema.

`IInv` is `TypeOK`, `Phases`, `StacksOK`, `HelpersMarked`, `OneRunPerHelper`, `Waiting`,
`ResultsOK`, `Behind` and `Covered`. `OneRunPerHelper` is inductive with
`HelpersMarked`, since a helper is called for only while nothing marks it, and the mark is taken
away with its frame. `InstallsJustified` is a matter of whole levels: every tool of a level
that was left is there or in `failed` (`Behind`), a tool of this level with a
prerequisite in `failed` is blocked before anything runs, so whatever waits in a batch or in the
queue has what it needs (`Waiting`); a helper runs only past the prerequisites that
it has gone through (`FrameOK`), and one that is remembered as good is there
(`ResultsOK`). That a virtual tool is there when all it requires is (`There`) takes in the gates
through groups. `ReportIsTrue` takes in addition that a tool of the level is recorded, waits, runs
or has returned (`Covered`), so nobody is forgotten when a pool, a batch or a
cancelled run ends.

The twenty-odd actions of a worker are reduced to five effects on its stack and on the
report: the frame on top stays, calls for a helper, returns a result, gives up, or goes on
(`Stays`, `Calls`, `Returns`, `GivesUp`, `GoesOn`), under one condition on the
host (`Justified`). Each action is shown to be one of them (`Effect`) and each conjunct of
`IInv` to outlast all five; that is also how the action property is proved. On a
host that only gains candidates what is there stays there, so the frames of the other workers
need no argument of their own.

Only model-checked: the graph functions besides the sort, the lists computed by folds and what
declarations become (`GraphFacts`, `SelectionFacts`, `DeclarationFacts`), compared with their
references over bounded inputs, some of which recurse over nested data; and
liveness (`RunEnds`, `RunsEnd`, `JournalsClose`, `ReplacementsEnd`), since the prover has no rule
for fairness and `ENABLED`.


## 5. What is not modelled, and the plan

Out of scope: text (rendering, reports, SBOM, redaction, command lines), TOML
decoding and the formats of the package managers' answers, the Windows lock,
shared locks for read-only commands, signatures and credentials, the adapters for
`container`, `deb` and `dmg` (one command around a download that
`ArtifactInstall` has), the sudo keep-alive.

Left, in this order:

1. `Replacement` with the journal in place of its status: the uses a recovered
   replacement commits are those the plan had at its boundary. And the loop of
   `upgrade` over several tools, whose lock outlives the first of them.
2. The single-file downloads of `httpdownload`.
3. A target's version in `PreparationExecutor`: what is found absent before the
   lock was given up may be there when the installer runs.
4. Environments other than the default one (toolchain homes, Nix profiles), and
   the remaining rules of `internal/validate`.

Theorems worth proving next: that `Reach` and `Slice` agree with their references in
`GraphFacts` for graphs of any size, by the induction that serves the sort.


## 6. Where the code disagrees with what it says

`upgrade_leaks_lock` is shown by a run: a replacement whose lock came with the
preparation closes it neither on success nor on failure; the final `writeState` waits for
the finalizer of the lock file.

The others were met while modelling. The models contain the behaviour, and no
property is claimed against it.

Preparation and upgrade:

- A source recorded as external, removed by the
  administrator and added again, has a plan that says depengine and a record that
  says external; `FinalizeCommit` (`internal/plan/preparation.go:1238`) refuses
  and every later recovery stops there, while `ClaimResourceUses` documents the
  transition (line 423).
- `ReplacementRecoveryFor` (`internal/plan/replacement.go:124`) wants the desired
  version absent before it retries a removal, but for two versions of one package
  the old one still installed makes the desired one drifted. An upgrade that dies
  before it removed anything blocks every later run. An upgrade that brings back the
  recorded version after a drift is blocked in the same way after its install,
  because old and desired are then both satisfied.
- Recovery of a replacement (`internal/exec/run.go:380`) commits a preparation that
  is ready or committing; one with nothing to apply stays pending, so a candidate
  with prerequisites and no missing source is not installed once it was removed.
- The result of a recovered replacement has no hook outcome
  (`internal/exec/preparation.go:30`), and the final `writeState` puts
  `postinstall_done` back to false.
- `claimSchemaDependencyResources` (`internal/exec/state.go:145`) takes a
  prerequisite's ownership from the last result of its tool. One that its own level
  installed is executed again when its owner asks for it and reports that it was
  there already: it is recorded as external, and no removal will take it, while
  `docs/design/adr-002-transactional-preparation.md:57` says that last-reference
  prerequisites of depengine's are removed.
- `gateAlreadyInstalled` (`internal/exec/attempt.go:218`) leaves with
  `nextMethod` when the target cannot be verified or is broken, and neither rolls
  back nor closes the transaction it holds: the state lock stays taken as in
  `upgrade_leaks_lock`, for installs too (`FinalizeLeakedLock` models the
  finalizer that ends it).
- A root with nothing missing and no prerequisite is installed with neither journal
  nor lock (`internal/exec/attempt.go`, section 4): a competitor that fails over the same
  target may break it after it was verified and before it is recorded.
- A rollback (`internal/exec/preparation.go:407`) spares claimed sources, but
  claims appear at commit; a source another open journal prepared or relies on
  has none yet and is removed.
- The rollback decision is computed from the current snapshot at every resume
  and fails when a resource was recorded as external in between, which the final
  write of the same run can do.
- `sourcePreparationTransaction.resume` (`internal/exec/preparation.go:462`)
  takes the lock again without looking whether its journal is still there, and
  the replacement names it unseen; when another process has rolled it back the
  attempt fails only after the old version is gone.
- The final `writeState` (`internal/exec/state.go:102`) records the results of a run
  without looking whether another run has replaced the tool since. Within one package it
  probes what is installed and comes to the same; where the plan moves a tool between
  packages it records its own, older target over the newer one (section 4).

Removal:

- `forget` (`internal/app/forget.go:35`) and `undo` drop tool records and leave
  their claims; a prerequisite is then blocked by a dependent that is not tracked,
  which `internal/app/remove.go:307` says it cannot be ("tracked tools still
  depending on").
- `undo --snapshot` with a file that does not exist (`internal/state/snapshot.go:123`)
  reads an empty state, against which every tool is one to be removed.
- `undo` removes a helper that a surviving tool needs, since it goes by the difference
  of the tools and not by the claims.
- A source whose removal fails keeps its record although the tool is gone; the next
  removal of anything retries it (`internal/source/release.go:16`).

Package managers:

- `checkYarn` and `checkPipx` report an unversioned tool as present when the listing
  is not recognised; unversioned `uv` takes an unrecognised answer for absence, though
  the comment of `uvInstalledVersion` (`internal/ecosystem/base.go`) says it proves none.
- The adapters that read lines ignore that output was cut (`internal/run/runner.go:35`);
  scoop and Chocolatey take any answer with exit 0 that lists nothing for absence; of
  two back ends asdf's failure is ignored when the other lists nothing.
- Not verified: the channel conda was asked for; for an unversioned go tool, whose
  binary has the name. Never recognised: cargo crates from git or another
  registry, so that every run installs them again; steamcmd applications,
  so that no installation succeeds; a composer version written `v1.2`, since
  `composerVersionFromShow` (`internal/ecosystem/base.go:1126`) drops the "v" of what is shown:
  it drifts from `1.2` forever, and the installation is reported as failed.
- `goBinaryName` (`internal/ecosystem/go.go:247`) takes the element after the last `/cmd/` of the import
  path, else the last one. `go install` names a program after the last element, and after the one before
  when the last is a major version: `…/yq/v4` is installed as `yq` and looked for as `v4`,
  `…/cmd/tool/extra` as `extra` and looked for as `tool`, although the comment at line 242 speaks of the binary
  that `go install` produces. Then a versioned installation that worked is reported as failed, an
  unversioned one counts only if the tool's own name is found on the `PATH`, and removal
  deletes a file of the other name, or none, and drops the record (`Misnamed`).
- A flatpak asked for from one remote but in no scope is removed by a command that
  names neither (`internal/ecosystem/base.go:639`) and reaches what other remotes
  installed; `TakesOnlyItsOwn` leaves it out (`OfAnyRemote`).
- A leftover of another architecture makes a Debian package ambiguous
  (`internal/native/dpkg_observe.go:67`): an installation that worked is reported as failed.
- A branch, tag or `{latest}` is resolved anew although the plan carries the locked
  revision (`internal/git/adapter.go:298`, `internal/httpdownload/adapter.go:62`); once it has
  moved, a locked install is refused, while `docs/support-boundary.md:35` calls the
  lock document the sole authority on resolved identity.

Archives, local artifacts and git:

- When the removal of the backup fails after a commit, `internal/localartifact/install.go:556`
  takes the new payload back and restores the backup. A removal that failed halfway
  has already taken part of it, so the rollback puts an incomplete directory in place of a
  complete one, against the aim of the comment at line 571.
- An interrupted copy into the destination is "already installed" to the next run
  when the checkout's metadata came first or the binary is on the `PATH`, with files
  missing or cut off. One that died inside `.git` can be neither installed
  over nor removed.
- A removal of several managed paths that fails halfway leaves a target that counts as
  absent; the retry releases the record and the remaining paths stay
  (`docs/schema-reference.md:201` says they go). The same holds for a directory.
- Removal takes a directory the user had before, if it was given as `extract_to`.
- In a shared directory (`isSharedDir`, `internal/git/adapter.go:692`: `/opt`, `/usr`, any path
  ending in `/bin`) only `binary` is removed, and the removal is a success even if no such file
  is there (line 740). `GitRetainsCheckout` (`internal/methodkind/methodkind.go:589`)
  does not ask where `extract_to` is: a checkout retained in `~/tools/x/bin` keeps its
  `.git` and everything else, and the record is dropped. Without `binary` it can be
  installed and never removed.
- An artifact in a shared directory of another name than `binary`, or one
  not on the `PATH`, is never verified. `InstalledVersion` (`internal/git/adapter.go:140`) asks the
  remote for `{latest}` again instead of reading what is installed.

Lock file:

- Two updates at once: the last writer wins. An install that read a v1, missing or
  unreadable lock writes v1 over a v2 lock saved meanwhile (`internal/app/install.go:324`).
- A checksum `:auto` is not pinned by a run that installs the artifact, although the
  message at `internal/lock/lock.go:659` says that a non-frozen install materialises it.
- A candidate's identity is its kind and label, so changing what it asks for otherwise
  is no change to `--frozen-lockfile`.
- A version read from the lock is recorded for tools that were installed before
  (`syncInstalledVersions`). An http candidate that goes from `{latest}` to a fixed URL keeps
  its pin. `Merge` keeps an old checksum beside a new version.

Configuration:

- Layers may leave a candidate with both `branch` and `tag`, which only the adapter
  refuses (`internal/git/adapter.go:252`).
- `native = true` makes two native candidates, one without a package. A manager's name
  as `apt = true` gives a candidate whose package is empty and always absent (against
  `internal/config/parse.go:554`).
- A native candidate that a more specific layer merely infers overrides the explicit
  package of another layer, and makes it count as inferred (`InferredOverridesExplicit`).
- A candidate that names its kind under a label does not get the platform condition
  of the kind (`parse.go:642`; `LabelsLoseTheCondition`), which the comment at
  `parse.go:526` promises for the kind.
- `pkg_overrides` in a native table replaces the overrides given by manager names.
  `method_only = ["apt"]` beside a table `apt = {…}` is rejected by `Validate`, and on an apt
  host means the native candidate.
- The fields of a table under a bucket (`python = {bogus = 1}`) are checked against no
  contract.
- `FindMethodCandidate` with an empty label is ambiguous as soon as the kind has a labelled
  candidate too.
