------------------------------ MODULE Scheduling ------------------------------
(***************************************************************************)
(* One run of Executor.Execute: levels of the dependency graph, the        *)
(* requirement and security gates, the optimistic native batch, the worker *)
(* pool, candidates tried in order, method prerequisites executed lazily   *)
(* and memoised, cancellation, and the ownership of prerequisites written  *)
(* at the end.  PreparationExecutor has what happens inside one candidate  *)
(* that needs a journal; here an installation is one step with the         *)
(* outcomes that journal leaves it.                                        *)
(*                                                                         *)
(* A worker is a stack of frames, the Go call stack of one goroutine:      *)
(* "tool" is executeTool and its loop over the candidates, "dep" is        *)
(* executeDependency, which runs on its caller's goroutine.                *)
(***************************************************************************)
EXTENDS DependencyGraph

CONSTANTS
  Tools,        \* naturals, every name a schema may use
  Schemas,      \* the schemas a run may be given
  Installed,    \* the hosts: functions from tools to candidates present
  MaxJobs,      \* --jobs
  FaultKinds,   \* subset of {"probe","hook","install","terminal","effect","batch","skip","timeout","cancel"}
  MaxFaults     \* bound on the faults of a run

ASSUME SchedulingAssumption ==
  /\ Tools \subseteq Nat /\ IsFiniteSet(Tools)
  /\ MaxJobs \in Nat \ {0} /\ MaxFaults \in Nat

Method ==
  [native : BOOLEAN, when : BOOLEAN, adapter : BOOLEAN, found : BOOLEAN,
   requires : Seq(Tools), dangerous : BOOLEAN, before : BOOLEAN, after : BOOLEAN]

Tool == [requires : Seq(Tools), gated : SUBSET Tools, depOnly : BOOLEAN,
         methods : Seq(Method)]

ASSUME SchemasAssumption ==
  \A s \in Schemas : DOMAIN s \subseteq Tools /\ \A t \in DOMAIN s : s[t] \in Tool

ASSUME InstalledAssumption == Installed \subseteq [Tools -> SUBSET Nat]

Own == INSTANCE PreparationJournal WITH Resources <- Tools, Dependents <- Tools

Workers == 1..MaxJobs

VARIABLES
  schema, dryRun, allowCode, recovered,  \* what the run is given
  host,        \* per tool, the candidates present on the host
  levels, level,
  phase,       \* "level","verify","run","record","cancelled","write","done","error"
  batch,       \* candidates of the native batch still to be verified
  queue,       \* tools of the level left for the serial or parallel path
  stacks,      \* per worker, its frames
  collected,   \* results of the worker pool not recorded yet
  report, failed, memo,
  cancelled, faults,
  owned,       \* the ownership snapshot, resources being prerequisites
  tracked,     \* tools with a record in the state
  created      \* tools this run put on the host

given == <<schema, dryRun, allowCode, recovered>>
vars == <<given, host, levels, level, phase, batch, queue, stacks, collected,
          report, failed, memo, cancelled, faults, owned, tracked, created>>

Good == {"installed", "already", "would_install", "virtual"}
Bad  == {"failed", "skipped_when", "skipped_unavailable"}

Methods(t) == schema[t].methods

Requires(t) == EffectiveRequires(schema[t])

\* ToolResult, as far as anything later depends on it.
Result(t, status) ==
  [tool |-> t, status |-> status, committed |-> status = "installed", uses |-> {}]

Spend(kind) == kind \in FaultKinds /\ faults < MaxFaults /\ faults' = faults + 1

(***************************************************************************)
(* The gates.                                                              *)
(***************************************************************************)
HasDangerousMethod(t) == \E c \in DOMAIN Methods(t) : Methods(t)[c].dangerous

Blocked(t) == \E d \in Range(Requires(t)) : d \in failed

\* Where the report has results of a tool; the last one stands for it.
Recorded(t) == {k \in DOMAIN report : report[k].tool = t}

RecordedResult(t) == report[Max(Recorded(t))]

LevelTools == IF level \in DOMAIN levels THEN Range(levels[level]) ELSE {}

AllLevelTools == UNION {Range(levels[k]) : k \in DOMAIN levels}

(***************************************************************************)
(* Execute, up to the levels.  Recovery has taken place: the commits it    *)
(* reconciled are recorded first and are terminal for the run.             *)
(***************************************************************************)
Init ==
  /\ schema \in Schemas
  /\ dryRun \in BOOLEAN /\ allowCode \in BOOLEAN
  /\ host \in Installed
  /\ recovered \in {{}} \cup
       {{t} : t \in {x \in DOMAIN schema : Methods(x) # <<>> /\ host[x] # {}}}
  /\ dryRun => recovered = {}
  /\ LET sorted == SortExecutionLevels(schema) IN
       /\ levels = sorted.levels
       /\ phase = IF sorted.ok THEN "level" ELSE "error"
  /\ level = 1
  /\ batch = <<>> /\ queue = <<>> /\ collected = {}
  /\ stacks = [w \in Workers |-> <<>>]
  /\ report = SetToSeq({Result(t, "installed") : t \in recovered})
  /\ failed = {} /\ memo = [t \in Tools |-> "none"]
  /\ cancelled = FALSE /\ faults = 0
  /\ owned = Own!NoneOwned /\ tracked = recovered /\ created = recovered

Cancel ==
  /\ phase \notin {"write", "done", "error"}
  /\ ~cancelled /\ Spend("cancel")
  /\ cancelled' = TRUE
  /\ UNCHANGED <<given, host, levels, level, phase, batch, queue, stacks, collected,
                 report, failed, memo, owned, tracked, created>>

(***************************************************************************)
(* One level: blockFailedRequires, filterDangerousTools and                *)
(* identifyBatchCandidates, read only but for what they record.            *)
(***************************************************************************)
Dangerous(t) == ~allowCode /\ HasDangerousMethod(t)

\* The first candidate that applies to the host and has its adapter, or 0.
FirstApplicable(t) ==
  LET ok == {c \in DOMAIN Methods(t) : Methods(t)[c].when /\ Methods(t)[c].adapter}
  IN  IF ok = {} THEN 0 ELSE Min(ok)

\* A candidate the native batch may take: nothing but its package.
Batchable(t) ==
  /\ FirstApplicable(t) # 0
  /\ LET m == Methods(t)[FirstApplicable(t)] IN m.native /\ m.requires = <<>>

FoundByBatch(t) == Batchable(t) /\ FirstApplicable(t) \in host[t]

\* ... and whose transition has no hook of its own to run before.
InBatch(t) ==
  /\ Batchable(t) /\ ~FoundByBatch(t)
  /\ LET m == Methods(t)[FirstApplicable(t)] IN ~m.before /\ m.found

RunPhase(q) == IF MaxJobs > 1 /\ Len(q) > 1 THEN "parallel" ELSE "serial"

\* The report gains a result of this status for each tool of a sequence.
Note(rep, tools, status) == rep \o [k \in DOMAIN tools |-> Result(tools[k], status)]

\* blockFailedRequires, filterDangerousTools, identifyBatchCandidates: read
\* only but for what they record.  An unseen tool is one whose probe failed.
StartLevel ==
  /\ phase = "level" /\ ~cancelled /\ level \in DOMAIN levels
  /\ LET of(tools) == Only(levels[level], tools)
         blocked == {t \in LevelTools \ recovered : Blocked(t)}
         open    == LevelTools \ (recovered \cup blocked)
         refused == {t \in open : Dangerous(t)}
         allowed == open \ refused
     IN \E unseen \in {{}} \cup {{t} : t \in {x \in allowed : Batchable(x)}} :
          LET found == {t \in allowed \ unseen : FoundByBatch(t)}
              cands == of({t \in allowed \ unseen : InBatch(t)})
              rest  == of((allowed \ found) \ Range(cands))
              noted == Note(Note(Note(report, of(blocked), "failed"), of(refused), "failed"),
                            of(found), "already")
          IN  /\ IF unseen = {} THEN UNCHANGED faults ELSE Spend("probe")
              /\ failed' = failed \cup blocked
              /\ CASE Len(cands) > 1 /\ dryRun ->
                        /\ report' = Note(noted, cands, "would_install")
                        /\ batch' = <<>> /\ queue' = rest /\ phase' = RunPhase(rest)
                   [] Len(cands) > 1 /\ ~dryRun ->
                        /\ report' = noted
                        /\ batch' = cands /\ queue' = rest /\ phase' = "batch"
                   [] OTHER ->
                        /\ report' = noted
                        /\ batch' = <<>> /\ queue' = rest \o cands /\ phase' = RunPhase(queue')
  /\ UNCHANGED <<given, host, levels, level, stacks, collected, memo, cancelled,
                 owned, tracked, created>>

(***************************************************************************)
(* The native batch: one command for all its packages, then one look at    *)
(* each.  A manager may skip packages and still succeed.                   *)
(***************************************************************************)
Landed(S) == /\ host' = [t \in Tools |-> IF t \in S THEN host[t] \cup {FirstApplicable(t)} ELSE host[t]]
             /\ created' = created \cup S

BatchInstall ==
  /\ phase = "batch"
  /\ \E S \in SUBSET Range(batch) :
       \/ /\ S = Range(batch) /\ ~cancelled
          /\ Landed(S) /\ phase' = "verify" /\ UNCHANGED <<batch, queue, faults>>
       \/ /\ S # Range(batch) /\ ~cancelled /\ Spend("skip")
          /\ Landed(S) /\ phase' = "verify" /\ UNCHANGED <<batch, queue>>
       \/ /\ IF cancelled THEN S = {} /\ UNCHANGED faults ELSE Spend("batch")
          /\ Landed(S)
          /\ queue' = queue \o batch /\ batch' = <<>> /\ phase' = RunPhase(queue')
  /\ UNCHANGED <<given, levels, level, stacks, collected, report, failed, memo,
                 cancelled, owned, tracked>>

\* Mutant: what the manager's exit code promised is taken for the host.
BatchPresentTrusted(t) == TRUE

BatchPresent(t) == FirstApplicable(t) \in host[t]

\* verifyBatchInstall, one tool: present and observed, or back to the queue.
VerifyBatch ==
  /\ phase = "verify" /\ batch # <<>>
  /\ LET t == Head(batch)
         m == Methods(t)[FirstApplicable(t)]
     IN  /\ batch' = Tail(batch)
         /\ \/ /\ BatchPresent(t) /\ ~cancelled
               /\ \/ /\ report' = Append(report, Result(t, "installed")) /\ UNCHANGED faults
                  \/ /\ m.after /\ Spend("hook")
                     /\ report' = Append(report, [Result(t, "failed") EXCEPT !.committed = TRUE])
               /\ UNCHANGED queue
            \/ /\ IF BatchPresent(t) /\ ~cancelled THEN Spend("probe") ELSE UNCHANGED faults
               /\ queue' = Append(queue, t) /\ UNCHANGED report
         /\ phase' = IF batch' = <<>> THEN RunPhase(queue') ELSE "verify"
  /\ UNCHANGED <<given, host, levels, level, stacks, collected, failed, memo,
                 cancelled, owned, tracked, created>>

(***************************************************************************)
(* Frames.                                                                 *)
(***************************************************************************)
Frame(op, t) == [op |-> op, tool |-> t, cand |-> 1, pc |-> IF op = "dep" THEN "req" ELSE "start",
                 i |-> 1, uses |-> {}, seen |-> {}, late |-> FALSE]

Busy(w) == stacks[w] # <<>>
Top(w)  == Last(stacks[w])

\* A context ends for a frame and for every frame it called.
ContextDone(w) == cancelled \/ \E k \in DOMAIN stacks[w] : stacks[w][k].late

\* Executed for another tool's candidate rather than for its own level.
Lazy(w) == Len(stacks[w]) > 1

SetTop(w, frame) == stacks' = [stacks EXCEPT ![w] = Append(Front(@), frame)]

Candidate(w) == Methods(Top(w).tool)[Top(w).cand]

Transactional(w) == Lazy(w) \/ Candidate(w).requires # <<>>

\* The next candidate, after one that was skipped or failed this way.
TryNext(w, how) ==
  /\ SetTop(w, [Top(w) EXCEPT !.cand = @ + 1, !.pc = "gate", !.i = 1, !.uses = {},
                              !.seen = @ \cup {how}])
  /\ UNCHANGED <<report, collected, memo>>

Advance(w, pc) ==
  /\ SetTop(w, [Top(w) EXCEPT !.pc = pc])
  /\ UNCHANGED <<report, collected, memo>>

\* The tool's result is terminal: returned to whoever called for it.
Finish(w, result) ==
  IF Lazy(w)
  THEN /\ stacks' = [stacks EXCEPT ![w] = Front(Front(@))]
       /\ report' = Append(report, result)
       /\ memo' = [memo EXCEPT ![result.tool] = result.status]
       /\ UNCHANGED collected
  ELSE /\ stacks' = [stacks EXCEPT ![w] = <<>>]
       /\ IF phase = "parallel" THEN collected' = collected \cup {result} /\ UNCHANGED report
                                ELSE report' = Append(report, result) /\ UNCHANGED collected
       /\ UNCHANGED memo

FinishAs(w, status) == Finish(w, Result(Top(w).tool, status))

(***************************************************************************)
(* executeLevelParallel and the serial loop of runRemaining.               *)
(***************************************************************************)
Take(w) ==
  /\ phase = "parallel" \/ (phase = "serial" /\ w = 1)
  /\ ~Busy(w) /\ queue # <<>> /\ ~cancelled
  /\ stacks' = [stacks EXCEPT ![w] = <<Frame("tool", Head(queue))>>]
  /\ queue' = Tail(queue)
  /\ UNCHANGED <<given, host, levels, level, phase, batch, collected, report, failed,
                 memo, cancelled, faults, owned, tracked, created>>

\* The tool's own timeout; the tools it requires lazily live under it.
TimeOut(w) ==
  /\ Spend("timeout")
  /\ \E k \in DOMAIN stacks[w] :
       /\ stacks[w][k].op = "tool" /\ ~stacks[w][k].late
       /\ stacks' = [stacks EXCEPT ![w][k].late = TRUE]
  /\ UNCHANGED <<given, host, levels, level, phase, batch, queue, collected, report,
                 failed, memo, cancelled, owned, tracked, created>>
(***************************************************************************)
(* executeTool and tryMethods: the candidates in order.                    *)
(***************************************************************************)

Refused(t) == Dangerous(t)

StartTool(w) ==
  /\ Busy(w) /\ Top(w).op = "tool" /\ Top(w).pc = "start"
  /\ LET t == Top(w).tool IN
       \/ Methods(t) = <<>> /\ FinishAs(w, "virtual")
       \/ Methods(t) # <<>> /\ Refused(t) /\ FinishAs(w, "failed")
       \/ Methods(t) # <<>> /\ ~Refused(t) /\ Advance(w, "gate")
  /\ UNCHANGED <<host, faults, owned, tracked, created>>

\* finishExhausted: platform-gated, unavailable or failed.
FinishExhausted(w) ==
  LET seen == Top(w).seen IN
  FinishAs(w, IF "failed" \in seen THEN "failed"
              ELSE IF seen \subseteq {"skip_when"} THEN "skipped_when"
              ELSE "skipped_unavailable")

\* The gates of attemptMethod before the first hook.
Gate(w) ==
  /\ Busy(w) /\ Top(w).pc = "gate"
  /\ LET t == Top(w).tool  c == Top(w).cand IN
       \/ ContextDone(w) /\ FinishAs(w, "failed") /\ UNCHANGED faults
       \/ /\ ~ContextDone(w) /\ c > Len(Methods(t))
          /\ FinishExhausted(w) /\ UNCHANGED faults
       \/ /\ ~ContextDone(w) /\ c <= Len(Methods(t))
          /\ LET m == Methods(t)[c] IN
               \/ ~m.when /\ TryNext(w, "skip_when") /\ UNCHANGED faults
               \/ m.when /\ ~m.adapter /\ TryNext(w, "skip_unavailable") /\ UNCHANGED faults
               \/ m.when /\ m.adapter /\ Spend("probe") /\ TryNext(w, "failed")
               \/ m.when /\ m.adapter /\ Spend("terminal") /\ FinishAs(w, "failed")
               \/ /\ m.when /\ m.adapter /\ c \in host[t]
                  /\ FinishAs(w, "already") /\ UNCHANGED faults
               \/ /\ m.when /\ m.adapter /\ c \notin host[t] /\ ~m.found
                  /\ TryNext(w, "skip_unavailable") /\ UNCHANGED faults
               \/ /\ m.when /\ m.adapter /\ c \notin host[t] /\ m.found
                  /\ Advance(w, "before") /\ UNCHANGED faults
  /\ UNCHANGED <<host, owned, tracked, created>>

\* The before-hooks of the transition; a failing one ends the tool.
BeforeHook(w) ==
  /\ Busy(w) /\ Top(w).pc = "before"
  /\ \/ Advance(w, "req") /\ UNCHANGED faults
     \/ /\ Candidate(w).before /\ ~dryRun
        /\ IF ContextDone(w) THEN UNCHANGED faults ELSE Spend("hook")
        /\ FinishAs(w, "failed")
  /\ UNCHANGED <<host, owned, tracked, created>>

(***************************************************************************)
(* ensureMethodDependencies and executeDependency.  The frame on top looks *)
(* at its next requirement: recovered, done, running or nobody's yet.      *)
(***************************************************************************)
Needed(w) == IF Top(w).op = "dep" THEN Requires(Top(w).tool) ELSE Candidate(w).requires

NextNeeded(w) == Needed(w)[Top(w).i]

NeedMore(w) == Busy(w) /\ Top(w).pc = "req" /\ Top(w).i <= Len(Needed(w))

Outcome(d) == IF d \in recovered THEN "installed" ELSE memo[d]

\* Mutant: a helper is known only once its execution is over.
RegisteredLate(d) == memo

Registered(d) == [memo EXCEPT ![d] = "running"]

RunDependency(w) ==
  /\ NeedMore(w) /\ Outcome(NextNeeded(w)) = "none"
  /\ memo' = Registered(NextNeeded(w))
  /\ stacks' = [stacks EXCEPT ![w] = Append(@, Frame("dep", NextNeeded(w)))]
  /\ UNCHANGED <<host, report, collected, faults, owned, tracked, created>>

UseDependency(w) ==
  /\ NeedMore(w) /\ Outcome(NextNeeded(w)) \in Good
  /\ LET d == NextNeeded(w)
         use == IF Outcome(d) = "virtual" \/ Top(w).op = "dep" THEN {}
                ELSE {[res |-> d, created |-> Outcome(d) = "installed"]}
     IN  SetTop(w, [Top(w) EXCEPT !.i = @ + 1, !.uses = @ \cup use])
  /\ UNCHANGED <<host, report, collected, memo, faults, owned, tracked, created>>

\* A dependency that failed, or one run by another worker that is given up
\* waiting for, ends the candidate, or the dependency that required it.
MissDependency(w) ==
  /\ NeedMore(w)
  /\ LET d == Outcome(NextNeeded(w)) IN d \in Bad \/ (d = "running" /\ ContextDone(w))
  /\ IF Top(w).op = "dep"
     THEN /\ stacks' = [stacks EXCEPT ![w] = Front(@)]
          /\ report' = Append(report, Result(Top(w).tool, "failed"))
          /\ memo' = [memo EXCEPT ![Top(w).tool] = "failed"]
          /\ UNCHANGED collected
     ELSE TryNext(w, "failed")
  /\ UNCHANGED <<host, faults, owned, tracked, created>>

HaveDependencies(w) ==
  /\ Busy(w) /\ Top(w).pc = "req" /\ Top(w).i > Len(Needed(w))
  /\ IF Top(w).op = "dep"
     THEN /\ stacks' = [stacks EXCEPT ![w] =
                          Append(Append(Front(@), [Top(w) EXCEPT !.pc = "running"]),
                                 Frame("tool", Top(w).tool))]
          /\ UNCHANGED <<report, collected, memo>>
     ELSE Advance(w, "install")
  /\ UNCHANGED <<host, faults, owned, tracked, created>>

(***************************************************************************)
(* installCandidate and finishInstalled.                                   *)
(***************************************************************************)
InstalledHere(w) ==
  /\ host' = [host EXCEPT ![Top(w).tool] = @ \cup {Top(w).cand}]
  /\ created' = created \cup {Top(w).tool}

\* finalizeCommitWithTool: the record, the claims of the candidate and, for
\* a prerequisite, the fact that depengine created it, in one save.
FinalizeCommit(w) ==
  LET t == Top(w).tool
      claimed == Own!ClaimResourceUses(owned, t, Top(w).uses)
  IN  IF ~Transactional(w) THEN UNCHANGED <<owned, tracked>>
      ELSE /\ tracked' = tracked \cup {t}
           /\ owned' = IF Lazy(w) THEN Own!TrackResourceUses(claimed, {[res |-> t, created |-> TRUE]})
                                  ELSE claimed

Install(w) ==
  /\ Busy(w) /\ Top(w).pc = "install"
  /\ \/ dryRun /\ FinishAs(w, "would_install") /\ UNCHANGED <<host, faults, owned, tracked, created>>
     \/ /\ ~dryRun /\ ContextDone(w) /\ FinishAs(w, "failed")
        /\ UNCHANGED <<host, faults, owned, tracked, created>>
     \/ /\ ~dryRun /\ ~ContextDone(w)
        /\ InstalledHere(w) /\ FinalizeCommit(w) /\ Advance(w, "after") /\ UNCHANGED faults
     \/ /\ ~dryRun /\ ~ContextDone(w) /\ Spend("install")      \* nothing happened
        /\ IF Lazy(w) THEN FinishAs(w, "failed") ELSE TryNext(w, "failed")
        /\ UNCHANGED <<host, owned, tracked, created>>
     \/ /\ ~dryRun /\ ~ContextDone(w) /\ Spend("effect")       \* done, reported as failed
        /\ InstalledHere(w)
        /\ \/ /\ Lazy(w) /\ FinishAs(w, "failed") /\ UNCHANGED <<owned, tracked>>
           \/ /\ ~Lazy(w) /\ Transactional(w) /\ FinalizeCommit(w) /\ Advance(w, "after")
           \/ /\ ~Transactional(w) /\ TryNext(w, "failed") /\ UNCHANGED <<owned, tracked>>

AfterHook(w) ==
  /\ Busy(w) /\ Top(w).pc = "after"
  /\ LET done == [Result(Top(w).tool, "installed") EXCEPT !.uses = Top(w).uses] IN
       \/ Finish(w, done) /\ UNCHANGED faults
       \/ /\ Candidate(w).after
          /\ IF ContextDone(w) THEN UNCHANGED faults ELSE Spend("hook")
          /\ Finish(w, [done EXCEPT !.status = "failed"])
  /\ UNCHANGED <<host, owned, tracked, created>>

WorkerStep(w) ==
  \/ Take(w)
  \/ /\ \/ StartTool(w) \/ Gate(w) \/ BeforeHook(w) \/ RunDependency(w) \/ UseDependency(w)
        \/ MissDependency(w) \/ HaveDependencies(w) \/ Install(w) \/ AfterHook(w)
     /\ UNCHANGED <<given, levels, level, phase, batch, queue, failed, cancelled>>

(***************************************************************************)
(* The end of a level and of the run.                                      *)
(***************************************************************************)
Idle == \A w \in Workers : ~Busy(w)

\* The pool's results are recorded in the order of the tools' names.
EndPool ==
  /\ phase \in {"serial", "parallel"} /\ Idle /\ (queue = <<>> \/ cancelled)
  /\ \E results \in SetToSeqs(collected) :
       /\ \A i, j \in DOMAIN results : i < j => results[i].tool <= results[j].tool
       /\ report' = report \o results
  /\ collected' = {} /\ queue' = <<>> /\ phase' = "record"
  /\ UNCHANGED <<given, host, levels, level, batch, stacks, failed, memo, cancelled,
                 faults, owned, tracked, created>>

\* Mutant: only tools that failed block their dependents, skipped ones do not.
RecordLevelFailuresNarrow ==
  {t \in LevelTools : Recorded(t) # {} /\ RecordedResult(t).status = "failed"}

RecordLevelFailures ==
  {t \in LevelTools : Recorded(t) # {} /\ RecordedResult(t).status \in Bad}

EndLevel ==
  /\ \/ phase = "record" /\ failed' = failed \cup RecordLevelFailures /\ level' = level + 1
     \/ phase = "level" /\ (cancelled \/ level \notin DOMAIN levels) /\ UNCHANGED <<failed, level>>
  /\ phase' = IF cancelled THEN "cancelled"
              ELSE IF level' \in DOMAIN levels THEN "level" ELSE "write"
  /\ UNCHANGED <<given, host, levels, batch, queue, stacks, collected, report, memo,
                 cancelled, faults, owned, tracked, created>>

\* The tools of the run nothing was recorded of, in level order.
CancelledTools ==
  FlattenSeq([k \in DOMAIN levels |-> Only(levels[k], {t \in DOMAIN schema : Recorded(t) = {}})])

\* A tool without methods is virtual still, unless what it requires failed.
RecordCancelled(down, t) ==
  IF Methods(t) = <<>> /\ ~\E d \in Range(Requires(t)) : d \in down
  THEN down ELSE down \cup {t}

RecordCancelledTools ==
  /\ phase = "cancelled"
  /\ failed' = FoldLeft(RecordCancelled, failed, CancelledTools)
  /\ report' = report \o [k \in DOMAIN CancelledTools |->
                   LET t == CancelledTools[k]
                   IN  Result(t, IF t \in failed' THEN "failed" ELSE "virtual")]
  /\ phase' = "write"
  /\ UNCHANGED <<given, host, levels, level, batch, queue, stacks, collected, memo,
                 cancelled, faults, owned, tracked, created>>

(***************************************************************************)
(* writeState and claimSchemaDependencyResources.                          *)
(***************************************************************************)
Commits(r) == r.status \in {"installed", "already"} \/ r.committed

CommittedTools == {r.tool : r \in {x \in Range(report) : Commits(x)}}

\* The last committed result of a tool stands for all of them.
CommittedResult(t) == report[Max({k \in Recorded(t) : Commits(report[k])})]

CreatedByRun(d) ==
  d \in CommittedTools /\ (CommittedResult(d).status = "installed" \/ CommittedResult(d).committed)

ClaimSchemaDependencies(o, t, known) ==
  Own!ClaimResourceUses(o, t, {[res |-> d, created |-> CreatedByRun(d)] :
                                 d \in Range(Requires(t)) \cap known})

WriteState ==
  /\ phase = "write"
  /\ IF dryRun THEN UNCHANGED <<owned, tracked>>
     ELSE LET known  == tracked \cup CommittedTools
              claims == FoldLeft(LAMBDA o, r : IF Commits(r) THEN Own!ClaimResourceUses(o, r.tool, r.uses)
                                                            ELSE o, owned, report)
          IN  /\ tracked' = known
              /\ owned' = FoldSet(LAMBDA t, o : ClaimSchemaDependencies(o, t, known), claims, CommittedTools)
  /\ phase' = "done"
  /\ UNCHANGED <<given, host, levels, level, batch, queue, stacks, collected, report,
                 failed, memo, cancelled, faults, created>>

Terminated == phase \in {"done", "error"} /\ UNCHANGED vars

RunStep == StartLevel \/ BatchInstall \/ VerifyBatch \/ EndPool \/ EndLevel
           \/ RecordCancelledTools \/ WriteState

Next == \/ RunStep
        \/ \E w \in Workers : WorkerStep(w) \/ TimeOut(w)
        \/ Cancel
        \/ Terminated

\* Goroutines are scheduled, and commands they wait for end or time out.
Spec == /\ Init /\ [][Next]_vars
        /\ WF_vars(RunStep)
        /\ \A w \in Workers : WF_vars(WorkerStep(w))

(***************************************************************************)
(* Properties.                                                             *)
(***************************************************************************)
\* What stands for a tool on the host: itself, or all a virtual one requires.
Present(tool, on) ==
  \A S \in SUBSET DOMAIN schema :
    (\A t \in DOMAIN schema :
       (IF Methods(t) = <<>> THEN Range(Requires(t)) \subseteq S ELSE on[t] # {}) => t \in S)
    => tool \in S

\* A tool is put on the host, by its level, by a batch or lazily for another's
\* candidate, only when everything it requires on this host is there, through
\* virtual groups too, and never one that may run arbitrary code and was not
\* opted into.
InstallsJustified ==
  [][\A t \in DOMAIN schema :
       host'[t] # host[t] => /\ \A d \in Range(Requires(t)) : Present(d, host)
                             /\ ~Dangerous(t)]_vars

\* No result says a tool is there when the host has no candidate of it, as a
\* batch that exits 0 may have skipped it; and a run that ends, interrupted or
\* not, has a result for every tool it planned.
ReportIsTrue ==
  /\ \A k \in DOMAIN report :
       report[k].status \in {"installed", "already"} => host[report[k].tool] # {}
  /\ phase = "done" => \A t \in AllLevelTools : Recorded(t) # {}

\* Two candidates that need one helper never run it at the same time: a
\* lazy dependency is on one worker's stack only, and once there.
OneRunPerHelper ==
  \A v, w \in Workers : \A j \in DOMAIN stacks[v], k \in DOMAIN stacks[w] :
    /\ stacks[v][j].op = "dep" /\ stacks[w][k].op = "dep"
    /\ stacks[v][j].tool = stacks[w][k].tool
    => v = w /\ j = k

\* The run ends: no worker waits for a helper that waits for it.
RunEnds == <>(phase \in {"done", "error"})

=============================================================================
