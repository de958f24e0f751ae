---------------------------- MODULE ProjectLock -----------------------------
(***************************************************************************)
(* depengine.lock in use: update writes it, install consumes it, completes *)
(* one of the first version and brings the recorded versions in line with  *)
(* it, while the schema is edited, what the selectors stand for moves on,  *)
(* and other processes do the same to the same file.                       *)
(*                                                                         *)
(* A candidate of a tool is a record                                       *)
(*   kind, label   its method kind, and the label or None                  *)
(*   sel           what it asks for (a branch, a release, a package)       *)
(*   fixed         the schema names a concrete version of it               *)
(*   sum           the checksum of an http artifact: None, AutoSum, a value*)
(*   srcs          the identity of its package sources, or None            *)
(* and what a selector stands for at some moment is a value [of, n].       *)
(* A git candidate stands also for cargo --git and for a container tag,    *)
(* an npm candidate for pnpm and yarn, http for every downloaded artifact, *)
(* native for every manager without a concrete version to lock.            *)
(***************************************************************************)
EXTENDS ResolvedLock, SequencesExt

CONSTANTS
  Corrupt,      \* a lock file that cannot be read
  Processes,    \* depengine processes
  Schemas,      \* what the schema may be edited to
  Outages,      \* sets of kinds that may be unavailable together
  MaxMoves,     \* times a selector may move on
  MaxEdits,     \* edits of the schema, damages of the lock file
  MaxRuns,      \* commands started
  MaxFailures   \* failed saves and processes that die

VARIABLES
  schema,    \* the schema in the project: tool -> [methods, tags, requires, depOnly]
  upstream,  \* selector -> how often it has moved
  file,      \* the lock file: None, Corrupt or a lock
  host,      \* <<tool, kind>> -> the value installed, or None
  records,   \* tool -> what the state file says of it, None if nothing
  proc,      \* what each process is doing
  budget     \* [moves, edits, runs, failures] left

vars == <<schema, upstream, file, host, records, proc, budget>>

Kinds == {"git", "http", "npm", "native"}
Tools == UNION {DOMAIN s : s \in Schemas}
MethodsOf(s) == UNION {ToSet(s[t].methods) : t \in DOMAIN s}
Selectors == UNION {{m.sel : m \in MethodsOf(s)} : s \in Schemas}

Value(sel, n) == [of |-> sel, n |-> n]

MethodFields == {"kind", "label", "sel", "fixed", "sum", "srcs"}
WellFormed(s) ==
  /\ IsFiniteSet(DOMAIN s)
  /\ \A t \in DOMAIN s :
       /\ DOMAIN s[t] = {"methods", "tagged", "requires", "depOnly"}
       /\ s[t].methods \in Seq(MethodsOf(s))
  /\ \A m \in MethodsOf(s) :
       /\ DOMAIN m = MethodFields
       /\ m.kind \in Kinds /\ m.fixed \in BOOLEAN

\* A schema is finite, and its candidates have these fields.
ASSUME SchemasAssumption == \A s \in Schemas : WellFormed(s)

\* An empty field is told from a selector and from what a selector stands for.
ASSUME NoneAssumption ==
  None # AutoSum /\ None \notin Selectors /\ None \notin [of : Selectors, n : Nat]

FixedValue(m) == Value(m.sel, 0)
Latest(m, up) == Value(m.sel, up[m.sel])

-----------------------------------------------------------------------------
(* Schema: scope of a command, keys and identity hashes. *)

Restricted(s, names) == [t \in names \cap DOMAIN s |-> s[t]]

\* The tools with the tag of the profile, or all, and what they require
FilterTools(s, profile) ==
  LET Root(t) == ~s[t].depOnly /\ (profile => s[t].tagged)
      Edges(T) == UNION {s[t].requires : t \in T \cap DOMAIN s}
      reach[n \in 0..Cardinality(DOMAIN s)] ==
        IF n = 0 THEN {t \in DOMAIN s : Root(t)}
        ELSE reach[n - 1] \cup Edges(reach[n - 1])
  IN Restricted(s, reach[Cardinality(DOMAIN s)])

\* Tools without a candidate are groups: they have no lock entry.
Installable(s) == {t \in DOMAIN s : s[t].methods # <<>>}

\* "<tool>/<kind>/<index among the candidates of the kind>"
ToolKey(s, t, i) ==
  <<t, s[t].methods[i].kind,
    Cardinality({j \in 1..(i - 1) : s[t].methods[j].kind = s[t].methods[i].kind})>>
Places(s) == UNION {{t} \X DOMAIN s[t].methods : t \in DOMAIN s}
Keys(s) == {ToolKey(s, c[1], c[2]) : c \in Places(s)}
MethodAt(s, key) ==
  LET c == CHOOSE c \in Places(s) : ToolKey(s, c[1], c[2]) = key
  IN s[c[1]].methods[c[2]]

\* The hash of the candidates covers kind and label, not what they ask for.
MethodsHash(s) ==
  [t \in Installable(s) |->
     [i \in DOMAIN s[t].methods |-> <<s[t].methods[i].kind, s[t].methods[i].label>>]]
SourceHash(s) ==
  [key \in {k \in Keys(s) : MethodAt(s, k).srcs # None} |-> MethodAt(s, key).srcs]

Lookup(f, x) == IF x \in DOMAIN f THEN f[x] ELSE None
\* f, completed by g
Over(f, g) == [x \in DOMAIN f \cup DOMAIN g |-> IF x \in DOMAIN f THEN f[x] ELSE g[x]]
Nothing == [x \in {} |-> None]

Lock(version, doc, pins, methods, sources) ==
  [version |-> version, doc |-> doc, pins |-> pins,
   methods |-> methods, sources |-> sources]
IsV2(lk) == lk # None /\ lk.version = 2
Load(f) == IF f = Corrupt THEN None ELSE f

-----------------------------------------------------------------------------
(* Locks of the first version: a pin for each mutable candidate. *)

\* sel is kept for git and npm, http keeps the bare version.
NoPin == [sel |-> None, value |-> None, sum |-> None]
MutablePinned(m) == m.kind \in {"git", "npm"} /\ ~m.fixed

PinApplies(m, pin) == MutablePinned(m) /\ pin.sel = m.sel

\* What ApplyLegacyV1 puts on a candidate: the locked value and the checksum.
\* An http candidate takes a release however it is requested now.
ApplyLegacyV1(s, lk) ==
  [key \in Keys(s) |->
    LET m == MethodAt(s, key)
        pin == IF lk = None \/ IsV2(lk) THEN NoPin
               ELSE IF key \in DOMAIN lk.pins THEN lk.pins[key] ELSE NoPin
    IN [value |-> IF m.kind = "http" \/ (pin.value # None /\ PinApplies(m, pin))
                  THEN pin.value ELSE None,
        sum |-> IF m.sum = AutoSum /\ pin.sum # None THEN pin.sum ELSE m.sum]]

\* The pins of the current scope and the keys that lose theirs
FreshPin(m, a, up) ==
  [sel |-> IF MutablePinned(m) THEN m.sel ELSE None,
   value |-> IF MutablePinned(m) /\ a.value # None THEN a.value
             ELSE IF m.kind = "native" \/ m.fixed \/ (m.kind = "http" /\ a.value # None)
                  THEN None ELSE Latest(m, up),
   sum |-> IF m.kind = "http" /\ a.sum # AutoSum THEN a.sum ELSE None]
ResolveLegacyV1(s, applied, up) ==
  LET Pin(key) == FreshPin(MethodAt(s, key), applied[key], up)
  IN [pins |-> [key \in {k \in Keys(s) : Pin(k) # NoPin} |-> Pin(key)],
      cleared |-> {k \in Keys(s) : /\ MethodAt(s, k).kind \in {"git", "npm"}
                                   /\ MethodAt(s, k).fixed}]

\* MUTANT: pins of candidates that are not mutable any more stay.
MergeKeepingCleared(old, fresh) ==
  [k \in DOMAIN old \cup DOMAIN fresh.pins |->
     LET o == IF k \in DOMAIN old THEN old[k] ELSE NoPin
         f == IF k \in DOMAIN fresh.pins THEN fresh.pins[k] ELSE NoPin
     IN [x \in DOMAIN NoPin |-> IF f[x] # None THEN f[x] ELSE o[x]]]

\* Field by field, what is fresh wins; empty pins are dropped.
Merge(old, fresh) ==
  LET Field(k, x) ==
        LET f == IF k \in DOMAIN fresh.pins THEN fresh.pins[k][x] ELSE None
        IN IF f # None THEN f
           ELSE IF k \notin DOMAIN old \/ (k \in fresh.cleared /\ x # "sum")
                THEN None ELSE old[k][x]
      Pin(k) == [x \in DOMAIN NoPin |-> Field(k, x)]
  IN [k \in {k \in DOMAIN old \cup DOMAIN fresh.pins : Pin(k) # NoPin} |-> Pin(k)]

\* Frozen validation of the identity that both versions share
FrozenIdentity(s, lk) ==
  /\ \A t \in Installable(s) : Lookup(lk.methods, t) = MethodsHash(s)[t]
  /\ \A k \in Keys(s) : Lookup(lk.sources, k) = MethodAt(s, k).srcs

\* MUTANT: a pin is enough, whatever it was resolved for.
PinComplete(m, pin) == MutablePinned(m) => pin.value # None

PinUpToDate(m, pin) ==
  /\ MutablePinned(m) => pin.sel = m.sel /\ pin.value # None
  /\ (m.kind = "http" /\ ~m.fixed) => pin.value # None
  /\ m.sum = AutoSum => pin.sum # None
  /\ (m.kind = "npm" /\ m.fixed) => pin.sel = None /\ pin.value = None

ValidateFrozen(s, lk) ==
  /\ FrozenIdentity(s, lk)
  /\ IF IsV2(lk) THEN Installable(s) \subseteq DOMAIN lk.doc
     ELSE \A k \in Keys(s) :
            PinUpToDate(MethodAt(s, k), IF k \in DOMAIN lk.pins THEN lk.pins[k] ELSE NoPin)

-----------------------------------------------------------------------------
(* Resolution of one candidate, a being what a v1 lock put on it. *)

\* The static plan of a candidate
Intent(t, m) ==
  LET request == IF m.kind = "git"
                 THEN [mode |-> IF m.fixed THEN "git-revision" ELSE "git-branch",
                       value |-> m.sel]
                 ELSE IF m.kind = "http" /\ ~m.fixed THEN [mode |-> "latest", value |-> None]
                 ELSE IF m.kind = "npm" /\ m.fixed
                      THEN [mode |-> "exact", value |-> FixedValue(m)] ELSE None
      known == [NoIdentity EXCEPT
                  !["package"] = IF m.kind \in {"npm", "native"} THEN t ELSE None,
                  !["version"] = IF m.kind = "npm" /\ m.fixed THEN FixedValue(m) ELSE None]
  IN StaticPlan(t, m.kind, request, known, {}, {})

\* ResolvePlan of the adapter. A selector is resolved again although the plan
\* it is given may be pinned already.
Adapter(m, a, up, plan) ==
  LET now == IF m.kind = "npm" THEN a.value
             ELSE IF m.fixed THEN FixedValue(m)
             ELSE IF a.value # None THEN a.value ELSE Latest(m, up)
      version == IF m.kind = "http" /\ m.fixed THEN a.value ELSE now
      fresh == {[local |-> FALSE, place |-> now, sig |-> None, sum |-> a.sum]}
  IN CASE m.kind = "git" ->
            [plan EXCEPT !.identity["revision"] = now, !.identity["source"] = m.sel]
       [] m.kind = "http" ->
            [plan EXCEPT !.identity["version"] = IF @ = None THEN version ELSE @,
                         !.artifacts = IF @ = {} THEN fresh
                                       ELSE {[x EXCEPT !.place = now] : x \in @}]
       [] m.kind = "npm" ->
            [plan EXCEPT !.identity["version"] = IF now # None THEN now ELSE @]
       [] OTHER -> plan

ResolvedPlan(doc, t, m, a, up) ==
  LET Answer(plan) == IF plan = None THEN None ELSE Adapter(m, a, up, plan)
  IN ResolveCandidatePlan(doc, Intent(t, m),
                          Answer(ResolutionRequest(doc, Intent(t, m))))

\* What an installation by this plan puts on the host: without a version the
\* package manager takes the latest.
Installs(m, plan, up) ==
  CASE m.kind = "git" -> plan.identity["revision"]
    [] m.kind = "http" -> (CHOOSE x \in plan.artifacts : TRUE).place
    [] m.kind = "npm" -> IF plan.identity["version"] # None
                         THEN plan.identity["version"] ELSE Latest(m, up)
    [] OTHER -> Latest(m, up)

\* A download is compared with the checksum of its plan.
Verifies(m, plan) ==
  m.kind = "http" => \A x \in plan.artifacts : x.sum \in {None, AutoSum, x.place}

\* A checkout and an npm package tell their version, a download and a native
\* package only that they are there.
Satisfied(m, plan, found) ==
  /\ found # None
  /\ m.kind = "git" => found = plan.identity["revision"]
  /\ m.kind = "npm" => plan.identity["version"] \in {None, found}

-----------------------------------------------------------------------------
(* update *)

NoApplied(s) == ApplyLegacyV1(s, None)

\* The first candidate that resolves, in the order of the schema
LockCandidate(s, t, up, down) ==
  LET First(plans) ==
        LET fit == {i \in DOMAIN plans : plans[i] # None}
        IN IF fit = {} THEN None ELSE plans[CHOOSE i \in fit : \A j \in fit : i <= j]
  IN First([i \in DOMAIN s[t].methods |->
              IF s[t].methods[i].kind \in down THEN None
              ELSE ResolvedPlan(None, t, s[t].methods[i],
                                NoApplied(s)[ToolKey(s, t, i)], up)])

\* The digest of an artifact the previous lock had at the same place
CarryForwardArtifactIntegrity(plan, doc) ==
  LET Sum(x) == LET old == IF plan.tool \notin DOMAIN doc THEN {}
                           ELSE {y \in doc[plan.tool].artifacts : y.place = x.place}
                IN IF x.sum \notin {None, AutoSum} \/ old = {} THEN x.sum
                   ELSE (CHOOSE y \in old : TRUE).sum
  IN [plan EXCEPT !.artifacts = {[x EXCEPT !.sum = Sum(x)] : x \in @}]

RetainedPlan(e) ==
  StaticPlan(e.tool, e.cand, e.intent, e.identity, e.artifacts, e.sources)

\* The entry belongs to what the schema asked for before.
UniversalLockIntentDrifted(old, s, t) ==
  /\ t \in DOMAIN old.doc
  /\ \/ Lookup(old.methods, t) # MethodsHash(s)[t]
     \/ \E k \in DOMAIN SourceHash(s) \cup DOMAIN old.sources :
          k[1] = t /\ Lookup(SourceHash(s), k) # Lookup(old.sources, k)

\* MUTANT: entries outside the profile are dropped or resolved, never kept.
ResolveUniversalForgetting(s, scope, old, up, down) ==
  LET Built(plans) == IF None \in plans THEN None ELSE BuildLockDocument(SetToSeq(plans))
  IN Built({LockCandidate(s, t, up, down) : t \in Installable(scope)})

\* A lock of the second version: what is in scope or drifted is resolved
\* again, what else is installed by the schema keeps its entry.
ResolveUniversalLockDocument(s, scope, old, up, down) ==
  LET doc == IF IsV2(old) THEN old.doc ELSE Nothing
      whole == Installable(s)
      again == {t \in whole : t \in DOMAIN scope
                              \/ (IsV2(old) /\ UniversalLockIntentDrifted(old, s, t))}
      kept == {RetainedPlan(doc[t]) : t \in (DOMAIN doc \cap whole) \ again}
      Covered(built) ==
        IF built # None /\ VerifyCoverage(built, whole) THEN built ELSE None
      Built(plans) ==
        IF None \in plans THEN None
        ELSE Covered(BuildLockDocument(SetToSeq(
               {CarryForwardArtifactIntegrity(p, doc) : p \in plans} \cup kept)))
  IN Built({LockCandidate(s, t, up, down) : t \in again})

\* Only a v2 lock, or an update of everything, covers the whole schema.
CanPersistProjection(old, profile) == IsV2(old) \/ ~profile

\* The lock that update writes, or None when it refuses
UpdatedLock(old, s, profile, up, down) ==
  LET whole == FilterTools(s, FALSE)
      scope == FilterTools(s, profile)
      pins == IF old = None THEN Nothing ELSE old.pins
      Universal(doc) == IF doc = None THEN None
                        ELSE Lock(2, doc, pins, MethodsHash(s), SourceHash(s))
      fresh == ResolveLegacyV1(scope, NoApplied(scope), up)
  IN IF CanPersistProjection(old, profile)
     THEN Universal(ResolveUniversalLockDocument(whole, scope, old, up, down))
     ELSE Lock(1, Nothing, Merge(pins, fresh),
               IF old = None THEN MethodsHash(scope) ELSE Over(MethodsHash(scope), old.methods),
               IF old = None THEN SourceHash(scope)
               ELSE Over(SourceHash(scope),
                         [k \in {k \in DOMAIN old.sources : k[1] \notin DOMAIN scope} |->
                            old.sources[k]]))

Idle == [pc |-> "idle"]
Spend(kind) == /\ budget[kind] > 0
               /\ budget' = [budget EXCEPT ![kind] = @ - 1]
At(p, pc) == proc[p].pc = pc

\* update loads the lock and resolves; it writes nothing when it refuses.
UpdateResolve(p) ==
  /\ At(p, "idle") /\ Spend("runs")
  /\ \E profile \in BOOLEAN, down \in Outages :
       \E new \in {UpdatedLock(Load(file), schema, profile, upstream, down)} :
         /\ new # None
         /\ proc' = [proc EXCEPT ![p] =
              [pc |-> "write", lock |-> new, old |-> Load(file), schema |-> schema,
               profile |-> profile, since |-> upstream]]
  /\ UNCHANGED <<schema, upstream, file, host, records>>

\* The file is replaced by a rename, or not at all.
UpdateSave(p) ==
  /\ At(p, "write")
  /\ file' = proc[p].lock
  /\ proc' = [proc EXCEPT ![p] = Idle]
  /\ UNCHANGED <<schema, upstream, host, records, budget>>

-----------------------------------------------------------------------------
(* install *)

\* A pinned npm candidate may not be asked for differently.
PackageIdentityKept(s, lk) ==
  \A k \in Keys(s) : LET m == MethodAt(s, k) IN
    (lk # None /\ k \in DOMAIN lk.pins /\ m.kind = "npm" /\ lk.pins[k].sel # None)
      => /\ PinApplies(m, lk.pins[k]) /\ lk.pins[k].value # None

\* MUTANT: an install accepts changed identities like an update.
MergeInstallBlessing(old, s, fresh) ==
  Lock(1, Nothing, Merge(IF old = None THEN Nothing ELSE old.pins, fresh),
       MethodsHash(s), SourceHash(s))

\* What an install without --frozen-lockfile completes: stored identities
\* stay, sources of tools locked before are not added.
MergeInstallLock(old, s, fresh) ==
  IF old = None THEN Lock(1, Nothing, fresh.pins, MethodsHash(s), SourceHash(s))
  ELSE Lock(1, Nothing, Merge(old.pins, fresh), Over(old.methods, MethodsHash(s)),
            Over(old.sources,
                 [k \in {k \in DOMAIN SourceHash(s) : k[1] \notin DOMAIN old.methods} |->
                    SourceHash(s)[k]]))

\* The lock an install works with and the pins applied, or None: refused
ResolveInstallLock(s, f, frozen, up) ==
  LET lk == Load(f)
      fresh == ResolveLegacyV1(s, ApplyLegacyV1(s, lk), up)
      merged == MergeInstallLock(lk, s, fresh)
  IN IF frozen /\ (lk = None \/ ~ValidateFrozen(s, lk)) THEN None
     ELSE IF IsV2(lk) \/ frozen THEN lk
     ELSE IF PackageIdentityKept(s, lk) THEN merged ELSE None

InstallBegin(p) ==
  /\ At(p, "idle") /\ Spend("runs")
  /\ \E profile, frozen \in BOOLEAN :
       LET s == FilterTools(schema, profile)
           lk == ResolveInstallLock(s, file, frozen, upstream)
       IN /\ lk # None
          /\ proc' = [proc EXCEPT ![p] =
               [pc |-> "tools", lock |-> lk, old |-> Load(file), schema |-> s,
                frozen |-> frozen, todo |-> Installable(s), results |-> Nothing]]
  /\ UNCHANGED <<schema, upstream, file, host, records>>

\* What became of a tool: its candidate, the plan, and whether it was there
Result(i, plan, already) == [at |-> i, plan |-> plan, already |-> already]

\* Candidates in order: one that is not available, does not resolve, does not
\* reproduce the lock or does not verify gives way to the next one.
InstallTool(p) ==
  /\ At(p, "tools")
  /\ \E t \in proc[p].todo, down \in Outages :
       LET run == proc[p]
           methods == run.schema[t].methods
           doc == IF IsV2(run.lock) THEN run.lock.doc ELSE None
           applied == ApplyLegacyV1(run.schema, run.lock)
       IN \E plan \in {[i \in DOMAIN methods |->
                          ResolvedPlan(doc, t, methods[i],
                                       applied[ToolKey(run.schema, t, i)], upstream)]} :
            LET There(i) == Satisfied(methods[i], plan[i], host[<<t, methods[i].kind>>])
                fit == {i \in DOMAIN methods :
                          /\ methods[i].kind \notin down /\ plan[i] # None
                          /\ There(i) \/ Verifies(methods[i], plan[i])}
                i == CHOOSE i \in fit : \A j \in fit : i <= j
            IN /\ proc' = [proc EXCEPT ![p].todo = @ \ {t},
                             ![p].results = IF fit = {} THEN @
                               ELSE Over(@, [x \in {t} |-> Result(i, plan[i], There(i))])]
               /\ host' = IF fit = {} \/ There(i) THEN host
                          ELSE [host EXCEPT ![<<t, methods[i].kind>>] =
                                  Installs(methods[i], plan[i], upstream)]
  /\ UNCHANGED <<schema, upstream, file, records, budget>>

\* The version written to the state: from the adapter, or the one resolved
\* when it was installed just now, or the one recorded before
VersionRecorded(m, r, found, old) ==
  IF m.kind # "http" THEN found
  ELSE IF ~r.already /\ r.plan.identity["version"] # None THEN r.plan.identity["version"]
  ELSE IF old # None THEN old.version ELSE None

\* All tools of the run are written to the state in one save.
WriteState(p) ==
  /\ At(p, "tools") /\ proc[p].todo = {}
  /\ LET run == proc[p]
         New(t) == LET m == run.schema[t].methods[run.results[t].at] IN
           [kind |-> m.kind, label |-> m.label,
            version |-> VersionRecorded(m, run.results[t], host[<<t, m.kind>>], records[t])]
     IN /\ records' = [t \in Tools |-> IF t \in DOMAIN run.results THEN New(t)
                                       ELSE records[t]]
        /\ proc' = [proc EXCEPT ![p].pc = IF run.frozen \/ IsV2(run.lock)
                                          THEN "sync" ELSE "complete"]
  /\ UNCHANGED <<schema, upstream, file, host, budget>>

\* The pins resolved before the installation are saved after it; an error is
\* only logged.
SaveResolvedLegacyInstallLock(p) ==
  /\ At(p, "complete")
  /\ proc' = [proc EXCEPT ![p].pc = "sync"]
  /\ \/ file' = proc[p].lock /\ UNCHANGED budget
     \/ Spend("failures") /\ UNCHANGED file
  /\ UNCHANGED <<schema, upstream, host, records>>

\* The candidate of a record: by its label, or the only one of its kind
StateCandidates(s, t, rec) ==
  {i \in DOMAIN s[t].methods : /\ s[t].methods[i].kind = rec.kind
                               /\ rec.label # None => s[t].methods[i].label = rec.label}

\* The version a lock has for the record of a tool
LockedVersion(lk, s, t) ==
  LET at == StateCandidates(s, t, records[t])
      key == ToolKey(s, t, CHOOSE i \in at : TRUE)
      m == MethodAt(s, key)
  IN IF IsV2(lk)
     THEN IF t \in DOMAIN lk.doc THEN lk.doc[t].identity["version"] ELSE None
     ELSE IF /\ Cardinality(at) = 1 /\ key \in DOMAIN lk.pins
             /\ m.kind \in {"http", "npm"}
             /\ m.kind = "npm" => PinApplies(m, lk.pins[key])
     THEN lk.pins[key].value ELSE None

\* The lock is read once more, and versions nobody knew are taken from it,
\* also for tools that were found on the host.
SyncInstalledVersions(p) ==
  /\ At(p, "sync")
  /\ LET run == proc[p]
         lk == Load(file)
         Unknown(t) == /\ t \in DOMAIN run.results
                       /\ records[t] # None /\ records[t].version = None
     IN records' = [t \in Tools |->
          IF lk # None /\ Unknown(t)
          THEN [records[t] EXCEPT !.version = LockedVersion(lk, run.schema, t)]
          ELSE records[t]]
  /\ proc' = [proc EXCEPT ![p] = Idle]
  /\ UNCHANGED <<schema, upstream, file, host, budget>>

-----------------------------------------------------------------------------
(* The surroundings *)

EditSchema ==
  /\ Spend("edits")
  /\ schema' \in Schemas \ {schema}
  /\ UNCHANGED <<upstream, file, host, records, proc>>

\* A merge conflict, or somebody's editor
DamageLock ==
  /\ Spend("edits") /\ file # None /\ file # Corrupt
  /\ file' = Corrupt
  /\ UNCHANGED <<schema, upstream, host, records, proc>>

SelectorMoves ==
  /\ Spend("moves")
  /\ \E sel \in Selectors : upstream' = [upstream EXCEPT ![sel] = @ + 1]
  /\ UNCHANGED <<schema, file, host, records, proc>>

\* A process dies, or cannot write its lock: the file stays as it is.
Stop(p) ==
  /\ ~At(p, "idle") /\ Spend("failures")
  /\ proc' = [proc EXCEPT ![p] = Idle]
  /\ UNCHANGED <<schema, upstream, file, host, records>>

\* The tools may have been downloaded by hand before.
Init ==
  /\ schema \in Schemas
  /\ upstream = [sel \in Selectors |-> 0]
  /\ file = None
  /\ \E mine \in {{}, Tools} :
       host = [x \in Tools \X Kinds |-> IF x[1] \in mine /\ x[2] = "http"
                                        THEN Value(x[1], 0) ELSE None]
  /\ records = [t \in Tools |-> None]
  /\ proc = [p \in Processes |-> Idle]
  /\ budget = [moves |-> MaxMoves, edits |-> MaxEdits, runs |-> MaxRuns,
               failures |-> MaxFailures]

Next ==
  \/ EditSchema \/ DamageLock \/ SelectorMoves
  \/ \E p \in Processes :
       \/ UpdateResolve(p) \/ UpdateSave(p) \/ Stop(p)
       \/ InstallBegin(p) \/ InstallTool(p) \/ WriteState(p)
       \/ SaveResolvedLegacyInstallLock(p) \/ SyncInstalledVersions(p)

Spec == Init /\ [][Next]_vars

-----------------------------------------------------------------------------
(* Properties *)

\* A pin is the value of the selector it names: after an edit of the schema
\* no value resolved for the old branch or package is kept for the new one.
PinsMatchRequests(lk) ==
  \A k \in DOMAIN lk.pins :
    lk.pins[k].sel # None => lk.pins[k].value # None /\ lk.pins[k].value.of = lk.pins[k].sel

Unchecked(s, lk) ==
  [t \in DOMAIN s |-> [s[t] EXCEPT !.methods =
     [i \in DOMAIN @ |-> IF ~IsV2(lk) /\ @[i].sum = AutoSum
                         THEN [@[i] EXCEPT !.sum = None] ELSE @[i]]]]

\* What update is about to write passes the frozen validation of the schema
\* it was resolved for, except for checksums nothing has computed yet, and
\* pins only what its selectors stand for.
SavedLockValidates ==
  \A p \in Processes : At(p, "write") =>
    LET run == proc[p]
        scope == FilterTools(run.schema, run.profile /\ ~IsV2(run.lock))
    IN /\ ValidateFrozen(Unchecked(scope, run.lock), run.lock)
       /\ PinsMatchRequests(run.lock)

\* An update for a profile keeps what the lock it loaded had for the tools
\* outside: entries that still answer the schema, pins and identities.
UpdateKeepsOthers ==
  \A p \in Processes : (At(p, "write") /\ proc[p].profile /\ proc[p].old # None) =>
    LET new == proc[p].lock
        old == proc[p].old
        whole == FilterTools(proc[p].schema, FALSE)
        scope == FilterTools(proc[p].schema, TRUE)
    IN /\ IsV2(old) => \A t \in (DOMAIN old.doc \cap Installable(whole)) \ DOMAIN scope :
            UniversalLockIntentDrifted(old, whole, t) \/ Lookup(new.doc, t) = old.doc[t]
       /\ \A k \in DOMAIN old.pins : k[1] \notin DOMAIN scope =>
            Lookup(new.pins, k) = old.pins[k]
       /\ ~IsV2(new) => \A t \in DOMAIN old.methods \ DOMAIN scope :
            Lookup(new.methods, t) = old.methods[t]

\* "A plain depengine install never changes stored method or package-source
\* identity": a lock completed by an install still fails the frozen validation
\* of every tool whose candidates or sources were edited.
InstallKeepsIdentity ==
  \A p \in Processes : (At(p, "complete") /\ proc[p].old # None) =>
    LET new == proc[p].lock
        old == proc[p].old
    IN /\ \A t \in DOMAIN old.methods : Lookup(new.methods, t) = old.methods[t]
       /\ \A k \in DOMAIN old.sources \cup DOMAIN new.sources :
            k[1] \in DOMAIN old.methods => Lookup(new.sources, k) = Lookup(old.sources, k)

\* Whatever an install settles a tool on is what the lock in its hands says,
\* be it of the first or the second version, although selectors move and the
\* schema is edited between the update and the install.
LockReproduced ==
  \A p \in Processes : (~At(p, "idle") /\ ~At(p, "write")) =>
    \A t \in DOMAIN proc[p].results :
      LET run == proc[p]
          r == run.results[t]
          m == run.schema[t].methods[r.at]
          key == ToolKey(run.schema, t, r.at)
      IN (~m.fixed /\ m.kind # "native") =>
           IF IsV2(run.lock)
           THEN ProjectLock(r.plan) = run.lock.doc[t]
           ELSE run.lock.pins[key].value =
                  (CASE m.kind = "git" -> r.plan.identity["revision"]
                     [] m.kind = "npm" -> r.plan.identity["version"]
                     [] OTHER -> (CHOOSE x \in r.plan.artifacts : TRUE).place)

=============================================================================
