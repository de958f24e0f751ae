---------------------------- MODULE ResolvedLock ----------------------------
(***************************************************************************)
(* The immutable projection of resolved install plans                      *)
(* (src/internal/plan/lock.go): what of a plan enters depengine.lock, when *)
(* a set of plans can be locked at all, and how an entry of the lock is    *)
(* turned back into a plan that an adapter has to reproduce.               *)
(*                                                                         *)
(* A plan is a record                                                      *)
(*   tool, cand      the tool and the kind of its candidate                *)
(*   intent          the version request [mode, value], or None            *)
(*   identity        the dimensions of ResolvedIdentity, None when empty   *)
(*   artifacts       records [local, place, sig, sum]; sum is None, AutoSum*)
(*                   (":auto", to be computed later) or a digest           *)
(*   sources         records [name, git, rev, secret]; git says that the   *)
(*                   source is a repository whose revision matters         *)
(* URLs and digests are values without spelling: canonical forms and the   *)
(* redaction of credentials inside them are left out, secret references    *)
(* are kept.                                                               *)
(***************************************************************************)
EXTENDS Integers, Sequences, FiniteSets

CONSTANTS
  None,   \* an empty field, a missing plan, a refusal
  AutoSum \* the checksum ":auto"

GitModes == {"git-tag", "git-branch", "git-revision"}
ContainerModes == {"container-tag", "digest"}

\* Source is one of the dimensions a resolver may fill in, "setting" stands
\* for those it may not (registry, scope, environment, platform).
Dims == {"package", "version", "revision", "digest", "source", "setting"}
NoIdentity == [d \in Dims |-> None]
Concrete == {"version", "revision", "digest"}

StaticPlan(tool, cand, intent, identity, artifacts, sources) ==
  [tool |-> tool, cand |-> cand, intent |-> intent, identity |-> identity,
   artifacts |-> artifacts, sources |-> sources]

-----------------------------------------------------------------------------
(* From a plan to a lock entry. *)

\* Why an identity does not pin the installation
LockIdentityUnavailable(intent, identity, artifacts, sources) ==
  \/ /\ intent # None
     /\ LET needed == IF intent.mode \in GitModes THEN {"revision"}
                      ELSE IF intent.mode \in ContainerModes THEN {"digest"}
                      ELSE Concrete
        IN \A d \in needed : identity[d] = None
  \/ \E s \in sources : s.git /\ s.rev = None
  \/ \E a \in artifacts : a.sum = None
  \/ /\ intent = None /\ artifacts = {}
     /\ \A d \in Concrete : identity[d] = None

\* A concrete digest everywhere, and the digest that was requested
ProjectionValid(e) ==
  /\ \A a \in e.artifacts : a.sum # AutoSum
  /\ (e.intent # None /\ e.intent.mode = "digest" /\ e.identity["digest"] # None)
       => e.intent.value = e.identity["digest"]

\* A secret reference stays outside the lock.
LockedSource(s) == [name |-> s.name, git |-> s.git, rev |-> s.rev]

\* The entry of a plan, or None when it cannot even be written down
ProjectLock(p) ==
  LET e == [tool |-> p.tool, cand |-> p.cand, intent |-> p.intent,
            identity |-> p.identity, artifacts |-> p.artifacts,
            sources |-> {LockedSource(s) : s \in p.sources},
            immutable |-> ~LockIdentityUnavailable(p.intent, p.identity,
                                                   p.artifacts, p.sources)]
  IN IF ProjectionValid(e) THEN e ELSE None

RequireImmutable(e) == e # None /\ e.immutable

\* All or nothing, and one plan for each tool
BuildLockDocument(plans) ==
  IF \/ \E i, j \in DOMAIN plans : i # j /\ plans[i].tool = plans[j].tool
     \/ \E i \in DOMAIN plans : ~RequireImmutable(ProjectLock(plans[i]))
  THEN None
  ELSE [t \in {plans[i].tool : i \in DOMAIN plans} |->
          ProjectLock(plans[CHOOSE i \in DOMAIN plans : plans[i].tool = t])]

VerifyCoverage(doc, names) == DOMAIN doc = names

-----------------------------------------------------------------------------
(* From a lock entry back to a plan. *)

KnownLockIdentityAgrees(identity, e) ==
  \A d \in Dims : identity[d] # None => identity[d] = e.identity[d]

KnownLocalArtifactsAgree(artifacts, e) ==
  \A a \in artifacts : a.local =>
    \E l \in e.artifacts : l.local /\ l.place = a.place /\ l.sig = a.sig

\* The entry a resolver may use for what is asked for now, or None
EntryForPlan(doc, p) ==
  IF /\ p.tool \in DOMAIN doc
     /\ doc[p.tool].cand = p.cand
     /\ doc[p.tool].intent = p.intent
     /\ KnownLockIdentityAgrees(p.identity, doc[p.tool])
     /\ KnownLocalArtifactsAgree(p.artifacts, doc[p.tool])
  THEN doc[p.tool] ELSE None

LockedArtifactsEqual(e, a) == e.artifacts = a.artifacts

SameProjection(e, a) ==
  /\ RequireImmutable(e) /\ RequireImmutable(a)
  /\ e.tool = a.tool /\ e.cand = a.cand /\ e.intent = a.intent
  /\ e.identity = a.identity
  /\ LockedArtifactsEqual(e, a)
  /\ e.sources = a.sources

VerifyResolvedPlanAgainstLock(e, p) == SameProjection(e, ProjectLock(p))

\* The plan of an entry, with the secrets of the request
PlanOfEntry(e, p) ==
  LET SecretOf(s) ==
        LET mine == {q \in p.sources : q.name = s.name /\ q.git = s.git}
        IN IF mine = {} THEN None ELSE (CHOOSE q \in mine : TRUE).secret
  IN StaticPlan(p.tool, p.cand, p.intent, e.identity, e.artifacts,
       {[name |-> s.name, git |-> s.git, rev |-> s.rev,
         secret |-> SecretOf(s)] : s \in e.sources})

\* The plan that is resolved for a lock, or None: refused
PinnedPlanFor(doc, p) ==
  LET Checked(e, out) ==
        IF VerifyResolvedPlanAgainstLock(e, out) THEN out ELSE None
      Pinned(e) == IF e = None THEN None ELSE Checked(e, PlanOfEntry(e, p))
  IN Pinned(EntryForPlan(doc, p))

\* What a resolver may not touch (src/internal/plan/resolution.go)
ValidateResolution(p, resolved) ==
  /\ resolved.tool = p.tool /\ resolved.cand = p.cand
  /\ resolved.intent = p.intent
  /\ \A d \in Dims \ (Concrete \cup {"source"}) :
       resolved.identity[d] = p.identity[d]

\* What the adapter is asked to resolve; doc is None without a lock.
ResolutionRequest(doc, p) == IF doc = None THEN p ELSE PinnedPlanFor(doc, p)

\* The one resolution of a candidate: resolved is what the ResolvePlan of the
\* adapter made of the request, None if there was none or it failed
\* (src/internal/exec/resolution.go).
ResolveCandidatePlan(doc, p, resolved) ==
  LET pinned == ResolutionRequest(doc, p)
  IN IF /\ resolved # None
        /\ ValidateResolution(pinned, resolved)
        /\ doc # None => VerifyResolvedPlanAgainstLock(EntryForPlan(doc, p), resolved)
     THEN resolved ELSE None
=============================================================================
