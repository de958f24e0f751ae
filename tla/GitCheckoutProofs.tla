--------------------------- MODULE GitCheckoutProofs ---------------------------
(***************************************************************************)
(* What is reported as installed from a repository is whole and at a       *)
(* promised commit: for every set of commits and candidates, however often *)
(* the remote moves, commands fail and processes die.                      *)
(***************************************************************************)
EXTENDS GitCheckout, TLAPS

(***************************************************************************)
(* The inductive invariant.                                                *)
(***************************************************************************)
\* The candidate is one of those declared, and the remote names a commit that
\* this command has seen it name.
Surroundings ==
  /\ c \in Candidates
  /\ remote \in Commits /\ remote \in named
  /\ DOMAIN dest = Paths
  /\ todo \in Seq(Paths)

\* What the bounds leave; nothing gives back a file that was taken away.
Budget ==
  /\ left \in [{"commands", "faults", "moves", "tampers"} -> Int]
  /\ left.tampers <= MaxTampers

\* While a command is in progress it has reported nothing.
NothingReportedYet == stage # "idle" => outcome = ""

\* Neither a configured nor a locked revision decides.
Follows == c.ref # "rev" /\ (c.ref = "latest" \/ c.locked = "")

\* From its resolution to the fetch the plan is a promise; without a
\* revision, the candidate follows whatever the remote names.
PlanPromised ==
  stage \in {"gate", "clone", "fetch"} =>
    IF plan = "" THEN stage # "fetch" /\ Follows ELSE plan \in Promised

\* The checkout is of a promised commit as long as it is copied from.
ClonePromised == stage \in {"build", "write"} => clone \in Promised

\* What is not to be written any more has been written.
Written ==
  stage = "write" /\ Untouched =>
    \A p \in Range(Artifact(c)) : p \in Range(todo) \/ dest[p] = clone

IInv ==
  /\ Surroundings /\ Budget /\ NothingReportedYet
  /\ PlanPromised /\ ClonePromised /\ Written
  /\ InstalledIsWhole

(***************************************************************************)
(* Sequences and candidates.                                               *)
(***************************************************************************)
\* The first entry of a list and the rest are the list.
LEMMA HeadOrTail ==
  ASSUME NEW S, NEW s \in Seq(S), s # <<>>
  PROVE  /\ Head(s) \in S
         /\ Tail(s) \in Seq(S)
         /\ Range(s) \subseteq {Head(s)} \cup Range(Tail(s))
<1>1. Len(s) > 0 /\ Head(s) = s[1] /\ Head(s) \in S /\ Tail(s) \in Seq(S)
  OBVIOUS
<1>2. ASSUME NEW i \in DOMAIN s, i # 1
      PROVE  s[i] \in Range(Tail(s))
  <2>1. i - 1 \in DOMAIN Tail(s) /\ Tail(s)[i - 1] = s[i]
    BY <1>1, <1>2
  <2> QED
    BY <2>1 DEF Range
<1> QED
  BY <1>1, <1>2 DEF Range

\* An artifact is a list of paths.
LEMMA ArtifactPaths ==
  ASSUME NEW k \in Candidates
  PROVE  Artifact(k) \in Seq(Paths)
<1> DEFINE Names == {".git", "lib", "tool", "m", "mm"}
<1>1. Range(Artifact(k)) \subseteq Paths
  BY DEF Paths
<1>2. Artifact(k) \in Seq(Names)
  <2>1. CASE k.mode = "root"
    <3>1. Artifact(k) = <<".git", "lib", "tool">>
      BY <2>1 DEF Artifact
    <3> QED
      BY <3>1
  <2>2. CASE k.mode = "part"
    <3>1. Artifact(k) = <<"lib", "tool">>
      BY <2>2 DEF Artifact
    <3> QED
      BY <3>1
  <2>4. CASE k.mode = "managed"
    <3>1. Artifact(k) = <<"m", "mm">>
      BY <2>4 DEF Artifact
    <3> QED
      BY <3>1
  <2>5. CASE k.mode = "build"
    <3>1. Artifact(k) = <<"tool">>
      BY <2>5 DEF Artifact
    <3> QED
      BY <3>1
  <2> QED
    BY <2>1, <2>2, <2>4, <2>5, CandidatesAssumption
<1>3. \A i \in 1..Len(Artifact(k)) : Artifact(k)[i] \in Paths
  BY <1>1, <1>2 DEF Range
<1> QED
  BY <1>2, <1>3

\* What a plan is resolved to is a promise.
LEMMA ResolvedIsPromised ==
  ASSUME c \in Candidates, remote \in Commits, remote \in named
  PROVE  IF ResolvePlan = "" THEN Follows ELSE ResolvePlan \in Promised
<1>1. remote # "" /\ c.rev # ""
  BY GitConstants, CandidatesAssumption
<1>2. CASE c.ref = "rev"
  BY <1>1, <1>2 DEF ResolvePlan, Promised
<1>3. CASE c.ref # "rev" /\ c.ref # "latest" /\ c.locked # ""
  BY <1>3 DEF ResolvePlan, Promised
<1>4. CASE Follows
  <2>1. Promised = named
    BY <1>4 DEF Promised, Follows
  <2>2. ParseRemoteRevision(LsRemote) = remote
    BY <1>1 DEF ParseRemoteRevision, LsRemote
  <2>3. ResolvePlan \in {"", remote}
    BY <1>4, <2>2 DEF ResolvePlan, Follows
  <2> QED
    BY <1>1, <1>4, <2>1, <2>3
<1> QED
  BY <1>2, <1>3, <1>4 DEF Follows

\* Spending on anything leaves a budget, and never gives back a taken file.
LEMMA SpendKeepsBudget ==
  ASSUME Budget, NEW what \in {"commands", "faults", "moves", "tampers"}, Spend(what)
  PROVE  /\ Budget'
         /\ what # "tampers" => (Untouched' <=> Untouched)
         /\ what = "tampers" => ~Untouched'
<1>1. /\ left' = [left EXCEPT ![what] = left[what] - 1]
      /\ left \in [{"commands", "faults", "moves", "tampers"} -> Int]
  BY DEF Spend, Budget
<1>2. left' \in [{"commands", "faults", "moves", "tampers"} -> Int]
  BY <1>1
<1>3. CASE what = "tampers"
  <2>1. left'.tampers = left.tampers - 1 /\ left.tampers \in Int
    BY <1>1, <1>3
  <2>2. left.tampers <= MaxTampers /\ MaxTampers \in Int
    BY BoundsAssumption DEF Budget
  <2>3. left'.tampers < MaxTampers
    BY <2>1, <2>2
  <2> QED
    BY <1>2, <1>3, <2>2, <2>3 DEF Budget, Untouched
<1>4. CASE what # "tampers"
  <2>1. left'.tampers = left.tampers
    BY <1>1, <1>4
  <2> QED
    BY <1>2, <1>4, <2>1 DEF Budget, Untouched
<1> QED
  BY <1>3, <1>4

(***************************************************************************)
(* The steps.                                                              *)
(***************************************************************************)
\* While neither the candidate nor what the selector named changes, neither do
\* the promises.
LEMMA PromisesStay ==
  ASSUME UNCHANGED <<c, named>>
  PROVE  Promised' = Promised
  BY DEF Promised

\* A command that ends without an installation owes nothing.
LEMMA EndWithoutInstall ==
  ASSUME NEW how, how # "installed", End(how), Surroundings', Budget'
  PROVE  IInv'
  BY DEF IInv, End, NothingReportedYet, PlanPromised, ClonePromised, Written,
         InstalledIsWhole

\* The temporary directory goes, and the rest of the surroundings stays.
LEMMA EndKeepsSurroundings ==
  ASSUME Surroundings, NEW how, End(how), UNCHANGED <<c, remote, named>>,
         DOMAIN dest' = Paths
  PROVE  Surroundings'
<1>1. todo' = <<>>
  BY DEF End
<1>2. todo' \in Seq(Paths)
  BY <1>1
<1> QED
  BY <1>2 DEF Surroundings

\* A command that fails for a fault.
LEMMA FailKeeps ==
  ASSUME IInv, Fail, UNCHANGED <<c, remote, named>>, DOMAIN dest' = Paths
  PROVE  IInv'
<1>1. End("failed") /\ Spend("faults")
  BY DEF Fail
<1>2. Surroundings'
  BY <1>1, EndKeepsSurroundings DEF IInv
<1>3. Budget'
  BY <1>1, SpendKeepsBudget DEF IInv
<1> QED
  BY <1>1, <1>2, <1>3, EndWithoutInstall

\* Taking files away, or leaving part of one, adds no path.
LEMMA PathsStay ==
  ASSUME DOMAIN dest = Paths
  PROVE  /\ \A gone : Take(gone) => DOMAIN dest' = Paths
         /\ \A p : Cut(p) => DOMAIN dest' = Paths
  BY DEF Take, Cut

LEMMA InitIInv == Init => IInv
<1> SUFFICES ASSUME Init
             PROVE  IInv
  OBVIOUS
<1>1. stage = "idle" /\ outcome = ""
  BY DEF Init
<1>2. todo \in Seq(Paths)
  <2>1. todo = <<>>
    BY DEF Init
  <2> QED
    BY <2>1
<1>3. Surroundings
  BY <1>2 DEF Init, Surroundings
<1>4. /\ left \in [{"commands", "faults", "moves", "tampers"} -> Int]
      /\ left.tampers <= MaxTampers
  <2>1. left = [commands |-> MaxCommands, faults |-> MaxFaults,
                moves |-> MaxMoves, tampers |-> MaxTampers]
    BY DEF Init
  <2>2. /\ MaxCommands \in Int /\ MaxFaults \in Int
        /\ MaxMoves \in Int /\ MaxTampers \in Int
    BY BoundsAssumption
  <2>3. left.tampers <= MaxTampers
    BY <2>1, <2>2
  <2> QED
    BY <2>1, <2>2, <2>3
<1> QED
  BY <1>1, <1>3, <1>4 DEF IInv, Budget, NothingReportedYet, PlanPromised,
     ClonePromised, Written, InstalledIsWhole

\* A new command owes nothing yet, and begins to watch the remote.
LEMMA StartKeeps ==
  ASSUME IInv, StartInstall \/ StartRemoval
  PROVE  IInv'
<1>1. PICK first \in {"resolve", "removal"} : Start(first)
  BY DEF StartInstall, StartRemoval
<1>2. /\ stage' = first /\ outcome' = "" /\ named' = {remote}
      /\ Spend("commands")
      /\ UNCHANGED <<c, remote, todo, dest>>
  BY <1>1 DEF Start
<1>3. Budget'
  BY <1>2, SpendKeepsBudget DEF IInv
<1>4. Surroundings'
  BY <1>2 DEF IInv, Surroundings
<1> QED
  BY <1>2, <1>3, <1>4 DEF IInv, NothingReportedYet, PlanPromised,
     ClonePromised, Written, InstalledIsWhole

\* The plan becomes a promise.
LEMMA ResolveKeeps ==
  ASSUME IInv, Resolve
  PROVE  IInv'
<1>1. stage = "resolve" /\ UNCHANGED <<c, remote, named, dest>> /\ DOMAIN dest' = Paths
  BY DEF Resolve, IInv, Surroundings
<1>2. CASE Fail
  BY <1>1, <1>2, FailKeeps
<1>3. CASE /\ plan' = ResolvePlan /\ stage' = "gate"
           /\ UNCHANGED <<left, outcome, clone, todo>>
  <2>1. Promised' = Promised
    BY <1>1, PromisesStay
  <2>2. PlanPromised'
    BY <1>1, <1>3, <2>1, ResolvedIsPromised DEF IInv, Surroundings, PlanPromised, Follows
  <2>3. Surroundings' /\ Budget'
    BY <1>1, <1>3 DEF IInv, Surroundings, Budget
  <2> QED
    BY <1>1, <1>3, <2>2, <2>3 DEF IInv, NothingReportedYet, ClonePromised,
       Written, InstalledIsWhole
<1> QED
  BY <1>2, <1>3 DEF Resolve, Fail

\* The gate changes nothing that was promised.
LEMMA GateKeeps ==
  ASSUME IInv, Gate
  PROVE  IInv'
<1>1. /\ stage = "gate"
      /\ UNCHANGED <<c, remote, named, plan, dest>>
      /\ DOMAIN dest' = Paths
  BY DEF Gate, IInv, Surroundings
<1>2. PICK probed \in BOOLEAN :
        /\ Probed(probed)
        /\ LET transition == TransitionForVerification(Verdict(probed))
           IN IF transition = "install"
              THEN stage' = "clone" /\ UNCHANGED <<outcome, clone, todo>>
              ELSE End(CASE transition = "none"    -> "already"
                         [] transition = "upgrade" -> "drifted"
                         [] OTHER                  -> "refused")
  BY DEF Gate
<1>3. Budget'
  <2>1. CASE UNCHANGED left
    BY <2>1 DEF IInv, Budget
  <2>2. CASE Spend("faults")
    BY <2>2, SpendKeepsBudget DEF IInv
  <2> QED
    BY <1>2, <2>1, <2>2 DEF Probed
<1>4. CASE stage' = "clone" /\ UNCHANGED <<outcome, clone, todo>>
  <2>1. Promised' = Promised
    BY <1>1, PromisesStay
  <2>2. Surroundings'
    BY <1>1, <1>4 DEF IInv, Surroundings
  <2>3. PlanPromised'
    BY <1>1, <1>4, <2>1 DEF IInv, PlanPromised, Follows
  <2> QED
    BY <1>1, <1>3, <1>4, <2>2, <2>3 DEF IInv, NothingReportedYet, ClonePromised,
       Written, InstalledIsWhole
<1>5. ASSUME NEW how \in {"already", "drifted", "refused"}, End(how)
      PROVE  IInv'
  <2>1. Surroundings'
    BY <1>1, <1>5, EndKeepsSurroundings DEF IInv
  <2> QED
    BY <1>3, <1>5, <2>1, EndWithoutInstall
<1>6. \/ stage' = "clone" /\ UNCHANGED <<outcome, clone, todo>>
      \/ End("already") \/ End("drifted") \/ End("refused")
  BY <1>2
<1> QED
  BY <1>4, <1>5, <1>6

\* The checkout takes the promised revision, or what the remote names now.
LEMMA CloneKeeps ==
  ASSUME IInv, Clone
  PROVE  IInv'
<1>1. /\ stage = "clone"
      /\ UNCHANGED <<c, remote, named, plan, dest>>
      /\ DOMAIN dest' = Paths
  BY DEF Clone, IInv, Surroundings
<1>2. CASE Fail
  BY <1>1, <1>2, FailKeeps
<1>3. CASE /\ IF plan # "" THEN clone' = "bare" /\ stage' = "fetch"
              ELSE clone' = remote /\ stage' = "build"
           /\ UNCHANGED <<outcome, todo, left>>
  <2>1. Promised' = Promised
    BY <1>1, PromisesStay
  <2>2. Surroundings' /\ Budget'
    BY <1>1, <1>3 DEF IInv, Surroundings, Budget
  <2>3. ASSUME plan = ""
        PROVE  PlanPromised' /\ ClonePromised'
    <3>1. Promised = named /\ clone' = remote /\ stage' = "build"
      BY <1>1, <1>3, <2>3 DEF IInv, PlanPromised, Follows, Promised
    <3> QED
      BY <2>1, <3>1 DEF IInv, Surroundings, PlanPromised, ClonePromised
  <2>4. ASSUME plan # ""
        PROVE  PlanPromised' /\ ClonePromised'
    <3>1. plan \in Promised /\ stage' = "fetch" /\ plan' # ""
      BY <1>1, <1>3, <2>4 DEF IInv, PlanPromised
    <3> QED
      BY <1>1, <2>1, <3>1 DEF PlanPromised, ClonePromised
  <2>5. PlanPromised' /\ ClonePromised'
    BY <2>3, <2>4
  <2> QED
    BY <1>1, <1>3, <2>2, <2>5 DEF IInv, NothingReportedYet, Written,
       InstalledIsWhole
<1> QED
  BY <1>2, <1>3 DEF Clone, ResolvedCloneSourceFromPlan

\* What is fetched is the plan.
LEMMA FetchKeeps ==
  ASSUME IInv, Fetch
  PROVE  IInv'
<1>1. /\ stage = "fetch"
      /\ UNCHANGED <<c, remote, named, plan, dest>>
      /\ DOMAIN dest' = Paths
  BY DEF Fetch, IInv, Surroundings
<1>2. CASE Fail
  BY <1>1, <1>2, FailKeeps
<1>3. CASE /\ clone' = plan /\ stage' = "build"
           /\ UNCHANGED <<outcome, todo, left>>
  <2>1. Promised' = Promised
    BY <1>1, PromisesStay
  <2>2. Surroundings' /\ Budget'
    BY <1>1, <1>3 DEF IInv, Surroundings, Budget
  <2>3. ClonePromised'
    BY <1>1, <1>3, <2>1 DEF IInv, PlanPromised, ClonePromised
  <2> QED
    BY <1>1, <1>3, <2>2, <2>3 DEF IInv, NothingReportedYet, PlanPromised, Written,
       InstalledIsWhole
<1> QED
  BY <1>2, <1>3 DEF Fetch, ResolvedCloneSourceFromPlan

\* What is to be copied, or built, is the whole artifact.
LEMMA PrepareKeeps ==
  ASSUME IInv, Prepare
  PROVE  IInv'
<1>1. /\ stage = "build"
      /\ UNCHANGED <<c, remote, named, plan, dest>>
      /\ DOMAIN dest' = Paths
  BY DEF Prepare, IInv, Surroundings
<1>2. CASE Fail
  BY <1>1, <1>2, FailKeeps
<1>3. CASE stage' = "write" /\ todo' = Artifact(c) /\ UNCHANGED <<outcome, clone, left>>
  <2>1. Promised' = Promised
    BY <1>1, PromisesStay
  <2>2. Artifact(c) \in Seq(Paths) /\ Artifact(c)' = Artifact(c)
    BY <1>1, ArtifactPaths DEF IInv, Surroundings, Artifact
  <2>3. Surroundings' /\ Budget'
    BY <1>1, <1>3, <2>2 DEF IInv, Surroundings, Budget
  <2>4. ClonePromised' /\ PlanPromised'
    BY <1>1, <1>3, <2>1 DEF IInv, ClonePromised, PlanPromised
  <2>5. Written'
    BY <1>3, <2>2 DEF Written
  <2>6. NothingReportedYet' /\ InstalledIsWhole'
    BY <1>1, <1>3 DEF IInv, NothingReportedYet, InstalledIsWhole
  <2> QED
    BY <2>3, <2>4, <2>5, <2>6 DEF IInv
<1> QED
  BY <1>2, <1>3 DEF Prepare

\* An entry that is taken off the list is at the commit of the checkout.
LEMMA CopyKeeps ==
  ASSUME IInv, CopyRootEntry
  PROVE  IInv'
<1> DEFINE p == Head(todo)
<1>1. /\ stage = "write" /\ todo # <<>>
      /\ UNCHANGED <<c, remote, named, plan>>
      /\ DOMAIN dest = Paths
  BY DEF CopyRootEntry, IInv, Surroundings
<1>2. /\ p \in Paths /\ Tail(todo) \in Seq(Paths)
      /\ Range(todo) \subseteq {p} \cup Range(Tail(todo))
  BY <1>1, HeadOrTail DEF IInv, Surroundings
<1>3. CASE /\ dest' = [dest EXCEPT ![p] = clone] /\ todo' = Tail(todo)
           /\ UNCHANGED <<stage, outcome, clone, left>>
  <2>1. Promised' = Promised
    BY <1>1, PromisesStay
  <2>2. Surroundings' /\ Budget'
    BY <1>1, <1>2, <1>3 DEF IInv, Surroundings, Budget
  <2>3. ClonePromised' /\ PlanPromised'
    BY <1>1, <1>3, <2>1 DEF IInv, ClonePromised, PlanPromised
  <2>4. Written'
    <3> SUFFICES ASSUME Untouched, NEW q \in Range(Artifact(c))
                 PROVE  q \in Range(Tail(todo)) \/ dest'[q] = clone
      BY <1>1, <1>3 DEF Written, Untouched, Artifact
    <3>1. q \in Range(todo) \/ dest[q] = clone
      BY <1>1 DEF IInv, Written
    <3>2. q \in Paths
      BY DEF IInv, Surroundings, Paths
    <3>3. CASE q = p
      BY <1>1, <1>2, <1>3, <3>3
    <3>4. CASE q # p
      BY <1>1, <1>2, <1>3, <3>1, <3>2, <3>4
    <3> QED
      BY <3>3, <3>4
  <2>5. NothingReportedYet' /\ InstalledIsWhole'
    BY <1>1, <1>3 DEF IInv, NothingReportedYet, InstalledIsWhole
  <2> QED
    BY <2>2, <2>3, <2>4, <2>5 DEF IInv
<1>4. CASE End("failed") /\ UNCHANGED <<dest, left>>
  <2>1. Surroundings'
    BY <1>1, <1>4, EndKeepsSurroundings DEF IInv
  <2>2. Budget'
    BY <1>4 DEF IInv, Budget
  <2> QED
    BY <1>4, <2>1, <2>2, EndWithoutInstall
<1>5. CASE Cut(p) /\ Fail
  BY <1>1, <1>5, PathsStay, FailKeeps
<1> QED
  BY <1>3, <1>4, <1>5 DEF CopyRootEntry

\* With nothing left on the list the whole artifact has been written.
LEMMA VerifyInstalledKeeps ==
  ASSUME IInv, VerifyInstalled
  PROVE  IInv'
<1>1. /\ stage = "write" /\ todo = <<>>
      /\ UNCHANGED <<c, remote, named, plan, dest>>
      /\ DOMAIN dest' = Paths
  BY DEF VerifyInstalled, IInv, Surroundings
<1>2. \E probed \in BOOLEAN :
        Probed(probed) /\ (End("installed") \/ End("failed"))
  BY DEF VerifyInstalled
<1>3. Budget' /\ (Untouched' <=> Untouched)
  <2>1. CASE UNCHANGED left
    BY <2>1 DEF IInv, Budget, Untouched
  <2>2. CASE Spend("faults")
    BY <2>2, SpendKeepsBudget DEF IInv
  <2> QED
    BY <1>2, <2>1, <2>2 DEF Probed
<1>4. CASE End("failed")
  <2>1. Surroundings'
    BY <1>1, <1>4, EndKeepsSurroundings DEF IInv
  <2> QED
    BY <1>3, <1>4, <2>1, EndWithoutInstall
<1>5. CASE End("installed")
  <2>1. Surroundings'
    BY <1>1, <1>5, EndKeepsSurroundings DEF IInv
  <2>2. Promised' = Promised /\ Artifact(c)' = Artifact(c)
    BY <1>1, PromisesStay DEF Artifact
  <2>3. Range(todo) = {}
    BY <1>1 DEF Range
  <2>4. InstalledIsWhole'
    <3> SUFFICES ASSUME Untouched
                 PROVE  \E commit \in Promised :
                          \A p \in Range(Artifact(c)) : dest[p] = commit
      BY <1>1, <1>3, <2>2 DEF InstalledIsWhole
    <3>1. clone \in Promised
      BY <1>1 DEF IInv, ClonePromised
    <3>2. \A p \in Range(Artifact(c)) : dest[p] = clone
      BY <1>1, <2>3 DEF IInv, Written
    <3> QED
      BY <3>1, <3>2
  <2> QED
    BY <1>3, <1>5, <2>1, <2>4 DEF IInv, End, NothingReportedYet, PlanPromised,
       ClonePromised, Written
<1> QED
  BY <1>2, <1>4, <1>5

\* A removal installs nothing, and decides before it takes anything.
LEMMA DecideRemovalKeeps ==
  ASSUME IInv, DecideRemoval
  PROVE  IInv'
<1>1. /\ stage = "removal"
      /\ UNCHANGED <<c, remote, named, plan, dest>>
      /\ DOMAIN dest' = Paths
  BY DEF DecideRemoval, IInv, Surroundings
<1>2. \E probed \in BOOLEAN :
        /\ Probed(probed)
        /\ \/ stage' = "remove" /\ UNCHANGED <<outcome, clone, todo>>
           \/ End("released") \/ End("kept")
  BY DEF DecideRemoval
<1>3. Budget'
  <2>1. CASE UNCHANGED left
    BY <2>1 DEF IInv, Budget
  <2>2. CASE Spend("faults")
    BY <2>2, SpendKeepsBudget DEF IInv
  <2> QED
    BY <1>2, <2>1, <2>2 DEF Probed
<1>4. CASE stage' = "remove" /\ UNCHANGED <<outcome, clone, todo>>
  <2>1. Surroundings'
    BY <1>1, <1>4 DEF IInv, Surroundings
  <2> QED
    BY <1>1, <1>3, <1>4, <2>1 DEF IInv, NothingReportedYet, PlanPromised,
       ClonePromised, Written, InstalledIsWhole
<1>5. ASSUME NEW how \in {"released", "kept"}, End(how)
      PROVE  IInv'
  <2>1. Surroundings'
    BY <1>1, <1>5, EndKeepsSurroundings DEF IInv
  <2> QED
    BY <1>3, <1>5, <2>1, EndWithoutInstall
<1> QED
  BY <1>2, <1>4, <1>5

\* However far a removal comes, it ends.
LEMMA RemoveToolKeeps ==
  ASSUME IInv, RemoveTool
  PROVE  IInv'
<1>1. /\ UNCHANGED <<c, remote, named, plan>>
      /\ DOMAIN dest = Paths
      /\ (\E gone : Take(gone)) \/ UNCHANGED dest
      /\ Fail \/ (UNCHANGED left /\ (End("removed") \/ End("kept")))
  BY DEF RemoveTool, TakeAll, IInv, Surroundings
<1>2. DOMAIN dest' = Paths
  BY <1>1, PathsStay
<1>3. CASE Fail
  BY <1>1, <1>2, <1>3, FailKeeps
<1>4. ASSUME UNCHANGED left, NEW how \in {"removed", "kept"}, End(how)
      PROVE  IInv'
  <2>1. Surroundings'
    BY <1>1, <1>2, <1>4, EndKeepsSurroundings DEF IInv
  <2>2. Budget'
    BY <1>4 DEF IInv, Budget
  <2> QED
    BY <1>4, <2>1, <2>2, EndWithoutInstall
<1> QED
  BY <1>1, <1>3, <1>4

\* A process that dies reports nothing.
LEMMA CrashKeeps ==
  ASSUME IInv, Crash
  PROVE  IInv'
<1>1. /\ Spend("faults") /\ End("died")
      /\ UNCHANGED <<c, remote, named, plan>>
      /\ DOMAIN dest = Paths
      /\ UNCHANGED dest \/ Cut(Head(todo)) \/ (\E gone : Take(gone))
  BY DEF Crash, TakeAll, IInv, Surroundings
<1>2. DOMAIN dest' = Paths
  BY <1>1, PathsStay
<1>3. Surroundings'
  BY <1>1, <1>2, EndKeepsSurroundings DEF IInv
<1>4. Budget'
  BY <1>1, SpendKeepsBudget DEF IInv
<1> QED
  BY <1>1, <1>3, <1>4, EndWithoutInstall

\* A push adds to what the remote has named, and takes no promise back.
LEMMA PushKeeps ==
  ASSUME IInv, Push
  PROVE  IInv'
<1>1. /\ remote' \in Commits /\ remote' \in named' /\ named \subseteq named'
      /\ Spend("moves")
      /\ UNCHANGED <<c, plan, clone, todo, dest, stage, outcome>>
  BY DEF Push
<1>2. Budget' /\ (Untouched' <=> Untouched)
  BY <1>1, SpendKeepsBudget DEF IInv
<1>3. Promised \subseteq Promised'
  BY <1>1 DEF Promised
<1>4. Artifact(c)' = Artifact(c)
  BY <1>1 DEF Artifact
<1>5. Surroundings' /\ NothingReportedYet'
  BY <1>1 DEF IInv, Surroundings, NothingReportedYet
<1>6. PlanPromised' /\ ClonePromised'
  BY <1>1, <1>3 DEF IInv, PlanPromised, Follows, ClonePromised
<1>7. Written'
  BY <1>1, <1>2, <1>4 DEF IInv, Written
<1>8. InstalledIsWhole'
  BY <1>1, <1>2, <1>3, <1>4 DEF IInv, InstalledIsWhole
<1> QED
  BY <1>2, <1>5, <1>6, <1>7, <1>8 DEF IInv

\* Nothing is claimed once a file has been taken away.
LEMMA TamperKeeps ==
  ASSUME IInv, Tamper
  PROVE  IInv'
<1>1. /\ Spend("tampers")
      /\ UNCHANGED <<c, remote, named, plan, clone, todo, stage, outcome>>
      /\ \E gone : Take(gone)
      /\ DOMAIN dest = Paths
  BY DEF Tamper, IInv, Surroundings
<1>2. Budget' /\ ~Untouched'
  BY <1>1, SpendKeepsBudget DEF IInv
<1>3. DOMAIN dest' = Paths
  BY <1>1, PathsStay
<1>4. Promised' = Promised
  BY <1>1, PromisesStay
<1>5. Surroundings' /\ NothingReportedYet'
  BY <1>1, <1>3 DEF IInv, Surroundings, NothingReportedYet
<1>6. PlanPromised' /\ ClonePromised'
  BY <1>1, <1>4 DEF IInv, PlanPromised, Follows, ClonePromised
<1> QED
  BY <1>2, <1>5, <1>6 DEF IInv, Written, InstalledIsWhole

LEMMA StutterKeeps ==
  ASSUME IInv, UNCHANGED vars
  PROVE  IInv'
<1>1. Promised' = Promised /\ Artifact(c)' = Artifact(c) /\ Untouched' = Untouched
  BY DEF vars, Promised, Artifact, Untouched
<1>2. Surroundings' /\ Budget' /\ NothingReportedYet' /\ PlanPromised' /\ ClonePromised'
  BY <1>1 DEF vars, IInv, Surroundings, Budget, NothingReportedYet, PlanPromised,
     Follows, ClonePromised
<1>3. Written' /\ InstalledIsWhole'
  BY <1>1 DEF vars, IInv, Written, InstalledIsWhole
<1> QED
  BY <1>2, <1>3 DEF IInv

LEMMA NextIInv == IInv /\ [Next]_vars => IInv'
  BY StartKeeps, ResolveKeeps, GateKeeps, CloneKeeps, FetchKeeps, PrepareKeeps,
     CopyKeeps, VerifyInstalledKeeps, DecideRemovalKeeps, RemoveToolKeeps,
     CrashKeeps, PushKeeps, TamperKeeps, StutterKeeps DEF Next

(***************************************************************************)
(* The theorem.                                                            *)
(***************************************************************************)
\* An installation that is reported as succeeded left every entry of the
\* artifact at one promised commit: the copy of adapter.go and copy.go does
\* not end while an entry is missing, and the checkout it copies from is of
\* the revision that was resolved before it, or of one that the remote named
\* during the command.
THEOREM InstalledAlwaysWhole == Spec => []InstalledIsWhole
<1>1. IInv => InstalledIsWhole
  BY DEF IInv
<1> QED
  BY <1>1, InitIInv, NextIInv, PTL DEF Spec

(***************************************************************************)
(* What a removal may rely on.                                             *)
(***************************************************************************)
\* The evidence that a tool which is recorded is still there, for the modes
\* that keep no checkout.
StillThere ==
  CASE c.mode = "root"    -> TRUE
    [] c.mode = "managed" -> \A p \in Payload(c) : dest[p] # "absent"
    [] OTHER              -> LookPath

\* A directory that is not there holds nothing, entries are only written once it
\* is there, and what is recorded is there unless something was disturbed.
GoneInv ==
  /\ named \subseteq Commits
  /\ left.faults <= MaxFaults
  /\ stage = "write" /\ Extracts(c) => dir
  /\ c.mode = "root" /\ ~dir => \A p \in Payload(c) : dest[p] = "absent"
  /\ recorded /\ Undisturbed => StillThere

\* Every commit a command may promise is a commit, and no mark of an entry.
LEMMA PromisesAreCommits ==
  ASSUME IInv, GoneInv
  PROVE  Promised \subseteq Commits
  BY CandidatesAssumption DEF IInv, Surroundings, GoneInv, Promised

LEMMA PayloadPaths == ASSUME c \in Candidates PROVE Payload(c) \subseteq Paths
  BY DEF Payload, Paths

\* A verdict of absence is an observation of absence, and a satisfied one an
\* observation of presence.
LEMMA VerdictObserves ==
  ASSUME NEW probed \in BOOLEAN
  PROVE  /\ Verdict(probed).state = "absent" => Observe(probed).presence = "absent"
         /\ Verdict(probed).state = "satisfied" => Observe(probed).presence = "present"
         /\ TransitionForVerification(Verdict(probed)) = "none"
              => Verdict(probed).state = "satisfied"
<1> DEFINE o == ObserveResolvedCandidate(Observe(probed))
           d == Project(Verified(c), Identity)
<1>1. Verdict(probed) = Reconcile(d, o)
  BY DEF Verdict, VerifyResolvedCandidate
<1>2. Observe(probed).presence # "broken" =>
        o.presence \in {"broken", Observe(probed).presence}
  BY DEF ObserveResolvedCandidate
<1>3. Observe(probed).presence = "broken" => o.presence = "broken"
  BY DEF ObserveResolvedCandidate, Presences
<1>4. Reconcile(d, o).state = "absent" => o.presence = "absent"
  BY DEF Reconcile, Broken, Compare, Unestablished
<1>5. Reconcile(d, o).state = "satisfied" => o.presence = "present"
  BY DEF Reconcile, Broken, Compare, Unestablished
<1>6. TransitionForVerification(Verdict(probed)) = "none" => Verdict(probed).state = "satisfied"
  BY DEF TransitionForVerification
<1> QED BY <1>1, <1>2, <1>3, <1>4, <1>5, <1>6

\* What is observed as present is still there, and what is observed as absent is
\* not.
LEMMA ObservedThere ==
  ASSUME NEW probed \in BOOLEAN
  PROVE  /\ Observe(probed).presence = "present" => StillThere
         /\ Observe(probed).presence = "absent" /\ c.mode = "root" => ~dir
         /\ Observe(probed).presence = "absent" /\ c.mode # "root" => ~StillThere
<1>1. CASE c.mode = "managed"
  BY <1>1 DEF Observe, Presence, StillThere
<1>2. CASE c.mode = "root"
  BY <1>2 DEF Observe, ObserveCheckout, Presence, StillThere, GitRetainsCheckout
<1>3. CASE c.mode \notin {"managed", "root"}
  BY <1>3 DEF Observe, Presence, StillThere, GitRetainsCheckout
<1> QED BY <1>1, <1>2, <1>3

\* What the bounds left: a fault, or a file taken away, disturbs for good.
LEMMA SpendDisturbs ==
  ASSUME Budget, GoneInv, NEW what \in {"commands", "faults", "moves", "tampers"}, Spend(what)
  PROVE  /\ left'.faults <= MaxFaults
         /\ what \in {"faults", "tampers"} => ~Undisturbed'
         /\ Undisturbed' => Undisturbed
<1>1. /\ left' = [left EXCEPT ![what] = left[what] - 1]
      /\ left \in [{"commands", "faults", "moves", "tampers"} -> Int]
      /\ left.faults <= MaxFaults /\ left.tampers <= MaxTampers
  BY DEF Spend, Budget, GoneInv
<1>2. MaxFaults \in Int /\ MaxTampers \in Int
  BY BoundsAssumption
<1>3. left.faults \in Int /\ left.tampers \in Int
  BY <1>1
<1>4. CASE what = "faults"
  <2>1. left'.faults = left.faults - 1
    BY <1>1, <1>4
  <2>2. left'.faults < MaxFaults
    BY <1>1, <1>2, <1>3, <2>1
  <2> QED BY <1>2, <1>4, <2>1, <2>2, <1>3 DEF Undisturbed
<1>5. CASE what = "tampers"
  <2>1. left'.tampers = left.tampers - 1 /\ left'.faults = left.faults
    BY <1>1, <1>5
  <2>2. left'.tampers < MaxTampers
    BY <1>1, <1>2, <1>3, <2>1
  <2> QED BY <1>1, <1>2, <1>5, <2>1, <2>2, <1>3 DEF Undisturbed, Untouched
<1>6. CASE what \notin {"faults", "tampers"}
  <2>1. left'.tampers = left.tampers /\ left'.faults = left.faults
    BY <1>1, <1>6
  <2> QED BY <1>1, <1>6, <2>1 DEF Undisturbed, Untouched
<1> QED BY <1>4, <1>5, <1>6

\* A step that leaves the entries alone keeps what is recorded where it is.
LEMMA SameEvidence ==
  ASSUME UNCHANGED <<c, dest, elsewhere>>
  PROVE  StillThere' = StillThere /\ Payload(c)' = Payload(c) /\ Extracts(c)' = Extracts(c)
  BY DEF StillThere, LookPath, Payload, Artifact, Extracts

\* Steps that write no entry, record nothing new and remove no directory.
LEMMA QuietKeepsGone ==
  ASSUME IInv, GoneInv, UNCHANGED <<c, dest, elsewhere>>, named' \subseteq Commits,
         UNCHANGED left \/ \E what \in {"commands", "faults", "moves", "tampers"} : Spend(what),
         dir => dir', stage' = "write" => (stage = "write" \/ (Extracts(c) => dir')),
         recorded' => recorded \/ StillThere
  PROVE  GoneInv'
<1>1. StillThere' = StillThere /\ Payload(c)' = Payload(c) /\ Extracts(c)' = Extracts(c)
  BY SameEvidence
<1>2. left'.faults <= MaxFaults /\ (Undisturbed' => Undisturbed)
  <2>1. CASE UNCHANGED left
    BY <2>1 DEF GoneInv, Undisturbed, Untouched
  <2> QED BY <2>1, SpendDisturbs DEF IInv
<1> QED BY <1>1, <1>2 DEF GoneInv

LEMMA InitGone == Init => GoneInv
<1> SUFFICES ASSUME Init PROVE GoneInv
  OBVIOUS
<1>1. left.faults = MaxFaults /\ MaxFaults \in Int
  <2>1. left = [commands |-> MaxCommands, faults |-> MaxFaults,
                moves |-> MaxMoves, tampers |-> MaxTampers]
    BY DEF Init
  <2>2. MaxFaults \in Int
    BY BoundsAssumption
  <2> QED BY <2>1, <2>2
<1>2. ~dir => \A p \in Payload(c) : dest[p] = "absent"
  <2>1. ~dir => dest = [p \in Paths |-> "absent"]
    BY DEF Init
  <2> QED BY <2>1, PayloadPaths DEF Init
<1>3. named \subseteq Commits /\ stage # "write" /\ ~recorded
  BY DEF Init
<1> QED BY <1>1, <1>2, <1>3 DEF GoneInv

\* Copies write commits, which are no marks of what is missing.
LEMMA CopyGone ==
  ASSUME IInv, GoneInv, CopyRootEntry
  PROVE  GoneInv'
<1> DEFINE p == Head(todo)
<1>1. /\ stage = "write" /\ todo # <<>>
      /\ UNCHANGED <<c, remote, named, plan, dir, elsewhere, recorded>>
      /\ DOMAIN dest = Paths
  BY DEF CopyRootEntry, IInv, Surroundings
<1>2. p \in Paths
  BY <1>1, HeadOrTail DEF IInv, Surroundings
<1>3. c.mode = "root" => dir
  BY <1>1 DEF GoneInv, Extracts
<1>4. Payload(c)' = Payload(c) /\ Extracts(c)' = Extracts(c)
  BY <1>1 DEF Payload, Artifact, Extracts
<1>5. CASE dest' = [dest EXCEPT ![p] = clone] /\ UNCHANGED left
  <2>1. clone \notin {"absent", "clash"}
    BY <1>1, PromisesAreCommits, GitConstants DEF IInv, ClonePromised
  <2>2. \A q : dest'[q] = IF q = p THEN clone ELSE dest[q]
    <3> SUFFICES ASSUME NEW q PROVE dest'[q] = IF q = p THEN clone ELSE dest[q]
      OBVIOUS
    <3>1. CASE q \in Paths
      BY <1>1, <1>2, <1>5, <3>1
    <3> QED BY <1>1, <1>2, <1>5, <3>1
  <2>3. recorded /\ Undisturbed => StillThere'
    <3>1. StillThere => StillThere'
      BY <1>1, <2>1, <2>2, <1>4 DEF StillThere, LookPath
    <3> QED BY <3>1 DEF GoneInv
  <2> QED BY <1>1, <1>3, <1>4, <1>5, <2>3 DEF GoneInv, Undisturbed, Untouched
<1>6. CASE UNCHANGED <<dest, left>>
  BY <1>1, <1>6, QuietKeepsGone DEF GoneInv
<1>7. CASE Fail
  <2>1. left'.faults <= MaxFaults /\ ~Undisturbed'
    BY <1>7, SpendDisturbs DEF Fail, IInv
  <2> QED BY <1>1, <1>3, <1>4, <1>7, <2>1 DEF GoneInv
<1> QED BY <1>5, <1>6, <1>7 DEF CopyRootEntry

\* What a removal takes is gone, and that is all there was unless the directory
\* is shared with others, which stays.
LEMMA TakenIsGone ==
  ASSUME DOMAIN dest = Paths, Payload(c) \subseteq Paths, TakeAll, UNCHANGED c
  PROVE  /\ \A p \in Payload(c) : dest'[p] = "absent" \/ LeftBehind(p)
         /\ c.mode = "root" /\ ~dir' /\ (~dir => \A p \in Payload(c) : dest[p] = "absent")
              => \A p \in Payload(c) : dest'[p] = "absent"
<1>1. \A p \in Paths : dest'[p] = IF p \in Taken(c) THEN "absent" ELSE dest[p]
  BY DEF TakeAll, Take
<1>2. CASE IsSharedDir(c)
  <2>1. Taken(c) = {c.binary} \cap Paths /\ (dir' <=> dir)
    BY <1>2 DEF Taken, TakeAll, IsSharedDir
  <2> QED BY <1>1, <1>2, <2>1 DEF LeftBehind
<1>3. CASE ~IsSharedDir(c)
  <2>1. Taken(c) = Payload(c)
    BY <1>3 DEF Taken
  <2> QED BY <1>1, <2>1
<1> QED BY <1>2, <1>3

\* A removal takes the directory only with everything in it, and an interrupted
\* one takes entries only.
LEMMA RemoveGone ==
  ASSUME IInv, GoneInv, RemoveTool
  PROVE  /\ GoneInv'
         /\ recorded /\ ~recorded' =>
              \A p \in Payload(c) : dest'[p] = "absent" \/ LeftBehind(p)
<1>1. /\ stage = "remove" /\ UNCHANGED <<c, remote, named, plan, elsewhere>>
      /\ DOMAIN dest = Paths /\ Payload(c) \subseteq Paths
  BY PayloadPaths DEF RemoveTool, IInv, Surroundings
<1>2. Payload(c)' = Payload(c) /\ Extracts(c)' = Extracts(c)
  BY <1>1 DEF Payload, Artifact, Extracts
<1>3. CASE TakeAll /\ End("removed") /\ recorded' = FALSE /\ UNCHANGED left
  <2>1. \A p \in Payload(c) : dest'[p] = "absent" \/ LeftBehind(p)
    BY <1>1, <1>3, TakenIsGone
  <2>2. c.mode = "root" /\ ~dir' => \A p \in Payload(c) : dest'[p] = "absent"
    BY <1>1, <1>3, TakenIsGone DEF GoneInv
  <2> QED BY <1>1, <1>2, <1>3, <2>1, <2>2 DEF GoneInv, End
<1>4. CASE (\E half : Take(half)) /\ Fail /\ UNCHANGED <<dir, recorded>>
  <2>1. left'.faults <= MaxFaults /\ ~Undisturbed'
    BY <1>4, SpendDisturbs DEF Fail, IInv
  <2>2. \A p \in Payload(c) : dest[p] = "absent" => dest'[p] = "absent"
    BY <1>1, <1>4 DEF Take
  <2> QED BY <1>1, <1>2, <1>4, <2>1, <2>2 DEF GoneInv, Fail, End
<1>5. CASE End("kept") /\ UNCHANGED <<dest, dir, recorded, left>>
  BY <1>1, <1>5, QuietKeepsGone DEF GoneInv, End
<1> QED BY <1>3, <1>4, <1>5 DEF RemoveTool

LEMMA CrashGone ==
  ASSUME IInv, GoneInv, Crash
  PROVE  GoneInv'
<1>1. /\ stage # "idle" /\ UNCHANGED <<c, named, recorded>> /\ End("died")
      /\ DOMAIN dest = Paths /\ Payload(c) \subseteq Paths
  BY PayloadPaths DEF Crash, IInv, Surroundings
<1>2. left'.faults <= MaxFaults /\ ~Undisturbed'
  BY SpendDisturbs DEF Crash, IInv
<1>3. Payload(c)' = Payload(c) /\ Extracts(c)' = Extracts(c)
  BY <1>1 DEF Payload, Artifact, Extracts
<1>4. c.mode = "root" /\ ~dir' => \A p \in Payload(c) : dest'[p] = "absent"
  <2>1. CASE UNCHANGED <<dest, dir>>
    BY <2>1 DEF GoneInv
  <2>2. CASE stage = "write" /\ UNCHANGED dir
    BY <2>2 DEF GoneInv, Extracts
  <2>3. CASE (\E half : Take(half)) /\ UNCHANGED dir
    BY <1>1, <2>3 DEF Take, GoneInv
  <2>4. CASE TakeAll
    BY <1>1, <2>4, TakenIsGone DEF GoneInv
  <2> QED BY <2>1, <2>2, <2>3, <2>4 DEF Crash
<1> QED BY <1>1, <1>2, <1>3, <1>4 DEF GoneInv, End

\* A tool leaves the record only on a verdict of absence, or with its removal.
LEMMA StepGone ==
  ASSUME IInv, GoneInv, [Next]_vars
  PROVE  /\ GoneInv'
         /\ recorded /\ ~recorded' /\ (GitRetainsCheckout(c) \/ Undisturbed)
              => \A p \in Payload(c) : dest'[p] = "absent" \/ LeftBehind(p)
<1>1. CASE StartInstall \/ StartRemoval
  <2>1. PICK first \in {"resolve", "removal"} : Start(first)
    BY <1>1 DEF StartInstall, StartRemoval
  <2>2. /\ UNCHANGED <<c, dest, elsewhere, dir, recorded>> /\ stage' # "write"
        /\ named' \subseteq Commits /\ Spend("commands")
    BY <2>1 DEF Start, IInv, Surroundings
  <2> QED BY <2>2, QuietKeepsGone
<1>2. CASE Resolve \/ Clone \/ Fetch
  <2>1. /\ UNCHANGED <<c, dest, elsewhere, dir, recorded, named>> /\ stage' # "write"
        /\ UNCHANGED left \/ Spend("faults")
    BY <1>2 DEF Resolve, Clone, Fetch, Fail, End
  <2> QED BY <2>1, QuietKeepsGone DEF GoneInv
<1>3. CASE Prepare
  <2>1. /\ UNCHANGED <<c, dest, elsewhere, recorded, named>>
        /\ \/ stage' = "write" /\ dir' = (dir \/ Extracts(c)) /\ UNCHANGED left
           \/ Spend("faults") /\ stage' = "idle" /\ UNCHANGED dir
    BY <1>3 DEF Prepare, Fail, End
  <2>2. dir => dir'
    BY <2>1
  <2> QED BY <2>1, <2>2, QuietKeepsGone DEF GoneInv
<1>4. CASE Gate \/ VerifyInstalled
  <2>1. PICK probed \in BOOLEAN :
          /\ Probed(probed)
          /\ recorded' => recorded \/ Verdict(probed).state = "satisfied"
          /\ recorded => recorded'
    BY <1>4, VerdictObserves DEF Gate, VerifyInstalled
  <2>2. /\ UNCHANGED <<c, dest, elsewhere, dir, named>> /\ stage' # "write"
    BY <1>4 DEF Gate, VerifyInstalled, End
  <2>3. recorded' => recorded \/ StillThere
    BY <2>1, VerdictObserves, ObservedThere
  <2>4. UNCHANGED left \/ Spend("faults")
    BY <2>1 DEF Probed
  <2> QED BY <2>1, <2>2, <2>3, <2>4, QuietKeepsGone DEF GoneInv
<1>5. CASE DecideRemoval
  <2>1. PICK probed \in BOOLEAN :
          Probed(probed) /\ recorded' = (recorded /\ Verdict(probed).state # "absent")
    BY <1>5 DEF DecideRemoval
  <2>2. /\ UNCHANGED <<c, dest, elsewhere, dir, named>> /\ stage' # "write"
    BY <1>5 DEF DecideRemoval, End
  <2>3. UNCHANGED left \/ Spend("faults")
    BY <2>1 DEF Probed
  <2>4. GoneInv'
    BY <2>1, <2>2, <2>3, QuietKeepsGone DEF GoneInv
  <2>5. ASSUME recorded, ~recorded', GitRetainsCheckout(c) \/ Undisturbed
        PROVE  \A p \in Payload(c) : dest'[p] = "absent"
    <3>1. Observe(probed).presence = "absent"
      BY <2>1, <2>5, VerdictObserves
    <3>2. CASE c.mode = "root"
      BY <2>2, <3>1, <3>2, ObservedThere DEF GoneInv
    <3>3. CASE c.mode # "root"
      BY <2>5, <3>1, <3>3, ObservedThere DEF GoneInv, GitRetainsCheckout
    <3> QED BY <3>2, <3>3
  <2> QED BY <2>4, <2>5
<1>6. CASE CopyRootEntry
  BY <1>6, CopyGone DEF CopyRootEntry
<1>7. CASE RemoveTool
  BY <1>7, RemoveGone
<1>8. CASE Crash
  BY <1>8, CrashGone DEF Crash
<1>9. CASE Push
  <2>1. /\ UNCHANGED <<c, dest, elsewhere, dir, recorded, stage>> /\ Spend("moves")
        /\ named' \subseteq Commits
    BY <1>9 DEF Push, GoneInv
  <2> QED BY <2>1, QuietKeepsGone
<1>10. CASE Tamper
  <2>1. /\ UNCHANGED <<c, named, dir, stage, recorded>> /\ Spend("tampers")
        /\ \E gone : Take(gone)
        /\ DOMAIN dest = Paths /\ Payload(c) \subseteq Paths
    BY <1>10, PayloadPaths DEF Tamper, IInv, Surroundings
  <2>2. left'.faults <= MaxFaults /\ ~Undisturbed'
    BY <2>1, SpendDisturbs DEF IInv
  <2>3. Payload(c)' = Payload(c) /\ Extracts(c)' = Extracts(c)
    BY <2>1 DEF Payload, Artifact, Extracts
  <2>4. \A p \in Payload(c) : dest[p] = "absent" => dest'[p] = "absent"
    BY <2>1 DEF Take
  <2> QED BY <2>1, <2>2, <2>3, <2>4 DEF GoneInv
<1>11. CASE UNCHANGED vars
  BY <1>11, QuietKeepsGone DEF vars, GoneInv
<1> QED BY <1>1, <1>2, <1>3, <1>4, <1>5, <1>6, <1>7, <1>8, <1>9, <1>10, <1>11 DEF Next

\* The record of a tool is dropped only when nothing is left of what was installed:
\* of a retained checkout whatever happened to it, of anything else as long as no
\* command failed and nobody took a file away.  What was installed into a directory
\* shared with others is the exception: of that a removal takes the binary, and
\* leaves the rest, a retained checkout included.
THEOREM ReleasedAlwaysGone == Spec => ReleasedIsGone
<1>1. IInv /\ GoneInv /\ [Next]_vars =>
        [recorded /\ ~recorded' /\ (GitRetainsCheckout(c) \/ Undisturbed)
           => \A p \in Payload(c) : dest'[p] = "absent" \/ LeftBehind(p)]_vars
  BY StepGone
<1>2. IInv /\ GoneInv /\ [Next]_vars => (IInv /\ GoneInv)'
  BY NextIInv, StepGone
<1> QED
  BY <1>1, <1>2, InitIInv, InitGone, PTL DEF Spec, ReleasedIsGone
===============================================================================
