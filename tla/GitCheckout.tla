----------------------------- MODULE GitCheckout -----------------------------
(***************************************************************************)
(* A tool installed from a git repository and removed again                *)
(* (src/internal/git/adapter.go, src/internal/git/copy.go), under the      *)
(* gate, the verification and the removal of the executor                  *)
(* (src/internal/exec/attempt.go, src/internal/app/remove.go).             *)
(*                                                                         *)
(* The checkout is made in a temporary directory and then, entry by entry, *)
(* copied over what the destination holds; or the build commands of the    *)
(* candidate put its results elsewhere.  Meanwhile the remote may move,    *)
(* commands and copies may fail, the process may die at any step, and      *)
(* somebody may take a file away.                                          *)
(***************************************************************************)
EXTENDS Verification, Integers, Sequences, Functions

CONSTANTS
  Commits,         \* the commits of the repository
  Candidates,      \* the candidates a manifest may name
  MaxCommands,     \* bound: commands that are run
  MaxFaults,       \* bound: commands, copies and removals that fail
  MaxMoves,        \* bound: pushes to the remote
  MaxTampers       \* bound: files somebody takes away

ASSUME GitConstants ==
  /\ "revision" \in Fields /\ Commits \cap Malformed = {}
  /\ Commits \cap {"", "absent", "user", "clash", "part"} = {}

ASSUME BoundsAssumption ==
  {MaxCommands, MaxFaults, MaxMoves, MaxTampers} \subseteq Nat

\* What extract_to, artifact and managed_paths may say; a configured revision
\* names a commit, and so does a locked one (lock.go validates its spelling).
ASSUME CandidatesAssumption ==
  \A k \in Candidates :
    /\ k.mode \in {"root", "part", "managed", "build"}
    /\ k.rev \in Commits /\ k.locked \in Commits \cup {""}

VARIABLES
  c,          \* the candidate
  remote,     \* the commit its branch, tag or default branch names
  named,      \* the commits that named since the command began
  plan,       \* the commit the plan is resolved to, or ""
  clone,      \* the temporary checkout: "none", "bare" or a commit
  todo,       \* the entries still to be written
  dest,       \* what is at each path the installation may write
  dir,        \* the directory extract_to is there
  elsewhere,  \* another program of the name of the binary is on the PATH
  stage,      \* what the command in progress does next
  outcome,    \* how the last command ended
  recorded,   \* the state file names the tool
  left        \* what the bounds leave

vars == <<c, remote, named, plan, clone, todo, dest, dir, elsewhere, stage,
          outcome, recorded, left>>

-----------------------------------------------------------------------------
(* Candidates.  By mode, extract_to gets the whole checkout ("root") or a  *)
(* part of it ("part"), and is the tool's own directory or one that is     *)
(* shared with others; or the build installs the managed_paths ("managed") *)
(* or a binary nobody keeps track of ("build").                            *)

\* What is copied, in the order the directory is read, or what is built.
Artifact(k) ==
  CASE k.mode = "root"    -> <<".git", "lib", "tool">>
    [] k.mode = "part"    -> <<"lib", "tool">>
    [] k.mode = "managed" -> <<"m", "mm">>
    [] k.mode = "build"   -> <<"tool">>

Paths == UNION {Range(Artifact(k)) : k \in Candidates}

Extracts(k) == k.mode \in {"root", "part"}

\* extract_to is /opt, /usr, /lib and the like, or its path ends in /bin or /sbin.
IsSharedDir(k) == Extracts(k) /\ k.shared

\* Where the checkout goes is not asked.
GitRetainsCheckout(k) == k.mode = "root"

\* A non-root artifact has no identity; a checkout has its commit.
Verified(k) == IF GitRetainsCheckout(k) THEN {"revision"} ELSE {}

\* What an installation puts there.
Payload(k) == Range(Artifact(k))

\* What a removal takes away: of a shared directory the binary, and no more.
Taken(k) == IF IsSharedDir(k) THEN {k.binary} \cap Paths ELSE Payload(k)

-----------------------------------------------------------------------------
(* Resolution.                                                             *)

Selects(k) == k.ref \in {"branch", "tag", "annotated"}

\* An annotated tag names an object of its own, which ls-remote peels.
TagObject == "object"

LsRemote ==
  IF c.ref = "annotated" THEN [plain |-> TagObject, peeled |-> remote]
  ELSE [plain |-> remote, peeled |-> ""]

ParseRemoteRevision(refs) == IF refs.peeled # "" THEN refs.peeled ELSE refs.plain

\* A configured revision, else the locked one, else what the branch or the tag
\* names now.  {latest} and a default branch are not pinned.
ResolvePlan ==
  IF c.ref = "rev" THEN c.rev
  ELSE IF c.ref # "latest" /\ c.locked # "" THEN c.locked
  ELSE IF Selects(c) THEN ParseRemoteRevision(LsRemote)
  ELSE ""

Asks(k) == k.ref = "latest" \/ (Selects(k) /\ k.locked = "")

\* A source that goes by the configured selector, whatever the plan says.
SourceBySelector == IF Selects(c) THEN "" ELSE plan

\* The revision to fetch; without one, the clone takes what the remote names.
ResolvedCloneSourceFromPlan == plan

-----------------------------------------------------------------------------
(* Observation.                                                            *)

\* A candidate need not name its binary.
LookPath ==
  /\ c.binary # ""
  /\ \/ elsewhere
     \/ /\ c.binary \in Paths /\ dest[c.binary] \notin {"absent", "clash"}
        /\ c.mode = "part" => c.onpath

Presence(p) == [presence |-> p, known |-> Nothing, detail |-> p = "broken",
                err |-> FALSE]

\* A checkout whose metadata is gone is taken for one that is not there.
ObserveByMetadata(probed) ==
  IF dest[".git"] = "absent" THEN Presence("absent")
  ELSE IF dest[".git"] \in {"clash", "part"} \/ ~probed THEN Presence("broken")
  ELSE [Presence("present") EXCEPT !.known = [f \in {"revision"} |-> dest[".git"]]]

\* A directory that is there and whose HEAD cannot be established is broken.
\* A repository of the user's has a HEAD as well.
ObserveCheckout(probed) ==
  IF ~dir THEN Presence("absent")
  ELSE IF dest[".git"] \in {"absent", "clash", "part"} \/ ~probed
         THEN Presence("broken")
  ELSE [Presence("present") EXCEPT !.known = [f \in {"revision"} |-> dest[".git"]]]

Observe(probed) ==
  IF c.mode = "managed"
    THEN Presence(IF \A p \in Payload(c) : dest[p] # "absent"
                  THEN "present" ELSE "absent")
  ELSE IF GitRetainsCheckout(c) THEN ObserveCheckout(probed)
  ELSE Presence(IF LookPath THEN "present" ELSE "absent")

Identity == IF plan = "" THEN Nothing ELSE [f \in {"revision"} |-> plan]

Verdict(probed) ==
  VerifyResolvedCandidate(Verified(c), Identity, Observe(probed))

Spend(what) == left[what] > 0 /\ left' = [left EXCEPT ![what] = @ - 1]

\* The probe of HEAD answers, or it costs a fault.
Probed(probed) ==
  IF probed THEN UNCHANGED left ELSE GitRetainsCheckout(c) /\ Spend("faults")

-----------------------------------------------------------------------------
(* Commands.                                                               *)

\* The temporary directory goes with the command.
End(how) ==
  /\ stage' = "idle" /\ outcome' = how
  /\ clone' = "none" /\ todo' = <<>>

Init ==
  /\ c \in Candidates
  /\ remote \in Commits /\ named = {remote}
  /\ \/ dest = [p \in Paths |-> "absent"] /\ dir = FALSE
     \/ /\ dest \in [Paths -> {"absent", "user", "clash"}]
        /\ \A p \in Paths \ Range(Artifact(c)) : dest[p] = "absent"
        /\ dir = TRUE
  /\ elsewhere \in BOOLEAN
  /\ plan = "" /\ clone = "none" /\ todo = <<>>
  /\ stage = "idle" /\ outcome = "" /\ recorded = FALSE
  /\ left = [commands |-> MaxCommands, faults |-> MaxFaults,
             moves |-> MaxMoves, tampers |-> MaxTampers]

Start(first) ==
  /\ stage = "idle" /\ Spend("commands")
  /\ stage' = first /\ outcome' = "" /\ named' = {remote}
  /\ UNCHANGED <<c, remote, plan, clone, todo, dest, dir, elsewhere, recorded>>

StartInstall == Start("resolve")

StartRemoval == recorded /\ Start("removal")

\* Without the network, a selector that is not pinned is not resolved.
Resolve ==
  /\ stage = "resolve"
  /\ \/ /\ plan' = ResolvePlan /\ stage' = "gate"
        /\ UNCHANGED <<left, outcome, clone, todo>>
     \/ Asks(c) /\ Spend("faults") /\ End("failed") /\ UNCHANGED plan
  /\ UNCHANGED <<c, remote, named, dest, dir, elsewhere, recorded>>

Gate ==
  /\ stage = "gate"
  /\ \E probed \in BOOLEAN :
       LET transition == TransitionForVerification(Verdict(probed))
       IN /\ Probed(probed)
          /\ IF transition = "install"
             THEN stage' = "clone" /\ UNCHANGED <<outcome, clone, todo>>
             ELSE End(CASE transition = "none"    -> "already"
                        [] transition = "upgrade" -> "drifted"
                        [] OTHER                  -> "refused")
          /\ recorded' = (recorded \/ transition = "none")
  /\ UNCHANGED <<c, remote, named, plan, dest, dir, elsewhere>>

Fail == Spend("faults") /\ End("failed")

\* A pinned commit is fetched into a clone without a checkout.
Clone ==
  /\ stage = "clone"
  /\ \/ /\ IF ResolvedCloneSourceFromPlan # ""
           THEN clone' = "bare" /\ stage' = "fetch"
           ELSE clone' = remote /\ stage' = "build"
        /\ UNCHANGED <<outcome, todo, left>>
     \/ Fail
  /\ UNCHANGED <<c, remote, named, plan, dest, dir, elsewhere, recorded>>

Fetch ==
  /\ stage = "fetch"
  /\ \/ /\ clone' = ResolvedCloneSourceFromPlan /\ stage' = "build"
        /\ UNCHANGED <<outcome, todo, left>>
     \/ Fail
  /\ UNCHANGED <<c, remote, named, plan, dest, dir, elsewhere, recorded>>

\* Submodules, then the build commands; what is copied is copied afterwards,
\* into a directory that is made if it has to be.
Prepare ==
  /\ stage = "build"
  /\ \/ /\ stage' = "write" /\ todo' = Artifact(c)
        /\ dir' = (dir \/ Extracts(c))
        /\ UNCHANGED <<outcome, clone, left>>
     \/ Fail /\ UNCHANGED dir
  /\ UNCHANGED <<c, remote, named, plan, dest, elsewhere, recorded>>

\* An entry takes the place of what is there, unless that is of the other type.
Fits(p) == Extracts(c) => dest[p] # "clash"

\* One whose copy fails, or whose build command does, may be there in part.
Cut(p) ==
  \/ UNCHANGED dest
  \/ dest[p] # "clash" /\ dest' = [dest EXCEPT ![p] = "part"]

CopyRootEntry ==
  /\ stage = "write" /\ todo # <<>>
  /\ LET p == Head(todo)
     IN \/ /\ Fits(p)
           /\ dest' = [dest EXCEPT ![p] = clone] /\ todo' = Tail(todo)
           /\ UNCHANGED <<stage, outcome, clone, left>>
        \/ ~Fits(p) /\ End("failed") /\ UNCHANGED <<dest, left>>
        \/ Cut(p) /\ Fail
  /\ UNCHANGED <<c, remote, named, plan, dir, elsewhere, recorded>>

VerifyInstalled ==
  /\ stage = "write" /\ todo = <<>>
  /\ \E probed \in BOOLEAN :
       LET met == Verdict(probed).state = "satisfied"
       IN /\ Probed(probed)
          /\ End(IF met THEN "installed" ELSE "failed")
          /\ recorded' = (recorded \/ met)
  /\ UNCHANGED <<c, remote, named, plan, dest, dir, elsewhere>>

DecideRemoval ==
  /\ stage = "removal"
  /\ \E probed \in BOOLEAN :
       LET state == Verdict(probed).state
       IN /\ Probed(probed)
          /\ IF state \in {"satisfied", "drifted"}
             THEN stage' = "remove" /\ UNCHANGED <<outcome, clone, todo>>
             ELSE End(IF state = "absent" THEN "released" ELSE "kept")
          /\ recorded' = (recorded /\ state # "absent")
  /\ UNCHANGED <<c, remote, named, plan, dest, dir, elsewhere>>

Take(gone) ==
  dest' = [p \in Paths |-> IF p \in gone THEN "absent" ELSE dest[p]]

\* A shared directory stays, and nothing of it goes unless a binary is named that
\* is no directory; what was only built cannot be removed.
Removable ==
  CASE c.mode = "build" -> FALSE
    [] IsSharedDir(c)   -> c.binary # "" /\ (c.binary \in Paths => dest[c.binary] # "clash")
    [] OTHER            -> TRUE

\* Managed paths go one by one, the longest first; a binary at once; any other
\* directory in whatever order it is read.
Halves ==
  CASE c.mode = "managed" -> {{}, {"mm"}}
    [] IsSharedDir(c)     -> {{}}
    [] OTHER              -> SUBSET Payload(c)

\* A directory of its own goes with what was in it.
TakeAll == Take(Taken(c)) /\ dir' = (dir /\ (Extracts(c) => IsSharedDir(c)))

RemoveTool ==
  /\ stage = "remove"
  /\ \/ Removable /\ TakeAll /\ End("removed") /\ recorded' = FALSE /\ UNCHANGED left
     \/ /\ Removable /\ (\E half \in Halves : Take(half))
        /\ Fail /\ UNCHANGED <<dir, recorded>>
     \/ ~Removable /\ End("kept") /\ UNCHANGED <<dest, dir, recorded, left>>
  /\ UNCHANGED <<c, remote, named, plan, elsewhere>>

\* The process dies; an entry it was writing may be there in part, and what it
\* was removing gone, in part or as a whole, with the record still there.
Crash ==
  /\ stage # "idle" /\ Spend("faults") /\ End("died")
  /\ \/ UNCHANGED <<dest, dir>>
     \/ stage = "write" /\ todo # <<>> /\ Cut(Head(todo)) /\ UNCHANGED dir
     \/ /\ stage = "remove" /\ Removable
        /\ \/ (\E half \in Halves : Take(half)) /\ UNCHANGED dir
           \/ TakeAll
  /\ UNCHANGED <<c, remote, named, plan, elsewhere, recorded>>

Push ==
  /\ Spend("moves")
  /\ \E commit \in Commits \ {remote} :
       remote' = commit /\ named' = named \cup {commit}
  /\ UNCHANGED <<c, plan, clone, todo, dest, dir, elsewhere, stage, outcome,
                 recorded>>

Tamper ==
  /\ Spend("tampers")
  /\ \E p \in Paths : dest[p] # "absent" /\ Take({p})
  /\ UNCHANGED <<c, remote, named, plan, clone, todo, dir, elsewhere, stage,
                 outcome, recorded>>

Next ==
  \/ StartInstall \/ StartRemoval \/ Resolve \/ Gate \/ Clone \/ Fetch
  \/ Prepare \/ CopyRootEntry \/ VerifyInstalled \/ DecideRemoval \/ RemoveTool
  \/ Crash \/ Push \/ Tamper

Spec == Init /\ [][Next]_vars

-----------------------------------------------------------------------------
(* Properties.                                                             *)

\* The commits an installation may leave behind: the configured one, the
\* locked one, or one that the selector named while the command ran.
Promised ==
  IF c.ref = "rev" THEN {c.rev}
  ELSE IF c.ref # "latest" /\ c.locked # "" THEN {c.locked}
  ELSE named

Untouched == left.tampers = MaxTampers

Undisturbed == Untouched /\ left.faults = MaxFaults

\* An installation that succeeds leaves every entry of the artifact at one
\* promised commit, whatever the remote did meanwhile and whatever was in the
\* way before.
InstalledIsWhole ==
  outcome = "installed" /\ Untouched =>
    \E commit \in Promised : \A p \in Range(Artifact(c)) : dest[p] = commit

\* What a removal leaves behind by design: whatever an installation put into a
\* directory shared with others, the binary excepted; of a retained checkout there,
\* that is the checkout (GitAdapter.Remove; GitRetainsCheckout does not ask).
LeftBehind(p) == IsSharedDir(c) /\ p # c.binary

\* The state file forgets a tool only when nothing is left of what its
\* installation put there, but for what a removal leaves by design: for a retained
\* checkout whatever happened to it before, elsewhere unless a removal was
\* interrupted or a file was taken away, as one that is missing is enough for a
\* target to count as absent.
ReleasedIsGone ==
  [][recorded /\ ~recorded' /\ (GitRetainsCheckout(c) \/ Undisturbed)
       => \A p \in Payload(c) : dest'[p] = "absent" \/ LeftBehind(p)]_vars

=============================================================================
