----------------------------- MODULE ManagedTool -----------------------------
(***************************************************************************)
(* One tool from a package manager, installed and removed again: the gate  *)
(* that observes it, the installation, the observation that has to confirm *)
(* it, and the removal that a fresh observation allows                     *)
(* (src/internal/exec/attempt.go, src/internal/app/remove.go), over what   *)
(* the adapters make of the manager's answers.                             *)
(*                                                                         *)
(* The host is the set of entries the manager holds.  A manager may answer *)
(* wrongly in the ways the runner tells apart, one per question, an        *)
(* installation may fail or do nothing, and somebody else may add or       *)
(* remove an entry at any time.  A target that has drifted is left to the  *)
(* replacement of the old version (module Replacement).                    *)
(***************************************************************************)
EXTENDS ToolchainManagers, NativeManagers

CONSTANTS
  Candidates,       \* the candidates a manifest may name
  Universe(_),      \* the entries that may be about for a candidate
  MaxEntries,       \* bound: entries on the host
  MaxCommands,      \* bound: commands that are run
  MaxFaults,        \* bound: wrong answers and failing commands
  MaxOutsiders      \* bound: steps of somebody else

\* The kinds of method whose manager is described below.
Kinds ==
  ExactVersionKinds \cup OwnObserve \cup NativeKinds
    \cup {"flatpak", "vscode", "cask"}

\* The words of which both are made; those an installation chooses by itself
\* are among them.
Words ==
  STRING \cup {"", "v2", "b1", "global", "user", "base", "gobin", "current",
              "asdf", "mise"}

Candidate ==
  [kind : Kinds, tool : Words, pkg : Words, alias : Words, path : Seq(Words),
   ver : Words, slot : Words, src : Words, build : Words, locked : Words]

Entry ==
  [name : Words, pkg : Words, ver : Words, slot : Words, src : Words,
   build : Words, form : {"whole", "partial", "leftover"}]

\* What go calls the program it installs: the last element of the import path, or
\* the one before if the last is a major version ("vN").
GoInstallName(path) ==
  IF path[Len(path)] = "vN" /\ Len(path) > 1 THEN path[Len(path) - 1]
  ELSE path[Len(path)]

\* Kinds that may list a package under another name than its own.
Renaming == RegistryKinds \cup {"pipx", "go", "nix"}

\* Kinds that know packages of which not all is there.
KnowsPartial ==
  {"apt", "nix", "port", "cargo", "aur", "brew", "apk", "pacman", "cask", "pip"}

\* What a manager lists under a package's name is that package, all of it
\* unless the manager says otherwise, with a version unless it is one of
\* Windows or a program that was not built from a module's version; of asdf and
\* mise only the latter has back ends.  What lies in GOBIN go has named.
Plausible(k, e) ==
  /\ k.kind \notin Renaming => (e.name = k.pkg <=> e.pkg = k.pkg)
  /\ k.kind \in RegistryKinds /\ e.name = k.alias => e.pkg = k.pkg
  /\ k.kind \notin KnowsPartial => e.form = "whole"
  /\ k.kind \notin {"scoop", "choco", "go"} => e.ver # ""
  /\ k.kind = "go" /\ e.slot = "gobin" /\ e.pkg = k.pkg =>
       e.name = GoInstallName(k.path)
  /\ k.kind = "asdf" =>
       e.slot \in {"asdf", "mise"} /\ (e.slot = "asdf" => e.src = "")

ASSUME CandidatesAssumption ==
  Candidates \subseteq {k \in Candidate : k.kind = "go" => k.path # <<>>}

ASSUME UniverseAssumption ==
  \A k \in Candidates : \A e \in Universe(k) : e \in Entry /\ Plausible(k, e)

ASSUME BoundsAssumption ==
  /\ MaxEntries \in Nat /\ MaxCommands \in Nat
  /\ MaxFaults \in Nat /\ MaxOutsiders \in Nat

\* What a manifest states of a candidate, and what its manager chooses for
\* it, are values that the validation of an identity accepts.
ASSUME ValuesAssumption ==
  /\ {"package", "version", "scope", "environment", "source", "revision"}
       \subseteq Fields
  /\ {"v2", "b1"} \cap Malformed = {}
  /\ \A k \in Candidates :
       {k.pkg, k.ver, k.locked, k.slot, k.src, k.build} \cap Malformed
         \subseteq {""}

VARIABLES
  c,          \* the candidate
  host,       \* the manager's inventory
  stage,      \* what the command in progress does next
  doubt,      \* what is wrong with the answers to the current question
  answers,    \* the answers so far
  seen,       \* the host as each of them found it
  verdict,    \* the verdict they led to
  recorded,   \* the state file names the tool
  outcome,    \* how the last command ended
  left        \* what the bounds leave

vars == <<c, host, stage, doubt, answers, seen, verdict, recorded, outcome, left>>

NoVerdict == [state |-> "none", known |-> Nothing, drift |-> Nothing,
              unverifiable |-> {}, detail |-> FALSE]

Asking == {"gate", "confirm", "verify", "removal"}

-----------------------------------------------------------------------------
(* The manager: external code, as the commands of the adapters use it.     *)

\* Two queries are made of a database and its sentinel, of a binary and its
\* build information, and of asdf and mise.
Questions == IF c.kind \in {"go", "asdf", "choco"}
               \/ (c.kind \in NativeKinds /\ HasDatabase(c.kind))
             THEN 2 ELSE 1

\* Managers that are asked about one package, and answer by their status.
AskedByName ==
  \/ c.kind \in {"pip", "composer", "aur", "pacstall", "yarn-berry", "flatpak",
                 "cask"}
  \/ c.kind \in NativeKinds

\* Their output is parsed as a whole: one that is cut is not understood.
Structured == {"pipx", "pnpm", "npm", "conda", "nix", "yarn", "bun", "go"}

\* What the query reaches of what the manager holds.
Queried(entries, question) ==
  {e \in entries :
     /\ c.kind \in {"pipx", "conda", "cargo"} => e.slot = Confined(c)
     /\ c.kind = "scoop" /\ c.slot = "global" => e.slot = "global"
     /\ c.kind = "flatpak" => c.slot \in {"", e.slot}
     /\ c.kind = "asdf" => e.slot = (IF question = 1 THEN "asdf" ELSE "mise")
     /\ AskedByName => e.name = InventoryName(c)
     /\ c.kind \in {"aur", "brew", "apk", "pacman", "cask", "pip"} =>
          e.form = "whole"}

Silent == [found |-> TRUE, ran |-> TRUE, whole |-> TRUE, exit |-> 1,
           said |-> "missing", rows |-> {}]

Listing(rows) == [Silent EXCEPT !.exit = 0, !.said = "rows", !.rows = rows]

\* A port that is not there is said to be missing with a status of 0.
Honest(entries, question) ==
  LET rows == Queried(entries, question)
  IN IF c.kind \in NativeKinds /\ HasDatabase(c.kind) /\ question = 2
       THEN Listing({})
     ELSE IF rows # {} \/ ~AskedByName THEN Listing(rows)
     ELSE IF c.kind = "port" THEN [Silent EXCEPT !.exit = 0]
     ELSE Silent

\* What is wrong with an answer.  The file that go puts its binary in is
\* looked at without a command, and no fault hides it.
Answer(entries, question, fault) ==
  LET honest == Honest(entries, question)
      lost   == [honest EXCEPT !.said = "other",
                               !.rows = {e \in @ : c.kind = "go"}]
  IN CASE fault = "none"    -> {honest}
       [] fault = "gone"    -> {[lost EXCEPT !.found = FALSE, !.ran = FALSE]}
       [] fault = "fails"   -> {[lost EXCEPT !.ran = FALSE]}
       [] fault = "garbled" -> {[lost EXCEPT !.exit = 0]}
       [] fault = "refuses" -> {[lost EXCEPT !.exit = 1]}
       [] fault = "cut" ->
            IF c.kind \in Structured
            THEN {[lost EXCEPT !.whole = FALSE]}
            ELSE {[honest EXCEPT !.whole = FALSE, !.rows = rows] :
                    rows \in SUBSET honest.rows}

Faults == {"gone", "fails", "refuses", "garbled", "cut"}

\* A file is read without a manager, and a status is not parsed.
Possible(fault) ==
  /\ c.kind = "sdkman" => fault = "none"
  /\ fault = "garbled" =>
       /\ c.kind \notin {"aur", "pacstall", "yarn-berry", "cask", "flatpak"}
       /\ c.kind = "pip" => c.ver # ""
       /\ c.kind \in NativeKinds => Family(c.kind) # "status"

\* Versions lie side by side, or one replaces the other in its place.
SideBySide == {"gem", "asdf", "sdkman"}

\* Kinds that hold a package once in each of their scopes, environments or
\* architectures; elsewhere a package has one place.
Slotted ==
  {"pipx", "conda", "cargo", "scoop", "flatpak", "go", "asdf"}
    \cup {kind \in NativeKinds : HasDatabase(kind)}

Place(e) == <<e.name,
              IF c.kind \in Slotted THEN e.slot ELSE "",
              IF c.kind \in SideBySide THEN e.ver ELSE "",
              IF c.kind = "nix" THEN e.src ELSE "">>

WellPlaced(entries) ==
  \A e, f \in entries : Place(e) = Place(f) => e = f

\* An installation takes its place, and sdkman makes it the current one.
Installed(cmd) ==
  LET entry == [name |-> IF c.kind = "go" THEN GoInstallName(c.path) ELSE cmd.name,
                pkg |-> cmd.pkg,
                ver |-> IF cmd.ver = "" THEN "v2" ELSE cmd.ver,
                slot |-> cmd.slot, src |-> cmd.src,
                build |-> IF cmd.build = "" THEN "b1" ELSE cmd.build,
                form |-> "whole"]
      others == {e \in host : Place(e) # Place(entry)}
  IN {entry} \cup {IF c.kind = "sdkman" THEN [e EXCEPT !.slot = ""] ELSE e :
                    e \in others}

\* What a removal takes: nix names the element of the profile it has found,
\* the others what they list the package as.
Removed(cmd) ==
  {e \in host : /\ IF c.kind = "nix" THEN e.pkg = c.pkg ELSE e.name = cmd.name
                /\ cmd.ver \in {"", e.ver}
                /\ \/ e.slot = cmd.slot
                   \/ cmd.slot = "" /\ c.kind # "cargo"
                /\ c.kind \in {"nix", "asdf"} => e.src = c.src}

-----------------------------------------------------------------------------
(* What the executor makes of it.                                          *)

Plan == ResolvePlan(c)

Asked == MethodForResolvedTarget(c, Plan)

\* The first and the last answer.
A == answers[1]
B == answers[Len(answers)]

Observation ==
  CASE c.kind \in OwnObserve  -> ToolchainObserve(Asked, A, B)
    [] c.kind \in NativeKinds -> NativeObserve(Asked, A, B)
    [] OTHER                  -> BaseObserve(Asked, A)

\* The verdict that takes the success of an installation for granted.
VerdictGranted ==
  LET identity == Project(Verifies(c.kind), Plan)
  IN IF stage # "verify"
     THEN VerifyResolvedCandidate(Verifies(c.kind), Plan, Observation)
     ELSE [NoVerdict EXCEPT !.state = "satisfied", !.known = identity]

Verdict == VerifyResolvedCandidate(Verifies(c.kind), Plan, Observation)

Spend(what) == left[what] > 0 /\ left' = [left EXCEPT ![what] = @ - 1]

Forget == answers' = <<>>

End(how) == stage' = "idle" /\ outcome' = how

Init ==
  /\ c \in {k \in Candidates : Resolvable(k)}
  /\ host \in {h \in SUBSET Universe(c) : /\ Cardinality(h) <= MaxEntries
                                          /\ WellPlaced(h)}
  /\ recorded \in BOOLEAN
  /\ stage = "idle" /\ outcome = "" /\ doubt = "none"
  /\ answers = <<>> /\ seen = <<>> /\ verdict = NoVerdict
  /\ left = [commands |-> MaxCommands, faults |-> MaxFaults,
             outsiders |-> MaxOutsiders]

Start(first) ==
  /\ stage = "idle"
  /\ Spend("commands")
  /\ stage' = first /\ outcome' = "" /\ verdict' = NoVerdict
  /\ Forget /\ seen' = <<>> /\ doubt' = "none"
  /\ UNCHANGED <<c, host, recorded>>

StartInstall == Start("gate")

StartRemoval == recorded /\ Start("removal")

Ask(fault) ==
  /\ stage \in Asking /\ Len(answers) < Questions
  /\ IF answers = <<>> THEN Possible(fault) ELSE fault = doubt
  /\ IF answers = <<>> /\ fault # "none" THEN Spend("faults")
     ELSE UNCHANGED left
  /\ doubt' = fault
  /\ \E answer \in Answer(host, Len(answers) + 1, fault) :
       answers' = Append(answers, answer)
  /\ seen' = IF answers = <<>> THEN <<host>> ELSE Append(seen, host)
  /\ UNCHANGED <<c, host, stage, verdict, recorded, outcome>>

Answered == Len(answers) = Questions

\* The gate: install, nothing to do, leave it to a replacement, or refuse.
GateAlreadyInstalled ==
  /\ stage = "gate" /\ Answered
  /\ verdict' = Verdict
  /\ LET transition == TransitionForVerification(Verdict)
     IN CASE transition = "none" ->
               End("already") /\ recorded' = TRUE
          [] transition = "install" ->
               stage' = "install" /\ UNCHANGED <<outcome, recorded>>
          [] transition = "upgrade" ->
               End("drifted") /\ UNCHANGED recorded
          [] transition = "refuse" ->
               End("refused") /\ UNCHANGED recorded
  /\ Forget
  /\ UNCHANGED <<c, host, doubt, seen, left>>

\* asdf installs by the first back end there is, go into GOBIN.
Slot(cmd) ==
  CASE c.kind = "go"     -> "gobin"
    [] c.kind = "asdf"   -> IF c.src = "" THEN "asdf" ELSE "mise"
    [] c.kind = "sdkman" -> "current"
    [] OTHER             -> cmd.slot

InstallResolved ==
  /\ stage = "install"
  /\ LET cmd  == InstallCommand(Asked, Plan)
         done == Installed([cmd EXCEPT !.slot = Slot(cmd)])
         next == IF LooksUpInstall(c.kind) THEN "confirm" ELSE "verify"
     IN \/ /\ host' = done /\ stage' = next
           /\ UNCHANGED <<outcome, left>>
        \/ /\ host' \in {host, done} /\ Spend("faults")
           /\ \/ stage' = next /\ UNCHANGED outcome
              \/ End("failed")
  /\ Forget /\ seen' = <<>> /\ verdict' = NoVerdict
  /\ UNCHANGED <<c, doubt, recorded>>

\* A native manager has to list what it says it has installed.
ConfirmNativeInstall ==
  /\ stage = "confirm" /\ Answered
  /\ IF VerifyNativeInstall(c, A, B)
     THEN stage' = "verify" /\ UNCHANGED outcome
     ELSE End("failed")
  /\ Forget
  /\ UNCHANGED <<c, host, doubt, seen, verdict, recorded, left>>

\* An installation counts when the desired state is observed.
VerifyInstalled ==
  /\ stage = "verify" /\ Answered
  /\ verdict' = Verdict
  /\ IF verdict'.state = "satisfied"
     THEN End("installed") /\ recorded' = TRUE
     ELSE End("failed") /\ UNCHANGED recorded
  /\ Forget
  /\ UNCHANGED <<c, host, doubt, seen, left>>

DecideRemoval ==
  /\ stage = "removal" /\ Answered
  /\ verdict' = Verdict
  /\ CASE Verdict.state \in {"satisfied", "drifted"} /\ ~Removable(c.kind) ->
            End("manual") /\ UNCHANGED recorded
       [] Verdict.state \in {"satisfied", "drifted"} /\ Removable(c.kind) ->
            stage' = "uninstall" /\ UNCHANGED <<outcome, recorded>>
       [] Verdict.state = "absent" ->
            End("released") /\ recorded' = FALSE
       [] OTHER -> End("kept") /\ UNCHANGED recorded
  /\ Forget
  /\ UNCHANGED <<c, host, doubt, seen, left>>

\* nix, asdf and go look again for what they are to remove.
RemovalCommand ==
  IF c.kind \in OwnObserve
  THEN [RemoveCommand(Asked) EXCEPT
          !.slot = RemovedFrom(c, Honest(host, 1), Honest(host, Questions))]
  ELSE RemoveCommand(Asked)

RemoveResolved ==
  /\ stage = "uninstall"
  /\ LET gone    == Removed(RemovalCommand)
         refused == \/ gone = {} /\ ~GoneIsRemoved(c.kind)
                    \/ /\ c.kind \in OwnObserve
                       /\ ToolchainRefuses(c, Honest(host, 1), Honest(host, Questions))
     IN \/ /\ ~refused
           /\ host' = host \ gone /\ recorded' = FALSE /\ End("removed")
           /\ UNCHANGED left
        \/ /\ IF refused THEN UNCHANGED left ELSE Spend("faults")
           /\ End("kept") /\ UNCHANGED <<host, recorded>>
  /\ UNCHANGED <<c, doubt, answers, seen, verdict>>

\* Somebody else installs or removes a package.
Outsider ==
  /\ Spend("outsiders")
  /\ \/ \E e \in Universe(c) \ host : host' = host \cup {e}
     \/ \E e \in host : host' = host \ {e}
  /\ Cardinality(host') <= MaxEntries /\ WellPlaced(host')
  /\ UNCHANGED <<c, stage, doubt, answers, seen, verdict, recorded, outcome>>

Next ==
  \/ StartInstall \/ StartRemoval
  \/ \E fault \in Faults \cup {"none"} : Ask(fault)
  \/ GateAlreadyInstalled \/ InstallResolved \/ ConfirmNativeInstall
  \/ VerifyInstalled \/ DecideRemoval \/ RemoveResolved
  \/ Outsider

Spec == Init /\ [][Next]_vars

-----------------------------------------------------------------------------
(* What the entries on the host amount to, whatever anybody was told.      *)

\* The package is there, all of it, where the candidate wants it.  Of cargo
\* only the crates of its default registry are ever recognised, and sdkman
\* looks for the version asked for and for the one that is current.
Serves(e) ==
  /\ e.pkg = c.pkg /\ e.form = "whole"
  /\ c.kind \in RegistryKinds => e.name = c.alias
  /\ c.kind \in {"pipx", "conda", "cargo"} => e.slot = Confined(c)
  /\ c.kind = "cargo" => e.src = ""
  /\ c.kind = "go" => e.slot = "gobin"
  /\ c.kind \in {"scoop", "flatpak"} => c.slot \in {"", e.slot}
  /\ c.kind = "sdkman" => e.slot = "current" \/ e.ver = c.ver
  /\ c.kind \in {"nix", "asdf"} => e.src = c.src
  /\ c.kind \in {"winget", "flatpak"} => c.src \in {"", e.src}

\* To cargo, to go and to composer a version is the same with and without "v".
SameVersion(wanted, ver) ==
  \/ wanted \in {"", ver}
  \/ /\ c.kind \in {"cargo", "go", "composer"}
     /\ Bare(ver) \in {wanted, Bare(wanted)}

\* It is what the plan resolved to, as far as its kind verifies it.
Meets(e) ==
  LET demanded == Project(Verifies(c.kind), Plan)
  IN /\ Serves(e)
     /\ SameVersion(Value(demanded, "version"), e.ver)
     /\ Value(demanded, "revision") \in {"", e.build}

\* Kinds whose adapter tells a failed query from a missing package: the
\* others read every failure as absence.
Thorough ==
  \/ c.ver # "" /\ c.kind \in ExactVersionKinds
  \/ c.kind \in {"nix", "conda", "go", "sdkman", "port", "scoop", "choco"}
  \/ c.kind \in NativeKinds /\ HasDatabase(c.kind)

\* A listing read line by line does not show that its end is missing, and one
\* on Windows not even that it is a listing.
Believable ==
  \/ doubt = "none"
  \/ /\ Thorough
     /\ ~(doubt = "cut" /\ c.kind \in {"uv", "gem", "choco"})
     /\ ~(doubt = "garbled" /\ c.kind \in {"scoop", "choco"})

\* Requests satisfied on an answer that proves nothing: unversioned ones of
\* these kinds, and scoop's of the scope of a user, whose query reaches the
\* global packages as well.
Lenient ==
  \/ c.ver = "" /\ c.kind \in {"pipx", "yarn", "go"}
  \/ c.kind = "scoop" /\ c.slot \notin {"", "global"}

\* A flatpak asked for from one remote but in neither scope: the command that
\* removes it names no remote, and reaches both scopes.
OfAnyRemote == c.kind = "flatpak" /\ c.src # "" /\ c.slot = ""

\* A program of go that is looked for under another name than go gives it: its
\* import path ends in a major version, or goes on after what follows /cmd/.
Misnamed(k) == k.kind = "go" /\ GoBinaryName(k.path) # GoInstallName(k.path)

\* Candidates whose installation the code can confirm: not a crate of another
\* registry, whose line is never recognised; not a version that composer is
\* asked for with a "v", and shows without; not a misnamed program.
Recognisable(k) ==
  /\ k.kind = "cargo" => k.src = ""
  /\ k.kind = "composer" => Bare(k.ver) = k.ver
  /\ ~Misnamed(k)

\* What a package of another architecture has left behind makes the database
\* of dpkg ambiguous.
Neat(k, e) ==
  k.kind \in NativeKinds /\ HasDatabase(k.kind) /\ e.form = "leftover" =>
    e.slot = Confined(k)

Confirmable == Recognisable(c) /\ \A e \in host : Neat(c, e)

\* A target is taken for absent, and installed or dropped from the state,
\* only if no entry served throughout the observation.
AbsenceProven ==
  verdict.state = "absent" /\ Believable /\ ~Misnamed(c) =>
    \A e \in seen[1] : Serves(e) => \E i \in DOMAIN seen : e \notin seen[i]

\* A tool is reported as installed only if an entry met the whole plan while
\* the last observation was made.
ReportedIsMet ==
  outcome \in {"already", "installed"} /\ ~Lenient =>
    \E i \in DOMAIN seen : \E e \in seen[i] : Meets(e)

\* With honest answers, working commands and nobody else about, an
\* installation that begins is confirmed by the observation that follows, unless
\* the candidate or the host is one of those the code cannot confirm.
HonestInstallSucceeds ==
  left.faults = MaxFaults /\ left.outsiders = MaxOutsiders /\ Confirmable =>
    outcome # "failed"

\* A removal takes entries that serve the candidate, in its own slot, and the
\* pinned version where versions lie side by side, unless the host is no
\* longer what the removal was decided on.
TakesOnlyItsOwn ==
  [][stage = "uninstall" /\ stage' # stage /\ ~Lenient /\ ~OfAnyRemote
       /\ (\A i \in DOMAIN seen : seen[i] = host) =>
       \A e \in host \ host' :
         /\ Serves(e)
         /\ c.kind \in SideBySide => c.ver \in {"", e.ver}]_vars

=============================================================================
