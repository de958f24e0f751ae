--------------------------- MODULE PackageManagers ---------------------------
(***************************************************************************)
(* What the package-manager adapters of src/internal/ecosystem/base.go     *)
(* read out of a manager's answer, and which package they ask it to        *)
(* install or to remove.                                                   *)
(*                                                                         *)
(* A candidate names a tool, the package that provides it (pkg), the name  *)
(* a registry's manager lists that package under (alias), the elements of  *)
(* the import path that go installs (path, without an @version), and       *)
(* optionally a version, a slot (scope, install root, environment, back    *)
(* end), a source, a build and the version its lock pins; "" is a field    *)
(* the manifest leaves out.  An inventory is a set of entries with a name, *)
(* those fields and a form, which says whether all of the package is there.*)
(*                                                                         *)
(* An answer is what the runner returns for one query: whether the binary  *)
(* is on PATH (found), whether the command ran at all, whether its output  *)
(* is whole, its exit status, whether it printed a listing ("rows"), said  *)
(* that the package is missing, or printed something else ("other"), and   *)
(* the entries listed.                                                     *)
(***************************************************************************)
EXTENDS Verification, Naturals, Sequences

CONSTANT Bare(_)   \* a version without a leading "v"

RegistryKinds == {"npm", "pnpm", "yarn", "bun", "yarn-berry"}

ExactVersionKinds ==
  {"pip", "pipx", "uv", "npm", "pnpm", "yarn", "bun", "gem", "composer"}

\* The fields each kind's contract promises to verify.
Verifies(kind) ==
  {"package"}
    \cup IF kind \in ExactVersionKinds
                     \cup {"cargo", "go", "sdkman", "conda", "asdf", "winget",
                           "scoop", "choco"}
         THEN {"version"} ELSE {}
    \cup IF kind \in {"pipx", "flatpak", "scoop"} THEN {"scope"} ELSE {}
    \cup IF kind \in {"cargo", "conda"} THEN {"environment"} ELSE {}
    \cup IF kind = "conda" THEN {"revision"} ELSE {}
    \cup IF kind \in {"nix", "winget", "asdf"} THEN {"source"} ELSE {}

\* The fields of a record that say something.
Stated(r) == [f \in {g \in DOMAIN r : r[g] # ""} |-> r[f]]

Observed(presence, known) ==
  [presence |-> presence, known |-> known, detail |-> FALSE, err |-> FALSE]

NotThere(c) == Observed("absent", Stated([package |-> c.pkg]))

Unclear == [Observed("unknown", Nothing) EXCEPT !.detail = TRUE]

ProbeFailed == [Observed("broken", Nothing) EXCEPT !.detail = TRUE, !.err = TRUE]

-----------------------------------------------------------------------------
(* Versions read out of an answer: a version, a proof that the package is *)
(* absent, an answer that proves neither, or a failure.                    *)

Report(said, ver) == [said |-> said, ver |-> ver]

Gone   == Report("absent", "")
Unsure == Report("unsure", "")
Failed == Report("failed", "")

\* Where an element of an import path follows /cmd/.
AfterCmd(path) == {i \in 3..Len(path) : path[i - 1] = "cmd"}

\* The name a program built by go is looked for under: the element after the last
\* /cmd/, else the last one.
GoBinaryName(path) ==
  LET named == AfterCmd(path)
  IN IF named = {} THEN path[Len(path)]
     ELSE path[CHOOSE i \in named : \A j \in named : j <= i]

\* A package alias is listed under the alias, not under what it stands for.
InventoryName(c) ==
  CASE c.kind \in RegistryKinds -> c.alias
    [] c.kind = "go"            -> GoBinaryName(c.path)
    [] OTHER                    -> c.pkg

Exited0(a) == a.ran /\ a.exit = 0

Rows(c, a) == {r \in a.rows : r.name = InventoryName(c)}

VersionOf(r) == IF r.ver = "" THEN Unsure ELSE Report("version", r.ver)

\* The version a listing gives: of the requested one if it is listed, else of
\* the first.
Pick(c, rows) ==
  IF \E r \in rows : r.ver = c.ver
  THEN VersionOf(CHOOSE r \in rows : r.ver = c.ver)
  ELSE VersionOf(CHOOSE r \in rows : TRUE)

ListedVersion(c, a) ==
  LET rows == Rows(c, a)
  IN IF rows = {} THEN Gone ELSE VersionOf(CHOOSE r \in rows : TRUE)

\* pip and composer ask for one package and are told that it is missing; a
\* version is taken as pip spells it, and from composer without its "v".
ShownVersion(c, a) ==
  LET listed == ListedVersion(c, a)
  IN IF a.ran /\ a.exit # 0 /\ a.said = "missing" THEN Gone
     ELSE IF ~Exited0(a) \/ listed.said # "version" THEN Failed
     ELSE IF c.kind = "composer" THEN Report("version", Bare(listed.ver))
     ELSE listed

\* A virtual environment named after the package proves the package only when
\* it holds it; one of another name may hold it too.
PipxVersion(c, a) ==
  LET named == Rows(c, a)
      other == {r \in a.rows : r.pkg = c.pkg}
  IN IF ~Exited0(a) \/ a.said # "rows" THEN Failed
     ELSE IF \E r \in named : r.pkg # c.pkg THEN Unsure
     ELSE IF named # {} THEN VersionOf(CHOOSE r \in named : TRUE)
     ELSE IF other = {} THEN Gone
     ELSE IF \E r, s \in other : r.ver # s.ver THEN Unsure
     ELSE VersionOf(CHOOSE r \in other : TRUE)

\* A listing of uv is all well-formed or proves nothing.
UVVersion(c, a) ==
  IF ~Exited0(a) THEN Failed
  ELSE IF a.said = "missing" THEN Gone
  ELSE IF a.said # "rows" \/ a.rows = {} \/ \E r \in a.rows : r.ver = ""
         THEN Unsure
  ELSE ListedVersion(c, a)

GemVersion(c, a) ==
  IF ~Exited0(a) THEN Failed
  ELSE IF Rows(c, a) # {} THEN Pick(c, Rows(c, a))
  ELSE IF a.said # "rows" THEN Unsure
  ELSE Gone

\* bun and yarn print a framed listing; anything else proves nothing.
FramedVersion(c, a) ==
  IF ~Exited0(a) THEN Failed
  ELSE IF a.said # "rows" THEN Unsure
  ELSE ListedVersion(c, a)

PNPMVersion(c, a) ==
  IF ~Exited0(a) \/ a.said # "rows" THEN Failed ELSE ListedVersion(c, a)

\* npm may exit non-zero over an unrelated problem, or over the missing one.
NPMVersion(c, a) ==
  IF ~a.ran \/ a.said = "other" THEN Failed
  ELSE IF Rows(c, a) # {}
         THEN IF a.exit # 0 THEN Failed ELSE ListedVersion(c, a)
  ELSE IF a.said = "missing" THEN Gone
  ELSE IF a.exit # 0 THEN Failed
  ELSE Gone

InstalledVersion(c, a) ==
  CASE c.kind \in {"pip", "composer"} -> ShownVersion(c, a)
    [] c.kind = "pipx"                -> PipxVersion(c, a)
    [] c.kind = "uv"                  -> UVVersion(c, a)
    [] c.kind = "gem"                 -> GemVersion(c, a)
    [] c.kind \in {"bun", "yarn"}     -> FramedVersion(c, a)
    [] c.kind = "pnpm"                -> PNPMVersion(c, a)
    [] c.kind = "npm"                 -> NPMVersion(c, a)

-----------------------------------------------------------------------------
(* Presence without a version: a Boolean, so every failure reads as no.    *)

\* composer alone drops the "v" of the version asked for as well.
Wanted(c, report) ==
  \/ c.ver = ""
  \/ report.ver = IF c.kind = "composer" THEN Bare(c.ver) ELSE c.ver

\* The channel or remote asked for is the one installed from.
SameSource(c, a) == c.src = "" \/ \E r \in Rows(c, a) : r.src = c.src

Check(c, a) ==
  /\ a.found
  /\ LET report == InstalledVersion(c, a)
     IN CASE c.kind \in {"uv", "bun"} ->
               report.said = "version" /\ Wanted(c, report)
          [] c.kind \in {"pipx", "npm", "pnpm", "yarn", "composer"} ->
               report.said \in {"version", "unsure"} /\ Wanted(c, report)
          [] c.kind = "pip" -> Exited0(a) /\ Wanted(c, report)
          [] c.kind = "gem" ->
               Exited0(a) /\ \E r \in Rows(c, a) : c.ver \in {"", r.ver}
          [] c.kind \in {"flatpak", "snap"} -> Exited0(a) /\ SameSource(c, a)
          [] c.kind \in {"vscode", "mas"} -> Exited0(a) /\ Rows(c, a) # {}
          [] c.kind = "appman" -> Rows(c, a) # {}
          [] OTHER -> Exited0(a)

\* The scope of a candidate that states one is taken as observed.
ScopeOf(c) == IF c.kind \in {"pipx", "flatpak", "scoop"} THEN c.slot ELSE ""

BaseObserve(c, a) ==
  LET report == InstalledVersion(c, a)
      there(ver) == Observed("present",
                      Stated([package |-> c.pkg, version |-> ver,
                              scope |-> ScopeOf(c)]))
  IN IF c.ver # "" /\ c.kind \in ExactVersionKinds
     THEN CASE report.said = "version" -> there(report.ver)
            [] report.said = "absent"  -> NotThere(c)
            [] report.said = "unsure"  -> Unclear
            [] report.said = "failed"  -> ProbeFailed
     ELSE IF Check(c, a) THEN there(c.ver) ELSE NotThere(c)

-----------------------------------------------------------------------------
(* Plans and commands.                                                     *)

\* What the planner states of a candidate.
Intent(c) ==
  Stated([package     |-> c.pkg,
          version     |-> c.ver,
          scope       |-> ScopeOf(c),
          environment |-> IF c.kind \in {"cargo", "conda"} THEN c.slot ELSE "",
          source      |-> IF c.kind \in {"nix", "winget", "asdf", "conda"}
                          THEN c.src ELSE "",
          revision    |-> c.build])

LockedKinds == {"npm", "pnpm", "yarn"}

\* A lock and a request may not both name the version, and a build of conda
\* belongs to one.
Resolvable(c) ==
  /\ ~(c.kind \in LockedKinds /\ c.locked # "" /\ c.ver # "")
  /\ ~(c.kind = "conda" /\ c.build # "" /\ c.ver = "")

Value(identity, field) == IF field \in DOMAIN identity THEN identity[field] ELSE ""

ResolvePlan(c) ==
  IF c.kind \in LockedKinds /\ c.locked # ""
  THEN [f \in DOMAIN Intent(c) \cup {"version"} |->
          IF f = "version" THEN c.locked ELSE Intent(c)[f]]
  ELSE Intent(c)

\* MethodForResolvedTarget that asks about the request instead of the plan.
MethodAsRequested(c, identity) == c

\* The candidate the adapter is asked about: with the version and the
\* environment of the plan.
MethodForResolvedTarget(c, identity) ==
  [c EXCEPT
     !.ver = IF c.kind \in LockedKinds /\ Value(identity, "version") # ""
             THEN Value(identity, "version") ELSE c.ver,
     !.slot = IF c.kind \in {"cargo", "conda"}
              THEN Value(identity, "environment") ELSE c.slot]

\* The slot a query, an installation or a removal of this candidate is
\* confined to; "" is whichever the manager prefers.
Confined(c) ==
  CASE c.kind \in {"pipx", "scoop"} ->
         IF c.slot = "global" THEN "global" ELSE "user"
    [] c.kind = "conda" -> IF c.slot = "" THEN "base" ELSE c.slot
    [] OTHER            -> c.slot

\* RemovedVersion that forgets the pinned version.
AnyVersion(c) == ""

\* The version that a removal names; "" removes whatever is installed.
RemovedVersion(c) == IF c.kind \in {"gem", "winget", "asdf"} THEN c.ver ELSE ""

InstallCommand(c, identity) ==
  [name |-> InventoryName(c), pkg |-> Value(identity, "package"),
   ver |-> Value(identity, "version"), slot |-> Confined(c), src |-> c.src,
   build |-> Value(identity, "revision")]

RemoveCommand(c) ==
  [name |-> InventoryName(c), ver |-> RemovedVersion(c), slot |-> Confined(c)]

=============================================================================
