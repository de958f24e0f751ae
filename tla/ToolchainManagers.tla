-------------------------- MODULE ToolchainManagers --------------------------
(***************************************************************************)
(* The adapters of src/internal/ecosystem that observe a tool in their own *)
(* way: cargo, go, nix, conda, sdkman, asdf with mise, the AUR helpers,    *)
(* pacstall, yarn berry and steamcmd; and scoop and Chocolatey on Windows  *)
(* (src/internal/exec/win.go, src/internal/scoopruntime).                  *)
(*                                                                         *)
(* Candidates, entries and answers are those of PackageManagers.  The slot *)
(* of an entry is where it lies: an install root or environment, "gobin"   *)
(* or "path" for go, "asdf" or "mise" for the back end that holds it, and  *)
(* "current" for the version sdkman has made the current one.              *)
(***************************************************************************)
EXTENDS PackageManagers, FiniteSets

OwnObserve ==
  {"cargo", "go", "nix", "conda", "sdkman", "asdf", "aur", "pacstall",
   "yarn-berry", "steamcmd", "scoop", "choco"}

Present(known) == Observed("present", Stated(known))

NothingKnown == Observed("absent", Nothing)

\* To cargo and go a leading "v" makes no difference: what is installed is told in
\* the spelling that was asked for.
Respelled(c, ver) ==
  IF "" \notin {ver, c.ver} /\ Bare(ver) = Bare(c.ver) THEN c.ver ELSE ver

\* cargo lists the crates of one install root; a crate without its selected
\* binaries counts as missing, and so does a listing that failed.  A line
\* that names a source besides the version is not recognised.
CargoObserve(c, a) ==
  LET rows == {r \in a.rows : r.pkg = c.pkg /\ r.src = "" /\ r.form = "whole"}
  IN IF ~Exited0(a) \/ rows = {} THEN NotThere(c)
     ELSE Present([package |-> c.pkg,
                   version |-> Respelled(c, (CHOOSE r \in rows : TRUE).ver),
                   environment |-> c.slot])

\* The file in GOBIN is looked at first, PATH only with a go on it; there a
\* program of the tool's own name will do, and GOBIN is taken to be on it.
GoPresent(c, a) ==
  \E r \in a.rows :
    \/ r.name = InventoryName(c) /\ (r.slot = "gobin" \/ a.found)
    \/ c.tool \notin {c.pkg, InventoryName(c)} /\ r.name = c.tool /\ a.found

\* The build information b of the file in GOBIN tells its package; without
\* any, or any version in it, the binary is there and its version is not known.
GoObserve(c, a, b) ==
  LET built == {r \in b.rows : r.name = InventoryName(c) /\ r.slot = "gobin"}
  IN IF ~GoPresent(c, a) THEN NotThere(c)
     ELSE IF ~Exited0(b) \/ ~b.whole \/ b.said # "rows" \/ built = {}
       THEN Present([package |-> c.pkg])
     ELSE IF \E r \in built : r.pkg # c.pkg THEN ProbeFailed
     ELSE Present([package |-> c.pkg,
                   version |-> Respelled(c, (CHOOSE r \in built : TRUE).ver)])

NixMatches(c, a) == {r \in a.rows : r.pkg = c.pkg /\ r.src = c.src}

\* Two active elements that match are nobody's to choose between.
NixObserve(c, a) ==
  LET active == {r \in NixMatches(c, a) : r.form = "whole"}
      target == Stated([package |-> c.pkg, source |-> c.src])
  IN IF ~a.found \/ ~Exited0(a) \/ ~a.whole \/ a.said # "rows"
       THEN ProbeFailed
     ELSE CASE active = {}             -> Observed("absent", target)
            [] Cardinality(active) = 1 -> Observed("present", target)
            [] OTHER -> [Observed("broken", target) EXCEPT !.detail = TRUE]

CondaObserve(c, a) ==
  LET rows == {r \in a.rows : r.pkg = c.pkg}
      row  == CHOOSE r \in rows : TRUE
  IN IF ~Exited0(a) \/ a.said # "rows" THEN ProbeFailed
     ELSE IF rows = {} THEN NotThere(c)
     ELSE Present([package |-> row.pkg, version |-> row.ver,
                   revision |-> row.build, source |-> row.src,
                   environment |-> c.slot])

\* sdkman is read off its directories: the requested version, else the one
\* that is current.
SdkmanObserve(c, a) ==
  LET versions == {r \in a.rows : r.pkg = c.pkg}
      current  == {r \in versions : r.slot = "current"}
      asked    == {r \in versions : r.ver = c.ver}
  IN IF c.ver # "" /\ asked # {}
       THEN Present([package |-> c.pkg, version |-> c.ver])
     ELSE IF current = {} THEN NothingKnown
     ELSE Present([package |-> c.pkg,
                   version |-> IF c.ver = "" THEN ""
                               ELSE (CHOOSE r \in current : TRUE).ver])

-----------------------------------------------------------------------------
(* asdf is asked first, mise second and only mise knows back ends; the     *)
(* first that lists a version is taken.                                    *)

Backends(c, a, b) ==
  {n \in {"asdf", "mise"} : /\ n = "asdf" => c.src = "" /\ a.found
                            /\ n = "mise" => b.found}

AsdfAnswer(backend, a, b) == IF backend = "asdf" THEN a ELSE b

\* The listing of mise is parsed, that of asdf is taken line by line.
AsdfAnswered(backend, a, b) ==
  LET answer == AsdfAnswer(backend, a, b)
  IN Exited0(answer) /\ (backend = "mise" => answer.said = "rows")

AsdfVersions(c, backend, a, b) ==
  {r \in AsdfAnswer(backend, a, b).rows : r.pkg = c.pkg /\ r.src = c.src}

\* The back end that lists a version, "" if none does.
Holding(c, a, b) ==
  LET holds(n) == /\ n \in Backends(c, a, b)
                  /\ AsdfAnswered(n, a, b)
                  /\ AsdfVersions(c, n, a, b) # {}
  IN IF holds("asdf") THEN "asdf" ELSE IF holds("mise") THEN "mise" ELSE ""

AsdfObserve(c, a, b) ==
  LET backend  == Holding(c, a, b)
      versions == {r.ver : r \in AsdfVersions(c, backend, a, b)}
      observed == IF c.ver \in versions THEN c.ver
                  ELSE CHOOSE v \in versions : TRUE
  IN IF backend # ""
       THEN Present([package |-> c.pkg, source |-> c.src,
                     version |-> IF c.ver = "" THEN "" ELSE observed])
     ELSE IF /\ Backends(c, a, b) # {}
             /\ \A n \in Backends(c, a, b) : ~AsdfAnswered(n, a, b)
       THEN ProbeFailed
     ELSE NothingKnown

\* The back end that installs, and that removes a pinned version.
FirstBackend(c, a, b) ==
  IF "asdf" \in Backends(c, a, b) THEN "asdf"
  ELSE IF "mise" \in Backends(c, a, b) THEN "mise" ELSE ""

-----------------------------------------------------------------------------
AurObserve(c, a) ==
  IF ~a.ran THEN ProbeFailed
  ELSE IF a.exit = 0 THEN Present([package |-> c.pkg])
  ELSE NotThere(c)

\* pacstall and yarn berry: a query that fails reads as absence.
QuietObserve(c, a) ==
  IF Exited0(a) THEN Present([package |-> c.pkg]) ELSE NotThere(c)

-----------------------------------------------------------------------------
(* The managers of Windows: a row without a version is a broken package,   *)
(* and an answer that lists nothing is absence.                            *)

\* known: what each row says of the installed package.
ListedOnWindows(c, a, known) ==
  LET rows == Rows(c, a)
      row  == CHOOSE r \in rows : TRUE
  IN IF rows = {} THEN NothingKnown
     ELSE IF row.ver = "" THEN [Observed("broken", Nothing) EXCEPT !.detail = TRUE]
     ELSE Present(known[row])

ScoopObserve(c, a) ==
  LET known == [row \in Rows(c, a) |->
                  [package |-> c.pkg, version |-> row.ver,
                   source |-> row.src, scope |-> c.slot]]
  IN IF ~Exited0(a) \/ ~a.whole THEN Unclear
     ELSE ListedOnWindows(c, a, known)

\* Chocolatey is asked again, in its older dialect, unless it lists a version.
ChocoObserve(c, a, b) ==
  LET listed    == Exited0(a) /\ \E r \in Rows(c, a) : r.ver # ""
      answer    == IF listed THEN a ELSE b
      known == [row \in Rows(c, answer) |->
                      [package |-> c.pkg, version |-> row.ver]]
  IN IF ~Exited0(answer) THEN Unclear ELSE ListedOnWindows(c, answer, known)

ToolchainObserve(c, a, b) ==
  CASE c.kind = "cargo"    -> CargoObserve(c, a)
    [] c.kind = "go"       -> GoObserve(c, a, b)
    [] c.kind = "nix"      -> NixObserve(c, a)
    [] c.kind = "conda"    -> CondaObserve(c, a)
    [] c.kind = "sdkman"   -> SdkmanObserve(c, a)
    [] c.kind = "asdf"     -> AsdfObserve(c, a, b)
    [] c.kind = "aur"      -> AurObserve(c, a)
    [] c.kind = "steamcmd" -> Unclear
    [] c.kind = "scoop"    -> ScoopObserve(c, a)
    [] c.kind = "choco"    -> ChocoObserve(c, a, b)
    [] OTHER               -> QuietObserve(c, a)

Removable(kind) ==
  kind \notin {"sdkman", "pacstall", "yarn-berry", "steamcmd", "appman"}

\* Removals that are refused before any command: a target that several
\* entries match, or none where one is needed.
ToolchainRefuses(c, a, b) ==
  \/ c.kind = "nix" /\ \E r, s \in NixMatches(c, a) : r # s
  \/ /\ c.kind = "asdf"
     /\ c.ver = "" => Cardinality(AsdfVersions(c, Holding(c, a, b), a, b)) # 1
     /\ c.ver # "" => FirstBackend(c, a, b) = ""

\* Where the entry to remove lies.
RemovedFrom(c, a, b) ==
  CASE c.kind = "go"   -> "gobin"
    [] c.kind = "asdf" -> IF c.ver = "" THEN Holding(c, a, b)
                          ELSE FirstBackend(c, a, b)
    [] OTHER           -> Confined(c)

\* go deletes a file and nix asks its profile: what is not there is removed.
GoneIsRemoved(kind) == kind \in {"go", "nix"}

=============================================================================
