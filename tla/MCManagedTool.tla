---------------------------- MODULE MCManagedTool ----------------------------
(***************************************************************************)
(* ManagedTool for TLC: candidates of every kind of adapter, and around    *)
(* each of them the entries that differ from what it asks for in one way.  *)
(***************************************************************************)
EXTENDS ManagedTool

AllFields ==
  {"package", "version", "scope", "environment", "source", "revision"}

\* "vv1" is the version v1 written with a "v" of its own.
WithoutV(ver) == IF ver = "vv1" THEN "v1" ELSE ver

Of(kind) == [kind |-> kind, tool |-> "t", pkg |-> "p", alias |-> "p",
             path |-> <<"h", "cmd", "b">>, ver |-> "", slot |-> "", src |-> "",
             build |-> "", locked |-> ""]

Versioned(kind) == [Of(kind) EXCEPT !.ver = "v1"]

Aliased(k) == [k EXCEPT !.pkg = "a@npm:p", !.alias = "a"]

AllCandidates ==
  {Of(kind) : kind \in {"pip", "pipx", "uv", "gem", "vscode", "cask",
                        "asdf", "aur", "pacstall", "steamcmd", "sdkman", "apt",
                        "dnf", "port", "pacman"}}
    \cup {Versioned(kind) : kind \in {"pip", "uv", "gem", "composer", "pnpm",
                                      "yarn", "bun", "asdf", "sdkman",
                                      "cargo", "winget", "scoop", "choco"}}
    \cup {[Versioned("scoop") EXCEPT !.slot = "global"],
          [Versioned("scoop") EXCEPT !.slot = "user"],
          [Versioned("pipx") EXCEPT !.slot = "global"],
          [Of("go") EXCEPT !.path = <<"h", "cmd", "b", "sub">>],
          [Versioned("go") EXCEPT !.path = <<"h", "x", "vN">>, !.tool = "x"],
          [Of("go") EXCEPT !.path = <<"h", "b">>],
          [Versioned("go") EXCEPT !.ver = "vv1"],
          [Versioned("cargo") EXCEPT !.ver = "vv1"],
          [Versioned("composer") EXCEPT !.ver = "vv1"],
          Aliased(Versioned("npm")),
          [Aliased(Of("npm")) EXCEPT !.locked = "v1"],
          [Versioned("conda") EXCEPT !.slot = "env", !.build = "b1",
                                     !.src = "chan"],
          [Of("nix") EXCEPT !.src = "flake"],
          [Versioned("asdf") EXCEPT !.src = "aqua"],
          [Versioned("winget") EXCEPT !.src = "store"],
          [Of("flatpak") EXCEPT !.slot = "user", !.src = "hub"],
          [Of("flatpak") EXCEPT !.src = "hub"]}

\* The entry the candidate asks for.
Own(k) ==
  [name |-> IF k.kind = "go" THEN GoInstallName(k.path) ELSE InventoryName(k),
   pkg |-> k.pkg, ver |-> "v1", src |-> k.src, build |-> "b1",
   form |-> "whole",
   slot |-> CASE k.kind = "go" -> "gobin"
              [] k.kind = "sdkman" -> "current"
              [] k.kind = "asdf" -> IF k.src = "" THEN "asdf" ELSE "mise"
              [] OTHER -> Confined(k)]

Around(k) ==
  LET own == Own(k)
      if(kinds, e) == IF k.kind \in kinds THEN {e} ELSE {}
  IN {own, [own EXCEPT !.ver = "v9"]}
       \cup if({"pipx", "npm", "nix"}, [own EXCEPT !.name = "q"])
       \cup if({"pipx"}, [own EXCEPT !.pkg = "q"])
       \cup if({"go"}, [own EXCEPT !.pkg = "q", !.name = InventoryName(k)])
       \cup if({"go"}, [own EXCEPT !.slot = "path", !.name = k.tool])
       \cup if({"go"}, [own EXCEPT !.ver = ""])
       \cup if({"go", "cargo", "composer"}, [own EXCEPT !.ver = "vv1"])
       \cup if({"uv", "gem", "pnpm", "yarn", "bun", "vscode"},
               [own EXCEPT !.name = "q", !.pkg = "q"])
       \cup if({"pipx", "conda", "cargo", "flatpak"}, [own EXCEPT !.slot = "s"])
       \cup if({"scoop"}, [own EXCEPT !.slot = "global"])
       \cup if({"scoop", "choco"}, [own EXCEPT !.ver = ""])
       \cup if({"asdf"}, [own EXCEPT !.slot = "mise"])
       \cup if({"go"}, [own EXCEPT !.slot = "path", !.name = InventoryName(k)])
       \cup if({"sdkman"}, [own EXCEPT !.slot = ""])
       \cup if({"apt", "dnf"}, [own EXCEPT !.slot = "i386"])
       \cup if({"sdkman"}, [own EXCEPT !.slot = "", !.ver = "v9"])
       \cup if({"apt", "nix", "port", "cargo"},
               [own EXCEPT !.form = "partial"])
       \cup if({"apt"}, [own EXCEPT !.form = "leftover"])
       \cup if({"apt"}, [own EXCEPT !.form = "leftover", !.slot = "i386"])
       \cup if({"nix", "winget", "conda", "cargo", "flatpak"},
               [own EXCEPT !.src = "elsewhere"])

=============================================================================
