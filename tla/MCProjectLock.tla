--------------------------- MODULE MCProjectLock ----------------------------
(* A tool with a git, an http and an npm candidate, and a second one outside *)
(* the profile, under edits that change what is asked for.                  *)
EXTENDS ProjectLock, TLC

M(kind, label, sel, fixed, sum, srcs) ==
  [kind |-> kind, label |-> label, sel |-> sel, fixed |-> fixed, sum |-> sum, srcs |-> srcs]
ToolOf(methods, tagged, requires, depOnly) ==
  [methods |-> methods, tagged |-> tagged, requires |-> requires, depOnly |-> depOnly]

Git(sel) == M("git", None, sel, FALSE, None, None)
Npm(fixed) == M("npm", None, "pkg", fixed, None, None)
Http(sum) == M("http", None, "rel", FALSE, sum, None)
Sum == [of |-> "rel", n |-> 0]

\* a: the profile's tool; b: outside of it, and required in one of the schemas
MCSchemas ==
  { [a |-> ToolOf(<<Git("main"), Http(Sum)>>, TRUE, {}, FALSE),
     b |-> ToolOf(<<Http(Sum)>>, FALSE, {}, FALSE)],
    [a |-> ToolOf(<<Git("dev"), Http(AutoSum)>>, TRUE, {}, FALSE),
     b |-> ToolOf(<<M("git", "x", "main", FALSE, None, "tap")>>, FALSE, {}, FALSE)],
    [a |-> ToolOf(<<Npm(FALSE)>>, TRUE, {"b"}, FALSE),
     b |-> ToolOf(<<Npm(TRUE), M("native", None, "nat", FALSE, None, None)>>, FALSE, {}, TRUE)],
    [a |-> ToolOf(<<Npm(TRUE)>>, TRUE, {}, FALSE),
     b |-> ToolOf(<<>>, FALSE, {}, FALSE)] }
MCOutages == {{}, {"git"}}
ProcessSymmetry == Permutations(Processes)
=============================================================================
