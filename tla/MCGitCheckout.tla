---------------------------- MODULE MCGitCheckout ----------------------------
(***************************************************************************)
(* GitCheckout for TLC: every mode with every kind of reference, with and  *)
(* without a lock, and binaries that are, and are not, what is installed.  *)
(* How a candidate comes to be the one tried is ToolDeclaration's and      *)
(* MethodSelection's, whose facts are evaluated on the way.                *)
(***************************************************************************)
EXTENDS GitCheckout, SelectionFacts, DeclarationFacts

Of(mode, ref) == [mode |-> mode, shared |-> FALSE, ref |-> ref, rev |-> "c1",
                  locked |-> "", binary |-> "tool", onpath |-> TRUE]

Shared(mode, ref) == [Of(mode, ref) EXCEPT !.shared = TRUE]

References == {"branch", "annotated", "rev", "latest", "head"}

AllCandidates ==
  {Of(mode, ref) : mode \in {"root", "managed"}, ref \in References}
    \cup {Shared("part", ref) : ref \in References}
    \cup {Of("part", "tag"), Of("build", "branch"), Shared("root", "branch")}
    \cup {[Of("root", "branch") EXCEPT !.locked = "c1"],
          [Shared("part", "branch") EXCEPT !.locked = "c1"],
          [Of("part", "branch") EXCEPT !.onpath = FALSE],
          [Shared("part", "tag") EXCEPT !.binary = "other"],
          [Shared("root", "tag") EXCEPT !.binary = ""],
          [Shared("root", "rev") EXCEPT !.binary = "other"]}

=============================================================================
