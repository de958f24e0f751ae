--------------------------- MODULE ToolDeclaration ---------------------------
(***************************************************************************)
(* From what a schema file says of a tool to its candidates: what a layer  *)
(* may say (src/internal/config/strict.go), how buckets, shorthands and    *)
(* the names of native managers become candidates (parse.go), and what is  *)
(* checked of the selectors that order them.                               *)
(*                                                                         *)
(* A declaration maps keys to values; a value is a package's name, true,   *)
(* false or a table, whose fields are a function.  A key is a kind, a      *)
(* native manager, a bucket or, in a table that names its kind, a label.   *)
(***************************************************************************)
EXTENDS MethodSelection

CONSTANTS
  Managers,    \* the native managers of all systems
  Port,        \* the one whose name in a declaration is a kind of its own
  Contracts,   \* what each kind that is not a manager allows in a declaration
  Implicit     \* the condition of the keys that exist on one system only

-----------------------------------------------------------------------------
(* What may be declared.                                                   *)

Known == DOMAIN Contracts \cup Managers

Lookup(kind) == Contracts[IF kind \in DOMAIN Contracts THEN kind ELSE Native]

\* Fields of a table that are the candidate's, whatever its kind.
Hoisted == {"when", "arch_map", "os_map", "requires", "pre_install", "post_install",
            "sources", "distributions", "secret_ref"}

ValidCondition(c) ==
  /\ ~IsZero(c)
  /\ c.min # 0 /\ c.max # 0 => c.min <= c.max

\* The other distributions are not looked at: that they exclude each other
\* is found out on a host.
ValidDistributions(distributions, base, contract) ==
  /\ distributions # <<>>
  /\ \A i \in DOMAIN distributions : LET d == distributions[i] IN
       /\ ValidCondition(d.when)
       /\ DOMAIN d.overrides \subseteq contract.distributable
       /\ IntegrityErrors(d.overrides @@ base) = {}

ValidTable(fields, known, contract) ==
  LET keys == DOMAIN fields IN
  /\ "when" \in keys => ValidCondition(fields["when"])
  /\ "distributions" \in keys =>
       known /\ ValidDistributions(fields["distributions"], fields, contract)
  /\ known =>
       /\ keys \ (Hoisted \cup {"kind"}) \subseteq contract.fields
       /\ contract.required \subseteq keys
       /\ \A group \in contract.exclusive : Cardinality(group \cap keys) <= 1
       /\ \A key \in keys \cap DOMAIN contract.requires : contract.requires[key] \subseteq keys
       /\ contract.artifact =>
            /\ ("url" \in keys) # ("repo" \in keys)
            /\ ("repo" \in keys) = ("asset" \in keys)
            /\ IntegrityErrors(fields) = {}

ValidMethodValue(key, value) ==
  CASE value.form = "name"  -> key \in Known => Lookup(key).string
    [] value.form = "true"  -> key \in Known => Lookup(key).bare
    [] value.form = "false" -> FALSE
    [] value.form = "table" ->
         LET named == "kind" \in DOMAIN value.fields
             kind  == IF named THEN value.fields["kind"] ELSE key
         IN /\ named => key \notin Known \cup DOMAIN Buckets
            /\ ValidTable(value.fields, kind \in Known,
                          IF kind \in Known THEN Lookup(kind) ELSE <<>>)

ValidTool(tool) ==
  /\ DOMAIN tool.gates \subseteq Range(tool.requires)
  /\ \A d \in DOMAIN tool.gates : ValidCondition(tool.gates[d])
  /\ \A key \in DOMAIN tool.declares : ValidMethodValue(key, tool.declares[key])

-----------------------------------------------------------------------------
(* Candidates.                                                             *)

\* A preference of the project is a prefix of the engine's order.
DefaultOrder(preferred, engine) == MergeMethodOrder(preferred, engine)

\* A bucket stands for its kinds, where they are not declared themselves.
ExpandDeclaredBuckets(declares) ==
  LET expanded == {k \in DOMAIN declares \cap DOMAIN Buckets : declares[k].form # "false"}
      kinds    == UNION {Range(Buckets[k]) : k \in expanded} \ DOMAIN declares
  IN [key \in (DOMAIN declares \ expanded) \cup kinds |->
        IF key \in DOMAIN declares THEN declares[key]
        ELSE declares[CHOOSE k \in expanded : Contains(Buckets[k], key)]]

Only(fields, keys) == [key \in DOMAIN fields \cap keys |-> fields[key]]

Candidate(kind, label, declared, config) ==
  [kind |-> kind, label |-> label, pin |-> 0, declared |-> declared, config |-> config]

\* The implicit condition goes with the key, which for a candidate that names
\* its kind is the label.
ParseMethod(key, value) ==
  LET given == IF value.form = "table" THEN value.fields
               ELSE "pkg" :> (IF value.form = "name" THEN value.name ELSE 0)
      named == "kind" \in DOMAIN given
      implicit == IF key \in DOMAIN Implicit THEN "when" :> Implicit[key] ELSE <<>>
  IN Candidate(IF named THEN given["kind"] ELSE key, IF named THEN key ELSE 0,
               Only(given, Hoisted) @@ implicit,
               Only(given, DOMAIN given \ (Hoisted \cup {"kind"})))

\* The native candidate is what the tool says of it and of the managers; if
\* it says nothing of them, it is inferred from any shorthand.
BuildMethods(name, declares) ==
  LET keys      == DOMAIN declares
      block     == {Native} \cap {k \in keys : declares[k].form \in {"table", "name"}}
      overrides == {k \in (keys \ {Native}) \cap (Managers \ {Port}) : declares[k].form = "name"}
      rest      == keys \ (block \cup overrides)
      shorthand == \E k \in rest : declares[k].form # "table"
      given     == IF block = {} THEN <<>>
                   ELSE IF declares[Native].form = "name" THEN "pkg" :> declares[Native].name
                   ELSE declares[Native].fields
      base      == (IF overrides = {} THEN <<>>
                    ELSE "pkg_overrides" :> [k \in overrides |-> declares[k].name])
                   @@ ("pkg" :> name)
      native    == Candidate(Native, 0,
                     ("inferred" :> (block = {} /\ overrides = {})) @@ Only(given, Hoisted),
                     Only(given, DOMAIN given \ Hoisted) @@ base)
      order     == SetToSortSeq(rest, <)
  IN (IF block = {} /\ overrides = {} /\ ~shorthand THEN <<>> ELSE <<native>>)
       \o [i \in DOMAIN order |-> ParseMethod(order[i], declares[order[i]])]

\* A tool that is only listed has one candidate, of the default manager.
SimpleTool(name, manager) ==
  <<Candidate(manager, 0, "inferred" :> TRUE, "pkg" :> name)>>

NormalizeTool(name, declares, defaults) ==
  SelectInOrder(BuildMethods(name, ExpandDeclaredBuckets(declares)), defaults, FALSE)

-----------------------------------------------------------------------------
(* What is checked of the candidates.                                      *)

\* A manager's name selects the native candidate.
SelectorMatchesDeclaredMethod(selector, methods) ==
  \E s \in IF selector \in DOMAIN Buckets THEN Range(Buckets[selector]) ELSE {selector} :
    LET kind == IF s \in Managers \ {Port} THEN Native ELSE s
    IN \E i \in DOMAIN methods : MethodMatchesSelector(methods[i], kind)

ValidateTool(tool) ==
  /\ \A i \in DOMAIN tool.methods : tool.methods[i].kind \in Known
  /\ \A s \in Range(tool.prefer) \cup Range(tool.only) :
       SelectorMatchesDeclaredMethod(s, tool.methods)

=============================================================================
