--------------------------- MODULE DeclarationFacts ---------------------------
(***************************************************************************)
(* What ToolDeclaration makes of what is written, against what its author  *)
(* may expect: assumptions that TLC evaluates before a run, for every      *)
(* declaration over a few keys.  1 and 2 are two kinds of one bucket, 6;   *)
(* 5 is a manager; 7 downloads; 4 is a label.                              *)
(***************************************************************************)
EXTENDS ToolDeclaration, Functions

FactBuckets == 6 :> <<2, 1>>

FactImplicit == 1 :> [oneOf |-> "os" :> {"x"}, min |-> 0, max |-> 0]

LOCAL Package ==
  [string |-> TRUE, bare |-> TRUE, artifact |-> FALSE, fields |-> {"pkg", "pkg_overrides"},
   required |-> {}, exclusive |-> {}, requires |-> <<>>, distributable |-> {}]

LOCAL Download ==
  [string |-> FALSE, bare |-> FALSE, artifact |-> TRUE,
   fields |-> {"url", "checksum", "checksum_url", "signature_url", "signing_key"},
   required |-> {}, exclusive |-> {}, requires |-> "signature_url" :> {"signing_key"},
   distributable |-> {"checksum", "checksum_url", "signature_url"}]

FactContracts == [k \in {1, 2, Native, 7} |-> IF k = 7 THEN Download ELSE Package]

LOCAL Name(n) == [form |-> "name", name |-> n]
LOCAL Bare == [form |-> "true"]
LOCAL Table(fields) == [form |-> "table", fields |-> fields]

LOCAL Url == "url" :> "u"

LOCAL Values(key) ==
  CASE key = 4 -> {Name(10), Table(Url), Table(Url @@ ("kind" :> 7)), Table("kind" :> 1)}
    [] OTHER   -> {Name(10), Bare, [form |-> "false"], Table("pkg" :> 11), Table("kind" :> 1)}

LOCAL Declarations(keys) ==
  {d \in UNION {[ks -> UNION {Values(k) : k \in ks}] : ks \in SUBSET keys} :
     \A k \in DOMAIN d : d[k] \in Values(k) /\ ValidMethodValue(k, d[k])}

LOCAL Built(d) == BuildMethods(20, ExpandDeclaredBuckets(d))

LOCAL Key(m) == IF m.label # 0 THEN m.label ELSE m.kind

LOCAL Keys(ms) == {Key(m) : m \in Range(ms)}

\* Every key that was written becomes a candidate or part of the native one;
\* tables alone bring no other candidate; a kind's own value is used instead of
\* its bucket's; and no two candidates have one identity, except that
\* "native = true" makes two (buildMethods, normalizeTools).
ASSUME DeclaredAsWritten ==
  \A d \in Declarations({1, Native, 4, 5, 6}) :
    LET ms     == Built(d)
        shorts == {k \in DOMAIN d : d[k].form # "table"}
    IN /\ Keys(ms) \ {Native, 5} =
            ((DOMAIN d \cup (IF 6 \in DOMAIN d THEN {1, 2} ELSE {})) \ {Native, 5, 6})
       /\ shorts = {} => (Native \in Keys(ms) <=> Native \in DOMAIN d)
       /\ 5 \in DOMAIN d => Keys(ms) \cap {Native, 5} # {}
       /\ 1 \in DOMAIN d => \A m \in Range(ms) : Key(m) = 1 => m = ParseMethod(1, d[1])
       /\ (Native \in DOMAIN d /\ d[Native] = Bare)
            \/ IsInjective([i \in DOMAIN ms |-> MethodKey(ms[i])])

\* A selector that passes the check finds a candidate, on every host whose
\* manager it names, if it names one (ValidateTool, EffectiveMethodOrder).
ASSUME CheckedSelectorsSelect ==
  \A d \in Declarations({1, Native, 4, 5}), s \in {1, 2, Native, 4, 5, 6}, host \in {0, 5, 8} :
    LET tool == [methods |-> Built(d), only |-> <<s>>, prefer |-> <<>>]
    IN ValidateTool(tool) /\ (s = 5 => host = 5) => SelectMethods(tool, <<>>, host) # <<>>

LOCAL Tables ==
  LET keys == {"checksum", "checksum_url", "signature_url", "signing_key"}
      overrides == UNION {[ks -> {"auto", "fixed"}] : ks \in SUBSET {"checksum", "checksum_url"}}
      bases == UNION {[ks -> {"auto", "fixed"}] : ks \in SUBSET keys}
  IN {t \in {Url @@ b @@ d : b \in bases,
               d \in {<<>>} \cup {"distributions" :> <<[when |-> FactImplicit[1], overrides |-> o]>> :
                                    o \in overrides}} :
        ValidMethodValue(7, Table(t))}

LOCAL Effective(m) ==
  m @@ [distributions |-> IF "distributions" \in DOMAIN m.declared
                          THEN m.declared["distributions"] ELSE <<>>]

\* A download's table that passes the check of its layer is coherent with each
\* of its distributions, but two layers that pass may be incoherent together:
\* hence the check of what was merged (ValidateEffectiveIntegrity).
ASSUME LayersAreCheckedTogether ==
  /\ \A t \in Tables : ValidateEffectiveIntegrity(Effective(ParseMethod(7, Table(t))))
  /\ \E t, u \in Tables : ~ValidateEffectiveIntegrity(Effective(
       MergeMethodConfigs(ParseMethod(7, Table(t)), ParseMethod(7, Table(u)))))

\* What a more specific layer does not say is taken from the other one, except
\* that a native candidate it only infers overrides the package that the other
\* one names, and the manager's override keeps its value under it
\* (buildMethods, mergeMethodConfigs).
ASSUME InferredOverridesExplicit ==
  LET lower == Built((Native :> Name(10)) @@ (5 :> Name(12)))
      upper == Built(2 :> Bare)
      merged == MergeMethodSlices(lower, upper)[1]
  IN /\ merged.kind = Native /\ merged.declared["inferred"]
     /\ merged.config["pkg"] = 20 /\ merged.config["pkg_overrides"] = (5 :> 12)

\* Only a key that is the kind's own name gets the condition that goes with the
\* kind: a candidate that names its kind is tried on every host (parseMethod).
ASSUME LabelsLoseTheCondition ==
  /\ "when" \in DOMAIN ParseMethod(1, Bare).declared
  /\ "when" \notin DOMAIN ParseMethod(4, Table("kind" :> 1)).declared

===============================================================================
