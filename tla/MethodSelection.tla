--------------------------- MODULE MethodSelection ---------------------------
(***************************************************************************)
(* How a tool's candidates come about before anything is tried: the layers *)
(* of configuration are merged (src/internal/config/manifest.go), hosts    *)
(* are matched (condition.go), a candidate is specialised for its host     *)
(* (specialize.go), and the candidates are put in the order in which they  *)
(* will be tried (method_order.go) and found again by what a state file    *)
(* recorded (candidate_lookup.go).                                         *)
(*                                                                         *)
(* Names of tools, kinds, labels and managers are numbers, in the order of *)
(* the strings they stand for; 0 is no label.  What a layer declares is a  *)
(* function, whose domain is what the code keeps as the presence of a      *)
(* field.                                                                  *)
(***************************************************************************)
EXTENDS Integers, Sequences, SequencesExt, FiniteSets, TLC

CONSTANTS
  Native,      \* the kind of the native package manager
  Buckets      \* what each bucket of kinds stands for

-----------------------------------------------------------------------------
(* Conditions.  oneOf maps a fact of the host to the values that satisfy   *)
(* it, min and max bound the version; {} and 0 ask for nothing.            *)

IsZero(condition) ==
  /\ \A fact \in DOMAIN condition.oneOf : condition.oneOf[fact] = {}
  /\ condition.min = 0 /\ condition.max = 0

\* A host has a set of spellings for each fact: one for most, its family and
\* the families that one belongs to, the prefixes of its C library's name.
\* Version 0 is one that could not be established.
Match(condition, host) ==
  /\ \A fact \in DOMAIN condition.oneOf :
       condition.oneOf[fact] # {} => condition.oneOf[fact] \cap host.facts[fact] # {}
  /\ condition.min # 0 => host.version # 0 /\ host.version >= condition.min
  /\ condition.max # 0 => host.version # 0 /\ host.version <= condition.max

\* Without facts only a condition that asks for nothing is met.
MatchWithoutFacts(condition) == IsZero(condition)

\* The dependencies that apply to a host, in their order.
EffectiveRequires(tool, host) ==
  SelectSeq(tool.requires, LAMBDA d :
    d \in DOMAIN tool.gates => Match(tool.gates[d], host))

\* The spelling of an architecture or system in a URL: the method's, the
\* project's, the built-in one, or its own.
ResolveAlias(raw, method, defaults, builtin) ==
  LET layers == method @@ defaults @@ builtin
  IN IF raw \in DOMAIN layers THEN layers[raw] ELSE raw

-----------------------------------------------------------------------------
(* Layers, from the least to the most specific.                            *)

MethodKey(m) == <<m.kind, m.label>>

\* Configuration keys whose values are merged key by key.
MapMerged == {"pkg_overrides"}

MergeConfig(lower, upper) ==
  [key \in DOMAIN lower \cup DOMAIN upper |->
     IF key \in MapMerged /\ key \in DOMAIN lower \cap DOMAIN upper
     THEN upper[key] @@ lower[key]
     ELSE (upper @@ lower)[key]]

\* Lock pins belong to the more specific candidate, declared fields replace
\* inherited ones whole; distributions are such a field.
MergeMethodConfigs(lower, upper) ==
  [kind |-> upper.kind, label |-> upper.label, pin |-> upper.pin,
   declared |-> upper.declared @@ lower.declared,
   config |-> MergeConfig(lower.config, upper.config)]

\* The candidates of the lower layer in their places, then the new ones.  The
\* last of a layer's candidates with one identity stands for all of them.
MergeMethodSlices(lower, upper) ==
  LET named(ms, key) == SelectSeq(ms, LAMBDA m : MethodKey(m) = key)
      keys(ms)  == [i \in DOMAIN ms |-> MethodKey(ms[i])]
      merged(key) ==
        LET low == named(lower, key)
            up  == named(upper, key)
        IN IF low = <<>> THEN FoldLeft(MergeMethodConfigs, Head(up), Tail(up))
           ELSE FoldLeft(MergeMethodConfigs, Last(low), up)
      new == FoldLeft(LAMBDA acc, key : IF Contains(acc, key) THEN acc ELSE Append(acc, key),
                      <<>>, SelectSeq(keys(upper), LAMBDA key : ~Contains(keys(lower), key)))
      order == keys(lower) \o new
  IN [i \in DOMAIN order |-> merged(order[i])]

UnionSlice(lower, upper) ==
  lower \o SelectSeq(upper, LAMBDA x : ~Contains(lower, x))

\* declared has the fields that are overwritten; tags are united, and the
\* guards of dependencies merged one by one.
MergeTools(lower, upper) ==
  [declared |-> upper.declared @@ lower.declared,
   gates    |-> upper.gates @@ lower.gates,
   tags     |-> UnionSlice(lower.tags, upper.tags),
   methods  |-> MergeMethodSlices(lower.methods, upper.methods)]

MergeInto(result, layer) ==
  [defaults |-> layer.defaults @@ result.defaults,
   tools |-> [name \in DOMAIN result.tools \cup DOMAIN layer.tools |->
                IF name \notin DOMAIN layer.tools THEN result.tools[name]
                ELSE IF name \notin DOMAIN result.tools THEN layer.tools[name]
                ELSE MergeTools(result.tools[name], layer.tools[name])]]

EngineDefaults == [defaults |-> <<>>, tools |-> <<>>]

MergeLayers(layers) == FoldLeft(MergeInto, EngineDefaults, layers)

\* A personal manifest introduces tools only if it says so.
FilterManifestTools(schema, manifest) ==
  IF manifest.allowNew THEN manifest
  ELSE [manifest EXCEPT !.tools =
          [name \in DOMAIN manifest.tools \cap DOMAIN schema.tools |-> manifest.tools[name]]]

-----------------------------------------------------------------------------
(* Distributions of a candidate.                                           *)

\* A checksum is "auto" when it has to be found out; only then may it have
\* another source, and be signed.
IntegrityErrors(config) ==
  LET auto    == "checksum" \in DOMAIN config /\ config["checksum"] = "auto"
      sidecar == {"checksum_url", "checksum_file_format", "signature_url", "signing_key"}
  IN {key \in sidecar \cap DOMAIN config : ~auto}
       \cup (IF "signing_key" \in DOMAIN config /\ "signature_url" \notin DOMAIN config
             THEN {"signing_key"} ELSE {})
       \cup (IF "signature_url" \in DOMAIN config /\ "signing_key" \notin DOMAIN config
             THEN {"signature_url"} ELSE {})

ApplyDistribution(m, d) ==
  [m EXCEPT !.config = d.overrides @@ m.config, !.distributions = <<>>]

\* The candidate for this host, or why there is none.
Specialized(m) == [err |-> "none", method |-> m]

Refused(err) == [err |-> err, method |-> <<>>]

SpecializeDistribution(m, host) ==
  LET matched == {i \in DOMAIN m.distributions : Match(m.distributions[i].when, host)}
      chosen  == ApplyDistribution(m, m.distributions[CHOOSE i \in matched : TRUE])
  IN IF m.distributions = <<>> THEN Specialized(m)
     ELSE IF ~Match(m.when, host) \/ matched = {} THEN Refused("ineligible")
     ELSE IF Cardinality(matched) > 1 THEN Refused("ambiguous")
     ELSE IF IntegrityErrors(chosen.config) # {} THEN Refused("invalid")
     ELSE Specialized(chosen)

\* What is checked of a merged candidate, for every host at once.
ValidateEffectiveIntegrity(m) ==
  /\ IntegrityErrors(m.config) = {}
  /\ \A i \in DOMAIN m.distributions :
       IntegrityErrors(m.distributions[i].overrides @@ m.config) = {}

-----------------------------------------------------------------------------
(* The order of the candidates.                                            *)

\* Buckets are spelled out, without the kinds that are there already.
ExpandBuckets(order) ==
  FoldLeft(LAMBDA expanded, kind :
             IF kind \in DOMAIN Buckets THEN UnionSlice(expanded, Buckets[kind])
             ELSE Append(expanded, kind),
           <<>>, order)

\* The host's manager (0 if it is not known) stands for the native method, and
\* then is the only one that does.
ExpandMethodOrder(order, manager) ==
  IF manager = 0 THEN order
  ELSE LET explicit == Contains(order, manager)
           kept     == SelectSeq(order, LAMBDA k : ~(k = Native /\ explicit))
       IN [i \in DOMAIN kept |-> IF kept[i] = manager THEN Native ELSE kept[i]]

MergeMethodOrder(preferred, defaults) ==
  preferred \o SelectSeq(defaults, LAMBDA k : ~Contains(preferred, k))

EffectiveMethodOrder(tool, defaults, manager) ==
  LET expand(order) == ExpandMethodOrder(ExpandBuckets(order), manager)
  IN IF tool.only # <<>> THEN expand(tool.only)
     ELSE IF tool.prefer # <<>>
       THEN MergeMethodOrder(expand(tool.prefer), expand(defaults))
     ELSE expand(defaults)

MethodName(m) == IF m.label # 0 THEN m.label ELSE m.kind

MethodMatchesSelector(m, selector) == selector \in {m.kind, m.label} \ {0}

\* Candidates in the order of their names; each selector takes those that it
\* matches, and what no selector has taken comes last, if it may come at all.
SelectInOrder(methods, order, exclusive) ==
  LET before(i, j) == \/ MethodName(methods[i]) < MethodName(methods[j])
                      \/ MethodName(methods[i]) = MethodName(methods[j]) /\ i < j
      take(acc, selector) ==
        LET fits(i) == MethodMatchesSelector(methods[i], selector)
        IN [out  |-> acc.out \o SelectSeq(acc.left, fits),
            left |-> SelectSeq(acc.left, LAMBDA i : ~fits(i))]
      picked == FoldLeft(take,
                  [out |-> <<>>, left |-> SetToSortSeq(DOMAIN methods, before)], order)
      all == IF exclusive THEN picked.out ELSE picked.out \o picked.left
  IN [i \in DOMAIN all |-> methods[all[i]]]

SelectMethods(tool, defaults, manager) ==
  SelectInOrder(tool.methods, EffectiveMethodOrder(tool, defaults, manager), tool.only # <<>>)

\* The candidate a record speaks of, as a set, which is empty unless there is
\* exactly one; a record without a label may mean any candidate of its kind.
FindMethodCandidate(tool, kind, label) ==
  LET found == {i \in DOMAIN tool.methods :
                  /\ tool.methods[i].kind = kind
                  /\ label # 0 => tool.methods[i].label = label}
  IN IF Cardinality(found) = 1 THEN {tool.methods[i] : i \in found} ELSE {}

=============================================================================
