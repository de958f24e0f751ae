---------------------------- MODULE SelectionFacts ----------------------------
(***************************************************************************)
(* What MethodSelection computes, against what it is for: assumptions that *)
(* TLC evaluates before a run, for every tool, layer and host of a small   *)
(* set.                                                                    *)
(***************************************************************************)
EXTENDS MethodSelection, Functions

LOCAL Unconditional == [oneOf |-> [f \in {"os"} |-> {}], min |-> 0, max |-> 0]

LOCAL Conditions ==
  [oneOf : [{"os"} -> SUBSET {"x", "y"}], min : 0..2, max : 0..2]

LOCAL Hosts == [facts : [{"os"} -> {{"x"}, {"y"}, {"x", "z"}, {}}], version : 0..2]

\* A condition that asks for more is met by fewer hosts, and one more value in
\* a list never excludes a host (Match: all fields, any value).
ASSUME MatchIsMonotone ==
  \A c \in Conditions, host \in Hosts : Match(c, host) =>
    /\ \A fact \in DOMAIN c.oneOf : Match([c EXCEPT !.oneOf[fact] = {}], host)
    /\ Match([c EXCEPT !.min = 0], host) /\ Match([c EXCEPT !.max = 0], host)
    /\ c.oneOf["os"] # {} =>
         \A v \in {"x", "y"} : Match([c EXCEPT !.oneOf["os"] = @ \cup {v}], host)
    /\ MatchWithoutFacts(c) => \A h \in Hosts : Match(c, h)

(***************************************************************************)
(* Layers.                                                                 *)
(***************************************************************************)

\* Candidates all of whose values tell that they are of layer v.
LOCAL Methods(v) ==
  {[kind |-> 1, label |-> label, pin |-> v, declared |-> d, config |-> k] :
     label \in {0, 2},
     d \in {[f \in g |-> v] : g \in SUBSET {"when", "distributions"}},
     k \in {[f \in g |-> IF f = "url" THEN v ELSE [x \in {v, 0} |-> v]] :
              g \in SUBSET {"url", "pkg_overrides"}}}

LOCAL Lists(v) ==
  {<<>>} \cup {<<m>> : m \in Methods(v)}
    \cup {<<m, [m EXCEPT !.label = 2 - m.label]>> : m \in Methods(v)}

\* Merging the layers one after the other is merging them in any grouping, a
\* layer merged with itself is itself, no two candidates get one identity, and
\* each field has the value of the last layer that declares it
\* (mergeMethodSlices, mergeMethodConfigs).
ASSUME LayersCompose ==
  \A a \in Lists(1), b \in Lists(2) :
    LET ab == MergeMethodSlices(a, b) IN
    /\ \A c \in {l \in Lists(3) : Len(l) < 2} :
         MergeMethodSlices(ab, c) = MergeMethodSlices(a, MergeMethodSlices(b, c))
    /\ MergeMethodSlices(a, a) = a
    /\ IsInjective([i \in DOMAIN ab |-> MethodKey(ab[i])])
    /\ {MethodKey(m) : m \in Range(ab)} = {MethodKey(m) : m \in Range(a) \cup Range(b)}
    /\ \A m \in Range(ab), u \in Range(b) : MethodKey(m) = MethodKey(u) =>
         /\ m.pin = u.pin
         /\ \A f \in DOMAIN u.declared : m.declared[f] = u.declared[f]
         /\ "url" \in DOMAIN u.config => m.config["url"] = u.config["url"]

\* A schema and a manifest give the tools of the schema, and others only if
\* the manifest may introduce them; no layer takes anything away
\* (FilterManifestTools, MergeLayers).
ASSUME ManifestsAddOnlyOnRequest ==
  \A mine, theirs \in SUBSET {1, 2}, allow \in BOOLEAN, tags \in {<<>>, <<1>>, <<2, 1>>} :
    LET tool(t) == [declared |-> <<>>, gates |-> <<>>, tags |-> t, methods |-> <<>>]
        layer(names, t) == [defaults |-> <<>>, tools |-> [n \in names |-> tool(t)],
                            allowNew |-> allow]
        schema == layer(mine, <<2>>)
        merged == MergeLayers(<<FilterManifestTools(schema, layer(theirs, tags)), schema>>)
    IN /\ DOMAIN merged.tools = mine \cup (IF allow THEN theirs ELSE {})
       /\ \A n \in DOMAIN merged.tools :
            Range(merged.tools[n].tags) =
              (IF n \in theirs THEN Range(tags) ELSE {}) \cup (IF n \in mine THEN {2} ELSE {})

(***************************************************************************)
(* Distributions.                                                          *)
(***************************************************************************)

LOCAL Configs(keys) ==
  UNION {[ks -> {"auto", "fixed"}] : ks \in SUBSET keys}

LOCAL Distributable ==
  {[kind |-> 1, label |-> 0, when |-> w, config |-> base,
    distributions |-> [i \in 1..n |->
      [when |-> [Unconditional EXCEPT !.oneOf["os"] = IF i = 1 THEN {"x"} ELSE second],
       overrides |-> IF i = 1 THEN over ELSE <<>>]]] :
     w \in {Unconditional, [Unconditional EXCEPT !.min = 1]}, n \in 0..2, second \in {{"y"}, {"z"}, {"x"}},
     base \in Configs({"checksum", "checksum_url", "signing_key"}),
     over \in Configs({"checksum", "signature_url"})}

\* A candidate that passed the check for all hosts is never found to be
\* incoherent on one; exactly one matching distribution is chosen, whatever
\* their order; and what was specialised stays as it is
\* (SpecializeDistribution, ValidateEffectiveIntegrity).
ASSUME SpecializationIsSettled ==
  \A m \in Distributable, host \in Hosts :
    LET s == SpecializeDistribution(m, host) IN
    /\ ValidateEffectiveIntegrity(m) => s.err # "invalid"
    /\ s.err = SpecializeDistribution([m EXCEPT !.distributions = Reverse(@)], host).err
    /\ s.err = "none" =>
         /\ SpecializeDistribution(s.method, host) = s
         /\ IntegrityErrors(s.method.config) = {} \/ m.distributions = <<>>
         /\ m.distributions # <<>> => \E i \in DOMAIN m.distributions :
              /\ {i} = {j \in DOMAIN m.distributions : Match(m.distributions[j].when, host)}
              /\ s.method.config = m.distributions[i].overrides @@ m.config

(***************************************************************************)
(* Selection.                                                              *)
(***************************************************************************)

LOCAL Kinds == {1, 2, Native}

LOCAL Tools ==
  {[methods |-> ms, only |-> o, prefer |-> p] :
     ms \in {<<x, y>> : x, y \in [kind : Kinds, label : {0, 4}]},
     o \in {<<>>, <<1>>, <<5, 4>>}, p \in {<<>>, <<2>>, <<1, 6>>, <<5, Native>>}}

LOCAL Orders == {<<1, 2>>, <<2, Native>>, <<6>>, <<5, 1, Native>>}

\* The position of the first selector that takes a candidate.
LOCAL Taken(order, m) ==
  LET at == {i \in DOMAIN order : MethodMatchesSelector(m, order[i])}
  IN IF at = {} THEN Len(order) + 1 ELSE CHOOSE i \in at : \A j \in at : i <= j

\* Every candidate is tried once, or with method_only every one it names and no
\* other; in the order of the selectors, then of the names (SelectMethods).
ASSUME SelectionIsExact ==
  \A tool \in Tools, defaults \in Orders, manager \in {0, 5} :
    LET order == EffectiveMethodOrder(tool, defaults, manager)
        s     == SelectMethods(tool, defaults, manager)
        copies(seq, m) == Cardinality({i \in DOMAIN seq : seq[i] = m})
    IN /\ \A m \in Range(tool.methods) : copies(s, m) =
            IF tool.only # <<>> /\ Taken(order, m) > Len(order) THEN 0
            ELSE copies(tool.methods, m)
       /\ Range(s) \subseteq Range(tool.methods)
       /\ \A i, j \in DOMAIN s : i < j =>
            \/ Taken(order, s[i]) < Taken(order, s[j])
            \/ /\ Taken(order, s[i]) = Taken(order, s[j])
               /\ MethodName(s[i]) <= MethodName(s[j])

\* The host's manager and the native method are one: the order names at most
\* one of them, and never a kind twice, if what was configured does not
\* (ExpandMethodOrder, MergeMethodOrder).
ASSUME NativeIsNamedOnce ==
  \A tool \in Tools, defaults \in Orders :
    LET order == EffectiveMethodOrder(tool, defaults, 5)
    IN ~Contains(order, 5) /\ IsInjective(order)

\* A recorded candidate is found again, or none is, but never another one with
\* the same label (FindMethodCandidate).
ASSUME RecordsNameTheirCandidate ==
  \A tool \in Tools : \A m \in Range(tool.methods) :
    LET found == FindMethodCandidate(tool, m.kind, m.label)
        alike == {i \in DOMAIN tool.methods :
                    MethodKey(tool.methods[i]) = MethodKey(m)}
    IN /\ found \in {{}, {m}}
       /\ m.label # 0 => (found = {m} <=> Cardinality(alike) = 1)

===============================================================================
