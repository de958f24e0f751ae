-------------------------- MODULE ProjectLockProofs --------------------------
(***************************************************************************)
(* What holds of depengine.lock for every set of schemas, every number of  *)
(* processes and commands, and however often selectors move.               *)
(***************************************************************************)
EXTENDS ProjectLock, FiniteSetTheorems, TLAPS

(***************************************************************************)
(* Schemas.                                                                *)
(***************************************************************************)
MethodOK(m) == /\ DOMAIN m = MethodFields
               /\ m.kind \in Kinds /\ m.fixed \in BOOLEAN /\ m.sel \in Selectors

\* What is well formed of a schema, its restrictions and its unchecked form
SchemaOK(s) ==
  /\ IsFiniteSet(DOMAIN s)
  /\ \A t \in DOMAIN s :
       /\ DOMAIN s[t] = {"methods", "tagged", "requires", "depOnly"}
       /\ Len(s[t].methods) \in Nat
       /\ DOMAIN s[t].methods = 1..Len(s[t].methods)
       /\ \A i \in DOMAIN s[t].methods : MethodOK(s[t].methods[i])

LEMMA SchemasOK == \A s \in Schemas : SchemaOK(s)
<1> SUFFICES ASSUME NEW s \in Schemas PROVE SchemaOK(s)
  OBVIOUS
<1>1. WellFormed(s)
  BY SchemasAssumption
<1>2. ASSUME NEW t \in DOMAIN s
      PROVE  /\ Len(s[t].methods) \in Nat
             /\ DOMAIN s[t].methods = 1..Len(s[t].methods)
             /\ \A i \in DOMAIN s[t].methods : s[t].methods[i] \in MethodsOf(s)
  <2>1. s[t].methods \in Seq(MethodsOf(s))
    BY <1>1 DEF WellFormed
  <2> QED BY <2>1
<1>3. \A t \in DOMAIN s : \A i \in DOMAIN s[t].methods : MethodOK(s[t].methods[i])
  BY <1>1, <1>2 DEF WellFormed, MethodOK, Selectors
<1> QED BY <1>1, <1>2, <1>3 DEF WellFormed, SchemaOK

LEMMA RestrictedOK ==
  ASSUME NEW s, SchemaOK(s), NEW names
  PROVE  /\ SchemaOK(Restricted(s, names))
         /\ DOMAIN Restricted(s, names) = names \cap DOMAIN s
         /\ \A t \in DOMAIN Restricted(s, names) : Restricted(s, names)[t] = s[t]
<1>1. IsFiniteSet(names \cap DOMAIN s)
  BY FS_Subset DEF SchemaOK
<1> QED BY <1>1 DEF Restricted, SchemaOK

\* The scope of a command is a part of the schema.
LEMMA FilterToolsOK ==
  ASSUME NEW s, SchemaOK(s), NEW profile
  PROVE  /\ SchemaOK(FilterTools(s, profile))
         /\ DOMAIN FilterTools(s, profile) \subseteq DOMAIN s
         /\ \A t \in DOMAIN FilterTools(s, profile) : FilterTools(s, profile)[t] = s[t]
<1>1. PICK names : FilterTools(s, profile) = Restricted(s, names)
  BY Zenon DEF FilterTools
<1> DEFINE part == Restricted(s, names)
<1>2. SchemaOK(part) /\ DOMAIN part \subseteq DOMAIN s /\ \A t \in DOMAIN part : part[t] = s[t]
  <2>1. SchemaOK(part) /\ DOMAIN part = names \cap DOMAIN s /\ \A t \in DOMAIN part : part[t] = s[t]
    BY RestrictedOK
  <2> HIDE DEF part
  <2> QED BY <2>1
<1> QED BY <1>1, <1>2

\* A key names one candidate.
LEMMA ToolKeyInjective ==
  ASSUME NEW s, SchemaOK(s),
         NEW t \in DOMAIN s, NEW i \in DOMAIN s[t].methods,
         NEW u \in DOMAIN s, NEW j \in DOMAIN s[u].methods,
         ToolKey(s, t, i) = ToolKey(s, u, j)
  PROVE  t = u /\ i = j
<1> DEFINE Before(k) == {n \in 1..(k - 1) : s[t].methods[n].kind = s[t].methods[k].kind}
<1>1. t = u
  BY DEF ToolKey
<1>2. /\ s[t].methods[i].kind = s[t].methods[j].kind
      /\ Cardinality(Before(i)) = Cardinality(Before(j))
  BY <1>1 DEF ToolKey
<1>3. i \in Nat /\ j \in Nat
  BY <1>1 DEF SchemaOK
<1>4. IsFiniteSet(Before(i)) /\ IsFiniteSet(Before(j))
  <2>1. IsFiniteSet(1..(i - 1)) /\ IsFiniteSet(1..(j - 1))
    BY <1>3, FS_Interval
  <2> QED BY <2>1, FS_Subset
<1>5. CASE i < j
  <2>1. Before(i) \subseteq Before(j) /\ i \in Before(j) /\ i \notin Before(i)
    BY <1>1, <1>2, <1>3, <1>5 DEF SchemaOK
  <2> HIDE DEF Before
  <2>2. Before(i) = Before(j)
    BY <1>2, <1>4, <2>1, FS_Subset
  <2> QED BY <2>1, <2>2
<1>6. CASE j < i
  <2>1. Before(j) \subseteq Before(i) /\ j \in Before(i) /\ j \notin Before(j)
    BY <1>1, <1>2, <1>3, <1>6 DEF SchemaOK
  <2> HIDE DEF Before
  <2>2. Before(i) = Before(j)
    BY <1>2, <1>4, <2>1, FS_Subset
  <2> QED BY <2>1, <2>2
<1> QED BY <1>1, <1>3, <1>5, <1>6

\* What MethodAt finds for a key is the candidate it was made for.
LEMMA MethodAtKey ==
  ASSUME NEW s, SchemaOK(s), NEW t \in DOMAIN s, NEW i \in DOMAIN s[t].methods
  PROVE  ToolKey(s, t, i) \in Keys(s) /\ MethodAt(s, ToolKey(s, t, i)) = s[t].methods[i]
<1> DEFINE key == ToolKey(s, t, i)
           c == CHOOSE x \in Places(s) : ToolKey(s, x[1], x[2]) = key
<1>1. <<t, i>> \in Places(s)
  BY DEF Places
<1>2. c \in Places(s) /\ ToolKey(s, c[1], c[2]) = key
  BY <1>1
<1>3. c[1] \in DOMAIN s /\ c[2] \in DOMAIN s[c[1]].methods
  BY <1>2 DEF Places
<1>4. c[1] = t /\ c[2] = i
  BY <1>2, <1>3, ToolKeyInjective
<1>5. key \in Keys(s)
  BY <1>1 DEF Keys
<1>6. MethodAt(s, key) = s[c[1]].methods[c[2]]
  BY DEF MethodAt
<1> QED BY <1>4, <1>5, <1>6

\* Every key comes from a candidate.
LEMMA KeyHasPlace ==
  ASSUME NEW s, SchemaOK(s), NEW key \in Keys(s)
  PROVE  \E t \in DOMAIN s : \E i \in DOMAIN s[t].methods :
           /\ key = ToolKey(s, t, i) /\ MethodAt(s, key) = s[t].methods[i]
           /\ MethodOK(MethodAt(s, key))
           /\ key[1] = t /\ key[2] = MethodAt(s, key).kind
<1>1. PICK c \in Places(s) : key = ToolKey(s, c[1], c[2])
  BY DEF Keys
<1>2. c[1] \in DOMAIN s /\ c[2] \in DOMAIN s[c[1]].methods
  BY <1>1 DEF Places
<1>3. MethodAt(s, key) = s[c[1]].methods[c[2]]
  BY <1>1, <1>2, MethodAtKey
<1>4. MethodOK(s[c[1]].methods[c[2]])
  BY <1>2 DEF SchemaOK
<1>5. key[1] = c[1] /\ key[2] = s[c[1]].methods[c[2]].kind
  BY <1>1 DEF ToolKey
<1> QED BY <1>1, <1>2, <1>3, <1>4, <1>5

\* A part of a schema has the keys, candidates and hashes of the whole.
LEMMA PartAgrees ==
  ASSUME NEW s, SchemaOK(s), NEW part, SchemaOK(part),
         DOMAIN part \subseteq DOMAIN s, \A t \in DOMAIN part : part[t] = s[t]
  PROVE  /\ Installable(part) = Installable(s) \cap DOMAIN part
         /\ \A t \in Installable(part) : MethodsHash(part)[t] = MethodsHash(s)[t]
         /\ \A k \in Keys(part) : k \in Keys(s) /\ MethodAt(part, k) = MethodAt(s, k)
<1>1. \A t \in DOMAIN part : \A i \in DOMAIN part[t].methods :
        ToolKey(part, t, i) = ToolKey(s, t, i)
  BY DEF ToolKey
<1>2. ASSUME NEW k \in Keys(part) PROVE k \in Keys(s) /\ MethodAt(part, k) = MethodAt(s, k)
  <2>1. PICK t \in DOMAIN part : \E i \in DOMAIN part[t].methods :
          k = ToolKey(part, t, i) /\ MethodAt(part, k) = part[t].methods[i]
    BY KeyHasPlace
  <2> PICK i \in DOMAIN part[t].methods :
          k = ToolKey(part, t, i) /\ MethodAt(part, k) = part[t].methods[i]
    BY <2>1
  <2>2. k \in Keys(s) /\ MethodAt(s, k) = s[t].methods[i]
    BY <1>1, <2>1, MethodAtKey
  <2> QED BY <2>1, <2>2
<1>3. Installable(part) = Installable(s) \cap DOMAIN part
  BY DEF Installable
<1>4. \A t \in Installable(part) : MethodsHash(part)[t] = MethodsHash(s)[t]
  BY <1>3 DEF MethodsHash, Installable
<1> QED BY <1>2, <1>3, <1>4

(***************************************************************************)
(* Pins.                                                                   *)
(***************************************************************************)
PinShaped(pin) == pin = [sel |-> pin.sel, value |-> pin.value, sum |-> pin.sum]

\* A pin says something, and a value only of the selector it names.
PinOK(k, pin) ==
  /\ PinShaped(pin) /\ pin # NoPin
  /\ pin.sel # None => pin.value # None /\ pin.value.of = pin.sel
  /\ k[2] \notin {"git", "npm"} => pin.sel = None

PinsOK(pins) == \A k \in DOMAIN pins : PinOK(k, pins[k])

PinIn(pins, k) == IF k \in DOMAIN pins THEN pins[k] ELSE NoPin

\* What the pins resolved for a scope are to pins there were before
FreshOK(s, old, fresh) ==
  /\ DOMAIN fresh.pins \subseteq Keys(s) /\ fresh.cleared \subseteq Keys(s)
  /\ PinsOK(fresh.pins)
  /\ \A k \in Keys(s) :
       LET m == MethodAt(s, k)
           pin == PinIn(fresh.pins, k)
       IN /\ MutablePinned(m) => /\ pin.sel = m.sel /\ pin.value # None
                                 /\ pin.value.of = m.sel /\ k \notin fresh.cleared
          /\ ~MutablePinned(m) => pin.sel = None
          /\ m.kind \in {"git", "npm"} /\ m.fixed => pin.value = None /\ k \in fresh.cleared
          /\ m.kind = "http" /\ ~m.fixed => pin.value # None \/ PinIn(old, k).value # None
          /\ m.kind \notin {"git", "npm"} => k \notin fresh.cleared

\* The pins a lock has in effect on an installation
Pins(lk) == IF lk = None \/ IsV2(lk) THEN Nothing ELSE lk.pins

\* A pinned value is put on the candidates it applies to only.
LEMMA AppliedPins ==
  ASSUME NEW s, SchemaOK(s), NEW lk, PinsOK(Pins(lk)), NEW k \in Keys(s)
  PROVE  LET a == ApplyLegacyV1(s, lk)[k]
             m == MethodAt(s, k)
             pin == PinIn(Pins(lk), k)
         IN /\ a.value = IF m.kind = "http" \/ (MutablePinned(m) /\ pin.sel = m.sel)
                         THEN pin.value ELSE None
            /\ MutablePinned(m) /\ a.value # None => a.value.of = m.sel
<1> DEFINE a == ApplyLegacyV1(s, lk)[k]
           m == MethodAt(s, k)
           pin == PinIn(Pins(lk), k)
<1>1. a.value = IF m.kind = "http" \/ (pin.value # None /\ PinApplies(m, pin))
                THEN pin.value ELSE None
  BY Zenon DEF ApplyLegacyV1, PinIn, Pins, Nothing
<1>2. m.sel # None
  BY KeyHasPlace, NoneAssumption DEF MethodOK
<1>3. k \in DOMAIN Pins(lk) => PinOK(k, pin)
  BY DEF PinsOK, PinIn
<1>4. k \notin DOMAIN Pins(lk) => pin = NoPin
  BY DEF PinIn
<1>5. pin.sel # None => pin.value # None /\ pin.value.of = pin.sel
  BY <1>3, <1>4 DEF PinOK, NoPin
<1> HIDE DEF a, m, pin
<1>6. a.value = IF m.kind = "http" \/ (MutablePinned(m) /\ pin.sel = m.sel)
                THEN pin.value ELSE None
  BY <1>1, <1>5 DEF PinApplies
<1>7. MutablePinned(m) /\ a.value # None => a.value.of = m.sel
  BY <1>2, <1>5, <1>6 DEF MutablePinned
<1> QED BY <1>6, <1>7 DEF a, m, pin

LEMMA LatestValue ==
  ASSUME NEW m, MethodOK(m), NEW up \in [Selectors -> Nat]
  PROVE  Latest(m, up) # None /\ Latest(m, up).of = m.sel
<1>1. Latest(m, up) = [of |-> m.sel, n |-> up[m.sel]]
  BY DEF Latest, Value
<1>2. m.sel \in Selectors /\ up[m.sel] \in Nat
  BY DEF MethodOK
<1>3. Latest(m, up) \in [of : Selectors, n : Nat]
  BY <1>1, <1>2
<1> QED BY <1>1, <1>3, NoneAssumption

\* ResolveLegacyV1 pins every mutable candidate of the scope.
LEMMA FreshPins ==
  ASSUME NEW s, SchemaOK(s), NEW lk, PinsOK(Pins(lk)), NEW up \in [Selectors -> Nat]
  PROVE  FreshOK(s, Pins(lk), ResolveLegacyV1(s, ApplyLegacyV1(s, lk), up))
<1> DEFINE applied == ApplyLegacyV1(s, lk)
           fresh == ResolveLegacyV1(s, applied, up)
           Pin(k) == FreshPin(MethodAt(s, k), applied[k], up)
<1>1. /\ fresh.pins = [k \in {k \in Keys(s) : Pin(k) # NoPin} |-> Pin(k)]
      /\ fresh.cleared = {k \in Keys(s) : /\ MethodAt(s, k).kind \in {"git", "npm"}
                                          /\ MethodAt(s, k).fixed}
  BY DEF ResolveLegacyV1
<1> HIDE DEF fresh
<1>2. ASSUME NEW k \in Keys(s) PROVE PinIn(fresh.pins, k) = Pin(k)
  BY <1>1, Zenon DEF PinIn
<1>3. ASSUME NEW k \in Keys(s)
      PROVE  LET m == MethodAt(s, k) IN
             /\ PinShaped(Pin(k))
             /\ MutablePinned(m) => /\ Pin(k).sel = m.sel /\ Pin(k).value # None
                                    /\ Pin(k).value.of = m.sel
             /\ ~MutablePinned(m) => Pin(k).sel = None
             /\ m.kind \in {"git", "npm"} /\ m.fixed => Pin(k).value = None
             /\ m.kind = "http" /\ ~m.fixed =>
                  Pin(k).value # None \/ PinIn(Pins(lk), k).value # None
             /\ MethodOK(m) /\ k[2] = m.kind
  <2> DEFINE m == MethodAt(s, k)
             a == applied[k]
  <2>1. MethodOK(m) /\ k[2] = m.kind
    BY KeyHasPlace
  <2>2. Latest(m, up) # None /\ Latest(m, up).of = m.sel
    BY <2>1, LatestValue
  <2>3. /\ MutablePinned(m) /\ a.value # None => a.value.of = m.sel
        /\ m.kind = "http" => a.value = PinIn(Pins(lk), k).value
    BY AppliedPins
  <2>4. Pin(k) = FreshPin(m, a, up)
    OBVIOUS
  <2> HIDE DEF m, a, Pin
  <2>5. /\ PinShaped(Pin(k))
        /\ Pin(k).sel = IF MutablePinned(m) THEN m.sel ELSE None
        /\ Pin(k).value = IF MutablePinned(m) /\ a.value # None THEN a.value
             ELSE IF m.kind = "native" \/ m.fixed \/ (m.kind = "http" /\ a.value # None)
                  THEN None ELSE Latest(m, up)
    BY <2>4 DEF FreshPin, PinShaped
  <2>6. MutablePinned(m) => Pin(k).value # None /\ Pin(k).value.of = m.sel
    BY <2>2, <2>3, <2>5 DEF MutablePinned
  <2>7. m.kind \in {"git", "npm"} /\ m.fixed => Pin(k).value = None
    BY <2>5 DEF MutablePinned
  <2>8. m.kind = "http" /\ ~m.fixed => Pin(k).value # None \/ PinIn(Pins(lk), k).value # None
    BY <2>2, <2>3, <2>5 DEF MutablePinned
  <2> QED BY <2>1, <2>5, <2>6, <2>7, <2>8 DEF m
<1>4. ASSUME NEW k \in DOMAIN fresh.pins PROVE PinOK(k, fresh.pins[k])
  <2>1. k \in Keys(s) /\ fresh.pins[k] = Pin(k) /\ Pin(k) # NoPin
    BY <1>1
  <2> HIDE DEF Pin
  <2> QED BY <1>3, <2>1 DEF PinOK, MutablePinned
<1> HIDE DEF Pin, applied
<1>5. DOMAIN fresh.pins \subseteq Keys(s) /\ fresh.cleared \subseteq Keys(s)
  BY <1>1
<1>6. \A k \in Keys(s) : k \in fresh.cleared <=> /\ MethodAt(s, k).kind \in {"git", "npm"}
                                                 /\ MethodAt(s, k).fixed
  BY <1>1
<1>7. FreshOK(s, Pins(lk), fresh)
  BY <1>2, <1>3, <1>4, <1>5, <1>6 DEF FreshOK, PinsOK, MutablePinned
<1> QED BY <1>7 DEF fresh, applied

\* Merge keeps what is not of the scope, and completes what is.
LEMMA MergedPins ==
  ASSUME NEW s, SchemaOK(s), NEW old, PinsOK(old), NEW fresh, FreshOK(s, old, fresh)
  PROVE  LET new == Merge(old, fresh) IN
         /\ PinsOK(new)
         /\ \A k \in Keys(s) :
              LET m == MethodAt(s, k)
                  pin == PinIn(new, k)
              IN /\ MutablePinned(m) => pin.sel = m.sel /\ pin.value # None
                 /\ m.kind = "http" /\ ~m.fixed => pin.value # None
                 /\ m.kind \in {"git", "npm"} /\ m.fixed => pin.sel = None /\ pin.value = None
         /\ \A k \in DOMAIN old :
              k \notin Keys(s) => k \in DOMAIN new /\ new[k] = old[k]
<1> DEFINE F(k, x) == LET f == IF k \in DOMAIN fresh.pins THEN fresh.pins[k][x] ELSE None
                      IN IF f # None THEN f
                         ELSE IF k \notin DOMAIN old \/ (k \in fresh.cleared /\ x # "sum")
                              THEN None ELSE old[k][x]
           P(k) == [x \in DOMAIN NoPin |-> F(k, x)]
           new == Merge(old, fresh)
           A(k) == PinIn(fresh.pins, k)
           B(k) == PinIn(old, k)
<1>1. new = [k \in {k \in DOMAIN old \cup DOMAIN fresh.pins : P(k) # NoPin} |-> P(k)]
  BY DEF Merge
<1> HIDE DEF new
<1>2. ASSUME NEW k
      PROVE  /\ PinShaped(P(k))
             /\ P(k).sel = IF A(k).sel # None THEN A(k).sel
                           ELSE IF k \in fresh.cleared THEN None ELSE B(k).sel
             /\ P(k).value = IF A(k).value # None THEN A(k).value
                             ELSE IF k \in fresh.cleared THEN None ELSE B(k).value
             /\ P(k).sum = IF A(k).sum # None THEN A(k).sum ELSE B(k).sum
  <2>1. DOMAIN NoPin = {"sel", "value", "sum"}
    BY DEF NoPin
  <2>2. PinShaped(P(k)) /\ P(k).sel = F(k, "sel") /\ P(k).value = F(k, "value")
        /\ P(k).sum = F(k, "sum")
    <3> HIDE DEF F
    <3> QED BY <2>1 DEF PinShaped
  <2>3. NoPin.sel = None /\ NoPin.value = None /\ NoPin.sum = None
    BY DEF NoPin
  <2>4. F(k, "sel") = IF A(k).sel # None THEN A(k).sel
                      ELSE IF k \in fresh.cleared THEN None ELSE B(k).sel
    BY <2>3 DEF PinIn
  <2>5. F(k, "value") = IF A(k).value # None THEN A(k).value
                        ELSE IF k \in fresh.cleared THEN None ELSE B(k).value
    BY <2>3 DEF PinIn
  <2>6. F(k, "sum") = IF A(k).sum # None THEN A(k).sum ELSE B(k).sum
    BY <2>3 DEF PinIn
  <2> HIDE DEF P, F, A, B
  <2> QED BY <2>2, <2>4, <2>5, <2>6
<1>3. ASSUME NEW k
      PROVE  PinIn(new, k) = IF k \in DOMAIN old \cup DOMAIN fresh.pins THEN P(k) ELSE NoPin
  <2> HIDE DEF P
  <2> QED BY <1>1 DEF PinIn
<1>4. ASSUME NEW k
      PROVE  /\ k \in DOMAIN old => PinOK(k, B(k))
             /\ k \notin DOMAIN old => B(k) = NoPin
             /\ k \in DOMAIN fresh.pins => PinOK(k, A(k)) /\ k \in Keys(s)
             /\ k \notin DOMAIN fresh.pins => A(k) = NoPin
  BY DEF PinIn, PinsOK, FreshOK
<1>5. ASSUME NEW k \in Keys(s)
      PROVE  LET m == MethodAt(s, k) IN
             /\ MutablePinned(m) => /\ A(k).sel = m.sel /\ A(k).value # None
                                    /\ A(k).value.of = m.sel /\ k \notin fresh.cleared
             /\ ~MutablePinned(m) => A(k).sel = None
             /\ m.kind \in {"git", "npm"} /\ m.fixed => A(k).value = None /\ k \in fresh.cleared
             /\ m.kind = "http" /\ ~m.fixed => A(k).value # None \/ B(k).value # None
             /\ m.kind \notin {"git", "npm"} => k \notin fresh.cleared
             /\ m.sel # None /\ m.kind = k[2]
  <2>1. MethodAt(s, k).sel # None /\ MethodAt(s, k).kind = k[2]
    BY KeyHasPlace, NoneAssumption DEF MethodOK
  <2> QED BY <2>1 DEF FreshOK
<1> HIDE DEF A, B, P
<1>6. ASSUME NEW k \in DOMAIN new PROVE PinOK(k, new[k])
  <2>1. new[k] = P(k) /\ P(k) # NoPin /\ k \in DOMAIN old \cup DOMAIN fresh.pins
    BY <1>1
  <2>2. NoPin.sel = None /\ NoPin.value = None
    BY DEF NoPin
  <2>3. CASE A(k).sel # None
    <3>1. k \in DOMAIN fresh.pins /\ PinOK(k, A(k))
      BY <1>4, <2>2, <2>3
    <3> QED BY <1>2, <2>1, <2>3, <3>1 DEF PinOK
  <2>4. CASE A(k).sel = None /\ P(k).sel # None
    <3>1. P(k).sel = B(k).sel /\ k \notin fresh.cleared
      BY <1>2, <2>4
    <3>2. PinOK(k, B(k))
      BY <1>4, <2>2, <2>4, <3>1
    <3>3. k[2] \in {"git", "npm"}
      BY <2>4, <3>1, <3>2 DEF PinOK
    <3>4. A(k).value = None
      <4>1. CASE k \notin DOMAIN fresh.pins
        BY <1>4, <2>2, <4>1
      <4>2. CASE k \in DOMAIN fresh.pins
        <5>1. k \in Keys(s)
          BY <1>4, <4>2
        <5>2. MethodAt(s, k).fixed
          BY <1>5, <2>4, <3>3, <5>1 DEF MutablePinned
        <5> QED BY <1>5, <3>1, <3>3, <5>1, <5>2
      <4> QED BY <4>1, <4>2
    <3>5. P(k).value = B(k).value
      BY <1>2, <3>1, <3>4
    <3> QED BY <1>2, <2>1, <3>1, <3>2, <3>3, <3>5 DEF PinOK
  <2>5. CASE P(k).sel = None
    BY <1>2, <2>1, <2>5 DEF PinOK
  <2> QED BY <2>3, <2>4, <2>5
<1>7. ASSUME NEW k \in Keys(s)
      PROVE  LET m == MethodAt(s, k)
                 pin == PinIn(new, k)
             IN /\ MutablePinned(m) => pin.sel = m.sel /\ pin.value # None
                /\ m.kind = "http" /\ ~m.fixed => pin.value # None
                /\ m.kind \in {"git", "npm"} /\ m.fixed => pin.sel = None /\ pin.value = None
  <2> DEFINE m == MethodAt(s, k)
             pin == PinIn(new, k)
  <2>1. NoPin.sel = None /\ NoPin.value = None
    BY DEF NoPin
  <2>2. pin = P(k) \/ (pin = NoPin /\ A(k) = NoPin /\ B(k) = NoPin)
    BY <1>3, <1>4
  <2>3. MutablePinned(m) => pin.sel = m.sel /\ pin.value # None
    BY <1>2, <1>5, <2>1, <2>2
  <2>4. m.kind = "http" /\ ~m.fixed => pin.value # None
    BY <1>2, <1>5, <2>1, <2>2
  <2>5. m.kind \in {"git", "npm"} /\ m.fixed => pin.sel = None /\ pin.value = None
    BY <1>2, <1>5, <2>1, <2>2 DEF MutablePinned
  <2> QED BY <2>3, <2>4, <2>5
<1>8. ASSUME NEW k \in DOMAIN old, k \notin Keys(s)
      PROVE  k \in DOMAIN new /\ new[k] = old[k]
  <2>1. k \notin DOMAIN fresh.pins /\ k \notin fresh.cleared
    BY <1>8 DEF FreshOK
  <2>2. A(k) = NoPin /\ PinOK(k, B(k)) /\ B(k) = old[k]
    BY <1>4, <2>1 DEF B, PinIn
  <2>3. A(k).sel = None /\ A(k).value = None /\ A(k).sum = None
    BY <2>2 DEF NoPin
  <2>4. P(k) = B(k)
    BY <1>2, <2>1, <2>2, <2>3 DEF PinOK, PinShaped
  <2>5. P(k) # NoPin
    BY <2>2, <2>4 DEF PinOK
  <2> QED BY <1>1, <2>2, <2>4, <2>5
<1> QED BY <1>6, <1>7, <1>8 DEF PinsOK, new

(***************************************************************************)
(* Documents.                                                              *)
(***************************************************************************)
\* An entry of a lock is immutable, and the plan it is retained as projects
\* to itself again.
EntryOK(t, e) ==
  /\ RequireImmutable(e) /\ e.tool = t
  /\ ProjectLock(RetainedPlan(e)) = e
  /\ e = [tool |-> e.tool, cand |-> e.cand, intent |-> e.intent, identity |-> e.identity,
          artifacts |-> e.artifacts, sources |-> e.sources, immutable |-> TRUE]

DocumentOK(doc) == doc # None /\ \A t \in DOMAIN doc : EntryOK(t, doc[t])

LEMMA ProjectedEntry ==
  ASSUME NEW p, RequireImmutable(ProjectLock(p))
  PROVE  EntryOK(p.tool, ProjectLock(p))
<1> DEFINE sources == {LockedSource(s) : s \in p.sources}
           Unpinned(src) == LockIdentityUnavailable(p.intent, p.identity, p.artifacts, src)
           Entry(src) == [tool |-> p.tool, cand |-> p.cand, intent |-> p.intent,
                          identity |-> p.identity, artifacts |-> p.artifacts,
                          sources |-> sources, immutable |-> ~Unpinned(src)]
           e == ProjectLock(p)
           q == RetainedPlan(e)
<1>1. e = Entry(p.sources) /\ ProjectionValid(Entry(p.sources))
  BY DEF ProjectLock, RequireImmutable
<1>2. ~Unpinned(p.sources)
  <2>1. e.immutable
    BY DEF RequireImmutable
  <2>2. Entry(p.sources).immutable = ~Unpinned(p.sources)
    <3> HIDE DEF Unpinned
    <3> QED OBVIOUS
  <2> QED BY <1>1, <2>1, <2>2
<1>3. Unpinned(sources) = Unpinned(p.sources)
  <2>1. (\E s \in sources : s.git /\ s.rev = None) <=> (\E s \in p.sources : s.git /\ s.rev = None)
    <3>1. \A s : LockedSource(s).git = s.git /\ LockedSource(s).rev = s.rev
      BY DEF LockedSource
    <3> QED BY <3>1
  <2> HIDE DEF sources
  <2> QED BY <2>1, Zenon DEF LockIdentityUnavailable
<1>4. /\ q.tool = p.tool /\ q.cand = p.cand /\ q.intent = p.intent
      /\ q.identity = p.identity /\ q.artifacts = p.artifacts /\ q.sources = sources
  <2> HIDE DEF Unpinned, sources, e
  <2> QED BY <1>1 DEF RetainedPlan, StaticPlan
<1>5. {LockedSource(s) : s \in q.sources} = sources
  <2>1. \A s \in sources : LockedSource(s) = s
    BY DEF LockedSource
  <2> HIDE DEF sources
  <2> QED BY <1>4, <2>1
<1>6. ProjectLock(q) = IF ProjectionValid(Entry(sources)) THEN Entry(sources) ELSE None
  <2> HIDE DEF sources, q
  <2> QED BY <1>4, <1>5, Zenon DEF ProjectLock
<1>7. Entry(sources) = Entry(p.sources)
  <2> HIDE DEF Unpinned
  <2> QED BY <1>3
<1>8. ProjectLock(q) = e
  <2> HIDE DEF Entry, e, q, sources
  <2> QED BY <1>1, <1>6, <1>7
<1>9. e = [tool |-> e.tool, cand |-> e.cand, intent |-> e.intent, identity |-> e.identity,
          artifacts |-> e.artifacts, sources |-> e.sources, immutable |-> TRUE]
  <2>1. (~Unpinned(p.sources)) = TRUE
    BY <1>2
  <2> HIDE DEF Unpinned, sources, e
  <2> QED BY <1>1, <2>1
<1>10. e.tool = p.tool
  <2> HIDE DEF Unpinned, sources, e
  <2> QED BY <1>1
<1> QED BY <1>8, <1>9, <1>10 DEF EntryOK

LEMMA SetToSeqMembers ==
  ASSUME NEW S, IsFiniteSet(S)
  PROVE  {SetToSeq(S)[i] : i \in DOMAIN SetToSeq(S)} = S
<1> DEFINE n == Cardinality(S)
           f == SetToSeq(S)
<1>1. n \in Nat /\ ExistsBijection(1..n, S)
  BY FS_CardinalityType
<1>2. PICK g \in Bijection(1..n, S) : TRUE
  BY <1>1 DEF ExistsBijection
<1>3. g \in [1..n -> S] /\ IsInjective(g)
  BY <1>2 DEF Bijection, Injection
<1>4. f \in [1..n -> S] /\ IsInjective(f)
  BY <1>3 DEF SetToSeq
<1>5. IsFiniteSet(1..n) /\ Cardinality(1..n) = n
  BY <1>1, FS_Interval
<1>6. f \in Injection(1..n, S)
  BY <1>4 DEF Injection
<1> HIDE DEF f
<1>7. f \in Surjection(1..n, S)
  BY <1>5, <1>6, FS_Injection
<1>8. \A x \in S : \E i \in 1..n : f[i] = x
  BY <1>7 DEF Surjection
<1>9. {f[i] : i \in DOMAIN f} = S
  BY <1>4, <1>8
<1> QED BY <1>9 DEF f

\* A document that is built at all has an immutable entry for each plan.
LEMMA BuiltDocument ==
  ASSUME NEW plans, IsFiniteSet(plans), BuildLockDocument(SetToSeq(plans)) # None
  PROVE  LET doc == BuildLockDocument(SetToSeq(plans)) IN
         /\ DocumentOK(doc)
         /\ \A p \in plans : p.tool \in DOMAIN doc /\ doc[p.tool] = ProjectLock(p)
<1> DEFINE q == SetToSeq(plans)
           doc == BuildLockDocument(q)
<1>1. {q[i] : i \in DOMAIN q} = plans
  BY SetToSeqMembers
<1> HIDE DEF q
<1>2. /\ \A i, j \in DOMAIN q : q[i].tool = q[j].tool => i = j
      /\ \A i \in DOMAIN q : RequireImmutable(ProjectLock(q[i]))
      /\ doc = [t \in {q[i].tool : i \in DOMAIN q} |->
                 ProjectLock(q[CHOOSE i \in DOMAIN q : q[i].tool = t])]
  BY DEF BuildLockDocument, q
<1> HIDE DEF doc
<1>3. ASSUME NEW i \in DOMAIN q
      PROVE  q[i].tool \in DOMAIN doc /\ doc[q[i].tool] = ProjectLock(q[i])
  <2> DEFINE c == CHOOSE j \in DOMAIN q : q[j].tool = q[i].tool
  <2>1. c \in DOMAIN q /\ q[c].tool = q[i].tool
    OBVIOUS
  <2>2. c = i
    BY <1>2, <2>1
  <2> QED BY <1>2, <2>2
<1>4. \A p \in plans : p.tool \in DOMAIN doc /\ doc[p.tool] = ProjectLock(p)
  BY <1>1, <1>3
<1>5. ASSUME NEW t \in DOMAIN doc PROVE EntryOK(t, doc[t])
  <2>1. PICK i \in DOMAIN q : q[i].tool = t
    BY <1>2
  <2> QED BY <1>2, <1>3, <2>1, ProjectedEntry
<1> QED BY <1>4, <1>5 DEF DocumentOK, doc, q

LEMMA FiniteImage ==
  ASSUME NEW X, IsFiniteSet(X), NEW f
  PROVE  IsFiniteSet({f[x] : x \in X})
<1> DEFINE Y == {f[x] : x \in X}
           g == [x \in X |-> f[x]]
<1>1. g \in [X -> Y] /\ \A y \in Y : \E x \in X : g[x] = y
  OBVIOUS
<1>2. g \in Surjection(X, Y)
  BY <1>1, Zenon DEF Surjection
<1> HIDE DEF g, Y
<1>3. IsFiniteSet(Y)
  BY <1>2, FS_Surjection
<1> QED BY <1>3 DEF Y

(***************************************************************************)
(* Locks.                                                                  *)
(***************************************************************************)
LockOK(lk) ==
  /\ lk # None /\ PinsOK(lk.pins)
  /\ IsV2(lk) => DocumentOK(lk.doc)

LEMMA UniversalDocument ==
  ASSUME NEW s, SchemaOK(s), NEW scope, NEW old, old = None \/ LockOK(old), NEW up, NEW down,
         ResolveUniversalLockDocument(s, scope, old, up, down) # None
  PROVE  LET new == ResolveUniversalLockDocument(s, scope, old, up, down) IN
         /\ DocumentOK(new) /\ DOMAIN new = Installable(s)
         /\ IsV2(old) => \A t \in (DOMAIN old.doc \cap Installable(s)) \ DOMAIN scope :
               \/ UniversalLockIntentDrifted(old, s, t)
               \/ t \in DOMAIN new /\ new[t] = old.doc[t]
<1> DEFINE doc == IF IsV2(old) THEN old.doc ELSE Nothing
           whole == Installable(s)
           again == {t \in whole : t \in DOMAIN scope
                                   \/ (IsV2(old) /\ UniversalLockIntentDrifted(old, s, t))}
           rest == (DOMAIN doc \cap whole) \ again
           kept == {RetainedPlan(doc[t]) : t \in rest}
           plans == {LockCandidate(s, t, up, down) : t \in again}
           carried == {CarryForwardArtifactIntegrity(p, doc) : p \in plans}
           built == BuildLockDocument(SetToSeq(carried \cup kept))
           new == ResolveUniversalLockDocument(s, scope, old, up, down)
<1>1. new = IF None \in plans THEN None
            ELSE IF built # None /\ VerifyCoverage(built, whole) THEN built ELSE None
  BY Zenon DEF ResolveUniversalLockDocument
<1>2. IsFiniteSet(whole)
  BY FS_Subset DEF Installable, SchemaOK
<1>3. IsFiniteSet(kept)
  <2> DEFINE f == [t \in rest |-> RetainedPlan(doc[t])]
  <2>1. IsFiniteSet(rest)
    <3> HIDE DEF whole, again, doc
    <3> QED BY <1>2, FS_Subset
  <2>2. kept = {f[t] : t \in rest}
    <3> HIDE DEF rest, doc
    <3> QED OBVIOUS
  <2> HIDE DEF f, rest, kept
  <2> QED BY <2>1, <2>2, FiniteImage
<1>4. IsFiniteSet(carried)
  <2> DEFINE f == [t \in again |-> CarryForwardArtifactIntegrity(LockCandidate(s, t, up, down), doc)]
  <2>1. IsFiniteSet(again)
    <3> HIDE DEF whole
    <3> QED BY <1>2, FS_Subset
  <2>2. carried = {f[t] : t \in again}
    <3> HIDE DEF again, doc
    <3> QED BY Zenon
  <2> HIDE DEF f, again, carried
  <2> QED BY <2>1, <2>2, FiniteImage
<1>5. IsFiniteSet(carried \cup kept)
  <2> HIDE DEF carried, kept
  <2> QED BY <1>3, <1>4, FS_Union
<1>6. new = built /\ built # None /\ DOMAIN built = whole
  BY <1>1, Zenon DEF VerifyCoverage
<1>7. /\ DocumentOK(built)
      /\ \A p \in carried \cup kept : p.tool \in DOMAIN built /\ built[p.tool] = ProjectLock(p)
  <2> HIDE DEF carried, kept
  <2> QED BY <1>5, <1>6, BuiltDocument
<1>8. ASSUME IsV2(old), NEW t \in (DOMAIN old.doc \cap whole) \ DOMAIN scope,
             ~UniversalLockIntentDrifted(old, s, t)
      PROVE  t \in DOMAIN built /\ built[t] = old.doc[t]
  <2>1. doc = old.doc /\ EntryOK(t, doc[t])
    BY <1>8 DEF LockOK, DocumentOK, IsV2
  <2>2. t \in rest
    <3> HIDE DEF whole
    <3> QED BY <1>8
  <2>3. RetainedPlan(doc[t]) \in carried \cup kept
    <3> HIDE DEF rest, doc, carried
    <3> QED BY <2>2
  <2>4. RetainedPlan(doc[t]).tool = t /\ ProjectLock(RetainedPlan(doc[t])) = doc[t]
    BY <2>1 DEF EntryOK, RetainedPlan, StaticPlan
  <2> HIDE DEF built, doc, carried, kept, rest
  <2> QED BY <1>7, <2>1, <2>3, <2>4
<1> HIDE DEF built, new, whole
<1> QED BY <1>6, <1>7, <1>8 DEF new, whole

\* Checksums aside, the unchecked schema is the schema.
LEMMA UncheckedSame ==
  ASSUME NEW s, SchemaOK(s), NEW lk
  PROVE  LET u == Unchecked(s, lk) IN
         /\ SchemaOK(u)
         /\ Installable(u) \subseteq Installable(s)
         /\ \A t \in Installable(u) : MethodsHash(u)[t] = MethodsHash(s)[t]
         /\ \A k \in Keys(u) : LET m == MethodAt(s, k) IN
              /\ k \in Keys(s) /\ MethodOK(MethodAt(u, k))
              /\ MethodAt(u, k).kind = m.kind /\ MethodAt(u, k).sel = m.sel
              /\ MethodAt(u, k).fixed = m.fixed /\ MethodAt(u, k).srcs = m.srcs
              /\ ~IsV2(lk) => MethodAt(u, k).sum # AutoSum
<1> DEFINE u == Unchecked(s, lk)
           M(m) == IF ~IsV2(lk) /\ m.sum = AutoSum THEN [m EXCEPT !.sum = None] ELSE m
<1>1. u = [t \in DOMAIN s |-> [s[t] EXCEPT !.methods = [i \in DOMAIN @ |-> M(@[i])]]]
  BY DEF Unchecked
<1>2. ASSUME NEW m, MethodOK(m)
      PROVE  /\ MethodOK(M(m))
             /\ M(m).kind = m.kind /\ M(m).label = m.label /\ M(m).sel = m.sel
             /\ M(m).fixed = m.fixed /\ M(m).srcs = m.srcs
             /\ ~IsV2(lk) => M(m).sum # AutoSum
  BY <1>2, NoneAssumption DEF MethodOK, MethodFields
<1> HIDE DEF M, u
<1>3. DOMAIN u = DOMAIN s
  BY <1>1
<1>4. ASSUME NEW t \in DOMAIN s
      PROVE  /\ u[t].methods = [i \in DOMAIN s[t].methods |-> M(s[t].methods[i])]
             /\ DOMAIN u[t] = DOMAIN s[t]
  BY <1>1 DEF SchemaOK
<1>5. ASSUME NEW t \in DOMAIN s
      PROVE  /\ DOMAIN u[t].methods = DOMAIN s[t].methods
             /\ \A i \in DOMAIN s[t].methods :
                  /\ u[t].methods[i] = M(s[t].methods[i])
                  /\ MethodOK(s[t].methods[i])
  BY <1>4 DEF SchemaOK
<1>6. SchemaOK(u)
  <2>1. ASSUME NEW t \in DOMAIN s PROVE Len(u[t].methods) = Len(s[t].methods)
    BY <1>5 DEF SchemaOK
  <2> QED BY <1>2, <1>3, <1>4, <1>5, <2>1 DEF SchemaOK
<1>7. ASSUME NEW t \in DOMAIN s, NEW i \in DOMAIN s[t].methods
      PROVE  ToolKey(u, t, i) = ToolKey(s, t, i)
  <2>1. i \in Nat /\ 1..(i - 1) \subseteq DOMAIN s[t].methods
    BY DEF SchemaOK
  <2>2. \A j \in DOMAIN s[t].methods : u[t].methods[j].kind = s[t].methods[j].kind
    BY <1>2, <1>5
  <2>3. {j \in 1..(i - 1) : u[t].methods[j].kind = u[t].methods[i].kind}
          = {j \in 1..(i - 1) : s[t].methods[j].kind = s[t].methods[i].kind}
    BY <2>1, <2>2
  <2> QED BY <2>2, <2>3 DEF ToolKey
<1>8. Installable(u) \subseteq Installable(s)
  <2>1. ASSUME NEW t \in DOMAIN s, s[t].methods = <<>> PROVE u[t].methods = <<>>
    <3>1. DOMAIN <<>> = 1..0
      OBVIOUS
    <3>2. u[t].methods = [i \in 1..0 |-> M(s[t].methods[i])]
      BY <1>4, <2>1, <3>1
    <3>3. u[t].methods \in Seq({}) /\ Len(u[t].methods) = 0
      BY <3>2
    <3> QED BY <3>3
  <2> QED BY <1>3, <2>1 DEF Installable
<1>9. ASSUME NEW t \in Installable(u) PROVE MethodsHash(u)[t] = MethodsHash(s)[t]
  <2>1. t \in DOMAIN s /\ t \in Installable(s)
    BY <1>8 DEF Installable
  <2>2. \A i \in DOMAIN s[t].methods : /\ u[t].methods[i].kind = s[t].methods[i].kind
                                       /\ u[t].methods[i].label = s[t].methods[i].label
    BY <1>2, <1>5, <2>1
  <2>3. [i \in DOMAIN u[t].methods |-> <<u[t].methods[i].kind, u[t].methods[i].label>>]
          = [i \in DOMAIN s[t].methods |-> <<s[t].methods[i].kind, s[t].methods[i].label>>]
    BY <1>5, <2>1, <2>2
  <2> QED BY <2>1, <2>3 DEF MethodsHash
<1>10. ASSUME NEW k \in Keys(u)
       PROVE  /\ k \in Keys(s) /\ MethodOK(MethodAt(s, k))
              /\ MethodAt(u, k) = M(MethodAt(s, k))
  <2>1. PICK t \in DOMAIN u : \E i \in DOMAIN u[t].methods :
          k = ToolKey(u, t, i) /\ MethodAt(u, k) = u[t].methods[i]
    BY <1>6, KeyHasPlace
  <2> PICK i \in DOMAIN u[t].methods : k = ToolKey(u, t, i) /\ MethodAt(u, k) = u[t].methods[i]
    BY <2>1
  <2>2. t \in DOMAIN s /\ i \in DOMAIN s[t].methods
    BY <1>3, <1>5
  <2>3. k \in Keys(s) /\ MethodAt(s, k) = s[t].methods[i]
    BY <1>7, <2>2, MethodAtKey
  <2> QED BY <1>5, <2>2, <2>3
<1> QED BY <1>2, <1>6, <1>8, <1>9, <1>10 DEF u

\* The hash of the sources has what the schema says of each candidate.
LEMMA SourceHashLookup ==
  ASSUME NEW s, NEW k \in Keys(s)
  PROVE  Lookup(SourceHash(s), k) = MethodAt(s, k).srcs
BY Zenon DEF Lookup, SourceHash

\* What the schema validates by, its scopes and unchecked forms do too.
LEMMA IdentityOfPart ==
  ASSUME NEW s, SchemaOK(s), NEW part, SchemaOK(part),
         DOMAIN part \subseteq DOMAIN s, \A t \in DOMAIN part : part[t] = s[t],
         NEW lk,
         \A t \in Installable(part) : Lookup(lk.methods, t) = MethodsHash(s)[t],
         \A k \in Keys(part) : Lookup(lk.sources, k) = MethodAt(s, k).srcs,
         NEW other
  PROVE  FrozenIdentity(Unchecked(part, other), lk)
<1> DEFINE u == Unchecked(part, other)
<1>1. /\ \A t \in Installable(part) : Lookup(lk.methods, t) = MethodsHash(part)[t]
      /\ \A k \in Keys(part) : Lookup(lk.sources, k) = MethodAt(part, k).srcs
  BY PartAgrees
<1>2. /\ Installable(u) \subseteq Installable(part)
      /\ \A t \in Installable(u) : MethodsHash(u)[t] = MethodsHash(part)[t]
      /\ \A k \in Keys(u) : k \in Keys(part) /\ MethodAt(u, k).srcs = MethodAt(part, k).srcs
  BY UncheckedSame
<1> HIDE DEF u
<1>3. FrozenIdentity(u, lk)
  BY <1>1, <1>2 DEF FrozenIdentity
<1> QED BY <1>3 DEF u

(***************************************************************************)
(* What update writes.                                                     *)
(***************************************************************************)
\* lk, resolved for s, validates frozen: what SavedLockValidates says.
Validates(s, profile, lk) ==
  LET scope == FilterTools(s, profile /\ ~IsV2(lk))
  IN /\ ValidateFrozen(Unchecked(scope, lk), lk)
     /\ PinsMatchRequests(lk)

\* new has what old had outside the profile: what UpdateKeepsOthers says.
OthersKept(s, old, new) ==
  LET whole == FilterTools(s, FALSE)
      scope == FilterTools(s, TRUE)
  IN /\ IsV2(old) => \A t \in (DOMAIN old.doc \cap Installable(whole)) \ DOMAIN scope :
          UniversalLockIntentDrifted(old, whole, t) \/ Lookup(new.doc, t) = old.doc[t]
     /\ \A k \in DOMAIN old.pins : k[1] \notin DOMAIN scope =>
          Lookup(new.pins, k) = old.pins[k]
     /\ ~IsV2(new) => \A t \in DOMAIN old.methods \ DOMAIN scope :
          Lookup(new.methods, t) = old.methods[t]

LEMMA LockFields ==
  ASSUME NEW v, NEW doc, NEW pins, NEW methods, NEW sources
  PROVE  LET lk == Lock(v, doc, pins, methods, sources) IN
         /\ lk.version = v /\ lk.doc = doc /\ lk.pins = pins
         /\ lk.methods = methods /\ lk.sources = sources
BY DEF Lock

LEMMA NoPins == PinsOK(Nothing) /\ \A k : PinIn(Nothing, k) = NoPin
BY DEF PinsOK, PinIn, Nothing

LEMMA PinsMatch == ASSUME NEW lk, PinsOK(lk.pins) PROVE PinsMatchRequests(lk)
BY DEF PinsOK, PinOK, PinsMatchRequests

\* A key outside the scope is none of its keys.
LEMMA ForeignKey ==
  ASSUME NEW s, SchemaOK(s), NEW k, k[1] \notin DOMAIN s
  PROVE  k \notin Keys(s)
BY KeyHasPlace

LEMMA UpdateOfAll ==
  ASSUME NEW s, SchemaOK(s), NEW old, old = None \/ LockOK(old), NEW profile \in BOOLEAN,
         NEW up \in [Selectors -> Nat], NEW down,
         CanPersistProjection(old, profile),
         UpdatedLock(old, s, profile, up, down) # None
  PROVE  LET new == UpdatedLock(old, s, profile, up, down) IN
         /\ LockOK(new) /\ Validates(s, profile, new)
         /\ profile /\ old # None => OthersKept(s, old, new)
<1> DEFINE new == UpdatedLock(old, s, profile, up, down)
           whole == FilterTools(s, FALSE)
           scope == FilterTools(s, profile)
           pins == IF old = None THEN Nothing ELSE old.pins
           doc == ResolveUniversalLockDocument(whole, scope, old, up, down)
<1>1. new = IF doc = None THEN None ELSE Lock(2, doc, pins, MethodsHash(s), SourceHash(s))
  BY Zenon DEF UpdatedLock
<1> HIDE DEF new
<1>2. /\ new # None /\ doc # None /\ new.version = 2 /\ new.doc = doc /\ new.pins = pins
      /\ new.methods = MethodsHash(s) /\ new.sources = SourceHash(s)
  <2> HIDE DEF doc, pins
  <2> QED BY <1>1, LockFields DEF new
<1>3. IsV2(new)
  BY <1>2 DEF IsV2
<1>4. /\ SchemaOK(whole) /\ DOMAIN whole \subseteq DOMAIN s /\ \A t \in DOMAIN whole : whole[t] = s[t]
  BY FilterToolsOK
<1>5. /\ DocumentOK(doc) /\ DOMAIN doc = Installable(whole)
      /\ IsV2(old) => \A t \in (DOMAIN old.doc \cap Installable(whole)) \ DOMAIN scope :
            \/ UniversalLockIntentDrifted(old, whole, t)
            \/ t \in DOMAIN doc /\ doc[t] = old.doc[t]
  <2> HIDE DEF whole, scope
  <2> QED BY <1>2, <1>4, UniversalDocument DEF doc
<1>6. PinsOK(pins)
  BY NoPins DEF LockOK
<1>7. LockOK(new)
  <2> HIDE DEF doc, pins
  <2> QED BY <1>2, <1>5, <1>6 DEF LockOK
<1>8. Validates(s, profile, new)
  <2>1. FilterTools(s, profile /\ ~IsV2(new)) = whole
    <3>1. (profile /\ ~IsV2(new)) = FALSE
      BY <1>3
    <3> QED BY <3>1
  <2>2. /\ Installable(whole) \subseteq Installable(s)
        /\ \A k \in Keys(whole) : k \in Keys(s)
    <3> HIDE DEF whole
    <3> QED BY <1>4, PartAgrees
  <2>3. \A t \in Installable(whole) : Lookup(new.methods, t) = MethodsHash(s)[t]
    BY <1>2, <2>2 DEF Lookup, MethodsHash
  <2>4. \A k \in Keys(whole) : Lookup(new.sources, k) = MethodAt(s, k).srcs
    BY <1>2, <2>2, SourceHashLookup
  <2> HIDE DEF whole
  <2>5. FrozenIdentity(Unchecked(whole, new), new)
    BY <1>4, <2>3, <2>4, IdentityOfPart
  <2>6. Installable(Unchecked(whole, new)) \subseteq DOMAIN new.doc
    BY <1>2, <1>4, <1>5, UncheckedSame
  <2>7. ValidateFrozen(Unchecked(whole, new), new)
    BY <1>3, <2>5, <2>6, Zenon DEF ValidateFrozen
  <2>8. PinsMatchRequests(new)
    BY <1>7, PinsMatch DEF LockOK
  <2> QED BY <2>1, <2>7, <2>8, Zenon DEF Validates
<1>9. ASSUME profile, old # None PROVE OthersKept(s, old, new)
  <2>1. scope = FilterTools(s, TRUE) /\ pins = old.pins
    BY <1>9
  <2>2. \A k \in DOMAIN old.pins : Lookup(new.pins, k) = old.pins[k]
    BY <1>2, <2>1 DEF Lookup
  <2>3. IsV2(old) => \A t \in (DOMAIN old.doc \cap Installable(whole)) \ DOMAIN scope :
          UniversalLockIntentDrifted(old, whole, t) \/ Lookup(new.doc, t) = old.doc[t]
    <3> HIDE DEF doc, whole, scope
    <3> QED BY <1>2, <1>5 DEF Lookup
  <2> QED BY <1>3, <2>1, <2>2, <2>3, Zenon DEF OthersKept
<1> HIDE DEF new
<1> QED BY <1>7, <1>8, <1>9 DEF new

LEMMA UpdateOfProfile ==
  ASSUME NEW s, SchemaOK(s), NEW old, old = None \/ LockOK(old), NEW profile \in BOOLEAN,
         NEW up \in [Selectors -> Nat], NEW down,
         ~CanPersistProjection(old, profile),
         UpdatedLock(old, s, profile, up, down) # None
  PROVE  LET new == UpdatedLock(old, s, profile, up, down) IN
         /\ LockOK(new) /\ Validates(s, profile, new)
         /\ profile /\ old # None => OthersKept(s, old, new)
<1> DEFINE new == UpdatedLock(old, s, profile, up, down)
           scope == FilterTools(s, profile)
           pins == IF old = None THEN Nothing ELSE old.pins
           fresh == ResolveLegacyV1(scope, ApplyLegacyV1(scope, None), up)
           methods == IF old = None THEN MethodsHash(scope)
                      ELSE Over(MethodsHash(scope), old.methods)
           sources == IF old = None THEN SourceHash(scope)
                      ELSE Over(SourceHash(scope),
                                [k \in {k \in DOMAIN old.sources : k[1] \notin DOMAIN scope} |->
                                   old.sources[k]])
<1>1. new = Lock(1, Nothing, Merge(pins, fresh), methods, sources)
  BY Zenon DEF UpdatedLock, NoApplied
<1> HIDE DEF new
<1>2. profile /\ ~IsV2(old)
  BY DEF CanPersistProjection
<1>3. /\ new # None /\ new.version = 1 /\ new.pins = Merge(pins, fresh)
      /\ new.methods = methods /\ new.sources = sources
  <2> HIDE DEF pins, fresh, methods, sources
  <2> QED BY <1>1, LockFields DEF new
<1>4. ~IsV2(new)
  BY <1>3 DEF IsV2
<1>5. SchemaOK(scope)
  BY FilterToolsOK
<1> HIDE DEF scope
<1>6. PinsOK(pins)
  BY NoPins DEF LockOK
<1>7. FreshOK(scope, pins, fresh)
  <2>1. PinsOK(Pins(None)) /\ Pins(None) = Nothing
    BY NoPins DEF Pins
  <2>2. FreshOK(scope, Nothing, fresh)
    BY <1>5, <2>1, FreshPins
  <2>3. \A k : PinIn(Nothing, k).value = None
    BY NoPins DEF NoPin
  <2> HIDE DEF fresh, pins
  <2> QED BY <2>2, <2>3 DEF FreshOK
<1> HIDE DEF fresh, pins
<1>8. /\ PinsOK(new.pins)
      /\ \A k \in Keys(scope) :
           LET m == MethodAt(scope, k)
               pin == PinIn(new.pins, k)
           IN /\ MutablePinned(m) => pin.sel = m.sel /\ pin.value # None
              /\ m.kind = "http" /\ ~m.fixed => pin.value # None
              /\ m.kind \in {"git", "npm"} /\ m.fixed => pin.sel = None /\ pin.value = None
      /\ \A k \in DOMAIN pins :
           k \notin Keys(scope) => k \in DOMAIN new.pins /\ new.pins[k] = pins[k]
  BY <1>3, <1>5, <1>6, <1>7, MergedPins
<1>9. LockOK(new)
  BY <1>3, <1>4, <1>8 DEF LockOK
<1>10. \A t \in Installable(scope) : Lookup(methods, t) = MethodsHash(scope)[t]
  BY DEF Lookup, Over, MethodsHash
<1>11. ASSUME NEW k \in Keys(scope) PROVE Lookup(sources, k) = MethodAt(scope, k).srcs
  <2>1. Lookup(SourceHash(scope), k) = MethodAt(scope, k).srcs
    BY SourceHashLookup
  <2>2. k[1] \in DOMAIN scope
    BY <1>5, KeyHasPlace
  <2>3. Lookup(sources, k) = Lookup(SourceHash(scope), k)
    BY <2>2 DEF Lookup, Over
  <2> QED BY <2>1, <2>3
<1>12. Validates(s, profile, new)
  <2> DEFINE u == Unchecked(scope, new)
  <2>1. FilterTools(s, profile /\ ~IsV2(new)) = scope
    <3>1. (profile /\ ~IsV2(new)) = profile
      BY <1>2, <1>4
    <3> QED BY <3>1 DEF scope
  <2>2. FrozenIdentity(u, new)
    <3> HIDE DEF methods, sources
    <3> QED BY <1>3, <1>5, <1>10, <1>11, IdentityOfPart
  <2>3. ASSUME NEW k \in Keys(u) PROVE PinUpToDate(MethodAt(u, k), PinIn(new.pins, k))
    <3>1. LET m == MethodAt(scope, k) IN
             /\ k \in Keys(scope)
             /\ MethodAt(u, k).kind = m.kind /\ MethodAt(u, k).sel = m.sel
             /\ MethodAt(u, k).fixed = m.fixed /\ MethodAt(u, k).sum # AutoSum
      BY <1>4, <1>5, UncheckedSame
    <3> HIDE DEF u
    <3> QED BY <1>8, <3>1 DEF PinUpToDate, MutablePinned
  <2> HIDE DEF u
  <2>4. ValidateFrozen(u, new)
    BY <1>4, <2>2, <2>3, Zenon DEF ValidateFrozen, PinIn
  <2>5. PinsMatchRequests(new)
    BY <1>8, PinsMatch
  <2> QED BY <2>1, <2>4, <2>5, Zenon DEF Validates, u
<1>13. ASSUME old # None PROVE OthersKept(s, old, new)
  <2>1. scope = FilterTools(s, TRUE) /\ pins = old.pins
    BY <1>2, <1>13 DEF scope, pins
  <2>2. \A k \in DOMAIN old.pins : k[1] \notin DOMAIN scope => Lookup(new.pins, k) = old.pins[k]
    BY <1>5, <1>8, <2>1, ForeignKey DEF Lookup
  <2>3. \A t \in DOMAIN old.methods \ DOMAIN scope : Lookup(new.methods, t) = old.methods[t]
    BY <1>3, <1>13 DEF Lookup, Over, MethodsHash, Installable
  <2> QED BY <1>2, <2>1, <2>2, <2>3, Zenon DEF OthersKept
<1> QED BY <1>9, <1>12, <1>13 DEF new

(***************************************************************************)
(* What install works with.                                                *)
(***************************************************************************)
\* Every mutable candidate of the scope has a value in a v1 lock.
PinsComplete(s, lk) ==
  \A k \in Keys(s) :
    LET m == MethodAt(s, k)
        pin == PinIn(lk.pins, k)
    IN /\ MutablePinned(m) => pin.sel = m.sel /\ pin.value # None
       /\ m.kind = "http" /\ ~m.fixed => pin.value # None

\* new keeps the identities of old: what InstallKeepsIdentity says.
IdentityKept(old, new) ==
  /\ \A t \in DOMAIN old.methods : Lookup(new.methods, t) = old.methods[t]
  /\ \A k \in DOMAIN old.sources \cup DOMAIN new.sources :
       k[1] \in DOMAIN old.methods => Lookup(new.sources, k) = Lookup(old.sources, k)

LEMMA CompletedLock ==
  ASSUME NEW s, SchemaOK(s), NEW old, old = None \/ LockOK(old), ~IsV2(old),
         NEW up \in [Selectors -> Nat],
         MergeInstallLock(old, s, ResolveLegacyV1(s, ApplyLegacyV1(s, old), up)) # None
  PROVE  LET new == MergeInstallLock(old, s, ResolveLegacyV1(s, ApplyLegacyV1(s, old), up)) IN
         /\ LockOK(new) /\ PinsComplete(s, new)
         /\ old # None => IdentityKept(old, new)
<1> DEFINE fresh == ResolveLegacyV1(s, ApplyLegacyV1(s, old), up)
           new == MergeInstallLock(old, s, fresh)
<1>1. PinsOK(Pins(old))
  BY NoPins DEF Pins, LockOK
<1>2. FreshOK(s, Pins(old), fresh)
  BY <1>1, FreshPins
<1> HIDE DEF fresh
<1>3. CASE old = None
  <2>1. new = Lock(1, Nothing, fresh.pins, MethodsHash(s), SourceHash(s))
    BY <1>3 DEF MergeInstallLock
  <2>2. new.version = 1 /\ new.pins = fresh.pins /\ new # None
    <3> HIDE DEF new
    <3> QED BY <2>1, LockFields DEF new, fresh
  <2>3. Pins(old) = Nothing /\ \A k : PinIn(Nothing, k).value = None
    BY <1>3, NoPins DEF Pins, NoPin
  <2> HIDE DEF new
  <2>4. LockOK(new)
    BY <1>2, <2>2 DEF LockOK, FreshOK, IsV2
  <2>5. PinsComplete(s, new)
    BY <1>2, <2>2, <2>3 DEF PinsComplete, FreshOK
  <2> QED BY <1>3, <2>4, <2>5 DEF new, fresh
<1>4. CASE old # None
  <2> DEFINE added == [k \in {k \in DOMAIN SourceHash(s) : k[1] \notin DOMAIN old.methods} |->
                         SourceHash(s)[k]]
  <2>1. new = Lock(1, Nothing, Merge(old.pins, fresh), Over(old.methods, MethodsHash(s)),
                   Over(old.sources, added))
    BY <1>4, Zenon DEF MergeInstallLock
  <2>2. /\ new.version = 1 /\ new.pins = Merge(old.pins, fresh) /\ new # None
        /\ new.methods = Over(old.methods, MethodsHash(s))
        /\ new.sources = Over(old.sources, added)
    <3> HIDE DEF new, added
    <3> QED BY <2>1, LockFields DEF new, fresh
  <2>3. Pins(old) = old.pins
    BY <1>4 DEF Pins
  <2> HIDE DEF new
  <2>4. PinsOK(new.pins) /\ PinsComplete(s, new)
    BY <1>1, <1>2, <2>2, <2>3, MergedPins DEF PinsComplete
  <2>5. LockOK(new)
    BY <2>2, <2>4 DEF LockOK, IsV2
  <2>6. \A t \in DOMAIN old.methods : Lookup(new.methods, t) = old.methods[t]
    BY <2>2 DEF Lookup, Over
  <2>7. ASSUME NEW k, k[1] \in DOMAIN old.methods
        PROVE  Lookup(new.sources, k) = Lookup(old.sources, k)
    <3>1. k \notin DOMAIN added
      BY <2>7
    <3> HIDE DEF added
    <3> QED BY <2>2, <3>1 DEF Lookup, Over
  <2> QED BY <2>4, <2>5, <2>6, <2>7 DEF IdentityKept, new, fresh
<1> QED BY <1>3, <1>4

\* The lock an installation has in its hands, whatever the file was
LEMMA InstallLock ==
  ASSUME NEW s, SchemaOK(s), NEW f, Load(f) = None \/ LockOK(Load(f)), NEW frozen \in BOOLEAN,
         NEW up \in [Selectors -> Nat],
         ResolveInstallLock(s, f, frozen, up) # None
  PROVE  LET new == ResolveInstallLock(s, f, frozen, up) IN
         /\ LockOK(new) /\ (~IsV2(new) => PinsComplete(s, new))
         /\ Load(f) # None => IdentityKept(Load(f), new)
<1> DEFINE old == Load(f)
           merged == MergeInstallLock(old, s, ResolveLegacyV1(s, ApplyLegacyV1(s, old), up))
           new == ResolveInstallLock(s, f, frozen, up)
<1>1. new = IF frozen /\ (old = None \/ ~ValidateFrozen(s, old)) THEN None
            ELSE IF IsV2(old) \/ frozen THEN old
            ELSE IF PackageIdentityKept(s, old) THEN merged ELSE None
  BY Zenon DEF ResolveInstallLock
<1>2. new # None
  OBVIOUS
<1> HIDE DEF new, merged, old
<1>3. CASE IsV2(old) \/ frozen
  <2>1. new = old /\ old # None /\ (frozen => ValidateFrozen(s, old))
    BY <1>1, <1>2, <1>3
  <2>2. LockOK(new) /\ IdentityKept(old, new)
    BY <2>1 DEF IdentityKept, Lookup, old
  <2>3. ASSUME ~IsV2(new) PROVE PinsComplete(s, new)
    <3>1. ValidateFrozen(s, old)
      BY <1>3, <2>1, <2>3
    <3>2. \A k \in Keys(s) : PinUpToDate(MethodAt(s, k), PinIn(old.pins, k))
      BY <2>1, <2>3, <3>1, Zenon DEF ValidateFrozen, PinIn
    <3> QED BY <2>1, <3>2 DEF PinsComplete, PinUpToDate
  <2> QED BY <2>2, <2>3 DEF new, old
<1>4. CASE ~IsV2(old) /\ ~frozen
  <2>1. new = merged
    BY <1>1, <1>2, <1>4
  <2> QED BY <1>2, <1>4, <2>1, CompletedLock DEF new, merged, old
<1> QED BY <1>3, <1>4

(***************************************************************************)
(* What install settles a tool on.                                         *)
(***************************************************************************)
\* The result r of tool t is what lk says: what LockReproduced says of it.
Reproduces(s, lk, t, r) ==
  LET m == s[t].methods[r.at]
      key == ToolKey(s, t, r.at)
  IN (~m.fixed /\ m.kind # "native") =>
       IF IsV2(lk)
       THEN ProjectLock(r.plan) = lk.doc[t]
       ELSE lk.pins[key].value =
              (CASE m.kind = "git" -> r.plan.identity["revision"]
                 [] m.kind = "npm" -> r.plan.identity["version"]
                 [] OTHER -> (CHOOSE x \in r.plan.artifacts : TRUE).place)

\* A plan that reproduces an entry projects to it.
LEMMA DocumentReproduced ==
  ASSUME NEW doc, DocumentOK(doc), NEW p, NEW resolved,
         ResolveCandidatePlan(doc, p, resolved) # None
  PROVE  ProjectLock(ResolveCandidatePlan(doc, p, resolved)) = doc[p.tool]
<1> DEFINE e == EntryForPlan(doc, p)
           a == ProjectLock(resolved)
<1>1. ResolveCandidatePlan(doc, p, resolved) = resolved
  BY Zenon DEF ResolveCandidatePlan
<1>2. VerifyResolvedPlanAgainstLock(e, resolved)
  BY Zenon DEF ResolveCandidatePlan, DocumentOK
<1>3. SameProjection(e, a)
  BY <1>2, Zenon DEF VerifyResolvedPlanAgainstLock
<1>4. e = doc[p.tool] /\ p.tool \in DOMAIN doc
  <2>1. e # None
    BY <1>3 DEF SameProjection, RequireImmutable
  <2> QED BY <2>1, Zenon DEF EntryForPlan
<1>5. EntryOK(p.tool, e)
  BY <1>4 DEF DocumentOK
<1>6. EntryOK(resolved.tool, a)
  BY <1>3, ProjectedEntry DEF SameProjection
<1> HIDE DEF e, a
<1>7. e = a
  BY <1>3, <1>5, <1>6 DEF EntryOK, SameProjection, LockedArtifactsEqual
<1> QED BY <1>1, <1>4, <1>7 DEF a

\* A candidate with a value from a v1 lock resolves to that value.
LEMMA PinReproduced ==
  ASSUME NEW t, NEW m, MethodOK(m), ~m.fixed, m.kind # "native",
         NEW a, a.value # None, NEW up, ResolvedPlan(None, t, m, a, up) # None
  PROVE  LET plan == ResolvedPlan(None, t, m, a, up)
         IN a.value = (CASE m.kind = "git" -> plan.identity["revision"]
                         [] m.kind = "npm" -> plan.identity["version"]
                         [] OTHER -> (CHOOSE x \in plan.artifacts : TRUE).place)
<1> DEFINE p == Intent(t, m)
           plan == ResolvedPlan(None, t, m, a, up)
           fresh == {[local |-> FALSE, place |-> a.value, sig |-> None, sum |-> a.sum]}
<1>1. plan = Adapter(m, a, up, p)
  BY Zenon DEF ResolvedPlan, ResolveCandidatePlan, ResolutionRequest
<1>2. /\ p.artifacts = {} /\ DOMAIN p.identity = Dims
      /\ p = [tool |-> p.tool, cand |-> p.cand, intent |-> p.intent, identity |-> p.identity,
              artifacts |-> p.artifacts, sources |-> p.sources]
  BY DEF Intent, StaticPlan, NoIdentity
<1> HIDE DEF p, plan
<1>3. {"revision", "version", "source"} \subseteq Dims
  BY DEF Dims
<1>4. CASE m.kind = "git"
  <2>1. plan = [p EXCEPT !.identity["revision"] = a.value, !.identity["source"] = m.sel]
    BY <1>1, <1>4 DEF Adapter
  <2>2. plan.identity["revision"] = a.value
    BY <1>2, <1>3, <2>1
  <2> QED BY <1>4, <2>2 DEF plan
<1>5. CASE m.kind = "npm"
  <2>1. plan = [p EXCEPT !.identity["version"] = a.value]
    BY <1>1, <1>5 DEF Adapter
  <2>2. plan.identity["version"] = a.value
    BY <1>2, <1>3, <2>1
  <2> QED BY <1>5, <2>2 DEF plan
<1>6. CASE m.kind = "http"
  <2>1. plan.artifacts = fresh
    BY <1>1, <1>2, <1>6 DEF Adapter
  <2> DEFINE c == CHOOSE x \in plan.artifacts : TRUE
  <2>2. c \in plan.artifacts
    <3>1. \E x : x \in plan.artifacts
      BY <2>1
    <3> QED BY <3>1
  <2>3. \A x \in plan.artifacts : x.place = a.value
    BY <2>1
  <2>4. c.place = a.value
    <3> HIDE DEF c
    <3> QED BY <2>2, <2>3
  <2> QED BY <1>6, <2>4 DEF plan
<1> QED BY <1>4, <1>5, <1>6 DEF MethodOK, Kinds

\* A tool settled on a candidate of the lock's scope
LEMMA SettledTool ==
  ASSUME NEW s, SchemaOK(s), NEW lk, LockOK(lk), ~IsV2(lk) => PinsComplete(s, lk),
         NEW t \in DOMAIN s, NEW i \in DOMAIN s[t].methods, NEW up, NEW already,
         ResolvedPlan(IF IsV2(lk) THEN lk.doc ELSE None, t, s[t].methods[i],
                      ApplyLegacyV1(s, lk)[ToolKey(s, t, i)], up) # None
  PROVE  Reproduces(s, lk, t,
           Result(i, ResolvedPlan(IF IsV2(lk) THEN lk.doc ELSE None, t, s[t].methods[i],
                                  ApplyLegacyV1(s, lk)[ToolKey(s, t, i)], up), already))
<1> DEFINE m == s[t].methods[i]
           key == ToolKey(s, t, i)
           a == ApplyLegacyV1(s, lk)[key]
           doc == IF IsV2(lk) THEN lk.doc ELSE None
           plan == ResolvedPlan(doc, t, m, a, up)
           r == Result(i, plan, already)
<1>1. r.at = i /\ r.plan = plan
  <2> HIDE DEF plan
  <2> QED BY DEF Result
<1> HIDE DEF r
<1>2. CASE IsV2(lk)
  <2>1. DocumentOK(lk.doc) /\ doc = lk.doc
    BY <1>2 DEF LockOK
  <2>2. \E resolved : plan = ResolveCandidatePlan(lk.doc, Intent(t, m), resolved)
    BY <2>1, Zenon DEF ResolvedPlan
  <2>3. Intent(t, m).tool = t
    BY DEF Intent, StaticPlan
  <2> HIDE DEF plan
  <2>4. ProjectLock(plan) = lk.doc[t]
    BY <2>1, <2>2, <2>3, DocumentReproduced DEF plan
  <2> QED BY <1>1, <1>2, <2>4 DEF Reproduces, r, plan
<1>3. CASE ~IsV2(lk) /\ ~m.fixed /\ m.kind # "native"
  <2>1. key \in Keys(s) /\ MethodAt(s, key) = m
    BY MethodAtKey
  <2>2. MethodOK(m)
    BY DEF SchemaOK
  <2>3. Pins(lk) = lk.pins /\ PinsOK(Pins(lk))
    BY <1>3 DEF Pins, LockOK
  <2>4. /\ MutablePinned(m) => PinIn(lk.pins, key).sel = m.sel
        /\ PinIn(lk.pins, key).value # None
    <3> HIDE DEF m, key
    <3> QED BY <1>3, <2>1, <2>2 DEF PinsComplete, MutablePinned, MethodOK, Kinds
  <2>5. a.value = PinIn(lk.pins, key).value
    <3> HIDE DEF m, key
    <3>1. a.value = IF m.kind = "http" \/ (MutablePinned(m) /\ PinIn(lk.pins, key).sel = m.sel)
                    THEN PinIn(lk.pins, key).value ELSE None
      BY <2>1, <2>3, AppliedPins
    <3> QED BY <1>3, <2>2, <2>4, <3>1 DEF MutablePinned, MethodOK, Kinds
  <2>6. lk.pins[key].value = a.value /\ a.value # None
    <3> HIDE DEF a, key
    <3> QED BY <2>4, <2>5 DEF PinIn, NoPin
  <2>7. doc = None
    BY <1>3
  <2> HIDE DEF m, key, a, doc
  <2>8. a.value = (CASE m.kind = "git" -> plan.identity["revision"]
                     [] m.kind = "npm" -> plan.identity["version"]
                     [] OTHER -> (CHOOSE x \in plan.artifacts : TRUE).place)
    <3>1. ResolvedPlan(None, t, m, a, up) # None
      BY <2>7 DEF doc, m, a, key
    <3> QED BY <1>3, <2>2, <2>6, <2>7, <3>1, PinReproduced
  <2> HIDE DEF plan
  <2>9. Reproduces(s, lk, t, r)
    BY <1>1, <1>3, <2>6, <2>8, Zenon DEF Reproduces, m, key
  <2> QED BY <2>9 DEF r, plan, doc, m, a, key
<1>4. CASE ~IsV2(lk) /\ ~(~m.fixed /\ m.kind # "native")
  BY <1>1, <1>4 DEF Reproduces, r
<1> QED BY <1>2, <1>3, <1>4

(***************************************************************************)
(* The inductive invariant.  The four properties speak of one process and  *)
(* of the lock it holds; what makes them inductive is that every lock in   *)
(* the file is one that update or install made: its pins are of the        *)
(* selectors they name and its entries project to themselves again.        *)
(***************************************************************************)
WriteOK(run) ==
  /\ run.pc = "write"
  /\ LockOK(run.lock) /\ Validates(run.schema, run.profile, run.lock)
  /\ run.profile /\ run.old # None => OthersKept(run.schema, run.old, run.lock)

InstallOK(run) ==
  /\ DOMAIN run = {"pc", "lock", "old", "schema", "frozen", "todo", "results"}
  /\ run.pc \in {"tools", "complete", "sync"}
  /\ SchemaOK(run.schema) /\ LockOK(run.lock)
  /\ ~IsV2(run.lock) => PinsComplete(run.schema, run.lock)
  /\ run.old # None => IdentityKept(run.old, run.lock)
  /\ run.todo \subseteq Installable(run.schema)
  /\ \A t \in DOMAIN run.results : Reproduces(run.schema, run.lock, t, run.results[t])

RunOK(run) == run.pc = "idle" \/ WriteOK(run) \/ InstallOK(run)

FileOK(f) == Load(f) = None \/ LockOK(Load(f))

IInv ==
  /\ schema \in Schemas /\ upstream \in [Selectors -> Nat]
  /\ FileOK(file)
  /\ proc = [p \in Processes |-> proc[p]]
  /\ \A p \in Processes : RunOK(proc[p])

LEMMA IInvInit == Init => IInv
<1> SUFFICES ASSUME Init PROVE IInv
  OBVIOUS
<1>1. upstream \in [Selectors -> Nat] /\ schema \in Schemas
  BY DEF Init
<1>2. FileOK(file)
  BY DEF Init, FileOK, Load
<1>3. proc = [p \in Processes |-> proc[p]] /\ \A p \in Processes : RunOK(proc[p])
  BY DEF Init, RunOK, Idle
<1> QED BY <1>1, <1>2, <1>3 DEF IInv

\* A process that ends up with a good run disturbs no other.
LEMMA ProcessStep ==
  ASSUME IInv, NEW p \in Processes, NEW run, RunOK(run),
         proc' = [proc EXCEPT ![p] = run],
         schema' = schema, upstream' = upstream, FileOK(file')
  PROVE  IInv'
<1>1. proc' = [q \in Processes |-> proc'[q]]
  BY DEF IInv
<1>2. ASSUME NEW q \in Processes PROVE RunOK(proc'[q])
  <2>1. proc'[q] = IF q = p THEN run ELSE proc[q]
    BY DEF IInv
  <2> QED BY <2>1 DEF IInv
<1> QED BY <1>1, <1>2 DEF IInv

LEMMA IdleOK == RunOK(Idle)
BY DEF RunOK, Idle

LEMMA UpdateSteps ==
  ASSUME IInv, NEW p \in Processes, UpdateResolve(p) \/ UpdateSave(p) \/ Stop(p)
  PROVE  IInv'
<1>1. CASE UpdateResolve(p)
  <2>1. PICK profile \in BOOLEAN, down \in Outages :
          /\ UpdatedLock(Load(file), schema, profile, upstream, down) # None
          /\ proc' = [proc EXCEPT ![p] =
               [pc |-> "write", lock |-> UpdatedLock(Load(file), schema, profile, upstream, down),
                old |-> Load(file), schema |-> schema,
                profile |-> profile, since |-> upstream]]
          /\ UNCHANGED <<schema, upstream, file, host, records>>
    BY <1>1 DEF UpdateResolve
  <2> DEFINE new == UpdatedLock(Load(file), schema, profile, upstream, down)
             run == [pc |-> "write", lock |-> new, old |-> Load(file), schema |-> schema,
                     profile |-> profile, since |-> upstream]
  <2>2. /\ SchemaOK(schema) /\ upstream \in [Selectors -> Nat]
        /\ Load(file) = None \/ LockOK(Load(file))
    BY SchemasOK DEF IInv, FileOK
  <2>3. /\ LockOK(new) /\ Validates(schema, profile, new)
        /\ profile /\ Load(file) # None => OthersKept(schema, Load(file), new)
    BY <2>1, <2>2, UpdateOfAll, UpdateOfProfile
  <2> HIDE DEF new
  <2>4. WriteOK(run)
    BY <2>3 DEF WriteOK
  <2>5. FileOK(file')
    BY <2>1 DEF IInv
  <2> QED BY <2>1, <2>4, <2>5, ProcessStep DEF RunOK, new
<1>2. CASE UpdateSave(p)
  <2>1. proc[p].pc = "write" /\ WriteOK(proc[p])
    BY <1>2 DEF UpdateSave, At, IInv, RunOK, InstallOK
  <2>2. FileOK(file')
    BY <1>2, <2>1 DEF UpdateSave, FileOK, Load, WriteOK
  <2> QED BY <1>2, <2>2, ProcessStep, IdleOK DEF UpdateSave
<1>3. CASE Stop(p)
  <2>1. FileOK(file')
    BY <1>3 DEF Stop, IInv
  <2> QED BY <1>3, <2>1, ProcessStep, IdleOK DEF Stop
<1> QED BY <1>1, <1>2, <1>3

LEMMA InstallBeginStep ==
  ASSUME IInv, NEW p \in Processes, InstallBegin(p)
  PROVE  IInv'
<1>1. PICK profile \in BOOLEAN, frozen \in BOOLEAN :
        LET s == FilterTools(schema, profile)
            lk == ResolveInstallLock(s, file, frozen, upstream)
        IN /\ lk # None
           /\ proc' = [proc EXCEPT ![p] =
                [pc |-> "tools", lock |-> lk, old |-> Load(file), schema |-> s,
                 frozen |-> frozen, todo |-> Installable(s), results |-> Nothing]]
  BY DEF InstallBegin
<1> DEFINE s == FilterTools(schema, profile)
           lk == ResolveInstallLock(s, file, frozen, upstream)
           run == [pc |-> "tools", lock |-> lk, old |-> Load(file), schema |-> s,
                   frozen |-> frozen, todo |-> Installable(s), results |-> Nothing]
<1>2. SchemaOK(s)
  BY SchemasOK, FilterToolsOK DEF IInv
<1>3. /\ LockOK(lk) /\ (~IsV2(lk) => PinsComplete(s, lk))
      /\ Load(file) # None => IdentityKept(Load(file), lk)
  <2> HIDE DEF s
  <2> QED BY <1>1, <1>2, InstallLock DEF IInv, FileOK, s
<1> HIDE DEF s, lk
<1>4. InstallOK(run)
  BY <1>2, <1>3 DEF InstallOK, Nothing
<1>5. proc' = [proc EXCEPT ![p] = run]
  BY <1>1 DEF s, lk
<1>6. FileOK(file') /\ schema' = schema /\ upstream' = upstream
  BY DEF InstallBegin, IInv
<1> QED BY <1>4, <1>5, <1>6, ProcessStep DEF RunOK

LEMMA LowestExists ==
  ASSUME NEW S \in SUBSET Nat, S # {}
  PROVE  (CHOOSE i \in S : \A j \in S : i <= j) \in S
<1> DEFINE R == OpToRel(<, Nat)
<1>1. IsWellFoundedOn(R, Nat)
  BY NatLessThanWellFounded
<1>2. \A x, y \in Nat : y < x => <<y, x>> \in R
  BY DEF OpToRel
<1> HIDE DEF R
<1>3. PICK x \in S : \A y \in S : ~(<<y, x>> \in R)
  BY <1>1, WFMin
<1>4. ASSUME NEW y \in S PROVE x <= y
  <2>1. x \in Nat /\ y \in Nat
    OBVIOUS
  <2>2. ~(y < x)
    BY <1>2, <1>3, <2>1
  <2> QED BY <2>1, <2>2
<1> QED BY <1>4

LEMMA InstallToolStep ==
  ASSUME IInv, NEW p \in Processes, InstallTool(p)
  PROVE  IInv'
<1>1. PICK t \in proc[p].todo, down \in Outages :
        LET run == proc[p]
            methods == run.schema[t].methods
            doc == IF IsV2(run.lock) THEN run.lock.doc ELSE None
            applied == ApplyLegacyV1(run.schema, run.lock)
        IN \E plan \in {[i \in DOMAIN methods |->
                          ResolvedPlan(doc, t, methods[i],
                                       applied[ToolKey(run.schema, t, i)], upstream)]} :
            LET There(i) == Satisfied(methods[i], plan[i], host[<<t, methods[i].kind>>])
                fit == {i \in DOMAIN methods :
                          /\ methods[i].kind \notin down /\ plan[i] # None
                          /\ There(i) \/ Verifies(methods[i], plan[i])}
                i == CHOOSE i \in fit : \A j \in fit : i <= j
            IN /\ proc' = [proc EXCEPT ![p].todo = @ \ {t},
                             ![p].results = IF fit = {} THEN @
                               ELSE Over(@, [x \in {t} |-> Result(i, plan[i], There(i))])]
               /\ host' = IF fit = {} \/ There(i) THEN host
                          ELSE [host EXCEPT ![<<t, methods[i].kind>>] =
                                  Installs(methods[i], plan[i], upstream)]
  BY Zenon DEF InstallTool
<1> DEFINE run == proc[p]
           lk == run.lock
           s == run.schema
           doc == IF IsV2(lk) THEN lk.doc ELSE None
           Plan(u, k) == ResolvedPlan(doc, u, s[u].methods[k],
                                      ApplyLegacyV1(s, lk)[ToolKey(s, u, k)], upstream)
<1>2. InstallOK(run) /\ run.pc = "tools"
  BY DEF IInv, InstallTool, At, RunOK, WriteOK
<1> DEFINE plan == [i \in DOMAIN s[t].methods |-> Plan(t, i)]
           There(q, i) == Satisfied(s[t].methods[i], q[i], host[<<t, s[t].methods[i].kind>>])
           Fit(q) == {i \in DOMAIN s[t].methods :
                       /\ s[t].methods[i].kind \notin down /\ q[i] # None
                       /\ There(q, i) \/ Verifies(s[t].methods[i], q[i])}
           First(q) == CHOOSE i \in Fit(q) : \A j \in Fit(q) : i <= j
           Settled(q) == Result(First(q), q[First(q)], There(q, First(q)))
           Moved(q) == proc' = [proc EXCEPT ![p].todo = @ \ {t},
                                  ![p].results = IF Fit(q) = {} THEN @
                                    ELSE Over(@, [x \in {t} |-> Settled(q)])]
           fit == Fit(plan)
           c == First(plan)
           r == Settled(plan)
           results == IF fit = {} THEN run.results ELSE Over(run.results, [x \in {t} |-> r])
           next == [run EXCEPT !.todo = @ \ {t}, !.results = results]
<1>3. proc' = [proc EXCEPT ![p] = next]
  <2>1. \E q \in {plan} : Moved(q)
    BY <1>1, Zenon
  <2>2. Moved(plan)
    <3> HIDE DEF Moved, plan
    <3> QED BY <2>1
  <2> HIDE DEF fit, r
  <2>3. proc' = [proc EXCEPT ![p].todo = @ \ {t},
                  ![p].results = IF fit = {} THEN @ ELSE Over(@, [x \in {t} |-> r])]
    BY <2>2, Zenon DEF fit, r
  <2> QED BY <2>3 DEF IInv
<1>4. t \in DOMAIN s /\ t \in Installable(s) /\ SchemaOK(s)
  BY <1>2 DEF InstallOK, Installable
<1>5. ASSUME fit # {}
      PROVE  /\ c \in DOMAIN s[t].methods
             /\ plan[c] = Plan(t, c) /\ plan[c] # None
  <2>1. fit \subseteq DOMAIN s[t].methods /\ \A i \in fit : plan[i] # None
    <3> HIDE DEF plan, There
    <3> QED OBVIOUS
  <2>2. DOMAIN s[t].methods \subseteq Nat
    BY <1>4 DEF SchemaOK
  <2> HIDE DEF Fit
  <2>3. c \in fit
    BY <1>5, <2>1, <2>2, LowestExists
  <2> HIDE DEF c, Plan
  <2> QED BY <2>1, <2>3
<1>6. ASSUME fit # {} PROVE Reproduces(s, lk, t, r)
  <2>1. c \in DOMAIN s[t].methods /\ plan[c] = Plan(t, c) /\ Plan(t, c) # None
    BY <1>5, <1>6
  <2>2. r = Result(c, plan[c], There(plan, c))
    OBVIOUS
  <2> HIDE DEF c, plan, There, fit, r
  <2>3. Reproduces(s, lk, t, Result(c, Plan(t, c), There(plan, c)))
    BY <1>2, <1>4, <2>1, SettledTool DEF InstallOK
  <2> QED BY <2>1, <2>2, <2>3
<1>7. \A x \in DOMAIN results : Reproduces(s, lk, x, results[x])
  <2>1. \A x \in DOMAIN run.results : Reproduces(s, lk, x, run.results[x])
    BY <1>2 DEF InstallOK
  <2>2. fit # {} => Reproduces(s, lk, t, r)
    BY <1>6
  <2> HIDE DEF r, fit
  <2> QED BY <2>1, <2>2 DEF Over
<1> HIDE DEF results
<1>8. /\ DOMAIN next = DOMAIN run /\ next.pc = run.pc /\ next.lock = run.lock
      /\ next.old = run.old /\ next.schema = run.schema
      /\ next.todo = run.todo \ {t} /\ next.results = results
  BY <1>2 DEF InstallOK
<1> HIDE DEF next
<1>9. InstallOK(next)
  BY <1>2, <1>7, <1>8 DEF InstallOK
<1>10. FileOK(file') /\ schema' = schema /\ upstream' = upstream
  BY DEF InstallTool, IInv
<1> QED BY <1>3, <1>9, <1>10, ProcessStep DEF RunOK

LEMMA InstallEndSteps ==
  ASSUME IInv, NEW p \in Processes,
         WriteState(p) \/ SaveResolvedLegacyInstallLock(p) \/ SyncInstalledVersions(p)
  PROVE  IInv'
<1>1. ASSUME NEW pc \in {"complete", "sync"}, InstallOK(proc[p])
      PROVE  InstallOK([proc[p] EXCEPT !.pc = pc])
  <2> DEFINE run == proc[p]
             next == [run EXCEPT !.pc = pc]
  <2>1. /\ DOMAIN next = DOMAIN run /\ next.pc = pc /\ next.lock = run.lock
        /\ next.old = run.old /\ next.schema = run.schema
        /\ next.todo = run.todo /\ next.results = run.results
    BY <1>1 DEF InstallOK
  <2> HIDE DEF next
  <2>2. InstallOK(next)
    BY <1>1, <2>1 DEF InstallOK
  <2> QED BY <2>2 DEF next
<1>2. CASE WriteState(p)
  <2>1. InstallOK(proc[p])
    BY <1>2 DEF WriteState, At, IInv, RunOK, WriteOK
  <2>2. PICK pc \in {"complete", "sync"} : proc' = [proc EXCEPT ![p].pc = pc]
    BY <1>2 DEF WriteState
  <2>3. proc' = [proc EXCEPT ![p] = [proc[p] EXCEPT !.pc = pc]]
    BY <2>2 DEF IInv
  <2>4. FileOK(file') /\ schema' = schema /\ upstream' = upstream
    BY <1>2 DEF WriteState, IInv
  <2> QED BY <1>1, <2>1, <2>3, <2>4, ProcessStep DEF RunOK
<1>3. CASE SaveResolvedLegacyInstallLock(p)
  <2>1. InstallOK(proc[p])
    BY <1>3 DEF SaveResolvedLegacyInstallLock, At, IInv, RunOK, WriteOK
  <2>2. proc' = [proc EXCEPT ![p] = [proc[p] EXCEPT !.pc = "sync"]]
    BY <1>3 DEF SaveResolvedLegacyInstallLock, IInv
  <2>3. FileOK(file') /\ schema' = schema /\ upstream' = upstream
    BY <1>3, <2>1 DEF SaveResolvedLegacyInstallLock, IInv, FileOK, Load, InstallOK
  <2> QED BY <1>1, <2>1, <2>2, <2>3, ProcessStep DEF RunOK
<1>4. CASE SyncInstalledVersions(p)
  <2>1. proc' = [proc EXCEPT ![p] = Idle] /\ FileOK(file') /\ schema' = schema /\ upstream' = upstream
    BY <1>4 DEF SyncInstalledVersions, IInv
  <2> QED BY <2>1, ProcessStep, IdleOK
<1> QED BY <1>2, <1>3, <1>4

LEMMA SurroundingSteps ==
  ASSUME IInv, EditSchema \/ DamageLock \/ SelectorMoves
  PROVE  IInv'
<1>1. proc' = proc /\ schema' \in Schemas
  BY DEF EditSchema, DamageLock, SelectorMoves, IInv
<1>2. FileOK(file')
  BY DEF EditSchema, DamageLock, SelectorMoves, IInv, FileOK, Load
<1>3. upstream' \in [Selectors -> Nat]
  BY DEF EditSchema, DamageLock, SelectorMoves, IInv
<1> QED BY <1>1, <1>2, <1>3 DEF IInv

LEMMA IInvStep == IInv /\ [Next]_vars => IInv'
<1> SUFFICES ASSUME IInv, [Next]_vars PROVE IInv'
  OBVIOUS
<1>1. CASE UNCHANGED vars
  BY <1>1 DEF vars, IInv
<1>2. CASE EditSchema \/ DamageLock \/ SelectorMoves
  BY <1>2, SurroundingSteps
<1>3. ASSUME NEW p \in Processes, UpdateResolve(p) \/ UpdateSave(p) \/ Stop(p) PROVE IInv'
  BY <1>3, UpdateSteps
<1>4. ASSUME NEW p \in Processes, InstallBegin(p) \/ InstallTool(p) PROVE IInv'
  BY <1>4, InstallBeginStep, InstallToolStep
<1>5. ASSUME NEW p \in Processes,
             WriteState(p) \/ SaveResolvedLegacyInstallLock(p) \/ SyncInstalledVersions(p)
      PROVE  IInv'
  BY <1>5, InstallEndSteps
<1> QED BY <1>1, <1>2, <1>3, <1>4, <1>5 DEF Next

LEMMA IInvHolds == Spec => []IInv
BY IInvInit, IInvStep, PTL DEF Spec

(***************************************************************************)
(* The theorems.                                                           *)
(***************************************************************************)
\* Whatever schema it was resolved for and whatever other processes did to
\* the file meanwhile, the lock update is about to write passes the frozen
\* validation of that schema and pins only what its selectors stand for.
THEOREM LockValidates == Spec => []SavedLockValidates
<1>1. IInv => SavedLockValidates
  BY DEF IInv, RunOK, WriteOK, InstallOK, Validates, SavedLockValidates, At
<1> QED BY <1>1, IInvHolds, PTL

\* An update for a profile keeps the entries, pins and identities the lock it
\* loaded had for all other tools, but for entries that drifted.
THEOREM OtherToolsKept == Spec => []UpdateKeepsOthers
<1>1. IInv => UpdateKeepsOthers
  BY DEF IInv, RunOK, WriteOK, InstallOK, OthersKept, UpdateKeepsOthers, At
<1> QED BY <1>1, IInvHolds, PTL

\* An installation never completes a lock in a way that changes the identity
\* it had stored for a tool, so that an edited schema still fails --frozen.
THEOREM StoredIdentityKept == Spec => []InstallKeepsIdentity
<1>1. IInv => InstallKeepsIdentity
  BY DEF IInv, RunOK, WriteOK, InstallOK, IdentityKept, InstallKeepsIdentity, At
<1> QED BY <1>1, IInvHolds, PTL

\* Whatever selectors, schema and file have become since, an installation
\* settles every tool on what the lock in its hands says.
THEOREM InstallReproducesLock == Spec => []LockReproduced
<1>1. IInv => LockReproduced
  <2> SUFFICES ASSUME IInv, NEW p \in Processes, ~At(p, "idle"), ~At(p, "write"),
                      NEW t \in DOMAIN proc[p].results
               PROVE  Reproduces(proc[p].schema, proc[p].lock, t, proc[p].results[t])
    BY Zenon DEF LockReproduced, Reproduces
  <2>1. InstallOK(proc[p])
    BY DEF IInv, RunOK, WriteOK, At
  <2> QED BY <2>1 DEF InstallOK
<1> QED BY <1>1, IInvHolds, PTL

=============================================================================
