--------------------------- MODULE DependencyGraph ---------------------------
(***************************************************************************)
(* The typed dependency graph, internal/graph: built from the declared     *)
(* tools, projected on a host, sorted into levels, sliced and analysed.    *)
(* Tools are naturals in the alphabetical order of their names, so that    *)
(* "sorted by name" is "ascending".  Edges are a set: parallel edges that  *)
(* differ in kind, guard or candidate stay apart, exact copies collapse,   *)
(* which no result here can tell.                                          *)
(***************************************************************************)
EXTENDS Integers, Sequences, FiniteSets, SequencesExt, FiniteSetsExt

Unguarded == "none"

\* Edges run from the dependency to its dependent.
Edge(from, to, kind, guard, cand) ==
  [from |-> from, to |-> to, kind |-> kind, guard |-> guard, cand |-> cand,
   role |-> IF kind = "tool" THEN "scheduling" ELSE "activation",
   state |-> "declared"]

(***************************************************************************)
(* A declared tool: the tools it requires, the guard of each, and its      *)
(* method candidates, each with requirements and a guard of its own.       *)
(***************************************************************************)
ToolEdges(tools, t) ==
  {Edge(d, t, "tool", tools[t].guards[d], 0) : d \in Range(tools[t].requires)}

MethodEdges(tools, t) ==
  UNION {{Edge(d, t, "method", tools[t].methods[c].guard, c) :
            d \in Range(tools[t].methods[c].requires)} : c \in DOMAIN tools[t].methods}

BuildDeclaredGraph(tools) ==
  [nodes |-> DOMAIN tools,
   edges |-> UNION {ToolEdges(tools, t) \cup MethodEdges(tools, t) : t \in DOMAIN tools}]

SchedulingEdges(g) ==
  {e \in g.edges : e.role = "scheduling" /\ e.state # "inactive"}

\* The pairs <<dependency, dependent>> that order the run.
Order(g) == {<<e.from, e.to>> : e \in SchedulingEdges(g)}

(***************************************************************************)
(* SortGraph: Kahn's algorithm, one level at a time, and the cycle it      *)
(* reports when a level comes out empty.                                   *)
(***************************************************************************)
Dependencies(order, rem, n) == {m \in rem : <<m, n>> \in order}

LevelOf(order, rem) == {n \in rem : Dependencies(order, rem, n) = {}}

\* A function applied again and again, at most n times.
Iterate(F, x, n) ==
  LET it[k \in 0..n] == IF k = 0 THEN x ELSE F[it[k - 1]] IN it

\* What remains after k levels.
Remaining(order, nodes) ==
  Iterate([rem \in SUBSET nodes |-> rem \ LevelOf(order, rem)],
          nodes, Cardinality(nodes))

\* What is left once no level can be taken any more.
StuckIn(order, nodes) == Remaining(order, nodes)[Cardinality(nodes)]

Ascending(s) == \A i, j \in DOMAIN s : i < j => s[i] < s[j]

Sorted(S) == CHOOSE s \in SetToSeqs(S) : Ascending(s)

KahnLevels(order, nodes) ==
  LET level(k) == LevelOf(order, Remaining(order, nodes)[k - 1])
  IN  [k \in {i \in 1..Cardinality(nodes) : level(i) # {}} |-> Sorted(level(k))]

\* Follow the least remaining prerequisite until a tool repeats.
ExtractCycle(order, rem) ==
  LET walk[k \in Nat] ==
        IF k = 0 THEN Min(rem) ELSE Min(Dependencies(order, rem, walk[k - 1]))
      again == Min({k \in 1..Cardinality(rem) : \E i \in 0..(k - 1) : walk[i] = walk[k]})
      first == CHOOSE i \in 0..(again - 1) : walk[i] = walk[again]
  IN  [k \in 1..(again - first) |-> walk[first + k - 1]]

SortGraph(g) ==
  LET order   == Order(g)
      missing == {p \in order : p[1] \notin g.nodes \/ p[2] \notin g.nodes}
      stuck   == StuckIn(order, g.nodes)
  IN  IF missing # {} THEN [ok |-> FALSE, levels |-> <<>>, cycle |-> <<>>]
      ELSE IF stuck # {}
      THEN [ok |-> FALSE, levels |-> <<>>, cycle |-> ExtractCycle(order, stuck)]
      ELSE [ok |-> TRUE, levels |-> KahnLevels(order, g.nodes), cycle |-> <<>>]

(***************************************************************************)
(* Project: the declared view as it is; the effective view with the guards *)
(* decided on a host; the resolved view with the relations of the selected *)
(* candidates only.  Guards fail to evaluate when "unknown".               *)
(***************************************************************************)
NotSelected(e, view, selected) ==
  view = "resolved" /\ e.kind = "method" /\ e.cand # selected[e.to]

ProjectionFails(g, view, host) ==
  \E e \in g.edges : /\ e.guard # Unguarded
                     /\ ~NotSelected(e, view, host.selected)
                     /\ host.guards[e.guard] = "unknown"

Holds(e, host) == e.guard = Unguarded \/ host.guards[e.guard] = "true"

Project(g, view, host) ==
  IF view = "declared" THEN g
  ELSE LET kept == {e \in g.edges : /\ ~NotSelected(e, view, host.selected)
                                    /\ Holds(e, host) \/ host.inactive}
       IN  [g EXCEPT !.edges =
              {[e EXCEPT !.state = IF Holds(e, host) THEN "active" ELSE "inactive"] : e \in kept}]

(***************************************************************************)
(* Slice: the subgraph induced by what the roots reach within a depth.     *)
(***************************************************************************)
Unbounded == -1

Neighbours(g, S, direction) ==
  IF direction = "deps" THEN {e.from : e \in {x \in g.edges : x.to \in S}}
                        ELSE {e.to : e \in {x \in g.edges : x.from \in S}}

Reach(g, roots, direction, depth) ==
  LET hops  == IF depth = Unbounded THEN Cardinality(g.nodes) ELSE depth
      reached[k \in 0..hops] ==
        IF k = 0 THEN roots
        ELSE reached[k - 1] \cup Neighbours(g, reached[k - 1], direction)
  IN  reached[hops]

Slice(g, roots, direction, depth) ==
  LET keep == (IF direction # "dependents" THEN Reach(g, roots, "deps", depth) ELSE {})
              \cup (IF direction # "deps" THEN Reach(g, roots, "dependents", depth) ELSE {})
      nodes == keep \cap g.nodes
  IN  [nodes |-> nodes, edges |-> {e \in g.edges : e.from \in nodes /\ e.to \in nodes}]

(***************************************************************************)
(* Analyze: ranks, and the connected components of the undirected graph.   *)
(***************************************************************************)
ComponentOf(g, n) ==
  LET grow[k \in 0..Cardinality(g.nodes)] ==
        IF k = 0 THEN {n}
        ELSE grow[k - 1] \cup Neighbours(g, grow[k - 1], "deps")
                         \cup Neighbours(g, grow[k - 1], "dependents")
  IN  grow[Cardinality(g.nodes)]

Analyze(g) ==
  LET sorted == SortGraph(g)
      dangling == \E e \in g.edges : ~({e.from, e.to} \subseteq g.nodes)
      components == {ComponentOf(g, n) : n \in g.nodes}
      touched(c) == \E e \in g.edges : e.from \in c
  IN  IF dangling \/ ~sorted.ok
      THEN [ok |-> FALSE, ranks |-> <<>>, connected |-> {}, isolated |-> {}]
      ELSE [ok |-> TRUE,
            ranks |-> [n \in g.nodes |->
                         CHOOSE k \in DOMAIN sorted.levels : n \in Range(sorted.levels[k])],
            connected |-> {c \in components : touched(c)},
            isolated  |-> UNION {c \in components : ~touched(c)}]

(***************************************************************************)
(* What the executor sorts: every edge that may be taken, to refuse        *)
(* cycles, and the closure of the tools asked for, to run.                 *)
(***************************************************************************)
\* The elements of a sequence that are in a set, in their order.
Only(s, T) ==
  LET at == Sorted({k \in DOMAIN s : s[k] \in T})
  IN  [j \in DOMAIN at |-> s[at[j]]]

EffectiveRequires(tool) == Only(tool.requires, Range(tool.requires) \ tool.gated)

FilteredTools(tools) ==
  [t \in DOMAIN tools |-> [tools[t] EXCEPT !.requires = EffectiveRequires(tools[t])]]

Requirements(tools, t) == Range(tools[t].requires)

MethodRequirements(tools, t) ==
  UNION {Range(tools[t].methods[c].requires) : c \in DOMAIN tools[t].methods}

\* needs[t]: the tools t waits for.
ToolGraph(tools, needs) ==
  [nodes |-> DOMAIN tools,
   edges |-> UNION {{Edge(d, t, "tool", Unguarded, 0) : d \in needs[t]} : t \in DOMAIN tools}]

AllDependencyEdges(tools) ==
  ToolGraph(tools, [t \in DOMAIN tools |->
                      Requirements(tools, t) \cup MethodRequirements(tools, t)])

EffectiveEdges(tools) ==
  ToolGraph(tools, [t \in DOMAIN tools |-> Requirements(tools, t)])

\* Tools asked for and all they require.
RootTools(tools) ==
  LET roots == {t \in DOMAIN tools : ~tools[t].depOnly}
      grow  == [S \in SUBSET DOMAIN tools |->
                  S \cup ((UNION {Requirements(tools, t) : t \in S}) \cap DOMAIN tools)]
      size  == Cardinality(DOMAIN tools)
  IN  [t \in Iterate(grow, roots, size)[size] |-> tools[t]]

\* Mutant: only the tools of the run are checked for cycles.
SortExecutionLevelsUnchecked(tools) ==
  SortGraph(EffectiveEdges(RootTools(FilteredTools(tools))))

SortExecutionLevels(tools) ==
  LET filtered == FilteredTools(tools)
      roots    == RootTools(filtered)
      all      == SortGraph(AllDependencyEdges(filtered))
  IN  IF all.ok THEN SortGraph(EffectiveEdges(roots)) ELSE all
=============================================================================
