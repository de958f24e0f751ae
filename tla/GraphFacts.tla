------------------------------ MODULE GraphFacts ------------------------------
(***************************************************************************)
(* What the algorithms of DependencyGraph compute, against definitions     *)
(* that quantify over sets instead of looping, for every relation on three *)
(* tools: assumptions that TLC evaluates before a run.                     *)
(***************************************************************************)
EXTENDS DependencyGraph

LOCAL Nodes == 1..3

LOCAL Orders == SUBSET (Nodes \X Nodes)

LOCAL GraphOf(order) ==
  [nodes |-> Nodes,
   edges |-> {Edge(p[1], p[2], "tool", Unguarded, 0) : p \in order}]

\* n comes after m: every set that m enters and dependents join has n.
LOCAL After(order, m, n) ==
  \A S \in SUBSET Nodes :
    /\ \A p \in order : p[1] = m => p[2] \in S
    /\ \A p \in order : p[1] \in S => p[2] \in S
    => n \in S

LOCAL Rank(levels, n) == CHOOSE k \in DOMAIN levels : n \in Range(levels[k])

\* The sort succeeds exactly on the relations without a cycle, puts every tool
\* in one level, as early as its dependencies allow, and otherwise names a
\* cycle (SortGraph, extractCycle).
ASSUME SortIsEarliest ==
  \A order \in Orders :
    LET s == SortGraph(GraphOf(order)) IN
    /\ s.ok <=> \A n \in Nodes : ~After(order, n, n)
    /\ s.ok => \A n \in Nodes :
         LET below == {Rank(s.levels, p[1]) : p \in {q \in order : q[2] = n}}
         IN /\ Cardinality({k \in DOMAIN s.levels : n \in Range(s.levels[k])}) = 1
            /\ Rank(s.levels, n) = 1 + IF below = {} THEN 0 ELSE Max(below)
    /\ ~s.ok => /\ s.cycle # <<>>
                /\ \A k \in DOMAIN s.cycle :
                     <<s.cycle[(k % Len(s.cycle)) + 1], s.cycle[k]>> \in order

\* A slice has what its roots depend on, directly or not, nothing else, and
\* every edge between two of these; a depth bounds the steps (Slice).
ASSUME SliceIsClosure ==
  \A order \in Orders : \A root \in Nodes :
    LET g     == GraphOf(order)
        all   == Slice(g, {root}, "deps", Unbounded)
        near  == Slice(g, {root}, "deps", 1)
        above == Slice(g, {root}, "dependents", Unbounded)
    IN /\ all.nodes = {root} \cup {n \in Nodes : After(order, n, root)}
       /\ above.nodes = {root} \cup {n \in Nodes : After(order, root, n)}
       /\ near.nodes = {root} \cup {p[1] : p \in {q \in order : q[2] = root}}
       /\ Order(all) = order \cap (all.nodes \X all.nodes)

\* The components of an analysis share no tool, together have them all, and
\* no edge leads from one to another (Analyze).
ASSUME AnalysisPartitions ==
  \A order \in Orders :
    LET a     == Analyze(GraphOf(order))
        parts == a.connected \cup {{n} : n \in a.isolated}
    IN a.ok =>
         /\ UNION parts = Nodes
         /\ \A c, d \in parts : c # d => c \cap d = {}
         /\ \A p \in order : \E c \in parts : {p[1], p[2]} \subseteq c

\* On a host a projection only takes edges away: what is active in the
\* resolved view is active in the effective one, and that was declared; hosts
\* on which a guard cannot be decided have none (Project).
ASSUME ProjectionNarrows ==
  \A needs \in [1..2 -> SUBSET {2, 3}], verdict \in {"true", "false", "unknown"} :
    LET method(d) == [requires |-> <<d>>, guard |-> "g"]
        tool(ds)  == [requires |-> Sorted(ds), guards |-> [d \in ds |-> "g"],
                      methods |-> <<method(2), method(3)>>]
        none      == [requires |-> <<>>, guards |-> <<>>, methods |-> <<>>]
        declared  == BuildDeclaredGraph(<<tool(needs[1]), tool(needs[2]), none>>)
        host      == [guards |-> [x \in {"g"} |-> verdict], inactive |-> TRUE,
                      selected |-> <<1, 2, 1>>]
        active(view) == {[e EXCEPT !.state = "declared"] : e \in
                           {x \in Project(declared, view, host).edges : x.state = "active"}}
    IN /\ active("resolved") \subseteq active("effective")
       /\ active("effective") \subseteq declared.edges
       /\ ProjectionFails(declared, "effective", host) <=> verdict = "unknown"
       /\ verdict = "false" => Order(Project(declared, "effective", host)) = {}

===============================================================================
