----------------------------- MODULE MCScheduling -----------------------------
(***************************************************************************)
(* Schemas small enough to run: helpers shared by candidates and levels, a *)
(* native batch, arbitrary code, groups without methods, gated edges, and  *)
(* a cycle only candidates close.                                          *)
(***************************************************************************)
EXTENDS Scheduling, GraphFacts

Plain  == [native |-> FALSE, when |-> TRUE, adapter |-> TRUE, found |-> TRUE,
           requires |-> <<>>, dangerous |-> FALSE, before |-> FALSE, after |-> FALSE]
Native == [Plain EXCEPT !.native = TRUE]
Needing(ds) == [Plain EXCEPT !.requires = ds]
Hooked == [Plain EXCEPT !.before = TRUE, !.after = TRUE, !.dangerous = TRUE]

Root(ds, ms)   == [requires |-> ds, gated |-> {}, depOnly |-> FALSE, methods |-> ms]
Helper(ds, ms) == [Root(ds, ms) EXCEPT !.depOnly = TRUE]

\* A helper two candidates need lazily, itself requiring another.
SharedHelper == <<Root(<<>>, <<Needing(<<3>>), Plain>>), Root(<<>>, <<Needing(<<3>>)>>),
                  Helper(<<4>>, <<Plain>>), Helper(<<>>, <<Plain>>)>>

\* The same helper required by a level and by a candidate.
HelperOfBoth == <<Helper(<<>>, <<Plain>>), Root(<<>>, <<Needing(<<1>>)>>), Root(<<1>>, <<Native>>)>>

\* A batch of three, and a dependent that skips to its second candidate.
Batched == <<Root(<<>>, <<Native>>), Root(<<>>, <<[Native EXCEPT !.after = TRUE, !.dangerous = TRUE], Plain>>),
             Root(<<>>, <<Native>>), Root(<<1, 2>>, <<[Plain EXCEPT !.when = FALSE], Plain>>)>>

\* Unavailable everywhere, what requires it, and a group in between.
Unavailable == <<Root(<<>>, <<[Plain EXCEPT !.adapter = FALSE], [Plain EXCEPT !.found = FALSE]>>),
                 Root(<<1>>, <<>>), Root(<<2>>, <<Plain>>),
                 [Root(<<5>>, <<Plain>>) EXCEPT !.gated = {5}], Helper(<<>>, <<Plain>>)>>

\* A helper with hooks, reached lazily only.
DangerousHelper == <<Root(<<>>, <<Needing(<<2>>), Plain>>), Helper(<<>>, <<Hooked>>), Root(<<>>, <<Hooked>>)>>

\* A cycle through candidates alone.
CandidateCycle == <<Root(<<>>, <<Needing(<<2>>)>>), Helper(<<>>, <<Needing(<<1>>)>>)>>

AllSchemas == {SharedHelper, HelperOfBoth, Batched, Unavailable, DangerousHelper, CandidateCycle}

AllTools == 1..5
Nothing  == [t \in AllTools |-> {}]
Hosts    == {Nothing, [Nothing EXCEPT ![3] = {1}]}
=============================================================================
