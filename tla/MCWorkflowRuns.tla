---------------------------- MODULE MCWorkflowRuns ----------------------------
(* Values of WorkflowRuns's constants for model checking.              *)
EXTENDS WorkflowRuns, TLC

\* A check leads to a review or past it to the last step; both are listed before it may run.
Edge(from, to, port) == [from |-> from, to |-> to, port |-> port]
ReviewGraph ==
  [nodes |-> <<"start", "result", "check", "review">>,
   edges |-> <<Edge("start", "check", "none"), Edge("check", "result", "no"),
               Edge("check", "review", "yes"), Edge("review", "result", "none")>>]
ReviewKinds ==
  "start" :> "trigger" @@ "check" :> "branch" @@ "review" :> "review" @@ "result" :> "step"

Symmetry == Permutations(Walkers)

\* runOrder over every graph of three nodes, also with each line drawn twice: each node once
\* and after all that feed it, or, when the graph loops, not all of them.
SmallGraphs ==
  LET pairs == {<<1, 2>>, <<1, 3>>, <<2, 1>>, <<2, 3>>, <<3, 1>>, <<3, 2>>}
      AsSeq(s) == CHOOSE q \in [1 .. Cardinality(s) -> s] : Range(q) = s
      Edges(s) == [k \in 1 .. Cardinality(s) |-> Edge(AsSeq(s)[k][1], AsSeq(s)[k][2], "none")]
  IN {[nodes |-> <<1, 2, 3>>, edges |-> Edges(s)] : s \in SUBSET pairs} \cup
     {[nodes |-> <<1, 2, 3>>, edges |-> Edges(s) \o Edges(s)] : s \in SUBSET pairs}
HasOrder(g) == \E order \in [1 .. 3 -> 1 .. 3] : Sorts(g, order)
ASSUME RunOrderSorts ==
  \A g \in SmallGraphs : IF HasOrder(g) THEN Sorts(g, RunOrder(g)) ELSE Len(RunOrder(g)) < 3
=============================================================================
