---------------------------- MODULE WorkflowGraph ----------------------------
(***************************************************************************)
(* Workflow graphs: src/lib/workflow/graph.js.  A graph is its nodes, in   *)
(* the order of the window, and its edges; an edge out of a check has the  *)
(* port "yes" or "no", any other edge has none.                            *)
(*                                                                         *)
(* A result is the status of a node; a check that is done has the way it   *)
(* went instead.                                                           *)
(***************************************************************************)
EXTENDS Naturals, Sequences, Functions

Settled == {"done", "yes", "no"}
Results == Settled \cup {"pending", "running", "waiting", "skipped", "failed"}

Into(g, n) == {k \in DOMAIN g.edges : g.edges[k].to = n}
Sources(g, n) == {g.edges[k].from : k \in Into(g, n)}

\* Ids are unique and edges join nodes: what is left of a graph once the edges that lost an
\* end, which runOrder ignores and which carry nothing, are gone.
IsGraph(g) ==
  /\ g.nodes \in Seq(Range(g.nodes)) /\ IsInjective(g.nodes)
  /\ g.edges \in Seq([from : Range(g.nodes), to : Range(g.nodes), port : {"none", "yes", "no"}])

\* The elements of s at the places in S, in their order.
Picked(s, S) ==
  LET picked[k \in 0 .. Len(s)] ==
        IF k = 0 THEN <<>> ELSE IF k \in S THEN Append(picked[k - 1], s[k]) ELSE picked[k - 1]
  IN picked[Len(s)]

\* The nodes that nothing is missing for once the last of order is taken: each comes up at
\* the last edge that leads from there to it.
Freed(g, order) ==
  LET from == {k \in DOMAIN g.edges : g.edges[k].from = order[Len(order)]}
  IN Picked([k \in DOMAIN g.edges |-> g.edges[k].to],
            {k \in from : /\ Sources(g, g.edges[k].to) \subseteq Range(order)
                          /\ \A l \in from : g.edges[l].to = g.edges[k].to => l <= k})

\* runOrder: take the first ready node until none is left; a loop leaves nodes out.
Begin(g) ==
  [order |-> <<>>,
   ready |-> Picked(g.nodes, {k \in DOMAIN g.nodes : Into(g, g.nodes[k]) = {}})]
Take(g, s) ==
  LET order == Append(s.order, Head(s.ready))
  IN IF s.ready = <<>> THEN s
     ELSE [order |-> order, ready |-> Tail(s.ready) \o Freed(g, order)]
Taken(g) ==
  LET taken[k \in 0 .. Len(g.nodes)] == IF k = 0 THEN Begin(g) ELSE Take(g, taken[k - 1])
  IN taken
RunOrder(g) == Taken(g)[Len(g.nodes)].order

\* "Nodes in run order (each after everything that feeds it)."
Sorts(g, order) ==
  /\ Len(order) = Len(g.nodes) /\ Range(order) = Range(g.nodes)
  /\ \A k \in DOMAIN order : Sources(g, order[k]) \subseteq {order[l] : l \in 1 .. k - 1}

\* Mutant: an edge out of a check carries work whichever way the check went.
LiveEitherWay(e, res) == res[e.from] \in Settled

\* edgeLive: its node is done and, after a check, went this way.
Live(e, res) ==
  /\ res[e.from] \in Settled
  /\ res[e.from] = "done" \/ e.port = "none" \/ e.port = res[e.from]

\* nodeReached
Reached(g, n, res) == \E k \in Into(g, n) : Live(g.edges[k], res)
=============================================================================
