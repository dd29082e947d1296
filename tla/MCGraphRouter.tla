--------------------------- MODULE MCGraphRouter ---------------------------
(* Small instances of GraphRouter. *)
EXTENDS GraphRouterRefinement

\* Four vertices with cycles of weight 0 in both directions, heavier edges that they
\* undercut, two parallel edges; one edge of negative weight, and one that leaves no
\* vertex.
MCEdges ==
    {[from |-> 0, to |-> 1, weight |-> 0], [from |-> 1, to |-> 0, weight |-> 0],
     [from |-> 1, to |-> 2, weight |-> 0], [from |-> 2, to |-> 1, weight |-> 0],
     [from |-> 2, to |-> 3, weight |-> 0], [from |-> 3, to |-> 0, weight |-> 0],
     [from |-> 3, to |-> 2, weight |-> 1], [from |-> 0, to |-> 3, weight |-> 1],
     [from |-> 0, to |-> 1, weight |-> 3],
     [from |-> 2, to |-> 0, weight |-> -1], [from |-> 4, to |-> 0, weight |-> 1]}
=============================================================================
