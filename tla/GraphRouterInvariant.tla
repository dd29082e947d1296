------------------------ MODULE GraphRouterInvariant ------------------------
(***************************************************************************)
(* The inductive invariant behind the safety properties of GraphRouter:    *)
(* what the three loops have achieved at every step in between.            *)
(***************************************************************************)
EXTENDS GraphRouter

Filled == phase \in {"filling", "initializing"}
Tabled == phase \in {"relaxing", "ready", "walking", "answered"}

\* The loop variables, where the type says too little: an outer loop variable
\* at its end finds the inner one at its start.
LoopShape ==
    /\ Filled => vertex_through = 0 /\ vertex_from = 0 /\ vertex_to = 0
    /\ phase = "filling" => vertex = 0 /\ position = 0
    /\ vertex_from = VertexCount => vertex_to = 0
    /\ Finished => vertex_through = VertexCount

\* The table has a direct entry for the edge that is no heavier.
Covered(id) ==
    LET edge == GetEdge(graph, id)
    IN  /\ edge.weight >= 0
        /\ HasRoute(edge.from, edge.to)
        /\ Weight(edge.from, edge.to) <= edge.weight

Entered(v) == v < vertex \/ (v = vertex /\ position > 0)

\* InitializeRoutesInternalData between two turns of its loops: rows not entered
\* are empty, the others have their diagonal and cover the edges scanned, and
\* every other entry is one of the edges.
Initialized ==
    Filled =>
        /\ \A x, y \in Vertex : ~Entered(x) => ~HasRoute(x, y)
        /\ \A x \in Vertex :
            Entered(x) => routes_internal_data[x][x] = [weight |-> 0, prev_edge |-> Null]
        /\ \A x \in Vertex :
            LET list == GetIncidentEdges(graph, x)
            IN  \A i \in 1 .. Len(list) :
                  x < vertex \/ (x = vertex /\ i < position) => Covered(list[i])
        /\ \A x, y \in Vertex :
            x # y /\ HasRoute(x, y) =>
                LET id == PrevEdge(x, y)
                IN  /\ id \in ListedEdges(graph)
                    /\ GetEdge(graph, id) = [from |-> x, to |-> y, weight |-> Weight(x, y)]

\* The table has, or the phase in progress will leave, a route that light.
Direct(x, y, w) == HasRoute(x, y) /\ Weight(x, y) <= w
ByThrough(x, y, w) ==
    /\ vertex_through < VertexCount
    /\ HasRoute(x, vertex_through)
    /\ HasRoute(vertex_through, y)
    /\ Weight(x, vertex_through) + Weight(vertex_through, y) <= w
AtMost(x, y, w) == Direct(x, y, w) \/ ByThrough(x, y, w)

DiagonalZero ==
    Tabled => \A v \in Vertex :
                routes_internal_data[v][v] = [weight |-> 0, prev_edge |-> Null]

EdgesCovered == Tabled => \A id \in ListedEdges(graph) : Covered(id)

\* No detour over an earlier vertex_through will be better than the entry the
\* phase in progress leaves.
ClosedBelow ==
    Tabled => \A x, y, m \in Vertex :
                /\ m < vertex_through
                /\ HasRoute(x, m) /\ HasRoute(m, y)
                => AtMost(x, y, Weight(x, m) + Weight(m, y))

\* The last edge of every route ends it, and the rest of the route is no heavier
\* than what remains.
PrevLinks ==
    Tabled => \A x, y \in Vertex :
                x # y /\ HasRoute(x, y) =>
                    LET id   == PrevEdge(x, y)
                        edge == GetEdge(graph, id)
                    IN  /\ id \in ListedEdges(graph)
                        /\ edge.to = y
                        /\ AtMost(x, edge.from, Weight(x, y) - edge.weight)

\* The pairs the phase in progress has passed are relaxed through vertex_through.
Passed(x, y) == x < vertex_from \/ (x = vertex_from /\ y < vertex_to)

PassedRelaxed ==
    phase = "relaxing" /\ vertex_through < VertexCount =>
        \A x, y \in Vertex :
            /\ Passed(x, y)
            /\ HasRoute(x, vertex_through) /\ HasRoute(vertex_through, y)
            => Direct(x, y, Weight(x, vertex_through) + Weight(vertex_through, y))

\* BuildRoute is at an edge of a route of the table.
OnRoute ==
    phase = "walking" =>
        /\ request \in [from : Vertex, to : Vertex]
        /\ HasRoute(request.from, request.to)
        /\ edge_id # Null =>
            /\ edge_id \in ListedEdges(graph)
            /\ HasRoute(request.from, GetEdge(graph, edge_id).from)

\* What the three loops have achieved: the loop invariants of
\* InitializeRoutesInternalData and of the relaxation (router.h:43-101) together.
TableInvariant ==
    /\ TypeOK
    /\ IncidenceIndexesEdges
    /\ LoopShape
    /\ Initialized
    /\ DiagonalZero
    /\ EdgesCovered
    /\ ClosedBelow
    /\ PrevLinks
    /\ PassedRelaxed
    /\ OnRoute

-----------------------------------------------------------------------------
\* The shape of the routes.  In the middle of a phase the links of a row may well
\* have a cycle: an entry that was relaxed can link to one that waits for it and
\* still belongs to the old route.  So these invariants are about the table that
\* the phase will leave.

\* The entry once the phase of that vertex is over; nothing happens to it if it was
\* relaxed before.
Joined(through, x, y) ==
    IF HasRoute(x, through) /\ HasRoute(through, y)
    THEN Relaxed(x, y, routes_internal_data[x][through], routes_internal_data[through][y])
    ELSE routes_internal_data[x][y]

Eventual(x, y) ==
    IF vertex_through < VertexCount THEN Joined(vertex_through, x, y) ELSE routes_internal_data[x][y]

\* The vertex in front of the end of a route.
ComesFrom(entry) == GetEdge(graph, entry.prev_edge).from

\* The routes from x lead over vertices that have been vertex_through.
TailsBelow ==
    Tabled => \A x, y \in Vertex :
                x # y /\ Eventual(x, y) # Null =>
                    ComesFrom(Eventual(x, y)) = x \/ ComesFrom(Eventual(x, y)) <= vertex_through

\* No routes from x lead round in a circle: among any vertices that have a route
\* from x there is one whose route comes from elsewhere.
LinksEndAtSource ==
    Tabled => \A x \in Vertex : \A ys \in SUBSET Vertex :
                /\ ys # {}
                /\ \A y \in ys : y # x /\ Eventual(x, y) # Null
                => \E y \in ys : ComesFrom(Eventual(x, y)) \notin ys

\* Where BuildRoute is.
Current == IF edges = << >> THEN request.to ELSE GetEdge(graph, edges[Len(edges)]).from

\* The edges walked so far are the links of the table back from request.to, and
\* edge_id is the next one.
WalkFollowsLinks ==
    /\ phase # "walking" => edges = << >>
    /\ phase = "walking" =>
        /\ HasRoute(request.from, Current)
        /\ edge_id = PrevEdge(request.from, Current)
        /\ \A i \in DOMAIN edges :
            LET edge == GetEdge(graph, edges[i])
            IN  /\ edges[i] \in ListedEdges(graph)
                /\ edge.to # request.from
                /\ HasRoute(request.from, edge.to)
                /\ edges[i] = PrevEdge(request.from, edge.to)
                /\ i = 1 => edge.to = request.to
                /\ i < Len(edges) => GetEdge(graph, edges[i + 1]).to = edge.from

\* What every step of the constructor and of BuildRoute keeps, from which the
\* properties follow.
InductiveInvariant ==
    /\ TableInvariant
    /\ TailsBelow
    /\ LinksEndAtSource
    /\ WalkFollowsLinks
=============================================================================
