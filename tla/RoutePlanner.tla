--------------------------- MODULE RoutePlanner ---------------------------
(***************************************************************************)
(* What graph::Router promises its client, without saying how: once built  *)
(* over a graph without negative edges, it answers a request with a        *)
(* shortest route if the two vertices are connected, and with nothing if   *)
(* they are not; building and answering always end.                        *)
(***************************************************************************)
EXTENDS DirectedWeightedGraph

CONSTANTS VertexCount, EdgeChoice, MaxEdgeCount, Null

Vertex == Vertices(VertexCount)

VARIABLES graph, phase, request, response

vars == <<graph, phase, request, response>>

-----------------------------------------------------------------------------
\* Reference definition of the shortest routes: all walks of fewer than VertexCount
\* edges, their ends and their weights.

Leaving(walk) == {id \in ListedEdges(graph) : graph.edges[id].from = walk.end}

Extended(walk, id) ==
    [edges  |-> Append(walk.edges, id),
     weight |-> walk.weight + graph.edges[id].weight,
     end    |-> graph.edges[id].to]

\* These walks, and those of one edge more.
Longer(walks) ==
    UNION {{walk} \cup {Extended(walk, id) : id \in Leaving(walk)} : walk \in walks}

Staying(source) == [edges |-> << >>, weight |-> 0, end |-> source]

Walks(source) ==
    LET walks[n \in Nat] == IF n = 0 THEN {Staying(source)} ELSE Longer(walks[n - 1])
    IN  walks[VertexCount - 1]

ShortestRoutes(source, target) ==
    LET walks == {walk \in Walks(source) : walk.end = target}
    IN  {[weight |-> walk.weight, edges |-> walk.edges] :
            walk \in {w \in walks : \A other \in walks : w.weight <= other.weight}}

Connected(source, target) == ShortestRoutes(source, target) # {}

HasNegativeEdge == \E id \in ListedEdges(graph) : graph.edges[id].weight < 0
-----------------------------------------------------------------------------
Init ==
    /\ graph = EmptyGraph(VertexCount)
    /\ phase = "filling"
    /\ request = Null /\ response = Null

Fill(edge) ==
    /\ phase = "filling" /\ Len(graph.edges) < MaxEdgeCount
    /\ graph' = AddEdge(graph, edge)
    /\ UNCHANGED <<phase, request, response>>

Build ==
    /\ phase = "filling" /\ phase' = "building"
    /\ UNCHANGED <<graph, request, response>>

Built ==
    /\ phase = "building"
    /\ phase' = IF HasNegativeEdge THEN "failed" ELSE "ready"
    /\ UNCHANGED <<graph, request, response>>

Ask(from, to) ==
    /\ phase = "ready"
    /\ request' = [from |-> from, to |-> to]
    /\ response' = Null
    /\ phase' = IF Connected(from, to) THEN "asked" ELSE "ready"
    /\ UNCHANGED graph

Answer ==
    /\ phase = "asked" /\ phase' = "ready"
    /\ response' \in ShortestRoutes(request.from, request.to)
    /\ UNCHANGED <<graph, request>>

Next == \/ \E edge \in EdgeChoice : Fill(edge)
        \/ Build \/ Built \/ Answer
        \/ \E from, to \in Vertex : Ask(from, to)

Progress == /\ phase = "building" ~> phase \in {"ready", "failed"}
            /\ phase = "asked" ~> phase = "ready"

Spec == Init /\ [][Next]_vars /\ Progress
=============================================================================
