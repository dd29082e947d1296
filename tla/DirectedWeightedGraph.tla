----------------------- MODULE DirectedWeightedGraph -----------------------
(***************************************************************************)
(* graph::DirectedWeightedGraph of lib/graph/graph.h, as a value.          *)
(*                                                                         *)
(* A graph is a record of the two members of the class: edges (edges_, a   *)
(* sequence, the EdgeId of an edge being its position) and incidence_lists *)
(* (incidence_lists_, for every vertex the ids of the edges leaving it).   *)
(* Vertices are numbered from 0 as in the code; edge ids from 1, one more  *)
(* than in the code.  Weights are integers, where the code has double.     *)
(***************************************************************************)
EXTENDS Integers, Sequences

Vertices(vertex_count) == 0 .. vertex_count - 1

\* explicit DirectedWeightedGraph(size_t vertex_count)
EmptyGraph(vertex_count) ==
    [edges           |-> << >>,
     incidence_lists |-> [v \in Vertices(vertex_count) |-> << >>]]

\* AddEdge as a slip would have it: the list of the head of the edge grows
\* instead of the list of its tail.
AddEdgeToHead(graph, edge) ==
    [edges           |-> Append(graph.edges, edge),
     incidence_lists |->
        [graph.incidence_lists EXCEPT ![edge.to] = Append(@, Len(graph.edges) + 1)]]

\* The edge is stored before incidence_lists_.at(edge.from) is evaluated: an
\* edge that leaves no vertex of the graph makes at() throw, and stays stored
\* without being listed.
AddEdge(graph, edge) ==
    [edges           |-> Append(graph.edges, edge),
     incidence_lists |->
        IF edge.from \in DOMAIN graph.incidence_lists
        THEN [graph.incidence_lists EXCEPT ![edge.from] = Append(@, Len(graph.edges) + 1)]
        ELSE graph.incidence_lists]

GetEdge(graph, edge_id) == graph.edges[edge_id]

GetIncidentEdges(graph, vertex) == graph.incidence_lists[vertex]

\* The ids of the stored edges that some incidence list should name: those
\* whose AddEdge returned.
ListedEdges(graph) ==
    {id \in DOMAIN graph.edges : GetEdge(graph, id).from \in DOMAIN graph.incidence_lists}
=============================================================================
