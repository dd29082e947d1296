---------------------------- MODULE GraphRouter ----------------------------
(***************************************************************************)
(* graph::Router of lib/graph/router.h: all-pairs shortest routes computed *)
(* when the router is constructed, and read back by BuildRoute.            *)
(*                                                                         *)
(* A client fills a graph with AddEdge, then constructs a Router over it.  *)
(* The constructor first runs InitializeRoutesInternalData (one step per   *)
(* incident edge) and then, for every vertex_through,                      *)
(* RelaxRoutesInternalDataThroughVertex (one step per call of RelaxRoute,  *)
(* which updates the table in place while references into that same table  *)
(* are held).  BuildRoute walks the prev_edge links of the finished table  *)
(* backwards, one step per edge of the route.                              *)
(***************************************************************************)
EXTENDS DirectedWeightedGraph, SequencesExt

CONSTANTS
    VertexCount,    \* graph.GetVertexCount()
    EdgeChoice,     \* the edges a client may add
    MaxEdgeCount,   \* bound on the number of calls of AddEdge
    Null            \* std::nullopt

Vertex == Vertices(VertexCount)

\* struct Edge.  An edge may leave a vertex the graph does not have (AddEdge
\* throws); edge.to is never checked by the code and is a precondition here.
Edge == [from : Nat, to : Vertex, weight : Int]

ASSUME RouterAssumption ==
    /\ VertexCount \in Nat
    /\ MaxEdgeCount \in Nat
    /\ EdgeChoice \subseteq Edge
    /\ Null \notin Int
    /\ Null \notin [weight : Int, prev_edge : Int \cup {Null}]

VARIABLES
    graph,                  \* the graph, later const Graph& graph_
    phase,                  \* which call is running
    routes_internal_data,   \* routes_internal_data_
    vertex, position,       \* loops of InitializeRoutesInternalData
    vertex_through, vertex_from, vertex_to,     \* loops of the relaxation
    request,                \* arguments of BuildRoute
    edge_id, edges,         \* locals of BuildRoute
    response                \* what BuildRoute returned

vars == <<graph, phase, routes_internal_data, vertex, position, vertex_through,
          vertex_from, vertex_to, request, edge_id, edges, response>>

loops == <<vertex, position, vertex_through, vertex_from, vertex_to>>
walk  == <<request, edge_id, edges, response>>

RouteInternalData == [weight : Nat, prev_edge : Nat \cup {Null}]

HasRoute(from, to) == routes_internal_data[from][to] # Null
Weight(from, to)   == routes_internal_data[from][to].weight
PrevEdge(from, to) == routes_internal_data[from][to].prev_edge

Init ==
    /\ graph = EmptyGraph(VertexCount)
    /\ phase = "filling"
    /\ routes_internal_data = [from \in Vertex |-> [to \in Vertex |-> Null]]
    /\ vertex = 0 /\ position = 0
    /\ vertex_through = 0 /\ vertex_from = 0 /\ vertex_to = 0
    /\ request = Null /\ edge_id = Null /\ edges = << >> /\ response = Null

-----------------------------------------------------------------------------
\* The client.

AddEdgeAction(edge) ==
    /\ phase = "filling"
    /\ Len(graph.edges) < MaxEdgeCount
    /\ graph' = AddEdge(graph, edge)
    /\ UNCHANGED <<phase, routes_internal_data, loops, walk>>

Construct ==
    /\ phase = "filling"
    /\ phase' = "initializing"
    /\ UNCHANGED <<graph, routes_internal_data, loops, walk>>

-----------------------------------------------------------------------------
\* InitializeRoutesInternalData.  position is 0 until the diagonal entry of
\* vertex is set, and then runs over GetIncidentEdges(vertex).

EnterVertex ==
    /\ phase = "initializing"
    /\ vertex < VertexCount /\ position = 0
    /\ routes_internal_data' =
        [routes_internal_data EXCEPT ![vertex][vertex] = [weight |-> 0, prev_edge |-> Null]]
    /\ position' = 1
    /\ UNCHANGED <<graph, phase, vertex, vertex_through, vertex_from, vertex_to, walk>>

Incident == GetIncidentEdges(graph, vertex)

\* ScanEdge without the test for a negative weight.
ScanAnyEdge ==
    /\ phase = "initializing"
    /\ vertex < VertexCount /\ position \in 1 .. Len(Incident)
    /\ LET id   == Incident[position]
           edge == GetEdge(graph, id)
       IN  routes_internal_data' =
              IF ~HasRoute(vertex, edge.to) \/ Weight(vertex, edge.to) > edge.weight
              THEN [routes_internal_data EXCEPT ![vertex][edge.to] =
                        [weight |-> edge.weight, prev_edge |-> id]]
              ELSE routes_internal_data
    /\ position' = position + 1
    /\ UNCHANGED <<graph, phase, vertex, vertex_through, vertex_from, vertex_to, walk>>

\* ScanEdge that lets the last of several parallel edges win.
ScanEdgeLastWins ==
    /\ phase = "initializing"
    /\ vertex < VertexCount /\ position \in 1 .. Len(Incident)
    /\ LET id   == Incident[position]
           edge == GetEdge(graph, id)
       IN  /\ edge.weight >= 0
           /\ routes_internal_data' =
                IF vertex # edge.to
                THEN [routes_internal_data EXCEPT ![vertex][edge.to] =
                        [weight |-> edge.weight, prev_edge |-> id]]
                ELSE routes_internal_data
    /\ position' = position + 1
    /\ UNCHANGED <<graph, phase, vertex, vertex_through, vertex_from, vertex_to, walk>>

\* One turn of the inner loop for an edge of non-negative weight: the first of
\* the lightest parallel edges wins.
ScanEdge ==
    /\ phase = "initializing"
    /\ vertex < VertexCount /\ position \in 1 .. Len(Incident)
    /\ LET id   == Incident[position]
           edge == GetEdge(graph, id)
       IN  /\ edge.weight >= 0
           /\ routes_internal_data' =
                IF ~HasRoute(vertex, edge.to) \/ Weight(vertex, edge.to) > edge.weight
                THEN [routes_internal_data EXCEPT ![vertex][edge.to] =
                        [weight |-> edge.weight, prev_edge |-> id]]
                ELSE routes_internal_data
    /\ position' = position + 1
    /\ UNCHANGED <<graph, phase, vertex, vertex_through, vertex_from, vertex_to, walk>>

\* throw std::domain_error("Edges' weights should be non-negative"): the
\* constructor fails and there is no router.
RejectEdge ==
    /\ phase = "initializing"
    /\ vertex < VertexCount /\ position \in 1 .. Len(Incident)
    /\ GetEdge(graph, Incident[position]).weight < 0
    /\ phase' = "failed"
    /\ UNCHANGED <<graph, routes_internal_data, loops, walk>>

LeaveVertex ==
    /\ phase = "initializing"
    /\ vertex < VertexCount /\ position = Len(Incident) + 1
    /\ vertex' = vertex + 1
    /\ position' = 0
    /\ UNCHANGED <<graph, phase, routes_internal_data, vertex_through, vertex_from,
                   vertex_to, walk>>

StartRelaxation ==
    /\ phase = "initializing"
    /\ vertex = VertexCount
    /\ phase' = "relaxing"
    /\ UNCHANGED <<graph, routes_internal_data, loops, walk>>

-----------------------------------------------------------------------------
\* The relaxation: three nested loops, vertex_through outermost.

InPhaseThrough ==
    /\ phase = "relaxing"
    /\ vertex_through < VertexCount
    /\ vertex_from < VertexCount

\* if (const auto& route_from = ...) is false: the whole row is skipped.
SkipRow ==
    /\ InPhaseThrough
    /\ vertex_to = 0
    /\ ~HasRoute(vertex_from, vertex_through)
    /\ vertex_from' = vertex_from + 1
    /\ UNCHANGED <<graph, phase, routes_internal_data, vertex, position, vertex_through,
                   vertex_to, walk>>

\* if (const auto& route_to = ...) is false.
SkipColumn ==
    /\ InPhaseThrough
    /\ vertex_to < VertexCount
    /\ HasRoute(vertex_from, vertex_through)
    /\ ~HasRoute(vertex_through, vertex_to)
    /\ vertex_to' = vertex_to + 1
    /\ UNCHANGED <<graph, phase, routes_internal_data, vertex, position, vertex_through,
                   vertex_from, walk>>

\* RelaxRoute that also replaces a route of the same weight.
RelaxedOnTie(from, to, route_from, route_to) ==
    LET candidate_weight == route_from.weight + route_to.weight
    IN  IF ~HasRoute(from, to) \/ candidate_weight <= Weight(from, to)
        THEN [weight    |-> candidate_weight,
              prev_edge |-> IF route_to.prev_edge # Null
                            THEN route_to.prev_edge
                            ELSE route_from.prev_edge]
        ELSE routes_internal_data[from][to]

\* RelaxRoute that keeps the last edge of the first half of the route.
RelaxedWithFirstHalf(from, to, route_from, route_to) ==
    LET candidate_weight == route_from.weight + route_to.weight
    IN  IF ~HasRoute(from, to) \/ candidate_weight < Weight(from, to)
        THEN [weight    |-> candidate_weight,
              prev_edge |-> IF route_from.prev_edge # Null
                            THEN route_from.prev_edge
                            ELSE route_to.prev_edge]
        ELSE routes_internal_data[from][to]

\* The entry RelaxRoute leaves at (from, to), given the two routes it joins.
Relaxed(from, to, route_from, route_to) ==
    LET candidate_weight == route_from.weight + route_to.weight
    IN  IF ~HasRoute(from, to) \/ candidate_weight < Weight(from, to)
        THEN [weight    |-> candidate_weight,
              prev_edge |-> IF route_to.prev_edge # Null
                            THEN route_to.prev_edge
                            ELSE route_from.prev_edge]
        ELSE routes_internal_data[from][to]

RelaxRoute ==
    /\ InPhaseThrough
    /\ vertex_to < VertexCount
    /\ HasRoute(vertex_from, vertex_through)
    /\ HasRoute(vertex_through, vertex_to)
    /\ routes_internal_data' =
        [routes_internal_data EXCEPT ![vertex_from][vertex_to] =
            Relaxed(vertex_from, vertex_to,
                    routes_internal_data[vertex_from][vertex_through],
                    routes_internal_data[vertex_through][vertex_to])]
    /\ vertex_to' = vertex_to + 1
    /\ UNCHANGED <<graph, phase, vertex, position, vertex_through, vertex_from, walk>>

NextRow ==
    /\ InPhaseThrough
    /\ vertex_to = VertexCount
    /\ vertex_from' = vertex_from + 1
    /\ vertex_to' = 0
    /\ UNCHANGED <<graph, phase, routes_internal_data, vertex, position, vertex_through, walk>>

NextThrough ==
    /\ phase = "relaxing"
    /\ vertex_through < VertexCount
    /\ vertex_from = VertexCount
    /\ vertex_through' = vertex_through + 1
    /\ vertex_from' = 0
    /\ UNCHANGED <<graph, phase, routes_internal_data, vertex, position, vertex_to, walk>>

Constructed ==
    /\ phase = "relaxing"
    /\ vertex_through = VertexCount
    /\ phase' = "ready"
    /\ UNCHANGED <<graph, routes_internal_data, loops, walk>>

-----------------------------------------------------------------------------
\* BuildRoute

BuildRoute(from, to) ==
    /\ phase \in {"ready", "answered"}
    /\ request' = [from |-> from, to |-> to]
    /\ edges' = << >>
    /\ response' = Null
    /\ IF HasRoute(from, to)
       THEN phase' = "walking" /\ edge_id' = PrevEdge(from, to)
       ELSE phase' = "answered" /\ edge_id' = Null
    /\ UNCHANGED <<graph, routes_internal_data, loops>>

\* WalkedEntry with its indices swapped.
WalkedEntrySwapped == routes_internal_data[GetEdge(graph, edge_id).from][request.from]

\* routes_internal_data_[from][graph_.GetEdge(*edge_id).from], which the loop
\* dereferences without testing it.
WalkedEntry == routes_internal_data[request.from][GetEdge(graph, edge_id).from]

WalkEdge ==
    /\ phase = "walking"
    /\ edge_id # Null
    /\ edges' = Append(edges, edge_id)
    /\ edge_id' = WalkedEntry.prev_edge
    /\ UNCHANGED <<graph, phase, routes_internal_data, loops, request, response>>

\* FinishWalk without std::reverse.
FinishWalkUnreversed ==
    /\ phase = "walking"
    /\ edge_id = Null
    /\ response' = [weight |-> Weight(request.from, request.to), edges |-> edges]
    /\ phase' = "answered"
    /\ edges' = << >>
    /\ UNCHANGED <<graph, routes_internal_data, loops, request, edge_id>>

FinishWalk ==
    /\ phase = "walking"
    /\ edge_id = Null
    /\ response' = [weight |-> Weight(request.from, request.to), edges |-> Reverse(edges)]
    /\ phase' = "answered"
    /\ edges' = << >>
    /\ UNCHANGED <<graph, routes_internal_data, loops, request, edge_id>>

-----------------------------------------------------------------------------
Client == \/ \E edge \in EdgeChoice : AddEdgeAction(edge)
          \/ Construct
          \/ \E from, to \in Vertex : BuildRoute(from, to)

Constructor == \/ EnterVertex \/ ScanEdge \/ RejectEdge \/ LeaveVertex \/ StartRelaxation
               \/ SkipRow \/ SkipColumn \/ RelaxRoute \/ NextRow \/ NextThrough \/ Constructed

Walk == WalkEdge \/ FinishWalk

Next == Client \/ Constructor \/ Walk

\* A call that has started runs on: the code is one thread without waiting.
\* Nothing obliges the client to make another call.
Fairness == WF_vars(Constructor) /\ WF_vars(Walk)

Spec == Init /\ [][Next]_vars /\ Fairness
-----------------------------------------------------------------------------
Finished == phase \in {"ready", "walking", "answered"}

\* Types of all variables.
TypeOK ==
    /\ graph \in [edges : Seq(Edge),
                  incidence_lists : [Vertex -> Seq(Nat)]]
    /\ phase \in {"filling", "initializing", "relaxing", "ready", "walking",
                  "answered", "failed"}
    /\ routes_internal_data \in [Vertex -> [Vertex -> RouteInternalData \cup {Null}]]
    /\ vertex \in 0 .. VertexCount /\ position \in Nat
    /\ vertex_through \in 0 .. VertexCount
    /\ vertex_from \in 0 .. VertexCount
    /\ vertex_to \in 0 .. VertexCount
    /\ request \in [from : Vertex, to : Vertex] \cup {Null}
    /\ edge_id \in Nat \cup {Null}
    /\ edges \in Seq(Nat)
    /\ response \in [weight : Nat, edges : Seq(Nat)] \cup {Null}

\* The incidence lists index the stored edges exactly: vertex v lists, in the
\* order of insertion and once each, the edges that leave it, and nothing else,
\* whatever AddEdge calls failed in between (AddEdge, graph.h:57-63).
IncidenceIndexesEdges ==
    /\ \A v \in Vertex :
        LET list == GetIncidentEdges(graph, v)
        IN  /\ \A i \in 1 .. Len(list) :
                  /\ list[i] \in 1 .. Len(graph.edges)
                  /\ GetEdge(graph, list[i]).from = v
            /\ \A i, j \in 1 .. Len(list) : i < j => list[i] < list[j]
    /\ \A id \in 1 .. Len(graph.edges) :
        GetEdge(graph, id).from \in Vertex =>
            LET list == GetIncidentEdges(graph, GetEdge(graph, id).from)
            IN  \E i \in 1 .. Len(list) : list[i] = id

\* In a finished table no route can be bettered: staying is free, no listed edge
\* is shorter than the route between its ends, and no detour over a third vertex
\* is shorter than the direct entry (the constructor, router.h:87-101).
RoutesAreShortest ==
    Finished =>
        /\ \A v \in Vertex : HasRoute(v, v) /\ Weight(v, v) = 0
        /\ \A id \in ListedEdges(graph) :
            LET edge == GetEdge(graph, id)
            IN  HasRoute(edge.from, edge.to) /\ Weight(edge.from, edge.to) <= edge.weight
        /\ \A x, y, z \in Vertex :
            HasRoute(x, y) /\ HasRoute(y, z) =>
                HasRoute(x, z) /\ Weight(x, z) <= Weight(x, y) + Weight(y, z)

\* In a finished table every prev_edge link is real: it is a listed edge into the
\* end of the route, the rest of the route is in the table, and the two weights
\* add up.  BuildRoute (router.h:114-117) follows these links and nothing else.
PrevEdgesAddUp ==
    Finished =>
        \A x, y \in Vertex :
            /\ x = y => PrevEdge(x, x) = Null
            /\ x # y /\ HasRoute(x, y) =>
                LET id == PrevEdge(x, y)
                IN  /\ id \in ListedEdges(graph)
                    /\ GetEdge(graph, id).to = y
                    /\ HasRoute(x, GetEdge(graph, id).from)
                    /\ Weight(x, y) =
                         Weight(x, GetEdge(graph, id).from) + GetEdge(graph, id).weight

\* RelaxRoutesInternalDataThroughVertex holds references to the entries of the
\* row and of the column of vertex_through while RelaxRoute writes into the same
\* table (router.h:77-84): no step of a phase changes that row or that column.
PivotUntouched ==
    [][phase = "relaxing" /\ vertex_through < VertexCount =>
        \A v \in Vertex :
            /\ routes_internal_data'[v][vertex_through] = routes_internal_data[v][vertex_through]
            /\ routes_internal_data'[vertex_through][v] = routes_internal_data[vertex_through][v]
      ]_vars

\* The walk of BuildRoute never dereferences an empty optional, nor an edge id
\* the graph does not have (router.h:116, an unchecked operator->).
NoEmptyOptionalRead ==
    phase = "walking" /\ edge_id # Null =>
        /\ edge_id \in DOMAIN graph.edges
        /\ GetEdge(graph, edge_id).from \in Vertex
        /\ WalkedEntry # Null

\* The walk of BuildRoute enters no vertex twice, also on graphs with cycles of
\* weight 0, whose edges every weight test lets through: router.h:114-117 is a loop
\* whose only bound is the shape of the table.
WalkIsSimple ==
    \A i, j \in DOMAIN edges :
        i # j => GetEdge(graph, edges[i]).to # GetEdge(graph, edges[j]).to
=============================================================================
