------------------------- MODULE GraphRouter_proofs -------------------------
(***************************************************************************)
(* Proofs about GraphRouter for every number of vertices, every choice of  *)
(* edges and every number of them.                                         *)
(***************************************************************************)
EXTENDS GraphRouterInvariant, TLAPS

-----------------------------------------------------------------------------
(* The incidence lists. *)

\* What Append does, position by position.
LEMMA AppendNat ==
    ASSUME NEW s \in Seq(Nat), NEW x \in Nat
    PROVE  /\ Len(Append(s, x)) = Len(s) + 1
           /\ Append(s, x)[Len(s) + 1] = x
           /\ \A i \in 1 .. Len(s) : Append(s, x)[i] = s[i]
  OBVIOUS

\* AddEdge keeps the type of a graph (graph.h:57-63).
LEMMA AddEdgeType ==
    ASSUME NEW edge \in Edge,
           graph \in [edges : Seq(Edge), incidence_lists : [Vertex -> Seq(Nat)]]
    PROVE  AddEdge(graph, edge) \in [edges : Seq(Edge),
                                     incidence_lists : [Vertex -> Seq(Nat)]]
  <1> DEFINE id == Len(graph.edges) + 1
  <1>1. id \in Nat
    OBVIOUS
  <1>2. Append(graph.edges, edge) \in Seq(Edge)
    OBVIOUS
  <1>3. CASE edge.from \in Vertex
    <2>1. [graph.incidence_lists EXCEPT ![edge.from] = Append(@, id)] \in [Vertex -> Seq(Nat)]
      BY <1>1, <1>3
    <2> QED
      BY <1>2, <1>3, <2>1 DEF AddEdge
  <1>4. CASE edge.from \notin Vertex
    BY <1>2, <1>4 DEF AddEdge
  <1> QED
    BY <1>3, <1>4

\* AddEdge keeps the incidence lists an index of the stored edges, whether it
\* returns or throws (graph.h:57-63).
LEMMA AddEdgeIndexes ==
    ASSUME NEW edge \in Edge,
           graph \in [edges : Seq(Edge), incidence_lists : [Vertex -> Seq(Nat)]],
           IncidenceIndexesEdges,
           graph' = AddEdge(graph, edge)
    PROVE  IncidenceIndexesEdges'
  <1> DEFINE last == Len(graph.edges) + 1
             old == graph.incidence_lists
             new == graph'.incidence_lists
  <1>1. /\ Len(graph'.edges) = last /\ last \in Nat
        /\ graph'.edges[last] = edge
        /\ \A id \in 1 .. Len(graph.edges) : graph'.edges[id] = graph.edges[id]
    BY DEF AddEdge
  <1>2. /\ \A v \in Vertex : old[v] \in Seq(Nat)
        /\ Len(graph.edges) \in Nat
    OBVIOUS
  <1>3. \A v \in Vertex : new[v] = IF v = edge.from THEN Append(old[v], last) ELSE old[v]
    BY DEF AddEdge
  <1>4. /\ \A v \in Vertex :
              /\ \A i \in 1 .. Len(old[v]) : /\ old[v][i] \in 1 .. Len(graph.edges)
                                             /\ graph.edges[old[v][i]].from = v
              /\ \A i, j \in 1 .. Len(old[v]) : i < j => old[v][i] < old[v][j]
        /\ \A id \in 1 .. Len(graph.edges) :
              graph.edges[id].from \in Vertex =>
                \E i \in 1 .. Len(old[graph.edges[id].from]) : old[graph.edges[id].from][i] = id
    BY DEF IncidenceIndexesEdges, GetEdge, GetIncidentEdges
  <1> HIDE DEF last, old, new
  <1>5. ASSUME NEW v \in Vertex
        PROVE  /\ \A i \in 1 .. Len(new[v]) : /\ new[v][i] \in 1 .. Len(graph'.edges)
                                             /\ graph'.edges[new[v][i]].from = v
               /\ \A i, j \in 1 .. Len(new[v]) : i < j => new[v][i] < new[v][j]
    <2>1. CASE v = edge.from
      <3>1. /\ Len(new[v]) = Len(old[v]) + 1
            /\ Len(old[v]) \in Nat
            /\ new[v][Len(old[v]) + 1] = last
            /\ \A i \in 1 .. Len(old[v]) : new[v][i] = old[v][i]
        <4>1. new[v] = Append(old[v], last) /\ old[v] \in Seq(Nat) /\ last \in Nat
          BY <1>1, <1>2, <1>3, <2>1
        <4> QED
          BY <4>1, AppendNat
      <3>2. /\ \A i \in 1 .. Len(old[v]) : new[v][i] \in 1 .. Len(graph.edges)
            /\ \A i, j \in 1 .. Len(old[v]) : i < j => new[v][i] < new[v][j]
        BY <1>4, <3>1
      <3>3. \A i \in 1 .. Len(new[v]) : /\ new[v][i] \in 1 .. Len(graph'.edges)
                                        /\ graph'.edges[new[v][i]].from = v
        <4>1. TAKE i \in 1 .. Len(new[v])
        <4>2. CASE i \in 1 .. Len(old[v])
          <5>1. /\ new[v][i] = old[v][i]
                /\ old[v][i] \in 1 .. Len(graph.edges)
                /\ graph.edges[old[v][i]].from = v
            BY <1>4, <3>1, <4>2
          <5>2. graph'.edges[old[v][i]] = graph.edges[old[v][i]]
            BY <1>1, <5>1
          <5>3. old[v][i] \in 1 .. Len(graph'.edges)
            BY <1>1, <1>2, <5>1 DEF last
          <5> QED
            BY <5>1, <5>2, <5>3
        <4>3. CASE i = Len(old[v]) + 1
          <5>1. new[v][i] = last
            BY <3>1, <4>3
          <5>2. last \in 1 .. Len(graph'.edges)
            BY <1>1, <1>2 DEF last
          <5>3. graph'.edges[last].from = v
            BY <1>1, <2>1
          <5> QED
            BY <5>1, <5>2, <5>3
        <4> QED
          BY <3>1, <4>1, <4>2, <4>3
      <3>4. ASSUME NEW i \in 1 .. Len(new[v]), NEW j \in 1 .. Len(new[v]), i < j
            PROVE  new[v][i] < new[v][j]
        <4>1. i \in 1 .. Len(old[v])
          BY <3>1, <3>4
        <4>2. CASE j \in 1 .. Len(old[v])
          BY <3>2, <3>4, <4>1, <4>2
        <4>3. CASE j = Len(old[v]) + 1
          BY <1>1, <1>2, <3>1, <3>2, <4>1, <4>3 DEF last
        <4> QED
          BY <3>1, <4>2, <4>3
      <3> QED
        BY <3>3, <3>4
    <2>2. CASE v # edge.from
      <3>1. new[v] = old[v]
        BY <1>3, <2>2
      <3>2. \A k \in 1 .. Len(graph.edges) : k \in 1 .. Len(graph'.edges)
        BY <1>1, <1>2 DEF last
      <3>3. ASSUME NEW i \in 1 .. Len(old[v])
            PROVE  /\ old[v][i] \in 1 .. Len(graph'.edges)
                   /\ graph'.edges[old[v][i]].from = v
        <4>1. old[v][i] \in 1 .. Len(graph.edges) /\ graph.edges[old[v][i]].from = v
          BY <1>4
        <4> QED
          BY <1>1, <3>2, <4>1
      <3> QED
        BY <1>4, <3>1, <3>3
    <2> QED
      BY <2>1, <2>2
  <1>6. ASSUME NEW id \in 1 .. Len(graph'.edges), graph'.edges[id].from \in Vertex
        PROVE  \E i \in 1 .. Len(new[graph'.edges[id].from]) : new[graph'.edges[id].from][i] = id
    <2> DEFINE v == graph'.edges[id].from
    <2>0. Len(old[v]) \in Nat
      BY <1>2, <1>6
    <2>1. v = edge.from => /\ Len(new[v]) = Len(old[v]) + 1
                           /\ new[v][Len(old[v]) + 1] = last
                           /\ \A i \in 1 .. Len(old[v]) : new[v][i] = old[v][i]
      <3>1. ASSUME v = edge.from
            PROVE  new[v] = Append(old[v], last) /\ old[v] \in Seq(Nat) /\ last \in Nat
        BY <1>1, <1>2, <1>3, <1>6, <3>1
      <3> QED
        BY <3>1, AppendNat
    <2>2. v # edge.from => new[v] = old[v]
      BY <1>3, <1>6
    <2>3. CASE id = last
      <3>1. v = edge.from
        BY <1>1, <2>3
      <3> QED
        BY <2>0, <2>1, <2>3, <3>1
    <2>4. CASE id # last
      <3>1. id \in 1 .. Len(graph.edges) /\ graph'.edges[id] = graph.edges[id]
        BY <1>1, <1>2, <2>4 DEF last
      <3>2. PICK i \in 1 .. Len(old[v]) : old[v][i] = id
        BY <1>4, <1>6, <3>1
      <3>3. i \in 1 .. Len(new[v]) /\ new[v][i] = id
        <4> HIDE DEF v
        <4> QED
          BY <2>0, <2>1, <2>2, <3>2
      <3> QED
        BY <3>3
    <2> QED
      BY <2>3, <2>4
  <1> QED
    BY <1>5, <1>6 DEF IncidenceIndexesEdges, GetEdge, GetIncidentEdges, new

-----------------------------------------------------------------------------
(* What the type invariant says of the table and of the edges. *)

\* Entries of the table have a weight and a link, listed edges a tail.
LEMMA Entries ==
    ASSUME TypeOK
    PROVE  /\ \A x, y \in Vertex :
                HasRoute(x, y) => /\ routes_internal_data[x][y] \in RouteInternalData
                                  /\ Weight(x, y) \in Nat
                                  /\ PrevEdge(x, y) \in Nat \cup {Null}
           /\ \A id \in ListedEdges(graph) :
                /\ id \in 1 .. Len(graph.edges)
                /\ id # Null
                /\ GetEdge(graph, id) \in Edge
                /\ GetEdge(graph, id).from \in Vertex
           /\ \A v \in Vertex : GetIncidentEdges(graph, v) \in Seq(Nat)
  <1>1. \A x, y \in Vertex :
            HasRoute(x, y) => /\ routes_internal_data[x][y] \in RouteInternalData
                              /\ Weight(x, y) \in Nat
                              /\ PrevEdge(x, y) \in Nat \cup {Null}
    BY DEF TypeOK, HasRoute, Weight, PrevEdge, RouteInternalData
  <1>2. \A id \in ListedEdges(graph) :
            /\ id \in 1 .. Len(graph.edges)
            /\ id # Null
            /\ GetEdge(graph, id) \in Edge
            /\ GetEdge(graph, id).from \in Vertex
    <2>1. DOMAIN graph.edges = 1 .. Len(graph.edges) /\ DOMAIN graph.incidence_lists = Vertex
      BY DEF TypeOK
    <2>2. \A id \in 1 .. Len(graph.edges) : graph.edges[id] \in Edge
      BY DEF TypeOK
    <2>3. \A id \in 1 .. Len(graph.edges) : id # Null
      BY RouterAssumption
    <2> QED
      BY <2>1, <2>2, <2>3 DEF ListedEdges, GetEdge
  <1>3. \A v \in Vertex : GetIncidentEdges(graph, v) \in Seq(Nat)
    BY DEF TypeOK, GetIncidentEdges
  <1> QED
    BY <1>1, <1>2, <1>3

\* Nothing about the table changes in a step that writes neither the table nor
\* the graph nor vertex_through.
LEMMA TableKept ==
    ASSUME DiagonalZero, EdgesCovered, ClosedBelow, PrevLinks, Tabled,
           UNCHANGED <<graph, routes_internal_data, vertex_through>>
    PROVE  DiagonalZero' /\ EdgesCovered' /\ ClosedBelow' /\ PrevLinks'
  <1> USE DEF HasRoute, Weight, PrevEdge, Tabled
  <1>1. DiagonalZero'
    BY DEF DiagonalZero
  <1>2. EdgesCovered'
    BY DEF EdgesCovered, Covered
  <1>3. ClosedBelow'
    BY DEF ClosedBelow, AtMost, Direct, ByThrough
  <1>4. PrevLinks'
    BY DEF PrevLinks, AtMost, Direct, ByThrough
  <1> QED
    BY <1>1, <1>2, <1>3, <1>4

-----------------------------------------------------------------------------
(* The inductive invariant holds initially and every action keeps it. *)

\* An empty graph and no loop begun.
LEMMA InitInvariant == Init => TableInvariant
  <1> SUFFICES ASSUME Init PROVE TableInvariant
    OBVIOUS
  <1> USE RouterAssumption DEF Init
  <1>1. TypeOK
    BY DEF TypeOK, EmptyGraph, Vertex, Vertices
  <1>2. IncidenceIndexesEdges
    BY DEF IncidenceIndexesEdges, EmptyGraph, GetIncidentEdges, Vertex, Vertices
  <1>3. LoopShape
    BY DEF LoopShape, Finished
  <1>4. Initialized
    BY DEF Initialized, Entered, HasRoute, EmptyGraph, GetIncidentEdges, Vertex, Vertices
  <1>5. DiagonalZero /\ EdgesCovered /\ ClosedBelow /\ PrevLinks
    BY DEF DiagonalZero, EdgesCovered, ClosedBelow, PrevLinks, Tabled
  <1>6. PassedRelaxed /\ OnRoute
    BY DEF PassedRelaxed, OnRoute
  <1> QED
    BY <1>1, <1>2, <1>3, <1>4, <1>5, <1>6 DEF TableInvariant

\* The caller adds an edge before it makes the router, or fails to (graph.h:57-63).
LEMMA AddEdgeActionInvariant ==
    ASSUME TableInvariant, NEW edge \in EdgeChoice, AddEdgeAction(edge)
    PROVE  TableInvariant'
  <1> USE DEF TableInvariant, AddEdgeAction
  <1>0. edge \in Edge
    BY RouterAssumption
  <1>1. TypeOK'
    BY <1>0, AddEdgeType DEF TypeOK, loops, walk
  <1>2. IncidenceIndexesEdges'
    BY <1>0, AddEdgeIndexes DEF TypeOK
  <1>3. LoopShape'
    BY DEF LoopShape, loops, Filled, Finished
  <1>4. Initialized'
    <2>1. vertex' = 0 /\ position' = 0
      BY DEF LoopShape, loops
    <2>2. \A x \in Vertex : ~Entered(x) /\ ~Entered(x)' /\ x \in Nat
      BY <2>1 DEF Entered, LoopShape, Vertex, Vertices
    <2>3. \A x, y \in Vertex : ~HasRoute(x, y)'
      BY <2>2 DEF Initialized, Filled, HasRoute
    <2>4. \A x \in Vertex : GetIncidentEdges(graph, x)' \in Seq(Nat)
      BY <1>1 DEF TypeOK, GetIncidentEdges
    <2> QED
      BY <2>1, <2>2, <2>3, <2>4 DEF Initialized
  <1>5. DiagonalZero' /\ EdgesCovered' /\ ClosedBelow' /\ PrevLinks'
    BY DEF DiagonalZero, EdgesCovered, ClosedBelow, PrevLinks, Tabled
  <1>6. PassedRelaxed' /\ OnRoute'
    BY DEF PassedRelaxed, OnRoute
  <1> QED
    BY <1>1, <1>2, <1>3, <1>4, <1>5, <1>6

\* The constructor starts over an empty table (router.h:88-92).
LEMMA ConstructInvariant ==
    ASSUME TableInvariant, Construct
    PROVE  TableInvariant'
  <1> USE DEF TableInvariant, Construct, loops, walk
  <1>1. TypeOK'
    BY DEF TypeOK
  <1>2. IncidenceIndexesEdges'
    BY DEF IncidenceIndexesEdges
  <1>3. LoopShape'
    BY DEF LoopShape, Filled, Finished
  <1>4. Initialized'
    BY DEF Initialized, Filled, Entered, HasRoute, Weight, PrevEdge, Covered
  <1>5. DiagonalZero' /\ EdgesCovered' /\ ClosedBelow' /\ PrevLinks'
    BY DEF DiagonalZero, EdgesCovered, ClosedBelow, PrevLinks, Tabled
  <1>6. PassedRelaxed' /\ OnRoute'
    BY DEF PassedRelaxed, OnRoute
  <1> QED
    BY <1>1, <1>2, <1>3, <1>4, <1>5, <1>6

\* The outer loop of the initialization sets the diagonal (router.h:45-49).
LEMMA EnterVertexInvariant ==
    ASSUME TableInvariant, EnterVertex
    PROVE  TableInvariant'
  <1> USE DEF TableInvariant, EnterVertex, walk
  <1> DEFINE entry == [weight |-> 0, prev_edge |-> Null]
  <1>0. /\ vertex \in Vertex
        /\ routes_internal_data \in [Vertex -> [Vertex -> RouteInternalData \cup {Null}]]
        /\ entry \in RouteInternalData /\ entry # Null
    BY RouterAssumption DEF TypeOK, Vertex, Vertices, RouteInternalData
  <1>1. \A x, y \in Vertex :
          routes_internal_data'[x][y] =
            IF x = vertex /\ y = vertex THEN entry ELSE routes_internal_data[x][y]
    BY <1>0
  <1>2. TypeOK'
    <2>1. routes_internal_data' \in [Vertex -> [Vertex -> RouteInternalData \cup {Null}]]
      BY <1>0
    <2> QED
      BY <2>1 DEF TypeOK
  <1>3. IncidenceIndexesEdges'
    BY DEF IncidenceIndexesEdges
  <1>4. LoopShape'
    BY DEF LoopShape, Filled, Finished
  <1>5. Initialized'
    <2> HIDE DEF entry
    <2>1. \A x \in Vertex : /\ Entered(x) => x # vertex
                            /\ Entered(x)' <=> (Entered(x) \/ x = vertex)
      BY DEF Entered, Vertex, Vertices
    <2>2. \A x, y \in Vertex : ~Entered(x)' => ~HasRoute(x, y)'
      BY <1>1, <2>1 DEF Initialized, Filled, HasRoute
    <2>3. \A x \in Vertex : Entered(x)' => routes_internal_data'[x][x] = entry
      BY <1>1, <2>1 DEF Initialized, Filled, entry
    <2>4. ASSUME NEW x \in Vertex, NEW i \in 1 .. Len(GetIncidentEdges(graph, x)),
                 x < vertex \/ (x = vertex /\ i < 1)
          PROVE  Covered(GetIncidentEdges(graph, x)[i])'
      <3>1. x < vertex
        BY <2>4, Entries
      <3>2. PICK id \in 1 .. Len(graph.edges) : /\ id = GetIncidentEdges(graph, x)[i]
                                               /\ GetEdge(graph, id).from = x
        BY DEF IncidenceIndexesEdges
      <3>3. Covered(id)
        BY <3>1, <3>2 DEF Initialized, Filled
      <3>4. GetEdge(graph, id) \in Edge
        BY DEF TypeOK, GetEdge
      <3>5. GetEdge(graph, id).to \in Vertex
        BY <3>4 DEF Edge
      <3>6. routes_internal_data'[x][GetEdge(graph, id).to]
              = routes_internal_data[x][GetEdge(graph, id).to]
        BY <1>0, <1>1, <3>1, <3>5 DEF Vertex, Vertices
      <3>7. Covered(id)'
        BY <3>2, <3>3, <3>6 DEF Covered, HasRoute, Weight
      <3> QED
        BY <3>2, <3>7
    <2>5. ASSUME NEW x \in Vertex, NEW y \in Vertex, x # y, HasRoute(x, y)'
          PROVE  LET id == PrevEdge(x, y)'
                 IN  /\ id \in ListedEdges(graph)
                     /\ GetEdge(graph, id) = [from |-> x, to |-> y, weight |-> Weight(x, y)']
      BY <1>1, <2>5 DEF Initialized, Filled, HasRoute, Weight, PrevEdge
    <2> QED
      BY <2>2, <2>3, <2>4, <2>5 DEF Initialized, entry
  <1>6. DiagonalZero' /\ EdgesCovered' /\ ClosedBelow' /\ PrevLinks'
    BY DEF DiagonalZero, EdgesCovered, ClosedBelow, PrevLinks, Tabled
  <1>7. PassedRelaxed' /\ OnRoute'
    BY DEF PassedRelaxed, OnRoute
  <1> QED
    BY <1>2, <1>3, <1>4, <1>5, <1>6, <1>7

\* An edge of negative weight ends the constructor (router.h:53-54).
LEMMA RejectEdgeInvariant ==
    ASSUME TableInvariant, RejectEdge
    PROVE  TableInvariant'
  <1> USE DEF TableInvariant, RejectEdge, loops, walk
  <1>1. TypeOK'
    BY DEF TypeOK
  <1>2. IncidenceIndexesEdges'
    BY DEF IncidenceIndexesEdges
  <1>3. LoopShape' /\ Initialized'
    BY DEF LoopShape, Initialized, Filled, Finished
  <1>4. DiagonalZero' /\ EdgesCovered' /\ ClosedBelow' /\ PrevLinks'
    BY DEF DiagonalZero, EdgesCovered, ClosedBelow, PrevLinks, Tabled
  <1>5. PassedRelaxed' /\ OnRoute'
    BY DEF PassedRelaxed, OnRoute
  <1> QED
    BY <1>1, <1>2, <1>3, <1>4, <1>5

\* The outer loop of the initialization goes on with a vertex whose edges are all covered
\* (router.h:45-51).
LEMMA LeaveVertexInvariant ==
    ASSUME TableInvariant, LeaveVertex
    PROVE  TableInvariant'
  <1> USE DEF TableInvariant, LeaveVertex, walk
  <1>0. vertex \in Vertex /\ vertex \in Nat
    BY RouterAssumption DEF TypeOK, Vertex, Vertices
  <1>1. TypeOK'
    BY RouterAssumption DEF TypeOK
  <1>2. IncidenceIndexesEdges'
    BY DEF IncidenceIndexesEdges
  <1>3. LoopShape'
    BY DEF LoopShape, Filled, Finished
  <1>4. Initialized'
    <2>1. Len(Incident) \in Nat
      BY <1>0, Entries DEF Incident
    <2>2. \A x \in Vertex : Entered(x)' <=> Entered(x)
      BY <1>0, <2>1 DEF Entered, Vertex, Vertices
    <2>3. ASSUME NEW x \in Vertex, NEW i \in 1 .. Len(GetIncidentEdges(graph, x)),
                 x < vertex' \/ (x = vertex' /\ i < position')
          PROVE  Covered(GetIncidentEdges(graph, x)[i])
      <3>1. x < vertex \/ (x = vertex /\ i < position)
        BY <1>0, <2>1, <2>3 DEF Incident, Vertex, Vertices
      <3> QED
        BY <3>1 DEF Initialized, Filled
    <2>4. \A id : Covered(id)' <=> Covered(id)
      BY DEF Covered, HasRoute, Weight
    <2> QED
      BY <2>2, <2>3, <2>4 DEF Initialized, Filled, HasRoute, Weight, PrevEdge
  <1>5. DiagonalZero' /\ EdgesCovered' /\ ClosedBelow' /\ PrevLinks'
    BY DEF DiagonalZero, EdgesCovered, ClosedBelow, PrevLinks, Tabled
  <1>6. PassedRelaxed' /\ OnRoute'
    BY DEF PassedRelaxed, OnRoute
  <1> QED
    BY <1>1, <1>2, <1>3, <1>4, <1>5, <1>6

\* The inner loop of the initialization enters an edge or finds a lighter one in its place
\* (router.h:51-58).
LEMMA ScanEdgeInvariant ==
    ASSUME TableInvariant, ScanEdge
    PROVE  TableInvariant'
  <1> USE DEF TableInvariant, ScanEdge, walk
  <1>1. /\ vertex \in Vertex /\ vertex \in Nat
        /\ routes_internal_data \in [Vertex -> [Vertex -> RouteInternalData \cup {Null}]]
    BY RouterAssumption DEF TypeOK, Vertex, Vertices
  <1>2. PICK id \in 1 .. Len(graph.edges) : /\ id = Incident[position]
                                           /\ GetEdge(graph, id).from = vertex
    BY <1>1 DEF IncidenceIndexesEdges, Incident
  <1>3. GetEdge(graph, id) \in Edge
    BY DEF TypeOK, GetEdge
  <1>4. PICK edge \in Edge : edge = GetEdge(graph, id)
    BY <1>3
  <1>5. /\ edge.from = vertex /\ edge.to \in Vertex /\ edge.weight \in Int
    BY <1>2, <1>4 DEF Edge
  <1>6. edge.weight >= 0
    BY <1>2, <1>4
  <1> DEFINE entry == [weight |-> edge.weight, prev_edge |-> id]
             better == ~HasRoute(vertex, edge.to) \/ Weight(vertex, edge.to) > edge.weight
  <1>7. entry \in RouteInternalData /\ entry # Null
    BY <1>5, <1>6, RouterAssumption DEF RouteInternalData
  <1>8. routes_internal_data' = IF better
                                THEN [routes_internal_data EXCEPT ![vertex][edge.to] = entry]
                                ELSE routes_internal_data
    BY <1>2, <1>4
  <1>9. \A x, y \in Vertex :
          routes_internal_data'[x][y] = IF better /\ x = vertex /\ y = edge.to
                                        THEN entry ELSE routes_internal_data[x][y]
    BY <1>1, <1>5, <1>8
  <1>10. TypeOK'
    <2>1. routes_internal_data' \in [Vertex -> [Vertex -> RouteInternalData \cup {Null}]]
      <3> HIDE DEF entry, better, ScanEdge, TableInvariant
      <3>1. CASE better
        BY <1>1, <1>5, <1>7, <1>8, <3>1
      <3>2. CASE ~better
        BY <1>1, <1>8, <3>2
      <3> QED
        BY <3>1, <3>2
    <2>2. position' \in Nat
      BY DEF TypeOK
    <2> QED
      BY <2>1, <2>2 DEF TypeOK
  <1> HIDE DEF better
  <1>11. \A x, y \in Vertex : HasRoute(x, y)' => Weight(x, y)' \in Nat
    BY <1>10 DEF TypeOK, HasRoute, Weight, RouteInternalData
  <1>12. IncidenceIndexesEdges'
    BY DEF IncidenceIndexesEdges
  <1>13. LoopShape'
    BY DEF LoopShape, Filled, Finished
  <1>14. \A x, y \in Vertex : HasRoute(x, y) => /\ HasRoute(x, y)'
                                               /\ Weight(x, y)' <= Weight(x, y)
    BY <1>5, <1>7, <1>9, Entries DEF HasRoute, Weight, better
  <1>15. HasRoute(vertex, edge.to)' /\ Weight(vertex, edge.to)' <= edge.weight
    <2>1. CASE better
      <3>1. routes_internal_data'[vertex][edge.to] = entry
        BY <1>1, <1>5, <1>9, <2>1
      <3> QED
        BY <1>5, <1>7, <3>1 DEF HasRoute, Weight
    <2>2. CASE ~better
      <3>1. HasRoute(vertex, edge.to) /\ Weight(vertex, edge.to) <= edge.weight
        <4>1. HasRoute(vertex, edge.to) => Weight(vertex, edge.to) \in Nat
          BY <1>1, <1>5, Entries
        <4> HIDE DEF ScanEdge, TableInvariant
        <4> QED
          BY <1>5, <2>2, <4>1 DEF better
      <3> QED
        BY <1>1, <1>5, <1>9, <2>2, <3>1 DEF HasRoute, Weight
    <2> QED
      BY <2>1, <2>2
  <1>16. \A x \in Vertex : Entered(x)' <=> Entered(x)
    BY DEF Entered, TypeOK
  <1>17. Initialized'
    <2>1. \A x, y \in Vertex : ~Entered(x)' => ~HasRoute(x, y)'
      BY <1>1, <1>9, <1>16 DEF Initialized, Filled, HasRoute, Entered
    <2>2. \A x \in Vertex : Entered(x)' =>
            routes_internal_data'[x][x] = [weight |-> 0, prev_edge |-> Null]
      <3>1. ASSUME NEW x \in Vertex, Entered(x)
            PROVE  routes_internal_data'[x][x] = [weight |-> 0, prev_edge |-> Null]
        <4>1. routes_internal_data[x][x] = [weight |-> 0, prev_edge |-> Null]
          BY <3>1 DEF Initialized, Filled
        <4>2. ~(better /\ x = vertex /\ x = edge.to)
          BY <1>5, <1>6, <4>1, RouterAssumption DEF better, HasRoute, Weight
        <4> QED
          BY <1>9, <4>1, <4>2
      <3> QED
        BY <1>16, <3>1
    <2>3. ASSUME NEW x \in Vertex, NEW i \in 1 .. Len(GetIncidentEdges(graph, x)),
                 x < vertex' \/ (x = vertex' /\ i < position')
          PROVE  Covered(GetIncidentEdges(graph, x)[i])'
      <3>1. PICK k \in 1 .. Len(graph.edges) : /\ k = GetIncidentEdges(graph, x)[i]
                                              /\ GetEdge(graph, k).from = x
        BY DEF IncidenceIndexesEdges
      <3>2. GetEdge(graph, k) \in Edge
        BY DEF TypeOK, GetEdge
      <3>3. CASE x = vertex /\ i = position
        <4>1. k = id
          BY <1>2, <3>1, <3>3 DEF Incident
        <4>2. Covered(k)'
          BY <1>4, <1>5, <1>6, <1>15, <4>1 DEF Covered
        <4> QED
          BY <3>1, <4>2
      <3>4. CASE ~(x = vertex /\ i = position)
        <4>1. x < vertex \/ (x = vertex /\ i < position)
          BY <2>3, <3>4, Entries DEF TypeOK
        <4>2. Covered(k)
          BY <3>1, <4>1 DEF Initialized, Filled
        <4>3. GetEdge(graph, k).to \in Vertex /\ GetEdge(graph, k).weight \in Int
          BY <3>2 DEF Edge
        <4>4. Weight(x, GetEdge(graph, k).to) \in Nat /\ Weight(x, GetEdge(graph, k).to)' \in Nat
          <5>1. HasRoute(x, GetEdge(graph, k).to)
            BY <3>1, <4>2 DEF Covered
          <5> QED
            BY <1>14, <1>11, <4>3, <5>1, Entries
        <4>5. Covered(k)'
          BY <1>14, <3>1, <4>2, <4>3, <4>4 DEF Covered
        <4> QED
          BY <3>1, <4>5
      <3> QED
        BY <3>3, <3>4
    <2>4. ASSUME NEW x \in Vertex, NEW y \in Vertex, x # y, HasRoute(x, y)'
          PROVE  /\ PrevEdge(x, y)' \in ListedEdges(graph)
                 /\ GetEdge(graph, PrevEdge(x, y)') =
                      [from |-> x, to |-> y, weight |-> Weight(x, y)']
      <3>1. CASE better /\ x = vertex /\ y = edge.to
        <4>1. PrevEdge(x, y)' = id /\ Weight(x, y)' = edge.weight
          BY <1>9, <3>1 DEF PrevEdge, Weight
        <4>2. id \in ListedEdges(graph)
          BY <1>1, <1>2 DEF ListedEdges, TypeOK
        <4>3. edge = [from |-> x, to |-> y, weight |-> edge.weight]
          BY <1>5, <3>1 DEF Edge
        <4> QED
          BY <1>4, <4>1, <4>2, <4>3
      <3>2. CASE ~(better /\ x = vertex /\ y = edge.to)
        BY <1>9, <2>4, <3>2 DEF Initialized, Filled, HasRoute, Weight, PrevEdge
      <3> QED
        BY <3>1, <3>2
    <2> QED
      BY <2>1, <2>2, <2>3, <2>4 DEF Initialized
  <1>18. DiagonalZero' /\ EdgesCovered' /\ ClosedBelow' /\ PrevLinks'
    BY DEF DiagonalZero, EdgesCovered, ClosedBelow, PrevLinks, Tabled
  <1>19. PassedRelaxed' /\ OnRoute'
    BY DEF PassedRelaxed, OnRoute
  <1> QED
    BY <1>10, <1>12, <1>13, <1>17, <1>18, <1>19

\* The initialized table has every edge and nothing but edges: what the relaxation
\* starts from (router.h:93-96).
LEMMA StartRelaxationInvariant ==
    ASSUME TableInvariant, StartRelaxation
    PROVE  TableInvariant'
  <1> USE DEF TableInvariant, StartRelaxation, loops, walk
  <1>1. TypeOK'
    BY DEF TypeOK
  <1>2. IncidenceIndexesEdges'
    BY DEF IncidenceIndexesEdges
  <1>3. LoopShape' /\ Initialized'
    BY DEF LoopShape, Initialized, Filled, Finished
  <1>4. vertex_through = 0 /\ vertex_from = 0 /\ vertex_to = 0
    BY DEF LoopShape, Filled
  <1>5. \A x \in Vertex : x \in Nat /\ x < vertex /\ Entered(x)
    BY RouterAssumption DEF Entered, Vertex, Vertices
  <1>6. \A v \in Vertex : routes_internal_data[v][v] = [weight |-> 0, prev_edge |-> Null]
    BY <1>5 DEF Initialized, Filled
  <1>7. DiagonalZero'
    BY <1>6 DEF DiagonalZero
  <1>8. EdgesCovered'
    <2>1. ASSUME NEW id \in ListedEdges(graph)
          PROVE  Covered(id)
      <3>1. id \in 1 .. Len(graph.edges) /\ GetEdge(graph, id).from \in Vertex
        BY Entries
      <3>2. PICK i \in 1 .. Len(GetIncidentEdges(graph, GetEdge(graph, id).from)) :
                GetIncidentEdges(graph, GetEdge(graph, id).from)[i] = id
        BY <3>1 DEF IncidenceIndexesEdges
      <3> QED
        BY <1>5, <3>1, <3>2 DEF Initialized, Filled
    <2> QED
      BY <2>1 DEF EdgesCovered, Covered, HasRoute, Weight
  <1>9. ClosedBelow'
    BY <1>4, <1>5 DEF ClosedBelow
  <1>10. PrevLinks'
    <2>1. ASSUME NEW x \in Vertex, NEW y \in Vertex, x # y, HasRoute(x, y)
          PROVE  LET id == PrevEdge(x, y)
                 IN  /\ id \in ListedEdges(graph)
                     /\ GetEdge(graph, id).to = y
                     /\ Direct(x, GetEdge(graph, id).from, Weight(x, y) - GetEdge(graph, id).weight)
      <3> DEFINE id == PrevEdge(x, y)
      <3>1. /\ id \in ListedEdges(graph)
            /\ GetEdge(graph, id) = [from |-> x, to |-> y, weight |-> Weight(x, y)]
        BY <2>1 DEF Initialized, Filled
      <3>2. Weight(x, y) \in Nat
        BY <2>1, Entries
      <3>3. Direct(x, x, 0)
        BY <1>6, RouterAssumption DEF Direct, HasRoute, Weight
      <3>4. Weight(x, y) - GetEdge(graph, id).weight = 0
        BY <3>1, <3>2
      <3> QED
        BY <3>1, <3>3, <3>4
    <2> QED
      BY <2>1 DEF PrevLinks, AtMost, Direct, HasRoute, Weight, PrevEdge
  <1>11. PassedRelaxed'
    BY <1>4, <1>5 DEF PassedRelaxed, Passed
  <1>12. OnRoute'
    BY DEF OnRoute
  <1> QED
    BY <1>1, <1>2, <1>3, <1>7, <1>8, <1>9, <1>10, <1>11, <1>12

\* A row without a route to vertex_through is passed over (router.h:79-80).
LEMMA SkipRowInvariant ==
    ASSUME TableInvariant, SkipRow
    PROVE  TableInvariant'
  <1> USE DEF TableInvariant, SkipRow, InPhaseThrough, walk
  <1>1. TypeOK'
    BY RouterAssumption DEF TypeOK
  <1>2. IncidenceIndexesEdges'
    BY DEF IncidenceIndexesEdges
  <1>3. LoopShape' /\ Initialized'
    BY DEF LoopShape, Initialized, Filled, Finished
  <1>4. DiagonalZero' /\ EdgesCovered' /\ ClosedBelow' /\ PrevLinks'
    BY TableKept DEF Tabled
  <1>5. PassedRelaxed'
    <2>1. vertex_from \in Nat /\ vertex_to \in Nat /\ \A x \in Vertex : x \in Nat /\ x < VertexCount
      BY RouterAssumption DEF TypeOK, Vertex, Vertices
    <2>2. \A x, y \in Vertex : Passed(x, y)' => Passed(x, y) \/ x = vertex_from
      BY <2>1 DEF Passed
    <2> QED
      BY <2>2 DEF PassedRelaxed, HasRoute, Weight, Direct
  <1>6. OnRoute'
    BY DEF OnRoute
  <1> QED
    BY <1>1, <1>2, <1>3, <1>4, <1>5, <1>6

\* A column vertex_through has no route to is passed over (router.h:81-82).
LEMMA SkipColumnInvariant ==
    ASSUME TableInvariant, SkipColumn
    PROVE  TableInvariant'
  <1> USE DEF TableInvariant, SkipColumn, InPhaseThrough, walk
  <1>1. TypeOK'
    BY RouterAssumption DEF TypeOK
  <1>2. IncidenceIndexesEdges'
    BY DEF IncidenceIndexesEdges
  <1>3. LoopShape' /\ Initialized'
    BY RouterAssumption DEF LoopShape, Initialized, Filled, Finished, TypeOK
  <1>4. DiagonalZero' /\ EdgesCovered' /\ ClosedBelow' /\ PrevLinks'
    BY TableKept DEF Tabled
  <1>5. PassedRelaxed'
    <2>1. vertex_from \in Nat /\ vertex_to \in Nat /\ \A x \in Vertex : x \in Nat /\ x < VertexCount
      BY RouterAssumption DEF TypeOK, Vertex, Vertices
    <2>2. \A x, y \in Vertex : Passed(x, y)' => Passed(x, y) \/ y = vertex_to
      BY <2>1 DEF Passed
    <2> QED
      BY <2>2 DEF PassedRelaxed, HasRoute, Weight, Direct
  <1>6. OnRoute'
    BY DEF OnRoute
  <1> QED
    BY <1>1, <1>2, <1>3, <1>4, <1>5, <1>6

\* A row has been tried in full (router.h:79-83).
LEMMA NextRowInvariant ==
    ASSUME TableInvariant, NextRow
    PROVE  TableInvariant'
  <1> USE DEF TableInvariant, NextRow, InPhaseThrough, walk
  <1>1. TypeOK'
    BY RouterAssumption DEF TypeOK
  <1>2. IncidenceIndexesEdges'
    BY DEF IncidenceIndexesEdges
  <1>3. LoopShape' /\ Initialized'
    BY DEF LoopShape, Initialized, Filled, Finished
  <1>4. DiagonalZero' /\ EdgesCovered' /\ ClosedBelow' /\ PrevLinks'
    BY TableKept DEF Tabled
  <1>5. PassedRelaxed'
    <2>1. vertex_from \in Nat /\ vertex_to \in Nat /\ \A x \in Vertex : x \in Nat /\ x < VertexCount
      BY RouterAssumption DEF TypeOK, Vertex, Vertices
    <2>2. \A x, y \in Vertex : Passed(x, y)' => Passed(x, y)
      BY <2>1 DEF Passed
    <2> QED
      BY <2>2 DEF PassedRelaxed, HasRoute, Weight, Direct
  <1>6. OnRoute'
    BY DEF OnRoute
  <1> QED
    BY <1>1, <1>2, <1>3, <1>4, <1>5, <1>6

\* At the end of a phase every route through vertex_through has been tried, so
\* that AtMost is met by the table itself (router.h:79-85).
LEMMA PhaseOver ==
    ASSUME TableInvariant, NextThrough
    PROVE  /\ vertex_through \in Vertex /\ vertex_through \in Nat
           /\ vertex_from = VertexCount /\ vertex_to = 0
           /\ \A x \in Vertex : x \in Nat /\ x < VertexCount
           /\ \A x, y \in Vertex :
                HasRoute(x, vertex_through) /\ HasRoute(vertex_through, y) =>
                  Direct(x, y, Weight(x, vertex_through) + Weight(vertex_through, y))
           /\ \A x, y \in Vertex : \A w \in Int : AtMost(x, y, w) => Direct(x, y, w)
  <1> USE DEF TableInvariant, NextThrough
  <1>4. /\ vertex_through \in Vertex /\ vertex_through \in Nat
        /\ vertex_from = VertexCount /\ vertex_to = 0
        /\ \A x \in Vertex : x \in Nat /\ x < VertexCount
    BY RouterAssumption DEF TypeOK, LoopShape, Vertex, Vertices
  <1>5. \A x, y \in Vertex :
          HasRoute(x, vertex_through) /\ HasRoute(vertex_through, y) =>
            Direct(x, y, Weight(x, vertex_through) + Weight(vertex_through, y))
    BY <1>4 DEF PassedRelaxed, Passed
  <1>6. ASSUME NEW x \in Vertex, NEW y \in Vertex, NEW w \in Int, AtMost(x, y, w)
        PROVE  Direct(x, y, w)
    <2>1. CASE Direct(x, y, w)
      BY <2>1
    <2>2. CASE ByThrough(x, y, w)
      <3>1. /\ HasRoute(x, vertex_through) /\ HasRoute(vertex_through, y)
            /\ Weight(x, vertex_through) + Weight(vertex_through, y) <= w
        BY <2>2 DEF ByThrough
      <3>2. Direct(x, y, Weight(x, vertex_through) + Weight(vertex_through, y))
        BY <1>5, <3>1
      <3>3. /\ Weight(x, vertex_through) \in Nat /\ Weight(vertex_through, y) \in Nat
            /\ HasRoute(x, y) => Weight(x, y) \in Nat
        BY <1>4, <3>1, Entries
      <3> QED
        BY <3>1, <3>2, <3>3 DEF Direct
    <2> QED
      BY <1>6, <2>1, <2>2 DEF AtMost
  <1> QED
    BY <1>4, <1>5, <1>6

\* The next phase begins with what the last one has achieved (router.h:96-98).
LEMMA NextThroughInvariant ==
    ASSUME TableInvariant, NextThrough
    PROVE  TableInvariant'
  <1> USE DEF TableInvariant, NextThrough, walk
  <1>1. TypeOK'
    BY RouterAssumption DEF TypeOK
  <1>2. IncidenceIndexesEdges'
    BY DEF IncidenceIndexesEdges
  <1>3. LoopShape' /\ Initialized'
    BY DEF LoopShape, Initialized, Filled, Finished
  <1>4. /\ vertex_through \in Vertex /\ vertex_through \in Nat
        /\ vertex_from = VertexCount /\ vertex_to = 0
        /\ \A x \in Vertex : x \in Nat /\ x < VertexCount
    BY PhaseOver
  <1>5. \A x, y \in Vertex :
          HasRoute(x, vertex_through) /\ HasRoute(vertex_through, y) =>
            Direct(x, y, Weight(x, vertex_through) + Weight(vertex_through, y))
    BY PhaseOver
  <1>6. \A x, y \in Vertex : \A w \in Int : AtMost(x, y, w) => Direct(x, y, w)
    BY PhaseOver
  <1>7. DiagonalZero' /\ EdgesCovered'
    BY DEF DiagonalZero, EdgesCovered, Covered, HasRoute, Weight, Tabled
  <1>8. ClosedBelow'
    <2>1. ASSUME NEW x \in Vertex, NEW y \in Vertex, NEW m \in Vertex,
                 m < vertex_through + 1, HasRoute(x, m), HasRoute(m, y)
          PROVE  Direct(x, y, Weight(x, m) + Weight(m, y))
      <3>1. CASE m = vertex_through
        BY <1>5, <2>1, <3>1
      <3>2. CASE m # vertex_through
        <4>1. m < vertex_through
          BY <1>4, <2>1, <3>2
        <4>2. AtMost(x, y, Weight(x, m) + Weight(m, y))
          BY <2>1, <4>1 DEF ClosedBelow, Tabled
        <4>3. Weight(x, m) + Weight(m, y) \in Int
          BY <2>1, Entries
        <4> QED
          BY <1>6, <4>2, <4>3
      <3> QED
        BY <3>1, <3>2
    <2> QED
      BY <2>1 DEF ClosedBelow, AtMost, Direct, HasRoute, Weight
  <1>9. PrevLinks'
    <2>1. ASSUME NEW x \in Vertex, NEW y \in Vertex, x # y, HasRoute(x, y)
          PROVE  LET id == PrevEdge(x, y)
                 IN  /\ id \in ListedEdges(graph)
                     /\ GetEdge(graph, id).to = y
                     /\ Direct(x, GetEdge(graph, id).from, Weight(x, y) - GetEdge(graph, id).weight)
      <3> DEFINE id == PrevEdge(x, y)
      <3>1. /\ id \in ListedEdges(graph)
            /\ GetEdge(graph, id).to = y
            /\ AtMost(x, GetEdge(graph, id).from, Weight(x, y) - GetEdge(graph, id).weight)
        BY <2>1 DEF PrevLinks, Tabled
      <3>2. GetEdge(graph, id).from \in Vertex /\ GetEdge(graph, id).weight \in Int
        BY <3>1, Entries DEF Edge
      <3>3. Weight(x, y) - GetEdge(graph, id).weight \in Int
        BY <2>1, <3>2, Entries
      <3> QED
        BY <1>6, <3>1, <3>2, <3>3
    <2> QED
      BY <2>1 DEF PrevLinks, AtMost, Direct, HasRoute, Weight, PrevEdge
  <1>10. PassedRelaxed'
    BY <1>4 DEF PassedRelaxed, Passed
  <1>11. OnRoute'
    BY DEF OnRoute
  <1> QED
    BY <1>1, <1>2, <1>3, <1>7, <1>8, <1>9, <1>10, <1>11

\* The constructor returns behind the last phase (router.h:96-100).
LEMMA ConstructedInvariant ==
    ASSUME TableInvariant, Constructed
    PROVE  TableInvariant'
  <1> USE DEF TableInvariant, Constructed, loops, walk
  <1>1. TypeOK'
    BY DEF TypeOK
  <1>2. IncidenceIndexesEdges'
    BY DEF IncidenceIndexesEdges
  <1>3. LoopShape' /\ Initialized'
    BY DEF LoopShape, Initialized, Filled, Finished
  <1>4. DiagonalZero' /\ EdgesCovered' /\ ClosedBelow' /\ PrevLinks'
    BY TableKept DEF Tabled
  <1>5. PassedRelaxed' /\ OnRoute'
    BY DEF PassedRelaxed, OnRoute
  <1> QED
    BY <1>1, <1>2, <1>3, <1>4, <1>5

-----------------------------------------------------------------------------
(* One call of RelaxRoute. *)

\* What a call does to the table: the one entry changes, and only to the sum of
\* the two routes it joins; entries get lighter only; the row and the column of
\* vertex_through and the diagonal stay as they are, which makes the references
\* the loops hold good (router.h:77-84).
LEMMA RelaxRouteEffect ==
    ASSUME TypeOK, DiagonalZero, RelaxRoute
    PROVE  /\ vertex_from \in Vertex /\ vertex_to \in Vertex /\ vertex_through \in Vertex
           /\ routes_internal_data' \in [Vertex -> [Vertex -> RouteInternalData \cup {Null}]]
           /\ \A x, y \in Vertex :
                routes_internal_data'[x][y] # routes_internal_data[x][y] =>
                    /\ x = vertex_from /\ y = vertex_to
                    /\ HasRoute(x, vertex_through) /\ HasRoute(vertex_through, y)
                    /\ routes_internal_data'[x][y] =
                         [weight    |-> Weight(x, vertex_through) + Weight(vertex_through, y),
                          prev_edge |-> IF PrevEdge(vertex_through, y) # Null
                                        THEN PrevEdge(vertex_through, y)
                                        ELSE PrevEdge(x, vertex_through)]
                    /\ HasRoute(x, y) =>
                         Weight(x, vertex_through) + Weight(vertex_through, y) < Weight(x, y)
           /\ routes_internal_data'[vertex_from][vertex_to] # Null
           /\ routes_internal_data'[vertex_from][vertex_to].weight
                <= Weight(vertex_from, vertex_through) + Weight(vertex_through, vertex_to)
           /\ \A v \in Vertex :
                /\ routes_internal_data'[v][vertex_through] = routes_internal_data[v][vertex_through]
                /\ routes_internal_data'[vertex_through][v] = routes_internal_data[vertex_through][v]
                /\ routes_internal_data'[v][v] = routes_internal_data[v][v]
  <1> DEFINE a == vertex_from
             b == vertex_to
             k == vertex_through
             w == Weight(a, k) + Weight(k, b)
             entry == [weight    |-> w,
                       prev_edge |-> IF PrevEdge(k, b) # Null THEN PrevEdge(k, b) ELSE PrevEdge(a, k)]
             better == ~HasRoute(a, b) \/ w < Weight(a, b)
             new == IF better THEN entry ELSE routes_internal_data[a][b]
  <1>1. /\ a \in Vertex /\ b \in Vertex /\ k \in Vertex
        /\ routes_internal_data \in [Vertex -> [Vertex -> RouteInternalData \cup {Null}]]
    BY RouterAssumption DEF TypeOK, RelaxRoute, InPhaseThrough, Vertex, Vertices
  <1>2. HasRoute(a, k) /\ HasRoute(k, b)
    BY DEF RelaxRoute
  <1>3. /\ Weight(a, k) \in Nat /\ Weight(k, b) \in Nat
        /\ PrevEdge(a, k) \in Nat \cup {Null} /\ PrevEdge(k, b) \in Nat \cup {Null}
        /\ \A x, y \in Vertex : HasRoute(x, y) => Weight(x, y) \in Nat
    BY <1>1, <1>2, Entries
  <1>4. \A v \in Vertex : HasRoute(v, v) /\ Weight(v, v) = 0 /\ PrevEdge(v, v) = Null
    <2>1. \A v \in Vertex : routes_internal_data[v][v] = [weight |-> 0, prev_edge |-> Null]
      BY DEF DiagonalZero, Tabled, RelaxRoute, InPhaseThrough
    <2> QED
      BY <2>1, RouterAssumption DEF HasRoute, Weight, PrevEdge
  <1>5. routes_internal_data' = [routes_internal_data EXCEPT ![a][b] = new]
    BY DEF RelaxRoute, Relaxed, Weight, PrevEdge
  <1>6. entry \in RouteInternalData /\ entry # Null
    BY <1>3, RouterAssumption DEF RouteInternalData
  <1>7. new \in RouteInternalData \cup {Null}
    BY <1>1, <1>6
  <1> HIDE DEF new
  <1>8. routes_internal_data' \in [Vertex -> [Vertex -> RouteInternalData \cup {Null}]]
    BY <1>1, <1>5, <1>7
  <1>9. \A x, y \in Vertex :
          routes_internal_data'[x][y] =
            IF x = a /\ y = b THEN new ELSE routes_internal_data[x][y]
    BY <1>1, <1>5
  <1>10. ~(better /\ (a = k \/ b = k \/ a = b))
    BY <1>1, <1>2, <1>3, <1>4
  <1>11. better => w \in Nat /\ entry.weight = w
    BY <1>3
  <1>12. ~better => HasRoute(a, b) /\ Weight(a, b) <= w
    BY <1>1, <1>3
  <1> HIDE DEF better, entry
  <1>13. \A x, y \in Vertex :
           routes_internal_data'[x][y] # routes_internal_data[x][y] =>
             x = a /\ y = b /\ better /\ routes_internal_data'[x][y] = entry
    BY <1>1, <1>9 DEF new
  <1>14. \A v \in Vertex :
           /\ routes_internal_data'[v][k] = routes_internal_data[v][k]
           /\ routes_internal_data'[k][v] = routes_internal_data[k][v]
           /\ routes_internal_data'[v][v] = routes_internal_data[v][v]
    BY <1>1, <1>10, <1>13
  <1>15. routes_internal_data'[a][b] # Null /\ routes_internal_data'[a][b].weight <= w
    <2>1. routes_internal_data'[a][b] = new
      BY <1>1, <1>9
    <2>2. CASE better
      BY <1>6, <1>11, <2>1, <2>2 DEF new
    <2>3. CASE ~better
      BY <1>12, <2>1, <2>3 DEF new, HasRoute, Weight
    <2> QED
      BY <2>2, <2>3
  <1>16. better /\ HasRoute(a, b) => w < Weight(a, b)
    BY DEF better
  <1> QED
    BY <1>1, <1>2, <1>8, <1>13, <1>14, <1>15, <1>16 DEF entry

\* One relaxation keeps links sound, weights least over what was tried, and routes
\* made of edges (router.h:63-75).
LEMMA RelaxRouteInvariant ==
    ASSUME TableInvariant, RelaxRoute
    PROVE  TableInvariant'
  <1> DEFINE a == vertex_from
             b == vertex_to
             k == vertex_through
             R == routes_internal_data
  <1>0. /\ TypeOK /\ IncidenceIndexesEdges /\ LoopShape /\ Initialized /\ DiagonalZero
        /\ EdgesCovered /\ ClosedBelow /\ PrevLinks /\ PassedRelaxed /\ OnRoute
        /\ Tabled /\ phase = "relaxing" /\ vertex_through < VertexCount
    BY DEF TableInvariant, RelaxRoute, InPhaseThrough, Tabled
  <1>1. /\ a \in Vertex /\ b \in Vertex /\ k \in Vertex
        /\ routes_internal_data' \in [Vertex -> [Vertex -> RouteInternalData \cup {Null}]]
    BY <1>0, RelaxRouteEffect
  <1>2. /\ graph' = graph /\ vertex_through' = k /\ vertex_from' = a /\ vertex_to' = b + 1
        /\ phase' = phase /\ UNCHANGED <<vertex, position, walk>>
        /\ vertex_from < VertexCount /\ vertex_to < VertexCount
    BY DEF RelaxRoute, InPhaseThrough
  <1>3. /\ \A v \in Vertex : HasRoute(v, v) /\ Weight(v, v) = 0
        /\ \A x, y \in Vertex : HasRoute(x, y) => Weight(x, y) \in Nat
    <2>1. \A v \in Vertex : routes_internal_data[v][v] = [weight |-> 0, prev_edge |-> Null]
      BY <1>0 DEF DiagonalZero
    <2> QED
      BY <1>0, <2>1, RouterAssumption, Entries DEF HasRoute, Weight
  <1>4. \A x, y \in Vertex : HasRoute(x, y)' => Weight(x, y)' \in Nat
    BY <1>1 DEF HasRoute, Weight, RouteInternalData
  <1>5. ASSUME NEW x \in Vertex, NEW y \in Vertex, R'[x][y] # R[x][y]
        PROVE  /\ x = a /\ y = b
               /\ HasRoute(x, k) /\ HasRoute(k, y)
               /\ HasRoute(x, y)'
               /\ Weight(x, y)' = Weight(x, k) + Weight(k, y)
               /\ PrevEdge(x, y)' = IF PrevEdge(k, y) # Null THEN PrevEdge(k, y)
                                                             ELSE PrevEdge(x, k)
               /\ HasRoute(x, y) => Weight(x, k) + Weight(k, y) < Weight(x, y)
               /\ x # k /\ y # k /\ x # y
    <2>1. /\ x = a /\ y = b
          /\ HasRoute(x, k) /\ HasRoute(k, y)
          /\ R'[x][y] = [weight    |-> Weight(x, k) + Weight(k, y),
                         prev_edge |-> IF PrevEdge(k, y) # Null THEN PrevEdge(k, y)
                                                                ELSE PrevEdge(x, k)]
          /\ HasRoute(x, y) => Weight(x, k) + Weight(k, y) < Weight(x, y)
          /\ R'[a][b] # Null
      BY <1>0, <1>5, RelaxRouteEffect
    <2>2. HasRoute(x, y)'
      BY <2>1 DEF HasRoute
    <2>3. Weight(x, y)' = Weight(x, k) + Weight(k, y)
      BY <2>1 DEF Weight
    <2>4. PrevEdge(x, y)' = IF PrevEdge(k, y) # Null THEN PrevEdge(k, y) ELSE PrevEdge(x, k)
      BY <2>1 DEF PrevEdge
    <2>5. x # k /\ y # k /\ x # y
      BY <1>0, <1>5, RelaxRouteEffect
    <2> QED
      BY <2>1, <2>2, <2>3, <2>4, <2>5
  <1>6. ASSUME NEW x \in Vertex, NEW y \in Vertex, R'[x][y] = R[x][y]
        PROVE  /\ HasRoute(x, y)' <=> HasRoute(x, y)
               /\ Weight(x, y)' = Weight(x, y)
               /\ PrevEdge(x, y)' = PrevEdge(x, y)
    BY <1>6 DEF HasRoute, Weight, PrevEdge
  <1>7. \A v \in Vertex : R'[v][k] = R[v][k] /\ R'[k][v] = R[k][v] /\ R'[v][v] = R[v][v]
    BY <1>0, RelaxRouteEffect
  <1>8. \A x, y \in Vertex : HasRoute(x, y) => HasRoute(x, y)' /\ Weight(x, y)' <= Weight(x, y)
    <2>1. ASSUME NEW x \in Vertex, NEW y \in Vertex, HasRoute(x, y)
          PROVE  HasRoute(x, y)' /\ Weight(x, y)' <= Weight(x, y)
      <3>1. CASE R'[x][y] # R[x][y]
        BY <1>1, <1>3, <1>5, <2>1, <3>1
      <3>2. CASE R'[x][y] = R[x][y]
        BY <1>3, <1>6, <2>1, <3>2
      <3> QED
        BY <3>1, <3>2
    <2> QED
      BY <2>1
  \* AtMost is never lost.
  <1>9. ASSUME NEW x \in Vertex, NEW y \in Vertex, NEW w \in Int, AtMost(x, y, w)
        PROVE  AtMost(x, y, w)'
    <2>1. CASE Direct(x, y, w)
      <3>1. Direct(x, y, w)'
        BY <1>3, <1>4, <1>8, <2>1 DEF Direct
      <3> QED
        BY <3>1 DEF AtMost
    <2>2. CASE ByThrough(x, y, w)
      <3>1. /\ HasRoute(x, k)' /\ HasRoute(k, y)'
            /\ Weight(x, k)' + Weight(k, y)' <= w
        BY <1>1, <1>2, <1>7, <2>2 DEF ByThrough, HasRoute, Weight
      <3>2. ByThrough(x, y, w)'
        BY <1>0, <1>2, <3>1 DEF ByThrough, HasRoute, Weight
      <3> QED
        BY <3>2 DEF AtMost
    <2> QED
      BY <1>9, <2>1, <2>2 DEF AtMost
  \* From or to vertex_through AtMost is met by the table itself.
  <1>10. ASSUME NEW x \in Vertex, NEW y \in Vertex, NEW w \in Int, AtMost(x, y, w), x = k \/ y = k
         PROVE  Direct(x, y, w)
    BY <1>1, <1>3, <1>10 DEF AtMost, Direct, ByThrough
  <1>11. ASSUME NEW x \in Vertex, NEW y \in Vertex, NEW w \in Int,
                HasRoute(x, k), HasRoute(k, y), Weight(x, k) + Weight(k, y) <= w
         PROVE  AtMost(x, y, w)'
    BY <1>0, <1>9, <1>11 DEF AtMost, ByThrough
  <1>12. TypeOK'
    <2>1. vertex_to' \in 0 .. VertexCount
      BY <1>0, <1>2, RouterAssumption DEF TypeOK
    <2> QED
      BY <1>0, <1>1, <1>2, <2>1 DEF TypeOK, walk
  <1>13. IncidenceIndexesEdges' /\ LoopShape' /\ Initialized' /\ OnRoute'
    BY <1>0, <1>2, RouterAssumption
    DEF IncidenceIndexesEdges, LoopShape, Initialized, OnRoute, Filled, Finished, TypeOK
  <1>14. DiagonalZero'
    BY <1>0, <1>7 DEF DiagonalZero
  <1>15. EdgesCovered'
    <2>1. ASSUME NEW id \in ListedEdges(graph)
          PROVE  Covered(id)'
      <3>1. Covered(id)
        BY <1>0, <2>1 DEF EdgesCovered
      <3>2. /\ GetEdge(graph, id).from \in Vertex /\ GetEdge(graph, id).to \in Vertex
            /\ GetEdge(graph, id).weight \in Int
        BY <1>0, <2>1, Entries DEF Edge
      <3> QED
        BY <1>2, <1>3, <1>4, <1>8, <3>1, <3>2 DEF Covered
    <2> QED
      BY <1>2, <2>1 DEF EdgesCovered
  <1>16. ClosedBelow'
    <2>1. ASSUME NEW x \in Vertex, NEW y \in Vertex, NEW m \in Vertex,
                 m < k, HasRoute(x, m)', HasRoute(m, y)'
          PROVE  AtMost(x, y, Weight(x, m) + Weight(m, y))'
      \* The new entry ends at m: the detour over k continues over m to y.
      <3>1. CASE R'[x][m] # R[x][m]
        <4>1. R'[m][y] = R[m][y]
          BY <1>5, <3>1
        <4>2. /\ HasRoute(m, y) /\ Weight(m, y)' = Weight(m, y)
              /\ HasRoute(x, k) /\ HasRoute(k, m)
              /\ Weight(x, m)' = Weight(x, k) + Weight(k, m)
          BY <1>5, <1>6, <2>1, <3>1, <4>1
        <4>3. /\ Weight(x, k) \in Nat /\ Weight(k, m) \in Nat /\ Weight(m, y) \in Nat
              /\ Weight(k, m) + Weight(m, y) \in Int
          BY <1>1, <1>3, <4>2
        <4>4. AtMost(k, y, Weight(k, m) + Weight(m, y))
          BY <1>0, <1>1, <2>1, <4>2 DEF ClosedBelow
        <4>5. HasRoute(k, y) /\ Weight(k, y) <= Weight(k, m) + Weight(m, y)
          BY <1>1, <1>10, <4>3, <4>4 DEF Direct
        <4>6. Weight(x, k) + Weight(k, y) <= Weight(x, m)' + Weight(m, y)'
          BY <1>1, <1>3, <4>2, <4>3, <4>5
        <4> QED
          BY <1>4, <1>11, <2>1, <4>2, <4>5, <4>6
      \* The new entry starts at m: symmetric.
      <3>2. CASE R'[m][y] # R[m][y]
        <4>1. R'[x][m] = R[x][m]
          BY <1>5, <3>2
        <4>2. /\ HasRoute(x, m) /\ Weight(x, m)' = Weight(x, m)
              /\ HasRoute(m, k) /\ HasRoute(k, y)
              /\ Weight(m, y)' = Weight(m, k) + Weight(k, y)
          BY <1>5, <1>6, <2>1, <3>2, <4>1
        <4>3. /\ Weight(x, m) \in Nat /\ Weight(m, k) \in Nat /\ Weight(k, y) \in Nat
              /\ Weight(x, m) + Weight(m, k) \in Int
          BY <1>1, <1>3, <4>2
        <4>4. AtMost(x, k, Weight(x, m) + Weight(m, k))
          BY <1>0, <1>1, <2>1, <4>2 DEF ClosedBelow
        <4>5. HasRoute(x, k) /\ Weight(x, k) <= Weight(x, m) + Weight(m, k)
          BY <1>1, <1>10, <4>3, <4>4 DEF Direct
        <4>6. Weight(x, k) + Weight(k, y) <= Weight(x, m)' + Weight(m, y)'
          BY <1>1, <1>3, <4>2, <4>3, <4>5
        <4> QED
          BY <1>4, <1>11, <2>1, <4>2, <4>5, <4>6
      <3>3. CASE R'[x][m] = R[x][m] /\ R'[m][y] = R[m][y]
        <4>1. /\ HasRoute(x, m) /\ Weight(x, m)' = Weight(x, m)
              /\ HasRoute(m, y) /\ Weight(m, y)' = Weight(m, y)
          BY <1>6, <2>1, <3>3
        <4>2. AtMost(x, y, Weight(x, m) + Weight(m, y))
          BY <1>0, <2>1, <4>1 DEF ClosedBelow
        <4>3. Weight(x, m) + Weight(m, y) \in Int
          BY <1>3, <4>1
        <4>4. PICK w \in Int : w = Weight(x, m) + Weight(m, y)
          BY <4>3
        <4>5. AtMost(x, y, w)'
          BY <1>9, <4>2, <4>4
        <4> QED
          BY <4>1, <4>4, <4>5 DEF AtMost, Direct, ByThrough
      <3> QED
        BY <3>1, <3>2, <3>3
    <2> QED
      BY <1>2, <2>1 DEF ClosedBelow
  <1>17. PrevLinks'
    <2>1. ASSUME NEW x \in Vertex, NEW y \in Vertex, x # y, HasRoute(x, y)'
          PROVE  \E id \in ListedEdges(graph) :
                   /\ PrevEdge(x, y)' = id
                   /\ GetEdge(graph, id).to = y
                   /\ AtMost(x, GetEdge(graph, id).from, Weight(x, y) - GetEdge(graph, id).weight)'
      \* The new entry ends with the last edge of its second half.
      <3>1. CASE R'[x][y] # R[x][y]
        <4>1. /\ HasRoute(x, k) /\ HasRoute(k, y) /\ k # y
              /\ Weight(x, y)' = Weight(x, k) + Weight(k, y)
              /\ PrevEdge(x, y)' = IF PrevEdge(k, y) # Null THEN PrevEdge(k, y) ELSE PrevEdge(x, k)
          BY <1>5, <3>1
        <4>2. PICK id \in ListedEdges(graph) :
                /\ id = PrevEdge(k, y)
                /\ GetEdge(graph, id).to = y
                /\ AtMost(k, GetEdge(graph, id).from, Weight(k, y) - GetEdge(graph, id).weight)
          BY <1>0, <1>1, <4>1 DEF PrevLinks
        <4>3. id # Null /\ GetEdge(graph, id).from \in Vertex /\ GetEdge(graph, id).weight \in Int
          BY <1>0, Entries DEF Edge
        <4>4. PICK u \in Vertex : u = GetEdge(graph, id).from
          BY <4>3
        <4>5. PICK c \in Int : c = GetEdge(graph, id).weight
          BY <4>3
        <4>6. /\ Weight(x, k) \in Nat /\ Weight(k, y) \in Nat
              /\ Weight(k, y) - c \in Int /\ Weight(x, y)' - c \in Int
          BY <1>1, <1>3, <4>1
        <4>7. Direct(k, u, Weight(k, y) - c)
          BY <1>1, <1>10, <4>2, <4>4, <4>5, <4>6
        <4>8. HasRoute(k, u) /\ Weight(x, k) + Weight(k, u) <= Weight(x, y)' - c
          BY <1>1, <1>3, <4>1, <4>6, <4>7 DEF Direct
        <4>9. PICK w \in Int : w = Weight(x, y)' - c
          BY <4>6
        <4>10. AtMost(x, u, w)'
          BY <1>11, <4>1, <4>8, <4>9
        <4> QED
          BY <1>2, <4>1, <4>2, <4>3, <4>4, <4>5, <4>9, <4>10 DEF AtMost, Direct, ByThrough
      <3>2. CASE R'[x][y] = R[x][y]
        <4>1. HasRoute(x, y) /\ Weight(x, y)' = Weight(x, y) /\ PrevEdge(x, y)' = PrevEdge(x, y)
          BY <1>6, <2>1, <3>2
        <4>2. PICK id \in ListedEdges(graph) :
                /\ id = PrevEdge(x, y)
                /\ GetEdge(graph, id).to = y
                /\ AtMost(x, GetEdge(graph, id).from, Weight(x, y) - GetEdge(graph, id).weight)
          BY <1>0, <2>1, <4>1 DEF PrevLinks
        <4>3. GetEdge(graph, id).from \in Vertex /\ GetEdge(graph, id).weight \in Int
          BY <1>0, Entries DEF Edge
        <4>4. PICK u \in Vertex : u = GetEdge(graph, id).from
          BY <4>3
        <4>5. PICK w \in Int : w = Weight(x, y) - GetEdge(graph, id).weight
          BY <1>3, <4>1, <4>3
        <4>6. AtMost(x, u, w)'
          BY <1>9, <4>2, <4>4, <4>5
        <4> QED
          BY <1>2, <4>1, <4>2, <4>4, <4>5, <4>6 DEF AtMost, Direct, ByThrough
      <3> QED
        BY <3>1, <3>2
    <2> QED
      BY <1>2, <2>1 DEF PrevLinks
  <1>18. PassedRelaxed'
    <2>1. ASSUME NEW x \in Vertex, NEW y \in Vertex,
                 Passed(x, y)', HasRoute(x, k)', HasRoute(k, y)'
          PROVE  Direct(x, y, Weight(x, k) + Weight(k, y))'
      <3>1. /\ HasRoute(x, k) /\ HasRoute(k, y)
            /\ Weight(x, k)' = Weight(x, k) /\ Weight(k, y)' = Weight(k, y)
        BY <1>1, <1>2, <1>7, <2>1 DEF HasRoute, Weight
      <3>2. CASE x = a /\ y = b
        BY <1>0, <3>1, <3>2, RelaxRouteEffect DEF Direct, HasRoute, Weight
      <3>3. CASE ~(x = a /\ y = b)
        <4>1. x \in Nat /\ y \in Nat /\ a \in Nat /\ b \in Nat
          BY <1>1, RouterAssumption DEF Vertex, Vertices
        <4>2. Passed(x, y)
          BY <1>2, <2>1, <3>3, <4>1 DEF Passed
        <4>3. Direct(x, y, Weight(x, k) + Weight(k, y))
          BY <1>0, <3>1, <4>2 DEF PassedRelaxed
        <4> QED
          BY <1>5, <1>6, <3>1, <3>3, <4>3 DEF Direct
      <3> QED
        BY <3>2, <3>3
    <2> QED
      BY <1>2, <2>1 DEF PassedRelaxed
  <1> QED
    BY <1>12, <1>13, <1>14, <1>15, <1>16, <1>17, <1>18 DEF TableInvariant

-----------------------------------------------------------------------------
(* The finished table, and BuildRoute on it. *)

\* Once every vertex has been vertex_through, the inductive invariant is the
\* optimality of the table and the soundness of its links.
LEMMA FinishedTable == TableInvariant => RoutesAreShortest /\ PrevEdgesAddUp
  <1> SUFFICES ASSUME TableInvariant, Finished
               PROVE  RoutesAreShortest /\ PrevEdgesAddUp
    BY DEF RoutesAreShortest, PrevEdgesAddUp
  <1>1. /\ TypeOK /\ DiagonalZero /\ EdgesCovered /\ ClosedBelow /\ PrevLinks
        /\ Tabled /\ vertex_through = VertexCount
    BY DEF TableInvariant, Finished, Tabled, LoopShape
  <1>2. \A v \in Vertex : v \in Nat /\ v < VertexCount
    BY RouterAssumption DEF Vertex, Vertices
  <1>3. \A x, y \in Vertex : HasRoute(x, y) => Weight(x, y) \in Nat
    BY <1>1, Entries
  <1>4. \A x, y, w : AtMost(x, y, w) => HasRoute(x, y) /\ Weight(x, y) <= w
    BY <1>1, RouterAssumption DEF AtMost, Direct, ByThrough
  <1>5. \A v \in Vertex : HasRoute(v, v) /\ Weight(v, v) = 0 /\ PrevEdge(v, v) = Null
    <2>1. \A v \in Vertex : routes_internal_data[v][v] = [weight |-> 0, prev_edge |-> Null]
      BY <1>1 DEF DiagonalZero
    <2> QED
      BY <2>1, RouterAssumption DEF HasRoute, Weight, PrevEdge
  <1>6. \A id \in ListedEdges(graph) :
          /\ HasRoute(GetEdge(graph, id).from, GetEdge(graph, id).to)
          /\ Weight(GetEdge(graph, id).from, GetEdge(graph, id).to) <= GetEdge(graph, id).weight
    BY <1>1 DEF EdgesCovered, Covered
  <1>7. \A x, y, z \in Vertex :
          HasRoute(x, y) /\ HasRoute(y, z) =>
            HasRoute(x, z) /\ Weight(x, z) <= Weight(x, y) + Weight(y, z)
    BY <1>1, <1>2, <1>4 DEF ClosedBelow
  <1>8. RoutesAreShortest
    BY <1>5, <1>6, <1>7 DEF RoutesAreShortest
  <1>9. ASSUME NEW x \in Vertex, NEW y \in Vertex, x # y, HasRoute(x, y)
        PROVE  LET id == PrevEdge(x, y)
               IN  /\ id \in ListedEdges(graph)
                   /\ GetEdge(graph, id).to = y
                   /\ HasRoute(x, GetEdge(graph, id).from)
                   /\ Weight(x, y) =
                        Weight(x, GetEdge(graph, id).from) + GetEdge(graph, id).weight
    <2> DEFINE id == PrevEdge(x, y)
               u  == GetEdge(graph, id).from
               c  == GetEdge(graph, id).weight
    <2>1. id \in ListedEdges(graph) /\ GetEdge(graph, id).to = y /\ AtMost(x, u, Weight(x, y) - c)
      BY <1>1, <1>9 DEF PrevLinks
    <2>2. u \in Vertex /\ c \in Int
      BY <1>1, <2>1, Entries DEF Edge
    <2>3. HasRoute(x, u) /\ Weight(x, u) <= Weight(x, y) - c
      BY <1>4, <2>1
    <2>4. HasRoute(u, y) /\ Weight(u, y) <= c
      BY <1>6, <2>1
    <2>5. Weight(x, y) <= Weight(x, u) + Weight(u, y)
      BY <1>7, <2>2, <2>3, <2>4
    <2>6. Weight(x, y) \in Nat /\ Weight(x, u) \in Nat /\ Weight(u, y) \in Nat
      BY <1>3, <1>9, <2>2, <2>3, <2>4
    <2> HIDE DEF u, c
    <2>7. Weight(x, y) = Weight(x, u) + c
      BY <2>2, <2>3, <2>4, <2>5, <2>6
    <2> QED
      BY <2>1, <2>3, <2>7 DEF u, c
  <1>10. PrevEdgesAddUp
    BY <1>5, <1>9 DEF PrevEdgesAddUp
  <1> QED
    BY <1>8, <1>10

\* Whatever link the walk follows from a route of the table leads to a listed
\* edge whose tail the table has a route to.
LEMMA LinkOnRoute ==
    ASSUME TableInvariant, Finished,
           NEW x \in Vertex, NEW y \in Vertex, HasRoute(x, y)
    PROVE  /\ PrevEdge(x, y) \in Nat \cup {Null}
           /\ PrevEdge(x, y) # Null =>
                /\ PrevEdge(x, y) \in ListedEdges(graph)
                /\ HasRoute(x, GetEdge(graph, PrevEdge(x, y)).from)
  <1>1. TypeOK /\ PrevEdgesAddUp
    BY FinishedTable DEF TableInvariant
  <1> QED
    BY <1>1, Entries DEF PrevEdgesAddUp

\* BuildRoute starts its walk at the end of a route of the table (router.h:108-115).
LEMMA BuildRouteInvariant ==
    ASSUME TableInvariant, NEW from \in Vertex, NEW to \in Vertex, BuildRoute(from, to)
    PROVE  TableInvariant'
  <1> USE DEF TableInvariant, BuildRoute, loops
  <1>0. Finished /\ Tabled
    BY DEF Finished, Tabled
  <1>1. TypeOK'
    <2>1. edge_id' \in Nat \cup {Null}
      BY <1>0, LinkOnRoute
    <2>2. request' \in [from : Vertex, to : Vertex]
      OBVIOUS
    <2> QED
      BY <2>1, <2>2 DEF TypeOK
  <1>2. IncidenceIndexesEdges'
    BY DEF IncidenceIndexesEdges
  <1>3. LoopShape' /\ Initialized'
    BY DEF LoopShape, Initialized, Filled, Finished
  <1>4. DiagonalZero' /\ EdgesCovered' /\ ClosedBelow' /\ PrevLinks'
    BY <1>0, TableKept
  <1>5. PassedRelaxed'
    BY DEF PassedRelaxed
  <1>6. OnRoute'
    BY <1>0, LinkOnRoute DEF OnRoute, HasRoute
  <1> QED
    BY <1>1, <1>2, <1>3, <1>4, <1>5, <1>6

\* The walk steps back over one edge to a vertex the table has a route to (router.h:114-117).
LEMMA WalkEdgeInvariant ==
    ASSUME TableInvariant, WalkEdge
    PROVE  TableInvariant'
  <1> USE DEF TableInvariant, WalkEdge, loops
  <1>0. Finished /\ Tabled
    BY DEF Finished, Tabled
  <1>1. PICK x \in Vertex, y \in Vertex :
          /\ request.from = x /\ GetEdge(graph, edge_id).from = y
          /\ HasRoute(x, y) /\ edge_id' = PrevEdge(x, y)
    <2>1. /\ request.from \in Vertex
          /\ edge_id \in ListedEdges(graph)
          /\ HasRoute(request.from, GetEdge(graph, edge_id).from)
      BY DEF OnRoute
    <2> QED
      BY <2>1, Entries DEF WalkedEntry, PrevEdge
  <1>2. TypeOK'
    <2>1. edge_id' \in Nat \cup {Null}
      BY <1>0, <1>1, LinkOnRoute
    <2>2. edges' \in Seq(Nat)
      BY DEF TypeOK
    <2> QED
      BY <2>1, <2>2 DEF TypeOK
  <1>3. IncidenceIndexesEdges'
    BY DEF IncidenceIndexesEdges
  <1>4. LoopShape' /\ Initialized'
    BY DEF LoopShape, Initialized, Filled, Finished
  <1>5. DiagonalZero' /\ EdgesCovered' /\ ClosedBelow' /\ PrevLinks'
    BY <1>0, TableKept DEF Tabled
  <1>6. PassedRelaxed'
    BY DEF PassedRelaxed
  <1>7. OnRoute'
    BY <1>0, <1>1, LinkOnRoute DEF OnRoute, HasRoute
  <1> QED
    BY <1>2, <1>3, <1>4, <1>5, <1>6, <1>7

\* The walk ends at the start of the route (router.h:114-120).
LEMMA FinishWalkInvariant ==
    ASSUME TableInvariant, FinishWalk
    PROVE  TableInvariant'
  <1> USE DEF TableInvariant, FinishWalk, loops
  <1>0. Tabled
    BY DEF Tabled
  <1>1. TypeOK'
    <2>1. Weight(request.from, request.to) \in Nat
      BY Entries DEF OnRoute
    <2>2. Reverse(edges) \in Seq(Nat)
      BY DEF TypeOK, Reverse
    <2>3. response' \in [weight : Nat, edges : Seq(Nat)]
      BY <2>1, <2>2
    <2> QED
      BY <2>3 DEF TypeOK
  <1>2. IncidenceIndexesEdges'
    BY DEF IncidenceIndexesEdges
  <1>3. LoopShape' /\ Initialized'
    BY DEF LoopShape, Initialized, Filled, Finished
  <1>4. DiagonalZero' /\ EdgesCovered' /\ ClosedBelow' /\ PrevLinks'
    BY <1>0, TableKept DEF Tabled
  <1>5. PassedRelaxed' /\ OnRoute'
    BY DEF PassedRelaxed, OnRoute
  <1> QED
    BY <1>1, <1>2, <1>3, <1>4, <1>5

\* A step that changes no variable.
LEMMA StutterInvariant ==
    ASSUME TableInvariant, UNCHANGED vars
    PROVE  TableInvariant'
  <1> USE DEF TableInvariant, vars
  <1>1. TypeOK' /\ IncidenceIndexesEdges' /\ LoopShape'
    BY DEF TypeOK, IncidenceIndexesEdges, LoopShape, Filled, Finished
  <1>2. Initialized'
    BY DEF Initialized, Filled, Entered, HasRoute, Weight, PrevEdge, Covered
  <1>3. DiagonalZero' /\ EdgesCovered' /\ ClosedBelow' /\ PrevLinks'
    <2>1. CASE Tabled
      BY <2>1, TableKept
    <2>2. CASE ~Tabled
      BY <2>2 DEF Tabled, DiagonalZero, EdgesCovered, ClosedBelow, PrevLinks
    <2> QED
      BY <2>1, <2>2
  <1>4. PassedRelaxed' /\ OnRoute'
    BY DEF PassedRelaxed, OnRoute, Passed, Direct, HasRoute, Weight
  <1> QED
    BY <1>1, <1>2, <1>3, <1>4

-----------------------------------------------------------------------------
(* The theorems. *)

\* The invariant of the three loops of the constructor and of BuildRoute holds
\* throughout, for every graph (router.h:43-121).
THEOREM TableInvariance == Spec => []TableInvariant
  <1>1. Init => TableInvariant
    BY InitInvariant
  <1>2. TableInvariant /\ [Next]_vars => TableInvariant'
    <2> SUFFICES ASSUME TableInvariant, [Next]_vars PROVE TableInvariant'
      OBVIOUS
    <2>1. ASSUME NEW edge \in EdgeChoice, AddEdgeAction(edge) PROVE TableInvariant'
      BY <2>1, AddEdgeActionInvariant
    <2>2. ASSUME NEW from \in Vertex, NEW to \in Vertex, BuildRoute(from, to)
          PROVE  TableInvariant'
      BY <2>2, BuildRouteInvariant
    <2>3. CASE Construct
      BY <2>3, ConstructInvariant
    <2>4. CASE EnterVertex
      BY <2>4, EnterVertexInvariant
    <2>5. CASE ScanEdge
      BY <2>5, ScanEdgeInvariant
    <2>6. CASE RejectEdge
      BY <2>6, RejectEdgeInvariant
    <2>7. CASE LeaveVertex
      BY <2>7, LeaveVertexInvariant
    <2>8. CASE StartRelaxation
      BY <2>8, StartRelaxationInvariant
    <2>9. CASE SkipRow
      BY <2>9, SkipRowInvariant
    <2>10. CASE SkipColumn
      BY <2>10, SkipColumnInvariant
    <2>11. CASE RelaxRoute
      BY <2>11, RelaxRouteInvariant
    <2>12. CASE NextRow
      BY <2>12, NextRowInvariant
    <2>13. CASE NextThrough
      BY <2>13, NextThroughInvariant
    <2>14. CASE Constructed
      BY <2>14, ConstructedInvariant
    <2>15. CASE WalkEdge
      BY <2>15, WalkEdgeInvariant
    <2>16. CASE FinishWalk
      BY <2>16, FinishWalkInvariant
    <2>17. CASE UNCHANGED vars
      BY <2>17, StutterInvariant
    <2> QED
      BY <2>1, <2>2, <2>3, <2>4, <2>5, <2>6, <2>7, <2>8, <2>9, <2>10, <2>11, <2>12,
         <2>13, <2>14, <2>15, <2>16, <2>17 DEF Next, Client, Constructor, Walk
  <1> QED
    BY <1>1, <1>2, PTL DEF Spec

\* Every variable keeps its type.
THEOREM TypeCorrect == Spec => []TypeOK
  <1>1. TableInvariant => TypeOK
    BY DEF TableInvariant
  <1> QED
    BY <1>1, TableInvariance, PTL

\* The incidence lists index the stored edges, whatever AddEdge calls threw
\* (graph.h:57-63).
THEOREM IncidenceCorrect == Spec => []IncidenceIndexesEdges
  <1>1. TableInvariant => IncidenceIndexesEdges
    BY DEF TableInvariant
  <1> QED
    BY <1>1, TableInvariance, PTL

\* In every finished table no route can be bettered, although the relaxation
\* rewrites the table it reads (router.h:87-101).
THEOREM Optimality == Spec => []RoutesAreShortest
  <1>1. TableInvariant => RoutesAreShortest
    BY FinishedTable
  <1> QED
    BY <1>1, TableInvariance, PTL

\* In every finished table the links BuildRoute follows are edges of the graph
\* and the weights along them add up (router.h:63-75, 114-117).
THEOREM LinkSoundness == Spec => []PrevEdgesAddUp
  <1>1. TableInvariant => PrevEdgesAddUp
    BY FinishedTable
  <1> QED
    BY <1>1, TableInvariance, PTL

\* The unchecked dereference in BuildRoute always finds a value (router.h:116).
THEOREM DereferenceSafety == Spec => []NoEmptyOptionalRead
  <1>1. TableInvariant => NoEmptyOptionalRead
    <2> SUFFICES ASSUME TableInvariant, phase = "walking", edge_id # Null
                 PROVE  /\ edge_id \in DOMAIN graph.edges
                        /\ GetEdge(graph, edge_id).from \in Vertex
                        /\ WalkedEntry # Null
      BY DEF NoEmptyOptionalRead
    <2>1. /\ TypeOK
          /\ edge_id \in ListedEdges(graph)
          /\ HasRoute(request.from, GetEdge(graph, edge_id).from)
      BY DEF TableInvariant, OnRoute
    <2> QED
      BY <2>1, Entries DEF ListedEdges, HasRoute, WalkedEntry
  <1> QED
    BY <1>1, TableInvariance, PTL

\* The references RelaxRoutesInternalDataThroughVertex holds into the table never
\* see a changed value (router.h:77-84).
THEOREM PivotStability == Spec => PivotUntouched
  <1>1. TableInvariant /\ [Next]_vars =>
          [phase = "relaxing" /\ vertex_through < VertexCount =>
            \A v \in Vertex :
              /\ routes_internal_data'[v][vertex_through] = routes_internal_data[v][vertex_through]
              /\ routes_internal_data'[vertex_through][v] = routes_internal_data[vertex_through][v]
          ]_vars
    <2> SUFFICES ASSUME TableInvariant, Next, phase = "relaxing", NEW v \in Vertex
                 PROVE  /\ routes_internal_data'[v][vertex_through]
                              = routes_internal_data[v][vertex_through]
                        /\ routes_internal_data'[vertex_through][v]
                              = routes_internal_data[vertex_through][v]
      OBVIOUS
    <2>1. CASE RelaxRoute
      BY <2>1, RelaxRouteEffect DEF TableInvariant
    <2>2. CASE ~RelaxRoute
      BY <2>2 DEF Next, Client, Constructor, Walk, AddEdgeAction, Construct, BuildRoute,
                  EnterVertex, ScanEdge, RejectEdge, LeaveVertex, StartRelaxation, SkipRow,
                  SkipColumn, NextRow, NextThrough, Constructed, WalkEdge, FinishWalk
    <2> QED
      BY <2>1, <2>2
  <1> QED
    BY <1>1, TableInvariance, PTL DEF Spec, PivotUntouched

-----------------------------------------------------------------------------
(* One phase of the relaxation, taken as a whole. *)

\* The table between two phases: nothing is better over a vertex in front of k, and
\* the routes lead over such vertices without going round in a circle.
Settled(k) ==
    /\ \A v \in Vertex : HasRoute(v, v) /\ Weight(v, v) = 0 /\ PrevEdge(v, v) = Null
    /\ \A id \in ListedEdges(graph) : Covered(id)
    /\ \A x, y, m \in Vertex :
        m < k /\ HasRoute(x, m) /\ HasRoute(m, y) => Direct(x, y, Weight(x, m) + Weight(m, y))
    /\ \A x, y \in Vertex :
        x # y /\ HasRoute(x, y) =>
            LET id   == PrevEdge(x, y)
                edge == GetEdge(graph, id)
            IN  /\ id \in ListedEdges(graph)
                /\ edge.to = y
                /\ Direct(x, edge.from, Weight(x, y) - edge.weight)
                /\ edge.from = x \/ edge.from < k
    /\ \A x \in Vertex : \A ys \in SUBSET Vertex :
        /\ ys # {}
        /\ \A y \in ys : y # x /\ HasRoute(x, y)
        => \E y \in ys : GetEdge(graph, PrevEdge(x, y)).from \notin ys

\* The entry of the next table is the one of this table, which is as light, or it is
\* a lighter one that ends as the route from k does.
LEMMA JoinedEntry ==
    ASSUME TypeOK, NEW k \in Vertex, NEW x \in Vertex, NEW y \in Vertex,
           \A v \in Vertex : HasRoute(v, v) /\ Weight(v, v) = 0
    PROVE  \/ /\ Joined(k, x, y) = routes_internal_data[x][y]
              /\ HasRoute(x, k) /\ HasRoute(k, y) =>
                    HasRoute(x, y) /\ Weight(x, y) <= Weight(x, k) + Weight(k, y)
           \/ /\ Joined(k, x, y) # Null
              /\ HasRoute(x, k) /\ HasRoute(k, y) /\ x # k /\ y # k /\ x # y
              /\ HasRoute(x, y) => Weight(x, k) + Weight(k, y) < Weight(x, y)
              /\ PrevEdge(k, y) # Null => Joined(k, x, y).prev_edge = PrevEdge(k, y)
  <1>1. CASE ~(HasRoute(x, k) /\ HasRoute(k, y))
    BY <1>1 DEF Joined
  <1>2. CASE HasRoute(x, k) /\ HasRoute(k, y)
    <2> DEFINE w == Weight(x, k) + Weight(k, y)
               entry == [weight    |-> w,
                         prev_edge |-> IF PrevEdge(k, y) # Null THEN PrevEdge(k, y) ELSE PrevEdge(x, k)]
    <2>1. /\ Weight(x, k) \in Nat /\ Weight(k, y) \in Nat
          /\ HasRoute(x, y) => Weight(x, y) \in Nat
      BY <1>2, Entries
    <2>2. Joined(k, x, y) = IF ~HasRoute(x, y) \/ w < Weight(x, y) THEN entry ELSE routes_internal_data[x][y]
      BY <1>2 DEF Joined, Relaxed, Weight, PrevEdge
    <2>3. CASE ~HasRoute(x, y) \/ w < Weight(x, y)
      <3>1. Joined(k, x, y) = entry
        BY <2>2, <2>3
      <3>2. entry # Null
        <4>1. PrevEdge(k, y) \in Nat \cup {Null} /\ PrevEdge(x, k) \in Nat \cup {Null}
          BY <1>2, Entries
        <4>2. entry \in [weight : Int, prev_edge : Int \cup {Null}]
          BY <2>1, <4>1
        <4> QED
          BY <4>2, RouterAssumption
      <3>3. x # k /\ y # k /\ x # y
        BY <1>2, <2>1, <2>3
      <3> QED
        BY <1>2, <2>3, <3>1, <3>2, <3>3
    <2>4. CASE ~(~HasRoute(x, y) \/ w < Weight(x, y))
      BY <1>2, <2>1, <2>2, <2>4
    <2> QED
      BY <2>3, <2>4
  <1> QED
    BY <1>1, <1>2

\* Routes that were not relaxed end where they ended; those that were, end as a
\* route from k; so the vertices in front of their ends are k, where the route
\* begins, or vertices in front of k.
LEMMA JoinedTails ==
    ASSUME TypeOK, NEW k \in Vertex, Settled(k), NEW x \in Vertex, NEW y \in Vertex,
           x # y, Joined(k, x, y) # Null
    PROVE  LET u == ComesFrom(Joined(k, x, y))
           IN  u \in Vertex /\ (u = x \/ u <= k)
  <1>0. k \in Nat /\ \A v \in Vertex : v \in Nat
    BY DEF Vertex, Vertices
  <1>1. CASE Joined(k, x, y) = routes_internal_data[x][y]
    <2>1. HasRoute(x, y) /\ Joined(k, x, y).prev_edge = PrevEdge(x, y)
      BY <1>1 DEF HasRoute, PrevEdge
    <2>2. /\ PrevEdge(x, y) \in ListedEdges(graph)
          /\ \/ GetEdge(graph, PrevEdge(x, y)).from = x
             \/ GetEdge(graph, PrevEdge(x, y)).from < k
      BY <2>1 DEF Settled
    <2>3. PICK u \in Vertex : u = GetEdge(graph, PrevEdge(x, y)).from
      BY <2>2, Entries
    <2>4. ComesFrom(Joined(k, x, y)) = u
      BY <2>1, <2>3 DEF ComesFrom
    <2> QED
      BY <1>0, <2>2, <2>3, <2>4
  <1>2. CASE Joined(k, x, y) # routes_internal_data[x][y]
    <2>1. /\ HasRoute(k, y) /\ y # k
          /\ PrevEdge(k, y) # Null => Joined(k, x, y).prev_edge = PrevEdge(k, y)
      BY <1>2, JoinedEntry DEF Settled
    <2>2. /\ PrevEdge(k, y) \in ListedEdges(graph)
          /\ \/ GetEdge(graph, PrevEdge(k, y)).from = k
             \/ GetEdge(graph, PrevEdge(k, y)).from < k
      BY <2>1 DEF Settled
    <2>3. PrevEdge(k, y) # Null
      BY <2>2, Entries
    <2>4. PICK u \in Vertex : u = GetEdge(graph, PrevEdge(k, y)).from
      BY <2>2, Entries
    <2>5. ComesFrom(Joined(k, x, y)) = u
      BY <2>1, <2>3, <2>4 DEF ComesFrom
    <2> QED
      BY <1>0, <2>2, <2>4, <2>5
  <1> QED
    BY <1>1, <1>2

\* An edge from a vertex in front of k leads no route astray: whichever way the
\* tail is reached, its head is reached by no more than the edge.
LEMMA EdgeFromBelow ==
    ASSUME TypeOK, NEW k, Settled(k), NEW x \in Vertex, NEW id \in ListedEdges(graph),
           GetEdge(graph, id).from < k, HasRoute(x, GetEdge(graph, id).from)
    PROVE  LET edge == GetEdge(graph, id)
           IN  /\ edge.from \in Vertex /\ edge.to \in Vertex /\ edge.weight \in Nat
               /\ HasRoute(x, edge.to)
               /\ Weight(x, edge.to) \in Nat /\ Weight(x, edge.from) \in Nat
               /\ Weight(x, edge.to) <= Weight(x, edge.from) + edge.weight
  <1> DEFINE edge == GetEdge(graph, id)
  <1>1. edge.from \in Vertex /\ edge.to \in Vertex /\ edge.weight \in Int
    BY Entries DEF Edge
  <1>2. /\ edge.weight >= 0 /\ HasRoute(edge.from, edge.to)
        /\ Weight(edge.from, edge.to) <= edge.weight
    BY DEF Settled, Covered
  <1>3. /\ HasRoute(x, edge.to)
        /\ Weight(x, edge.to) <= Weight(x, edge.from) + Weight(edge.from, edge.to)
    BY <1>1, <1>2 DEF Settled, Direct
  <1>4. /\ Weight(x, edge.to) \in Nat /\ Weight(x, edge.from) \in Nat
        /\ Weight(edge.from, edge.to) \in Nat
    BY <1>1, <1>2, <1>3, Entries
  <1> HIDE DEF edge
  <1>5. Weight(x, edge.to) <= Weight(x, edge.from) + edge.weight
    BY <1>1, <1>2, <1>3, <1>4
  <1> QED
    BY <1>1, <1>2, <1>3, <1>4, <1>5 DEF edge

\* A phase closes no circle.  Take a circle of the new table.  The relaxed part of it
\* is left, going backwards along the routes from k, at some edge; if that edge did
\* not leave k, its head would be reached over its tail no heavier than over k, and
\* was not relaxed.  So the circle goes through k, which is not relaxed; and the part
\* that is not relaxed is left at some edge whose tail is relaxed, and then its
\* head would have been relaxed as well.
LEMMA NoCircleClosed ==
    ASSUME TypeOK, NEW k \in Vertex, Settled(k), NEW x \in Vertex, NEW ys \in SUBSET Vertex,
           ys # {}, \A y \in ys : y # x /\ Joined(k, x, y) # Null
    PROVE  \E y \in ys : ComesFrom(Joined(k, x, y)) \notin ys
  <1> SUFFICES ASSUME \A y \in ys : ComesFrom(Joined(k, x, y)) \in ys
               PROVE  FALSE
    OBVIOUS
  <1>0. k \in Nat /\ \A v \in Vertex : v \in Nat
    BY DEF Vertex, Vertices
  <1>1. PICK kept : kept = {y \in ys : Joined(k, x, y) = routes_internal_data[x][y]}
    OBVIOUS
  <1>2. PICK relaxed : relaxed = ys \ kept
    OBVIOUS
  <1>3. \A y \in kept :
          /\ y \in ys /\ y \in Vertex /\ y # x
          /\ HasRoute(x, y)
          /\ ComesFrom(Joined(k, x, y)) = GetEdge(graph, PrevEdge(x, y)).from
          /\ PrevEdge(x, y) \in ListedEdges(graph) /\ GetEdge(graph, PrevEdge(x, y)).to = y
          /\ Direct(x, GetEdge(graph, PrevEdge(x, y)).from,
                    Weight(x, y) - GetEdge(graph, PrevEdge(x, y)).weight)
          /\ GetEdge(graph, PrevEdge(x, y)).from = x \/ GetEdge(graph, PrevEdge(x, y)).from < k
    <2> SUFFICES ASSUME NEW y \in kept
                 PROVE  /\ y \in ys /\ y \in Vertex /\ y # x
                        /\ HasRoute(x, y)
                        /\ ComesFrom(Joined(k, x, y)) = GetEdge(graph, PrevEdge(x, y)).from
      BY DEF Settled
    <2> QED
      BY <1>1 DEF HasRoute, PrevEdge, ComesFrom
  <1>4. \A y \in relaxed :
          /\ y \in ys /\ y \in Vertex /\ y # k
          /\ HasRoute(x, k) /\ HasRoute(k, y)
          /\ HasRoute(x, y) => Weight(x, k) + Weight(k, y) < Weight(x, y)
          /\ ComesFrom(Joined(k, x, y)) = GetEdge(graph, PrevEdge(k, y)).from
          /\ PrevEdge(k, y) \in ListedEdges(graph) /\ GetEdge(graph, PrevEdge(k, y)).to = y
          /\ Direct(k, GetEdge(graph, PrevEdge(k, y)).from,
                    Weight(k, y) - GetEdge(graph, PrevEdge(k, y)).weight)
          /\ GetEdge(graph, PrevEdge(k, y)).from = k \/ GetEdge(graph, PrevEdge(k, y)).from < k
    <2> SUFFICES ASSUME NEW y \in relaxed
                 PROVE  /\ y \in ys /\ y \in Vertex /\ y # k
                        /\ HasRoute(x, k) /\ HasRoute(k, y)
                        /\ HasRoute(x, y) => Weight(x, k) + Weight(k, y) < Weight(x, y)
                        /\ ComesFrom(Joined(k, x, y)) = GetEdge(graph, PrevEdge(k, y)).from
      BY DEF Settled
    <2>1. y \in ys /\ y \in Vertex /\ Joined(k, x, y) # routes_internal_data[x][y]
      BY <1>1, <1>2
    <2>2. /\ HasRoute(x, k) /\ HasRoute(k, y) /\ y # k
          /\ HasRoute(x, y) => Weight(x, k) + Weight(k, y) < Weight(x, y)
          /\ PrevEdge(k, y) # Null => Joined(k, x, y).prev_edge = PrevEdge(k, y)
      BY <2>1, JoinedEntry DEF Settled
    <2>3. PrevEdge(k, y) # Null
      <3>1. PrevEdge(k, y) \in ListedEdges(graph)
        BY <2>1, <2>2 DEF Settled
      <3> QED
        BY <3>1, Entries
    <2> QED
      BY <2>1, <2>2, <2>3 DEF ComesFrom
  <1>5. kept \subseteq ys /\ relaxed \subseteq ys /\ ys = kept \cup relaxed
    BY <1>1, <1>2
  \* What was not relaxed is as light as over k.
  <1>6. \A y \in kept : HasRoute(x, k) /\ HasRoute(k, y) =>
                            HasRoute(x, y) /\ Weight(x, y) <= Weight(x, k) + Weight(k, y)
    <2> SUFFICES ASSUME NEW y \in kept, HasRoute(x, k), HasRoute(k, y)
                 PROVE  HasRoute(x, y) /\ Weight(x, y) <= Weight(x, k) + Weight(k, y)
      OBVIOUS
    <2>1. /\ y \in Vertex /\ HasRoute(x, y) /\ HasRoute(k, y) /\ HasRoute(x, k)
          /\ Weight(x, y) \in Nat /\ Weight(x, k) \in Nat /\ Weight(k, y) \in Nat
      BY <1>3, Entries
    <2>2. Joined(k, x, y) = routes_internal_data[x][y]
      BY <1>1
    <2>3. ~(Weight(x, k) + Weight(k, y) < Weight(x, y))
      <3>1. SUFFICES ASSUME Weight(x, k) + Weight(k, y) < Weight(x, y) PROVE FALSE
        OBVIOUS
      <3>2. Joined(k, x, y).weight = Weight(x, k) + Weight(k, y)
        BY <2>1, <3>1 DEF Joined, Relaxed, Weight
      <3> QED
        BY <2>1, <2>2, <3>1, <3>2 DEF Weight
    <2> QED
      BY <2>1, <2>3
  <1>7. kept # {}
    <2> SUFFICES ASSUME kept = {} PROVE FALSE
      OBVIOUS
    <2>1. relaxed # {} /\ relaxed \in SUBSET Vertex /\ \A y \in relaxed : y # k /\ HasRoute(k, y)
      BY <1>4, <1>5
    <2>2. PICK y \in relaxed : GetEdge(graph, PrevEdge(k, y)).from \notin relaxed
      BY <2>1 DEF Settled
    <2> QED
      BY <1>4, <1>5, <2>2
  <1>8. PICK y \in kept : GetEdge(graph, PrevEdge(x, y)).from \notin kept
    <2>1. kept \in SUBSET Vertex /\ \A y \in kept : y # x /\ HasRoute(x, y)
      BY <1>3
    <2> QED
      BY <1>7, <2>1 DEF Settled
  <1> DEFINE id == PrevEdge(x, y)
             u  == GetEdge(graph, id).from
             w  == GetEdge(graph, id).weight
  <1>9. u \in relaxed /\ u # x /\ u < k
    BY <1>3, <1>5, <1>8
  <1>10. /\ HasRoute(x, k) /\ HasRoute(k, u) /\ HasRoute(x, u)
         /\ Weight(x, k) + Weight(k, u) < Weight(x, u)
         /\ Weight(x, u) <= Weight(x, y) - w
         /\ id \in ListedEdges(graph) /\ GetEdge(graph, id).to = y
    BY <1>3, <1>4, <1>8, <1>9 DEF Direct
  <1>11. /\ u \in Vertex /\ y \in Vertex /\ w \in Nat
         /\ HasRoute(k, y)
         /\ Weight(k, y) \in Nat /\ Weight(k, u) \in Nat
         /\ Weight(k, y) <= Weight(k, u) + w
    BY <1>9, <1>10, EdgeFromBelow
  <1>12. Weight(x, y) <= Weight(x, k) + Weight(k, y)
    BY <1>6, <1>8, <1>10, <1>11
  <1>13. Weight(x, k) \in Nat /\ Weight(x, y) \in Nat /\ Weight(x, u) \in Nat
    BY <1>3, <1>8, <1>10, <1>11, Entries
  <1> HIDE DEF id, u, w
  <1> QED
    BY <1>10, <1>11, <1>12, <1>13

\* A table between two phases has the shape the invariant asks for.
LEMMA SettledShape ==
    ASSUME TypeOK, NEW k \in 0 .. VertexCount, Settled(k),
           UNCHANGED <<graph, routes_internal_data>>, vertex_through' = k
    PROVE  TailsBelow' /\ LinksEndAtSource'
  <1>0. \A v \in Vertex : v \in Nat /\ v < VertexCount
    BY RouterAssumption DEF Vertex, Vertices
  <1>1. CASE k < VertexCount
    <2>1. k \in Vertex
      BY <1>1, RouterAssumption DEF Vertex, Vertices
    <2>2. \A x, y : Eventual(x, y)' = Joined(k, x, y)
      BY <1>1 DEF Eventual, Joined, Relaxed, HasRoute, Weight
    <2>3. \A x, y : ComesFrom(Eventual(x, y))' = ComesFrom(Joined(k, x, y))
      BY <2>2 DEF ComesFrom
    <2>4. \A x, y \in Vertex :
            x # y /\ Joined(k, x, y) # Null =>
              ComesFrom(Joined(k, x, y)) = x \/ ComesFrom(Joined(k, x, y)) <= k
      BY <2>1, JoinedTails
    <2>5. TailsBelow'
      BY <2>2, <2>3, <2>4 DEF TailsBelow
    <2>6. \A x \in Vertex : \A ys \in SUBSET Vertex :
            ys # {} /\ (\A y \in ys : y # x /\ Joined(k, x, y) # Null)
              => \E y \in ys : ComesFrom(Joined(k, x, y)) \notin ys
      BY <2>1, NoCircleClosed
    <2>7. LinksEndAtSource'
      BY <2>2, <2>3, <2>6 DEF LinksEndAtSource
    <2> QED
      BY <2>5, <2>7
  <1>2. CASE ~(k < VertexCount)
    <2>1. \A x, y : Eventual(x, y)' = routes_internal_data[x][y]
      BY <1>2 DEF Eventual
    <2>2. \A x, y : ComesFrom(Eventual(x, y))' = GetEdge(graph, PrevEdge(x, y)).from
      BY <2>1 DEF ComesFrom, PrevEdge
    <2>3. TailsBelow'
      <3>1. ASSUME NEW x \in Vertex, NEW y \in Vertex, x # y, HasRoute(x, y)
            PROVE  \/ GetEdge(graph, PrevEdge(x, y)).from = x
                   \/ GetEdge(graph, PrevEdge(x, y)).from <= k
        <4>1. /\ PrevEdge(x, y) \in ListedEdges(graph)
              /\ \/ GetEdge(graph, PrevEdge(x, y)).from = x
                 \/ GetEdge(graph, PrevEdge(x, y)).from < k
          BY <3>1 DEF Settled
        <4>2. PICK u \in Vertex : u = GetEdge(graph, PrevEdge(x, y)).from
          BY <4>1, Entries
        <4> QED
          BY <1>0, <4>1, <4>2
      <3> QED
        BY <2>1, <2>2, <3>1 DEF TailsBelow, HasRoute
    <2>4. LinksEndAtSource'
      BY <2>1, <2>2 DEF LinksEndAtSource, Settled, HasRoute
    <2> QED
      BY <2>3, <2>4
  <1> QED
    BY <1>1, <1>2

-----------------------------------------------------------------------------
(* The shape of the routes is kept by every step. *)

\* The initialized table consists of edges: it is a table between two phases, all
\* of whose routes come from where they begin (router.h:43-60).
LEMMA StartRelaxationShape ==
    ASSUME TableInvariant, StartRelaxation
    PROVE  TailsBelow' /\ LinksEndAtSource'
  <1>0. /\ TypeOK /\ Initialized /\ Filled
        /\ UNCHANGED <<graph, routes_internal_data, vertex_through>>
        /\ vertex = VertexCount /\ vertex_through = 0
    BY DEF TableInvariant, StartRelaxation, Filled, LoopShape, loops
  <1>1. \A x \in Vertex : x \in Nat /\ Entered(x)
    BY <1>0, RouterAssumption DEF Entered, Vertex, Vertices
  <1>2. \A v \in Vertex : HasRoute(v, v) /\ Weight(v, v) = 0 /\ PrevEdge(v, v) = Null
    <2>1. \A v \in Vertex : routes_internal_data[v][v] = [weight |-> 0, prev_edge |-> Null]
      BY <1>0, <1>1 DEF Initialized
    <2> QED
      BY <2>1, RouterAssumption DEF HasRoute, Weight, PrevEdge
  <1>3. \A id \in ListedEdges(graph) : Covered(id)
    <2>1. EdgesCovered' /\ Tabled'
      BY StartRelaxationInvariant DEF TableInvariant, Tabled, StartRelaxation
    <2> QED
      BY <1>0, <2>1 DEF EdgesCovered, Covered, HasRoute, Weight
  <1>4. ASSUME NEW x \in Vertex, NEW y \in Vertex, x # y, HasRoute(x, y)
        PROVE  /\ PrevEdge(x, y) \in ListedEdges(graph)
               /\ GetEdge(graph, PrevEdge(x, y)).to = y
               /\ GetEdge(graph, PrevEdge(x, y)).from = x
               /\ GetEdge(graph, PrevEdge(x, y)).weight = Weight(x, y)
    BY <1>0, <1>4 DEF Initialized
  <1>5. Settled(0)
    <2>1. ASSUME NEW x \in Vertex, NEW y \in Vertex, x # y, HasRoute(x, y)
          PROVE  Direct(x, GetEdge(graph, PrevEdge(x, y)).from,
                        Weight(x, y) - GetEdge(graph, PrevEdge(x, y)).weight)
      <3>1. Weight(x, y) \in Nat
        BY <1>0, <2>1, Entries
      <3>2. Direct(x, x, Weight(x, y) - Weight(x, y))
        BY <1>2, <3>1 DEF Direct
      <3> QED
        BY <1>4, <2>1, <3>2
    <2>2. ASSUME NEW x \in Vertex, NEW ys \in SUBSET Vertex, ys # {},
                 \A y \in ys : y # x /\ HasRoute(x, y)
          PROVE  \E y \in ys : GetEdge(graph, PrevEdge(x, y)).from \notin ys
      BY <1>4, <2>2
    <2>3. \A x, y, m \in Vertex : ~(m < 0)
      BY <1>1
    <2> QED
      BY <1>2, <1>3, <1>4, <2>1, <2>2, <2>3 DEF Settled
  <1> QED
    BY <1>0, <1>5, SettledShape, RouterAssumption

\* Behind a phase the table is what the phase was to leave, and the next phase
\* starts from it (router.h:96-98).
LEMMA NextThroughShape ==
    ASSUME TableInvariant, TailsBelow, LinksEndAtSource, NextThrough
    PROVE  TailsBelow' /\ LinksEndAtSource'
  <1> DEFINE k == vertex_through
  <1>0. /\ TypeOK /\ Tabled /\ DiagonalZero /\ EdgesCovered /\ ClosedBelow /\ PrevLinks
        /\ UNCHANGED <<graph, routes_internal_data>> /\ vertex_through' = k + 1
        /\ k < VertexCount
    BY DEF TableInvariant, NextThrough, Tabled
  <1>1. /\ k \in Vertex /\ k \in Nat /\ k + 1 \in 0 .. VertexCount
        /\ \A x \in Vertex : x \in Nat
    BY <1>0, PhaseOver, RouterAssumption
  <1>2. \A x, y \in Vertex :
          HasRoute(x, k) /\ HasRoute(k, y) => Direct(x, y, Weight(x, k) + Weight(k, y))
    BY PhaseOver
  <1>3. \A x, y \in Vertex : \A w \in Int : AtMost(x, y, w) => Direct(x, y, w)
    BY PhaseOver
  <1>4. ASSUME NEW x \in Vertex, NEW y \in Vertex
        PROVE  Eventual(x, y) = routes_internal_data[x][y]
    <2>1. CASE HasRoute(x, k) /\ HasRoute(k, y)
      <3>1. HasRoute(x, y) /\ Weight(x, y) <= Weight(x, k) + Weight(k, y)
        BY <1>2, <2>1 DEF Direct
      <3>2. Weight(x, y) \in Nat /\ Weight(x, k) \in Nat /\ Weight(k, y) \in Nat
        BY <1>0, <1>1, <2>1, <3>1, Entries
      <3>3. ~(Weight(x, k) + Weight(k, y) < Weight(x, y))
        BY <3>1, <3>2
      <3> QED
        BY <1>0, <2>1, <3>1, <3>3 DEF Eventual, Joined, Relaxed, Weight
    <2>2. CASE ~(HasRoute(x, k) /\ HasRoute(k, y))
      BY <2>2 DEF Eventual, Joined
    <2> QED
      BY <2>1, <2>2
  <1>5. ASSUME NEW x \in Vertex, NEW y \in Vertex
        PROVE  ComesFrom(Eventual(x, y)) = GetEdge(graph, PrevEdge(x, y)).from
    BY <1>4 DEF ComesFrom, PrevEdge
  <1>6. Settled(k + 1)
    <2>1. \A v \in Vertex : HasRoute(v, v) /\ Weight(v, v) = 0 /\ PrevEdge(v, v) = Null
      <3>1. \A v \in Vertex : routes_internal_data[v][v] = [weight |-> 0, prev_edge |-> Null]
        BY <1>0 DEF DiagonalZero
      <3> QED
        BY <3>1, RouterAssumption DEF HasRoute, Weight, PrevEdge
    <2>2. \A id \in ListedEdges(graph) : Covered(id)
      BY <1>0 DEF EdgesCovered
    <2>3. ASSUME NEW x \in Vertex, NEW y \in Vertex, NEW m \in Vertex,
                 m < k + 1, HasRoute(x, m), HasRoute(m, y)
          PROVE  Direct(x, y, Weight(x, m) + Weight(m, y))
      <3>1. CASE m = k
        BY <1>2, <2>3, <3>1
      <3>2. CASE m # k
        <4>1. m < k
          BY <1>1, <2>3, <3>2
        <4>2. AtMost(x, y, Weight(x, m) + Weight(m, y))
          BY <1>0, <2>3, <4>1 DEF ClosedBelow
        <4>3. Weight(x, m) + Weight(m, y) \in Int
          BY <1>0, <2>3, Entries
        <4> QED
          BY <1>3, <4>2, <4>3
      <3> QED
        BY <3>1, <3>2
    <2>4. ASSUME NEW x \in Vertex, NEW y \in Vertex, x # y, HasRoute(x, y)
          PROVE  /\ PrevEdge(x, y) \in ListedEdges(graph)
                 /\ GetEdge(graph, PrevEdge(x, y)).to = y
                 /\ Direct(x, GetEdge(graph, PrevEdge(x, y)).from,
                           Weight(x, y) - GetEdge(graph, PrevEdge(x, y)).weight)
                 /\ \/ GetEdge(graph, PrevEdge(x, y)).from = x
                    \/ GetEdge(graph, PrevEdge(x, y)).from < k + 1
      <3>1. /\ PrevEdge(x, y) \in ListedEdges(graph)
            /\ GetEdge(graph, PrevEdge(x, y)).to = y
            /\ AtMost(x, GetEdge(graph, PrevEdge(x, y)).from,
                      Weight(x, y) - GetEdge(graph, PrevEdge(x, y)).weight)
        BY <1>0, <2>4 DEF PrevLinks
      <3>2. PICK u \in Vertex : u = GetEdge(graph, PrevEdge(x, y)).from
        BY <1>0, <3>1, Entries
      <3>3. PICK w \in Int : w = Weight(x, y) - GetEdge(graph, PrevEdge(x, y)).weight
        BY <1>0, <2>4, <3>1, Entries DEF Edge
      <3>4. Direct(x, u, w)
        BY <1>3, <3>1, <3>2, <3>3
      <3>5. u = x \/ u <= k
        <4>1. Eventual(x, y) # Null
          BY <1>4, <2>4 DEF HasRoute
        <4>2. ComesFrom(Eventual(x, y)) = u
          BY <1>5, <3>2
        <4> QED
          BY <1>0, <2>4, <4>1, <4>2 DEF TailsBelow
      <3> QED
        BY <1>1, <3>1, <3>2, <3>3, <3>4, <3>5
    <2>5. ASSUME NEW x \in Vertex, NEW ys \in SUBSET Vertex, ys # {},
                 \A y \in ys : y # x /\ HasRoute(x, y)
          PROVE  \E y \in ys : GetEdge(graph, PrevEdge(x, y)).from \notin ys
      <3>1. \A y \in ys : Eventual(x, y) # Null
        BY <1>4, <2>5 DEF HasRoute
      <3>2. PICK y \in ys : ComesFrom(Eventual(x, y)) \notin ys
        BY <1>0, <2>5, <3>1 DEF LinksEndAtSource
      <3> QED
        BY <1>5, <3>2
    <2> QED
      BY <2>1, <2>2, <2>3, <2>4, <2>5 DEF Settled
  <1> QED
    BY <1>0, <1>1, <1>6, SettledShape

\* RelaxRoute brings an entry to what the phase leaves of it, and leaves alone what
\* the phase makes of the others (router.h:63-75).
LEMMA RelaxRouteShape ==
    ASSUME TableInvariant, TailsBelow, LinksEndAtSource, RelaxRoute
    PROVE  TailsBelow' /\ LinksEndAtSource'
  <1> DEFINE k == vertex_through
             R == routes_internal_data
  <1>0. /\ TypeOK /\ DiagonalZero /\ Tabled
        /\ UNCHANGED <<graph, vertex_through>> /\ k < VertexCount
        /\ HasRoute(vertex_from, k) /\ HasRoute(k, vertex_to)
    BY DEF TableInvariant, RelaxRoute, InPhaseThrough, Tabled
  <1>1. k \in Vertex /\ \A v \in Vertex : R'[v][k] = R[v][k] /\ R'[k][v] = R[k][v]
    BY <1>0, RelaxRouteEffect
  <1>2. ASSUME NEW x \in Vertex, NEW y \in Vertex
        PROVE  Eventual(x, y)' = Eventual(x, y)
    <2>1. CASE R'[x][y] = R[x][y]
      BY <1>0, <1>1, <2>1 DEF Eventual, Joined, Relaxed, HasRoute, Weight
    <2>2. CASE R'[x][y] # R[x][y]
      <3>1. /\ HasRoute(x, k) /\ HasRoute(k, y)
            /\ R'[x][y] = [weight    |-> Weight(x, k) + Weight(k, y),
                           prev_edge |-> IF PrevEdge(k, y) # Null THEN PrevEdge(k, y)
                                                                  ELSE PrevEdge(x, k)]
            /\ HasRoute(x, y) => Weight(x, k) + Weight(k, y) < Weight(x, y)
            /\ x = vertex_from /\ y = vertex_to /\ R'[vertex_from][vertex_to] # Null
        BY <1>0, <2>2, RelaxRouteEffect
      <3>2. Eventual(x, y) = R'[x][y]
        BY <1>0, <3>1 DEF Eventual, Joined, Relaxed, Weight, PrevEdge
      <3>3. /\ HasRoute(x, k)' /\ HasRoute(k, y)' /\ HasRoute(x, y)'
            /\ Weight(x, k)' = Weight(x, k) /\ Weight(k, y)' = Weight(k, y)
            /\ Weight(x, y)' = Weight(x, k) + Weight(k, y)
        BY <1>0, <1>1, <3>1 DEF HasRoute, Weight
      <3>4. Weight(x, k) \in Nat /\ Weight(k, y) \in Nat
        BY <1>0, <1>1, <3>1, Entries
      <3>5. ~(Weight(x, k)' + Weight(k, y)' < Weight(x, y)')
        BY <3>3, <3>4
      <3>6. Eventual(x, y)' = R'[x][y]
        BY <1>0, <3>3, <3>5 DEF Eventual, Joined, Relaxed, Weight
      <3> QED
        BY <3>2, <3>6
    <2> QED
      BY <2>1, <2>2
  <1>3. ASSUME NEW x \in Vertex, NEW y \in Vertex
        PROVE  ComesFrom(Eventual(x, y))' = ComesFrom(Eventual(x, y))
    BY <1>0, <1>2 DEF ComesFrom
  <1>4. TailsBelow'
    BY <1>0, <1>2, <1>3 DEF TailsBelow
  <1>5. LinksEndAtSource'
    BY <1>0, <1>2, <1>3 DEF LinksEndAtSource
  <1> QED
    BY <1>4, <1>5

\* A step that writes neither the table nor vertex_through keeps the shape.
LEMMA ShapeKept ==
    ASSUME TailsBelow, LinksEndAtSource, Tabled,
           UNCHANGED <<graph, routes_internal_data, vertex_through>>
    PROVE  TailsBelow' /\ LinksEndAtSource'
  <1>1. \A x, y : /\ Eventual(x, y)' = Eventual(x, y)
                  /\ ComesFrom(Eventual(x, y))' = ComesFrom(Eventual(x, y))
    BY DEF Eventual, Joined, Relaxed, HasRoute, Weight, ComesFrom
  <1>2. TailsBelow'
    BY <1>1 DEF TailsBelow
  <1>3. LinksEndAtSource'
    BY <1>1 DEF LinksEndAtSource
  <1> QED
    BY <1>2, <1>3

-----------------------------------------------------------------------------
(* The walk. *)

\* The walk begins at the end of the route (router.h:108-114).
LEMMA BuildRouteFollows ==
    ASSUME TableInvariant, NEW from \in Vertex, NEW to \in Vertex, BuildRoute(from, to)
    PROVE  WalkFollowsLinks'
  BY DEF BuildRoute, WalkFollowsLinks, Current, HasRoute, PrevEdge

\* The walk is at a vertex of the graph (router.h:114-117).
LEMMA CurrentIsVertex ==
    ASSUME TypeOK, WalkFollowsLinks, phase = "walking", request \in [from : Vertex, to : Vertex]
    PROVE  Current \in Vertex
  <1>1. CASE edges = << >>
    BY <1>1 DEF Current
  <1>2. CASE edges # << >>
    <2>1. Len(edges) \in DOMAIN edges
      BY <1>2 DEF TypeOK
    <2>2. edges[Len(edges)] \in ListedEdges(graph)
      BY <2>1 DEF WalkFollowsLinks
    <2> QED
      BY <1>2, <2>2, Entries DEF Current
  <1> QED
    BY <1>1, <1>2

\* The walk goes from the head of a link to its tail (router.h:114-117).
LEMMA WalkEdgeFollows ==
    ASSUME TableInvariant, WalkFollowsLinks, WalkEdge
    PROVE  WalkFollowsLinks'
  <1>0. /\ TypeOK /\ OnRoute /\ PrevEdgesAddUp /\ Finished
        /\ phase = "walking" /\ edge_id # Null
        /\ UNCHANGED <<graph, phase, routes_internal_data, request>>
        /\ edges' = Append(edges, edge_id) /\ edge_id' = WalkedEntry.prev_edge
    BY FinishedTable DEF TableInvariant, WalkEdge, Finished, loops
  <1>1. /\ request.from \in Vertex /\ request.to \in Vertex
        /\ edge_id \in ListedEdges(graph) /\ edge_id \in Nat
        /\ HasRoute(request.from, GetEdge(graph, edge_id).from)
    BY <1>0 DEF OnRoute, TypeOK
  <1>2. /\ edges \in Seq(Nat) /\ Len(edges) \in Nat /\ DOMAIN edges = 1 .. Len(edges)
    BY <1>0 DEF TypeOK
  <1>3. /\ Len(edges') = Len(edges) + 1 /\ DOMAIN edges' = 1 .. Len(edges) + 1
        /\ edges'[Len(edges) + 1] = edge_id
        /\ \A i \in 1 .. Len(edges) : edges'[i] = edges[i]
    <2>1. edges' \in Seq(Nat)
      BY <1>0, <1>1, <1>2
    <2> QED
      BY <1>0, <1>1, <1>2, <2>1, AppendNat
  <1>4. /\ HasRoute(request.from, Current) /\ edge_id = PrevEdge(request.from, Current)
        /\ \A i \in DOMAIN edges :
            /\ edges[i] \in ListedEdges(graph)
            /\ GetEdge(graph, edges[i]).to # request.from
            /\ HasRoute(request.from, GetEdge(graph, edges[i]).to)
            /\ edges[i] = PrevEdge(request.from, GetEdge(graph, edges[i]).to)
            /\ i = 1 => GetEdge(graph, edges[i]).to = request.to
            /\ i < Len(edges) => GetEdge(graph, edges[i + 1]).to = GetEdge(graph, edges[i]).from
    BY <1>0 DEF WalkFollowsLinks
  <1>5. Current \in Vertex
    BY <1>0, CurrentIsVertex DEF OnRoute
  <1>6. Current # request.from /\ GetEdge(graph, edge_id).to = Current
    BY <1>0, <1>1, <1>4, <1>5 DEF PrevEdgesAddUp
  <1>7. /\ HasRoute(request.from, Current)' /\ edge_id' = PrevEdge(request.from, Current)'
    <2>1. edges' # << >>
      BY <1>2, <1>3
    <2>2. Current' = GetEdge(graph, edge_id).from
      BY <1>0, <1>3, <2>1 DEF Current
    <2> QED
      BY <1>0, <1>1, <2>2 DEF HasRoute, PrevEdge, WalkedEntry
  <1>8. ASSUME NEW i \in 1 .. Len(edges) + 1
        PROVE  /\ edges'[i] \in ListedEdges(graph)
               /\ GetEdge(graph, edges'[i]).to # request.from
               /\ HasRoute(request.from, GetEdge(graph, edges'[i]).to)
               /\ edges'[i] = PrevEdge(request.from, GetEdge(graph, edges'[i]).to)
               /\ i = 1 => GetEdge(graph, edges'[i]).to = request.to
               /\ i < Len(edges) + 1 =>
                    GetEdge(graph, edges'[i + 1]).to = GetEdge(graph, edges'[i]).from
    <2>1. CASE i = Len(edges) + 1
      <3>1. i = 1 => Current = request.to
        BY <1>2, <2>1 DEF Current
      <3> QED
        BY <1>1, <1>2, <1>3, <1>4, <1>6, <2>1, <3>1
    <2>2. CASE i = Len(edges)
      <3>1. i \in DOMAIN edges /\ edges # << >> /\ edges'[i] = edges[i] /\ edges'[i + 1] = edge_id
        BY <1>2, <1>3, <2>2
      <3>2. Current = GetEdge(graph, edges[i]).from
        BY <2>2, <3>1 DEF Current
      <3> QED
        BY <1>4, <1>6, <3>1, <3>2
    <2>3. CASE i < Len(edges)
      <3>1. i \in DOMAIN edges /\ edges'[i] = edges[i] /\ edges'[i + 1] = edges[i + 1]
        BY <1>2, <1>3, <2>3
      <3> QED
        BY <1>4, <2>3, <3>1
    <2>4. i = Len(edges) + 1 \/ i = Len(edges) \/ i < Len(edges)
      <3>1. \A n \in Nat : \A m \in 1 .. n + 1 : m = n + 1 \/ m = n \/ m < n
        OBVIOUS
      <3>2. Len(edges) \in Nat
        BY <1>2
      <3> HIDE DEF WalkEdge
      <3> QED
        BY <3>1, <3>2
    <2> QED
      BY <2>1, <2>2, <2>3, <2>4
  <1> QED
    BY <1>0, <1>3, <1>7, <1>8 DEF WalkFollowsLinks, HasRoute, PrevEdge

\* A vertex the walk entered twice would be on a circle of links.
LEMMA WalkSimple == InductiveInvariant => WalkIsSimple
  <1> SUFFICES ASSUME InductiveInvariant,
                      NEW i \in DOMAIN edges, NEW j \in DOMAIN edges, i < j,
                      GetEdge(graph, edges[i]).to = GetEdge(graph, edges[j]).to
               PROVE  FALSE
    <2>1. \A i, j \in DOMAIN edges : i # j => i < j \/ j < i
      BY DEF InductiveInvariant, TableInvariant, TypeOK
    <2> QED
      BY <2>1 DEF WalkIsSimple
  <1>0. /\ TypeOK /\ phase = "walking" /\ Tabled /\ request.from \in Vertex
        /\ vertex_through = VertexCount /\ LinksEndAtSource /\ WalkFollowsLinks
        /\ edges \in Seq(Nat) /\ DOMAIN edges = 1 .. Len(edges)
    BY DEF InductiveInvariant, TableInvariant, WalkFollowsLinks, LoopShape, Finished, Tabled,
           OnRoute, TypeOK
  <1>1. \A n \in DOMAIN edges :
          /\ edges[n] \in ListedEdges(graph)
          /\ GetEdge(graph, edges[n]).to # request.from
          /\ HasRoute(request.from, GetEdge(graph, edges[n]).to)
          /\ edges[n] = PrevEdge(request.from, GetEdge(graph, edges[n]).to)
          /\ n < Len(edges) => GetEdge(graph, edges[n + 1]).to = GetEdge(graph, edges[n]).from
    BY <1>0 DEF WalkFollowsLinks
  <1>2. PICK ys : ys = {GetEdge(graph, edges[n]).to : n \in i .. j - 1}
    OBVIOUS
  <1>3. \A n \in i .. j - 1 : n \in DOMAIN edges /\ n < Len(edges) /\ n + 1 \in DOMAIN edges
    BY <1>0
  <1>4. ys \in SUBSET Vertex /\ ys # {} /\ \A y \in ys : y # request.from /\ HasRoute(request.from, y)
    <2>1. \A n \in DOMAIN edges : GetEdge(graph, edges[n]).to \in Vertex
      BY <1>0, <1>1, Entries DEF Edge
    <2>2. i \in i .. j - 1
      BY <1>0
    <2> QED
      BY <1>1, <1>2, <1>3, <2>1, <2>2
  <1>5. PICK y \in ys : ComesFrom(Eventual(request.from, y)) \notin ys
    <2>1. \A y : Eventual(request.from, y) = routes_internal_data[request.from][y]
      BY <1>0, RouterAssumption DEF Eventual
    <2> QED
      BY <1>0, <1>4, <2>1 DEF LinksEndAtSource, HasRoute
  <1>6. PICK n \in i .. j - 1 : y = GetEdge(graph, edges[n]).to
    BY <1>2
  <1>7. ComesFrom(Eventual(request.from, y)) = GetEdge(graph, edges[n + 1]).to
    <2>0. n \in DOMAIN edges
      BY <1>3
    <2>1. edges[n] = PrevEdge(request.from, y)
      BY <1>1, <1>6, <2>0
    <2>2. Eventual(request.from, y).prev_edge = edges[n]
      BY <1>0, <2>1, RouterAssumption DEF Eventual, PrevEdge
    <2> QED
      BY <1>1, <1>3, <2>2 DEF ComesFrom
  <1>8. CASE n + 1 \in i .. j - 1
    BY <1>2, <1>5, <1>7, <1>8
  <1>9. CASE n + 1 = j
    <2>1. i \in i .. j - 1
      BY <1>0
    <2> QED
      BY <1>2, <1>5, <1>7, <1>9, <2>1
  <1> QED
    BY <1>0, <1>6, <1>8, <1>9

-----------------------------------------------------------------------------
(* The theorems. *)

\* The table is sound and the shape of its routes free of circles at every step of
\* the constructor and of BuildRoute (router.h:43-121).
THEOREM Invariance == Spec => []InductiveInvariant
  <1>1. Init => TailsBelow /\ LinksEndAtSource /\ WalkFollowsLinks
    BY DEF Init, TailsBelow, LinksEndAtSource, WalkFollowsLinks, Tabled
  <1>2. TableInvariant /\ TableInvariant' /\ [Next]_vars
          /\ TailsBelow /\ LinksEndAtSource /\ WalkFollowsLinks
          => TailsBelow' /\ LinksEndAtSource' /\ WalkFollowsLinks'
    <2> SUFFICES ASSUME TableInvariant, [Next]_vars,
                        TailsBelow, LinksEndAtSource, WalkFollowsLinks
                 PROVE  TailsBelow' /\ LinksEndAtSource' /\ WalkFollowsLinks'
      OBVIOUS
    <2>1. CASE Client
      <3>1. CASE \E edge \in EdgeChoice : AddEdgeAction(edge)
        BY <3>1 DEF AddEdgeAction, TailsBelow, LinksEndAtSource, WalkFollowsLinks, Tabled, walk
      <3>2. CASE Construct
        BY <3>2 DEF Construct, TailsBelow, LinksEndAtSource, WalkFollowsLinks, Tabled, walk
      <3>3. ASSUME NEW from \in Vertex, NEW to \in Vertex, BuildRoute(from, to)
            PROVE  TailsBelow' /\ LinksEndAtSource' /\ WalkFollowsLinks'
        BY <3>3, BuildRouteFollows, ShapeKept DEF BuildRoute, Tabled, loops
      <3> QED
        BY <2>1, <3>1, <3>2, <3>3 DEF Client
    <2>2. CASE EnterVertex \/ ScanEdge \/ RejectEdge \/ LeaveVertex
      BY <2>2 DEF EnterVertex, ScanEdge, RejectEdge, LeaveVertex, TailsBelow, LinksEndAtSource,
                  WalkFollowsLinks, Tabled, walk
    <2>3. CASE StartRelaxation
      BY <2>3, StartRelaxationShape DEF StartRelaxation, WalkFollowsLinks, walk
    <2>4. CASE SkipRow \/ SkipColumn \/ NextRow
      BY <2>4, ShapeKept
      DEF SkipRow, SkipColumn, NextRow, InPhaseThrough, Tabled, WalkFollowsLinks, walk
    <2>5. CASE RelaxRoute
      BY <2>5, RelaxRouteShape DEF RelaxRoute, InPhaseThrough, WalkFollowsLinks, walk
    <2>6. CASE NextThrough
      BY <2>6, NextThroughShape DEF NextThrough, WalkFollowsLinks, walk
    <2>7. CASE Constructed
      BY <2>7, ShapeKept DEF Constructed, Tabled, WalkFollowsLinks, loops, walk
    <2>8. CASE WalkEdge
      BY <2>8, ShapeKept, WalkEdgeFollows DEF WalkEdge, Tabled, loops
    <2>9. CASE FinishWalk
      BY <2>9, ShapeKept DEF FinishWalk, Tabled, WalkFollowsLinks, loops
    <2>10. CASE UNCHANGED vars
      <3>1. WalkFollowsLinks'
        BY <2>10 DEF vars, WalkFollowsLinks, Current, HasRoute, PrevEdge
      <3>2. CASE Tabled
        BY <2>10, <3>1, <3>2, ShapeKept DEF vars
      <3>3. CASE ~Tabled
        BY <2>10, <3>1, <3>3 DEF vars, Tabled, TailsBelow, LinksEndAtSource
      <3> QED
        BY <3>2, <3>3
    <2> QED
      BY <2>1, <2>2, <2>3, <2>4, <2>5, <2>6, <2>7, <2>8, <2>9, <2>10
      DEF Next, Constructor, Walk
  <1> QED
    BY <1>1, <1>2, TableInvariance, PTL DEF Spec, InductiveInvariant

\* The walk of BuildRoute enters no vertex twice, also on graphs with cycles of
\* weight 0 (router.h:114-117).
THEOREM WalkEnds == Spec => []WalkIsSimple
  BY Invariance, WalkSimple, PTL
=============================================================================
