-------------------- MODULE GraphRouterRefinement_proofs --------------------
(***************************************************************************)
(* graph::Router implements RoutePlanner, for every number of vertices,    *)
(* every choice of edges and every number of them: the proof that its      *)
(* initial states and its steps are the planner's, or no steps of it.      *)
(***************************************************************************)
EXTENDS GraphRouter_proofs, GraphRouterRefinement, InductionLemmas, FiniteSetTheorems

-----------------------------------------------------------------------------
(* The walks of the reference definition. *)

\* A walk as the planner has it.
WalkRecord == [edges : Seq(Nat), weight : Int, end : Vertex]

\* The planner's graphs are the router's (graph.h).
LEMMA SameGraph ==
    /\ Planner!Vertex = Vertex
    /\ \A g, n : Planner!AddEdge(g, n) = AddEdge(g, n)
    /\ \A n : Planner!EmptyGraph(n) = EmptyGraph(n)
    /\ Planner!ListedEdges(graph) = ListedEdges(graph)
  BY DEF Planner!Vertex, Planner!Vertices, Vertex, Vertices, Planner!AddEdge, AddEdge,
         Planner!EmptyGraph, EmptyGraph, Planner!ListedEdges, ListedEdges,
         Planner!GetEdge, GetEdge

\* Walks stay walks when an edge is added.
LEMMA LongerType ==
    ASSUME TypeOK, NEW walks \in SUBSET WalkRecord
    PROVE  Planner!Longer(walks) \in SUBSET WalkRecord
  <1>1. ASSUME NEW path \in walks, NEW id \in Planner!Leaving(path)
        PROVE  Planner!Extended(path, id) \in WalkRecord
    <2>1. id \in ListedEdges(graph) /\ id \in 1 .. Len(graph.edges)
          /\ graph.edges[id] \in Edge
      BY Entries, SameGraph DEF Planner!Leaving, GetEdge
    <2>2. Append(path.edges, id) \in Seq(Nat)
      BY <2>1 DEF WalkRecord, TypeOK
    <2> QED
      BY <2>1, <2>2 DEF WalkRecord, Planner!Extended, Edge
  <1> QED
    BY <1>1 DEF Planner!Longer

\* The recursive definition of the walks means what it says: there is a sequence of
\* sets that starts with the walk that stays, each set extending the last.
LEMMA WalksByLength ==
    ASSUME TypeOK, NEW source \in Vertex
    PROVE  \E f \in [Nat -> SUBSET WalkRecord] :
              /\ f[0] = {Planner!Staying(source)}
              /\ \A n \in Nat : f[n + 1] = Planner!Longer(f[n])
              /\ Planner!Walks(source) = f[VertexCount - 1]
  <1> DEFINE step == [walks \in SUBSET WalkRecord |-> Planner!Longer(walks)]
             Unfolds(f) == f = [n \in Nat |-> IF n = 0 THEN {Planner!Staying(source)}
                                              ELSE Planner!Longer(f[n - 1])]
             walks == CHOOSE f : Unfolds(f)
  <1>1. {Planner!Staying(source)} \in SUBSET WalkRecord
    BY DEF Planner!Staying, WalkRecord
  <1>2. step \in [SUBSET WalkRecord -> SUBSET WalkRecord]
    BY LongerType
  <1>3. PICK f \in [Nat -> SUBSET WalkRecord] :
            f = [n \in Nat |-> IF n = 0 THEN {Planner!Staying(source)} ELSE step[f[n - 1]]]
    <2>1. PICK T : T = SUBSET WalkRecord
      OBVIOUS
    <2>2. PICK start \in T : start = {Planner!Staying(source)}
      BY <1>1, <2>1
    <2>3. PICK next \in [T -> T] : next = step
      BY <1>2, <2>1
    <2> HIDE DEF step
    <2>4. \E f \in [Nat -> T] : f = [n \in Nat |-> IF n = 0 THEN start ELSE next[f[n - 1]]]
      BY RecursionOnNat
    <2> QED
      BY <2>1, <2>2, <2>3, <2>4
  <1>4. Unfolds(f)
    <2>1. \A n \in Nat \ {0} : step[f[n - 1]] = Planner!Longer(f[n - 1])
      <3>1. \A n \in Nat \ {0} : f[n - 1] \in SUBSET WalkRecord
        OBVIOUS
      <3> QED
        BY <3>1
    <2> HIDE DEF step
    <2>2. \A n \in Nat : f[n] = IF n = 0 THEN {Planner!Staying(source)} ELSE Planner!Longer(f[n - 1])
      BY <1>3, <2>1
    <2> QED
      BY <2>2
  <1>5. Unfolds(walks)
    BY <1>4
  <1>6. walks[VertexCount - 1] = Planner!Walks(source)
    BY DEF Planner!Walks
  <1>7. PICK g : g = walks
    OBVIOUS
  <1>8. g = [n \in Nat |-> IF n = 0 THEN {Planner!Staying(source)} ELSE Planner!Longer(g[n - 1])]
    BY <1>5, <1>7
  <1>9. \A n \in Nat : g[n] = f[n]
    <2> DEFINE S == {n \in Nat : g[n] = f[n]}
    <2>1. 0 \in S
      BY <1>4, <1>8
    <2>2. ASSUME NEW n \in Nat, n \in S
          PROVE  n + 1 \in S
      <3>1. PICK m \in Nat : m = n + 1 /\ m # 0 /\ m - 1 = n
        OBVIOUS
      <3>2. f[m] = Planner!Longer(f[m - 1]) /\ g[m] = Planner!Longer(g[m - 1])
        BY <1>4, <1>8, <3>1
      <3> QED
        BY <2>2, <3>1, <3>2
    <2> HIDE DEF S
    <2>3. \A n \in Nat : n \in S
      BY <2>1, <2>2, SetInduction
    <2> QED
      BY <2>3 DEF S
  <1>10. g = f
    BY <1>8, <1>9
  <1>11. /\ f[0] = {Planner!Staying(source)}
         /\ \A n \in Nat : f[n + 1] = Planner!Longer(f[n])
    <2>1. f[0] = {Planner!Staying(source)}
      BY <1>4
    <2>2. ASSUME NEW n \in Nat
          PROVE  f[n + 1] = Planner!Longer(f[n])
      <3>1. PICK m \in Nat : m = n + 1 /\ m # 0 /\ m - 1 = n
        OBVIOUS
      <3>2. f[m] = Planner!Longer(f[m - 1])
        BY <1>4, <3>1
      <3> QED
        BY <3>1, <3>2
    <2> QED
      BY <2>1, <2>2
  <1> QED
    BY <1>6, <1>7, <1>10, <1>11

\* The walks of a source by the number of their edges at most.
WalksFrom(f, source) ==
    /\ f \in [Nat -> SUBSET WalkRecord]
    /\ f[0] = {Planner!Staying(source)}
    /\ \A n \in Nat : f[n + 1] = Planner!Longer(f[n])

\* The walks of one edge more, by their last edge.
LEMMA LongerWalks ==
    ASSUME TypeOK, NEW walks \in SUBSET WalkRecord
    PROVE  /\ \A path \in walks : path \in Planner!Longer(walks)
           /\ \A path \in walks, id \in ListedEdges(graph) :
                GetEdge(graph, id).from = path.end =>
                  [edges  |-> Append(path.edges, id),
                   weight |-> path.weight + GetEdge(graph, id).weight,
                   end    |-> GetEdge(graph, id).to] \in Planner!Longer(walks)
           /\ \A path \in Planner!Longer(walks) :
                \/ path \in walks
                \/ \E front \in walks, id \in ListedEdges(graph) :
                     /\ GetEdge(graph, id).from = front.end
                     /\ path.end = GetEdge(graph, id).to
                     /\ path.weight = front.weight + GetEdge(graph, id).weight
  <1>1. \A path : path \in Planner!Longer(walks) <=>
            \E front \in walks :
              \/ path = front
              \/ \E id \in Planner!Leaving(front) : path = Planner!Extended(front, id)
    BY DEF Planner!Longer
  <1>2. \A front : \A id : id \in Planner!Leaving(front) <=>
            id \in ListedEdges(graph) /\ GetEdge(graph, id).from = front.end
    BY SameGraph DEF Planner!Leaving, GetEdge
  <1>3. \A front, id : Planner!Extended(front, id) =
            [edges  |-> Append(front.edges, id),
             weight |-> front.weight + GetEdge(graph, id).weight,
             end    |-> GetEdge(graph, id).to]
    BY DEF Planner!Extended, GetEdge
  <1>4. \A path \in walks : path \in Planner!Longer(walks)
    BY <1>1
  <1>5. ASSUME NEW path \in walks, NEW id \in ListedEdges(graph),
               GetEdge(graph, id).from = path.end
        PROVE  [edges  |-> Append(path.edges, id),
                weight |-> path.weight + GetEdge(graph, id).weight,
                end    |-> GetEdge(graph, id).to] \in Planner!Longer(walks)
    <2>1. Planner!Extended(path, id) \in Planner!Longer(walks)
      BY <1>1, <1>2, <1>5
    <2> QED
      BY <1>3, <2>1
  <1>6. ASSUME NEW path \in Planner!Longer(walks), path \notin walks
        PROVE  \E front \in walks, id \in ListedEdges(graph) :
                 /\ GetEdge(graph, id).from = front.end
                 /\ path.end = GetEdge(graph, id).to
                 /\ path.weight = front.weight + GetEdge(graph, id).weight
    <2>1. PICK front \in walks :
            \E id \in Planner!Leaving(front) : path = Planner!Extended(front, id)
      BY <1>1, <1>6
    <2>2. PICK id \in ListedEdges(graph) :
            GetEdge(graph, id).from = front.end /\ path = Planner!Extended(front, id)
      BY <1>2, <2>1
    <2>3. path.end = GetEdge(graph, id).to /\ path.weight = front.weight + GetEdge(graph, id).weight
      BY <1>3, <2>2
    <2> QED
      BY <2>2, <2>3
  <1> QED
    BY <1>4, <1>5, <1>6

\* A walk of n edges is one of n + m at most.
LEMMA MoreWalks ==
    ASSUME TypeOK, NEW source \in Vertex, NEW f, WalksFrom(f, source), NEW m \in Nat
    PROVE  \A n \in Nat : f[n] \subseteq f[n + m]
  <1> SUFFICES ASSUME NEW n \in Nat PROVE f[n] \subseteq f[n + m]
    OBVIOUS
  <1> DEFINE S == {i \in Nat : f[n] \subseteq f[n + i]}
  <1>1. 0 \in S
    OBVIOUS
  <1>2. ASSUME NEW i \in Nat, i \in S
        PROVE  i + 1 \in S
    <2>1. n + i \in Nat /\ n + (i + 1) = (n + i) + 1
      OBVIOUS
    <2>2. f[n + i] \in SUBSET WalkRecord /\ f[(n + i) + 1] = Planner!Longer(f[n + i])
      BY <2>1 DEF WalksFrom
    <2>3. f[n + i] \subseteq f[(n + i) + 1]
      BY <2>2, LongerWalks
    <2> QED
      BY <1>2, <2>1, <2>3
  <1> HIDE DEF S
  <1>3. m \in S
    BY <1>1, <1>2, SetInduction
  <1> QED
    BY <1>3 DEF S

\* No walk is lighter than the table's route to its end (router.h:87-101).
LEMMA NoLighterWalk ==
    ASSUME InductiveInvariant, Finished, NEW source \in Vertex, NEW f, WalksFrom(f, source),
           NEW n \in Nat, NEW path \in f[n]
    PROVE  /\ path.end \in Vertex /\ path.weight \in Int
           /\ HasRoute(source, path.end)
           /\ Weight(source, path.end) <= path.weight
  <1>0. TypeOK /\ RoutesAreShortest
    BY FinishedTable DEF InductiveInvariant, TableInvariant
  <1> DEFINE Bound(w) == /\ w.end \in Vertex /\ w.weight \in Int
                         /\ HasRoute(source, w.end)
                         /\ Weight(source, w.end) <= w.weight
             S == {i \in Nat : \A w \in f[i] : Bound(w)}
  <1>1. 0 \in S
    <2>1. \A w \in f[0] : w = Planner!Staying(source)
      BY DEF WalksFrom
    <2> QED
      BY <1>0, <2>1 DEF Planner!Staying, RoutesAreShortest
  <1>2. ASSUME NEW i \in Nat, i \in S
        PROVE  i + 1 \in S
    <2> SUFFICES ASSUME NEW w \in f[i + 1] PROVE Bound(w)
      OBVIOUS
    <2>0. f[i] \in SUBSET WalkRecord /\ f[i + 1] = Planner!Longer(f[i])
      BY DEF WalksFrom
    <2>1. CASE w \in f[i]
      BY <1>2, <2>1
    <2>2. CASE w \notin f[i]
      <3>1. PICK front \in f[i], id \in ListedEdges(graph) :
              /\ GetEdge(graph, id).from = front.end
              /\ w.end = GetEdge(graph, id).to
              /\ w.weight = front.weight + GetEdge(graph, id).weight
        BY <1>0, <2>0, <2>2, LongerWalks
      <3>2. PICK a \in Vertex, b \in Vertex, c \in Int :
              a = front.end /\ b = w.end /\ c = GetEdge(graph, id).weight
        BY <1>0, <3>1, Entries DEF Edge
      <3>3. /\ HasRoute(source, a) /\ front.weight \in Int
            /\ Weight(source, a) <= front.weight
        BY <1>2, <3>2
      <3>4. HasRoute(a, b) /\ Weight(a, b) <= c
        BY <1>0, <3>1, <3>2 DEF RoutesAreShortest
      <3>5. HasRoute(source, b) /\ Weight(source, b) <= Weight(source, a) + Weight(a, b)
        BY <1>0, <3>3, <3>4 DEF RoutesAreShortest
      <3>6. Weight(source, a) \in Nat /\ Weight(a, b) \in Nat /\ Weight(source, b) \in Nat
        BY <1>0, <3>3, <3>4, <3>5, Entries
      <3>7. w.weight \in Int /\ Weight(source, b) <= w.weight
        BY <3>1, <3>2, <3>3, <3>4, <3>5, <3>6
      <3> QED
        BY <3>2, <3>5, <3>7
    <2> QED
      BY <2>1, <2>2
  <1> HIDE DEF S
  <1>3. n \in S
    BY <1>1, <1>2, SetInduction
  <1> QED
    BY <1>3 DEF S

\* VertexCount is the number of vertices.
LEMMA VerticesAreFinite == IsFiniteSet(Vertex) /\ Cardinality(Vertex) = VertexCount
  <1>1. VertexCount \in Nat /\ VertexCount - 1 \in Int
    BY RouterAssumption
  <1>2. IsFiniteSet(0 .. VertexCount - 1)
        /\ Cardinality(0 .. VertexCount - 1)
             = IF 0 > VertexCount - 1 THEN 0 ELSE (VertexCount - 1) - 0 + 1
    BY <1>1, FS_Interval
  <1> QED
    BY <1>1, <1>2 DEF Vertex, Vertices

\* The weight of every route of the table is that of a walk: one of fewer than
\* VertexCount edges, because the links form a tree that grows from the source by
\* a vertex an edge (router.h:63-75).
LEMMA EveryRouteIsWalked ==
    ASSUME InductiveInvariant, Finished, NEW source \in Vertex, NEW f, WalksFrom(f, source),
           NEW target \in Vertex, HasRoute(source, target)
    PROVE  \E path \in f[VertexCount - 1] :
              path.end = target /\ path.weight = Weight(source, target)
  <1>0. /\ TypeOK /\ RoutesAreShortest /\ PrevEdgesAddUp /\ LinksEndAtSource /\ Tabled
        /\ vertex_through = VertexCount
    BY FinishedTable DEF InductiveInvariant, TableInvariant, LoopShape, Finished, Tabled
  <1>1. VertexCount \in Nat /\ VertexCount - 1 \in Nat
    BY RouterAssumption DEF Vertex, Vertices
  <1>2. HasRoute(source, source) /\ Weight(source, source) = 0
    BY <1>0 DEF RoutesAreShortest
  <1>3. PICK reached : reached = {v \in Vertex : HasRoute(source, v)}
    OBVIOUS
  <1> DEFINE Walked(n, vs) ==
                /\ source \in vs
                /\ vs = reached \/ (IsFiniteSet(vs) /\ Cardinality(vs) = n + 1)
                /\ \A v \in vs : \E path \in f[n] : path.end = v /\ path.weight = Weight(source, v)
             S == {n \in Nat : \E vs \in SUBSET reached : Walked(n, vs)}
  <1>4. 0 \in S
    <2>1. {source} \in SUBSET reached
      BY <1>2, <1>3
    <2>2. IsFiniteSet({source}) /\ Cardinality({source}) = 1
      BY FS_Singleton
    <2>3. PICK path \in f[0] : path.end = source /\ path.weight = 0
      BY DEF WalksFrom, Planner!Staying
    <2>4. Walked(0, {source})
      BY <1>2, <2>2, <2>3
    <2> QED
      BY <2>1, <2>4
  <1>5. ASSUME NEW n \in Nat, n \in S
        PROVE  n + 1 \in S
    <2>1. PICK vs \in SUBSET reached : Walked(n, vs)
      BY <1>5
    <2>2. /\ f[n] \in SUBSET WalkRecord /\ f[n + 1] = Planner!Longer(f[n])
          /\ f[n] \subseteq f[n + 1]
      <3>1. f[n] \in SUBSET WalkRecord /\ f[n + 1] = Planner!Longer(f[n])
        BY DEF WalksFrom
      <3> QED
        BY <1>0, <3>1, LongerWalks
    <2>3. CASE vs = reached
      <3>1. Walked(n + 1, vs)
        BY <2>1, <2>2, <2>3
      <3> QED
        BY <2>1, <3>1
    <2>4. CASE vs # reached
      <3>1. PICK ys : ys = reached \ vs
        OBVIOUS
      <3>2. /\ ys \in SUBSET Vertex /\ ys # {} /\ \A y \in ys : y # source /\ HasRoute(source, y)
        BY <1>3, <2>1, <2>4, <3>1
      <3>3. \A y : Eventual(source, y) = routes_internal_data[source][y]
        BY <1>0, <1>1 DEF Eventual
      <3>4. PICK y \in ys : ComesFrom(Eventual(source, y)) \notin ys
        BY <1>0, <3>2, <3>3 DEF LinksEndAtSource, HasRoute
      <3>5. y \in Vertex /\ y # source /\ HasRoute(source, y) /\ y \notin vs /\ y \in reached
        BY <3>1, <3>2
      <3>6. PICK id : id = PrevEdge(source, y)
        OBVIOUS
      <3>7. /\ id \in ListedEdges(graph) /\ GetEdge(graph, id).to = y
            /\ HasRoute(source, GetEdge(graph, id).from)
            /\ Weight(source, y) = Weight(source, GetEdge(graph, id).from) + GetEdge(graph, id).weight
        BY <1>0, <3>5, <3>6 DEF PrevEdgesAddUp
      <3>8. PICK u \in Vertex : u = GetEdge(graph, id).from
        BY <1>0, <3>7, Entries
      <3>9. u \notin ys
        BY <3>3, <3>4, <3>6, <3>8 DEF ComesFrom, PrevEdge
      <3>10. u \in vs
        BY <1>3, <3>1, <3>7, <3>8, <3>9
      <3>11. PICK path \in f[n] : path.end = u /\ path.weight = Weight(source, u)
        BY <2>1, <3>10
      <3>12. \E longer \in f[n + 1] : longer.end = y /\ longer.weight = Weight(source, y)
        <4>1. [edges  |-> Append(path.edges, id),
               weight |-> path.weight + GetEdge(graph, id).weight,
               end    |-> GetEdge(graph, id).to] \in f[n + 1]
          BY <1>0, <2>2, <3>7, <3>8, <3>11, LongerWalks
        <4> QED
          BY <3>7, <3>8, <3>11, <4>1
      <3>13. vs \cup {y} \in SUBSET reached
        BY <3>5
      <3>14. IsFiniteSet(vs \cup {y}) /\ Cardinality(vs \cup {y}) = (n + 1) + 1
        <4>1. IsFiniteSet(vs) /\ Cardinality(vs) = n + 1
          BY <2>1, <2>4
        <4> QED
          BY <3>5, <4>1, FS_AddElement
      <3>15. Walked(n + 1, vs \cup {y})
        <4>1. \A v \in vs : \E w \in f[n + 1] : w.end = v /\ w.weight = Weight(source, v)
          BY <2>1, <2>2
        <4> QED
          BY <2>1, <3>12, <3>14, <4>1
      <3> HIDE DEF Walked
      <3> QED
        BY <3>13, <3>15
    <2> QED
      BY <2>3, <2>4
  <1> HIDE DEF S
  <1>6. VertexCount - 1 \in S
    BY <1>1, <1>4, <1>5, SetInduction
  <1>7. PICK vs \in SUBSET reached : Walked(VertexCount - 1, vs)
    BY <1>6 DEF S
  \* There is no room for more.
  <1>8. vs = reached
    <2> SUFFICES ASSUME vs # reached PROVE FALSE
      OBVIOUS
    <2>1. IsFiniteSet(vs) /\ Cardinality(vs) = VertexCount
      BY <1>1, <1>7
    <2>2. vs \in SUBSET Vertex
      BY <1>3
    <2>3. vs = Vertex
      BY <2>1, <2>2, VerticesAreFinite, FS_Subset
    <2> QED
      BY <1>3, <2>3
  <1> QED
    BY <1>3, <1>7, <1>8

\* The edges BuildRoute has collected, reversed, are a walk of the reference
\* definition, short enough because they enter no vertex twice (router.h:108-120).
LEMMA AnswerIsWalked ==
    ASSUME InductiveInvariant, phase = "walking", edge_id = Null,
           NEW f, WalksFrom(f, request.from)
    PROVE  \E path \in f[VertexCount - 1] :
              /\ path.end = request.to
              /\ path.weight = Weight(request.from, request.to)
              /\ path.edges = Reverse(edges)
  <1>0. /\ TypeOK /\ RoutesAreShortest /\ PrevEdgesAddUp /\ WalkFollowsLinks /\ Finished
        /\ request \in [from : Vertex, to : Vertex]
    BY FinishedTable DEF InductiveInvariant, TableInvariant, Finished, OnRoute
  <1>1. PICK source \in Vertex : source = request.from
    BY <1>0
  <1>2. PICK n \in Nat : n = Len(edges) /\ DOMAIN edges = 1 .. n
    BY <1>0 DEF TypeOK
  <1>3. \A i \in 1 .. n :
          /\ edges[i] \in ListedEdges(graph) /\ edges[i] \in Nat
          /\ GetEdge(graph, edges[i]).to # source
          /\ GetEdge(graph, edges[i]).to \in Vertex
          /\ HasRoute(source, GetEdge(graph, edges[i]).to)
          /\ edges[i] = PrevEdge(source, GetEdge(graph, edges[i]).to)
          /\ i = 1 => GetEdge(graph, edges[i]).to = request.to
          /\ i < n => GetEdge(graph, edges[i + 1]).to = GetEdge(graph, edges[i]).from
    <2>1. \A i \in 1 .. n :
            /\ edges[i] \in ListedEdges(graph)
            /\ GetEdge(graph, edges[i]).to # source
            /\ HasRoute(source, GetEdge(graph, edges[i]).to)
            /\ edges[i] = PrevEdge(source, GetEdge(graph, edges[i]).to)
            /\ i = 1 => GetEdge(graph, edges[i]).to = request.to
            /\ i < n => GetEdge(graph, edges[i + 1]).to = GetEdge(graph, edges[i]).from
      BY <1>0, <1>1, <1>2 DEF WalkFollowsLinks
    <2>2. \A i \in 1 .. n : GetEdge(graph, edges[i]).to \in Vertex /\ edges[i] \in Nat
      <3>1. \A id \in ListedEdges(graph) : id \in 1 .. Len(graph.edges) /\ GetEdge(graph, id) \in Edge
        BY <1>0, Entries
      <3>2. \A id \in ListedEdges(graph) : id \in Nat /\ GetEdge(graph, id).to \in Vertex
        BY <3>1 DEF Edge
      <3> QED
        BY <2>1, <3>2
    <2> QED
      BY <2>1, <2>2
  <1>4. Current = source
    <2>1. HasRoute(source, Current) /\ PrevEdge(source, Current) = Null /\ Current \in Vertex
      BY <1>0, <1>1, CurrentIsVertex DEF WalkFollowsLinks
    <2>2. ~(Null \in ListedEdges(graph))
      BY <1>0, Entries
    <2> QED
      BY <1>0, <2>1, <2>2 DEF PrevEdgesAddUp
  <1> DEFINE end(m)    == IF m = 0 THEN source ELSE GetEdge(graph, edges[n + 1 - m]).to
             back(m)   == [i \in 1 .. m |-> edges[n + 1 - i]]
             walked(m) == [edges |-> back(m), weight |-> Weight(source, end(m)), end |-> end(m)]
             S == {m \in Nat : m <= n => walked(m) \in f[m]}
  <1>5. 0 \in S
    <2>1. back(0) = << >>
      OBVIOUS
    <2>2. Weight(source, source) = 0
      BY <1>0 DEF RoutesAreShortest
    <2> QED
      BY <1>1, <2>1, <2>2 DEF WalksFrom, Planner!Staying
  <1>6. ASSUME NEW m \in Nat, m \in S
        PROVE  m + 1 \in S
    <2> SUFFICES ASSUME m + 1 <= n PROVE walked(m + 1) \in f[m + 1]
      OBVIOUS
    <2>1. PICK i \in 1 .. n : i = n - m /\ n + 1 - (m + 1) = i /\ m + 1 # 0
      OBVIOUS
    <2>2. PICK id \in ListedEdges(graph) : id = edges[i]
      BY <1>3
    <2>3. /\ GetEdge(graph, id).to = end(m + 1) /\ end(m + 1) \in Vertex
          /\ end(m + 1) # source /\ HasRoute(source, end(m + 1)) /\ id = PrevEdge(source, end(m + 1))
      BY <1>3, <2>1, <2>2
    <2>4. GetEdge(graph, id).from = end(m)
      <3>1. CASE m = 0
        <4>1. i = n /\ edges # << >>
          BY <1>2, <2>1, <3>1
        <4> QED
          BY <1>2, <1>4, <2>2, <3>1, <4>1 DEF Current
      <3>2. CASE m # 0
        <4>1. i < n /\ n + 1 - m = i + 1
          BY <2>1, <3>2
        <4> QED
          BY <1>3, <2>2, <3>2, <4>1
      <3> QED
        BY <3>1, <3>2
    <2>5. Weight(source, end(m + 1)) = Weight(source, end(m)) + GetEdge(graph, id).weight
      <3> HIDE DEF end
      <3> QED
        BY <1>0, <2>3, <2>4 DEF PrevEdgesAddUp
    <2>6. Append(back(m), id) = back(m + 1)
      <3>1. \A j \in 1 .. m : n + 1 - j \in 1 .. n
        OBVIOUS
      <3>2. back(m) \in [1 .. m -> Nat] /\ id \in Nat
        BY <1>3, <2>2, <3>1
      <3>3. /\ Append(back(m), id) \in [1 .. m + 1 -> Nat]
            /\ \A j \in 1 .. m : Append(back(m), id)[j] = back(m)[j]
            /\ Append(back(m), id)[m + 1] = id
        <4>1. PICK g \in [1 .. m -> Nat] : g = back(m)
          BY <3>2
        <4>2. /\ Append(g, id) \in [1 .. m + 1 -> Nat]
              /\ \A j \in 1 .. m : Append(g, id)[j] = g[j]
              /\ Append(g, id)[m + 1] = id
          <5>1. g \in Seq(Nat) /\ Len(g) = m /\ id \in Nat
            BY <3>2
          <5>2. Append(g, id) \in Seq(Nat) /\ Len(Append(g, id)) = m + 1
            BY <5>1
          <5>3. \A h \in Seq(Nat) : h \in [1 .. Len(h) -> Nat]
            OBVIOUS
          <5> QED
            BY <5>1, <5>2, <5>3, AppendNat
        <4> HIDE DEF back
        <4> QED
          BY <4>1, <4>2
      <3>4. \A j \in 1 .. m + 1 : Append(back(m), id)[j] = back(m + 1)[j]
        <4>1. \A j \in 1 .. m : Append(back(m), id)[j] = edges[n + 1 - j]
          BY <3>3
        <4>2. Append(back(m), id)[m + 1] = edges[n + 1 - (m + 1)]
          BY <2>1, <2>2, <3>3
        <4> QED
          BY <4>1, <4>2
      <3> QED
        BY <3>3, <3>4
    <2>7. walked(m) \in f[m] /\ f[m] \in SUBSET WalkRecord /\ f[m + 1] = Planner!Longer(f[m])
      <3>1. m <= n
        OBVIOUS
      <3>2. walked(m) \in f[m]
        BY <1>6, <3>1
      <3> QED
        BY <3>2 DEF WalksFrom
    <2>8. PICK path \in f[m] : path = walked(m)
      BY <2>7
    <2>9. [edges  |-> Append(path.edges, id),
           weight |-> path.weight + GetEdge(graph, id).weight,
           end    |-> GetEdge(graph, id).to] \in f[m + 1]
      <3>1. path.end = GetEdge(graph, id).from
        BY <2>4, <2>8
      <3> QED
        BY <1>0, <2>7, <3>1, LongerWalks
    <2>10. path.edges = back(m) /\ path.weight = Weight(source, end(m))
      BY <2>8
    <2> HIDE DEF back, end
    <2> QED
      BY <2>3, <2>5, <2>6, <2>9, <2>10
  <1> HIDE DEF S
  <1>7. n \in S
    BY <1>5, <1>6, SetInduction
  <1>8. walked(n) \in f[n]
    BY <1>7 DEF S
  \* The walk enters no vertex twice, and source not at all.
  <1>9. n <= VertexCount - 1
    <2> SUFFICES ASSUME ~(n <= VertexCount - 1) PROVE FALSE
      OBVIOUS
    <2> DEFINE head == [i \in 1 .. n |-> GetEdge(graph, edges[i]).to]
    <2>1. IsFiniteSet(1 .. n) /\ Cardinality(1 .. n) = n
      <3>1. IsFiniteSet(1 .. n) /\ Cardinality(1 .. n) = IF 1 > n THEN 0 ELSE n - 1 + 1
        BY FS_Interval
      <3> QED
        BY <3>1
    <2>2. IsFiniteSet(Vertex \ {source}) /\ Cardinality(Vertex \ {source}) = VertexCount - 1
      BY VerticesAreFinite, FS_RemoveElement
    <2>3. head \in [1 .. n -> Vertex \ {source}]
      BY <1>3
    <2>4. Cardinality(Vertex \ {source}) < Cardinality(1 .. n)
      BY <2>1, <2>2, RouterAssumption
    <2>5. \E i, j \in 1 .. n : i # j /\ head[i] = head[j]
      <3> HIDE DEF head
      <3> QED
        BY <2>1, <2>2, <2>3, <2>4, FS_PigeonHole
    <2> QED
      BY <1>2, <2>5, WalkSimple DEF WalkIsSimple
  <1>10. f[n] \subseteq f[VertexCount - 1]
    <2>1. PICK m \in Nat : m = VertexCount - 1 - n
      BY <1>9, RouterAssumption
    <2>2. n + m = VertexCount - 1
      BY <2>1, RouterAssumption
    <2>3. WalksFrom(f, source)
      BY <1>1
    <2>4. f[n] \subseteq f[n + m]
      BY <1>0, <2>3, MoreWalks
    <2> QED
      BY <2>2, <2>4
  <1>11. end(n) = request.to
    <2>1. CASE n = 0
      <3>1. edges = << >>
        BY <1>0, <1>2, <2>1 DEF TypeOK
      <3> QED
        BY <1>4, <2>1, <3>1 DEF Current
    <2>2. CASE n # 0
      BY <1>3, <2>2
    <2> QED
      BY <2>1, <2>2
  <1>12. back(n) = Reverse(edges)
    <2>1. \A i \in 1 .. n : n + 1 - i = (n - i) + 1
      OBVIOUS
    <2> QED
      BY <1>2, <2>1 DEF Reverse
  <1> HIDE DEF end, back
  <1> QED
    BY <1>1, <1>8, <1>10, <1>11, <1>12

\* BuildRoute answers with a shortest route, and does whenever there is one.
LEMMA Answers ==
    ASSUME InductiveInvariant, Finished, NEW source \in Vertex, NEW target \in Vertex
    PROVE  /\ Planner!Connected(source, target) <=> HasRoute(source, target)
           /\ phase = "walking" /\ edge_id = Null /\ source = request.from /\ target = request.to
              => [weight |-> Weight(source, target), edges |-> Reverse(edges)]
                    \in Planner!ShortestRoutes(source, target)
  <1>0. TypeOK /\ VertexCount - 1 \in Nat
    BY RouterAssumption DEF InductiveInvariant, TableInvariant, Vertex, Vertices
  <1>1. PICK f : WalksFrom(f, source) /\ Planner!Walks(source) = f[VertexCount - 1]
    BY <1>0, WalksByLength DEF WalksFrom
  <1>2. \A route : route \in Planner!ShortestRoutes(source, target) <=>
          \E path \in f[VertexCount - 1] :
            /\ path.end = target
            /\ \A other \in f[VertexCount - 1] : other.end = target => path.weight <= other.weight
            /\ route = [weight |-> path.weight, edges |-> path.edges]
    BY <1>1 DEF Planner!ShortestRoutes
  <1>3. \A path \in f[VertexCount - 1] :
          path.end = target =>
            HasRoute(source, target) /\ Weight(source, target) <= path.weight
    BY <1>0, <1>1, NoLighterWalk
  <1>4. ASSUME HasRoute(source, target)
        PROVE  Planner!Connected(source, target)
    <2>1. PICK path \in f[VertexCount - 1] :
            path.end = target /\ path.weight = Weight(source, target)
      BY <1>1, <1>4, EveryRouteIsWalked
    <2>2. [weight |-> path.weight, edges |-> path.edges] \in Planner!ShortestRoutes(source, target)
      BY <1>2, <1>3, <2>1
    <2> QED
      BY <2>2 DEF Planner!Connected
  <1>5. ASSUME Planner!Connected(source, target)
        PROVE  HasRoute(source, target)
    BY <1>2, <1>3, <1>5 DEF Planner!Connected
  <1>6. ASSUME phase = "walking", edge_id = Null, source = request.from, target = request.to
        PROVE  [weight |-> Weight(source, target), edges |-> Reverse(edges)]
                  \in Planner!ShortestRoutes(source, target)
    <2>1. PICK path \in f[VertexCount - 1] :
            /\ path.end = target /\ path.weight = Weight(source, target)
            /\ path.edges = Reverse(edges)
      BY <1>1, <1>6, AnswerIsWalked
    <2>2. [weight |-> path.weight, edges |-> path.edges] \in Planner!ShortestRoutes(source, target)
      BY <1>2, <1>3, <2>1
    <2> QED
      BY <2>1, <2>2
  <1> QED
    BY <1>4, <1>5, <1>6

-----------------------------------------------------------------------------
(* The steps. *)

\* An empty graph is where the planner starts.
LEMMA InitPlans == Init => Planner!Init
  <1>1. \A n : Planner!EmptyGraph(n) = EmptyGraph(n)
    BY SameGraph
  <1> QED
    BY <1>1 DEF Init, Planner!Init, PlannerPhase

\* Adding an edge, constructing, and the two ends of the constructor and of the walk
\* are steps of the planner; all other steps change nothing it sees.
LEMMA StepPlans ==
    ASSUME InductiveInvariant, [Next]_vars
    PROVE  [Planner!Next]_(Planner!vars)
  <1>0. TypeOK /\ TableInvariant
    BY DEF InductiveInvariant, TableInvariant
  <1>1. ASSUME NEW edge \in EdgeChoice, AddEdgeAction(edge)
        PROVE  Planner!Next
    <2>1. graph' = Planner!AddEdge(graph, edge)
      BY <1>1, SameGraph DEF AddEdgeAction
    <2>2. Planner!Fill(edge)
      BY <1>1, <2>1 DEF AddEdgeAction, Planner!Fill, PlannerPhase, walk
    <2> QED
      BY <2>2 DEF Planner!Next
  <1>2. CASE Construct
    <2>1. Planner!Build
      BY <1>2 DEF Construct, Planner!Build, PlannerPhase, walk
    <2> QED
      BY <2>1 DEF Planner!Next
  <1>3. ASSUME NEW from \in Vertex, NEW to \in Vertex, BuildRoute(from, to)
        PROVE  Planner!Next
    <2>1. Planner!Connected(from, to) <=> HasRoute(from, to)
      BY <1>3, Answers DEF BuildRoute, Finished
    <2>2. Planner!Ask(from, to)
      BY <1>3, <2>1 DEF BuildRoute, Planner!Ask, PlannerPhase
    <2> QED
      BY <2>2, SameGraph DEF Planner!Next
  <1>4. CASE \/ EnterVertex \/ ScanEdge \/ LeaveVertex \/ StartRelaxation \/ SkipRow \/ SkipColumn
             \/ RelaxRoute \/ NextRow \/ NextThrough \/ WalkEdge
    <2>1. UNCHANGED <<graph, PlannerPhase, request, response>>
      BY <1>4
      DEF EnterVertex, ScanEdge, LeaveVertex, StartRelaxation, SkipRow, SkipColumn, RelaxRoute,
          NextRow, NextThrough, WalkEdge, InPhaseThrough, PlannerPhase, walk
    <2> QED
      BY <2>1 DEF Planner!vars
  <1>5. CASE RejectEdge
    <2>1. PICK v \in Vertex : v = vertex
      BY <1>0, <1>5, RouterAssumption DEF RejectEdge, TypeOK, Vertex, Vertices
    <2>2. PICK id \in ListedEdges(graph) : GetEdge(graph, id).weight < 0
      <3>1. position \in 1 .. Len(GetIncidentEdges(graph, v))
        BY <1>5, <2>1 DEF RejectEdge, Incident
      <3>2. PICK id : id = GetIncidentEdges(graph, v)[position]
        OBVIOUS
      <3>3. id \in 1 .. Len(graph.edges) /\ GetEdge(graph, id).from = v
        BY <1>0, <3>1, <3>2 DEF TableInvariant, IncidenceIndexesEdges
      <3>4. id \in ListedEdges(graph)
        BY <1>0, <3>3 DEF ListedEdges, TypeOK
      <3>5. GetEdge(graph, id).weight < 0
        BY <1>5, <2>1, <3>2 DEF RejectEdge, Incident
      <3> QED
        BY <3>4, <3>5
    <2>3. Planner!HasNegativeEdge
      BY <2>2, SameGraph DEF Planner!HasNegativeEdge, GetEdge
    <2>4. Planner!Built
      BY <1>5, <2>3 DEF RejectEdge, Planner!Built, PlannerPhase, walk
    <2> QED
      BY <2>4 DEF Planner!Next
  <1>6. CASE Constructed
    <2>1. \A id \in ListedEdges(graph) : GetEdge(graph, id).weight >= 0
      BY <1>0, <1>6 DEF Constructed, TableInvariant, EdgesCovered, Tabled, Covered
    <2>2. \A id \in ListedEdges(graph) : GetEdge(graph, id).weight \in Int
      BY <1>0, Entries DEF Edge
    <2>3. ~Planner!HasNegativeEdge
      BY <2>1, <2>2, SameGraph DEF Planner!HasNegativeEdge, GetEdge
    <2>4. Planner!Built
      BY <1>6, <2>3 DEF Constructed, Planner!Built, PlannerPhase, walk
    <2> QED
      BY <2>4 DEF Planner!Next
  <1>7. CASE FinishWalk
    <2>1. phase = "walking" /\ edge_id = Null /\ Finished
      BY <1>7 DEF FinishWalk, Finished
    <2>2. request \in [from : Vertex, to : Vertex]
      BY <1>0, <2>1 DEF TableInvariant, OnRoute
    <2>3. response' \in Planner!ShortestRoutes(request.from, request.to)
      BY <1>7, <2>1, <2>2, Answers DEF FinishWalk
    <2>4. Planner!Answer
      BY <1>7, <2>3 DEF FinishWalk, Planner!Answer, PlannerPhase
    <2> QED
      BY <2>4 DEF Planner!Next
  <1>8. CASE UNCHANGED vars
    BY <1>8 DEF vars, Planner!vars, PlannerPhase
  <1> QED
    BY <1>1, <1>2, <1>3, <1>4, <1>5, <1>6, <1>7, <1>8 DEF Next, Client, Constructor, Walk

\* The safety part of ImplementsPlanner: graph::Router does only what the planner may
\* do, so that every answer is a connected sequence of stored edges of the least
\* weight, and there is one exactly for connected vertices (router.h:87-121).
THEOREM Refinement == Spec => Planner!Init /\ [][Planner!Next]_(Planner!vars)
  BY Invariance, InitPlans, StepPlans, PTL DEF Spec
=============================================================================
