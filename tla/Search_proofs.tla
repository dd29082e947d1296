---------------------------- MODULE Search_proofs ----------------------------
(***************************************************************************)
(* Proofs about Search: what it answers to requests of one type agrees     *)
(* with what it answers to others, for every input and every list of       *)
(* requests.                                                               *)
(***************************************************************************)
EXTENDS SearchInvariant, TransportRouter_proofs

-----------------------------------------------------------------------------
(* The items of a response are items of the router. *)

\* Whatever holds of staying and is kept by one edge more holds of all walks that the
\* planner lists.
LEMMA WalksStay ==
    ASSUME MaxStopCount > 0, NEW W, NEW source, Planner!Staying(source) \in W,
           \A w \in W : \A id \in DOMAIN graph.edges : Planner!Extended(w, id) \in W
    PROVE  Planner!Walks(source) \subseteq W
  <1> DEFINE Unfolds(f) == f = [n \in Nat |-> IF n = 0 THEN {Planner!Staying(source)}
                                              ELSE Planner!Longer(f[n - 1])]
             step == [walks \in SUBSET W |-> Planner!Longer(walks)]
  <1>1. \A walks \in SUBSET W : Planner!Longer(walks) \in SUBSET W
    <2>1. \A w : Planner!Leaving(w) \subseteq DOMAIN graph.edges
      BY DEF Planner!Leaving, Planner!ListedEdges, ListedEdges
    <2> QED
      BY <2>1 DEF Planner!Longer
  <1>2. PICK T : T = SUBSET W
    OBVIOUS
  <1>3. PICK first \in T, next \in [T -> T] : first = {Planner!Staying(source)} /\ next = step
    BY <1>1, <1>2
  <1>4. PICK f \in [Nat -> T] : f = [n \in Nat |-> IF n = 0 THEN first ELSE next[f[n - 1]]]
    <2> HIDE DEF step
    <2> QED
      BY RecursionOnNat
  <1>5. \A n \in Nat : f[n] = IF n = 0 THEN {Planner!Staying(source)} ELSE Planner!Longer(f[n - 1])
    <2>1. \A n \in Nat \ {0} : next[f[n - 1]] = Planner!Longer(f[n - 1])
      <3>1. \A n \in Nat \ {0} : f[n - 1] \in T
        OBVIOUS
      <3> QED
        BY <1>2, <1>3, <3>1
    <2> HIDE DEF step
    <2> QED
      BY <1>3, <1>4, <2>1
  <1>6. Unfolds(f)
    BY <1>4, <1>5
  <1>7. PICK g : g = CHOOSE h : Unfolds(h)
    OBVIOUS
  <1>8. Unfolds(g)
    BY <1>6, <1>7
  <1>9. Planner!Walks(source) = g[2 * MaxStopCount - 1]
    BY <1>7 DEF Planner!Walks
  <1>10. \A n \in Nat : g[n] \in SUBSET W
    <2> DEFINE S == {n \in Nat : g[n] \in SUBSET W}
    <2>1. 0 \in S
      BY <1>8
    <2>2. ASSUME NEW n \in Nat, n \in S
          PROVE  n + 1 \in S
      <3>1. PICK m \in Nat : m = n + 1 /\ m # 0 /\ m - 1 = n
        OBVIOUS
      <3>2. g[m] = Planner!Longer(g[n])
        BY <1>8, <3>1
      <3> QED
        BY <1>1, <2>2, <3>1, <3>2
    <2> HIDE DEF S
    <2>3. \A n \in Nat : n \in S
      BY <2>1, <2>2, SetInduction
    <2> QED
      BY <2>3 DEF S
  <1>11. 2 * MaxStopCount - 1 \in Nat
    BY TransportRouterAssumption
  <1> QED
    BY <1>9, <1>10, <1>11

\* A response has items of the router only.
LEMMA RouteItems ==
    ASSUME RouterInvariant, building = "ready", base \in Bases, NEW start, NEW finish,
           NEW route \in Responses(start, finish), route # Null
    PROVE  \A k \in DOMAIN route.edges : \E id \in DOMAIN id_to_edge : route.edges[k] = id_to_edge[id]
  <1>1. PICK s, t : s = SearchStop(db, start) /\ t = SearchStop(db, finish)
    OBVIOUS
  <1>2. s # Null
    BY <1>1 DEF Responses
  <1>3. PICK from, to : from = stop_to_transfer[s].second /\ to = stop_to_transfer[t].second
    OBVIOUS
  <1>4. PICK r \in Planner!ShortestRoutes(from, to) :
            route = [edges |-> ItemsOf(r.edges), timedelta |-> r.weight]
    BY <1>1, <1>2, <1>3 DEF Responses
  <1>5. PICK w \in Planner!Walks(from) : r.edges = w.edges
    BY <1>4 DEF Planner!ShortestRoutes
  <1>6. MaxStopCount > 0
    <2>1. s \in StopPtrs(db)
      BY <1>1, <1>2 DEF RouterInvariant, PopulateInvariant, PopulateTypeOK, SearchStop,
                        NamesLeadToLastStops
    <2>2. db.stops \in Seq(StopName) /\ stage = "populated"
      BY DEF RouterInvariant, LoopsFollowCatalogue, PopulateInvariant, PopulateTypeOK
    <2>3. Len(db.stops) \in Nat /\ Len(db.stops) > 0
      BY <2>1, <2>2 DEF StopPtrs
    <2>4. Len(db.stops) = Len(base.stops)
      BY <2>2 DEF RouterInvariant, PopulateInvariant, StopsFollowRequests
    <2> QED
      BY <2>3, <2>4, TransportRouterAssumption
  <1> DEFINE W == [edges  : Seq(DOMAIN graph.edges), weight : Int,
                   end    : {from} \cup {graph.edges[id].to : id \in DOMAIN graph.edges}]
  <1>7. Planner!Staying(from) \in W
    BY DEF Planner!Staying
  <1>8. ASSUME NEW v \in W, NEW id \in DOMAIN graph.edges
        PROVE  Planner!Extended(v, id) \in W
    <2>1. graph.edges[id].weight \in Int
      BY EdgeIsOfItem DEF Item
    <2>2. v.edges \in Seq(DOMAIN graph.edges) /\ v.weight \in Int
      OBVIOUS
    <2>3. Append(v.edges, id) \in Seq(DOMAIN graph.edges) /\ v.weight + graph.edges[id].weight \in Int
      BY <2>1, <2>2
    <2> QED
      BY <2>3 DEF Planner!Extended
  <1>9. w \in W
    <2> HIDE DEF W
    <2> QED
      BY <1>5, <1>6, <1>7, <1>8, WalksStay
  <1>10. r.edges \in Seq(DOMAIN graph.edges)
    BY <1>5, <1>9
  <1>11. DOMAIN graph.edges = DOMAIN id_to_edge
    BY DEF RouterInvariant, ItemsFollowEdges
  <1> QED
    BY <1>4, <1>10, <1>11 DEF ItemsOf

-----------------------------------------------------------------------------
(* Every step of Search. *)

\* A response is what it was when it was given, while catalogue and items stay.
LEMMA SameResponse ==
    ASSUME db' = db, id_to_edge' = id_to_edge, NEW request, NEW response,
           RespondsTo(request, response)
    PROVE  RespondsTo(request, response)'
  <1>1. \A ride : IsShown(ride) => IsShown(ride)'
    BY DEF IsShown, Shown
  <1>2. GetStop(db, request.name)' = GetStop(db, request.name)
    OBVIOUS
  <1>3. /\ GetBusLine(db, request.name)' = GetBusLine(db, request.name)
        /\ GetBusLineCrashes(db, request.name)' = GetBusLineCrashes(db, request.name)
    OBVIOUS
  <1> QED
    BY <1>1, <1>2, <1>3 DEF RespondsTo

\* The id is added to what the response says.
LEMMA IdAdded ==
    ASSUME NEW request, NEW response, "request_id" \notin DOMAIN response
    PROVE  \A key \in DOMAIN response : WithId(response, request)[key] = response[key]
  BY DEF WithId

\* The loop comes to a request of the input.
LEMMA RequestTaken ==
    ASSUME ResponsesFollowRequests, NEW request \in Upcoming, Take(request)
    PROVE  /\ request \in StatRequest
           /\ stats' \in Seq(StatRequest) /\ Len(stats') = Len(stats) + 1
           /\ stats'[Len(stats) + 1] = request
           /\ \A i \in 1 .. Len(stats) : stats'[i] = stats[i]
  <1>1. PICK list \in Stats : Len(stats) < Len(list) /\ request = list[Len(stats) + 1]
    BY DEF Upcoming
  <1>2. list \in Seq(StatRequest) /\ Len(stats) \in Nat
    BY SearchAssumption DEF ResponsesFollowRequests
  <1>3. request \in StatRequest
    BY <1>1, <1>2
  <1> QED
    BY <1>3 DEF Take, ResponsesFollowRequests

\* While Search runs there are as many responses as requests.
LEMMA Answers ==
    ASSUME SearchInvariant, Running
    PROVE  \E n \in Nat : /\ n = Len(nodes) /\ n = Len(stats)
                           /\ nodes \in Seq(Range(nodes)) /\ DOMAIN nodes = 1 .. n
  <1>1. PICK S : S = Range(nodes)
    OBVIOUS
  <1>2. nodes \in Seq(S) /\ Len(nodes) = Len(stats)
    BY <1>1 DEF SearchInvariant, ResponsesFollowRequests, Running
  <1>3. Len(nodes) \in Nat /\ DOMAIN nodes = 1 .. Len(nodes)
    BY <1>2
  <1> QED
    BY <1>1, <1>2, <1>3

\* One response more to one request more.
LEMMA ResponseAdded ==
    ASSUME SearchInvariant, Running, NEW request \in Upcoming, Take(request),
           NEW response, Respond(request, response), RouterInvariant',
           db' = db, base' = base, building' = building, graph' = graph, id_to_edge' = id_to_edge,
           RespondsTo(request, WithId(response, request))
    PROVE  SearchInvariant'
  <1>1. PICK node : node = WithId(response, request)
    OBVIOUS
  <1>2. nodes' = Append(nodes, node) /\ searching' = searching
    BY <1>1 DEF Respond
  <1>3. PICK n \in Nat : /\ n = Len(nodes) /\ n = Len(stats)
                         /\ nodes \in Seq(Range(nodes)) /\ DOMAIN nodes = 1 .. n
    BY Answers
  <1>4. /\ nodes' \in Seq(Range(nodes) \cup {node}) /\ Len(nodes') = n + 1
        /\ nodes'[n + 1] = node /\ \A i \in 1 .. n : nodes'[i] = nodes[i]
    <2>1. PICK S : S = Range(nodes) \cup {node}
      OBVIOUS
    <2>2. nodes \in Seq(S)
      <3>1. PICK R : R = Range(nodes)
        OBVIOUS
      <3>2. nodes \in Seq(R) /\ R \subseteq S
        BY <1>3, <2>1, <3>1
      <3> QED
        BY <3>2
    <2>3. node \in S
      BY <2>1
    <2>4. Append(nodes, node) \in Seq(S) /\ Len(Append(nodes, node)) = n + 1
          /\ Append(nodes, node)[n + 1] = node
          /\ \A i \in 1 .. n : Append(nodes, node)[i] = nodes[i]
      <3>1. PICK old \in Seq(S) : old = nodes /\ Len(old) = n /\ DOMAIN old = 1 .. n
        BY <1>3, <2>2
      <3>2. PICK new : new = Append(old, node)
        OBVIOUS
      <3>3. /\ new \in Seq(S) /\ DOMAIN new = (1 .. n) \cup {n + 1} /\ new[n + 1] = node
            /\ \A i \in 1 .. n : new[i] = old[i]
        BY <2>3, <3>1, <3>2, Appended
      <3>4. Len(new) = n + 1
        <4>1. Len(Append(old, node)) = Len(old) + 1
          BY <2>3, <3>1
        <4> QED
          BY <3>1, <3>2, <4>1
      <3> QED
        BY <3>1, <3>2, <3>3, <3>4
    <2> QED
      BY <1>2, <2>1, <2>4
  <1>5. nodes' \in Seq(Range(nodes'))
    BY <1>4 DEF Range
  <1>6. /\ stats' \in Seq(StatRequest) /\ Len(stats') = n + 1
        /\ stats'[n + 1] = request /\ \A i \in 1 .. n : stats'[i] = stats[i]
    BY <1>3, RequestTaken DEF SearchInvariant
  <1>7. ResponsesFollowRequests'
    BY <1>2, <1>4, <1>5, <1>6 DEF ResponsesFollowRequests, Running
  <1>8. NoNegativeEdge'
    BY DEF SearchInvariant, NoNegativeEdge
  <1>9. ASSUME NEW i \in DOMAIN nodes'
        PROVE  RespondsTo(stats[i], nodes[i])'
    <2>1. PICK r, a : r = stats'[i] /\ a = nodes'[i]
      OBVIOUS
    <2>2. RespondsTo(r, a)
      <3>1. CASE i = n + 1
        BY <1>1, <1>4, <1>6, <2>1, <3>1
      <3>2. CASE i \in 1 .. n
        <4>1. r = stats[i] /\ a = nodes[i]
          BY <1>4, <1>6, <2>1, <3>2
        <4>2. i \in DOMAIN nodes
          BY <1>3, <3>2
        <4> QED
          BY <4>1, <4>2 DEF SearchInvariant
      <3> QED
        BY <1>4, <3>1, <3>2
    <2>3. RespondsTo(r, a)'
      BY <2>2, SameResponse
    <2> QED
      BY <2>1, <2>3
  <1> QED
    BY <1>7, <1>8, <1>9 DEF SearchInvariant

\* The loop comes to a request at which it ends.
LEMMA SearchCrashed ==
    ASSUME SearchInvariant, Running, NEW request \in Upcoming, Take(request), Crash,
           UNCHANGED vars, RouterInvariant'
    PROVE  SearchInvariant'
  <1>1. db' = db /\ base' = base /\ building' = building /\ graph' = graph /\ id_to_edge' = id_to_edge
    BY DEF vars, routerVars, populateVars
  <1>2. PICK n \in Nat : /\ n = Len(nodes) /\ n = Len(stats)
                         /\ nodes \in Seq(Range(nodes)) /\ DOMAIN nodes = 1 .. n
    BY Answers
  <1>3. nodes' = nodes /\ searching' = "crashed"
    BY DEF Crash
  <1>4. /\ stats' \in Seq(StatRequest) /\ Len(stats') = n + 1
        /\ \A i \in 1 .. n : stats'[i] = stats[i]
    BY <1>2, RequestTaken DEF SearchInvariant
  <1>5. ResponsesFollowRequests'
    BY <1>1, <1>2, <1>3, <1>4 DEF ResponsesFollowRequests, Running, Range
  <1>6. NoNegativeEdge'
    BY <1>1 DEF SearchInvariant, NoNegativeEdge
  <1>7. ASSUME NEW i \in DOMAIN nodes'
        PROVE  RespondsTo(stats[i], nodes[i])'
    <2>1. PICK r, a : r = stats[i] /\ a = nodes[i] /\ r = stats'[i] /\ a = nodes'[i]
      BY <1>2, <1>3, <1>4
    <2>2. RespondsTo(r, a)
      BY <1>3, <2>1 DEF SearchInvariant
    <2>3. RespondsTo(r, a)'
      BY <1>1, <2>2, SameResponse
    <2> QED
      BY <2>1, <2>3
  <1> QED
    BY <1>1, <1>5, <1>6, <1>7 DEF SearchInvariant

\* Stop requests.
LEMMA StopSearched == SearchInvariant /\ SearchStopStat => SearchInvariant'
  <1> SUFFICES ASSUME SearchInvariant, SearchStopStat PROVE SearchInvariant'
    OBVIOUS
  <1>1. PICK request \in Asked("Stop") :
            /\ Take(request) /\ Respond(request, [buses |-> GetStop(db, request.name)])
            /\ UNCHANGED vars
    BY DEF SearchStopStat
  <1>2. Running /\ request \in Upcoming /\ request.type = "Stop"
    BY <1>1 DEF SearchStopStat, Asked
  <1>3. UNCHANGED populateVars /\ db' = db /\ base' = base /\ building' = building
        /\ graph' = graph /\ id_to_edge' = id_to_edge
    BY <1>1 DEF vars, routerVars, populateVars
  <1>4. RouterInvariant'
    BY <1>1, RouterStep DEF SearchInvariant
  <1>5. PICK response : response = [buses |-> GetStop(db, request.name)]
    OBVIOUS
  <1>6. WithId(response, request).buses = GetStop(db, request.name)
    <2>1. "request_id" \notin DOMAIN response /\ "buses" \in DOMAIN response
          /\ response.buses = GetStop(db, request.name)
      BY <1>5
    <2> QED
      BY <2>1, IdAdded
  <1>7. RespondsTo(request, WithId(response, request))
    BY <1>2, <1>6 DEF RespondsTo
  <1> QED
    BY <1>1, <1>2, <1>3, <1>4, <1>5, <1>7, ResponseAdded

\* Bus requests: a line without stops ends Search.
LEMMA BusSearched == SearchInvariant /\ SearchBusStat => SearchInvariant'
  <1> SUFFICES ASSUME SearchInvariant, SearchBusStat PROVE SearchInvariant'
    OBVIOUS
  <1>1. PICK request \in Asked("Bus") :
            /\ Take(request)
            /\ IF GetBusLineCrashes(db, request.name) THEN Crash
               ELSE LET found == SearchBus(db, request.name)
                    IN  Respond(request,
                                IF found = Null THEN [bus |-> Null]
                                ELSE [bus       |-> GetBusLine(db, request.name),
                                      curvature |-> Curvature(db.buses[found])])
            /\ UNCHANGED vars
    BY DEF SearchBusStat
  <1>2. Running /\ request \in Upcoming /\ request.type = "Bus"
    BY <1>1 DEF SearchBusStat, Asked
  <1>3. db' = db /\ base' = base /\ building' = building
        /\ graph' = graph /\ id_to_edge' = id_to_edge
    BY <1>1 DEF vars, routerVars, populateVars
  <1>4. RouterInvariant'
    BY <1>1, RouterStep DEF SearchInvariant
  <1>5. CASE GetBusLineCrashes(db, request.name)
    <2>1. Crash
      BY <1>1, <1>5
    <2> QED
      BY <1>1, <1>2, <1>4, <2>1, SearchCrashed
  <1>6. CASE ~GetBusLineCrashes(db, request.name)
    <2>1. PICK found, line, curvature :
              /\ found = SearchBus(db, request.name)
              /\ line = GetBusLine(db, request.name)
              /\ curvature = Curvature(db.buses[found])
      OBVIOUS
    <2>2. PICK response :
              /\ response = IF found = Null THEN [bus |-> Null] ELSE [bus |-> line, curvature |-> curvature]
              /\ Respond(request, response)
      BY <1>1, <1>6, <2>1
    <2>3. found = Null => line = Null
      BY <2>1 DEF GetBusLine
    <2>4. "request_id" \notin DOMAIN response /\ "bus" \in DOMAIN response /\ response.bus = line
      BY <2>2, <2>3
    <2>5. WithId(response, request).bus = line
      BY <2>4, IdAdded
    <2>6. RespondsTo(request, WithId(response, request))
      BY <1>2, <1>6, <2>1, <2>5 DEF RespondsTo
    <2> QED
      BY <1>1, <1>2, <1>3, <1>4, <2>2, <2>6, ResponseAdded
  <1> QED
    BY <1>5, <1>6

\* Map requests: any line without stops ends Search.
LEMMA MapSearched == SearchInvariant /\ SearchMap => SearchInvariant'
  <1> SUFFICES ASSUME SearchInvariant, SearchMap PROVE SearchInvariant'
    OBVIOUS
  <1>1. PICK request \in Asked("Map") : \E response :
            Take(request) /\ (Crash \/ Respond(request, response)) /\ UNCHANGED vars
    BY DEF SearchMap
  <1>2. Running /\ request \in Upcoming /\ request.type = "Map"
    BY <1>1 DEF SearchMap, Asked
  <1>3. db' = db /\ base' = base /\ building' = building
        /\ graph' = graph /\ id_to_edge' = id_to_edge
    BY <1>1 DEF vars, routerVars, populateVars
  <1>4. RouterInvariant'
    BY <1>1, RouterStep DEF SearchInvariant
  <1>5. PICK response : Crash \/ Respond(request, response)
    BY <1>1
  <1>6. RespondsTo(request, WithId(response, request))
    BY <1>2 DEF RespondsTo
  <1> QED
    BY <1>1, <1>2, <1>3, <1>4, <1>5, <1>6, ResponseAdded, SearchCrashed

\* Route requests.
LEMMA RouteSearched == SearchInvariant /\ SearchRoute => SearchInvariant'
  <1> SUFFICES ASSUME SearchInvariant, SearchRoute PROVE SearchInvariant'
    OBVIOUS
  <1>1. PICK request \in Asked("Route") :
            /\ Take(request) /\ GetRoute(request.from, request.to)
            /\ LET route == answer'.route
               IN  Respond(request,
                           IF route = Null THEN [items |-> Null]
                           ELSE [items      |-> [i \in DOMAIN route.edges |-> Shown(route.edges[i])],
                                 total_time |-> route.timedelta])
    BY DEF SearchRoute
  <1>2. Running /\ request \in Upcoming /\ request.type = "Route"
    BY <1>1 DEF SearchRoute, Asked
  <1>3. db' = db /\ base' = base /\ building' = building
        /\ graph' = graph /\ id_to_edge' = id_to_edge
    BY <1>1 DEF GetRoute, populateVars
  <1>4. RouterInvariant'
    BY <1>1, RouteGot DEF SearchInvariant
  <1>5. PICK start, finish : start = request.from /\ finish = request.to
    OBVIOUS
  <1>6. PICK route \in Responses(start, finish) : answer'.route = route
    BY <1>1, <1>5 DEF GetRoute
  <1>7. PICK response :
            /\ response = IF route = Null THEN [items |-> Null]
                          ELSE [items      |-> [i \in DOMAIN route.edges |-> Shown(route.edges[i])],
                                total_time |-> route.timedelta]
            /\ Respond(request, response)
    BY <1>1, <1>6
  <1>8. response.items # Null => \A k \in DOMAIN response.items : IsShown(response.items[k])
    <2> SUFFICES ASSUME response.items # Null, NEW k \in DOMAIN response.items
                 PROVE  IsShown(response.items[k])
      OBVIOUS
    <2>1. route # Null
      BY <1>7
    <2>2. response.items = [i \in DOMAIN route.edges |-> Shown(route.edges[i])]
      BY <1>7, <2>1
    <2>3. k \in DOMAIN route.edges /\ response.items[k] = Shown(route.edges[k])
      BY <2>2
    <2>4. PICK id \in DOMAIN id_to_edge : route.edges[k] = id_to_edge[id]
      BY <1>2, <1>6, <2>1, <2>3, RouteItems DEF SearchInvariant, Running
    <2> QED
      BY <2>3, <2>4 DEF IsShown
  <1>9. "request_id" \notin DOMAIN response /\ "items" \in DOMAIN response
    BY <1>7
  <1>10. WithId(response, request).items = response.items
    BY <1>9, IdAdded
  <1>11. RespondsTo(request, WithId(response, request))
    BY <1>2, <1>8, <1>10 DEF RespondsTo
  <1> QED
    BY <1>1, <1>2, <1>3, <1>4, <1>7, <1>11, ResponseAdded

\* While there are no responses the catalogue and the router are built.
LEMMA SearchBuilt == SearchInvariant /\ Build => SearchInvariant'
  <1> SUFFICES ASSUME SearchInvariant, Build PROVE SearchInvariant'
    OBVIOUS
  <1>1. /\ (PopulateNext /\ UNCHANGED routerVars) \/ RouterNext
        /\ stats' = stats /\ nodes' = nodes /\ searching' = searching
    BY DEF Build
  <1>2. RouterInvariant'
    BY <1>1, RouterStep DEF SearchInvariant, Next
  <1>3. base' = base
    BY <1>1 DEF PopulateNext, NextStop, NextDistance, NextDistances, NextBus, NextLoop, populateVars,
                RouterNext, StartRouter, AddTransfer, EndTransfers, AddWait, EndWaits,
                CreateLineEdges, KeepFastest, AddRide, MakeRouter
  <1>4. building # "ready"
    <2>1. RouterNext => building # "ready"
      BY DEF RouterNext, StartRouter, AddTransfer, EndTransfers, AddWait, EndWaits,
             CreateLineEdges, KeepFastest, AddRide, MakeRouter
    <2>2. PopulateNext => stage # "populated"
      BY DEF PopulateNext, NextStop, NextDistance, NextDistances, NextBus, NextLoop
    <2>3. stage # "populated" => building # "ready"
      BY DEF SearchInvariant, RouterInvariant, LoopsFollowCatalogue
    <2> QED
      BY <1>1, <2>1, <2>2, <2>3
  <1>5. nodes = << >>
    BY <1>4 DEF SearchInvariant, ResponsesFollowRequests
  <1>6. ResponsesFollowRequests'
    BY <1>1, <1>5 DEF SearchInvariant, ResponsesFollowRequests, Range
  <1>7. NoNegativeEdge'
    <2>1. CASE building' = "ready"
      <3>1. MakeRouter
        BY <1>1, <1>4, <2>1 DEF routerVars, RouterNext, StartRouter, AddTransfer, EndTransfers, AddWait,
                EndWaits, CreateLineEdges, KeepFastest, AddRide
      <3>2. graph' = graph /\ ~Planner!HasNegativeEdge
        BY <2>1, <3>1 DEF MakeRouter
      <3>3. ASSUME NEW id \in DOMAIN graph.edges
            PROVE  id \in Planner!ListedEdges(graph) /\ graph.edges[id].weight \in Int
        <4>1. RouterInvariant /\ building # "waiting"
          BY <3>1 DEF SearchInvariant, MakeRouter
        <4>2. graph.edges[id].from \in 0 .. 2 * Len(db.stops) - 1 /\ graph.edges[id].weight \in Int
          BY <4>1, EdgeIsOfItem DEF Item
        <4>3. DOMAIN graph.incidence_lists = Vertices(2 * Len(db.stops))
          BY <4>1 DEF RouterInvariant, LoopsFollowCatalogue
        <4> QED
          BY <4>2, <4>3 DEF Planner!ListedEdges, ListedEdges, Planner!GetEdge, GetEdge, Vertices
      <3>4. \A id \in DOMAIN graph.edges : ~(graph.edges[id].weight < 0)
        BY <3>2, <3>3 DEF Planner!HasNegativeEdge
      <3> QED
        BY <3>2, <3>3, <3>4 DEF NoNegativeEdge
    <2> QED
      BY <2>1 DEF NoNegativeEdge
  <1> QED
    BY <1>1, <1>2, <1>3, <1>5, <1>6, <1>7 DEF SearchInvariant

\* No step breaks the invariant.
LEMMA SearchStep == SearchInvariant /\ [Build \/ SearchNext]_searchVars => SearchInvariant'
  <1> SUFFICES ASSUME SearchInvariant, [Build \/ SearchNext]_searchVars PROVE SearchInvariant'
    OBVIOUS
  <1>1. CASE Build
    BY <1>1, SearchBuilt
  <1>2. CASE SearchMap \/ SearchBusStat \/ SearchStopStat \/ SearchRoute
    BY <1>2, MapSearched, BusSearched, StopSearched, RouteSearched
  <1>3. CASE EndSearch \/ UNCHANGED searchVars
    <2>1. UNCHANGED vars /\ stats' = stats /\ nodes' = nodes /\ searching' \in {searching, "done"}
      BY <1>3 DEF EndSearch, searchVars
    <2>2. UNCHANGED <<db, base, building, graph, id_to_edge>>
      BY <2>1 DEF vars, routerVars, populateVars
    <2>3. RouterInvariant'
      BY <2>1, RouterStep DEF SearchInvariant
    <2>4. ResponsesFollowRequests' /\ NoNegativeEdge'
      BY <2>1, <2>2 DEF SearchInvariant, ResponsesFollowRequests, NoNegativeEdge, Range
    <2>5. ASSUME NEW i \in DOMAIN nodes'
          PROVE  RespondsTo(stats[i], nodes[i])'
      <3>1. PICK r, a : r = stats[i] /\ a = nodes[i]
        OBVIOUS
      <3>2. RespondsTo(r, a)
        BY <2>1, <3>1 DEF SearchInvariant
      <3>3. RespondsTo(r, a)'
        BY <2>2, <3>2, SameResponse
      <3> QED
        BY <2>1, <3>1, <3>3
    <2> QED
      BY <2>2, <2>3, <2>4, <2>5 DEF SearchInvariant
  <1> QED
    BY <1>1, <1>2, <1>3 DEF SearchNext

\* Nothing has been asked at first.
LEMMA SearchBegins == SearchInit => SearchInvariant
  <1> SUFFICES ASSUME SearchInit PROVE SearchInvariant
    OBVIOUS
  <1>1. RouterInvariant /\ base \in Bases
    BY NothingBuilt DEF SearchInit, Init, PopulateInit
  <1>2. NoNegativeEdge
    BY DEF SearchInit, Init, NoNegativeEdge
  <1>3. ResponsesFollowRequests
    BY DEF SearchInit, ResponsesFollowRequests, Range
  <1> QED
    BY <1>1, <1>2, <1>3 DEF SearchInvariant, SearchInit

\* What has been answered is what catalogue and router have to say, at every step
\* (json_reader.cpp:256-293).
THEOREM SearchInvariance == SearchSpec => []SearchInvariant
  BY SearchBegins, SearchStep, PTL DEF SearchSpec

-----------------------------------------------------------------------------
(* Route and Stop requests agree. *)

\* The rides that have been shown are rides of the router.
LEMMA RidesAreOfRouter ==
    ASSUME SearchInvariant, NEW ride \in RidesShown
    PROVE  /\ building = "ready"
           /\ \E id \in DOMAIN id_to_edge : ride = Shown(id_to_edge[id]) /\ id_to_edge[id].bus # Null
  <1>1. PICK i \in Answered("Route") :
            nodes[i].items # Null /\ ride \in Range(nodes[i].items) /\ ride.bus # Null
    BY DEF RidesShown
  <1>2. i \in DOMAIN nodes /\ stats[i].type = "Route"
    BY DEF Answered
  <1>3. RespondsTo(stats[i], nodes[i])
    BY <1>2 DEF SearchInvariant
  <1>4. PICK k \in DOMAIN nodes[i].items : ride = nodes[i].items[k]
    BY <1>1 DEF Range
  <1>5. PICK id \in DOMAIN id_to_edge : ride = Shown(id_to_edge[id])
    BY <1>1, <1>2, <1>3, <1>4 DEF RespondsTo, IsShown
  <1>6. id_to_edge[id].bus # Null
    BY <1>1, <1>5 DEF Shown
  <1>7. nodes # << >>
    BY <1>2
  <1> QED
    BY <1>5, <1>6, <1>7 DEF SearchInvariant, ResponsesFollowRequests

\* A ride of the router leads from stop to stop of its bus, all of which have names.
LEMMA RideOfBus ==
    ASSUME RouterInvariant, building = "ready", NEW id \in DOMAIN id_to_edge, id_to_edge[id].bus # Null
    PROVE  LET item == id_to_edge[id]
               line == db.buses[item.bus].stops
           IN  /\ item.bus \in GetBusesHolder(db) /\ item.bus \in BusPtrs(db)
               /\ item.from \in GetStopsHolder(db) /\ item.to \in GetStopsHolder(db)
               /\ item.from \in Range(line) /\ item.to \in Range(line)
  <1>1. PICK item : item = id_to_edge[id]
    OBVIOUS
  <1>2. /\ PopulateInvariant /\ stage = "populated"
        /\ item.from \in GetStopsHolder(db) /\ item.to \in GetStopsHolder(db)
    BY <1>1 DEF RouterInvariant, LoopsFollowCatalogue, ItemsFollowEdges
  <1>3. item.bus \in GetBusesHolder(db)
    BY <1>1, RideOfGraph
  <1>4. PICK bus : bus = db.buses[item.bus]
    OBVIOUS
  <1>5. bus.stops \in Seq(GetStopsHolder(db)) /\ item.bus \in BusPtrs(db)
    BY <1>2, <1>3, <1>4, LineStops
  <1>6. PICK stops \in Range(Directions(bus)) :
            \E from \in DOMAIN stops : \E to \in Destinations(stops, from) :
                item = LineEdge(stops, item.bus, from, to)
    BY <1>1, <1>4, RideOfGraph
  <1>7. stops = bus.stops \/ stops = Reverse(bus.stops)
    BY <1>5, DirectionsOf
  <1>8. stops \in Seq(GetStopsHolder(db)) /\ Range(stops) = Range(bus.stops)
    <2>1. PICK n \in Nat : n = Len(bus.stops) /\ DOMAIN bus.stops = 1 .. n
      BY <1>5
    <2>2. Reverse(bus.stops) = [k \in 1 .. n |-> bus.stops[n - k + 1]]
      BY <2>1 DEF Reverse
    <2>3. \A k \in 1 .. n : n - k + 1 \in 1 .. n /\ n - (n - k + 1) + 1 = k
      OBVIOUS
    <2>4. Range(Reverse(bus.stops)) = Range(bus.stops)
      <3>1. PICK line, back : line = bus.stops /\ back = Reverse(bus.stops)
        OBVIOUS
      <3>2. DOMAIN line = 1 .. n /\ DOMAIN back = 1 .. n /\ \A k \in 1 .. n : back[k] = line[n - k + 1]
        BY <2>1, <2>2, <3>1
      <3>3. \A k \in 1 .. n : line[k] = back[n - k + 1]
        BY <2>3, <3>2
      <3>4. Range(back) \subseteq Range(line)
        BY <2>3, <3>2 DEF Range
      <3>5. Range(line) \subseteq Range(back)
        BY <2>3, <3>2, <3>3 DEF Range
      <3> QED
        BY <3>1, <3>4, <3>5
    <2>5. Reverse(bus.stops) \in Seq(GetStopsHolder(db))
      BY <1>5, <2>1, <2>2, <2>3
    <2> QED
      BY <1>5, <1>7, <2>4, <2>5
  <1>9. PICK from \in DOMAIN stops, to \in DOMAIN stops : item.from = stops[from] /\ item.to = stops[to]
    <2>1. PICK from \in DOMAIN stops : \E to \in Destinations(stops, from) :
              item = LineEdge(stops, item.bus, from, to)
      BY <1>6
    <2>2. PICK to \in Destinations(stops, from) : item = LineEdge(stops, item.bus, from, to)
      BY <2>1
    <2>3. to \in DOMAIN stops
      <3>1. PICK n \in Nat : n = Len(stops) /\ DOMAIN stops = 1 .. n
        BY <1>8
      <3> QED
        BY <2>1, <3>1 DEF Destinations
    <2>4. item.from = stops[from] /\ item.to = stops[to]
      BY <2>2 DEF LineEdge
    <2> QED
      BY <2>3, <2>4
  <1>10. item.from \in Range(bus.stops) /\ item.to \in Range(bus.stops)
    BY <1>8, <1>9 DEF Range
  <1> QED
    BY <1>1, <1>2, <1>3, <1>4, <1>5, <1>10

\* A stop of a bus lists a bus of that name (catalogue.cpp:35-36).
LEMMA BusIsListed ==
    ASSUME PopulateInvariant, stage = "populated", NEW ptr \in BusPtrs(db),
           NEW stop \in GetStopsHolder(db), stop \in Range(db.buses[ptr].stops)
    PROVE  db.buses[ptr].name \in GetStop(db, db.stops[stop])
  <1>1. PICK k \in DOMAIN db.buses[ptr].stops : stop = db.buses[ptr].stops[k]
    BY DEF Range
  <1>2. PICK listed \in db.stop_to_buses[stop] : db.buses[listed].name = db.buses[ptr].name
    BY <1>1 DEF PopulateInvariant, ListsFollowBuses, Returned
  <1>3. SearchStop(db, db.stops[stop]) = stop /\ stop # Null
    BY HeldByItsName
  <1> QED
    BY <1>2, <1>3 DEF GetStop

\* What a stop says of the buses that call there and what a route says of the buses one
\* takes there agree, whatever has been declared twice (router.cpp:26-72,
\* catalogue.cpp:30-37).
THEOREM RidesListed == SearchSpec => []RidesAreListed
  <1>1. SearchInvariant => RidesAreListed
    <2> SUFFICES ASSUME SearchInvariant, NEW ride \in RidesShown, NEW i \in Answered("Stop"),
                        stats[i].name \in {ride.from, ride.to}
                 PROVE  ride.bus \in nodes[i].buses
      BY DEF RidesAreListed
    <2>1. PICK id \in DOMAIN id_to_edge : ride = Shown(id_to_edge[id]) /\ id_to_edge[id].bus # Null
      BY RidesAreOfRouter
    <2>2. RouterInvariant /\ building = "ready" /\ PopulateInvariant /\ stage = "populated"
      BY RidesAreOfRouter DEF SearchInvariant, RouterInvariant, LoopsFollowCatalogue
    <2>3. PICK item : item = id_to_edge[id]
      OBVIOUS
    <2>4. /\ ride.from = db.stops[item.from] /\ ride.to = db.stops[item.to]
          /\ ride.bus = db.buses[item.bus].name
      BY <2>1, <2>3 DEF Shown
    <2>5. PICK stop \in {item.from, item.to} : stats[i].name = db.stops[stop]
      BY <2>4
    <2>6. /\ item.bus \in BusPtrs(db) /\ stop \in GetStopsHolder(db)
          /\ stop \in Range(db.buses[item.bus].stops)
      BY <2>1, <2>2, <2>3, <2>5, RideOfBus
    <2>7. nodes[i].buses = GetStop(db, stats[i].name)
      BY DEF Answered, SearchInvariant, RespondsTo
    <2> QED
      BY <2>2, <2>4, <2>5, <2>6, <2>7, BusIsListed
  <1> QED
    BY <1>1, SearchInvariance, PTL

-----------------------------------------------------------------------------
(* Route and Bus requests agree. *)

\* BusLine::length, leg by leg.
LEMMA LengthByLegs ==
    ASSUME PopulateTypeOK, NEW bus, NEW n \in Nat, n + 1 = Len(bus.stops)
    PROVE  \E s \in [Nat -> Int] :
              /\ s[0] = 0 /\ s[n] = GetLength(db, bus)
              /\ \A leg \in 1 .. n :
                    s[leg] = s[leg - 1]
                             + (LegLength(db, bus.stops[leg], bus.stops[leg + 1])
                                + IF bus.is_roundtrip THEN 0
                                  ELSE LegLength(db, bus.stops[leg + 1], bus.stops[leg]))
  <1> DEFINE there(leg) == LegLength(db, bus.stops[leg], bus.stops[leg + 1])
             back(leg)  == LegLength(db, bus.stops[leg + 1], bus.stops[leg])
             both(leg)  == there(leg) + IF bus.is_roundtrip THEN 0 ELSE back(leg)
  <1>1. \A leg : there(leg) \in Int /\ back(leg) \in Int
    BY DistanceType DEF LegLength
  <1>2. Legs(bus) = 1 .. n
    BY DEF Legs
  <1>3. GetLength(db, bus) = SumFunction([leg \in 1 .. n |-> both(leg)])
    BY <1>2 DEF GetLength
  <1> HIDE DEF there, back
  <1>4. PICK f \in [1 .. n -> Int] : f = [leg \in 1 .. n |-> both(leg)]
    <2>1. \A leg : both(leg) \in Int
      BY <1>1
    <2> HIDE DEF both
    <2>2. [leg \in 1 .. n |-> both(leg)] \in [1 .. n -> Int]
      BY <2>1
    <2> QED
      BY <2>2
  <1>5. PICK s \in [Nat -> Int] : /\ s[0] = 0 /\ s[n] = SumFunction(f)
                                  /\ \A leg \in 1 .. n : s[leg] = s[leg - 1] + f[leg]
    BY SumByLength
  <1>6. \A leg \in 1 .. n : s[leg] = s[leg - 1] + both(leg)
    BY <1>4, <1>5
  <1> QED
    BY <1>3, <1>4, <1>5, <1>6 DEF there, back

\* The distances of the legs a ride counts are known.
LegsMeasured(stops, legs) == \A k \in legs : Distance(db, stops[k - 1], stops[k]) \in Int

\* Metres, as added up from place to place.
IsTally(m, stops, legs) ==
    /\ m \in [Nat -> Int]
    /\ m[0] = 0
    /\ \A k \in Nat \ {0} :
          m[k] = m[k - 1] + IF k \in legs THEN Distance(db, stops[k - 1], stops[k]) ELSE 0
    /\ \A to \in Nat : Metres(stops, legs, to) = m[to]

\* MetresSteps.
LEMMA TallyExists ==
    ASSUME NEW stops, NEW legs, LegsMeasured(stops, legs)
    PROVE  \E m : IsTally(m, stops, legs)
  BY MetresSteps, SMTT(30) DEF LegsMeasured, IsTally

\* Where the last leg is the only one, the ride is as long as that leg.
LEMMA OneLeg ==
    ASSUME PopulateTypeOK, NEW stops, NEW n \in Nat, n = Len(stops), DOMAIN stops = 1 .. n,
           ~LineThrows(stops), NEW last \in 2 .. n, stops[last - 1] # stops[last]
    PROVE  /\ last - 1 \in DOMAIN stops /\ last \in Destinations(stops, last - 1)
           /\ Distance(db, stops[last - 1], stops[last]) \in Int
           /\ Ridden(stops, last - 1, last) = Distance(db, stops[last - 1], stops[last])
  <1>1. PICK before \in Nat : before = last - 1 /\ before + 1 = last /\ before \in 1 .. n
    OBVIOUS
  <1>2. PICK legs : legs = Destinations(stops, last - 1)
    OBVIOUS
  <1>3. last \in legs /\ \A k \in legs : k \in Nat /\ k >= last
    BY <1>1, <1>2 DEF Destinations
  <1>4. LegsMeasured(stops, legs)
    BY <1>1, <1>2, LegsKnown DEF LegsMeasured
  <1>5. PICK m : IsTally(m, stops, legs)
    BY <1>4, TallyExists
  <1> DEFINE Q == {j \in Nat : j < last => m[j] = 0}
  <1>6. 0 \in Q
    BY <1>5 DEF IsTally
  <1>7. ASSUME NEW j \in Nat, j \in Q
        PROVE  j + 1 \in Q
    <2> SUFFICES ASSUME j + 1 < last PROVE m[j + 1] = 0
      OBVIOUS
    <2>1. j + 1 \notin legs /\ m[j] = 0
      BY <1>3, <1>7
    <2>2. PICK i \in Nat \ {0} : i = j + 1 /\ i - 1 = j
      OBVIOUS
    <2>3. m[i] = m[j]
      BY <1>5, <2>1, <2>2 DEF IsTally
    <2> QED
      BY <2>1, <2>2, <2>3
  <1> HIDE DEF Q
  <1>8. before \in Q
    BY <1>6, <1>7, SetInduction
  <1>9. m[before] = 0
    BY <1>1, <1>8 DEF Q
  <1>10. m[last] = Distance(db, stops[last - 1], stops[last])
    BY <1>1, <1>3, <1>4, <1>5, <1>9 DEF IsTally, LegsMeasured
  <1> QED
    BY <1>1, <1>2, <1>3, <1>4, <1>5, <1>10 DEF Ridden, LegsMeasured, IsTally

\* In a router that stands, no edge of a line between two stops takes less than no time:
\* graph::Router would have refused the one that was kept.
LEMMA KeptTakesTime ==
    ASSUME RouterInvariant, building = "ready", NoNegativeEdge,
           NEW item \in ItemsOfLines(GetBusesHolder(db)), item.timedelta \in Int
    PROVE  item.timedelta >= 0
  <1>1. PICK ride \in RidesOf(Range(id_to_edge)) : SamePair(ride, item) /\ ride.timedelta <= item.timedelta
    <2>1. pending = {}
      BY DEF RouterInvariant, LoopsFollowCatalogue
    <2>2. PICK rides, lines : /\ rides = pending \cup RidesOf(Range(id_to_edge))
                              /\ lines = ItemsOfLines(GetBusesHolder(db))
      OBVIOUS
    <2>3. /\ \A ride \in rides : \A other \in lines :
                SamePair(ride, other) => ride.timedelta <= other.timedelta
          /\ \A other \in lines : \E ride \in rides : SamePair(ride, other)
      BY <2>2 DEF RouterInvariant, RidesAreFastest
    <2> QED
      BY <2>1, <2>2, <2>3
  <1>2. PICK id \in DOMAIN id_to_edge : ride = id_to_edge[id]
    BY <1>1 DEF RidesOf, Range
  <1>3. id \in DOMAIN graph.edges
    BY DEF RouterInvariant, ItemsFollowEdges
  <1>4. graph.edges[id].weight = ride.timedelta /\ ride \in Item
    BY <1>2, <1>3, EdgeIsOfItem
  <1>5. ride.timedelta \in Int /\ ride.timedelta >= 0
    BY <1>3, <1>4 DEF NoNegativeEdge, Item
  <1> QED
    BY <1>1, <1>5

\* So where no leg of a line is negative there, none is on the way back, though the two
\* have distances of their own.
LEMMA NoNegativeLeg ==
    ASSUME RouterInvariant, building = "ready", NoNegativeEdge, NEW ptr \in GetBusesHolder(db),
           \A leg \in Legs(db.buses[ptr]) :
                LegLength(db, db.buses[ptr].stops[leg], db.buses[ptr].stops[leg + 1]) >= 0,
           NEW stops \in Range(Directions(db.buses[ptr])), NEW k \in 2 .. Len(stops)
    PROVE  LET metres == Distance(db, stops[k - 1], stops[k])
           IN  metres \in Int /\ metres >= 0 /\ LegLength(db, stops[k - 1], stops[k]) = metres
  <1>1. PICK bus : bus = db.buses[ptr]
    OBVIOUS
  <1>2. PopulateInvariant /\ PopulateTypeOK /\ stage = "populated"
    BY DEF RouterInvariant, LoopsFollowCatalogue, PopulateInvariant
  <1>3. bus.stops \in Seq(GetStopsHolder(db))
    BY <1>1, <1>2, LineStops
  <1>4. /\ stops \in Seq(GetStopsHolder(db)) /\ ~LineThrows(stops)
        /\ \A from \in DOMAIN stops : \A to \in Destinations(stops, from) :
                LineEdge(stops, ptr, from, to) \in ItemsOfLines(GetBusesHolder(db))
    BY LinesScanned
  <1>5. PICK s, t : s = stops[k - 1] /\ t = stops[k]
    OBVIOUS
  <1>6. k \in DOMAIN stops /\ k > 1
    BY <1>4
  <1>7. PICK leg \in Legs(bus) :
            \/ s = bus.stops[leg] /\ t = bus.stops[leg + 1]
            \/ s = bus.stops[leg + 1] /\ t = bus.stops[leg]
    BY <1>1, <1>3, <1>5, <1>6, LegsOfDirections
  <1>8. LegLength(db, bus.stops[leg], bus.stops[leg + 1]) >= 0
    BY <1>1
  <1>9. \A x, y : Distance(db, x, y) \in Int \cup {Null} /\ (Distance(db, x, y) = Null <=> Distance(db, y, x) = Null)
    <2>1. \A pair \in DOMAIN db.stops_to_distance : db.stops_to_distance[pair] # Null
      BY <1>2, PopulateAssumption DEF PopulateTypeOK
    <2> QED
      BY <1>2, <2>1, DistanceType DEF Distance
  <1>10. Distance(db, bus.stops[leg], bus.stops[leg + 1]) # Null
    BY <1>8 DEF LegLength
  <1>11. Distance(db, s, t) \in Int /\ LegLength(db, s, t) = Distance(db, s, t)
    BY <1>7, <1>9, <1>10, PopulateAssumption DEF LegLength
  <1>12. Distance(db, s, t) >= 0
    <2>1. CASE s = t
      BY <1>7, <1>8, <1>11, <2>1
    <2>2. CASE s # t
      <3>1. /\ k - 1 \in DOMAIN stops /\ k \in Destinations(stops, k - 1)
            /\ Ridden(stops, k - 1, k) = Distance(db, s, t)
        BY <1>2, <1>4, <1>5, <2>2, OneLeg
      <3>2. PICK item \in ItemsOfLines(GetBusesHolder(db)) : item = LineEdge(stops, ptr, k - 1, k)
        BY <1>4, <3>1
      <3>3. item.timedelta = Distance(db, s, t)
        BY <3>1, <3>2 DEF LineEdge
      <3> QED
        BY <1>11, <3>3, KeptTakesTime
    <2> QED
      BY <2>1, <2>2
  <1> QED
    BY <1>5, <1>11, <1>12

\* What is added up from step to step stays within what is added up in larger steps, in
\* the same order or from the end.
LEMMA SumWithin ==
    ASSUME NEW n \in Nat, NEW m \in [Nat -> Int], NEW s \in [Nat -> Int],
           s[0] = 0, m[1] <= 0,
           \A j \in 1 .. n : s[j - 1] <= s[j],
           \/ \A j \in 1 .. n : m[j + 1] - m[j] <= s[j] - s[j - 1]
           \/ \A j \in 1 .. n : m[j + 1] - m[j] <= s[(n - j) + 1] - s[n - j]
    PROVE  \A j \in 0 .. n : m[j + 1] <= s[n]
  <1> DEFINE Grown(j)  == j <= n => 0 <= s[j] /\ s[n - j] <= s[n]
             Along(j)  == j <= n => m[j + 1] <= s[j]
             Back(j)   == j <= n => m[j + 1] <= s[n] - s[n - j]
  <1>1. \A j \in Nat : Grown(j)
    <2> DEFINE Q == {j \in Nat : Grown(j)}
    <2>1. 0 \in Q
      OBVIOUS
    <2>2. ASSUME NEW j \in Nat, j \in Q
          PROVE  j + 1 \in Q
      <3> SUFFICES ASSUME j + 1 <= n PROVE 0 <= s[j + 1] /\ s[n - (j + 1)] <= s[n]
        OBVIOUS
      <3>1. 0 <= s[j] /\ s[n - j] <= s[n]
        BY <2>2
      <3>2. PICK i \in 1 .. n : i = j + 1 /\ i - 1 = j
        OBVIOUS
      <3>3. PICK k \in 1 .. n : k = n - j /\ k - 1 = n - (j + 1)
        OBVIOUS
      <3>4. s[i - 1] <= s[i] /\ s[k - 1] <= s[k]
        OBVIOUS
      <3>5. s[i] \in Int /\ s[k] \in Int /\ s[k - 1] \in Int /\ s[i - 1] \in Int /\ s[n] \in Int
        OBVIOUS
      <3>6. 0 <= s[i] /\ s[k - 1] <= s[n]
        BY <3>1, <3>2, <3>3, <3>4, <3>5
      <3> QED
        BY <3>2, <3>3, <3>6
    <2> HIDE DEF Q
    <2>3. \A j \in Nat : j \in Q
      BY <2>1, <2>2, SetInduction
    <2> QED
      BY <2>3 DEF Q
  <1>2. CASE \A j \in 1 .. n : m[j + 1] - m[j] <= s[j] - s[j - 1]
    <2> DEFINE Q == {j \in Nat : Along(j)}
    <2>1. 0 \in Q
      OBVIOUS
    <2>2. ASSUME NEW j \in Nat, j \in Q
          PROVE  j + 1 \in Q
      <3> SUFFICES ASSUME j + 1 <= n PROVE m[(j + 1) + 1] <= s[j + 1]
        OBVIOUS
      <3>1. PICK i \in 1 .. n : i = j + 1 /\ i - 1 = j
        OBVIOUS
      <3>2. m[i + 1] - m[i] <= s[i] - s[i - 1] /\ m[i] <= s[i - 1]
        BY <1>2, <2>2, <3>1
      <3>3. m[i + 1] \in Int /\ m[i] \in Int /\ s[i] \in Int /\ s[i - 1] \in Int
        OBVIOUS
      <3>4. m[i + 1] <= s[i]
        BY <3>2, <3>3
      <3> QED
        BY <3>1, <3>4
    <2> HIDE DEF Q
    <2>3. \A j \in Nat : j \in Q
      BY <2>1, <2>2, SetInduction
    <2>4. \A j \in 0 .. n : m[j + 1] <= s[j]
      BY <2>3 DEF Q
    <2>5. \A j \in 0 .. n : s[j] <= s[n]
      <3> SUFFICES ASSUME NEW j \in 0 .. n PROVE s[j] <= s[n]
        OBVIOUS
      <3>1. PICK i \in 0 .. n : i = n - j /\ n - i = j
        OBVIOUS
      <3> QED
        BY <1>1, <3>1
    <2>6. \A j \in 0 .. n : m[j + 1] \in Int /\ s[j] \in Int /\ s[n] \in Int
      OBVIOUS
    <2> HIDE DEF Along, Grown
    <2> QED
      BY <2>4, <2>5, <2>6
  <1>3. CASE \A j \in 1 .. n : m[j + 1] - m[j] <= s[(n - j) + 1] - s[n - j]
    <2> DEFINE Q == {j \in Nat : Back(j)}
    <2>1. 0 \in Q
      OBVIOUS
    <2>2. ASSUME NEW j \in Nat, j \in Q
          PROVE  j + 1 \in Q
      <3> SUFFICES ASSUME j + 1 <= n PROVE m[(j + 1) + 1] <= s[n] - s[n - (j + 1)]
        OBVIOUS
      <3>1. PICK i \in 1 .. n : i = j + 1 /\ i - 1 = j
        OBVIOUS
      <3>2. PICK k \in Nat : k = n - (j + 1) /\ k = n - i /\ (n - i) + 1 = n - j
        BY <3>1
      <3>3. m[i + 1] - m[i] <= s[k + 1] - s[k] /\ m[i] <= s[n] - s[k + 1]
        BY <1>3, <2>2, <3>1, <3>2
      <3>4. m[i + 1] \in Int /\ m[i] \in Int /\ s[k] \in Int /\ s[k + 1] \in Int /\ s[n] \in Int
        OBVIOUS
      <3>5. m[i + 1] <= s[n] - s[k]
        BY <3>3, <3>4
      <3> QED
        BY <3>1, <3>2, <3>5
    <2> HIDE DEF Q
    <2>3. \A j \in Nat : j \in Q
      BY <2>1, <2>2, SetInduction
    <2>4. \A j \in 0 .. n : m[j + 1] <= s[n] - s[n - j]
      BY <2>3 DEF Q
    <2>5. \A j \in 0 .. n : s[n - j] >= 0
      <3> SUFFICES ASSUME NEW j \in 0 .. n PROVE s[n - j] >= 0
        OBVIOUS
      <3>1. PICK i \in 0 .. n : i = n - j
        OBVIOUS
      <3> QED
        BY <1>1, <3>1
    <2>6. \A j \in 0 .. n : m[j + 1] \in Int /\ s[n - j] \in Int /\ s[n] \in Int
      OBVIOUS
    <2> HIDE DEF Back, Grown
    <2> QED
      BY <2>4, <2>5, <2>6
  <1> QED
    BY <1>2, <1>3

\* So no ride is longer than its line, there and back.
LEMMA RideWithinLine ==
    ASSUME RouterInvariant, building = "ready", NoNegativeEdge, NEW ptr \in GetBusesHolder(db),
           \A leg \in Legs(db.buses[ptr]) :
                LegLength(db, db.buses[ptr].stops[leg], db.buses[ptr].stops[leg + 1]) >= 0,
           NEW stops \in Range(Directions(db.buses[ptr])),
           NEW from \in DOMAIN stops, NEW to \in Destinations(stops, from)
    PROVE  Ridden(stops, from, to) <= GetLength(db, db.buses[ptr])
  <1>1. PICK bus : bus = db.buses[ptr]
    OBVIOUS
  <1>2. PopulateInvariant /\ PopulateTypeOK /\ stage = "populated"
    BY DEF RouterInvariant, LoopsFollowCatalogue, PopulateInvariant
  <1>3. PICK line \in Seq(GetStopsHolder(db)) : line = bus.stops
    BY <1>1, <1>2, LineStops
  <1>4. stops \in Seq(GetStopsHolder(db)) /\ ~LineThrows(stops)
    BY LinesScanned
  <1>5. /\ stops = line \/ (stops = Reverse(line) /\ ~bus.is_roundtrip)
        /\ line \in Range(Directions(bus))
        /\ ~bus.is_roundtrip => Reverse(line) \in Range(Directions(bus))
    BY <1>1, <1>3, DirectionsOf
  <1>6. PICK n \in Nat : n + 1 = Len(line) /\ DOMAIN line = 1 .. n + 1
    <2>1. PICK last \in Nat : last = Len(line) /\ DOMAIN line = 1 .. last
      BY <1>3
    <2>2. Len(Reverse(line)) = last /\ DOMAIN Reverse(line) = 1 .. last
      BY <1>3, <2>1 DEF Reverse
    <2>3. last # 0
      BY <1>5, <2>1, <2>2
    <2>4. last - 1 \in Nat /\ (last - 1) + 1 = last
      BY <2>3
    <2> QED
      BY <2>1, <2>4
  <1>7. \A k \in 1 .. n + 1 : Reverse(line)[k] = line[(n - k) + 2]
    BY <1>3, <1>6 DEF Reverse
  <1>8. Len(stops) = n + 1 /\ DOMAIN stops = 1 .. n + 1
    <2>1. Len(Reverse(line)) = n + 1 /\ DOMAIN Reverse(line) = 1 .. n + 1
      BY <1>3, <1>6 DEF Reverse
    <2> QED
      BY <1>5, <1>6, <2>1
  <1> DEFINE There(leg) == LegLength(db, line[leg], line[leg + 1])
             Back(leg)  == LegLength(db, line[leg + 1], line[leg])
  <1>9. \A leg \in 1 .. n : There(leg) \in Int /\ There(leg) >= 0
                            /\ There(leg) = Distance(db, line[leg], line[leg + 1])
    <2> SUFFICES ASSUME NEW leg \in 1 .. n
                 PROVE  There(leg) \in Int /\ There(leg) >= 0
                        /\ There(leg) = Distance(db, line[leg], line[leg + 1])
      OBVIOUS
    <2>1. PICK k : k = leg + 1 /\ k - 1 = leg /\ k \in 2 .. Len(line)
      BY <1>6
    <2> QED
      BY <1>1, <1>5, <2>1, NoNegativeLeg
  <1>10. ~bus.is_roundtrip =>
            \A leg \in 1 .. n : Back(leg) \in Int /\ Back(leg) >= 0
                                /\ Back(leg) = Distance(db, line[leg + 1], line[leg])
    <2> SUFFICES ASSUME ~bus.is_roundtrip, NEW leg \in 1 .. n
                 PROVE  Back(leg) \in Int /\ Back(leg) >= 0
                        /\ Back(leg) = Distance(db, line[leg + 1], line[leg])
      OBVIOUS
    <2>1. PICK k : k = (n - leg) + 2 /\ k \in 2 .. n + 1 /\ k - 1 \in 1 .. n + 1
                   /\ (n - k) + 2 = leg /\ (n - (k - 1)) + 2 = leg + 1
      OBVIOUS
    <2>2. PICK way : way = Reverse(line)
      OBVIOUS
    <2>3. way[k - 1] = line[leg + 1] /\ way[k] = line[leg] /\ k \in 2 .. Len(way)
      <3>1. Len(way) = n + 1
        BY <1>3, <1>6, <2>2 DEF Reverse
      <3> QED
        BY <1>7, <2>1, <2>2, <3>1
    <2>4. way \in Range(Directions(db.buses[ptr]))
      BY <1>1, <1>5, <2>2
    <2> QED
      BY <2>3, <2>4, NoNegativeLeg
  <1>11. PICK s \in [Nat -> Int] :
              /\ s[0] = 0 /\ s[n] = GetLength(db, bus)
              /\ \A leg \in 1 .. n :
                    s[leg] = s[leg - 1]
                             + (LegLength(db, bus.stops[leg], bus.stops[leg + 1])
                                + IF bus.is_roundtrip THEN 0
                                  ELSE LegLength(db, bus.stops[leg + 1], bus.stops[leg]))
    <2>1. n + 1 = Len(bus.stops) /\ PopulateTypeOK
      BY <1>2, <1>3, <1>6
    <2> QED
      BY <2>1, LengthByLegs
  <1>11a. \A leg \in 1 .. n :
            s[leg] = s[leg - 1] + (There(leg) + IF bus.is_roundtrip THEN 0 ELSE Back(leg))
    BY <1>3, <1>11
  <1> HIDE DEF There, Back
  <1>12. \A leg \in 1 .. n : /\ s[leg - 1] <= s[leg] /\ There(leg) <= s[leg] - s[leg - 1]
                             /\ ~bus.is_roundtrip => Back(leg) <= s[leg] - s[leg - 1]
    <2> SUFFICES ASSUME NEW leg \in 1 .. n
                 PROVE  /\ s[leg - 1] <= s[leg] /\ There(leg) <= s[leg] - s[leg - 1]
                        /\ ~bus.is_roundtrip => Back(leg) <= s[leg] - s[leg - 1]
      OBVIOUS
    <2>1. s[leg - 1] \in Int /\ s[leg] \in Int /\ There(leg) \in Int /\ There(leg) >= 0
      BY <1>9
    <2>2. CASE bus.is_roundtrip
      <3>1. s[leg] = s[leg - 1] + (There(leg) + 0)
        BY <1>11a, <2>2
      <3> QED
        BY <2>1, <2>2, <3>1
    <2>3. CASE ~bus.is_roundtrip
      <3>1. s[leg] = s[leg - 1] + (There(leg) + Back(leg))
        BY <1>11a, <2>3
      <3>2. Back(leg) \in Int /\ Back(leg) >= 0
        BY <1>10, <2>3
      <3> QED
        BY <2>1, <3>1, <3>2
    <2> QED
      BY <2>2, <2>3
  <1>13. PICK legs : legs = Destinations(stops, from)
    OBVIOUS
  <1>14. \A k \in legs : k \in 2 .. n + 1
    BY <1>8, <1>13 DEF Destinations
  <1>15. LegsMeasured(stops, legs)
    BY <1>2, <1>4, <1>13, LegsKnown DEF LegsMeasured
  <1>16. PICK m : IsTally(m, stops, legs)
    BY <1>15, TallyExists
  <1>17. m \in [Nat -> Int] /\ m[1] <= 0
    <2>1. m[1] = m[0] + IF 1 \in legs THEN Distance(db, stops[1 - 1], stops[1]) ELSE 0
      BY <1>16 DEF IsTally
    <2>2. 1 \notin legs
      BY <1>14
    <2> QED
      BY <1>16, <2>1, <2>2 DEF IsTally
  <1>18. \A j \in 1 .. n : m[j + 1] - m[j] = 0
                           \/ m[j + 1] - m[j] = Distance(db, stops[j], stops[j + 1])
    <2> SUFFICES ASSUME NEW j \in 1 .. n
                 PROVE  m[j + 1] - m[j] = 0
                        \/ m[j + 1] - m[j] = Distance(db, stops[j], stops[j + 1])
      OBVIOUS
    <2>1. PICK k \in Nat \ {0} : k = j + 1 /\ k - 1 = j
      OBVIOUS
    <2>2. m[k] = m[j] + IF k \in legs THEN Distance(db, stops[j], stops[k]) ELSE 0
      BY <1>16, <2>1 DEF IsTally
    <2>3. k \in legs => Distance(db, stops[j], stops[k]) \in Int
      BY <1>15, <2>1 DEF LegsMeasured
    <2>4. m[k] \in Int /\ m[j] \in Int
      BY <1>17
    <2> QED
      BY <2>1, <2>2, <2>3, <2>4
  <1>19. \/ \A j \in 1 .. n : m[j + 1] - m[j] <= s[j] - s[j - 1]
         \/ \A j \in 1 .. n : m[j + 1] - m[j] <= s[(n - j) + 1] - s[n - j]
    <2>1. ASSUME stops = line, NEW j \in 1 .. n
          PROVE  m[j + 1] - m[j] <= s[j] - s[j - 1]
      <3>1. 0 <= s[j] - s[j - 1]
        BY <1>12
      <3>2. Distance(db, stops[j], stops[j + 1]) <= s[j] - s[j - 1]
        BY <1>9, <1>12, <2>1
      <3> QED
        BY <1>18, <3>1, <3>2
    <2>2. ASSUME stops = Reverse(line), ~bus.is_roundtrip, NEW j \in 1 .. n
          PROVE  m[j + 1] - m[j] <= s[(n - j) + 1] - s[n - j]
      <3>1. PICK leg \in 1 .. n : leg = (n - j) + 1 /\ leg - 1 = n - j
                                  /\ (n - j) + 2 = leg + 1 /\ (n - (j + 1)) + 2 = leg
        OBVIOUS
      <3>2. stops[j] = line[leg + 1] /\ stops[j + 1] = line[leg]
        <4>1. \A k \in 1 .. n + 1 : stops[k] = line[(n - k) + 2]
          BY <1>7, <2>2
        <4>2. j \in 1 .. n + 1 /\ j + 1 \in 1 .. n + 1
          OBVIOUS
        <4>3. stops[j] = line[(n - j) + 2] /\ stops[j + 1] = line[(n - (j + 1)) + 2]
          BY <4>1, <4>2
        <4> QED
          BY <3>1, <4>3
      <3>3. 0 <= s[leg] - s[leg - 1]
        BY <1>12
      <3>4. Distance(db, stops[j], stops[j + 1]) <= s[leg] - s[leg - 1]
        BY <1>10, <1>12, <2>2, <3>2
      <3> QED
        BY <1>18, <3>1, <3>3, <3>4
    <2> QED
      BY <1>5, <2>1, <2>2
  <1>20. \A j \in 0 .. n : m[j + 1] <= s[n]
    BY <1>11, <1>12, <1>17, <1>19, SumWithin
  <1>21. PICK j \in 0 .. n : j + 1 = to
    <2>1. to \in 2 .. n + 1
      BY <1>13, <1>14
    <2>2. to - 1 \in 0 .. n /\ (to - 1) + 1 = to
      BY <2>1
    <2> QED
      BY <2>2
  <1>22. Ridden(stops, from, to) = m[to]
    BY <1>13, <1>16, <1>21 DEF Ridden, IsTally
  <1> QED
    BY <1>1, <1>11, <1>20, <1>21, <1>22

\* A uint8_t holds what is counted, or less.
LEMMA ModuloLess ==
    ASSUME NEW a \in Nat, NEW b \in Nat \ {0}
    PROVE  a % b \in Nat /\ a % b <= a
  <1>1. a % b \in 0 .. b - 1
    OBVIOUS
  <1>2. CASE a >= b
    BY <1>1, <1>2
  <1>3. CASE a < b
    BY <1>3
  <1> QED
    BY <1>2, <1>3

\* What GetBusLine says of the bus a ride is on.
LEMMA LineOfBus ==
    ASSUME PopulateInvariant, stage = "populated", NEW ptr \in GetBusesHolder(db)
    PROVE  LET bus == db.buses[ptr]
           IN  /\ SearchBus(db, bus.name) = ptr
               /\ GetBusLine(db, bus.name) # Null
               /\ GetBusLine(db, bus.name).route_length = GetLength(db, bus)
               /\ GetBusLine(db, bus.name).stop_count =
                    IF bus.is_roundtrip THEN Len(bus.stops) ELSE 2 * Len(bus.stops) - 1
  <1>1. PICK name \in BusName : ptr = db.bus_names[name] /\ ptr # Null
    BY DEF GetBusesHolder
  <1>2. db.buses[ptr].name = name
    BY <1>1 DEF PopulateInvariant, NamesLeadToLastBuses
  <1>3. SearchBus(db, name) = ptr
    BY <1>1 DEF PopulateInvariant, PopulateTypeOK, SearchBus
  <1>4. PICK bus : bus = db.buses[ptr]
    OBVIOUS
  <1>5. PICK line \in Seq(GetStopsHolder(db)) : line = bus.stops
    BY <1>4, LineStops
  <1> DEFINE count == IF bus.is_roundtrip THEN Len(line) ELSE 2 * Len(line) - 1
             found == [stop_count |-> count, unique_stop_count |-> Cardinality(Range(line)),
                       route_length |-> GetLength(db, bus)]
  <1>6. GetBusLine(db, name) = found
    BY <1>1, <1>3, <1>4, <1>5 DEF GetBusLine
  <1>7. count \in Int
    <2>1. Len(line) \in Nat
      BY <1>5
    <2> QED
      BY <2>1
  <1>8. Cardinality(Range(line)) \in Int
    <2>1. Range(line) \subseteq GetStopsHolder(db)
      BY <1>5 DEF Range
    <2> QED
      BY <2>1, StopsFit DEF PopulateInvariant
  <1>9. GetLength(db, bus) \in Int
    <2>1. CASE line = << >>
      <3>1. Legs(bus) = {}
        BY <1>5, <2>1 DEF Legs
      <3>2. GetLength(db, bus) = SumFunction(<< >>)
        BY <3>1 DEF GetLength
      <3> QED
        BY <3>2, SumOfNone
    <2>2. CASE line # << >>
      <3>1. PICK n \in Nat : n + 1 = Len(bus.stops)
        <4>1. Len(line) \in Nat /\ Len(line) # 0
          BY <1>5, <2>2
        <4>2. Len(line) - 1 \in Nat /\ (Len(line) - 1) + 1 = Len(line)
          BY <4>1
        <4> QED
          BY <1>5, <4>2
      <3>2. PICK s \in [Nat -> Int] : s[n] = GetLength(db, bus)
        BY <3>1, LengthByLegs DEF PopulateInvariant
      <3> QED
        BY <3>2
    <2> QED
      BY <2>1, <2>2
  <1> HIDE DEF count
  <1>10. found # Null
    BY <1>7, <1>8, <1>9, SearchAssumption
  <1>11. found.route_length = GetLength(db, bus) /\ found.stop_count = count
    OBVIOUS
  <1> HIDE DEF found
  <1> QED
    BY <1>2, <1>3, <1>4, <1>5, <1>6, <1>10, <1>11 DEF count

\* What a route says of a ride and what a Bus request says of its line agree
\* (router.cpp:31-50, catalogue.cpp:39-74).
THEOREM RidesFit == SearchSpec => []RidesFitTheirLine
  <1>1. SearchInvariant => RidesFitTheirLine
    <2> SUFFICES ASSUME SearchInvariant, NEW ride \in RidesShown, NEW i \in Answered("Bus"),
                        stats[i].name = ride.bus
                 PROVE  /\ nodes[i].bus # Null
                        /\ \/ ride.time <= nodes[i].bus.route_length
                           \/ \E leg \in Legs(db.buses[SearchBus(db, ride.bus)]) :
                                LET stops == db.buses[SearchBus(db, ride.bus)].stops
                                IN  LegLength(db, stops[leg], stops[leg + 1]) < 0
                        /\ ride.span_count < nodes[i].bus.stop_count
      BY DEF RidesFitTheirLine
    <2>1. PICK id \in DOMAIN id_to_edge : ride = Shown(id_to_edge[id]) /\ id_to_edge[id].bus # Null
      BY RidesAreOfRouter
    <2>2. /\ RouterInvariant /\ building = "ready" /\ NoNegativeEdge
          /\ PopulateInvariant /\ PopulateTypeOK /\ stage = "populated"
      BY RidesAreOfRouter DEF SearchInvariant, RouterInvariant, LoopsFollowCatalogue, PopulateInvariant
    <2>3. PICK item : item = id_to_edge[id]
      OBVIOUS
    <2>4. PICK ptr \in GetBusesHolder(db) : ptr = item.bus
      BY <2>1, <2>2, <2>3, RideOfGraph
    <2>5. PICK bus : bus = db.buses[ptr]
      OBVIOUS
    <2>6. ride.bus = bus.name /\ ride.time = item.timedelta /\ ride.span_count = item.stop_count
      BY <2>1, <2>3, <2>4, <2>5 DEF Shown
    <2>7. nodes[i].bus = GetBusLine(db, bus.name)
      BY <2>6 DEF Answered, SearchInvariant, RespondsTo
    <2>8. /\ SearchBus(db, ride.bus) = ptr /\ nodes[i].bus # Null
          /\ nodes[i].bus.route_length = GetLength(db, bus)
          /\ nodes[i].bus.stop_count =
                IF bus.is_roundtrip THEN Len(bus.stops) ELSE 2 * Len(bus.stops) - 1
      BY <2>2, <2>5, <2>6, <2>7, LineOfBus
    <2>9. PICK stops \in Range(Directions(bus)) :
              \E from \in DOMAIN stops : \E to \in Destinations(stops, from) :
                  item = LineEdge(stops, ptr, from, to)
      BY <2>1, <2>2, <2>3, <2>4, <2>5, RideOfGraph
    <2>10. PICK from \in DOMAIN stops : \E to \in Destinations(stops, from) :
              item = LineEdge(stops, ptr, from, to)
      BY <2>9
    <2>11. PICK to \in Destinations(stops, from) : item = LineEdge(stops, ptr, from, to)
      BY <2>10
    <2>12. item.timedelta = Ridden(stops, from, to) /\ item.stop_count = (to - from) % SpanModulus
      BY <2>11 DEF LineEdge
    <2>13. \/ ride.time <= nodes[i].bus.route_length
           \/ \E leg \in Legs(bus) : LegLength(db, bus.stops[leg], bus.stops[leg + 1]) < 0
      <3>1. \A s, t : LegLength(db, s, t) \in Int
        BY <2>2, DistanceType DEF LegLength
      <3>2. CASE \A leg \in Legs(bus) : LegLength(db, bus.stops[leg], bus.stops[leg + 1]) >= 0
        BY <2>2, <2>5, <2>6, <2>8, <2>12, <3>2, RideWithinLine
      <3> QED
        BY <3>1, <3>2
    <2>14. ride.span_count < nodes[i].bus.stop_count
      <3>1. PICK line \in Seq(GetStopsHolder(db)) : line = bus.stops
        BY <2>2, <2>5, LineStops
      <3>2. PICK n \in Nat : n = Len(line) /\ DOMAIN line = 1 .. n
        OBVIOUS
      <3>3. stops = line \/ stops = Reverse(line)
        BY <3>1, DirectionsOf
      <3>4. Len(stops) = n /\ DOMAIN stops = 1 .. n
        <4>1. Len(Reverse(line)) = n /\ DOMAIN Reverse(line) = 1 .. n
          BY <3>2 DEF Reverse
        <4> QED
          BY <3>2, <3>3, <4>1
      <3>5. from \in 1 .. n /\ to \in from + 1 .. n
        BY <3>4 DEF Destinations
      <3>6. PICK a \in Nat : a = to - from /\ a < n
        BY <3>5
      <3>7. (to - from) % SpanModulus \in Nat /\ (to - from) % SpanModulus < n
        BY <3>6, ModuloLess, TransportRouterAssumption
      <3>8. nodes[i].bus.stop_count = n \/ nodes[i].bus.stop_count = 2 * n - 1
        BY <2>8, <3>1, <3>2
      <3> QED
        BY <2>6, <2>12, <3>5, <3>7, <3>8
    <2> QED
      BY <2>5, <2>8, <2>13, <2>14
  <1> QED
    BY <1>1, SearchInvariance, PTL

-----------------------------------------------------------------------------
(* A Bus request is answered as the input declares the bus. *)

\* The bus a name leads to is the last one declared by it.
LEMMA BusOfName ==
    ASSUME PopulateInvariant, stage = "populated", NEW name
    PROVE  IF \A k \in DOMAIN base.buses : base.buses[k].name # name
           THEN SearchBus(db, name) = Null
           ELSE LET ptr == SearchBus(db, name)
                IN  /\ ptr \in GetBusesHolder(db) /\ ptr \in DOMAIN base.buses
                    /\ db.buses[ptr] = BusAt(ptr)
                    /\ LastNamed(base.buses, name) = base.buses[ptr]
  <1>1. PICK n \in Nat : n = Len(base.buses) /\ DOMAIN base.buses = 1 .. n
    BY DEF PopulateInvariant, IsBase
  <1>2. BusPtrs(db) = 1 .. n
    BY <1>1 DEF PopulateInvariant, BusesFollowRequests, BusPtrs
  <1>3. \A ptr \in 1 .. n : db.buses[ptr] = BusAt(ptr) /\ db.buses[ptr].name = base.buses[ptr].name
    BY <1>2 DEF PopulateInvariant, BusesFollowRequests, BusAt
  <1>4. \A k \in 1 .. n : base.buses[k].name \in BusName
    BY <1>1 DEF PopulateInvariant, IsBase, IsBusRequest
  <1>5. DOMAIN db.bus_names = BusName
    BY DEF PopulateInvariant, PopulateTypeOK
  <1>6. CASE \A k \in 1 .. n : base.buses[k].name # name
    <2>1. name \in BusName => db.bus_names[name] = Null
      BY <1>2, <1>3, <1>6 DEF PopulateInvariant, NamesLeadToLastBuses
    <2>2. SearchBus(db, name) = Null
      BY <1>5, <2>1 DEF SearchBus
    <2> QED
      BY <1>1, <1>6, <2>2
  <1>7. CASE \E k \in 1 .. n : base.buses[k].name = name
    <2>1. PICK ptr : ptr = db.bus_names[name]
      OBVIOUS
    <2>2. name \in BusName /\ SearchBus(db, name) = ptr
      BY <1>4, <1>5, <1>7, <2>1 DEF SearchBus
    <2>3. /\ ptr # Null /\ ptr \in 1 .. n /\ base.buses[ptr].name = name
          /\ \A k \in 1 .. n : base.buses[k].name = name => k <= ptr
      BY <1>2, <1>3, <1>7, <2>1, <2>2 DEF PopulateInvariant, NamesLeadToLastBuses
    <2>4. ptr \in GetBusesHolder(db)
      BY <2>1, <2>2, <2>3 DEF GetBusesHolder
    <2>5. Max({i \in DOMAIN base.buses : base.buses[i].name = name}) = ptr
      <3>1. PICK named : named = {i \in DOMAIN base.buses : base.buses[i].name = name}
        OBVIOUS
      <3>2. ptr \in named /\ named \subseteq Nat /\ \A k \in named : ptr >= k
        BY <1>1, <2>3, <3>1
      <3>3. \A k \in named : (\A j \in named : k >= j) => k = ptr
        BY <3>2
      <3>4. Max(named) = ptr
        BY <3>2, <3>3 DEF Max
      <3> QED
        BY <3>1, <3>4
    <2>6. LastNamed(base.buses, name) = base.buses[ptr]
      BY <2>5 DEF LastNamed
    <2> QED
      BY <1>1, <1>3, <1>7, <2>2, <2>3, <2>4, <2>6
  <1> QED
    BY <1>1, <1>6, <1>7

\* Its stops are those whose names it was declared with.
LEMMA StopsOfNames ==
    ASSUME PopulateInvariant, stage = "populated", NEW ptr \in GetBusesHolder(db),
           ptr \in DOMAIN base.buses, db.buses[ptr] = BusAt(ptr)
    PROVE  LET bus      == db.buses[ptr]
               declared == base.buses[ptr]
           IN  /\ bus.stops \in Seq(GetStopsHolder(db)) /\ declared.stops \in Seq(StopName)
               /\ Len(bus.stops) = Len(declared.stops)
               /\ \A k \in DOMAIN bus.stops : declared.stops[k] = db.stops[bus.stops[k]]
               /\ bus.is_roundtrip = declared.is_roundtrip
               /\ Cardinality(Range(bus.stops)) = Cardinality(Range(declared.stops))
  <1>1. PICK line \in Seq(GetStopsHolder(db)) : line = db.buses[ptr].stops
    BY LineStops
  <1>2. PICK n \in Nat : n = Len(line) /\ DOMAIN line = 1 .. n
    OBVIOUS
  <1>3. PICK names : names = base.buses[ptr].stops
    OBVIOUS
  <1>4. names \in Seq(StopName) /\ base.buses[ptr].is_roundtrip = db.buses[ptr].is_roundtrip
    BY <1>3 DEF PopulateInvariant, IsBase, IsBusRequest, BusAt
  <1>5. DOMAIN names = 1 .. n /\ Len(names) = n
    <2>1. Len(names) \in Nat /\ DOMAIN line = 1 .. Len(names) /\ DOMAIN names = 1 .. Len(names)
      BY <1>1, <1>3, BusAtType
    <2>2. 1 .. Len(names) = 1 .. n
      BY <1>2, <2>1
    <2>3. Len(names) = n
      BY <2>1, <2>2
    <2> QED
      BY <2>1, <2>3
  <1>6. \A k \in 1 .. n : names[k] = db.stops[line[k]] /\ line[k] \in GetStopsHolder(db)
    <2> SUFFICES ASSUME NEW k \in 1 .. n
                 PROVE  names[k] = db.stops[line[k]] /\ line[k] \in GetStopsHolder(db)
      OBVIOUS
    <2>1. names[k] \in StopName /\ line[k] = SearchStop(db, names[k])
      BY <1>1, <1>2, <1>3, BusAtType
    <2>2. line[k] \in GetStopsHolder(db)
      BY <1>2
    <2>3. line[k] # Null
      BY <2>2, HeldByItsName
    <2>4. line[k] = db.stop_names[names[k]]
      BY <2>1, <2>3 DEF SearchStop
    <2> QED
      BY <2>1, <2>2, <2>3, <2>4 DEF PopulateInvariant, NamesLeadToLastStops
  <1>7. Cardinality(Range(line)) = Cardinality(Range(names))
    <2>1. PICK S, T : S = Range(line) /\ T = Range(names)
      OBVIOUS
    <2>2. S \subseteq GetStopsHolder(db)
      BY <1>2, <1>6, <2>1 DEF Range
    <2>3. IsFiniteSet(S)
      BY <2>2, StopsFit DEF PopulateInvariant
    <2>4. PICK f : f = [stop \in S |-> db.stops[stop]]
      OBVIOUS
    <2>5. /\ \A stop \in S : f[stop] \in T
          /\ \A name \in T : \E stop \in S : f[stop] = name
      BY <1>2, <1>5, <1>6, <2>1, <2>4 DEF Range
    <2>6. \A stop, other \in S : f[stop] = f[other] => stop = other
      BY <2>2, <2>4, HeldByItsName
    <2>7. f \in Surjection(S, T) /\ f \in Injection(S, T)
      BY <2>4, <2>5, <2>6 DEF Surjection, Injection, IsInjective
    <2>8. Cardinality(T) = Cardinality(S)
      BY <2>3, <2>7, FS_Surjection
    <2> QED
      BY <2>1, <2>8
  <1> QED
    BY <1>1, <1>2, <1>3, <1>4, <1>5, <1>6, <1>7

\* Where neither stop is declared twice the distance there is for a leg is the declared
\* one.
LEMMA LegIsDeclared ==
    ASSUME PopulateInvariant, stage = "populated",
           NEW s \in GetStopsHolder(db), NEW t \in GetStopsHolder(db),
           DeclaredOnce(db.stops[s]), DeclaredOnce(db.stops[t])
    PROVE  LegLength(db, s, t) = DeclaredLeg(db.stops[s], db.stops[t])
  <1>1. PICK from, to : from = db.stops[s] /\ to = db.stops[t]
    OBVIOUS
  <1>2. PICK asked, reversed : asked = Declared(from, to) /\ reversed = Declared(to, from)
    OBVIOUS
  <1>3. PICK found : found = Distance(db, s, t)
    OBVIOUS
  <1>4. /\ found = Null <=> asked \cup reversed = {}
        /\ found # Null => found \in (IF asked # {} THEN asked ELSE reversed)
    BY <1>1, <1>2, <1>3, FollowedDistances DEF DistancesAsDeclared
  <1>5. /\ \A metres, other \in asked : metres = other
        /\ \A metres, other \in reversed : metres = other
    BY <1>1, <1>2 DEF Declared, DeclaredOnce
  <1>6. DeclaredLeg(from, to) = IF asked # {} THEN CHOOSE metres \in asked : TRUE
                                ELSE IF reversed # {} THEN CHOOSE metres \in reversed : TRUE
                                ELSE -1
    BY <1>2 DEF DeclaredLeg
  <1>7. LegLength(db, s, t) = IF found = Null THEN -1 ELSE found
    BY <1>3 DEF LegLength
  <1>8. asked # {} => (CHOOSE metres \in asked : TRUE) \in asked
    OBVIOUS
  <1>9. reversed # {} => (CHOOSE metres \in reversed : TRUE) \in reversed
    OBVIOUS
  <1> QED
    BY <1>1, <1>4, <1>5, <1>6, <1>7, <1>8, <1>9

\* Adding up there and back leg by leg, or all the way there and then all the way back.
LEMMA SumThereAndBack ==
    ASSUME NEW n \in Nat, NEW s \in [Nat -> Int], NEW t \in [Nat -> Int], s[0] = 0, t[0] = 0,
           \A j \in 1 .. n :
                s[j] - s[j - 1] = (t[j] - t[j - 1]) + (t[(2 * n - j) + 1] - t[2 * n - j])
    PROVE  s[n] = t[2 * n]
  <1>1. PICK last \in Nat : last = 2 * n
    OBVIOUS
  <1> DEFINE Q == {j \in Nat : j <= n => s[j] = t[j] + (t[last] - t[last - j])}
  <1>2. 0 \in Q
    BY <1>1
  <1>3. ASSUME NEW j \in Nat, j \in Q
        PROVE  j + 1 \in Q
    <2> SUFFICES ASSUME j + 1 <= n PROVE s[j + 1] = t[j + 1] + (t[last] - t[last - (j + 1)])
      OBVIOUS
    <2>1. PICK i \in 1 .. n : i = j + 1 /\ i - 1 = j
      OBVIOUS
    <2>2. PICK k \in Nat : k = last - i /\ k = last - (j + 1) /\ k + 1 = last - j
      BY <1>1, <2>1
    <2>3. s[i] - s[j] = (t[i] - t[j]) + (t[k + 1] - t[k])
      BY <1>1, <2>1, <2>2
    <2>4. s[j] = t[j] + (t[last] - t[k + 1])
      BY <1>3, <2>2
    <2>5. /\ s[i] \in Int /\ s[j] \in Int /\ t[i] \in Int /\ t[j] \in Int
          /\ t[k] \in Int /\ t[k + 1] \in Int /\ t[last] \in Int
      BY <2>1
    <2>6. s[i] = t[i] + (t[last] - t[k])
      BY <2>3, <2>4, <2>5
    <2> QED
      BY <2>1, <2>2, <2>6
  <1> HIDE DEF Q
  <1>4. n \in Q
    BY <1>2, <1>3, SetInduction
  <1>5. s[n] = t[n] + (t[last] - t[last - n])
    BY <1>4 DEF Q
  <1>6. last - n = n
    BY <1>1
  <1>7. s[n] = t[n] + (t[last] - t[n])
    BY <1>5, <1>6
  <1>8. s[n] \in Int /\ t[n] \in Int /\ t[last] \in Int
    OBVIOUS
  <1> QED
    BY <1>1, <1>7, <1>8

\* A line followed by its way back.
LEMMA ThereAndBack ==
    ASSUME NEW S, NEW line \in Seq(S), NEW n \in Nat, n + 1 = Len(line)
    PROVE  LET trip == line \o Tail(Reverse(line))
           IN  /\ Len(trip) = 2 * n + 1
               /\ \A k \in 1 .. n + 1 : trip[k] = line[k]
               /\ \A k \in n + 1 .. 2 * n + 1 : trip[k] = line[(2 * n - k) + 2]
  <1>1. DOMAIN line = 1 .. n + 1
    OBVIOUS
  <1>2. PICK way : way = Reverse(line)
    OBVIOUS
  <1>3. way = [i \in 1 .. n + 1 |-> line[((n + 1) - i) + 1]]
    BY <1>2 DEF Reverse
  <1>4. way \in Seq(S) /\ Len(way) = n + 1 /\ way # << >>
    <2>1. \A i \in 1 .. n + 1 : ((n + 1) - i) + 1 \in 1 .. n + 1
      OBVIOUS
    <2>2. \A i \in 1 .. n + 1 : line[i] \in S
      BY <1>1
    <2>3. way \in Seq(S)
      BY <1>3, <2>1, <2>2
    <2> QED
      BY <1>3, <2>3
  <1>5. PICK rest \in Seq(S) : rest = Tail(way) /\ Len(rest) = n
    <2>1. PICK w \in Seq(S) : w = way
      BY <1>4
    <2>2. Tail(w) \in Seq(S) /\ Len(Tail(w)) = Len(w) - 1
      BY <1>4, <2>1
    <2>3. Len(w) - 1 = n
      BY <1>4, <2>1
    <2> QED
      BY <2>1, <2>2, <2>3
  <1>6. \A i \in 1 .. n : rest[i] = way[i + 1]
    BY <1>4, <1>5
  <1>7. PICK trip : trip = line \o rest
    OBVIOUS
  <1>8. Len(trip) = 2 * n + 1
    <2>1. Len(trip) = Len(line) + Len(rest)
      BY <1>7
    <2> QED
      BY <1>5, <2>1
  <1>9. /\ \A k \in 1 .. n + 1 : trip[k] = line[k]
        /\ \A i \in 1 .. n : trip[(n + 1) + i] = rest[i]
    BY <1>5, <1>7
  <1>10. ASSUME NEW k \in n + 1 .. 2 * n + 1
         PROVE  trip[k] = line[(2 * n - k) + 2]
    <2>1. CASE k = n + 1
      <3>1. (2 * n - k) + 2 = k
        BY <2>1
      <3> QED
        BY <1>9, <2>1, <3>1
    <2>2. CASE k > n + 1
      <3>1. PICK i \in 1 .. n : k = (n + 1) + i
        <4>1. k - (n + 1) \in 1 .. n /\ k = (n + 1) + (k - (n + 1))
          BY <2>2
        <4> QED
          BY <4>1
      <3>2. ((n + 1) - (i + 1)) + 1 = (2 * n - k) + 2 /\ i + 1 \in 1 .. n + 1
        BY <3>1
      <3>3. trip[k] = way[i + 1]
        BY <1>6, <1>9, <3>1
      <3>4. way[i + 1] = line[((n + 1) - (i + 1)) + 1]
        BY <1>3, <3>2
      <3> QED
        BY <3>2, <3>3, <3>4
    <2> QED
      BY <2>1, <2>2
  <1> QED
    BY <1>2, <1>5, <1>7, <1>8, <1>9, <1>10

\* The route length of a bus is that of the trip it was declared with.
LEMMA LengthIsDeclared ==
    ASSUME PopulateInvariant, stage = "populated", NEW ptr \in GetBusesHolder(db),
           ptr \in DOMAIN base.buses, db.buses[ptr] = BusAt(ptr), db.buses[ptr].stops # << >>
    PROVE  LET declared == base.buses[ptr]
               trip     == IF declared.is_roundtrip THEN declared.stops
                           ELSE declared.stops \o Tail(Reverse(declared.stops))
           IN  /\ Len(trip) = IF declared.is_roundtrip THEN Len(declared.stops)
                              ELSE 2 * Len(declared.stops) - 1
               /\ (\A stop \in Range(trip) : DeclaredOnce(stop)) =>
                      GetLength(db, db.buses[ptr]) =
                          SumFunction([leg \in 1 .. Len(trip) - 1 |->
                                          DeclaredLeg(trip[leg], trip[leg + 1])])
  <1>1. PICK bus, declared : bus = db.buses[ptr] /\ declared = base.buses[ptr]
    OBVIOUS
  <1>2. PICK line \in Seq(GetStopsHolder(db)), names \in Seq(StopName) :
            /\ line = bus.stops /\ names = declared.stops /\ Len(line) = Len(names)
            /\ \A k \in DOMAIN line : names[k] = db.stops[line[k]]
            /\ bus.is_roundtrip = declared.is_roundtrip
    BY <1>1, StopsOfNames
  <1>3. PICK n \in Nat : n + 1 = Len(line) /\ DOMAIN line = 1 .. n + 1
    <2>1. Len(line) \in Nat /\ Len(line) # 0 /\ DOMAIN line = 1 .. Len(line)
      BY <1>1, <1>2
    <2>2. Len(line) - 1 \in Nat /\ (Len(line) - 1) + 1 = Len(line)
      BY <2>1
    <2> QED
      BY <2>1, <2>2
  <1>4. n + 1 = Len(names) /\ DOMAIN names = 1 .. n + 1
    BY <1>2, <1>3
  <1>5. \A k \in 1 .. n + 1 : names[k] = db.stops[line[k]] /\ line[k] \in GetStopsHolder(db)
    BY <1>2, <1>3
  <1>6. \A x, y : LegLength(db, x, y) \in Int
    BY DistanceType DEF LegLength, PopulateInvariant
  <1>7. ASSUME \A k \in 1 .. n + 1 : DeclaredOnce(names[k])
        PROVE  \A k, l \in 1 .. n + 1 : LegLength(db, line[k], line[l]) = DeclaredLeg(names[k], names[l])
    <2> SUFFICES ASSUME NEW k \in 1 .. n + 1, NEW l \in 1 .. n + 1
                 PROVE  LegLength(db, line[k], line[l]) = DeclaredLeg(names[k], names[l])
      OBVIOUS
    <2>1. DeclaredOnce(db.stops[line[k]]) /\ DeclaredOnce(db.stops[line[l]])
      BY <1>5, <1>7
    <2>2. LegLength(db, line[k], line[l]) = DeclaredLeg(db.stops[line[k]], db.stops[line[l]])
      BY <1>5, <2>1, LegIsDeclared
    <2> QED
      BY <1>5, <2>2
  <1>8. CASE declared.is_roundtrip
    <2> SUFFICES ASSUME \A stop \in Range(names) : DeclaredOnce(stop)
                 PROVE  GetLength(db, bus) =
                            SumFunction([leg \in 1 .. Len(names) - 1 |->
                                            DeclaredLeg(names[leg], names[leg + 1])])
      BY <1>1, <1>2, <1>8
    <2>1. \A k \in 1 .. n + 1 : DeclaredOnce(names[k])
      BY <1>4 DEF Range
    <2>2. Legs(bus) = 1 .. n /\ 1 .. Len(names) - 1 = 1 .. n
      BY <1>2, <1>3, <1>4 DEF Legs
    <2> DEFINE ridden(leg)   == LegLength(db, line[leg], line[leg + 1])
                                + IF bus.is_roundtrip THEN 0 ELSE LegLength(db, line[leg + 1], line[leg])
               asked(leg) == DeclaredLeg(names[leg], names[leg + 1])
    <2>3. \A leg \in 1 .. n : ridden(leg) = asked(leg)
      <3> SUFFICES ASSUME NEW leg \in 1 .. n PROVE ridden(leg) = asked(leg)
        OBVIOUS
      <3>1. leg \in 1 .. n + 1 /\ leg + 1 \in 1 .. n + 1
        OBVIOUS
      <3>2. LegLength(db, line[leg], line[leg + 1]) = asked(leg)
        BY <1>7, <2>1, <3>1
      <3>3. ridden(leg) = LegLength(db, line[leg], line[leg + 1]) + 0
        BY <1>2, <1>8
      <3> QED
        BY <1>6, <3>2, <3>3
    <2>4. GetLength(db, bus) = SumFunction([leg \in 1 .. n |-> ridden(leg)])
      BY <1>2, <2>2 DEF GetLength
    <2> HIDE DEF ridden, asked
    <2>5. [leg \in 1 .. n |-> ridden(leg)] = [leg \in 1 .. n |-> asked(leg)]
      BY <2>3
    <2>6. GetLength(db, bus) = SumFunction([leg \in 1 .. n |-> asked(leg)])
      BY <2>4, <2>5
    <2> QED
      BY <2>2, <2>6 DEF asked
  <1>9. CASE ~declared.is_roundtrip
    <2>1. PICK trip : trip = names \o Tail(Reverse(names))
      OBVIOUS
    <2>2. /\ Len(trip) = 2 * n + 1
          /\ \A k \in 1 .. n + 1 : trip[k] = names[k]
          /\ \A k \in n + 1 .. 2 * n + 1 : trip[k] = names[(2 * n - k) + 2]
      BY <1>4, <2>1, ThereAndBack
    <2>3. 2 * n + 1 = 2 * Len(names) - 1
      BY <1>4
    <2> DEFINE asked(leg) == DeclaredLeg(trip[leg], trip[leg + 1])
    <2> SUFFICES ASSUME \A stop \in Range(trip) : DeclaredOnce(stop)
                 PROVE  GetLength(db, bus) = SumFunction([leg \in 1 .. 2 * n |-> asked(leg)])
      <3>1. 1 .. Len(trip) - 1 = 1 .. 2 * n
        BY <2>2
      <3> QED
        BY <1>1, <1>2, <1>9, <2>1, <2>2, <2>3, <3>1
    <2>4. \A k \in 1 .. n + 1 : DeclaredOnce(names[k])
      <3>1. DOMAIN trip = 1 .. 2 * n + 1
        <4>1. Tail(Reverse(names)) \in Seq(StopName)
          <5>1. Reverse(names) \in Seq(StopName) /\ Reverse(names) # << >>
            BY <1>4 DEF Reverse
          <5> QED
            BY <5>1
        <4>2. trip \in Seq(StopName)
          BY <2>1, <4>1
        <4> QED
          BY <2>2, <4>2
      <3>2. \A k \in 1 .. n + 1 : k \in DOMAIN trip
        BY <3>1
      <3> QED
        BY <2>2, <3>2 DEF Range
    <2>5. \A leg \in 1 .. n : asked(leg) = LegLength(db, line[leg], line[leg + 1])
      BY <1>7, <2>2, <2>4
    <2>6. \A leg \in 1 .. n : asked((2 * n - leg) + 1) = LegLength(db, line[leg + 1], line[leg])
      <3> SUFFICES ASSUME NEW leg \in 1 .. n
                   PROVE  asked((2 * n - leg) + 1) = LegLength(db, line[leg + 1], line[leg])
        OBVIOUS
      <3>1. PICK k : k = (2 * n - leg) + 1
        OBVIOUS
      <3>2. /\ k \in n + 1 .. 2 * n + 1 /\ k + 1 \in n + 1 .. 2 * n + 1
            /\ (2 * n - k) + 2 = leg + 1 /\ (2 * n - (k + 1)) + 2 = leg
        BY <3>1
      <3>3. trip[k] = names[leg + 1] /\ trip[k + 1] = names[leg]
        BY <2>2, <3>2
      <3>4. leg \in 1 .. n + 1 /\ leg + 1 \in 1 .. n + 1
        OBVIOUS
      <3> QED
        BY <1>7, <2>4, <3>1, <3>3, <3>4
    <2>7. \A leg \in 1 .. 2 * n : asked(leg) \in Int
      <3> SUFFICES ASSUME NEW leg \in 1 .. 2 * n PROVE asked(leg) \in Int
        OBVIOUS
      <3>1. CASE leg <= n
        BY <1>6, <2>5, <3>1
      <3>2. CASE leg > n
        <4>1. PICK there : there = (2 * n - leg) + 1
          OBVIOUS
        <4>2. there \in 1 .. n /\ (2 * n - there) + 1 = leg
          BY <3>2, <4>1
        <4> QED
          BY <1>6, <2>6, <4>2
      <3> QED
        BY <3>1, <3>2
    <2> HIDE DEF asked
    <2>8. PICK last \in Nat : last = 2 * n
      OBVIOUS
    <2>9. PICK f \in [1 .. last -> Int] : f = [leg \in 1 .. 2 * n |-> asked(leg)]
      BY <2>7, <2>8
    <2>10. PICK t \in [Nat -> Int] : /\ t[0] = 0 /\ t[last] = SumFunction(f)
                                     /\ \A k \in 1 .. last : t[k] = t[k - 1] + f[k]
      BY SumByLength
    <2>11. PICK s \in [Nat -> Int] :
              /\ s[0] = 0 /\ s[n] = GetLength(db, bus)
              /\ \A leg \in 1 .. n :
                    s[leg] = s[leg - 1]
                             + (LegLength(db, bus.stops[leg], bus.stops[leg + 1])
                                + IF bus.is_roundtrip THEN 0
                                  ELSE LegLength(db, bus.stops[leg + 1], bus.stops[leg]))
      <3>1. n + 1 = Len(bus.stops) /\ PopulateTypeOK
        BY <1>2, <1>3 DEF PopulateInvariant
      <3> QED
        BY <3>1, LengthByLegs
    <2>12. ASSUME NEW j \in 1 .. n
           PROVE  s[j] - s[j - 1] = (t[j] - t[j - 1]) + (t[(2 * n - j) + 1] - t[2 * n - j])
      <3>1. s[j] = s[j - 1] + (LegLength(db, line[j], line[j + 1]) + LegLength(db, line[j + 1], line[j]))
        BY <1>2, <1>9, <2>11
      <3>2. t[j] = t[j - 1] + LegLength(db, line[j], line[j + 1])
        <4>1. j \in 1 .. last
          BY <2>8
        <4>2. f[j] = asked(j)
          BY <2>8, <2>9, <4>1
        <4> QED
          BY <2>5, <2>10, <4>1, <4>2
      <3>3. PICK k \in 1 .. last : k = (2 * n - j) + 1 /\ k - 1 = 2 * n - j
        BY <2>8
      <3>4. t[k] = t[k - 1] + LegLength(db, line[j + 1], line[j])
        <4>1. f[k] = asked(k)
          BY <2>8, <2>9
        <4> QED
          BY <2>6, <2>10, <3>3, <4>1
      <3>5. PICK here, back : /\ here = LegLength(db, line[j], line[j + 1])
                              /\ back = LegLength(db, line[j + 1], line[j])
        OBVIOUS
      <3>6. /\ here \in Int /\ back \in Int /\ s[j - 1] \in Int /\ s[j] \in Int
            /\ t[j] \in Int /\ t[j - 1] \in Int /\ t[k] \in Int /\ t[k - 1] \in Int
        <4>1. j \in Nat /\ j - 1 \in Nat /\ k \in Nat /\ k - 1 \in Nat
          OBVIOUS
        <4>2. s[j - 1] \in Int /\ s[j] \in Int
          BY <4>1
        <4>3. t[j] \in Int /\ t[j - 1] \in Int /\ t[k] \in Int /\ t[k - 1] \in Int
          BY <4>1
        <4>4. here \in Int /\ back \in Int
          BY <1>6, <3>5
        <4> QED
          BY <4>2, <4>3, <4>4
      <3>7. s[j] - s[j - 1] = (t[j] - t[j - 1]) + (t[k] - t[k - 1])
        BY <3>1, <3>2, <3>4, <3>5, <3>6
      <3> QED
        BY <3>3, <3>7
    <2>13. s[n] = t[2 * n]
      BY <2>10, <2>11, <2>12, SumThereAndBack
    <2> QED
      BY <2>8, <2>9, <2>10, <2>11, <2>13
  <1> QED
    BY <1>1, <1>2, <1>8, <1>9

\* A Bus request is answered with what the input declares for that bus last: through
\* pointers, names declared twice and distances given in one direction or in both
\* (json_reader.cpp:141-174, catalogue.cpp:39-90).
THEOREM BusAnswersDeclared == SearchSpec => []BusAnswersAsDeclared
  <1>1. SearchInvariant => BusAnswersAsDeclared
    <2> SUFFICES ASSUME SearchInvariant, NEW i \in Answered("Bus")
                 PROVE  LET name  == stats[i].name
                            found == nodes[i].bus
                        IN  IF \A k \in DOMAIN base.buses : base.buses[k].name # name
                            THEN found = Null
                            ELSE LET bus  == LastNamed(base.buses, name)
                                     trip == IF bus.is_roundtrip THEN bus.stops
                                             ELSE bus.stops \o Tail(Reverse(bus.stops))
                                 IN  /\ found.stop_count = Len(trip)
                                     /\ found.unique_stop_count = Cardinality(Range(bus.stops))
                                     /\ (\A stop \in Range(trip) : DeclaredOnce(stop)) =>
                                            found.route_length =
                                                SumFunction([leg \in 1 .. Len(trip) - 1 |->
                                                                DeclaredLeg(trip[leg], trip[leg + 1])])
      BY DEF BusAnswersAsDeclared
    <2>1. PICK name : name = stats[i].name
      OBVIOUS
    <2>2. i \in DOMAIN nodes /\ stats[i].type = "Bus"
      BY DEF Answered
    <2>3. PICK found : found = nodes[i].bus
      OBVIOUS
    <2>4. found = GetBusLine(db, name) /\ ~GetBusLineCrashes(db, name)
      BY <2>1, <2>2, <2>3 DEF SearchInvariant, RespondsTo
    <2>5. PopulateInvariant /\ stage = "populated"
      <3>1. nodes # << >>
        BY <2>2
      <3> QED
        BY <3>1 DEF SearchInvariant, ResponsesFollowRequests, RouterInvariant, LoopsFollowCatalogue
    <2>6. CASE \A k \in DOMAIN base.buses : base.buses[k].name # name
      <3>1. SearchBus(db, name) = Null
        BY <2>5, <2>6, BusOfName
      <3>2. found = Null
        BY <2>4, <3>1 DEF GetBusLine
      <3> QED
        BY <2>1, <2>3, <2>6, <3>2
    <2>7. CASE ~\A k \in DOMAIN base.buses : base.buses[k].name # name
      <3>1. PICK ptr : ptr = SearchBus(db, name)
        OBVIOUS
      <3>2. /\ ptr \in GetBusesHolder(db) /\ ptr \in DOMAIN base.buses
            /\ db.buses[ptr] = BusAt(ptr)
            /\ LastNamed(base.buses, name) = base.buses[ptr]
        BY <2>5, <2>7, <3>1, BusOfName
      <3>3. ptr # Null
        BY <2>5, <3>2, LineStops
      <3>4. PICK bus, declared : bus = db.buses[ptr] /\ declared = base.buses[ptr]
        OBVIOUS
      <3>5. /\ Len(bus.stops) = Len(declared.stops)
            /\ bus.is_roundtrip = declared.is_roundtrip
            /\ Cardinality(Range(bus.stops)) = Cardinality(Range(declared.stops))
        BY <2>5, <3>2, <3>4, StopsOfNames
      <3>6. bus.stops # << >>
        BY <2>4, <3>1, <3>3, <3>4 DEF GetBusLineCrashes
      <3>7. found = [stop_count        |-> IF bus.is_roundtrip THEN Len(bus.stops)
                                           ELSE 2 * Len(bus.stops) - 1,
                     unique_stop_count |-> Cardinality(Range(bus.stops)),
                     route_length      |-> GetLength(db, bus)]
        BY <2>4, <3>1, <3>3, <3>4 DEF GetBusLine
      <3>8. /\ found.stop_count = IF declared.is_roundtrip THEN Len(declared.stops)
                                  ELSE 2 * Len(declared.stops) - 1
            /\ found.unique_stop_count = Cardinality(Range(declared.stops))
            /\ found.route_length = GetLength(db, bus)
        BY <3>5, <3>7
      <3>9. PICK trip : trip = IF declared.is_roundtrip THEN declared.stops
                               ELSE declared.stops \o Tail(Reverse(declared.stops))
        OBVIOUS
      <3>10. /\ Len(trip) = IF declared.is_roundtrip THEN Len(declared.stops)
                            ELSE 2 * Len(declared.stops) - 1
             /\ (\A stop \in Range(trip) : DeclaredOnce(stop)) =>
                    GetLength(db, bus) =
                        SumFunction([leg \in 1 .. Len(trip) - 1 |->
                                        DeclaredLeg(trip[leg], trip[leg + 1])])
        BY <2>5, <3>2, <3>4, <3>6, <3>9, LengthIsDeclared
      <3> QED
        BY <2>1, <2>3, <2>7, <3>2, <3>4, <3>8, <3>9, <3>10
    <2> QED
      BY <2>6, <2>7
  <1> QED
    BY <1>1, SearchInvariance, PTL
=============================================================================
