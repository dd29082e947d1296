--------------------------- MODULE TransportRouter ---------------------------
(***************************************************************************)
(* transport::Router of src/router.h and src/router.cpp, built over the    *)
(* catalogue that Populate has filled (main.cpp: make_base), and the route *)
(* requests of RequestHandler::GetRoute.                                   *)
(*                                                                         *)
(* Every stop has two vertices, Transfer.second where passengers arrive    *)
(* and Transfer.first where they board; an edge from second to first is a  *)
(* wait, an edge from the first of one stop to the second of another is a  *)
(* ride.  graph::Router is taken by its promise, RoutePlanner.             *)
(*                                                                         *)
(* All buses have the velocity of the routing settings, which is not 0:    *)
(* times are counted in the metres a bus rides meanwhile.                  *)
(***************************************************************************)
EXTENDS Populate, DirectedWeightedGraph, SequencesExt

CONSTANTS
    WaitTime,       \* bus_wait_time
    SpanModulus,    \* 2^8, the range of uint8_t stop_count
    MaxStopCount    \* the most stops of an input

\* A wait or a ride between two stops, as GetEdgesFromIds shows it.
Item == [from : StopPtr, to : StopPtr, bus : BusPtr \cup {Null},
         stop_count : 0 .. SpanModulus - 1, timedelta : Int]

ASSUME TransportRouterAssumption ==
    /\ WaitTime \in Nat
    /\ SpanModulus \in Nat \ {0}
    /\ MaxStopCount \in Nat
    /\ \A input \in Bases : Len(input.stops) <= MaxStopCount
    /\ Null \notin [edges : Seq(Item), timedelta : Int]

VARIABLES
    building,           \* which part of the constructor is running
    pending,            \* stops or buses a loop has still to visit
    stop_to_transfer,   \* stop_to_transfer_
    graph,              \* graph_
    id_to_edge,         \* id_to_edge_, by edge id
    edges,              \* what CreateEdgesFromBusLines has collected
    answer              \* the last route request and its response

routerVars == <<building, pending, stop_to_transfer, graph, id_to_edge, edges, answer>>
vars == <<populateVars, routerVars>>

Planner == INSTANCE RoutePlanner WITH
    VertexCount <- 2 * MaxStopCount, EdgeChoice <- {}, MaxEdgeCount <- 0,
    phase <- building, request <- answer, response <- answer

Init ==
    /\ PopulateInit
    /\ building = "waiting"
    /\ pending = {}
    /\ stop_to_transfer = [ptr \in {} |-> 0]
    /\ graph = EmptyGraph(0)
    /\ id_to_edge = << >> /\ edges = << >>
    /\ answer = Null

\* graph_(2*db.GetStopCount()): also a stop that lost its name has its vertices.
StartRouter ==
    /\ stage = "populated" /\ building = "waiting"
    /\ building' = "transfers"
    /\ pending' = GetStopsHolder(db)
    /\ graph' = EmptyGraph(2 * Len(db.stops))
    /\ UNCHANGED <<populateVars, stop_to_transfer, id_to_edge, edges, answer>>

\* Transfer with ++vertex_id.
TransferIncrementedFirst(vertex_id) == [first |-> vertex_id + 2, second |-> vertex_id + 1]

\* Transfer{vertex_id, vertex_id++}: the first member is read by reference, after
\* the increment.
Transfer(vertex_id) == [first |-> vertex_id + 1, second |-> vertex_id]

\* First loop of FillStopEdges, in the order of an unordered_map.
AddTransfer ==
    /\ building = "transfers"
    /\ \E ptr \in pending :
        /\ stop_to_transfer' = [p \in DOMAIN stop_to_transfer \cup {ptr} |->
                IF p = ptr THEN Transfer(2 * Cardinality(DOMAIN stop_to_transfer))
                ELSE stop_to_transfer[p]]
        /\ pending' = pending \ {ptr}
    /\ UNCHANGED <<populateVars, building, graph, id_to_edge, edges, answer>>

\* One edge more for the graph, and the item GetEdgesFromIds shows for its id.
AddItem(item, edge) ==
    /\ graph' = AddEdge(graph, edge)
    /\ id_to_edge' = Append(id_to_edge, item)

WaitEdge(item) ==
    [from   |-> stop_to_transfer[item.from].second,
     to     |-> stop_to_transfer[item.to].first,
     weight |-> item.timedelta]

\* RideEdge that ends where passengers board.
RideEdgeToBoarding(item) ==
    [from   |-> stop_to_transfer[item.from].first,
     to     |-> stop_to_transfer[item.to].first,
     weight |-> item.timedelta]

RideEdge(item) ==
    [from   |-> stop_to_transfer[item.from].first,
     to     |-> stop_to_transfer[item.to].second,
     weight |-> item.timedelta]

EndTransfers ==
    /\ building = "transfers" /\ pending = {}
    /\ building' = "waits"
    /\ pending' = DOMAIN stop_to_transfer
    /\ UNCHANGED <<populateVars, stop_to_transfer, graph, id_to_edge, edges, answer>>

\* Second loop of FillStopEdges.  An edge id is only a name for its edge: from here
\* on the loops that add edges take the elements of their maps in one order.
AddWait ==
    /\ building = "waits" /\ pending # {}
    /\ LET ptr  == Min(pending)
           item == [from |-> ptr, to |-> ptr, bus |-> Null, stop_count |-> 0, timedelta |-> WaitTime]
       IN  /\ AddItem(item, WaitEdge(item))
           /\ pending' = pending \ {ptr}
    /\ UNCHANGED <<populateVars, building, stop_to_transfer, edges, answer>>

EndWaits ==
    /\ building = "waits" /\ pending = {}
    /\ building' = "lines"
    /\ pending' = GetBusesHolder(db)
    /\ UNCHANGED <<populateVars, stop_to_transfer, graph, id_to_edge, edges, answer>>

-----------------------------------------------------------------------------
\* CreateEdgesFromBusLines.

\* Where the inner loop, started at from, does not continue.
Destinations(stops, from) == {to \in from + 1 .. Len(stops) : stops[to] # stops[from]}

\* distance of the inner loop when it is at to and has added these legs, a leg being
\* named by the place it leads to.
Metres(stops, legs, to) ==
    LET distance[k \in Nat] ==
          IF k = 0 THEN 0
          ELSE distance[k - 1] + IF k \in legs THEN Distance(db, stops[k - 1], stops[k]) ELSE 0
    IN  distance[to]

\* Ridden without the continue in front of the addition.
RiddenAllLegs(stops, from, to) == Metres(stops, from + 1 .. to, to)

\* A leg that comes back to the stop of from was skipped by the continue.
Ridden(stops, from, to) == Metres(stops, Destinations(stops, from), to)

LineEdge(stops, bus_ptr, from, to) ==
    [from |-> stops[from], to |-> stops[to], bus |-> bus_ptr,
     stop_count |-> (to - from) % SpanModulus,
     timedelta  |-> Ridden(stops, from, to)]

\* push_back_busline_edges
LineEdges(stops, bus_ptr) ==
    FlattenSeq([from \in DOMAIN stops |->
        FlattenSeq([to \in DOMAIN stops |->
            IF to \in Destinations(stops, from) THEN <<LineEdge(stops, bus_ptr, from, to)>> ELSE << >>])])

\* Directions of a one-way line only.
OneDirection(bus) == <<bus.stops>>

\* Directions that takes a round trip back as well.
BothDirections(bus) == <<bus.stops, Reverse(bus.stops)>>

\* The stop sequences a bus is scanned along.
Directions(bus) ==
    IF bus.is_roundtrip THEN <<bus.stops>> ELSE <<bus.stops, Reverse(bus.stops)>>

\* LineThrows with the continue behind the lookups.
LineThrowsAtAnyLeg(stops) ==
    \E to \in 2 .. Len(stops) : Distance(db, stops[to - 1], stops[to]) = Null

\* stops_to_distance.at throws std::out_of_range.
LineThrows(stops) ==
    \E from \in DOMAIN stops : \E to \in Destinations(stops, from) :
        Distance(db, stops[to - 1], stops[to]) = Null

\* One bus of the outer loop, again in the order of an unordered_map.
CreateLineEdges ==
    /\ building = "lines"
    /\ \E ptr \in pending :
        LET lines == Directions(db.buses[ptr])
        IN  IF \E d \in DOMAIN lines : LineThrows(lines[d])
            THEN building' = "failed" /\ UNCHANGED <<edges, pending>>
            ELSE /\ edges' = edges \o FlattenSeq([d \in DOMAIN lines |-> LineEdges(lines[d], ptr)])
                 /\ pending' = pending \ {ptr}
                 /\ UNCHANGED building
    /\ UNCHANGED <<populateVars, stop_to_transfer, graph, id_to_edge, answer>>

-----------------------------------------------------------------------------
\* FillBusEdges

SamePair(item, other) == item.from = other.from /\ item.to = other.to

\* Kept that lets a later edge of the same pair replace an earlier one.
KeptLast(n) ==
    \A m \in DOMAIN edges : SamePair(edges[m], edges[n]) => m <= n

\* Whether the n-th edge is the one vertex_to_edges holds in the end: the first of
\* the fastest between its stops.
Kept(n) ==
    \A m \in DOMAIN edges : SamePair(edges[m], edges[n]) =>
        \/ edges[n].timedelta < edges[m].timedelta
        \/ edges[n].timedelta = edges[m].timedelta /\ n <= m

\* First loop of FillBusEdges: pending is vertex_to_edges now.  stop_to_transfer_.at
\* throws for a stop that no name leads to.
KeepFastest ==
    /\ building = "lines" /\ pending = {}
    /\ IF \E n \in DOMAIN edges : ~({edges[n].from, edges[n].to} \subseteq DOMAIN stop_to_transfer)
       THEN building' = "failed" /\ UNCHANGED pending
       ELSE /\ pending' = {edges[n] : n \in {m \in DOMAIN edges : Kept(m)}}
            /\ building' = "rides"
    /\ edges' = << >>
    /\ UNCHANGED <<populateVars, stop_to_transfer, graph, id_to_edge, answer>>

\* Its second loop.
AddRide ==
    /\ building = "rides" /\ pending # {}
    /\ LET item == CHOOSE item \in pending : TRUE
       IN  /\ AddItem(item, RideEdge(item))
           /\ pending' = pending \ {item}
    /\ UNCHANGED <<populateVars, building, stop_to_transfer, edges, answer>>

\* graph::Router is constructed; it throws for an edge of negative weight.
MakeRouter ==
    /\ building = "rides" /\ pending = {}
    /\ building' = IF Planner!HasNegativeEdge THEN "failed" ELSE "ready"
    /\ UNCHANGED <<populateVars, pending, stop_to_transfer, graph, id_to_edge, edges, answer>>

-----------------------------------------------------------------------------
\* RequestHandler::GetRoute and Router::GetRoute.

ItemsOf(ids) == [i \in DOMAIN ids |-> id_to_edge[ids[i]]]

\* What GetRoute may return: nullopt, or one of the shortest routes.
Responses(start, finish) ==
    LET start_ptr  == SearchStop(db, start)
        finish_ptr == SearchStop(db, finish)
        routes     == IF start_ptr = Null \/ finish_ptr = Null
                      THEN {}
                      ELSE Planner!ShortestRoutes(stop_to_transfer[start_ptr].second,
                                                  stop_to_transfer[finish_ptr].second)
    IN  IF routes = {}
        THEN {Null}
        ELSE {[edges |-> ItemsOf(route.edges), timedelta |-> route.weight] : route \in routes}

GetRoute(start, finish) ==
    /\ building = "ready"
    /\ \E route \in Responses(start, finish) :
         answer' = [start |-> start, finish |-> finish, route |-> route]
    /\ UNCHANGED <<populateVars, building, pending, stop_to_transfer, graph, id_to_edge, edges>>

RouterNext ==
    \/ StartRouter
    \/ AddTransfer \/ EndTransfers \/ AddWait \/ EndWaits
    \/ CreateLineEdges \/ KeepFastest \/ AddRide \/ MakeRouter

Next == \/ PopulateNext /\ UNCHANGED routerVars
        \/ RouterNext
        \/ \E start, finish \in StopName : GetRoute(start, finish)

\* One thread that runs until main returns; requests come or not.
Fairness == WF_vars(PopulateNext /\ UNCHANGED routerVars) /\ WF_vars(RouterNext)

Spec == Init /\ [][Next]_vars /\ Fairness
-----------------------------------------------------------------------------
\* Reference definitions: what passengers can do, from the catalogue alone.

\* Every bus in every direction it runs in.
Lines ==
    UNION {LET bus == db.buses[ptr]
           IN  {[bus |-> ptr, stops |-> stops] :
                    stops \in {bus.stops} \cup (IF bus.is_roundtrip THEN {} ELSE {Reverse(bus.stops)})} :
           ptr \in GetBusesHolder(db)}

\* Every ride from one place of a line to a later one, if all its legs are known.
Rides ==
    UNION {{[from |-> line.stops[p[1]], to |-> line.stops[p[2]], bus |-> line.bus,
             legs |-> p[2] - p[1], metres |-> RiddenAllLegs(line.stops, p[1], p[2])] :
                p \in {q \in (DOMAIN line.stops) \X (DOMAIN line.stops) :
                        /\ q[1] < q[2]
                        /\ \A k \in q[1] + 1 .. q[2] :
                             Distance(db, line.stops[k - 1], line.stops[k]) # Null}} :
           line \in Lines}

\* Where passengers that are at these places at these times can be then or after one
\* more wait and ride.
Onward(before, rides) ==
    before \cup
    UNION {{[stop |-> ride.to, time |-> at.time + WaitTime + ride.metres] :
                ride \in {r \in rides : r.from = at.stop}} : at \in before}

\* Where they can be, and when, after as many waits and rides as there are stops.
Reached(start) ==
    LET rides == {[from |-> r.from, to |-> r.to, metres |-> r.metres] : r \in Rides}
        reached[n \in Nat] ==
          IF n = 0 THEN {[stop |-> start, time |-> 0]} ELSE Onward(reached[n - 1], rides)
    IN  reached[Len(db.stops)]

Fastest(start, finish) ==
    LET times == {r.time : r \in {q \in Reached(start) : q.stop = finish}}
    IN  IF times = {} THEN Null ELSE Min(times)

\* The constructor has returned; no request changes what it has built.
Ready == building = "ready" /\ answer = Null
-----------------------------------------------------------------------------
\* Types, and that ids and vertices stay within the graph.
RouterTypeOK ==
    /\ PopulateTypeOK
    /\ building \in {"waiting", "transfers", "waits", "lines", "rides", "ready", "failed"}
    /\ pending \subseteq CASE building \in {"transfers", "waits"} -> StopPtrs(db)
                           [] building \in {"lines", "failed"}    -> BusPtrs(db)
                           [] building = "rides"                  -> Item
                           [] OTHER                               -> {}
    /\ DOMAIN stop_to_transfer \subseteq StopPtrs(db)
    /\ Len(id_to_edge) = Len(graph.edges)
    /\ \A id \in DOMAIN graph.edges :
            {graph.edges[id].from, graph.edges[id].to} \subseteq 0 .. 2 * Len(db.stops) - 1
    /\ answer = Null \/ DOMAIN answer = {"start", "finish", "route"}

\* The two vertices of every stop are its own, and every edge of the graph says the
\* same as the item GetEdgesFromIds will show for it: a wait leads from the arrival
\* to the boarding vertex of its stop, a ride from boarding to arrival of another
\* stop, no two edges join the same vertices, and the times agree (router.cpp:10-24,
\* 74-94).
ItemsMatchEdges ==
    Ready =>
        /\ DOMAIN stop_to_transfer = GetStopsHolder(db)
        /\ \A s, t \in DOMAIN stop_to_transfer : s # t =>
            {stop_to_transfer[s].first, stop_to_transfer[s].second} \cap
            {stop_to_transfer[t].first, stop_to_transfer[t].second} = {}
        /\ \A id \in DOMAIN graph.edges :
            LET edge == graph.edges[id]
                item == id_to_edge[id]
            IN  /\ edge.weight = item.timedelta
                /\ IF item.bus = Null
                   THEN /\ item.from = item.to /\ item.timedelta = WaitTime
                        /\ edge.from = stop_to_transfer[item.from].second
                        /\ edge.to = stop_to_transfer[item.to].first
                   ELSE /\ item.from # item.to
                        /\ edge.from = stop_to_transfer[item.from].first
                        /\ edge.to = stop_to_transfer[item.to].second
                /\ id \in ListedEdges(graph)
        /\ \A i, j \in DOMAIN graph.edges :
            i # j => <<graph.edges[i].from, graph.edges[i].to>> # <<graph.edges[j].from, graph.edges[j].to>>
        /\ \A ptr \in GetStopsHolder(db) : \E id \in DOMAIN id_to_edge :
            id_to_edge[id].bus = Null /\ id_to_edge[id].from = ptr

\* Between two stops there is a ride in the graph if and only if a line goes from
\* the one to the other, and it takes the time of the fastest: the legs that the
\* continue leaves out (router.cpp:34-35) never make it any faster, because some
\* line, or the same one boarded later, is as fast.
RideTimesAreLeast ==
    Ready =>
        LET rides == Rides IN
        \A s, t \in GetStopsHolder(db) : s # t =>
            LET times == {ride.metres : ride \in {r \in rides : r.from = s /\ r.to = t}}
                items == {id \in DOMAIN id_to_edge :
                            id_to_edge[id].bus # Null /\ id_to_edge[id].from = s /\ id_to_edge[id].to = t}
            IN  /\ items = {} <=> times = {}
                /\ \A id \in items : id_to_edge[id].timedelta = Min(times)

\* The item is a ride of its bus: its span and its time belong to each other.
IsRide(item, rides) ==
    \E ride \in rides :
        /\ ride.from = item.from /\ ride.to = item.to /\ ride.bus = item.bus
        /\ ride.legs % SpanModulus = item.stop_count
        /\ ride.metres = item.timedelta

\* Every ride of the graph is one that its bus really makes, as far as a line does
\* not stop twice in a row and all its legs have a length: bus, span and time are
\* those of one ride, never of two of them (router.cpp:26-53, 74-86).
RidesAreReal ==
    Ready =>
        LET rides == Rides IN
        \A id \in DOMAIN id_to_edge :
            LET item == id_to_edge[id]
            IN  /\ item.bus # Null
                /\ \A k \in Legs(db.buses[item.bus]) :
                    LET stops == db.buses[item.bus].stops
                    IN  /\ stops[k] # stops[k + 1]
                        /\ Distance(db, stops[k], stops[k + 1]) > 0
                        /\ Distance(db, stops[k + 1], stops[k]) > 0
                => IsRide(item, rides)

\* The length of a line counts the leg between two stops in a row that are the same
\* (gtest-transport.cpp:75: 27400 m for A, B, B, C and back, with 100 m from B to
\* B); so every ride of the graph should have the time of the legs in its span.
EveryRideIsReal ==
    Ready =>
        \A id \in DOMAIN id_to_edge :
            id_to_edge[id].bus # Null => IsRide(id_to_edge[id], Rides)

\* A response is a journey from start to finish, wait and ride by turns, that takes
\* the time it says, and no journey by the lines of the catalogue is faster; there is
\* no response if and only if a stop is unknown or cannot be reached
\* (request_handler.h:59-69, router.cpp:106-119).
AnswerIsFastest ==
    answer # Null =>
        LET start  == SearchStop(db, answer.start)
            finish == SearchStop(db, answer.finish)
            items  == answer.route.edges
            Wait(i) == items[i].bus = Null
        IN  IF start = Null \/ finish = Null
            THEN answer.route = Null
            ELSE IF answer.route = Null
            THEN Fastest(start, finish) = Null
            ELSE /\ answer.route.timedelta = Fastest(start, finish)
                 /\ answer.route.timedelta = SumFunction([i \in DOMAIN items |-> items[i].timedelta])
                 /\ \A i \in DOMAIN items : Wait(i) <=> i % 2 = 1
                 /\ Len(items) % 2 = 0
                 /\ \A i \in 1 .. Len(items) - 1 : items[i].to = items[i + 1].from
                 /\ IF items = << >> THEN start = finish
                    ELSE items[1].from = start /\ Last(items).to = finish

\* Some line has a leg without a distance in either direction, other than a wait at
\* its first stop.
RoadUnknown ==
    \E line \in Lines : \E k \in DOMAIN line.stops :
        /\ \E i \in 1 .. k - 1 : line.stops[i] # line.stops[k]
        /\ Distance(db, line.stops[k - 1], line.stops[k]) = Null

\* Once the catalogue is populated the constructor returns, or throws if and only if
\* a road is unknown: a leg that the catalogue takes for a length of -1
\* (catalogue.cpp:58-63) is fatal here (router.cpp:38-42), a stop declared twice or
\* a wait at the first stop is not.
RouterEnds ==
    stage = "populated" ~> building = IF RoadUnknown THEN "failed" ELSE "ready"
=============================================================================
