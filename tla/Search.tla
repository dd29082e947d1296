------------------------------- MODULE Search -------------------------------
(***************************************************************************)
(* io::Search of src/json_reader.cpp: the stat requests of an input are    *)
(* answered one by one from the catalogue and the router that the same     *)
(* input has filled (ProcessTransport in run/gtest-transport.cpp).         *)
(*                                                                         *)
(* A stat request has an id and a type; Bus and Stop requests have a name, *)
(* Route requests from and to.  JsonReader lets no other types pass.       *)
(* Responses keep the keys of the JSON; Null stands for "not found".       *)
(***************************************************************************)
EXTENDS TransportRouter

CONSTANTS
    Stats,      \* the stat requests an input may hold, as sequences
    Palette,    \* the colors in the render settings of an input; none without such settings
    Place,      \* the coordinates of the stops, by name
    StayedAt    \* the distance ComputeDistance finds from a place to itself: "zero", or
                \* by its rounding "metres", or the arc cosine of more than 1, "nan"

\* All the requests.
StatRequest == UNION {Range(list) : list \in Stats}

ASSUME SearchAssumption ==
    /\ Stats \subseteq Seq(StatRequest)
    /\ DOMAIN Palette = Bases
    /\ DOMAIN Place = StopName
    /\ StayedAt \in [Range(Place) -> {"zero", "metres", "nan"}]
    /\ Null \notin [stop_count : Int, unique_stop_count : Int, route_length : Int]

VARIABLES
    stats,      \* the requests of reader.GetStats() the loop has come to
    nodes,      \* the responses so far
    searching   \* "running", "crashed" or "done"

searchVars == <<vars, stats, nodes, searching>>

SearchInit ==
    /\ Init
    /\ stats = << >> /\ nodes = << >>
    /\ searching = "running"

-----------------------------------------------------------------------------
\* The requests an input may hold behind those the loop has come to.
Upcoming ==
    {list[Len(stats) + 1] : list \in {l \in Stats : Len(stats) < Len(l) /\ IsPrefix(stats, l)}}

Running == building = "ready" /\ searching = "running"

Asked(type) == {request \in Upcoming : request.type = type}

\* The loop comes to the request.
Take(request) == stats' = Append(stats, request)

\* A response with the id of its request.
WithId(response, request) ==
    [key \in DOMAIN response \cup {"request_id"} |->
        IF key = "request_id" THEN request.id ELSE response[key]]

\* Respond that leaves out what was not found.
RespondIfFound(request, response) ==
    /\ nodes' = IF Null \in Range(response) THEN nodes
                ELSE Append(nodes, WithId(response, request))
    /\ UNCHANGED searching

Respond(request, response) ==
    /\ nodes' = Append(nodes, WithId(response, request))
    /\ UNCHANGED searching

\* GetBusLine runs past the end of a line without stops, or GetBusLineColor divides by
\* the size of an empty palette.
Crash ==
    /\ searching' = "crashed"
    /\ UNCHANGED nodes

\* RenderMap reads the lines and the stops that MapRenderer draws, and a color for
\* every line.
SearchMap ==
    /\ Running
    /\ \E request \in Asked("Map") :
        /\ Take(request)
        /\ IF \E name \in GetAllBusLines(db) :
                GetBusLineCrashes(db, name) \/ Palette[base] = << >>
           THEN Crash
           ELSE Respond(request, [map |-> [lines |-> GetAllBusLines(db), stops |-> GetAllStopStats(db)]])
        /\ UNCHANGED vars

\* BusLine::curvature: the length by the roads through that as the crow flies, or what
\* there is in place of a number.  The way back has the same distances.
Curvature(bus) ==
    LET Kind(from, to) == IF Place[from] = Place[to] THEN StayedAt[Place[from]] ELSE "metres"
        kinds == {Kind(db.stops[bus.stops[leg]], db.stops[bus.stops[leg + 1]]) : leg \in Legs(bus)}
    IN  IF "nan" \in kinds THEN "nan"
        ELSE IF "metres" \in kinds THEN "number"
        ELSE IF GetLength(db, bus) = 0 THEN "nan" ELSE "inf"

SearchBusStat ==
    /\ Running
    /\ \E request \in Asked("Bus") :
        /\ Take(request)
        /\ IF GetBusLineCrashes(db, request.name) THEN Crash
           ELSE LET found == SearchBus(db, request.name)
                IN  Respond(request,
                            IF found = Null THEN [bus |-> Null]
                            ELSE [bus       |-> GetBusLine(db, request.name),
                                  curvature |-> Curvature(db.buses[found])])
        /\ UNCHANGED vars

SearchStopStat ==
    /\ Running
    /\ \E request \in Asked("Stop") :
        /\ Take(request)
        /\ Respond(request, [buses |-> GetStop(db, request.name)])
        /\ UNCHANGED vars

\* An item of a response names the bus, or the stop of a wait; the model keeps both
\* ends of a ride.
Shown(item) ==
    [from       |-> db.stops[item.from],
     to         |-> db.stops[item.to],
     bus        |-> IF item.bus = Null THEN Null ELSE db.buses[item.bus].name,
     span_count |-> item.stop_count,
     time       |-> item.timedelta]

SearchRoute ==
    /\ Running
    /\ \E request \in Asked("Route") :
        /\ Take(request)
        /\ GetRoute(request.from, request.to)
        /\ LET route == answer'.route
           IN  Respond(request,
                       IF route = Null THEN [items |-> Null]
                       ELSE [items      |-> [i \in DOMAIN route.edges |-> Shown(route.edges[i])],
                             total_time |-> route.timedelta])

\* Search returns the array of all responses.
EndSearch ==
    /\ Running /\ stats \in Stats
    /\ searching' = "done"
    /\ UNCHANGED <<vars, stats, nodes>>

SearchNext == SearchMap \/ SearchBusStat \/ SearchStopStat \/ SearchRoute \/ EndSearch

Build == /\ (PopulateNext /\ UNCHANGED routerVars) \/ RouterNext
         /\ UNCHANGED <<stats, nodes, searching>>

SearchSpec ==
    SearchInit /\ [][Build \/ SearchNext]_searchVars
    /\ WF_searchVars(Build) /\ WF_searchVars(SearchNext)
-----------------------------------------------------------------------------
\* The responses to the requests of a type.
Answered(type) == {i \in DOMAIN nodes : stats[i].type = type}

\* The rides of all the routes given so far.
RidesShown ==
    UNION {{item \in Range(nodes[i].items) : item.bus # Null} :
           i \in {k \in Answered("Route") : nodes[k].items # Null}}

\* Route and Stop requests agree: a passenger boards and leaves a bus only at stops
\* whose own answer lists that bus.  The one is computed from the lines
\* (router.cpp:26-72), the other from stop_to_buses_ (catalogue.cpp:35-36), and
\* stops and buses may be declared twice.
RidesAreListed ==
    \A ride \in RidesShown : \A i \in Answered("Stop") :
        stats[i].name \in {ride.from, ride.to} => ride.bus \in nodes[i].buses

\* Route and Bus requests agree: no ride takes longer than its whole line there and
\* back, or spans more stops than a trip has, although the two read the distances
\* on their own (router.cpp:31-50, catalogue.cpp:56-74).
RidesFitTheirLine ==
    \A ride \in RidesShown : \A i \in Answered("Bus") :
        stats[i].name = ride.bus =>
            /\ nodes[i].bus # Null
            /\ \/ ride.time <= nodes[i].bus.route_length
               \/ \E leg \in Legs(db.buses[SearchBus(db, ride.bus)]) :
                    LET stops == db.buses[SearchBus(db, ride.bus)].stops
                    IN  LegLength(db, stops[leg], stops[leg + 1]) < 0
            /\ ride.span_count < nodes[i].bus.stop_count

\* The metres between two names, by what the input says.
DeclaredLeg(from, to) ==
    IF Declared(from, to) # {} THEN CHOOSE metres \in Declared(from, to) : TRUE
    ELSE IF Declared(to, from) # {} THEN CHOOSE metres \in Declared(to, from) : TRUE
    ELSE -1

\* A Bus request is answered with what the input declares for that bus last: a line
\* that returns counts its stops there and back, the one it turns at once, and each
\* leg by the road of its direction, if there is one.
BusAnswersAsDeclared ==
    \A i \in Answered("Bus") :
        LET name  == stats[i].name
            found == nodes[i].bus
        IN  IF \A k \in DOMAIN base.buses : base.buses[k].name # name
            THEN found = Null
            ELSE LET bus  == LastNamed(base.buses, name)
                     trip == IF bus.is_roundtrip THEN bus.stops
                             ELSE bus.stops \o Tail(Reverse(bus.stops))
                 IN  /\ found.stop_count = Len(trip)
                     /\ found.unique_stop_count = Cardinality(Range(bus.stops))
                     /\ (\A stop \in Range(trip) : DeclaredOnce(stop)) =>
                            found.route_length =
                                SumFunction([leg \in 1 .. Len(trip) - 1 |->
                                                DeclaredLeg(trip[leg], trip[leg + 1])])

\* Whether the input declares the line without stops, when it does so last.
DeclaredEmpty(name) ==
    /\ \E i \in DOMAIN base.buses : base.buses[i].name = name
    /\ LastNamed(base.buses, name).stops = << >>

\* What Search cannot answer: a line without stops, or a map of one, or of any line
\* when there is no color to draw it in.
EndsSearch(request) ==
    \/ request.type = "Bus" /\ DeclaredEmpty(request.name)
    \/ /\ request.type = "Map"
       /\ \E bus \in Range(base.buses) : DeclaredEmpty(bus.name) \/ Palette[base] = << >>

\* Once there is a router every request of the input is answered, in the order of
\* the requests, and whatever was found or not; unless one asks for a line without
\* stops, or for a map of lines by an input without a palette.  Search gets to the
\* first such request, where it runs past the end of the line's stops or divides by
\* zero, and only there (json_reader.cpp:256-293, catalogue.cpp:66, map_renderer.h:114).
RequestsAreAnswered ==
    building = "ready" ~>
        \/ /\ searching = "done" /\ stats \in Stats
           /\ [i \in DOMAIN nodes |-> nodes[i].request_id] = [i \in DOMAIN stats |-> stats[i].id]
           /\ \A request \in Range(stats) : ~EndsSearch(request)
        \/ /\ searching = "crashed" /\ EndsSearch(Last(stats))
           /\ \A request \in Range(Front(stats)) : ~EndsSearch(request)
-----------------------------------------------------------------------------
\* "LoadJSON(json_path + ".out.json")" (gtest-transport.cpp:330): what is printed for an
\* input is JSON, which has no word for a number that is infinite or none (BuiltIsLoaded).
ResponsesAreJson ==
    searching = "done" =>
        \A i \in Answered("Bus") : nodes[i].bus # Null => nodes[i].curvature = "number"
=============================================================================
