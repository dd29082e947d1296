----------------------- MODULE TransportRouterInvariant -----------------------
(***************************************************************************)
(* The inductive invariant behind the safety properties of                 *)
(* TransportRouter: what the loops of the constructor have made of the     *)
(* catalogue at every step in between.                                     *)
(***************************************************************************)
EXTENDS TransportRouter, PopulateInvariant

\* The edge the router adds for an item.
EdgeOf(item) == IF item.bus = Null THEN WaitEdge(item) ELSE RideEdge(item)

\* The edges collected from a bus, in any order.
LineItems(bus_ptr) ==
    UNION {UNION {{LineEdge(stops, bus_ptr, from, to) : to \in Destinations(stops, from)} :
                    from \in DOMAIN stops} :
            stops \in Range(Directions(db.buses[bus_ptr]))}

ItemsOfLines(bus_ptrs) == UNION {LineItems(ptr) : ptr \in bus_ptrs}

WaitsAt(items) == {item.from : item \in {i \in items : i.bus = Null}}

RidesOf(items) == {item \in items : item.bus # Null}

\* The loops run one after the other once the catalogue is populated, each over what
\* it is about.
LoopsFollowCatalogue ==
    /\ building \in {"waiting", "transfers", "waits", "lines", "rides", "ready", "failed"}
    /\ building # "waiting" => stage = "populated"
    /\ building = "waiting" =>
            stop_to_transfer = [ptr \in {} |-> 0] /\ graph = EmptyGraph(0) /\ answer = Null
    /\ building \in {"waiting", "transfers"} => id_to_edge = << >>
    /\ building \notin {"lines", "failed"} => edges = << >>
    /\ DOMAIN graph.incidence_lists =
            IF building = "waiting" THEN {} ELSE Vertices(2 * Len(db.stops))
    /\ building = "waits" => pending \subseteq GetStopsHolder(db)
    /\ building \in {"lines", "failed"} => pending \subseteq GetBusesHolder(db)
    /\ building \in {"waiting", "ready"} => pending = {}
    /\ answer = Null \/ DOMAIN answer = {"start", "finish", "route"}

\* The stops with transfers are those passed by the first loop, numbered in the order
\* in which it passed them.
TransfersFollowStops ==
    /\ building = "transfers" =>
        pending = GetStopsHolder(db) \ DOMAIN stop_to_transfer
    /\ building \notin {"waiting", "transfers"} => DOMAIN stop_to_transfer = GetStopsHolder(db)
    /\ DOMAIN stop_to_transfer \subseteq GetStopsHolder(db)
    /\ \A stop \in DOMAIN stop_to_transfer :
            \E k \in 0 .. Cardinality(DOMAIN stop_to_transfer) - 1 :
                stop_to_transfer[stop] = Transfer(2 * k)
    /\ \A s, t \in DOMAIN stop_to_transfer : stop_to_transfer[s] = stop_to_transfer[t] => s = t

\* Edges and items are of the same stops, and no two of them are of the same two.
ItemsFollowEdges ==
    /\ id_to_edge \in Seq(Item)
    /\ graph.edges = [id \in DOMAIN id_to_edge |-> EdgeOf(id_to_edge[id])]
    /\ \A id \in DOMAIN id_to_edge :
        LET item == id_to_edge[id]
        IN  /\ item.from \in GetStopsHolder(db) /\ item.to \in GetStopsHolder(db)
            /\ item.bus = Null <=> item.from = item.to
            /\ item.bus = Null => item.timedelta = WaitTime
    /\ \A i, j \in DOMAIN id_to_edge : SamePair(id_to_edge[i], id_to_edge[j]) => i = j

\* A wait at every stop the second loop has passed, before there are rides.
WaitsFollowStops ==
    /\ building \in {"waits", "lines"} => RidesOf(Range(id_to_edge)) = {}
    /\ building = "waits" => WaitsAt(Range(id_to_edge)) = GetStopsHolder(db) \ pending
    /\ building \notin {"waiting", "transfers", "waits"} =>
            WaitsAt(Range(id_to_edge)) = GetStopsHolder(db)

\* What has been collected is the edges of the buses passed, none of which threw.
CollectedFollowsLines ==
    building = "lines" =>
        /\ edges \in Seq(Item)
        /\ Range(edges) = ItemsOfLines(GetBusesHolder(db) \ pending)
        /\ \A ptr \in GetBusesHolder(db) \ pending :
            \A stops \in Range(Directions(db.buses[ptr])) : ~LineThrows(stops)

\* For any two stops a line goes from the one to the other, one of the fastest rides
\* is kept, and only one.
RidesAreFastest ==
    building \in {"rides", "ready"} =>
        LET rides == pending \cup RidesOf(Range(id_to_edge))
            lines == ItemsOfLines(GetBusesHolder(db))
        IN  /\ rides \subseteq lines
            /\ \A ride \in rides : \A item \in lines :
                    SamePair(ride, item) => ride.timedelta <= item.timedelta
            /\ \A item \in lines : \E ride \in rides : SamePair(ride, item)
            /\ \A ride, other \in rides : SamePair(ride, other) => ride = other
            /\ pending \cap Range(id_to_edge) = {}
            /\ \A ptr \in GetBusesHolder(db) :
                \A stops \in Range(Directions(db.buses[ptr])) : ~LineThrows(stops)

RouterInvariant ==
    /\ PopulateInvariant
    /\ LoopsFollowCatalogue
    /\ TransfersFollowStops
    /\ ItemsFollowEdges
    /\ WaitsFollowStops
    /\ CollectedFollowsLines
    /\ RidesAreFastest

\* No request declares a road shorter than nothing; the code takes any int.
NoNegativeRoads ==
    \A input \in Bases : \A i \in DOMAIN input.stops :
        \A name \in DOMAIN input.stops[i].road_distances : input.stops[i].road_distances[name] >= 0
=============================================================================
