-------------------------- MODULE PopulateInvariant --------------------------
(***************************************************************************)
(* The inductive invariant behind the safety properties of Populate: what  *)
(* its three loops have made of the requests at every step in between.     *)
(***************************************************************************)
EXTENDS Populate

\* The loop variables: what is left to do belongs to the request the loop is at.
LoopsFollowRequests ==
    /\ stage # "waiting"
    /\ stage \in {"stops", "distances"} => index <= Len(base.stops) + 1
    /\ stage = "buses" => index <= Len(base.buses) + 1
    /\ stage = "failed" => index <= Len(base.buses)
    /\ undeclared \subseteq IF stage = "distances" THEN NamesAt(index) ELSE {}

\* stops_ holds the names of the requests passed, in their order.
StopsFollowRequests ==
    /\ Len(db.stops) = IF stage = "stops" THEN index - 1 ELSE Len(base.stops)
    /\ \A ptr \in StopPtrs(db) : db.stops[ptr] = base.stops[ptr].name

\* A name leads to the last stop that bears it.
NamesLeadToLastStops ==
    \A name \in StopName :
        LET named == db.stop_names[name]
        IN  /\ named # Null => named \in StopPtrs(db) /\ db.stops[named] = name
            /\ \A ptr \in StopPtrs(db) : db.stops[ptr] = name => named # Null /\ ptr <= named

NamesLeadToLastBuses ==
    \A name \in BusName :
        LET named == db.bus_names[name]
        IN  /\ named # Null => named \in BusPtrs(db) /\ db.buses[named].name = name
            /\ \A ptr \in BusPtrs(db) : db.buses[ptr].name = name => named # Null /\ ptr <= named

\* buses_ holds the requests passed, with the stops their names lead to.
BusesFollowRequests ==
    /\ Len(db.buses) = CASE stage = "buses"     -> index - 1
                         [] stage = "failed"    -> index
                         [] stage = "populated" -> Len(base.buses)
                         [] OTHER               -> 0
    /\ \A ptr \in BusPtrs(db) : db.buses[ptr] = BusAt(ptr)

\* AddBus has returned from this bus.
Returned(ptr) == stage = "failed" => ptr < index

\* The buses listed at a stop call there; and every bus AddBus has returned from is
\* listed at each of its stops, itself or another one of its name.
ListsFollowBuses ==
    /\ \A stop \in StopPtrs(db) : \A ptr \in db.stop_to_buses[stop] :
            stop \in Range(db.buses[ptr].stops)
    /\ \A ptr \in BusPtrs(db) : Returned(ptr) =>
            \A n \in DOMAIN db.buses[ptr].stops :
                LET stop == db.buses[ptr].stops[n]
                IN  /\ stop # Null
                    /\ \E listed \in db.stop_to_buses[stop] :
                            db.buses[listed].name = db.buses[ptr].name
    /\ stage = "failed" => AddBusThrows(db.buses[index])

\* The name is among the road_distances of the i-th request, and passed on.
PassedOn(i, name) ==
    /\ name \in DOMAIN base.stops[i].road_distances
    /\ stage # "stops"
    /\ stage = "distances" => i < index \/ (i = index /\ name \notin undeclared)

\* What MakeAdjacent has been given for the distance from one name to another.
Given(from, to) ==
    {base.stops[i].road_distances[to] :
        i \in {j \in DOMAIN base.stops : base.stops[j].name = from /\ PassedOn(j, to)}}

\* A stored distance is one that was given; one that was given is stored, or the
\* other direction is; and where neither stop is declared twice the other direction
\* has the same value then.
DistancesFollowRequests ==
    \A s, t \in GetStopsHolder(db) :
        LET from  == db.stops[s]
            to    == db.stops[t]
            known == DOMAIN db.stops_to_distance
        IN  /\ <<s, t>> \in known => db.stops_to_distance[<<s, t>>] \in Given(from, to)
            /\ Given(from, to) # {} => <<s, t>> \in known \/ <<t, s>> \in known
            /\ /\ Given(from, to) # {} /\ <<s, t>> \notin known
               /\ DeclaredOnce(from) /\ DeclaredOnce(to)
               => db.stops_to_distance[<<t, s>>] \in Given(from, to)

PopulateInvariant ==
    /\ IsBase(base)
    /\ DOMAIN db = DOMAIN EmptyCatalogue
    /\ PopulateTypeOK
    /\ LoopsFollowRequests
    /\ StopsFollowRequests
    /\ NamesLeadToLastStops
    /\ NamesLeadToLastBuses
    /\ BusesFollowRequests
    /\ BusesUseNamedStops
    /\ ListsFollowBuses
    /\ stage = "stops" => db.stops_to_distance = EmptyCatalogue.stops_to_distance
    /\ stage # "stops" => DistancesFollowRequests
=============================================================================
