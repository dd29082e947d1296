----------------------------- MODULE Catalogue -----------------------------
(***************************************************************************)
(* transport::Catalogue of src/catalogue.h and src/catalogue.cpp, as a     *)
(* value with the six members of the class.                                *)
(*                                                                         *)
(* AddStop and AddBus make a new shared_ptr for every element they append  *)
(* to stops_ and buses_, so a StopPtr or BusPtr is the position of its     *)
(* element; Null is nullptr.  Coordinates are left out.                    *)
(***************************************************************************)
EXTENDS Integers, Sequences, FiniteSetsExt, Functions

CONSTANTS StopName, BusName, Null

EmptyCatalogue ==
    [stops             |-> << >>,                           \* stops_: their names
     buses             |-> << >>,                           \* buses_
     stop_names        |-> [name \in StopName |-> Null],    \* stop_names_
     bus_names         |-> [name \in BusName |-> Null],     \* bus_names_
     stop_to_buses     |-> << >>,                           \* stop_to_buses_, by StopPtr
     stops_to_distance |-> [pair \in {} |-> 0]]             \* stops_to_distance_

StopPtrs(db) == DOMAIN db.stops
BusPtrs(db)  == DOMAIN db.buses

-----------------------------------------------------------------------------
\* Lookups.

\* The first stop of that name in stops_.
FindByName(db, name) ==
    LET named == {ptr \in StopPtrs(db) : db.stops[ptr] = name}
    IN  IF named = {} THEN Null ELSE Min(named)

SearchStop(db, name) == IF name \in DOMAIN db.stop_names THEN db.stop_names[name] ELSE Null
SearchBus(db, name)  == IF name \in DOMAIN db.bus_names THEN db.bus_names[name] ELSE Null

\* GetStopsHolder and GetBusesHolder: the stops and buses the names lead to.
GetStopsHolder(db) == {db.stop_names[name] : name \in StopName} \ {Null}
GetBusesHolder(db) == {db.bus_names[name] : name \in BusName} \ {Null}

\* The distance between two stops as both of its readers take it (GetBusLine and
\* Router::CreateEdgesFromBusLines): as given, or else as given the other way.
Distance(db, stop, next_stop) ==
    IF <<stop, next_stop>> \in DOMAIN db.stops_to_distance
    THEN db.stops_to_distance[<<stop, next_stop>>]
    ELSE IF <<next_stop, stop>> \in DOMAIN db.stops_to_distance
         THEN db.stops_to_distance[<<next_stop, stop>>]
         ELSE Null

-----------------------------------------------------------------------------
\* Updates.

\* A second stop of the same name takes over the name; the first one stays in
\* stops_ and in stop_to_buses_.
AddStop(db, name) ==
    [db EXCEPT !.stops = Append(@, name),
               !.stop_names[name] = Len(db.stops) + 1,
               !.stop_to_buses = Append(@, {})]

\* MakeAdjacent that takes any distance the other way round for the same.
MakeAdjacentOnce(db, stop, adjacent_stop, metres) ==
    IF <<adjacent_stop, stop>> \in DOMAIN db.stops_to_distance
    THEN db
    ELSE [db EXCEPT !.stops_to_distance =
            [pair \in DOMAIN @ \cup {<<stop, adjacent_stop>>} |->
                IF pair = <<stop, adjacent_stop>> THEN metres ELSE @[pair]]]

\* A distance equal to the one already given the other way round is not stored.
\* Either stop may be nullptr: a name of road_distances nobody declared.
MakeAdjacent(db, stop, adjacent_stop, metres) ==
    IF /\ <<adjacent_stop, stop>> \in DOMAIN db.stops_to_distance
       /\ db.stops_to_distance[<<adjacent_stop, stop>>] = metres
    THEN db
    ELSE [db EXCEPT !.stops_to_distance =
            [pair \in DOMAIN @ \cup {<<stop, adjacent_stop>>} |->
                IF pair = <<stop, adjacent_stop>> THEN metres ELSE @[pair]]]

\* stop_to_buses_.at(nullptr) throws std::out_of_range.
AddBusThrows(bus) == \E i \in DOMAIN bus.stops : bus.stops[i] = Null

\* The stops AddBus reaches before it returns or throws.
StopsReached(bus) ==
    {bus.stops[i] : i \in {j \in DOMAIN bus.stops : \A k \in 1 .. j : bus.stops[k] # Null}}

\* A set of BusPtr orders its elements by name: where a bus of that name is
\* listed already, insert does nothing.
InsertBus(db, bus_ptrs, bus_ptr, name) ==
    IF \E other \in bus_ptrs : db.buses[other].name = name
    THEN bus_ptrs
    ELSE bus_ptrs \cup {bus_ptr}

\* AddBus that leaves out the stop the line returns to or ends at.
AddBusWithoutLastStop(db, bus) ==
    [db EXCEPT !.buses = Append(@, bus),
               !.bus_names[bus.name] = Len(db.buses) + 1,
               !.stop_to_buses =
                  [stop \in DOMAIN @ |->
                      IF stop \in StopsReached([bus EXCEPT !.stops = SubSeq(@, 1, Len(@) - 1)])
                      THEN InsertBus(db, @[stop], Len(db.buses) + 1, bus.name)
                      ELSE @[stop]]]

\* The bus is stored and named before its stops are looked at: an exception
\* leaves it there, listed at the stops before the unknown one only.
AddBus(db, bus) ==
    [db EXCEPT !.buses = Append(@, bus),
               !.bus_names[bus.name] = Len(db.buses) + 1,
               !.stop_to_buses =
                  [stop \in DOMAIN @ |->
                      IF stop \in StopsReached(bus)
                      THEN InsertBus(db, @[stop], Len(db.buses) + 1, bus.name)
                      ELSE @[stop]]]

-----------------------------------------------------------------------------
\* Queries.

Legs(bus) == 1 .. Len(bus.stops) - 1

\* compute_bus_line: a leg without a distance takes a metre off the length.
LegLength(db, stop, next_stop) ==
    LET distance == Distance(db, stop, next_stop)
    IN  IF distance = Null THEN -1 ELSE distance

\* GetLength that does not ride back.
GetLengthOneWay(db, bus) ==
    SumFunction([leg \in Legs(bus) |-> LegLength(db, bus.stops[leg], bus.stops[leg + 1])])

\* BusLine::length
GetLength(db, bus) ==
    SumFunction([leg \in Legs(bus) |->
        LegLength(db, bus.stops[leg], bus.stops[leg + 1])
        + IF bus.is_roundtrip THEN 0 ELSE LegLength(db, bus.stops[leg + 1], bus.stops[leg])])

\* The loop of GetBusLine compares with end() only behind the first stop.
GetBusLineCrashes(db, name) ==
    SearchBus(db, name) # Null /\ db.buses[SearchBus(db, name)].stops = << >>

GetBusLine(db, name) ==
    IF SearchBus(db, name) = Null
    THEN Null
    ELSE LET bus == db.buses[SearchBus(db, name)]
         IN  [stop_count        |-> IF bus.is_roundtrip THEN Len(bus.stops)
                                    ELSE 2 * Len(bus.stops) - 1,
              unique_stop_count |-> Cardinality(Range(bus.stops)),
              route_length      |-> GetLength(db, bus)]

\* StopStat::unique_buses of a stop, by name.
GetStop(db, name) ==
    IF SearchStop(db, name) = Null
    THEN Null
    ELSE {db.buses[bus_ptr].name : bus_ptr \in db.stop_to_buses[SearchStop(db, name)]}

\* The names of the stops GetAllStopStats returns: those with a bus.
GetAllStopStats(db) ==
    {db.stops[ptr] : ptr \in {p \in StopPtrs(db) : db.stop_to_buses[p] # {}}}

\* The names of the buses GetAllBusLines returns: the keys of its set.
GetAllBusLines(db) == {db.buses[ptr].name : ptr \in BusPtrs(db)}
=============================================================================
