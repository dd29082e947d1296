---------------------------- MODULE Persistence ----------------------------
(***************************************************************************)
(* What Bufferiser::Serialize of src/serialization.cpp makes of a          *)
(* catalogue, its router and the render settings: the protobuf message     *)
(* DataBase, a record.  The repeated fields of the catalogue are filled    *)
(* from unordered maps, so each is a set or a function here.  Coordinates, *)
(* waiting times and velocities are copied and left out.                   *)
(***************************************************************************)
EXTENDS TransportRouter, RenderSettings

\* GetStopId that counts the stops of stop_names_, as Catalogue::GetStop(id) does.
GetRankAmongNamed(name) ==
    Cardinality({ptr \in GetStopsHolder(db) : ptr < SearchStop(db, name)})

\* GetStopId: the position in stops_ of the first stop of that name.
GetStopId(name) == FindByName(db, name) - 1

\* Both ids are those of the first stop; no stop that has a name is nullptr.
ConvertAdjacent(adjacent_stops) ==
    [id          |-> GetStopId(db.stops[adjacent_stops[1]]),
     adjacent_id |-> GetStopId(db.stops[adjacent_stops[1]]),
     distance    |-> db.stops_to_distance[adjacent_stops]]

ConvertBus(bus) ==
    [name         |-> bus.name,
     stop_id      |-> [i \in DOMAIN bus.stops |-> GetStopId(db.stops[bus.stops[i]])],
     is_roundtrip |-> bus.is_roundtrip]

ConvertGraph == [edge |-> graph.edges, incidence_list |-> graph.incidence_lists]

Message(settings_of_renderer) ==
    [stop           |-> {GetStopId(db.stops[ptr]) : ptr \in GetStopsHolder(db)},
     adjacent_stops |-> [pair \in DOMAIN db.stops_to_distance |-> ConvertAdjacent(pair)],
     bus            |-> {ConvertBus(db.buses[ptr]) : ptr \in GetBusesHolder(db)},
     map_settings   |-> ConvertSettings(settings_of_renderer),
     graph          |-> ConvertGraph]

\* What ParseFromIstream makes of an empty file, and of none.
EmptyMessage ==
    [stop           |-> {},
     adjacent_stops |-> << >>,
     bus            |-> {},
     map_settings   |-> DefaultMessage,
     graph          |-> [edge |-> << >>, incidence_list |-> << >>]]
=============================================================================
