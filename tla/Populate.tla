------------------------------ MODULE Populate ------------------------------
(***************************************************************************)
(* io::Populate of src/json_reader.cpp: the base requests of a JSON input  *)
(* become a Catalogue, in three loops over the stops, over their           *)
(* road_distances and over the buses, one step per call of the catalogue.  *)
(*                                                                         *)
(* The input, base, is what JsonReader::ParseBases has sorted out:         *)
(*   base.stops: sequence of [name, road_distances: names -> metres]       *)
(*   base.buses: sequence of [name, stops: names, is_roundtrip]            *)
(***************************************************************************)
EXTENDS Catalogue

CONSTANT Bases     \* the inputs

IsStopRequest(request) ==
    /\ request.name \in StopName
    /\ DOMAIN request.road_distances \subseteq StopName
    /\ \A name \in DOMAIN request.road_distances : request.road_distances[name] \in Int

IsBusRequest(request) ==
    /\ request.name \in BusName
    /\ request.stops \in Seq(StopName)
    /\ request.is_roundtrip \in BOOLEAN

\* What the As...() of the loops find in a request; others throw before they reach
\* the catalogue, and more keys do no harm.
IsBase(input) ==
    /\ Len(input.stops) \in Nat /\ DOMAIN input.stops = 1 .. Len(input.stops)
    /\ \A i \in DOMAIN input.stops : IsStopRequest(input.stops[i])
    /\ Len(input.buses) \in Nat /\ DOMAIN input.buses = 1 .. Len(input.buses)
    /\ \A i \in DOMAIN input.buses : IsBusRequest(input.buses[i])

ASSUME PopulateAssumption ==
    /\ Null \notin Int
    /\ \A input \in Bases : IsBase(input)

VARIABLES
    base,       \* reader.GetStops() and reader.GetBuses()
    db,         \* the catalogue
    stage,      \* which loop is running, "populated", or "failed"
    index,      \* the request the loop is at
    undeclared  \* names of its road_distances still to be passed on

populateVars == <<base, db, stage, index, undeclared>>

Requests == IF stage = "buses" THEN base.buses ELSE base.stops

PopulateInit ==
    /\ base \in Bases
    /\ db = EmptyCatalogue
    /\ stage = "stops"
    /\ index = 1
    /\ undeclared = {}

NextStop ==
    /\ stage = "stops" /\ index <= Len(base.stops)
    /\ db' = AddStop(db, base.stops[index].name)
    /\ index' = index + 1
    /\ UNCHANGED <<base, stage, undeclared>>

\* The loop over road_distances follows the order of a std::map; the model takes
\* the names in any order.
NextDistance ==
    /\ stage = "distances" /\ undeclared # {}
    /\ \E name \in undeclared :
        /\ db' = MakeAdjacent(db, SearchStop(db, base.stops[index].name), SearchStop(db, name),
                              base.stops[index].road_distances[name])
        /\ undeclared' = undeclared \ {name}
    /\ UNCHANGED <<base, stage, index>>

NamesAt(i) == IF i <= Len(base.stops) THEN DOMAIN base.stops[i].road_distances ELSE {}

NextDistances ==
    /\ stage = "distances" /\ undeclared = {} /\ index <= Len(base.stops)
    /\ index' = index + 1
    /\ undeclared' = NamesAt(index + 1)
    /\ UNCHANGED <<base, db, stage>>

BusAt(i) ==
    LET request == base.buses[i]
    IN  [name         |-> request.name,
         stops        |-> [k \in DOMAIN request.stops |-> SearchStop(db, request.stops[k])],
         is_roundtrip |-> request.is_roundtrip]

\* An exception leaves Populate, and the program.
NextBus ==
    /\ stage = "buses" /\ index <= Len(base.buses)
    /\ db' = AddBus(db, BusAt(index))
    /\ IF AddBusThrows(BusAt(index))
       THEN stage' = "failed" /\ index' = index
       ELSE stage' = stage /\ index' = index + 1
    /\ UNCHANGED <<base, undeclared>>

NextLoop ==
    /\ stage \in {"stops", "distances", "buses"}
    /\ index = Len(Requests) + 1 /\ undeclared = {}
    /\ stage' = CASE stage = "stops"     -> "distances"
                  [] stage = "distances" -> "buses"
                  [] stage = "buses"     -> "populated"
    /\ index' = 1
    /\ undeclared' = IF stage = "stops" THEN NamesAt(1) ELSE {}
    /\ UNCHANGED <<base, db>>

PopulateNext == NextStop \/ NextDistance \/ NextDistances \/ NextBus \/ NextLoop

PopulateSpec == PopulateInit /\ [][PopulateNext]_populateVars /\ WF_populateVars(PopulateNext)
-----------------------------------------------------------------------------
StopPtr == Nat \ {0}
BusPtr  == Nat \ {0}

Bus     == [name : BusName, stops : Seq(StopPtr \cup {Null}), is_roundtrip : BOOLEAN]

\* Types, and that every pointer the catalogue holds is one of its own elements.
PopulateTypeOK ==
    /\ db.stops \in Seq(StopName) /\ db.buses \in Seq(Bus)
    /\ db.stop_names \in [StopName -> StopPtr \cup {Null}]
    /\ db.bus_names \in [BusName -> BusPtr \cup {Null}]
    /\ db.stop_to_buses \in [StopPtrs(db) -> SUBSET BusPtrs(db)]
    /\ DOMAIN db.stops_to_distance \subseteq
            (StopPtrs(db) \cup {Null}) \X (StopPtrs(db) \cup {Null})
    /\ \A pair \in DOMAIN db.stops_to_distance : db.stops_to_distance[pair] \in Int
    /\ GetStopsHolder(db) \subseteq StopPtrs(db)
    /\ GetBusesHolder(db) \subseteq BusPtrs(db)
    /\ stage \in {"waiting", "stops", "distances", "buses", "populated", "failed"}
    /\ index \in Nat \ {0}
    /\ undeclared \subseteq StopName

\* No bus ever holds a stop that has lost its name to a later one: what lets
\* Router::FillBusEdges look every stop of every bus up in a table it filled from
\* the names (router.cpp:77-78), although a name may be declared twice.
BusesUseNamedStops ==
    \A ptr \in BusPtrs(db) :
        \A i \in DOMAIN db.buses[ptr].stops :
            db.buses[ptr].stops[i] \in GetStopsHolder(db) \cup {Null}

\* The last request of that name: it takes over from the earlier ones.
LastNamed(requests, name) ==
    requests[Max({i \in DOMAIN requests : requests[i].name = name})]

\* What the input says of the distance from one name to another.
Declared(from, to) ==
    {base.stops[i].road_distances[to] :
        i \in {j \in DOMAIN base.stops :
                base.stops[j].name = from /\ to \in DOMAIN base.stops[j].road_distances}}

DeclaredOnce(name) ==
    \A i, j \in DOMAIN base.stops :
        base.stops[i].name = name /\ base.stops[j].name = name => i = j

\* The distance the readers find is the declared one, the other direction standing
\* in only where this one was not declared.  MakeAdjacent leaves symmetric
\* distances out (catalogue.cpp:23-25) without harm, as long as neither stop is
\* declared twice; otherwise the distance is at least one that was declared.
DistancesAsDeclared ==
    stage \in {"buses", "populated"} =>
        \A s, t \in GetStopsHolder(db) :
            LET from == db.stops[s]
                to   == db.stops[t]
                asked    == Declared(from, to)
                reversed == Declared(to, from)
                found    == Distance(db, s, t)
            IN  /\ found = Null <=> asked \cup reversed = {}
                /\ found # Null => found \in asked \cup reversed
                /\ DeclaredOnce(from) /\ DeclaredOnce(to) /\ found # Null =>
                        found \in (IF asked # {} THEN asked ELSE reversed)

\* Buses of the input up to the i-th that name the stop.
BusesNaming(stop, i) ==
    {base.buses[k].name : k \in {j \in 1 .. i :
        \E n \in DOMAIN base.buses[j].stops : base.buses[j].stops[n] = stop}}

\* A stop answers with exactly the buses declared to call there, also where a bus
\* was declared twice, and GetAllStopStats has exactly the stops with an answer.
\* While Populate runs, and after it failed (catalogue.cpp:30-37), this holds of
\* the buses added so far, the failed one included or not.
StopsListTheirBuses ==
    stage \in {"buses", "populated", "failed"} =>
        LET added == IF stage = "populated" THEN Len(base.buses) ELSE index - 1
        IN  /\ \A ptr \in GetStopsHolder(db) :
                LET name   == db.stops[ptr]
                    listed == GetStop(db, name)
                IN  /\ BusesNaming(name, added) \subseteq listed
                    /\ listed \subseteq
                         BusesNaming(name, IF stage = "failed" THEN added + 1 ELSE added)
            /\ GetAllStopStats(db) =
                {db.stops[ptr] : ptr \in {p \in GetStopsHolder(db) : GetStop(db, db.stops[p]) # {}}}
=============================================================================
