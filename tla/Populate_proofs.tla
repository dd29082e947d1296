-------------------------- MODULE Populate_proofs --------------------------
(***************************************************************************)
(* Proofs about Populate for every input: any number of requests, any      *)
(* names, and any distances.                                               *)
(***************************************************************************)
EXTENDS PopulateInvariant, TLAPS

-----------------------------------------------------------------------------
(* What the three updates of the catalogue make of its members. *)

\* AddStop appends a stop without buses and takes over the name
\* (catalogue.cpp:10-16).
LEMMA AddStopFields ==
    ASSUME NEW d, DOMAIN d = DOMAIN EmptyCatalogue, NEW name
    PROVE  LET new == AddStop(d, name)
           IN  /\ DOMAIN new = DOMAIN EmptyCatalogue
               /\ new.stops = Append(d.stops, name)
               /\ new.stop_names = [d.stop_names EXCEPT ![name] = Len(d.stops) + 1]
               /\ new.stop_to_buses = Append(d.stop_to_buses, {})
               /\ new.buses = d.buses
               /\ new.bus_names = d.bus_names
               /\ new.stops_to_distance = d.stops_to_distance
  BY DEF AddStop, EmptyCatalogue

\* AddBus appends the bus, takes over its name and lists it at the stops it reaches
\* (catalogue.cpp:30-37).
LEMMA AddBusFields ==
    ASSUME NEW d, DOMAIN d = DOMAIN EmptyCatalogue, NEW bus
    PROVE  LET new == AddBus(d, bus)
           IN  /\ DOMAIN new = DOMAIN EmptyCatalogue
               /\ new.stops = d.stops
               /\ new.stop_names = d.stop_names
               /\ new.stop_to_buses = [stop \in DOMAIN d.stop_to_buses |->
                      IF stop \in StopsReached(bus)
                      THEN InsertBus(d, d.stop_to_buses[stop], Len(d.buses) + 1, bus.name)
                      ELSE d.stop_to_buses[stop]]
               /\ new.buses = Append(d.buses, bus)
               /\ new.bus_names = [d.bus_names EXCEPT ![bus.name] = Len(d.buses) + 1]
               /\ new.stops_to_distance = d.stops_to_distance
  BY DEF AddBus, EmptyCatalogue

\* MakeAdjacent stores the distance, or finds it the other way round
\* (catalogue.cpp:18-27).
LEMMA MakeAdjacentFields ==
    ASSUME NEW d, DOMAIN d = DOMAIN EmptyCatalogue, NEW s, NEW t, NEW metres
    PROVE  LET new   == MakeAdjacent(d, s, t, metres)
               known == DOMAIN d.stops_to_distance
               old   == d.stops_to_distance
           IN  /\ DOMAIN new = DOMAIN EmptyCatalogue
               /\ new.stops = d.stops
               /\ new.stop_names = d.stop_names
               /\ new.stop_to_buses = d.stop_to_buses
               /\ new.buses = d.buses
               /\ new.bus_names = d.bus_names
               /\ \/ /\ <<t, s>> \in known /\ old[<<t, s>>] = metres
                     /\ new.stops_to_distance = old
                  \/ /\ DOMAIN new.stops_to_distance = known \cup {<<s, t>>}
                     /\ new.stops_to_distance[<<s, t>>] = metres
                     /\ \A pair \in known \ {<<s, t>>} : new.stops_to_distance[pair] = old[pair]
  BY DEF MakeAdjacent, EmptyCatalogue

\* A function on 1 .. n is a sequence of that length, and Append adds one element.
LEMMA AppendToFunction ==
    ASSUME NEW n \in Nat, NEW S, NEW f \in [1 .. n -> S], NEW x, NEW T, S \subseteq T, x \in T
    PROVE  /\ Append(f, x) \in [1 .. n + 1 -> T]
           /\ \A i \in 1 .. n : Append(f, x)[i] = f[i]
           /\ Append(f, x)[n + 1] = x
  <1>1. f \in Seq(T) /\ Len(f) = n
    OBVIOUS
  <1>2. Append(f, x) \in Seq(T) /\ Len(Append(f, x)) = n + 1
    BY <1>1
  <1>3. /\ \A i \in 1 .. n : Append(f, x)[i] = f[i]
        /\ Append(f, x)[n + 1] = x
    BY <1>1
  <1>4. \A g \in Seq(T) : g \in [1 .. Len(g) -> T]
    OBVIOUS
  <1>5. Append(f, x) \in [1 .. n + 1 -> T]
    BY <1>2, <1>4
  <1> QED
    BY <1>3, <1>5

-----------------------------------------------------------------------------
(* The invariant, step by step. *)

\* An empty catalogue has made nothing of its input.
LEMMA InitHolds == PopulateInit => PopulateInvariant
  <1> SUFFICES ASSUME PopulateInit PROVE PopulateInvariant
    OBVIOUS
  <1> USE DEF PopulateInit
  <1>1. IsBase(base)
    BY PopulateAssumption
  <1>2. PopulateTypeOK
    BY PopulateAssumption DEF PopulateTypeOK, EmptyCatalogue, StopPtrs, BusPtrs, GetStopsHolder, GetBusesHolder
  <1>3. LoopsFollowRequests
    BY <1>1 DEF LoopsFollowRequests, IsBase
  <1>4. StopsFollowRequests
    BY DEF StopsFollowRequests, EmptyCatalogue, StopPtrs
  <1>5. NamesLeadToLastStops /\ NamesLeadToLastBuses
    BY DEF NamesLeadToLastStops, NamesLeadToLastBuses, EmptyCatalogue, StopPtrs, BusPtrs
  <1>6. BusesFollowRequests /\ BusesUseNamedStops
    BY DEF BusesFollowRequests, BusesUseNamedStops, EmptyCatalogue, BusPtrs
  <1>7. ListsFollowBuses
    BY DEF ListsFollowBuses, EmptyCatalogue, StopPtrs, BusPtrs
  <1> QED
    BY <1>1, <1>2, <1>3, <1>4, <1>5, <1>6, <1>7 DEF PopulateInvariant

\* The first loop: the new stop takes over its name (json_reader.cpp:141-146).
LEMMA StopAdded == PopulateInvariant /\ NextStop => PopulateInvariant'
  <1> SUFFICES ASSUME PopulateInvariant, NextStop PROVE PopulateInvariant'
    OBVIOUS
  <1> DEFINE name == base.stops[index].name
             last == Len(db.stops) + 1
  <1>1. /\ stage = "stops" /\ index <= Len(base.stops) /\ index \in Nat \ {0}
        /\ name \in StopName
        /\ Len(db.stops) = index - 1 /\ last = index
        /\ Len(db.buses) = 0 /\ BusPtrs(db) = {}
        /\ StopPtrs(db) = 1 .. index - 1
    BY DEF PopulateInvariant, PopulateTypeOK, NextStop, IsBase, IsStopRequest, StopsFollowRequests,
           BusesFollowRequests, StopPtrs, BusPtrs
  <1>2. /\ base' = base /\ index' = index + 1 /\ stage' = stage /\ undeclared' = undeclared
        /\ DOMAIN db' = DOMAIN EmptyCatalogue
        /\ db'.stops = Append(db.stops, name)
        /\ db'.stop_names = [db.stop_names EXCEPT ![name] = last]
        /\ db'.stop_to_buses = Append(db.stop_to_buses, {})
        /\ db'.buses = db.buses
        /\ db'.bus_names = db.bus_names
        /\ db'.stops_to_distance = db.stops_to_distance
    <2>1. DOMAIN db = DOMAIN EmptyCatalogue
      BY DEF PopulateInvariant
    <2>2. LET new == AddStop(db, name)
          IN  /\ DOMAIN new = DOMAIN EmptyCatalogue
              /\ new.stops = Append(db.stops, name)
              /\ new.stop_names = [db.stop_names EXCEPT ![name] = last]
              /\ new.stop_to_buses = Append(db.stop_to_buses, {})
              /\ new.buses = db.buses
              /\ new.bus_names = db.bus_names
              /\ new.stops_to_distance = db.stops_to_distance
      BY <2>1, AddStopFields
    <2> QED
      BY <2>2 DEF NextStop
  <1>3. /\ db'.stops \in Seq(StopName) /\ StopPtrs(db') = 1 .. index /\ Len(db'.stops) = index
        /\ \A ptr \in 1 .. index - 1 : db'.stops[ptr] = db.stops[ptr]
        /\ db'.stops[index] = name
    BY <1>1, <1>2 DEF PopulateInvariant, PopulateTypeOK, StopPtrs
  <1>4. BusPtrs(db') = {}
    BY <1>1, <1>2 DEF BusPtrs
  <1>5. db'.stop_to_buses \in [1 .. index -> SUBSET {}]
    <2>1. db.stop_to_buses \in [1 .. index - 1 -> SUBSET {}]
      BY <1>1 DEF PopulateInvariant, PopulateTypeOK
    <2>2. /\ index - 1 \in Nat /\ (index - 1) + 1 = index
          /\ {} \in SUBSET {} /\ (SUBSET {}) \subseteq (SUBSET {})
      BY <1>1
    <2>3. Append(db.stop_to_buses, {}) \in [1 .. (index - 1) + 1 -> SUBSET {}]
      BY <2>1, <2>2, AppendToFunction
    <2> QED
      BY <1>2, <2>2, <2>3
  <1>6. /\ DOMAIN db.stop_names = StopName
        /\ db'.stop_names[name] = index
        /\ \A other \in StopName \ {name} : db'.stop_names[other] = db.stop_names[other]
    BY <1>1, <1>2 DEF PopulateInvariant, PopulateTypeOK
  <1>7. PopulateTypeOK'
    <2>1. db.stops_to_distance = [pair \in {} |-> 0]
      BY <1>1 DEF PopulateInvariant, EmptyCatalogue
    <2>2. db'.stop_names \in [StopName -> StopPtr \cup {Null}]
      BY <1>1, <1>2 DEF PopulateInvariant, PopulateTypeOK, StopPtr
    <2>3. GetStopsHolder(db') \subseteq StopPtrs(db')
      <3>1. \A other \in StopName : db.stop_names[other] # Null => db.stop_names[other] \in 1 .. index - 1
        BY <1>1 DEF PopulateInvariant, PopulateTypeOK, GetStopsHolder
      <3> QED
        BY <1>1, <1>3, <1>6, <3>1 DEF GetStopsHolder
    <2>4. GetBusesHolder(db') \subseteq BusPtrs(db')
      BY <1>2 DEF PopulateInvariant, PopulateTypeOK, GetBusesHolder, BusPtrs
    <2> QED
      BY <1>1, <1>2, <1>3, <1>4, <1>5, <2>1, <2>2, <2>3, <2>4 DEF PopulateInvariant, PopulateTypeOK
  <1>8. LoopsFollowRequests'
    BY <1>1, <1>2 DEF PopulateInvariant, LoopsFollowRequests, IsBase
  <1>9. StopsFollowRequests'
    BY <1>1, <1>2, <1>3 DEF PopulateInvariant, StopsFollowRequests
  <1>10. NamesLeadToLastStops'
    <2> DEFINE Leads(c, n) ==
                 LET named == c.stop_names[n]
                 IN  /\ named # Null => named \in StopPtrs(c) /\ c.stops[named] = n
                     /\ \A ptr \in StopPtrs(c) : c.stops[ptr] = n => named # Null /\ ptr <= named
    <2>1. \A n \in StopName : Leads(db, n)
      BY DEF PopulateInvariant, NamesLeadToLastStops
    <2>2. index # Null
      BY <1>1, PopulateAssumption
    <2>3. ASSUME NEW n \in StopName
          PROVE  Leads(db', n)
      <3>1. CASE n = name
        BY <1>1, <1>3, <1>6, <2>2, <3>1
      <3>2. CASE n # name
        BY <1>1, <1>3, <1>6, <2>1, <2>3, <3>2
      <3> QED
        BY <3>1, <3>2
    <2> QED
      BY <2>3 DEF NamesLeadToLastStops
  <1>11. NamesLeadToLastBuses'
    BY <1>2 DEF PopulateInvariant, NamesLeadToLastBuses, BusPtrs
  <1>12. BusesFollowRequests' /\ BusesUseNamedStops'
    BY <1>1, <1>2, <1>4 DEF BusesFollowRequests, BusesUseNamedStops
  <1>13. ListsFollowBuses'
    BY <1>1, <1>2, <1>3, <1>4, <1>5 DEF ListsFollowBuses
  <1> QED
    BY <1>1, <1>2, <1>7, <1>8, <1>9, <1>10, <1>11, <1>12, <1>13 DEF PopulateInvariant, IsBase, EmptyCatalogue

\* A stop that a name leads to is the one its own name leads to.
LEMMA HeldByItsName ==
    ASSUME PopulateInvariant, NEW ptr \in GetStopsHolder(db)
    PROVE  /\ ptr \in StopPtrs(db) /\ ptr # Null
           /\ db.stops[ptr] \in StopName
           /\ SearchStop(db, db.stops[ptr]) = ptr
  <1>1. PICK name \in StopName : ptr = db.stop_names[name] /\ ptr # Null
    BY DEF GetStopsHolder
  <1>2. ptr \in StopPtrs(db) /\ db.stops[ptr] = name
    BY <1>1 DEF PopulateInvariant, NamesLeadToLastStops
  <1>3. DOMAIN db.stop_names = StopName
    BY DEF PopulateInvariant, PopulateTypeOK
  <1> QED
    BY <1>1, <1>2, <1>3 DEF SearchStop

\* Looking a name up finds nothing or a stop that a name leads to.
LEMMA SearchStopHeld ==
    ASSUME PopulateTypeOK, NEW name \in StopName
    PROVE  /\ SearchStop(db, name) = db.stop_names[name]
           /\ SearchStop(db, name) \in GetStopsHolder(db) \cup {Null}
           /\ SearchStop(db, name) \in StopPtrs(db) \cup {Null}
  BY DEF PopulateTypeOK, SearchStop, GetStopsHolder

\* DistancesFollowRequests depends on nothing else.
LEMMA SameDistances ==
    ASSUME DistancesFollowRequests,
           base' = base, db'.stops = db.stops, db'.stop_names = db.stop_names,
           db'.stops_to_distance = db.stops_to_distance,
           \A i \in DOMAIN base.stops : \A name : PassedOn(i, name)' <=> PassedOn(i, name)
    PROVE  DistancesFollowRequests'
  <1>1. \A from, to : Given(from, to)' = Given(from, to)
    BY DEF Given
  <1>2. \A name : DeclaredOnce(name)' <=> DeclaredOnce(name)
    BY DEF DeclaredOnce
  <1>3. GetStopsHolder(db)' = GetStopsHolder(db)
    BY DEF GetStopsHolder
  <1> QED
    BY <1>1, <1>2, <1>3 DEF DistancesFollowRequests

\* A request of the second loop is left when its road_distances are.
LEMMA RequestPassed == PopulateInvariant /\ NextDistances => PopulateInvariant'
  <1> SUFFICES ASSUME PopulateInvariant, NextDistances PROVE PopulateInvariant'
    OBVIOUS
  <1>1. /\ stage = "distances" /\ undeclared = {} /\ index <= Len(base.stops) /\ index \in Nat \ {0}
        /\ index' = index + 1 /\ undeclared' = NamesAt(index + 1)
        /\ base' = base /\ db' = db /\ stage' = stage
        /\ DOMAIN base.stops = 1 .. Len(base.stops) /\ Len(base.stops) \in Nat
    BY DEF PopulateInvariant, PopulateTypeOK, NextDistances, IsBase
  <1>2. NamesAt(index + 1) \subseteq StopName
    <2>1. \A i \in DOMAIN base.stops : IsStopRequest(base.stops[i])
      BY DEF PopulateInvariant, IsBase
    <2> QED
      BY <1>1, <2>1 DEF IsStopRequest, NamesAt
  <1>3. PopulateTypeOK'
    BY <1>1, <1>2 DEF PopulateInvariant, PopulateTypeOK
  <1>4. LoopsFollowRequests'
    BY <1>1, <1>2 DEF LoopsFollowRequests, NamesAt
  <1>5. DistancesFollowRequests'
    <2>1. ASSUME NEW i \in DOMAIN base.stops, NEW name
          PROVE  PassedOn(i, name)' <=> PassedOn(i, name)
      BY <1>1, <2>1 DEF PassedOn, NamesAt
    <2> QED
      BY <1>1, <2>1, SameDistances DEF PopulateInvariant
  <1>6. StopsFollowRequests' /\ NamesLeadToLastStops' /\ NamesLeadToLastBuses' /\ BusesUseNamedStops'
    BY <1>1 DEF PopulateInvariant, StopsFollowRequests, NamesLeadToLastStops, NamesLeadToLastBuses,
                BusesUseNamedStops
  <1>7. BusesFollowRequests' /\ ListsFollowBuses'
    BY <1>1 DEF PopulateInvariant, BusesFollowRequests, BusAt, ListsFollowBuses, Returned
  <1> QED
    BY <1>1, <1>3, <1>4, <1>5, <1>6, <1>7 DEF PopulateInvariant

\* The second loop: a distance given may replace, or be left out for, one that was
\* given before (json_reader.cpp:148-158, catalogue.cpp:18-27).
LEMMA DistancePassed == PopulateInvariant /\ NextDistance => PopulateInvariant'
  <1> SUFFICES ASSUME PopulateInvariant, NextDistance PROVE PopulateInvariant'
    OBVIOUS
  <1>0. PICK from : from = base.stops[index].name
    OBVIOUS
  <1> DEFINE s      == SearchStop(db, from)
             known  == DOMAIN db.stops_to_distance
             old    == db.stops_to_distance
             new    == db'.stops_to_distance
  <1>1. PICK name \in undeclared :
          /\ db' = MakeAdjacent(db, s, SearchStop(db, name), base.stops[index].road_distances[name])
          /\ undeclared' = undeclared \ {name}
    BY <1>0 DEF NextDistance
  <1> DEFINE t      == SearchStop(db, name)
             metres == base.stops[index].road_distances[name]
  <1>2. /\ stage = "distances" /\ base' = base /\ stage' = stage /\ index' = index
        /\ index \in DOMAIN base.stops /\ index \in Nat
        /\ name \in DOMAIN base.stops[index].road_distances
        /\ from \in StopName /\ name \in StopName /\ metres \in Int
    <2>1. /\ stage = "distances" /\ base' = base /\ stage' = stage /\ index' = index
          /\ index \in Nat \ {0} /\ name \in NamesAt(index)
      BY DEF PopulateInvariant, PopulateTypeOK, NextDistance, LoopsFollowRequests
    <2>2. /\ index \in DOMAIN base.stops
          /\ name \in DOMAIN base.stops[index].road_distances
      BY <2>1 DEF NamesAt, PopulateInvariant, IsBase
    <2>3. IsStopRequest(base.stops[index])
      BY <2>2 DEF PopulateInvariant, IsBase
    <2> QED
      BY <1>0, <2>1, <2>2, <2>3 DEF IsStopRequest
  <1>3. /\ DOMAIN db' = DOMAIN EmptyCatalogue
        /\ db'.stops = db.stops /\ db'.stop_names = db.stop_names
        /\ db'.stop_to_buses = db.stop_to_buses
        /\ db'.buses = db.buses /\ db'.bus_names = db.bus_names
        /\ \/ /\ <<t, s>> \in known /\ old[<<t, s>>] = metres
              /\ new = old
           \/ /\ DOMAIN new = known \cup {<<s, t>>}
              /\ new[<<s, t>>] = metres
              /\ \A pair \in known \ {<<s, t>>} : new[pair] = old[pair]
    <2>1. DOMAIN db = DOMAIN EmptyCatalogue
      BY DEF PopulateInvariant
    <2>2. LET d == MakeAdjacent(db, s, t, metres)
          IN  /\ DOMAIN d = DOMAIN EmptyCatalogue
              /\ d.stops = db.stops /\ d.stop_names = db.stop_names
              /\ d.stop_to_buses = db.stop_to_buses
              /\ d.buses = db.buses /\ d.bus_names = db.bus_names
              /\ \/ /\ <<t, s>> \in known /\ old[<<t, s>>] = metres
                    /\ d.stops_to_distance = old
                 \/ /\ DOMAIN d.stops_to_distance = known \cup {<<s, t>>}
                    /\ d.stops_to_distance[<<s, t>>] = metres
                    /\ \A pair \in known \ {<<s, t>>} : d.stops_to_distance[pair] = old[pair]
      BY <2>1, MakeAdjacentFields
    <2> QED
      BY <1>1, <2>2
  <1>4. /\ s \in StopPtrs(db) \cup {Null} /\ t \in StopPtrs(db) \cup {Null}
        /\ s = db.stop_names[from] /\ t = db.stop_names[name]
    BY <1>2, SearchStopHeld DEF PopulateInvariant
  <1> HIDE DEF s, t, metres
  <1>5. PopulateTypeOK'
    <2>1. /\ DOMAIN new \subseteq (StopPtrs(db) \cup {Null}) \X (StopPtrs(db) \cup {Null})
          /\ \A pair \in DOMAIN new : new[pair] \in Int
      BY <1>2, <1>3, <1>4 DEF PopulateInvariant, PopulateTypeOK
    <2>2. /\ StopPtrs(db') = StopPtrs(db) /\ BusPtrs(db') = BusPtrs(db)
          /\ GetStopsHolder(db') = GetStopsHolder(db) /\ GetBusesHolder(db') = GetBusesHolder(db)
      BY <1>3 DEF StopPtrs, BusPtrs, GetStopsHolder, GetBusesHolder
    <2> QED
      BY <1>1, <1>2, <1>3, <2>1, <2>2 DEF PopulateInvariant, PopulateTypeOK
  <1>6. LoopsFollowRequests'
    BY <1>1, <1>2 DEF PopulateInvariant, LoopsFollowRequests, NamesAt
  <1>7. \A i \in DOMAIN base.stops : \A to :
          PassedOn(i, to)' <=> PassedOn(i, to) \/ (i = index /\ to = name)
    BY <1>1, <1>2 DEF PassedOn
  <1>8. ~PassedOn(index, name)
    BY <1>2 DEF PassedOn
  <1>9. \A a, b : Given(a, b) \subseteq Given(a, b)'
    BY <1>2, <1>7 DEF Given
  <1>10. metres \in Given(from, name)'
    BY <1>0, <1>2, <1>7 DEF Given, metres
  <1>11. \A a, b : a # from \/ b # name => Given(a, b)' = Given(a, b)
    BY <1>0, <1>2, <1>7 DEF Given
  <1>12. DeclaredOnce(from) => Given(from, name) = {}
    BY <1>0, <1>2, <1>8 DEF DeclaredOnce, Given
  <1>13. DistancesFollowRequests'
    <2>0. SUFFICES ASSUME NEW p \in GetStopsHolder(db), NEW q \in GetStopsHolder(db),
                          NEW a, NEW b, a = db.stops[p], b = db.stops[q]
                   PROVE  /\ <<p, q>> \in DOMAIN new => new[<<p, q>>] \in Given(a, b)'
                          /\ Given(a, b)' # {} => <<p, q>> \in DOMAIN new \/ <<q, p>> \in DOMAIN new
                          /\ /\ Given(a, b)' # {} /\ <<p, q>> \notin DOMAIN new
                             /\ DeclaredOnce(a) /\ DeclaredOnce(b)
                             => new[<<q, p>>] \in Given(a, b)'
      <3>1. \A a : DeclaredOnce(a)' <=> DeclaredOnce(a)
        BY <1>2 DEF DeclaredOnce
      <3>2. GetStopsHolder(db)' = GetStopsHolder(db)
        BY <1>3 DEF GetStopsHolder
      <3> QED
        BY <1>3, <3>1, <3>2 DEF DistancesFollowRequests
    <2>1. /\ p = s <=> a = from
          /\ q = t <=> b = name
          /\ p = t <=> a = name
          /\ q = s <=> b = from
      <3>1. /\ p # Null /\ q # Null
            /\ p = db.stop_names[a] /\ q = db.stop_names[b]
        BY <2>0, HeldByItsName, SearchStopHeld DEF PopulateInvariant
      <3>2. /\ s # Null => db.stops[s] = from
            /\ t # Null => db.stops[t] = name
        BY <1>2, <1>4 DEF PopulateInvariant, NamesLeadToLastStops
      <3> QED
        BY <1>4, <2>0, <3>1, <3>2
    <2>2. /\ <<p, q>> \in known => old[<<p, q>>] \in Given(a, b)
          /\ Given(a, b) # {} => <<p, q>> \in known \/ <<q, p>> \in known
          /\ /\ Given(a, b) # {} /\ <<p, q>> \notin known
             /\ DeclaredOnce(a) /\ DeclaredOnce(b)
             => old[<<q, p>>] \in Given(a, b)
          /\ <<q, p>> \in known => old[<<q, p>>] \in Given(b, a)
      BY <1>2, <2>0 DEF PopulateInvariant, DistancesFollowRequests
    <2>3. CASE /\ <<t, s>> \in known /\ old[<<t, s>>] = metres
               /\ new = old
      <3>1. CASE a = from /\ b = name
        <4>1. p = s /\ q = t
          BY <2>1, <3>1
        <4>2. metres \in Given(a, b)'
          BY <1>10, <3>1
        <4>3. \A v : v \in Given(a, b) => v \in Given(a, b)'
          BY <1>9
        <4>4. <<q, p>> \in DOMAIN new /\ new[<<q, p>>] = metres
          BY <2>3, <4>1
        <4>5. <<p, q>> \in DOMAIN new => new[<<p, q>>] \in Given(a, b)'
          BY <2>2, <2>3, <4>3
        <4> QED
          BY <4>2, <4>4, <4>5
      <3>2. CASE a # from \/ b # name
        BY <1>11, <2>2, <2>3, <3>2
      <3> QED
        BY <3>1, <3>2
    <2>4. CASE /\ DOMAIN new = known \cup {<<s, t>>}
               /\ new[<<s, t>>] = metres
               /\ \A pair \in known \ {<<s, t>>} : new[pair] = old[pair]
      <3>1. CASE a = from /\ b = name
        <4>1. p = s /\ q = t
          BY <2>1, <3>1
        <4>2. <<p, q>> \in DOMAIN new /\ new[<<p, q>>] = metres
          BY <2>4, <4>1
        <4> QED
          BY <1>10, <3>1, <4>2
      <3>2. CASE a # from \/ b # name
        <4>1. Given(a, b)' = Given(a, b)
          BY <1>11, <3>2
        <4>2. <<p, q>> # <<s, t>>
          BY <2>1, <3>2
        <4>3. <<p, q>> \in DOMAIN new => <<p, q>> \in known /\ new[<<p, q>>] = old[<<p, q>>]
          BY <2>4, <4>2
        <4>4. known \subseteq DOMAIN new
          BY <2>4
        <4>5. ASSUME Given(a, b) # {}, <<p, q>> \notin DOMAIN new, DeclaredOnce(a), DeclaredOnce(b)
              PROVE  new[<<q, p>>] \in Given(a, b)
          <5>1. old[<<q, p>>] \in Given(a, b) /\ <<q, p>> \in known
            BY <2>2, <4>4, <4>5
          <5>2. CASE <<q, p>> # <<s, t>>
            BY <2>4, <5>1, <5>2
          <5>3. CASE <<q, p>> = <<s, t>>
            <6>1. b = from /\ a = name
              BY <2>1, <5>3
            <6>2. Given(b, a) = {}
              BY <1>12, <4>5, <6>1
            <6> QED
              BY <2>2, <5>1, <6>2
          <5> QED
            BY <5>2, <5>3
        <4> HIDE DEF known, old, new
        <4> QED
          BY <2>2, <4>1, <4>3, <4>4, <4>5
      <3> QED
        BY <3>1, <3>2
    <2> QED
      BY <1>3, <2>3, <2>4
  <1>14. StopsFollowRequests' /\ NamesLeadToLastStops' /\ NamesLeadToLastBuses' /\ BusesUseNamedStops'
    BY <1>2, <1>3 DEF PopulateInvariant, StopsFollowRequests, NamesLeadToLastStops, NamesLeadToLastBuses,
                BusesUseNamedStops, StopPtrs, BusPtrs, GetStopsHolder
  <1>15. BusesFollowRequests' /\ ListsFollowBuses'
    <2>1. BusPtrs(db) = {} /\ BusPtrs(db') = {} /\ Len(db.buses) = 0
      BY <1>2, <1>3 DEF PopulateInvariant, PopulateTypeOK, BusesFollowRequests, BusPtrs
    <2>2. db.stop_to_buses \in [StopPtrs(db) -> SUBSET {}] /\ StopPtrs(db') = StopPtrs(db)
      BY <1>3, <2>1 DEF PopulateInvariant, PopulateTypeOK, StopPtrs
    <2> QED
      BY <1>2, <1>3, <2>1, <2>2 DEF BusesFollowRequests, ListsFollowBuses
  <1> QED
    BY <1>2, <1>3, <1>5, <1>6, <1>13, <1>14, <1>15 DEF PopulateInvariant

\* What AddBus makes of the set of buses listed at a stop.
LEMMA InsertBusLists ==
    ASSUME NEW d, NEW listed, NEW ptr, NEW name
    PROVE  /\ listed \subseteq InsertBus(d, listed, ptr, name)
           /\ InsertBus(d, listed, ptr, name) \subseteq listed \cup {ptr}
           /\ ptr \in InsertBus(d, listed, ptr, name)
              \/ \E other \in listed : d.buses[other].name = name
  BY DEF InsertBus

\* AddBus reaches stops of the bus only, and all of them unless it throws.
LEMMA ReachedStops ==
    ASSUME NEW bus, NEW n \in Nat, DOMAIN bus.stops = 1 .. n
    PROVE  /\ StopsReached(bus) \subseteq Range(bus.stops) \ {Null}
           /\ ~AddBusThrows(bus) => StopsReached(bus) = Range(bus.stops)
  <1>1. \A stop : stop \in StopsReached(bus) =>
            \E j \in 1 .. n : bus.stops[j] = stop /\ \A k \in 1 .. j : bus.stops[k] # Null
    BY DEF StopsReached
  <1>2. \A j \in 1 .. n : j \in 1 .. j
    OBVIOUS
  <1>3. \A stop : stop \in StopsReached(bus) => stop # Null /\ \E j \in 1 .. n : bus.stops[j] = stop
    BY <1>1, <1>2
  <1>4. ASSUME ~AddBusThrows(bus)
        PROVE  \A j \in 1 .. n : bus.stops[j] \in StopsReached(bus)
    BY <1>4 DEF AddBusThrows, StopsReached
  <1> QED
    BY <1>3, <1>4 DEF Range

\* A bus of the input, as AddBus is given it.
LEMMA BusAtType ==
    ASSUME PopulateInvariant, NEW i \in DOMAIN base.buses
    PROVE  /\ BusAt(i) \in Bus
           /\ BusAt(i).name = base.buses[i].name
           /\ Len(base.buses[i].stops) \in Nat
           /\ DOMAIN BusAt(i).stops = 1 .. Len(base.buses[i].stops)
           /\ DOMAIN base.buses[i].stops = 1 .. Len(base.buses[i].stops)
           /\ \A n \in DOMAIN BusAt(i).stops :
                /\ base.buses[i].stops[n] \in StopName
                /\ BusAt(i).stops[n] = SearchStop(db, base.buses[i].stops[n])
                /\ BusAt(i).stops[n] \in GetStopsHolder(db) \cup {Null}
                /\ BusAt(i).stops[n] \in StopPtrs(db) \cup {Null}
  <1> DEFINE request == base.buses[i]
             stops   == [n \in DOMAIN request.stops |-> SearchStop(db, request.stops[n])]
  <1>1. /\ request.name \in BusName /\ request.is_roundtrip \in BOOLEAN
        /\ request.stops \in Seq(StopName)
    BY DEF PopulateInvariant, IsBase, IsBusRequest
  <1>2. /\ Len(request.stops) \in Nat /\ DOMAIN request.stops = 1 .. Len(request.stops)
        /\ \A n \in DOMAIN request.stops : request.stops[n] \in StopName
    BY <1>1
  <1>3. \A n \in DOMAIN request.stops :
            /\ SearchStop(db, request.stops[n]) \in GetStopsHolder(db) \cup {Null}
            /\ SearchStop(db, request.stops[n]) \in StopPtrs(db) \cup {Null}
    BY <1>2, SearchStopHeld DEF PopulateInvariant
  <1>4. StopPtrs(db) \subseteq StopPtr
    BY DEF PopulateInvariant, PopulateTypeOK, StopPtrs, StopPtr
  <1>5. stops \in Seq(StopPtr \cup {Null})
    <2>1. stops \in [1 .. Len(request.stops) -> StopPtr \cup {Null}]
      BY <1>2, <1>3, <1>4
    <2>2. \A n \in Nat : \A f \in [1 .. n -> StopPtr \cup {Null}] : f \in Seq(StopPtr \cup {Null})
      OBVIOUS
    <2> QED
      BY <1>2, <2>1, <2>2
  <1>6. BusAt(i) = [name |-> request.name, stops |-> stops, is_roundtrip |-> request.is_roundtrip]
    BY DEF BusAt
  <1> HIDE DEF stops
  <1>7. BusAt(i) \in Bus /\ BusAt(i).name = request.name /\ BusAt(i).stops = stops
    BY <1>1, <1>5, <1>6 DEF Bus
  <1> QED
    BY <1>2, <1>3, <1>7 DEF stops

\* The third loop: the new bus takes over its name and is listed at its stops, all
\* of them if AddBus returns (json_reader.cpp:160-174, catalogue.cpp:30-37).
LEMMA BusAdded == PopulateInvariant /\ NextBus => PopulateInvariant'
  <1> SUFFICES ASSUME PopulateInvariant, NextBus PROVE PopulateInvariant'
    OBVIOUS
  <1>1. PICK bus : bus = BusAt(index)
    OBVIOUS
  <1>2. /\ stage = "buses" /\ index \in Nat \ {0} /\ index <= Len(base.buses)
        /\ Len(db.buses) = index - 1 /\ index \in DOMAIN base.buses
        /\ BusPtrs(db) = 1 .. index - 1
        /\ base' = base /\ undeclared' = undeclared
        /\ AddBusThrows(bus) => stage' = "failed" /\ index' = index
        /\ ~AddBusThrows(bus) => stage' = "buses" /\ index' = index + 1
    BY <1>1 DEF PopulateInvariant, PopulateTypeOK, NextBus, IsBase, BusesFollowRequests, BusPtrs
  <1>3. /\ DOMAIN db' = DOMAIN EmptyCatalogue
        /\ db'.stops = db.stops
        /\ db'.stop_names = db.stop_names
        /\ db'.stop_to_buses = [stop \in DOMAIN db.stop_to_buses |->
               IF stop \in StopsReached(bus)
               THEN InsertBus(db, db.stop_to_buses[stop], index, bus.name)
               ELSE db.stop_to_buses[stop]]
        /\ db'.buses = Append(db.buses, bus)
        /\ db'.bus_names = [db.bus_names EXCEPT ![bus.name] = index]
        /\ db'.stops_to_distance = db.stops_to_distance
    <2>1. DOMAIN db = DOMAIN EmptyCatalogue /\ Len(db.buses) + 1 = index
      BY <1>2 DEF PopulateInvariant
    <2>2. LET new == AddBus(db, bus)
          IN  /\ DOMAIN new = DOMAIN EmptyCatalogue
              /\ new.stops = db.stops
              /\ new.stop_names = db.stop_names
              /\ new.stop_to_buses = [stop \in DOMAIN db.stop_to_buses |->
                     IF stop \in StopsReached(bus)
                     THEN InsertBus(db, db.stop_to_buses[stop], Len(db.buses) + 1, bus.name)
                     ELSE db.stop_to_buses[stop]]
              /\ new.buses = Append(db.buses, bus)
              /\ new.bus_names = [db.bus_names EXCEPT ![bus.name] = Len(db.buses) + 1]
              /\ new.stops_to_distance = db.stops_to_distance
      BY <2>1, AddBusFields
    <2> QED
      BY <1>1, <2>1, <2>2 DEF NextBus
  <1>4. /\ bus \in Bus /\ bus.name \in BusName
        /\ DOMAIN bus.stops = 1 .. Len(base.buses[index].stops)
        /\ Len(base.buses[index].stops) \in Nat
        /\ \A n \in DOMAIN bus.stops :
                /\ bus.stops[n] \in GetStopsHolder(db) \cup {Null}
                /\ bus.stops[n] \in StopPtrs(db) \cup {Null}
    BY <1>1, <1>2, BusAtType DEF Bus
  <1>5. /\ db'.buses \in Seq(Bus) /\ Len(db'.buses) = index /\ BusPtrs(db') = 1 .. index
        /\ \A ptr \in 1 .. index - 1 : db'.buses[ptr] = db.buses[ptr]
        /\ db'.buses[index] = bus
    BY <1>2, <1>3, <1>4 DEF PopulateInvariant, PopulateTypeOK, BusPtrs
  <1>6. /\ DOMAIN db.bus_names = BusName
        /\ db'.bus_names[bus.name] = index
        /\ \A other \in BusName \ {bus.name} : db'.bus_names[other] = db.bus_names[other]
    BY <1>3, <1>4 DEF PopulateInvariant, PopulateTypeOK
  <1>7. /\ StopPtrs(db') = StopPtrs(db) /\ GetStopsHolder(db') = GetStopsHolder(db)
        /\ \A name : SearchStop(db', name) = SearchStop(db, name)
        /\ \A i : BusAt(i)' = BusAt(i)
    <2>1. \A name : SearchStop(db', name) = SearchStop(db, name)
      BY <1>3 DEF SearchStop
    <2> QED
      BY <1>2, <1>3, <2>1 DEF StopPtrs, GetStopsHolder, BusAt
  <1>8. /\ DOMAIN db.stop_to_buses = StopPtrs(db) /\ DOMAIN db'.stop_to_buses = StopPtrs(db)
        /\ \A stop \in StopPtrs(db) :
            /\ db.stop_to_buses[stop] \subseteq 1 .. index - 1
            /\ db.stop_to_buses[stop] \subseteq db'.stop_to_buses[stop]
            /\ db'.stop_to_buses[stop] \subseteq db.stop_to_buses[stop] \cup {index}
            /\ index \in db'.stop_to_buses[stop] => stop \in StopsReached(bus)
            /\ stop \in StopsReached(bus) =>
                    \/ index \in db'.stop_to_buses[stop]
                    \/ \E other \in db.stop_to_buses[stop] : db.buses[other].name = bus.name
    <2>1. db.stop_to_buses \in [StopPtrs(db) -> SUBSET (1 .. index - 1)]
      BY <1>2 DEF PopulateInvariant, PopulateTypeOK
    <2>2. index \notin 1 .. index - 1
      BY <1>2
    <2>3. \A stop \in StopPtrs(db) :
            db'.stop_to_buses[stop] = IF stop \in StopsReached(bus)
                                      THEN InsertBus(db, db.stop_to_buses[stop], index, bus.name)
                                      ELSE db.stop_to_buses[stop]
      BY <1>3, <2>1
    <2> QED
      BY <1>3, <2>1, <2>2, <2>3, InsertBusLists
  <1>9. PopulateTypeOK'
    <2>1. db'.bus_names \in [BusName -> BusPtr \cup {Null}]
      BY <1>2, <1>3 DEF PopulateInvariant, PopulateTypeOK, BusPtr
    <2>2. db'.stop_to_buses \in [StopPtrs(db') -> SUBSET BusPtrs(db')]
      <3>1. \A stop \in StopPtrs(db) : db'.stop_to_buses[stop] \subseteq 1 .. index
        BY <1>2, <1>8
      <3>2. db'.stop_to_buses = [stop \in StopPtrs(db) |-> db'.stop_to_buses[stop]]
        BY <1>3, <1>8
      <3> QED
        BY <1>5, <1>7, <3>1, <3>2
    <2>3. GetBusesHolder(db') \subseteq BusPtrs(db')
      <3>1. \A other \in BusName : db.bus_names[other] # Null => db.bus_names[other] \in 1 .. index - 1
        BY <1>2 DEF PopulateInvariant, PopulateTypeOK, GetBusesHolder
      <3> QED
        BY <1>2, <1>5, <1>6, <3>1 DEF GetBusesHolder
    <2>4. index' \in Nat \ {0} /\ stage' \in {"buses", "failed"}
      BY <1>2
    <2> QED
      BY <1>2, <1>3, <1>5, <1>7, <2>1, <2>2, <2>3, <2>4 DEF PopulateInvariant, PopulateTypeOK
  <1>10. LoopsFollowRequests'
    BY <1>2 DEF PopulateInvariant, LoopsFollowRequests, IsBase
  <1>11. StopsFollowRequests' /\ NamesLeadToLastStops'
    BY <1>2, <1>3, <1>7 DEF PopulateInvariant, StopsFollowRequests, NamesLeadToLastStops
  <1>12. NamesLeadToLastBuses'
    <2> DEFINE Leads(c, n) ==
                 LET named == c.bus_names[n]
                 IN  /\ named # Null => named \in BusPtrs(c) /\ c.buses[named].name = n
                     /\ \A ptr \in BusPtrs(c) : c.buses[ptr].name = n => named # Null /\ ptr <= named
    <2>1. \A n \in BusName : Leads(db, n)
      BY DEF PopulateInvariant, NamesLeadToLastBuses
    <2>2. index # Null
      BY <1>2, PopulateAssumption
    <2>3. ASSUME NEW n \in BusName
          PROVE  Leads(db', n)
      <3>1. CASE n = bus.name
        BY <1>2, <1>5, <1>6, <2>2, <3>1
      <3>2. CASE n # bus.name
        BY <1>2, <1>5, <1>6, <2>1, <2>3, <3>2
      <3> QED
        BY <3>1, <3>2
    <2> QED
      BY <2>3 DEF NamesLeadToLastBuses
  <1>13. BusesFollowRequests'
    <2>1. \A ptr \in 1 .. index : db'.buses[ptr] = BusAt(ptr)'
      BY <1>1, <1>2, <1>5, <1>7 DEF PopulateInvariant, BusesFollowRequests
    <2> QED
      BY <1>2, <1>5, <2>1 DEF BusesFollowRequests
  <1>14. BusesUseNamedStops'
    <2>1. ASSUME NEW ptr \in 1 .. index, NEW i \in DOMAIN db'.buses[ptr].stops
          PROVE  db'.buses[ptr].stops[i] \in GetStopsHolder(db) \cup {Null}
      <3>1. CASE ptr = index
        BY <1>4, <1>5, <2>1, <3>1
      <3>2. CASE ptr # index
        <4>1. ptr \in BusPtrs(db) /\ db'.buses[ptr] = db.buses[ptr]
          BY <1>2, <1>5, <3>2
        <4> QED
          BY <2>1, <4>1 DEF PopulateInvariant, BusesUseNamedStops
      <3> QED
        BY <3>1, <3>2
    <2> QED
      BY <1>5, <1>7, <2>1 DEF BusesUseNamedStops
  <1>15. ListsFollowBuses'
    <2>1. ASSUME NEW stop \in StopPtrs(db), NEW ptr \in db'.stop_to_buses[stop]
          PROVE  stop \in Range(db'.buses[ptr].stops)
      <3>1. CASE ptr \in db.stop_to_buses[stop]
        BY <1>5, <1>8, <2>1, <3>1 DEF PopulateInvariant, ListsFollowBuses
      <3>2. CASE ptr = index
        BY <1>4, <1>5, <1>8, <2>1, <3>2, ReachedStops
      <3> QED
        BY <1>8, <2>1, <3>1, <3>2
    <2>2. ASSUME NEW ptr \in 1 .. index, Returned(ptr)', NEW n \in DOMAIN db'.buses[ptr].stops
          PROVE  LET stop == db'.buses[ptr].stops[n]
                 IN  /\ stop # Null
                     /\ \E listed \in db'.stop_to_buses[stop] :
                            db'.buses[listed].name = db'.buses[ptr].name
      <3> DEFINE stop == db'.buses[ptr].stops[n]
      <3>1. CASE ptr # index
        <4>1. ptr \in 1 .. index - 1 /\ db'.buses[ptr] = db.buses[ptr]
          BY <1>2, <1>5, <3>1
        <4>2. PICK listed \in db.stop_to_buses[stop] : db.buses[listed].name = db.buses[ptr].name
          BY <1>2, <2>2, <4>1 DEF PopulateInvariant, ListsFollowBuses, Returned
        <4>3. stop # Null /\ stop \in StopPtrs(db)
          <5>1. stop # Null
            BY <1>2, <2>2, <4>1 DEF PopulateInvariant, ListsFollowBuses, Returned
          <5>2. stop \in GetStopsHolder(db) \cup {Null}
            BY <1>2, <2>2, <4>1 DEF PopulateInvariant, BusesUseNamedStops
          <5> QED
            BY <5>1, <5>2 DEF PopulateInvariant, PopulateTypeOK
        <4>4. listed \in db'.stop_to_buses[stop] /\ db'.buses[listed] = db.buses[listed]
          BY <1>5, <1>8, <4>2, <4>3
        <4> QED
          BY <4>1, <4>2, <4>3, <4>4
      <3>2. CASE ptr = index
        <4>1. ~AddBusThrows(bus)
          BY <1>2, <2>2, <3>2 DEF Returned
        <4>2. db'.buses[ptr] = bus /\ stop \in StopsReached(bus) /\ stop # Null
          <5>1. db'.buses[ptr] = bus /\ n \in DOMAIN bus.stops /\ stop = bus.stops[n]
            BY <1>5, <2>2, <3>2
          <5>2. bus.stops[n] \in Range(bus.stops)
            BY <5>1 DEF Range
          <5> QED
            BY <1>4, <4>1, <5>1, <5>2, ReachedStops
        <4>3. stop \in StopPtrs(db)
          BY <1>4, <1>5, <2>2, <3>2, <4>2
        <4>4. CASE index \in db'.stop_to_buses[stop]
          BY <3>2, <4>2, <4>4
        <4>5. CASE \E other \in db.stop_to_buses[stop] : db.buses[other].name = bus.name
          BY <1>5, <1>8, <4>2, <4>3, <4>5
        <4> QED
          BY <1>8, <4>2, <4>3, <4>4, <4>5
      <3> QED
        BY <3>1, <3>2
    <2>3. stage' = "failed" => AddBusThrows(db'.buses[index'])
      BY <1>2, <1>5
    <2> QED
      BY <1>5, <1>7, <2>1, <2>2, <2>3 DEF ListsFollowBuses
  <1>16. DistancesFollowRequests'
    <2>1. \A i \in DOMAIN base.stops : \A name : PassedOn(i, name)' <=> PassedOn(i, name)
      BY <1>2 DEF PassedOn
    <2> QED
      BY <1>2, <1>3, <2>1, SameDistances DEF PopulateInvariant
  <1> QED
    BY <1>2, <1>3, <1>9, <1>10, <1>11, <1>12, <1>13, <1>14, <1>15, <1>16 DEF PopulateInvariant, IsBase

\* When a loop ends, everything it had to do is done.
LEMMA LoopEnded == PopulateInvariant /\ NextLoop => PopulateInvariant'
  <1> SUFFICES ASSUME PopulateInvariant, NextLoop PROVE PopulateInvariant'
    OBVIOUS
  <1>1. /\ base' = base /\ db' = db /\ index' = 1 /\ undeclared = {}
        /\ index \in Nat \ {0}
        /\ Len(base.stops) \in Nat /\ DOMAIN base.stops = 1 .. Len(base.stops)
        /\ Len(base.buses) \in Nat /\ DOMAIN base.buses = 1 .. Len(base.buses)
        /\ \/ /\ stage = "stops" /\ stage' = "distances" /\ index = Len(base.stops) + 1
              /\ undeclared' = NamesAt(1)
           \/ /\ stage = "distances" /\ stage' = "buses" /\ index = Len(base.stops) + 1
              /\ undeclared' = {}
           \/ /\ stage = "buses" /\ stage' = "populated" /\ index = Len(base.buses) + 1
              /\ undeclared' = {}
    BY DEF PopulateInvariant, PopulateTypeOK, NextLoop, IsBase, Requests
  <1>2. NamesAt(1) \subseteq StopName
    <2>1. \A i \in DOMAIN base.stops : IsStopRequest(base.stops[i])
      BY DEF PopulateInvariant, IsBase
    <2> QED
      BY <1>1, <2>1 DEF IsStopRequest, NamesAt
  <1>3. PopulateTypeOK'
    BY <1>1, <1>2 DEF PopulateInvariant, PopulateTypeOK
  <1>4. LoopsFollowRequests'
    BY <1>1, <1>2 DEF LoopsFollowRequests, NamesAt
  <1>5. StopsFollowRequests' /\ BusesFollowRequests'
    BY <1>1 DEF PopulateInvariant, StopsFollowRequests, BusesFollowRequests, BusAt
  <1>6. NamesLeadToLastStops' /\ NamesLeadToLastBuses' /\ BusesUseNamedStops'
    BY <1>1 DEF PopulateInvariant, NamesLeadToLastStops, NamesLeadToLastBuses, BusesUseNamedStops
  <1>7. ListsFollowBuses'
    BY <1>1 DEF PopulateInvariant, ListsFollowBuses, Returned
  <1>8. DistancesFollowRequests'
    <2>1. CASE stage = "stops"
      <3>1. \A i \in DOMAIN base.stops : \A name : ~PassedOn(i, name)'
        BY <1>1, <2>1 DEF PassedOn, NamesAt
      <3>2. \A from, to : Given(from, to)' = {}
        BY <1>1, <3>1 DEF Given
      <3>3. DOMAIN db'.stops_to_distance = {}
        BY <1>1, <2>1 DEF PopulateInvariant, EmptyCatalogue
      <3> QED
        BY <3>2, <3>3 DEF DistancesFollowRequests
    <2>2. CASE stage # "stops"
      <3>1. \A i \in DOMAIN base.stops : \A name : PassedOn(i, name)' <=> PassedOn(i, name)
        BY <1>1, <2>2 DEF PassedOn
      <3> QED
        BY <1>1, <2>2, <3>1, SameDistances DEF PopulateInvariant
    <2> QED
      BY <2>1, <2>2
  <1> QED
    BY <1>1, <1>3, <1>4, <1>5, <1>6, <1>7, <1>8 DEF PopulateInvariant

\* Every step of Populate keeps the invariant; what does not touch the variables of
\* Populate keeps it as well.
LEMMA PopulateStep == PopulateInvariant /\ [PopulateNext]_populateVars => PopulateInvariant'
  <1>1. ASSUME PopulateInvariant, UNCHANGED populateVars
        PROVE  PopulateInvariant'
    <2>1. base' = base /\ db' = db /\ stage' = stage /\ index' = index /\ undeclared' = undeclared
      BY <1>1 DEF populateVars
    <2>2. PopulateTypeOK' /\ LoopsFollowRequests' /\ StopsFollowRequests'
      BY <1>1, <2>1 DEF PopulateInvariant, PopulateTypeOK, LoopsFollowRequests, NamesAt, StopsFollowRequests
    <2>3. NamesLeadToLastStops' /\ NamesLeadToLastBuses' /\ BusesUseNamedStops'
      BY <1>1, <2>1 DEF PopulateInvariant, NamesLeadToLastStops, NamesLeadToLastBuses, BusesUseNamedStops
    <2>4. BusesFollowRequests' /\ ListsFollowBuses'
      BY <1>1, <2>1 DEF PopulateInvariant, BusesFollowRequests, BusAt, ListsFollowBuses, Returned
    <2>5. stage # "stops" => DistancesFollowRequests'
      BY <1>1, <2>1, SameDistances DEF PopulateInvariant, PassedOn
    <2> QED
      BY <1>1, <2>1, <2>2, <2>3, <2>4, <2>5 DEF PopulateInvariant
  <1> QED
    BY <1>1, StopAdded, DistancePassed, RequestPassed, BusAdded, LoopEnded DEF PopulateNext

\* The catalogue follows its input at every step of Populate, and so it does when it
\* returns or an exception leaves it (json_reader.cpp:136-175).
THEOREM PopulateInvariance == PopulateSpec => []PopulateInvariant
  <1>1. PopulateInit => PopulateInvariant
    BY InitHolds
  <1>2. PopulateInvariant /\ [PopulateNext]_populateVars => PopulateInvariant'
    BY PopulateStep
  <1> QED
    BY <1>1, <1>2, PTL DEF PopulateSpec

-----------------------------------------------------------------------------
(* What follows from the invariant. *)

\* In the end, what was given is what was declared.
LEMMA FollowedDistances == PopulateInvariant => DistancesAsDeclared
  <1> SUFFICES ASSUME PopulateInvariant, stage \in {"buses", "populated"},
                      NEW s \in GetStopsHolder(db), NEW t \in GetStopsHolder(db)
               PROVE  LET from == db.stops[s]
                          to   == db.stops[t]
                          asked    == Declared(from, to)
                          reversed == Declared(to, from)
                          found    == Distance(db, s, t)
                      IN  /\ found = Null <=> asked \cup reversed = {}
                          /\ found # Null => found \in asked \cup reversed
                          /\ DeclaredOnce(from) /\ DeclaredOnce(to) /\ found # Null =>
                                  found \in (IF asked # {} THEN asked ELSE reversed)
    BY DEF DistancesAsDeclared
  <1> DEFINE from  == db.stops[s]
             to    == db.stops[t]
             known == DOMAIN db.stops_to_distance
             stored(a, b) == db.stops_to_distance[<<a, b>>]
  <1>1. \A a, b : Given(a, b) = Declared(a, b)
    BY DEF Given, Declared, PassedOn
  <1>2. /\ <<s, t>> \in known => stored(s, t) \in Declared(from, to)
        /\ <<t, s>> \in known => stored(t, s) \in Declared(to, from)
        /\ Declared(from, to) # {} => <<s, t>> \in known \/ <<t, s>> \in known
        /\ Declared(to, from) # {} => <<s, t>> \in known \/ <<t, s>> \in known
        /\ /\ Declared(from, to) # {} /\ <<s, t>> \notin known
           /\ DeclaredOnce(from) /\ DeclaredOnce(to)
           => stored(t, s) \in Declared(from, to)
    BY <1>1 DEF PopulateInvariant, DistancesFollowRequests
  <1>3. \A pair \in known : db.stops_to_distance[pair] # Null
    BY PopulateAssumption DEF PopulateInvariant, PopulateTypeOK
  <1>4. Distance(db, s, t) = IF <<s, t>> \in known THEN stored(s, t)
                             ELSE IF <<t, s>> \in known THEN stored(t, s) ELSE Null
    BY DEF Distance
  <1> HIDE DEF known
  <1> QED
    BY <1>2, <1>3, <1>4

\* The lists of the stops have the names of the buses whose requests name the stop.
LEMMA FollowedLists == PopulateInvariant => StopsListTheirBuses
  <1> SUFFICES ASSUME PopulateInvariant, stage \in {"buses", "populated", "failed"}
               PROVE  StopsListTheirBuses
    BY DEF StopsListTheirBuses
  <1> DEFINE added == IF stage = "populated" THEN Len(base.buses) ELSE index - 1
             last  == IF stage = "failed" THEN added + 1 ELSE added
             Listed(ptr) == {db.buses[bus_ptr].name : bus_ptr \in db.stop_to_buses[ptr]}
  <1>1. /\ BusPtrs(db) = 1 .. last /\ added \in Nat /\ last \in Nat
        /\ DOMAIN base.buses = 1 .. Len(base.buses) /\ last <= Len(base.buses)
        /\ \A k \in 1 .. added : Returned(k)
        /\ added <= last
    BY DEF PopulateInvariant, PopulateTypeOK, IsBase, BusesFollowRequests, LoopsFollowRequests, BusPtrs, Returned
  <1>2. \A k \in 1 .. last :
            /\ db.buses[k].name = base.buses[k].name
            /\ DOMAIN db.buses[k].stops = DOMAIN base.buses[k].stops
            /\ \A n \in DOMAIN db.buses[k].stops :
                    /\ base.buses[k].stops[n] \in StopName
                    /\ db.buses[k].stops[n] = SearchStop(db, base.buses[k].stops[n])
    BY <1>1, BusAtType DEF PopulateInvariant, BusesFollowRequests
  <1>3. /\ db.stop_to_buses \in [StopPtrs(db) -> SUBSET (1 .. last)]
        /\ DOMAIN db.stop_names = StopName
    BY <1>1 DEF PopulateInvariant, PopulateTypeOK
  <1>4. ASSUME NEW ptr \in GetStopsHolder(db)
        PROVE  /\ GetStop(db, db.stops[ptr]) = Listed(ptr)
               /\ BusesNaming(db.stops[ptr], added) \subseteq Listed(ptr)
               /\ Listed(ptr) \subseteq BusesNaming(db.stops[ptr], last)
    <2>1. /\ ptr \in StopPtrs(db) /\ ptr # Null
          /\ db.stops[ptr] \in StopName /\ SearchStop(db, db.stops[ptr]) = ptr
      BY <1>4, HeldByItsName
    <2>2. GetStop(db, db.stops[ptr]) = Listed(ptr)
      BY <2>1 DEF GetStop
    <2>3. ASSUME NEW k \in 1 .. added, NEW n \in DOMAIN base.buses[k].stops,
                 base.buses[k].stops[n] = db.stops[ptr]
          PROVE  base.buses[k].name \in Listed(ptr)
      <3>1. k \in 1 .. last /\ Returned(k)
        BY <1>1
      <3>2. n \in DOMAIN db.buses[k].stops /\ db.buses[k].stops[n] = ptr
        BY <1>2, <2>1, <2>3, <3>1
      <3>3. \E listed \in db.stop_to_buses[ptr] : db.buses[listed].name = db.buses[k].name
        BY <1>1, <3>1, <3>2 DEF PopulateInvariant, ListsFollowBuses
      <3> QED
        BY <1>2, <3>1, <3>3
    <2>4. ASSUME NEW k \in db.stop_to_buses[ptr]
          PROVE  db.buses[k].name \in BusesNaming(db.stops[ptr], last)
      <3>1. k \in 1 .. last
        BY <1>3, <2>1, <2>4
      <3>2. PICK n \in DOMAIN db.buses[k].stops : db.buses[k].stops[n] = ptr
        BY <2>1, <2>4 DEF PopulateInvariant, ListsFollowBuses, Range
      <3>3. base.buses[k].stops[n] = db.stops[ptr]
        <4>1. /\ base.buses[k].stops[n] \in StopName
              /\ SearchStop(db, base.buses[k].stops[n]) = ptr
          BY <1>2, <3>1, <3>2
        <4>2. db.stop_names[base.buses[k].stops[n]] = ptr
          BY <1>3, <4>1 DEF SearchStop
        <4> QED
          BY <2>1, <4>1, <4>2 DEF PopulateInvariant, NamesLeadToLastStops
      <3> QED
        BY <1>2, <3>1, <3>2, <3>3 DEF BusesNaming
    <2> QED
      BY <2>2, <2>3, <2>4 DEF BusesNaming
  <1>5. GetAllStopStats(db) =
            {db.stops[ptr] : ptr \in {p \in GetStopsHolder(db) : GetStop(db, db.stops[p]) # {}}}
    <2>1. ASSUME NEW ptr \in StopPtrs(db), db.stop_to_buses[ptr] # {}
          PROVE  ptr \in GetStopsHolder(db)
      <3>1. PICK k \in db.stop_to_buses[ptr] : TRUE
        BY <2>1
      <3>2. k \in BusPtrs(db)
        BY <1>1, <1>3, <2>1, <3>1
      <3>3. PICK n \in DOMAIN db.buses[k].stops : db.buses[k].stops[n] = ptr
        BY <2>1, <3>1 DEF PopulateInvariant, ListsFollowBuses, Range
      <3>4. ptr \in GetStopsHolder(db) \cup {Null}
        BY <3>2, <3>3 DEF PopulateInvariant, BusesUseNamedStops
      <3>5. ptr # Null
        BY <2>1, PopulateAssumption DEF PopulateInvariant, PopulateTypeOK, StopPtrs
      <3> QED
        BY <3>4, <3>5
    <2>2. ASSUME NEW ptr \in GetStopsHolder(db)
          PROVE  ptr \in StopPtrs(db) /\ (GetStop(db, db.stops[ptr]) # {} <=> db.stop_to_buses[ptr] # {})
      <3>1. ptr \in StopPtrs(db)
        BY HeldByItsName
      <3>2. Listed(ptr) # {} <=> db.stop_to_buses[ptr] # {}
        OBVIOUS
      <3> QED
        BY <1>4, <3>1, <3>2
    <2> QED
      BY <2>1, <2>2 DEF GetAllStopStats
  <1>6. ASSUME NEW ptr \in GetStopsHolder(db)
        PROVE  LET name   == db.stops[ptr]
                   listed == GetStop(db, name)
               IN  /\ BusesNaming(name, added) \subseteq listed
                   /\ listed \subseteq BusesNaming(name, last)
    BY <1>4, <1>6
  <1> HIDE DEF added
  <1> QED
    BY <1>5, <1>6 DEF StopsListTheirBuses, added

\* Every variable keeps its type, and every pointer of the catalogue is one of its
\* own elements (catalogue.cpp:10-37).
THEOREM PopulateTypes == PopulateSpec => []PopulateTypeOK
  <1>1. PopulateInvariant => PopulateTypeOK
    BY DEF PopulateInvariant
  <1> QED
    BY <1>1, PopulateInvariance, PTL

\* A bus holds the stop its name leads to in the end, whatever names are declared
\* twice (json_reader.cpp:141-146, 160-174).
THEOREM BusesAreOfNamedStops == PopulateSpec => []BusesUseNamedStops
  <1>1. PopulateInvariant => BusesUseNamedStops
    BY DEF PopulateInvariant
  <1> QED
    BY <1>1, PopulateInvariance, PTL

\* The readers of the distances find what was declared (catalogue.cpp:18-28,
\* 55-66).
THEOREM DistancesAreDeclared == PopulateSpec => []DistancesAsDeclared
  BY FollowedDistances, PopulateInvariance, PTL

\* A stop answers with the buses declared to call there (catalogue.cpp:30-37,
\* 92-113).
THEOREM StopsListBuses == PopulateSpec => []StopsListTheirBuses
  BY FollowedLists, PopulateInvariance, PTL
=============================================================================
