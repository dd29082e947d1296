------------------------- MODULE MapRenderer_proofs -------------------------
(***************************************************************************)
(* Proofs about MapRenderer for every catalogue that Populate can fill,    *)
(* wherever its stops are, and all settings.                               *)
(***************************************************************************)
EXTENDS MapRendererInvariant, Populate_proofs, InductionLemmas, FiniteSetTheorems

-----------------------------------------------------------------------------
(* Finite sets. *)

\* One of the numbers is the least and one the greatest.
HasExtremes(n, f) ==
    /\ \E i \in 1 .. n + 1 : \A k \in 1 .. n + 1 : f[i] <= f[k]
    /\ \E i \in 1 .. n + 1 : \A k \in 1 .. n + 1 : f[k] <= f[i]

LEMMA ExtremesOfMany == \A n \in Nat : \A f \in [1 .. n + 1 -> Int] : HasExtremes(n, f)
  <1> DEFINE S == {n \in Nat : \A f \in [1 .. n + 1 -> Int] : HasExtremes(n, f)}
  <1>1. 0 \in S
    <2> SUFFICES ASSUME NEW f \in [1 .. 0 + 1 -> Int] PROVE HasExtremes(0, f)
      OBVIOUS
    <2>1. 1 \in 1 .. 0 + 1 /\ \A k \in 1 .. 0 + 1 : k = 1 /\ f[k] \in Int
      OBVIOUS
    <2> QED
      BY <2>1 DEF HasExtremes
  <1>2. ASSUME NEW n \in Nat, n \in S
        PROVE  n + 1 \in S
    <2> SUFFICES ASSUME NEW f \in [1 .. (n + 1) + 1 -> Int] PROVE HasExtremes(n + 1, f)
      OBVIOUS
    <2> DEFINE g == [k \in 1 .. n + 1 |-> f[k]]
    <2>0. g \in [1 .. n + 1 -> Int]
      OBVIOUS
    <2>1. HasExtremes(n, g)
      BY <1>2, <2>0
    <2>2. PICK i \in 1 .. n + 1 : \A k \in 1 .. n + 1 : f[i] <= f[k]
      BY <2>1 DEF HasExtremes
    <2>3. PICK j \in 1 .. n + 1 : \A k \in 1 .. n + 1 : f[k] <= f[j]
      BY <2>1 DEF HasExtremes
    <2>4. /\ \A k \in 1 .. (n + 1) + 1 : f[k] \in Int /\ (k \in 1 .. n + 1 \/ k = n + 2)
          /\ n + 2 \in 1 .. (n + 1) + 1 /\ i \in 1 .. (n + 1) + 1 /\ j \in 1 .. (n + 1) + 1
      OBVIOUS
    <2>5. \E m \in 1 .. (n + 1) + 1 : \A k \in 1 .. (n + 1) + 1 : f[m] <= f[k]
      <3>1. CASE f[i] <= f[n + 2]
        BY <2>2, <2>4, <3>1
      <3>2. CASE ~(f[i] <= f[n + 2])
        <4>1. \A k \in 1 .. (n + 1) + 1 : f[n + 2] <= f[k]
          BY <2>2, <2>4, <3>2
        <4> QED
          BY <2>4, <4>1
      <3> QED
        BY <3>1, <3>2
    <2>6. \E m \in 1 .. (n + 1) + 1 : \A k \in 1 .. (n + 1) + 1 : f[k] <= f[m]
      <3>1. CASE f[n + 2] <= f[j]
        BY <2>3, <2>4, <3>1
      <3>2. CASE ~(f[n + 2] <= f[j])
        <4>1. \A k \in 1 .. (n + 1) + 1 : f[k] <= f[n + 2]
          BY <2>3, <2>4, <3>2
        <4> QED
          BY <2>4, <4>1
      <3> QED
        BY <3>1, <3>2
    <2> QED
      BY <2>5, <2>6 DEF HasExtremes
  <1> HIDE DEF S
  <1>3. \A n \in Nat : n \in S
    BY <1>1, <1>2, SetInduction
  <1> QED
    BY <1>3 DEF S

\* What Min and Max of FiniteSetsExt give.
LEMMA LeastAndGreatest ==
    ASSUME NEW S, S \subseteq Int, IsFiniteSet(S), S # {}
    PROVE  /\ Min(S) \in S /\ \A x \in S : Min(S) <= x
           /\ Max(S) \in S /\ \A x \in S : x <= Max(S)
  <1>1. Cardinality(S) \in Nat /\ Cardinality(S) # 0 /\ ExistsBijection(1 .. Cardinality(S), S)
    BY FS_CardinalityType, FS_EmptySet
  <1>2. PICK n \in Nat : Cardinality(S) = n + 1
    <2>1. Cardinality(S) - 1 \in Nat /\ Cardinality(S) = (Cardinality(S) - 1) + 1
      BY <1>1
    <2> QED
      BY <2>1
  <1>3. PICK f \in [1 .. n + 1 -> S] : \A x \in S : \E k \in 1 .. n + 1 : f[k] = x
    BY <1>1, <1>2 DEF ExistsBijection, Bijection, Surjection, Injection
  <1>4. f \in [1 .. n + 1 -> Int]
    BY <1>3
  <1>5. PICK i \in 1 .. n + 1 : \A k \in 1 .. n + 1 : f[i] <= f[k]
    BY <1>4, ExtremesOfMany DEF HasExtremes
  <1>6. PICK j \in 1 .. n + 1 : \A k \in 1 .. n + 1 : f[k] <= f[j]
    BY <1>4, ExtremesOfMany DEF HasExtremes
  <1>7. \E x \in S : \A y \in S : x <= y
    BY <1>3, <1>5
  <1>8. \E x \in S : \A y \in S : x >= y
    BY <1>3, <1>4, <1>6
  <1>9. Min(S) \in S /\ \A x \in S : Min(S) <= x
    BY <1>7 DEF Min
  <1>10. Max(S) \in S /\ \A x \in S : Max(S) >= x
    BY <1>8 DEF Max
  <1> QED
    BY <1>9, <1>10

\* A std::set in its order: each element once.
LEMMA EachInOrder ==
    ASSUME NEW S, IsFiniteSet(S)
    PROVE  /\ InOrder(S) \in Seq(S) /\ Len(InOrder(S)) = Cardinality(S)
           /\ DOMAIN InOrder(S) = 1 .. Cardinality(S) /\ Cardinality(S) \in Nat
           /\ \A i, k \in 1 .. Cardinality(S) : InOrder(S)[i] = InOrder(S)[k] => i = k
           /\ \A x \in S : \E i \in 1 .. Cardinality(S) : InOrder(S)[i] = x
  <1> DEFINE n == Cardinality(S)
             list == InOrder(S)
  <1>1. n \in Nat /\ ExistsBijection(1 .. n, S)
    BY FS_CardinalityType
  <1>2. \E f \in [1 .. n -> S] : IsInjective(f)
    BY <1>1 DEF ExistsBijection, Bijection, Injection, IsInjective
  <1>3. list \in [1 .. n -> S] /\ IsInjective(list)
    BY <1>2 DEF InOrder, SetToSeq
  <1>4. list \in Injection(1 .. n, S)
    BY <1>3 DEF Injection, IsInjective
  <1>5. IsFiniteSet(1 .. n) /\ Cardinality(1 .. n) = n
    BY <1>1, FS_Interval
  <1>6. list \in Surjection(1 .. n, S)
    BY <1>4, <1>5, FS_Injection
  <1>7. \A x \in S : \E i \in 1 .. n : list[i] = x
    BY <1>6 DEF Surjection
  <1>8. list \in Seq(S) /\ Len(list) = n /\ DOMAIN list = 1 .. n
    BY <1>1, <1>3
  <1> QED
    BY <1>1, <1>3, <1>7, <1>8 DEF IsInjective

\* Finitely many names.
LEMMA NamesAreFinite ==
    ASSUME NEW n \in Nat, NEW f, NEW S \in SUBSET (1 .. n)
    PROVE  IsFiniteSet({f[k] : k \in S})
  <1>1. IsFiniteSet(1 .. n)
    BY FS_Interval
  <1>3. IsFiniteSet(S)
    BY <1>1, FS_Subset
  <1> DEFINE g == [k \in S |-> f[k]]
             T == {f[k] : k \in S}
  <1>2. g \in Surjection(S, T)
    BY DEF Surjection
  <1> QED
    BY <1>2, <1>3, FS_Surjection

-----------------------------------------------------------------------------
(* The objects that are drawn. *)

\* The setters set what they are given and leave the rest.
LEMMA SetFields ==
    ASSUME NEW object, NEW properties
    PROVE  DOMAIN Set(object, properties) = DOMAIN properties \cup DOMAIN object
  BY DEF Set

LEMMA FieldSet ==
    ASSUME NEW object, NEW properties, NEW field \in DOMAIN properties
    PROVE  Set(object, properties)[field] = properties[field]
  BY DEF Set

LEMMA FieldLeft ==
    ASSUME NEW object, NEW properties, NEW field \in DOMAIN object, field \notin DOMAIN properties
    PROVE  Set(object, properties)[field] = object[field]
  BY DEF Set

\* A polyline leads to the stops of the trip.
LEMMA LineObject ==
    ASSUME NEW name, NEW color
    PROVE  /\ BusLineLine(name, color).tag = "polyline"
           /\ BusLineLine(name, color).of = name
           /\ BusLineLine(name, color).stroke = color
           /\ BusLineLine(name, color).points =
                [i \in DOMAIN Trip(BusNamed(name)) |-> Project(coords[Trip(BusNamed(name))[i]])]
  <1> DEFINE trip == Trip(BusNamed(name))
             points == [i \in DOMAIN trip |-> Project(coords[trip[i]])]
  <1>1. PICK props :
            /\ props = [of |-> name, points |-> points, stroke |-> color, fill |-> NoneColor,
                        width |-> settings.line_width, line_cap |-> "round", line_join |-> "round"]
            /\ BusLineLine(name, color) = Set(Polyline, props)
    BY DEF BusLineLine
  <1> HIDE DEF points
  <1>2. /\ DOMAIN props = {"of", "points", "stroke", "fill", "width", "line_cap", "line_join"}
        /\ props["of"] = name /\ props["points"] = points /\ props["stroke"] = color
    BY <1>1
  <1>3. "tag" \in DOMAIN Polyline /\ Polyline["tag"] = "polyline"
    BY DEF Polyline
  <1>4. PICK line : line = Set(Polyline, props)
    OBVIOUS
  <1>5. /\ line["tag"] = "polyline" /\ line["of"] = name /\ line["stroke"] = color
        /\ line["points"] = points
    BY <1>2, <1>3, <1>4, SetFields, FieldSet, FieldLeft
  <1> QED
    BY <1>1, <1>4, <1>5 DEF points

LEMMA CircleObject ==
    ASSUME NEW name
    PROVE  LET circle == StopCircle(name)
           IN  /\ circle.tag = "circle" /\ circle.of = name
               /\ circle.center = Project(Place(name))
  <1>1. PICK props :
            /\ props = [of |-> name, center |-> Project(Place(name)),
                        radius |-> settings.stop_radius, fill |-> White]
            /\ StopCircle(name) = Set(Circle, props)
    BY DEF StopCircle
  <1>2. /\ DOMAIN props = {"of", "center", "radius", "fill"}
        /\ props["of"] = name /\ props["center"] = Project(Place(name))
    BY <1>1
  <1>3. "tag" \in DOMAIN Circle /\ Circle["tag"] = "circle"
    BY DEF Circle
  <1>4. PICK circle : circle = Set(Circle, props)
    OBVIOUS
  <1>5. /\ circle["tag"] = "circle" /\ circle["of"] = name /\ circle["center"] = Project(Place(name))
    BY <1>2, <1>3, <1>4, SetFields, FieldSet, FieldLeft
  <1> QED
    BY <1>1, <1>4, <1>5

\* An underlayer, and a label on it.
IsLabel(pair, name, point, color) ==
    /\ pair \in Seq(Range(pair)) /\ Len(pair) = 2
    /\ \A i \in 1 .. 2 : pair[i].tag = "text" /\ pair[i].of = name /\ pair[i].position = point
    /\ "stroke" \in DOMAIN pair[1] /\ "stroke" \notin DOMAIN pair[2]
    /\ pair[2].fill = color
    /\ DOMAIN Text \subseteq DOMAIN pair[2] /\ pair[1] = Underlayer(pair[2])

LEMMA LabelObjects ==
    ASSUME NEW name, NEW place, NEW label, NEW props, NEW color,
           props = [fill |-> color, font_weight |-> "bold"] \/ props = [fill |-> color]
    PROVE  IsLabel(Label(name, place, label, props), name, Project(place), color)
  <1>1. PICK own :
            own = [of |-> name, position |-> Project(place), offset |-> label.offset,
                   font_size |-> AsUint32(label.font_size), font_family |-> "Verdana",
                   content |-> Spelling[name]]
    OBVIOUS
  <1>2. PICK over :
            over = [fill |-> settings.underlayer.color, width |-> settings.underlayer.width,
                    stroke |-> settings.underlayer.color, line_cap |-> "round", line_join |-> "round"]
    OBVIOUS
  <1>3. PICK first : first = Set(Text, props)
    OBVIOUS
  <1>4. PICK text : text = Set(first, own)
    OBVIOUS
  <1>5. PICK back : back = Set(text, over)
    OBVIOUS
  <1>21. LabelText(name, place, label, props) = text
    BY <1>1, <1>3, <1>4 DEF LabelText
  <1>22. Underlayer(text) = back
    BY <1>2, <1>5 DEF Underlayer
  <1>6. Label(name, place, label, props) = <<back, text>>
    BY <1>21, <1>22 DEF Label
  <1>7. /\ DOMAIN own = {"of", "position", "offset", "font_size", "font_family", "content"}
        /\ own["of"] = name /\ own["position"] = Project(place)
    BY <1>1
  <1>8. /\ DOMAIN over = {"fill", "width", "stroke", "line_cap", "line_join"}
    BY <1>2
  <1>9. /\ DOMAIN props \in {{"fill", "font_weight"}, {"fill"}} /\ props["fill"] = color
    OBVIOUS
  <1>10. /\ DOMAIN Text = {"tag", "position", "offset", "font_size", "content"}
         /\ Text["tag"] = "text"
    BY DEF Text
  <1>11. /\ DOMAIN first = DOMAIN props \cup DOMAIN Text
         /\ first["tag"] = "text" /\ first["fill"] = color
    <2>1. DOMAIN first = DOMAIN props \cup DOMAIN Text
      BY <1>3, SetFields
    <2>2. "fill" \in DOMAIN props /\ "tag" \notin DOMAIN props /\ "tag" \in DOMAIN Text
      BY <1>9, <1>10
    <2>3. first["tag"] = "text"
      BY <1>3, <1>10, <2>2, FieldLeft
    <2>4. first["fill"] = color
      BY <1>3, <1>9, <2>2, FieldSet
    <2> QED
      BY <2>1, <2>3, <2>4
  <1>12. /\ DOMAIN text = DOMAIN own \cup DOMAIN first
         /\ text["of"] = name /\ text["position"] = Project(place)
    <2>1. DOMAIN text = DOMAIN own \cup DOMAIN first
      BY <1>4, SetFields
    <2>2. "of" \in DOMAIN own /\ "position" \in DOMAIN own
      BY <1>7
    <2>3. text["of"] = name /\ text["position"] = Project(place)
      BY <1>4, <1>7, <2>2, FieldSet
    <2> QED
      BY <2>1, <2>3
  <1>13. "tag" \in DOMAIN first \ DOMAIN own /\ "fill" \in DOMAIN first \ DOMAIN own
    BY <1>7, <1>9, <1>10, <1>11
  <1>14. text["tag"] = "text" /\ text["fill"] = color
    BY <1>4, <1>11, <1>13, SetFields, FieldSet, FieldLeft
  <1>15. "stroke" \notin DOMAIN text /\ "stroke" \in DOMAIN back
    <2>1. DOMAIN back = DOMAIN over \cup DOMAIN text
      BY <1>5, SetFields
    <2> QED
      BY <2>1, <1>7, <1>8, <1>9, <1>10, <1>11, <1>12
  <1>16. {"tag", "of", "position"} \subseteq DOMAIN text \ DOMAIN over
    BY <1>7, <1>8, <1>9, <1>10, <1>11, <1>12
  <1>17. back["tag"] = "text" /\ back["of"] = name /\ back["position"] = Project(place)
    BY <1>5, <1>12, <1>14, <1>16, SetFields, FieldSet, FieldLeft
  <1>18. PICK pair : pair = <<back, text>>
    OBVIOUS
  <1>19. /\ Len(pair) = 2 /\ pair[1] = back /\ pair[2] = text
         /\ pair \in Seq({back, text}) /\ DOMAIN pair = {1, 2}
    BY <1>18
  <1>20. Range(pair) = {back, text}
    BY <1>19 DEF Range
  <1>23. DOMAIN Text \subseteq DOMAIN text
    BY <1>11, <1>12
  <1> QED
    BY <1>6, <1>12, <1>14, <1>15, <1>17, <1>18, <1>19, <1>20, <1>22, <1>23 DEF IsLabel

-----------------------------------------------------------------------------
(* The catalogue that is drawn. *)

\* Every stop of a bus is the one its name leads to, and has an answer.
LEMMA StopsOfBuses ==
    ASSUME PopulateInvariant, stage = "populated", NEW ptr \in BusPtrs(db),
           NEW stop \in Range(db.buses[ptr].stops)
    PROVE  /\ stop \in StopPtrs(db) /\ stop \in GetStopsHolder(db)
           /\ db.stops[stop] \in GetAllStopStats(db) /\ db.stops[stop] \in StopName
           /\ SearchStop(db, db.stops[stop]) = stop
  <1>1. PICK n \in DOMAIN db.buses[ptr].stops : stop = db.buses[ptr].stops[n]
    BY DEF Range
  <1>2. ListsFollowBuses /\ BusesUseNamedStops /\ PopulateTypeOK
    BY DEF PopulateInvariant
  <1>3. stop # Null /\ \E listed \in db.stop_to_buses[stop] : db.buses[listed].name = db.buses[ptr].name
    BY <1>1, <1>2 DEF ListsFollowBuses, Returned
  <1>4. stop \in GetStopsHolder(db) \cup {Null}
    BY <1>1, <1>2 DEF BusesUseNamedStops
  <1>5. stop \in GetStopsHolder(db)
    BY <1>3, <1>4
  <1>6. /\ stop \in StopPtrs(db) /\ db.stops[stop] \in StopName
        /\ SearchStop(db, db.stops[stop]) = stop
    BY <1>5, HeldByItsName
  <1>7. db.stops[stop] \in GetAllStopStats(db)
    BY <1>3, <1>6 DEF GetAllStopStats
  <1> QED
    BY <1>5, <1>6, <1>7

\* Whatever has an answer is a stop that some bus calls at.
LEMMA StatsOnBuses ==
    ASSUME PopulateInvariant, stage = "populated", NEW ptr \in StopPtrs(db),
           NEW bus \in db.stop_to_buses[ptr]
    PROVE  /\ bus \in BusPtrs(db) /\ ptr \in Range(db.buses[bus].stops)
           /\ SearchStop(db, db.stops[ptr]) = ptr
  <1>1. ListsFollowBuses /\ PopulateTypeOK
    BY DEF PopulateInvariant
  <1>2. bus \in BusPtrs(db)
    BY <1>1 DEF PopulateTypeOK
  <1>3. ptr \in Range(db.buses[bus].stops)
    BY <1>1 DEF ListsFollowBuses
  <1> QED
    BY <1>2, <1>3, StopsOfBuses

LEMMA StopsOfStats ==
    ASSUME PopulateInvariant, stage = "populated", NEW name \in GetAllStopStats(db)
    PROVE  /\ SearchStop(db, name) \in StopPtrs(db) /\ db.stops[SearchStop(db, name)] = name
           /\ name \in StopName
           /\ \E bus \in db.stop_to_buses[SearchStop(db, name)] :
                bus \in BusPtrs(db) /\ SearchStop(db, name) \in Range(db.buses[bus].stops)
  <1>1. PICK ptr \in StopPtrs(db) : db.stop_to_buses[ptr] # {} /\ db.stops[ptr] = name
    BY DEF GetAllStopStats
  <1>2. PICK bus \in db.stop_to_buses[ptr] : TRUE
    BY <1>1
  <1>3. /\ bus \in BusPtrs(db) /\ ptr \in Range(db.buses[bus].stops)
        /\ SearchStop(db, db.stops[ptr]) = ptr
    BY StatsOnBuses
  <1>4. db.stops[ptr] \in StopName
    BY <1>3, StopsOfBuses
  <1> QED
    BY <1>1, <1>3, <1>4

\* The last bus of a name is the one that the name leads to.
LEMMA BusOfRoute ==
    ASSUME PopulateInvariant, NEW name \in GetAllBusLines(db)
    PROVE  /\ name \in BusName /\ SearchBus(db, name) \in GetBusesHolder(db)
           /\ SearchBus(db, name) \in BusPtrs(db) /\ BusNamed(name) = db.buses[SearchBus(db, name)]
           /\ BusNamed(name).name = name
           /\ BusNamed(name).stops \in Seq(StopPtr \cup {Null})
  <1>1. PICK ptr \in BusPtrs(db) : db.buses[ptr].name = name
    BY DEF GetAllBusLines
  <1>2. NamesLeadToLastBuses /\ PopulateTypeOK
    BY DEF PopulateInvariant
  <1>3. name \in BusName
    <2>1. db.buses[ptr] \in Bus
      BY <1>1, <1>2 DEF PopulateTypeOK, BusPtrs
    <2> QED
      BY <1>1, <2>1 DEF Bus
  <1>4. /\ db.bus_names[name] # Null /\ db.bus_names[name] \in BusPtrs(db)
        /\ db.buses[db.bus_names[name]].name = name
    BY <1>1, <1>2, <1>3 DEF NamesLeadToLastBuses
  <1>5. SearchBus(db, name) = db.bus_names[name]
    BY <1>2, <1>3 DEF SearchBus, PopulateTypeOK
  <1>6. SearchBus(db, name) \in GetBusesHolder(db)
    BY <1>3, <1>4, <1>5 DEF GetBusesHolder
  <1>7. db.buses[db.bus_names[name]] \in Bus
    BY <1>2, <1>4 DEF PopulateTypeOK, BusPtrs
  <1> QED
    BY <1>3, <1>4, <1>5, <1>6, <1>7 DEF BusNamed, Bus

LEMMA RouteHasStops ==
    ASSUME PopulateInvariant, NEW name \in GetAllBusLines(db), ~GetBusLineCrashes(db, name)
    PROVE  BusNamed(name).stops # << >>
  <1>1. SearchBus(db, name) \in GetBusesHolder(db) /\ BusNamed(name) = db.buses[SearchBus(db, name)]
    BY BusOfRoute
  <1>2. SearchBus(db, name) # Null
    BY <1>1 DEF GetBusesHolder
  <1> QED
    BY <1>1, <1>2 DEF GetBusLineCrashes

LEMMA RouteOfBus ==
    ASSUME PopulateInvariant, NEW ptr \in GetBusesHolder(db)
    PROVE  /\ db.buses[ptr].name \in GetAllBusLines(db)
           /\ BusNamed(db.buses[ptr].name) = db.buses[ptr]
  <1>1. PICK name \in BusName : ptr = db.bus_names[name] /\ ptr # Null
    BY DEF GetBusesHolder
  <1>2. NamesLeadToLastBuses /\ PopulateTypeOK
    BY DEF PopulateInvariant
  <1>3. ptr \in BusPtrs(db) /\ db.buses[ptr].name = name
    BY <1>1, <1>2 DEF NamesLeadToLastBuses
  <1>4. SearchBus(db, name) = ptr
    BY <1>1, <1>2 DEF SearchBus, PopulateTypeOK
  <1> QED
    BY <1>3, <1>4 DEF GetAllBusLines, BusNamed

\* Lines and stops, in the order of their sets.
LEMMA RoutesInOrder ==
    ASSUME PopulateInvariant
    PROVE  /\ Len(Routes) \in Nat /\ DOMAIN Routes = 1 .. Len(Routes)
           /\ \A i \in 1 .. Len(Routes) : Routes[i] \in GetAllBusLines(db)
           /\ \A i, k \in 1 .. Len(Routes) : Routes[i] = Routes[k] => i = k
           /\ \A name \in GetAllBusLines(db) : \E i \in 1 .. Len(Routes) : Routes[i] = name
  <1>1. PICK n \in Nat : n = Len(db.buses) /\ BusPtrs(db) = 1 .. n
    BY DEF PopulateInvariant, PopulateTypeOK, BusPtrs
  <1>2. PICK f : f = [ptr \in 1 .. n |-> db.buses[ptr].name]
    OBVIOUS
  <1>3. GetAllBusLines(db) = {f[ptr] : ptr \in 1 .. n}
    BY <1>1, <1>2 DEF GetAllBusLines
  <1>4. IsFiniteSet(GetAllBusLines(db))
    BY <1>3, NamesAreFinite
  <1> QED
    BY <1>4, EachInOrder DEF Routes

LEMMA StatsAreFinite ==
    ASSUME PopulateInvariant
    PROVE  IsFiniteSet(GetAllStopStats(db))
  <1>1. PICK n \in Nat : n = Len(db.stops) /\ StopPtrs(db) = 1 .. n
    BY DEF PopulateInvariant, PopulateTypeOK, StopPtrs
  <1>2. PICK S \in SUBSET (1 .. n) : S = {p \in StopPtrs(db) : db.stop_to_buses[p] # {}}
    BY <1>1
  <1>3. GetAllStopStats(db) = {db.stops[ptr] : ptr \in S}
    BY <1>2 DEF GetAllStopStats
  <1> QED
    BY <1>3, NamesAreFinite

LEMMA StatsInOrder ==
    ASSUME PopulateInvariant
    PROVE  /\ Len(StopStats) \in Nat /\ DOMAIN StopStats = 1 .. Len(StopStats)
           /\ \A i \in 1 .. Len(StopStats) : StopStats[i] \in GetAllStopStats(db)
           /\ \A i, k \in 1 .. Len(StopStats) : StopStats[i] = StopStats[k] => i = k
           /\ \A name \in GetAllStopStats(db) : \E i \in 1 .. Len(StopStats) : StopStats[i] = name
  BY StatsAreFinite, EachInOrder DEF StopStats

-----------------------------------------------------------------------------
(* What a step of RenderMap leaves as it is. *)

\* A trip leads to the stops of its bus, and to no other.
LEMMA TripStops ==
    ASSUME NEW bus, NEW S, bus.stops \in Seq(S), bus.stops # << >>
    PROVE  /\ Trip(bus) \in Seq(S) /\ Len(bus.stops) <= Len(Trip(bus))
           /\ Range(Trip(bus)) = Range(bus.stops)
           /\ \A i \in 1 .. Len(bus.stops) : Trip(bus)[i] = bus.stops[i]
           /\ bus.is_roundtrip => Trip(bus) = bus.stops
  <1>1. CASE bus.is_roundtrip
    BY <1>1 DEF Trip
  <1>2. CASE ~bus.is_roundtrip
    <2>1. PICK stops \in Seq(S) : stops = bus.stops
      OBVIOUS
    <2>2. PICK n \in Nat : n = Len(stops)
      BY <2>1
    <2>3. n > 0 /\ DOMAIN stops = 1 .. n
      BY <2>1, <2>2
    <2>4. PICK back : back = Reverse(stops)
      OBVIOUS
    <2>5. /\ back = [i \in 1 .. n |-> stops[(n - i) + 1]]
          /\ \A i \in 1 .. n : (n - i) + 1 \in 1 .. n
      BY <2>2, <2>4 DEF Reverse
    <2>6. back \in Seq(S) /\ Len(back) = n /\ back # << >>
      BY <2>1, <2>3, <2>5
    <2>15. Tail(back) \in Seq(S)
      BY <2>6
    <2>7. PICK tail \in Seq(S) : tail = Tail(back)
      BY <2>15
    <2>8. Len(tail) = n - 1 /\ \A i \in 1 .. n - 1 : tail[i] = back[i + 1]
      BY <2>3, <2>6, <2>7
    <2>9. PICK trip : trip = stops \o tail
      OBVIOUS
    <2>10. Trip(bus) = trip
      BY <1>2, <2>1, <2>4, <2>7, <2>9 DEF Trip
    <2>11. /\ trip \in Seq(S) /\ Len(trip) = n + (n - 1) /\ DOMAIN trip = 1 .. n + (n - 1)
           /\ \A i \in 1 .. n : trip[i] = stops[i]
           /\ \A i \in 1 .. n - 1 : trip[n + i] = tail[i]
      <3>1. trip \in Seq(S) /\ Len(trip) = Len(stops) + Len(tail)
        BY <2>9
      <3>2. \A i \in 1 .. Len(stops) + Len(tail) :
                trip[i] = IF i <= Len(stops) THEN stops[i] ELSE tail[i - Len(stops)]
        BY <2>9
      <3>3. /\ \A i \in 1 .. n : i \in 1 .. n + (n - 1) /\ i <= n
            /\ \A i \in 1 .. n - 1 : n + i \in 1 .. n + (n - 1) /\ ~(n + i <= n) /\ (n + i) - n = i
        BY <2>3
      <3> QED
        BY <2>2, <2>8, <3>1, <3>2, <3>3
    <2>12. ASSUME NEW i \in DOMAIN trip
           PROVE  trip[i] \in Range(stops)
      <3>1. CASE i \in 1 .. n
        BY <2>3, <2>11, <3>1 DEF Range
      <3>2. CASE i \notin 1 .. n
        <4>1. i - n \in 1 .. n - 1 /\ i = n + (i - n)
          BY <2>11, <3>2
        <4>2. trip[i] = back[(i - n) + 1]
          BY <2>8, <2>11, <4>1
        <4>3. (i - n) + 1 \in 1 .. n
          BY <4>1
        <4>4. back[(i - n) + 1] = stops[(n - ((i - n) + 1)) + 1]
          BY <2>5, <4>3
        <4>5. (n - ((i - n) + 1)) + 1 \in 1 .. n
          BY <4>3
        <4> QED
          BY <2>3, <4>2, <4>4, <4>5 DEF Range
      <3> QED
        BY <3>1, <3>2
    <2>13. ASSUME NEW i \in DOMAIN stops
           PROVE  stops[i] \in Range(trip)
      <3>1. i \in DOMAIN trip /\ trip[i] = stops[i]
        BY <2>3, <2>11
      <3> QED
        BY <3>1 DEF Range
    <2>14. Range(trip) = Range(stops)
      BY <2>12, <2>13 DEF Range
    <2> QED
      BY <1>2, <2>1, <2>2, <2>3, <2>10, <2>11, <2>14
  <1> QED
    BY <1>1, <1>2

\* All that is drawn is drawn of these three.
LEMMA SamePicture ==
    ASSUME UNCHANGED <<db, coords, settings>>
    PROVE  /\ Routes' = Routes /\ StopStats' = StopStats
           /\ \A name : BusNamed(name)' = BusNamed(name) /\ Place(name)' = Place(name)
           /\ \A place : Project(place)' = Project(place)
           /\ \A n : GetBusLineColor(n)' = GetBusLineColor(n)
           /\ \A name, color : BusLineLine(name, color)' = BusLineLine(name, color)
           /\ \A name : StopCircle(name)' = StopCircle(name)
  <1>1. /\ Routes' = Routes /\ StopStats' = StopStats
        /\ \A name : BusNamed(name)' = BusNamed(name)
        /\ \A name : Place(name)' = Place(name)
        /\ \A n : GetBusLineColor(n)' = GetBusLineColor(n)
    BY DEF Routes, StopStats, BusNamed, Place, GetBusLineColor
  <1>2. Lngs' = Lngs /\ Lats' = Lats /\ Width' = Width /\ Height' = Height /\ Padding' = Padding
    BY <1>1 DEF Lngs, Lats, Width, Height, Padding
  <1>3. Zooms' = Zooms
    BY <1>2 DEF Zooms
  <1>4. Zoom' = Zoom
    BY <1>3 DEF Zoom
  <1>5. \A place : Project(place)' = Project(place)
    BY <1>2, <1>4 DEF Project
  <1>6. \A name, color : BusLineLine(name, color)' = BusLineLine(name, color)
    BY <1>1, <1>5 DEF BusLineLine
  <1>7. \A name : StopCircle(name)' = StopCircle(name)
    BY <1>1, <1>5 DEF StopCircle
  <1> QED
    BY <1>1, <1>5, <1>6, <1>7

\* Objects are added behind those that are there.
LEMMA ObjectsAdded ==
    ASSUME document \in Seq(Range(document)), NEW objects, objects \in Seq(Range(objects)), Draw(objects)
    PROVE  /\ Len(document) \in Nat /\ DOMAIN document = 1 .. Len(document)
           /\ Len(objects) \in Nat /\ DOMAIN objects = 1 .. Len(objects)
           /\ Len(document') = Len(document) + Len(objects)
           /\ DOMAIN document' = 1 .. Len(document) + Len(objects)
           /\ document' \in Seq(Range(document'))
           /\ \A i \in 1 .. Len(document) : document'[i] = document[i]
           /\ \A i \in 1 .. Len(objects) : document'[Len(document) + i] = objects[i]
           /\ \A i \in DOMAIN document' : i \in 1 .. Len(document)
                \/ \E k \in 1 .. Len(objects) : i = Len(document) + k
  <1>1. PICK S : S = Range(document) \cup Range(objects)
    OBVIOUS
  <1>2. PICK doc \in Seq(S) : doc = document
    BY <1>1
  <1>3. PICK new \in Seq(S) : new = objects
    BY <1>1
  <1>4. PICK m \in Nat, n \in Nat : m = Len(doc) /\ n = Len(new)
    BY <1>2, <1>3
  <1>5. document' = doc \o new
    BY <1>2, <1>3 DEF Draw
  <1>6. /\ document' \in Seq(S) /\ Len(document') = m + n /\ DOMAIN document' = 1 .. m + n
        /\ \A i \in 1 .. m : document'[i] = doc[i]
        /\ \A i \in 1 .. n : document'[m + i] = new[i]
    BY <1>4, <1>5
  <1>7. document' \in Seq(Range(document'))
    <2>1. PICK doc2 \in Seq(S) : doc2 = document'
      BY <1>6
    <2>2. \A i \in 1 .. Len(doc2) : doc2[i] \in Range(doc2)
      BY DEF Range
    <2>3. PICK k \in Nat : k = Len(doc2)
      OBVIOUS
    <2>4. doc2 = [i \in 1 .. k |-> doc2[i]]
      BY <2>3
    <2>5. doc2 \in [1 .. k -> Range(doc2)]
      BY <2>2, <2>3, <2>4
    <2>6. doc2 \in Seq(Range(doc2))
      BY <2>5
    <2> QED
      BY <2>1, <2>6
  <1>8. ASSUME NEW i \in 1 .. m + n
        PROVE  i \in 1 .. m \/ \E k \in 1 .. n : i = m + k
    <2>1. CASE i \notin 1 .. m
      <3>1. i - m \in 1 .. n /\ i = m + (i - m)
        BY <2>1
      <3> QED
        BY <3>1
    <2> QED
      BY <2>1
  <1> QED
    BY <1>2, <1>3, <1>4, <1>6, <1>7, <1>8

\* A list of objects: those of a kind, and the labels of a name among them.
Kind(objects, tag) == {k \in DOMAIN objects : objects[k].tag = tag}
LabelsIn(objects) == {k \in Kind(objects, "text") : "stroke" \notin DOMAIN objects[k]}
LabelsAmong(objects, name) == {k \in LabelsIn(objects) : objects[k].of = name}

LEMMA TagsAdded ==
    ASSUME document \in Seq(Range(document)), NEW objects, objects \in Seq(Range(objects)), Draw(objects)
    PROVE  /\ \A tag : Tagged(tag)' = Tagged(tag) \cup {Len(document) + k : k \in Kind(objects, tag)}
           /\ \A name : LabelsOf(name)' = LabelsOf(name) \cup
                                {Len(document) + k : k \in LabelsAmong(objects, name)}
           /\ Labels' = Labels \cup {Len(document) + k : k \in LabelsIn(objects)}
  <1>1. /\ Len(document) \in Nat /\ DOMAIN document = 1 .. Len(document)
        /\ Len(objects) \in Nat /\ DOMAIN objects = 1 .. Len(objects)
        /\ DOMAIN document' = 1 .. Len(document) + Len(objects)
        /\ \A i \in 1 .. Len(document) : document'[i] = document[i]
        /\ \A i \in 1 .. Len(objects) : document'[Len(document) + i] = objects[i]
        /\ \A i \in DOMAIN document' : i \in 1 .. Len(document)
                \/ \E k \in 1 .. Len(objects) : i = Len(document) + k
    BY ObjectsAdded
  <1>2. /\ \A k \in 1 .. Len(objects) : Len(document) + k \in DOMAIN document'
        /\ \A i \in 1 .. Len(document) : i \in DOMAIN document'
    BY <1>1
  <1>3. ASSUME NEW tag
        PROVE  Tagged(tag)' = Tagged(tag) \cup {Len(document) + k : k \in Kind(objects, tag)}
    BY <1>1, <1>2 DEF Tagged, Kind
  <1>4. \A i \in Tagged("text") : document'[i] = document[i]
    BY <1>1 DEF Tagged
  <1>5. \A k \in Kind(objects, "text") : document'[Len(document) + k] = objects[k]
    BY <1>1 DEF Kind
  <1>6. Labels' = Labels \cup {Len(document) + k : k \in LabelsIn(objects)}
    BY <1>3, <1>4, <1>5 DEF Labels, LabelsIn
  <1>7. ASSUME NEW name
        PROVE  LabelsOf(name)' = LabelsOf(name) \cup
                                {Len(document) + k : k \in LabelsAmong(objects, name)}
    <2>1. Labels \subseteq Tagged("text") /\ LabelsIn(objects) \subseteq Kind(objects, "text")
      BY DEF Labels, LabelsIn
    <2> QED
      BY <1>4, <1>5, <1>6, <2>1 DEF LabelsOf, LabelsAmong
  <1> QED
    BY <1>3, <1>6, <1>7

\* The name of a line does not change under its labels.
LEMMA LabelsOfRoute ==
    ASSUME UNCHANGED <<db, coords, settings>>, NEW i, \A name : LabelsOf(name)' = LabelsOf(name)
    PROVE  LabelsOf(Routes[i])' = LabelsOf(Routes[i])
  <1>1. Routes' = Routes
    BY SamePicture
  <1>2. PICK name : name = Routes[i]
    OBVIOUS
  <1>3. LabelsOf(name)' = LabelsOf(name)
    OBVIOUS
  <1>4. LabelsOf(Routes[i])' = LabelsOf(name)'
    BY <1>1, <1>2 DEF LabelsOf
  <1> QED
    BY <1>2, <1>3, <1>4

\* What a step of RenderMap has drawn before is as it was.
LEMMA LinesKept ==
    ASSUME LinesFollowRoutes, UNCHANGED <<db, coords, settings>>, LinesDrawn' = LinesDrawn,
           Len(document) \in Nat, Len(document') \in Nat, Len(document) <= Len(document'),
           LinesDrawn \in Nat, drawing' # "lines", Tagged("polyline")' = Tagged("polyline"),
           \A i \in 1 .. Len(document) : document'[i] = document[i]
    PROVE  LinesFollowRoutes'
  <1>1. LinesDrawn <= Len(document)
    BY DEF LinesFollowRoutes
  <1>2. \A i \in 1 .. LinesDrawn : document'[i] = document[i]
    BY <1>1
  <1>3. \A i \in 1 .. LinesDrawn : document'[i] = BusLineLine(Routes[i], GetBusLineColor(i - 1))'
    BY <1>2, SamePicture DEF LinesFollowRoutes
  <1>4. (LinesDrawn <= Len(document))' /\ Tagged("polyline")' = 1 .. LinesDrawn
    BY <1>1 DEF LinesFollowRoutes
  <1> QED
    BY <1>3, <1>4 DEF LinesFollowRoutes

LEMMA LabelsOfLineKept ==
    ASSUME UNCHANGED <<db, coords, settings>>, NEW i \in 1 .. Len(Routes), HasItsLabels(i),
           LabelsOf(Routes[i])' = LabelsOf(Routes[i]),
           \A k \in LabelsOf(Routes[i]) : document'[k] = document[k]
    PROVE  HasItsLabels(i)'
  <1>1. PICK labels : labels = LabelsOf(Routes[i])
    OBVIOUS
  <1>2. PICK bus : bus = BusNamed(Routes[i])
    OBVIOUS
  <1>3. /\ Routes' = Routes /\ BusNamed(Routes[i])' = bus
        /\ Project(coords[bus.stops[1]])' = Project(coords[bus.stops[1]])
        /\ Project(coords[Last(bus.stops)])' = Project(coords[Last(bus.stops)])
        /\ GetBusLineColor(i - 1)' = GetBusLineColor(i - 1)
    BY <1>2, SamePicture
  <1>4. LabelsOf(Routes[i])' = labels
    BY <1>1
  <1>5. PICK last \in labels :
            /\ document[last].position = Project(coords[Last(bus.stops)])
            /\ IF HasTwoEnds(bus)
               THEN \E first \in labels :
                        /\ first # last /\ labels = {first, last}
                        /\ document[first].position = Project(coords[bus.stops[1]])
               ELSE labels = {last}
    BY <1>1, <1>2 DEF HasItsLabels
  <1>6. \A k \in labels : k > Len(Routes)' /\ document'[k].fill = GetBusLineColor(i - 1)'
    BY <1>1, <1>3 DEF HasItsLabels
  <1>7. /\ document'[last].position = Project(coords[Last(bus.stops)])'
        /\ IF HasTwoEnds(bus)
           THEN \E first \in labels :
                    /\ first # last /\ labels = {first, last}
                    /\ document'[first].position = Project(coords[bus.stops[1]])'
           ELSE labels = {last}
    BY <1>1, <1>3, <1>5
  <1> QED
    BY <1>2, <1>3, <1>4, <1>6, <1>7 DEF HasItsLabels

LEMMA LabelsKept ==
    ASSUME LabelsFollowRoutes, UNCHANGED <<db, coords, settings>>, LinesNamed' = LinesNamed,
           \A i \in 1 .. Len(Routes) : LabelsOf(Routes[i])' = LabelsOf(Routes[i]),
           \A i \in 1 .. Len(Routes) : \A k \in LabelsOf(Routes[i]) : document'[k] = document[k]
    PROVE  LabelsFollowRoutes'
  <1>1. Routes' = Routes
    BY SamePicture
  <1>2. ASSUME NEW i \in 1 .. Len(Routes), i <= LinesNamed
        PROVE  HasItsLabels(i)'
    BY <1>2, LabelsOfLineKept DEF LabelsFollowRoutes
  <1>3. ASSUME NEW i \in 1 .. Len(Routes), ~(i <= LinesNamed)
        PROVE  LabelsOf(Routes[i])' = {}
    BY <1>3 DEF LabelsFollowRoutes
  <1> QED
    BY <1>1, <1>2, <1>3 DEF LabelsFollowRoutes

LEMMA CirclesKept ==
    ASSUME CirclesFollowStops, UNCHANGED <<db, coords, settings>>, StopsDrawn' = StopsDrawn,
           Tagged("circle")' = Tagged("circle"),
           \A i \in Tagged("circle") : document'[i] = document[i]
    PROVE  CirclesFollowStops'
  <1>1. StopStats' = StopStats /\ \A name : StopCircle(name)' = StopCircle(name)
    BY SamePicture
  <1> QED
    BY <1>1 DEF CirclesFollowStops

\* Texts may have been added, each at a stop.
LEMMA TextsKept ==
    ASSUME TextsAreAtStops, UNCHANGED <<db, coords, settings>>,
           \A i \in Tagged("text") : document'[i] = document[i],
           \A i \in Tagged("text")' \ Tagged("text") :
                \E name \in GetAllStopStats(db) : document'[i].position = Project(Place(name))
    PROVE  TextsAreAtStops'
  <1>1. /\ \A name : Place(name)' = Place(name) /\ \A place : Project(place)' = Project(place)
        /\ GetAllStopStats(db)' = GetAllStopStats(db)
    BY SamePicture
  <1> QED
    BY <1>1 DEF TextsAreAtStops

-----------------------------------------------------------------------------
(* The steps. *)

Loops == {"lines", "line labels", "stops", "stop labels"}

\* The loops run over what Populate has filled.
LEMMA InTurn ==
    ASSUME MapInvariant, drawing \in Loops
    PROVE  /\ stage = "populated" /\ PopulateInvariant
           /\ LinesFollowRoutes /\ LabelsFollowRoutes /\ CirclesFollowStops /\ TextsAreAtStops
           /\ LabelsFollowUnderlayers
           /\ Len(document) \in Nat /\ DOMAIN document = 1 .. Len(document)
           /\ counter \in Nat /\ LinesDrawn \in Nat /\ LinesNamed \in Nat /\ StopsDrawn \in Nat
           /\ LinesDrawn <= Len(document)
           /\ \A name \in GetAllBusLines(db) : ~GetBusLineCrashes(db, name)
  <1>1. drawing \notin {"waiting", "crashed"}
    BY DEF Loops
  <1>2. LoopsFollowCatalogue /\ document \in Seq(Range(document)) /\ PopulateInvariant
    BY DEF MapInvariant
  <1>3. /\ LinesFollowRoutes /\ LabelsFollowRoutes /\ CirclesFollowStops /\ TextsAreAtStops
        /\ LabelsFollowUnderlayers
    BY <1>1 DEF MapInvariant
  <1>4. /\ stage = "populated" /\ counter \in Nat
        /\ \A name \in GetAllBusLines(db) : ~GetBusLineCrashes(db, name)
    BY <1>1, <1>2 DEF LoopsFollowCatalogue
  <1>5. Len(Routes) \in Nat /\ Len(StopStats) \in Nat
    BY <1>2, RoutesInOrder, StatsInOrder
  <1>6. LinesDrawn \in Nat /\ LinesNamed \in Nat /\ StopsDrawn \in Nat
    BY <1>4, <1>5 DEF LinesDrawn, LinesNamed, StopsDrawn
  <1>7. Len(document) \in Nat /\ DOMAIN document = 1 .. Len(document)
    BY <1>2
  <1>8. LinesDrawn <= Len(document)
    <2>1. LinesDrawn = Len(document) \/ LinesDrawn <= Len(document)
      BY <1>3 DEF LinesFollowRoutes
    <2>2. PICK m \in Nat, n \in Nat : m = LinesDrawn /\ n = Len(document)
      BY <1>6, <1>7
    <2>3. m <= n
      BY <2>1, <2>2
    <2> QED
      BY <2>2, <2>3
  <1> QED
    BY <1>2, <1>3, <1>4, <1>6, <1>7, <1>8

LEMMA OneMore == \A m \in Nat : m + 1 \in Nat /\ \A n \in Nat : m < n => m + 1 <= n
  OBVIOUS

LEMMA TurnCounted ==
    ASSUME PopulateInvariant, LoopsFollowCatalogue, drawing \in Loops,
           UNCHANGED <<db, coords, settings, drawing, stage>>, counter' = counter + 1,
           \/ drawing \in {"lines", "line labels"} /\ counter < Len(Routes)
           \/ drawing \in {"stops", "stop labels"} /\ counter < Len(StopStats)
    PROVE  LoopsFollowCatalogue'
  <1>1. Routes' = Routes /\ StopStats' = StopStats
    BY SamePicture
  <1>2. counter \in Nat
    BY DEF LoopsFollowCatalogue
  <1>3. counter' \in Nat
    BY <1>2, OneMore, Zenon
  <1>4. Len(Routes) \in Nat /\ Len(StopStats) \in Nat
    BY RoutesInOrder, StatsInOrder
  <1>5. ASSUME counter < Len(Routes)
        PROVE  counter' <= Len(Routes)
    BY <1>2, <1>4, <1>5, OneMore, Zenon
  <1>6. ASSUME counter < Len(StopStats)
        PROVE  counter' <= Len(StopStats)
    BY <1>2, <1>4, <1>6, OneMore, Zenon
  <1>7. /\ drawing \in {"lines", "line labels"} => counter' <= Len(Routes)
        /\ drawing \in {"stops", "stop labels"} => counter' <= Len(StopStats)
    BY <1>5, <1>6
  <1> QED
    BY <1>1, <1>3, <1>7 DEF LoopsFollowCatalogue, Loops

\* A turn of a loop leaves the catalogue alone and adds its objects.
LEMMA TurnTaken ==
    ASSUME MapInvariant, drawing \in Loops, NEW objects, objects \in Seq(Range(objects)), Draw(objects),
           \A k \in 1 .. Len(objects) : objects[k].tag \in {"polyline", "circle", "text"},
           \/ drawing \in {"lines", "line labels"} /\ counter < Len(Routes)
           \/ drawing \in {"stops", "stop labels"} /\ counter < Len(StopStats),
           (LinesFollowRoutes /\ LabelsFollowRoutes /\ CirclesFollowStops /\ TextsAreAtStops)',
           LabelsFollowUnderlayers'
    PROVE  MapInvariant'
  <1>1. PopulateInvariant'
    <2>1. PopulateInvariant /\ UNCHANGED populateVars
      BY DEF MapInvariant, Draw
    <2> QED
      BY <2>1, PopulateStep
  <1>2. (base \in Bases /\ coords \in Places /\ settings \in MapSettings)'
    BY DEF MapInvariant, Draw, populateVars
  <1>3. document \in Seq(Range(document))
    BY DEF MapInvariant
  <1>4. (document \in Seq(Range(document)))'
    BY <1>3, ObjectsAdded
  <1>5. (\A i \in DOMAIN document : document[i].tag \in {"polyline", "circle", "text"})'
    <2>1. \A i \in DOMAIN document : document[i].tag \in {"polyline", "circle", "text"}
      BY DEF MapInvariant
    <2>2. /\ DOMAIN document = 1 .. Len(document)
          /\ \A i \in 1 .. Len(document) : document'[i] = document[i]
          /\ \A i \in 1 .. Len(objects) : document'[Len(document) + i] = objects[i]
          /\ \A i \in DOMAIN document' : i \in 1 .. Len(document)
                \/ \E k \in 1 .. Len(objects) : i = Len(document) + k
      BY <1>3, ObjectsAdded
    <2> QED
      BY <2>1, <2>2
  <1>6. LoopsFollowCatalogue'
    <2>1. UNCHANGED <<db, coords, settings, drawing, stage>> /\ counter' = counter + 1
      BY DEF Draw, populateVars
    <2>2. PopulateInvariant /\ LoopsFollowCatalogue
      BY DEF MapInvariant
    <2> QED
      BY <2>1, <2>2, TurnCounted
  <1> QED
    BY <1>1, <1>2, <1>4, <1>5, <1>6 DEF MapInvariant

LEMMA OneAdded ==
    ASSUME document \in Seq(Range(document)), NEW object, object.tag \in {"polyline", "circle"},
           Draw(<<object>>)
    PROVE  /\ <<object>> \in Seq(Range(<<object>>))
           /\ \A k \in 1 .. Len(<<object>>) : (<<object>>)[k].tag \in {"polyline", "circle", "text"}
           /\ Tagged(object.tag)' = Tagged(object.tag) \cup {Len(document) + 1}
           /\ \A tag : tag # object.tag => Tagged(tag)' = Tagged(tag)
           /\ \A name : LabelsOf(name)' = LabelsOf(name)
           /\ Labels' = Labels
           /\ Len(document)' = Len(document) + 1 /\ document'[Len(document) + 1] = object
           /\ \A i \in DOMAIN document : document'[i] = document[i]
           /\ \A tag : \A i \in Tagged(tag) : document'[i] = document[i]
  <1>3. PICK objects : objects = <<object>>
    OBVIOUS
  <1>4. /\ objects \in Seq(Range(objects)) /\ Len(objects) = 1 /\ DOMAIN objects = {1}
        /\ objects[1] = object
    <2>1. Len(objects) = 1 /\ DOMAIN objects = {1} /\ objects[1] = object /\ objects \in Seq({object})
      BY <1>3
    <2> QED
      BY <2>1 DEF Range
  <1>5. Draw(objects)
    BY <1>3
  <1>8. /\ Kind(objects, object.tag) = {1} /\ Kind(objects, "text") = {}
        /\ \A tag : tag # object.tag => Kind(objects, tag) = {}
    BY <1>4 DEF Kind
  <1>10. /\ Tagged(object.tag)' = Tagged(object.tag) \cup {Len(document) + 1}
         /\ \A tag : tag # object.tag => Tagged(tag)' = Tagged(tag)
         /\ \A name : LabelsOf(name)' = LabelsOf(name)
         /\ Labels' = Labels
    <2>1. /\ \A tag : Tagged(tag)' = Tagged(tag) \cup {Len(document) + k : k \in Kind(objects, tag)}
          /\ \A name : LabelsOf(name)' = LabelsOf(name) \cup
                            {Len(document) + k : k \in LabelsAmong(objects, name)}
          /\ Labels' = Labels \cup {Len(document) + k : k \in LabelsIn(objects)}
      BY <1>4, <1>5, TagsAdded
    <2>2. LabelsIn(objects) = {} /\ \A name : LabelsAmong(objects, name) = {}
      BY <1>8 DEF LabelsAmong, LabelsIn
    <2> QED
      BY <1>8, <2>1, <2>2
  <1>11. /\ DOMAIN document = 1 .. Len(document)
         /\ Len(document') = Len(document) + Len(objects)
         /\ \A i \in 1 .. Len(document) : document'[i] = document[i]
         /\ \A i \in 1 .. Len(objects) : document'[Len(document) + i] = objects[i]
    BY <1>4, <1>5, ObjectsAdded
  <1>12. Len(document)' = Len(document) + 1 /\ document'[Len(document) + 1] = object
    BY <1>4, <1>11
  <1>13. \A i \in DOMAIN document : document'[i] = document[i]
    BY <1>11
  <1>14. \A tag : \A i \in Tagged(tag) : document'[i] = document[i]
    BY <1>13 DEF Tagged
  <1> QED
    BY <1>3, <1>4, <1>10, <1>12, <1>13, <1>14

\* An object and the one before it are as they were.
LEMMA UnderlayersKept ==
    ASSUME LabelsFollowUnderlayers, document \in Seq(Range(document)), UNCHANGED settings, NEW i \in Labels,
           \A tag : \A k \in Tagged(tag) : document'[k] = document[k]
    PROVE  /\ i \in Int /\ document'[i] = document[i] /\ document'[i - 1] = document[i - 1]
           /\ document'[i - 1] = Underlayer(document[i])'
           /\ DOMAIN Text \subseteq DOMAIN document'[i]
  <1>1. i \in Tagged("text") /\ i - 1 \in Tagged("text")
    BY DEF Labels, LabelsFollowUnderlayers
  <1>2. i \in Int
    <2>1. PICK n \in Nat : DOMAIN document = 1 .. n
      OBVIOUS
    <2>2. i \in DOMAIN document
      BY <1>1 DEF Tagged
    <2> QED
      BY <2>1, <2>2
  <1>3. document'[i] = document[i] /\ document'[i - 1] = document[i - 1]
    BY <1>1
  <1>4. PICK text : text = document[i]
    OBVIOUS
  <1>5. Underlayer(text)' = Underlayer(text)
    BY DEF Underlayer
  <1>6. Underlayer(document[i])' = Underlayer(text)'
    BY <1>3, <1>4 DEF Underlayer
  <1>7. document[i - 1] = Underlayer(text) /\ DOMAIN Text \subseteq DOMAIN text
    BY <1>4 DEF LabelsFollowUnderlayers
  <1> QED
    BY <1>2, <1>3, <1>4, <1>5, <1>6, <1>7

\* A step that adds no text leaves the labels as they are.
LEMMA UnderlayersStay ==
    ASSUME LabelsFollowUnderlayers, document \in Seq(Range(document)), UNCHANGED settings,
           Labels' = Labels, Tagged("text")' = Tagged("text"),
           \A tag : \A k \in Tagged(tag) : document'[k] = document[k],
           drawing' = "lines" => Tagged("text") = {},
           \A i \in Labels : \A k \in Tagged("polyline")' : k < i,
           \A i \in Labels : document[i].of \in StopName =>
                drawing' \in {"stop labels", "done"} /\ \A k \in Tagged("circle")' : k < i
    PROVE  LabelsFollowUnderlayers'
  <1>1. (Tagged("text") = Labels \cup {i - 1 : i \in Labels})'
    BY DEF LabelsFollowUnderlayers
  <1>2. ASSUME NEW i \in Labels
        PROVE  /\ DOMAIN Text \subseteq DOMAIN document'[i]
               /\ document'[i - 1] = Underlayer(document[i])'
               /\ document'[i] = document[i]
    BY UnderlayersKept
  <1> QED
    BY <1>1, <1>2 DEF LabelsFollowUnderlayers

LEMMA LineDrawn ==
    ASSUME MapInvariant, Drawing("lines", Len(Routes)), NEW line, Draw(<<line>>),
           line = BusLineLine(Routes[counter + 1], GetBusLineColor(counter))
    PROVE  MapInvariant'
  <1>2. line.tag = "polyline"
    <2>1. PICK name : name = Routes[counter + 1]
      OBVIOUS
    <2>2. PICK color : color = GetBusLineColor(counter)
      OBVIOUS
    <2>3. BusLineLine(name, color).tag = "polyline"
      BY LineObject
    <2> QED
      BY <2>1, <2>2, <2>3
  <1>3. Draw(<<line>>) /\ document \in Seq(Range(document))
    BY DEF MapInvariant
  <1>4. drawing = "lines" /\ counter < Len(Routes) /\ drawing \in Loops
    BY DEF Drawing, Loops
  <1>5. UNCHANGED <<db, coords, settings, drawing>> /\ counter' = counter + 1
    BY DEF Draw, populateVars
  <1>6. /\ <<line>> \in Seq(Range(<<line>>))
        /\ \A k \in 1 .. Len(<<line>>) : (<<line>>)[k].tag \in {"polyline", "circle", "text"}
    BY <1>2, <1>3, OneAdded
  <1>7. /\ Tagged("polyline")' = Tagged("polyline") \cup {Len(document) + 1}
        /\ Tagged("circle")' = Tagged("circle") /\ Tagged("text")' = Tagged("text")
        /\ \A name : LabelsOf(name)' = LabelsOf(name)
        /\ \A tag : \A i \in Tagged(tag) : document'[i] = document[i]
    <2>4. line.tag \in {"polyline", "circle"}
      BY <1>2
    <2>1. Tagged(line.tag)' = Tagged(line.tag) \cup {Len(document) + 1}
      BY <1>3, <2>4, OneAdded
    <2>5. \A tag : tag # line.tag => Tagged(tag)' = Tagged(tag)
      BY <1>3, <2>4, OneAdded
    <2>6. \A name : LabelsOf(name)' = LabelsOf(name)
      BY <1>3, <2>4, OneAdded
    <2>7. \A tag : \A i \in Tagged(tag) : document'[i] = document[i]
      BY <1>3, <2>4, OneAdded
    <2>2. "text" # line.tag /\ "circle" # line.tag
      BY <1>2
    <2>3. Tagged("circle")' = Tagged("circle") /\ Tagged("text")' = Tagged("text")
      BY <2>2, <2>5
    <2> QED
      BY <1>2, <2>1, <2>3, <2>6, <2>7
  <1>8. LinesDrawn = counter /\ LinesDrawn' = counter + 1 /\ Len(document) = counter /\ counter \in Nat
    BY <1>4, <1>5, InTurn DEF LinesDrawn, LinesFollowRoutes
  <1>9. /\ Len(document)' = counter + 1 /\ document'[counter + 1] = line
        /\ \A i \in DOMAIN document : document'[i] = document[i]
    BY <1>2, <1>3, <1>8, OneAdded
  <1>10. DOMAIN document = 1 .. counter
    BY <1>4, <1>8, InTurn
  <1>11. LinesFollowRoutes'
    <2>1. Tagged("polyline") = 1 .. counter
      BY <1>4, <1>8, InTurn DEF LinesFollowRoutes
    <2>2. 1 .. counter + 1 = (1 .. counter) \cup {counter + 1}
      BY <1>8
    <2>3. Tagged("polyline")' = 1 .. counter + 1
      BY <1>7, <1>8, <2>1, <2>2
    <2>4. ASSUME NEW i \in 1 .. counter + 1
          PROVE  document'[i] = BusLineLine(Routes[i], GetBusLineColor(i - 1))'
      <3>1. document'[i] = BusLineLine(Routes[i], GetBusLineColor(i - 1))
        <4>1. CASE i \in 1 .. counter
          BY <1>4, <1>8, <1>9, <1>10, <4>1, InTurn DEF LinesFollowRoutes
        <4>2. CASE i \notin 1 .. counter
          <5>1. i = counter + 1 /\ i - 1 = counter
            BY <1>8, <4>2
          <5> QED
            BY <1>9, <5>1
        <4> QED
          BY <4>1, <4>2
      <3> QED
        BY <1>5, <3>1, SamePicture
    <2> QED
      BY <1>4, <1>5, <1>8, <1>9, <2>3, <2>4 DEF LinesFollowRoutes
  <1>12. LabelsFollowRoutes'
    <2>1. LinesNamed = 0 /\ LinesNamed' = 0
      BY <1>4, <1>5 DEF LinesNamed
    <2>2. LabelsFollowRoutes /\ Len(Routes) \in Nat
      BY <1>4, InTurn, RoutesInOrder
    <2>3. \A i \in 1 .. Len(Routes) : ~(i <= 0)
      BY <2>2
    <2>4. \A i \in 1 .. Len(Routes) : LabelsOf(Routes[i]) = {}
      BY <2>1, <2>2, <2>3 DEF LabelsFollowRoutes
    <2>5. \A i \in 1 .. Len(Routes) : LabelsOf(Routes[i])' = {}
      BY <1>5, <1>7, <2>4, LabelsOfRoute
    <2>6. Routes' = Routes
      BY <1>5, SamePicture
    <2> QED
      BY <2>1, <2>3, <2>5, <2>6 DEF LabelsFollowRoutes
  <1>13. CirclesFollowStops'
    <2>1. StopsDrawn' = StopsDrawn
      BY <1>4, <1>5 DEF StopsDrawn
    <2> QED
      BY <1>4, <1>5, <1>7, <2>1, InTurn, CirclesKept
  <1>14. TextsAreAtStops'
    BY <1>4, <1>5, <1>7, InTurn, TextsKept
  <1>15. LabelsFollowUnderlayers'
    <2>1. LabelsFollowUnderlayers /\ Tagged("text") = {} /\ Labels = {}
      BY <1>4, InTurn DEF LabelsFollowUnderlayers, Labels
    <2>2. Labels' = {}
      BY <1>7, <2>1 DEF Labels
    <2> QED
      BY <1>3, <1>5, <1>7, <2>1, <2>2, UnderlayersStay
  <1> QED
    BY <1>3, <1>4, <1>6, <1>11, <1>12, <1>13, <1>14, <1>15, TurnTaken

LEMMA StopDrawn ==
    ASSUME MapInvariant, DrawStop
    PROVE  MapInvariant'
  <1>1. PICK circle : circle = StopCircle(StopStats[counter + 1])
    OBVIOUS
  <1>2. circle.tag = "circle" /\ circle.of = StopStats[counter + 1]
    <2>1. PICK name : name = StopStats[counter + 1]
      OBVIOUS
    <2>2. StopCircle(name).tag = "circle" /\ StopCircle(name).of = name
      BY CircleObject
    <2> QED
      BY <1>1, <2>1, <2>2
  <1>3. Draw(<<circle>>) /\ document \in Seq(Range(document))
    BY <1>1 DEF MapInvariant, DrawStop
  <1>4. drawing = "stops" /\ counter < Len(StopStats) /\ drawing \in Loops
    BY DEF DrawStop, Drawing, Loops
  <1>5. UNCHANGED <<db, coords, settings, drawing>> /\ counter' = counter + 1
    BY <1>3 DEF Draw, populateVars
  <1>6. /\ <<circle>> \in Seq(Range(<<circle>>))
        /\ \A k \in 1 .. Len(<<circle>>) : (<<circle>>)[k].tag \in {"polyline", "circle", "text"}
    BY <1>2, <1>3, OneAdded
  <1>7. /\ Tagged("circle")' = Tagged("circle") \cup {Len(document) + 1}
        /\ Tagged("polyline")' = Tagged("polyline") /\ Tagged("text")' = Tagged("text")
        /\ \A name : LabelsOf(name)' = LabelsOf(name)
        /\ \A tag : \A i \in Tagged(tag) : document'[i] = document[i]
    <2>4. circle.tag \in {"polyline", "circle"}
      BY <1>2
    <2>1. Tagged(circle.tag)' = Tagged(circle.tag) \cup {Len(document) + 1}
      BY <1>3, <2>4, OneAdded
    <2>5. \A tag : tag # circle.tag => Tagged(tag)' = Tagged(tag)
      BY <1>3, <2>4, OneAdded
    <2>6. \A name : LabelsOf(name)' = LabelsOf(name)
      BY <1>3, <2>4, OneAdded
    <2>7. \A tag : \A i \in Tagged(tag) : document'[i] = document[i]
      BY <1>3, <2>4, OneAdded
    <2>2. "text" # circle.tag /\ "polyline" # circle.tag
      BY <1>2
    <2>3. Tagged("polyline")' = Tagged("polyline") /\ Tagged("text")' = Tagged("text")
      BY <2>2, <2>5
    <2> QED
      BY <1>2, <2>1, <2>3, <2>6, <2>7
  <1>8. /\ Len(document)' = Len(document) + 1 /\ document'[Len(document) + 1] = circle
        /\ \A i \in DOMAIN document : document'[i] = document[i]
    BY <1>2, <1>3, OneAdded
  <1>9. counter \in Nat /\ Len(document) \in Nat /\ DOMAIN document = 1 .. Len(document)
    BY <1>4, InTurn
  <1>10. Routes' = Routes /\ StopStats' = StopStats /\ \A name : StopCircle(name)' = StopCircle(name)
    BY <1>5, SamePicture
  <1>11. LinesFollowRoutes'
    <2>1. LinesDrawn' = LinesDrawn
      BY <1>4, <1>5, <1>10 DEF LinesDrawn
    <2>2. /\ LinesDrawn \in Nat /\ LinesFollowRoutes /\ drawing' # "lines"
      BY <1>4, <1>5, InTurn
    <2>3. Len(document') \in Nat /\ Len(document) <= Len(document')
      BY <1>8, <1>9
    <2>4. \A i \in 1 .. Len(document) : document'[i] = document[i]
      BY <1>8, <1>9
    <2> QED
      BY <1>5, <1>7, <1>9, <2>1, <2>2, <2>3, <2>4, LinesKept
  <1>12. LabelsFollowRoutes'
    <2>1. LinesNamed' = LinesNamed
      BY <1>4, <1>5, <1>10 DEF LinesNamed
    <2>2. \A i \in 1 .. Len(Routes) : LabelsOf(Routes[i])' = LabelsOf(Routes[i])
      BY <1>5, <1>7, LabelsOfRoute
    <2>3. \A i \in 1 .. Len(Routes) : \A k \in LabelsOf(Routes[i]) : document'[k] = document[k]
      BY <1>7 DEF LabelsOf, Labels
    <2> QED
      BY <1>4, <1>5, <2>1, <2>2, <2>3, InTurn, LabelsKept
  <1>13. CirclesFollowStops'
    <2>1. StopsDrawn = counter /\ StopsDrawn' = counter + 1
      BY <1>4, <1>5 DEF StopsDrawn
    <2>2. 1 .. counter + 1 = (1 .. counter) \cup {counter + 1}
      BY <1>9
    <2>3. /\ \A i \in Tagged("circle") : \E k \in 1 .. counter : document[i] = StopCircle(StopStats[k])
          /\ \A k \in 1 .. counter : \E i \in Tagged("circle") : document[i] = StopCircle(StopStats[k])
          /\ \A i, k \in Tagged("circle") : document[i].of = document[k].of => i = k
      BY <1>4, <2>1, InTurn DEF CirclesFollowStops
    <2>4. \A i \in Tagged("circle")' : \E k \in 1 .. counter + 1 :
                document'[i] = StopCircle(StopStats[k])
      BY <1>1, <1>7, <1>8, <2>2, <2>3
    <2>5. \A k \in 1 .. counter + 1 : \E i \in Tagged("circle")' :
                document'[i] = StopCircle(StopStats[k])
      BY <1>1, <1>7, <1>8, <2>2, <2>3
    <2>6. ASSUME NEW i \in Tagged("circle")
          PROVE  document'[i].of # document'[Len(document) + 1].of
      <3>1. PICK k \in 1 .. counter : document[i] = StopCircle(StopStats[k])
        BY <2>3
      <3>2. document[i].of = StopStats[k]
        <4>1. PICK name : name = StopStats[k]
          OBVIOUS
        <4>2. StopCircle(name).of = name
          BY CircleObject
        <4> QED
          BY <3>1, <4>1, <4>2
      <3>3. k \in 1 .. Len(StopStats) /\ counter + 1 \in 1 .. Len(StopStats) /\ k # counter + 1
        <4>1. Len(StopStats) \in Nat
          BY <1>4, InTurn, StatsInOrder
        <4> QED
          BY <1>4, <1>9, <4>1
      <3>4. StopStats[k] # StopStats[counter + 1]
        BY <1>4, <3>3, InTurn, StatsInOrder
      <3> QED
        BY <1>2, <1>7, <1>8, <3>2, <3>4
    <2>7. \A i, k \in Tagged("circle")' : document'[i].of = document'[k].of => i = k
      <3>1. \A i, k \in Tagged("circle") : document'[i].of = document'[k].of => i = k
        BY <1>7, <2>3
      <3> QED
        BY <1>7, <2>6, <3>1
    <2> QED
      BY <1>10, <2>1, <2>4, <2>5, <2>7 DEF CirclesFollowStops
  <1>14. TextsAreAtStops'
    BY <1>4, <1>5, <1>7, InTurn, TextsKept
  <1>15. LabelsFollowUnderlayers'
    <2>1. LabelsFollowUnderlayers
      BY <1>4, InTurn
    <2>2. Labels' = Labels
      BY <1>2, <1>3, OneAdded
    <2>3. \A i \in Labels : document[i].of \notin StopName /\ \A k \in Tagged("polyline")' : k < i
      BY <1>4, <1>7, <2>1 DEF LabelsFollowUnderlayers
    <2> QED
      BY <1>3, <1>4, <1>5, <1>7, <2>1, <2>2, <2>3, UnderlayersStay
  <1> QED
    BY <1>3, <1>4, <1>6, <1>11, <1>12, <1>13, <1>14, <1>15, TurnTaken

\* A turn that adds texts.
LEMMA TextsAdded ==
    ASSUME document \in Seq(Range(document)), NEW objects, objects \in Seq(Range(objects)), Draw(objects),
           \A k \in 1 .. Len(objects) : objects[k].tag = "text"
    PROVE  /\ Tagged("polyline")' = Tagged("polyline") /\ Tagged("circle")' = Tagged("circle")
           /\ \A i \in Tagged("text")' \ Tagged("text") :
                \E k \in 1 .. Len(objects) : document'[i] = objects[k]
           /\ \A name : LabelsOf(name)' =
                LabelsOf(name) \cup {Len(document) + k : k \in LabelsAmong(objects, name)}
           /\ Tagged("text")' = Tagged("text") \cup {Len(document) + k : k \in 1 .. Len(objects)}
           /\ Labels' = Labels \cup {Len(document) + k : k \in LabelsIn(objects)}
           /\ \A k \in 1 .. Len(objects) : document'[Len(document) + k] = objects[k]
           /\ Len(document') \in Nat /\ Len(document) <= Len(document')
           /\ \A i \in 1 .. Len(document) : document'[i] = document[i]
           /\ \A tag : \A i \in Tagged(tag) : document'[i] = document[i]
  <1>1. /\ Len(document) \in Nat /\ DOMAIN document = 1 .. Len(document)
        /\ Len(objects) \in Nat /\ DOMAIN objects = 1 .. Len(objects)
        /\ Len(document') = Len(document) + Len(objects)
        /\ \A i \in 1 .. Len(document) : document'[i] = document[i]
        /\ \A k \in 1 .. Len(objects) : document'[Len(document) + k] = objects[k]
    BY ObjectsAdded
  <1>2. \A tag : Tagged(tag)' = Tagged(tag) \cup {Len(document) + k : k \in Kind(objects, tag)}
    BY TagsAdded
  <1>3. \A name : LabelsOf(name)' =
            LabelsOf(name) \cup {Len(document) + k : k \in LabelsAmong(objects, name)}
    BY TagsAdded
  <1>9. Labels' = Labels \cup {Len(document) + k : k \in LabelsIn(objects)}
    BY TagsAdded
  <1>4. /\ Kind(objects, "polyline") = {} /\ Kind(objects, "circle") = {}
        /\ Kind(objects, "text") = 1 .. Len(objects)
    BY <1>1 DEF Kind
  <1>5. Tagged("polyline")' = Tagged("polyline") /\ Tagged("circle")' = Tagged("circle")
    BY <1>2, <1>4
  <1>10. Tagged("text")' = Tagged("text") \cup {Len(document) + k : k \in 1 .. Len(objects)}
    BY <1>2, <1>4
  <1>6. \A i \in Tagged("text")' \ Tagged("text") : \E k \in 1 .. Len(objects) : document'[i] = objects[k]
    BY <1>1, <1>10
  <1>7. Len(document') \in Nat /\ Len(document) <= Len(document')
    BY <1>1
  <1>8. \A tag : \A i \in Tagged(tag) : document'[i] = document[i]
    BY <1>1 DEF Tagged
  <1> QED
    BY <1>1, <1>3, <1>5, <1>6, <1>7, <1>8, <1>9, <1>10

\* Texts that are labels, each on its underlayer.
Underlaid(objects) ==
    /\ DOMAIN objects = LabelsIn(objects) \cup {k - 1 : k \in LabelsIn(objects)}
    /\ \A k \in LabelsIn(objects) :
        DOMAIN Text \subseteq DOMAIN objects[k] /\ objects[k - 1] = Underlayer(objects[k])

LEMMA InPairs ==
    ASSUME NEW n \in Nat, NEW new, 1 .. n = new \cup {k - 1 : k \in new}, NEW k \in new
    PROVE  k \in Int /\ k >= 1 /\ k \in 1 .. n /\ k - 1 \in 1 .. n
  <1>1. k \in 1 .. n
    OBVIOUS
  <1>2. k - 1 \in {j - 1 : j \in new}
    OBVIOUS
  <1>3. k - 1 \in 1 .. n
    BY <1>2
  <1> QED
    BY <1>1, <1>3

LEMMA Behind ==
    ASSUME NEW m \in Nat, NEW k \in Int, k >= 1
    PROVE  m + (k - 1) = (m + k) - 1 /\ \A j \in 1 .. m : j < m + k
  OBVIOUS

\* They are drawn above all that is there.
LEMMA UnderlayersAdded ==
    ASSUME MapInvariant, drawing \in Loops, drawing # "lines", NEW objects,
           objects \in Seq(Range(objects)), Draw(objects),
           \A k \in 1 .. Len(objects) : objects[k].tag = "text",
           Underlaid(objects),
           \A k \in LabelsIn(objects) : objects[k].of \in StopName => drawing = "stop labels"
    PROVE  LabelsFollowUnderlayers'
  <1>1. document \in Seq(Range(document)) /\ LabelsFollowUnderlayers
    BY InTurn DEF MapInvariant
  <1>2. UNCHANGED <<settings, drawing>>
    BY DEF Draw
  <1>3. /\ Tagged("polyline")' = Tagged("polyline") /\ Tagged("circle")' = Tagged("circle")
    BY <1>1, TextsAdded
  <1>4. Tagged("text")' = Tagged("text") \cup {Len(document) + k : k \in 1 .. Len(objects)}
    BY <1>1, TextsAdded
  <1>5. Labels' = Labels \cup {Len(document) + k : k \in LabelsIn(objects)}
    BY <1>1, TextsAdded
  <1>6. \A k \in 1 .. Len(objects) : document'[Len(document) + k] = objects[k]
    BY <1>1, TextsAdded
  <1>7. \A tag : \A i \in Tagged(tag) : document'[i] = document[i]
    BY <1>1, TextsAdded
  <1>8. PICK m \in Nat : m = Len(document) /\ DOMAIN document = 1 .. m
    BY InTurn
  <1>9. DOMAIN objects = 1 .. Len(objects) /\ Len(objects) \in Nat
    BY <1>1, ObjectsAdded
  <1>10. PICK new : new = LabelsIn(objects)
    OBVIOUS
  <1>11. /\ 1 .. Len(objects) = new \cup {k - 1 : k \in new}
         /\ \A k \in new : DOMAIN Text \subseteq DOMAIN objects[k] /\ objects[k - 1] = Underlayer(objects[k])
    BY <1>9, <1>10 DEF Underlaid
  <1>12. \A k \in new : k \in 1 .. Len(objects) /\ k - 1 \in 1 .. Len(objects) /\ k \in Int /\ k >= 1
    BY <1>9, <1>11, InPairs
  <1>13. (Tagged("text") = Labels \cup {i - 1 : i \in Labels})'
    <2>1. Tagged("text") = Labels \cup {i - 1 : i \in Labels}
      BY <1>1 DEF LabelsFollowUnderlayers
    <2>2. \A k \in new : m + (k - 1) = (m + k) - 1
      BY <1>12, Behind
    <2>3. Labels' = Labels \cup {m + k : k \in new}
      BY <1>5, <1>8, <1>10
    <2>4. Tagged("text")' = Tagged("text") \cup {m + k : k \in new} \cup {m + (k - 1) : k \in new}
      BY <1>4, <1>8, <1>11
    <2>5. {m + (k - 1) : k \in new} = {(m + k) - 1 : k \in new}
      BY <2>2
    <2>6. {i - 1 : i \in Labels'} = {i - 1 : i \in Labels} \cup {(m + k) - 1 : k \in new}
      BY <2>3
    <2> QED
      BY <2>1, <2>3, <2>4, <2>5, <2>6
  <1>14. ASSUME NEW i \in Labels
         PROVE  /\ DOMAIN Text \subseteq DOMAIN document'[i]
                /\ document'[i - 1] = Underlayer(document[i])'
                /\ \A k \in Tagged("polyline")' : k < i
                /\ document'[i].of \in StopName =>
                    drawing' \in {"stop labels", "done"} /\ \A k \in Tagged("circle")' : k < i
    <2>1. /\ DOMAIN Text \subseteq DOMAIN document'[i]
          /\ document'[i - 1] = Underlayer(document[i])' /\ document'[i] = document[i]
      BY <1>1, <1>2, <1>7, UnderlayersKept
    <2> QED
      BY <1>1, <1>2, <1>3, <2>1 DEF LabelsFollowUnderlayers
  <1>15. ASSUME NEW j \in new
         PROVE  LET i == m + j
                IN  /\ DOMAIN Text \subseteq DOMAIN document'[i]
                    /\ document'[i - 1] = Underlayer(document[i])'
                    /\ \A k \in Tagged("polyline")' : k < i
                    /\ document'[i].of \in StopName =>
                        drawing' \in {"stop labels", "done"} /\ \A k \in Tagged("circle")' : k < i
    <2>1. PICK i : i = m + j
      OBVIOUS
    <2>2. i - 1 = m + (j - 1)
      BY <1>12, <2>1, Behind
    <2>3. document'[i] = objects[j] /\ document'[i - 1] = objects[j - 1]
      BY <1>6, <1>8, <1>12, <2>1, <2>2
    <2>4. PICK text : text = objects[j]
      OBVIOUS
    <2>5. Underlayer(text)' = Underlayer(text) /\ Underlayer(document[i])' = Underlayer(text)'
      BY <1>2, <2>3, <2>4 DEF Underlayer
    <2>6. objects[j - 1] = Underlayer(text) /\ DOMAIN Text \subseteq DOMAIN text
      BY <1>11, <2>4
    <2>7. \A k \in 1 .. m : k < i
      BY <1>12, <2>1, Behind
    <2>8. \A tag : \A k \in Tagged(tag) : k < i
      BY <1>8, <2>7 DEF Tagged
    <2>9. document'[i].of \in StopName => drawing' = "stop labels"
      BY <1>2, <1>10, <2>3
    <2> QED
      BY <1>3, <2>1, <2>3, <2>4, <2>5, <2>6, <2>8, <2>9
  <1>16. \A i \in Labels' : i \in Labels \/ \E j \in new : i = m + j
    BY <1>5, <1>8, <1>10
  <1> QED
    BY <1>2, <1>13, <1>14, <1>15, <1>16 DEF LabelsFollowUnderlayers

\* Behind the first loop texts leave the lines alone, and the circles.
LEMMA ShapesKept ==
    ASSUME MapInvariant, drawing \in Loops, drawing # "lines", NEW objects,
           objects \in Seq(Range(objects)), Draw(objects),
           \A k \in 1 .. Len(objects) : objects[k].tag = "text",
           LinesDrawn' = LinesDrawn, StopsDrawn' = StopsDrawn
    PROVE  LinesFollowRoutes' /\ CirclesFollowStops'
  <1>1. document \in Seq(Range(document))
    BY DEF MapInvariant
  <1>2. UNCHANGED <<db, coords, settings>> /\ drawing' # "lines"
    BY DEF Draw, populateVars
  <1>3. /\ Tagged("polyline")' = Tagged("polyline") /\ Tagged("circle")' = Tagged("circle")
        /\ Len(document') \in Nat /\ Len(document) <= Len(document')
        /\ \A i \in 1 .. Len(document) : document'[i] = document[i]
    BY <1>1, TextsAdded
  <1>4. \A i \in Tagged("circle") : document'[i] = document[i]
    BY <1>1, TextsAdded
  <1>5. LinesFollowRoutes'
    BY <1>2, <1>3, InTurn, LinesKept
  <1>6. CirclesFollowStops'
    BY <1>2, <1>3, <1>4, InTurn, CirclesKept
  <1> QED
    BY <1>5, <1>6

\* The label of a stop: the second of two texts.
LEMMA LabelAlone ==
    ASSUME NEW objects, NEW name, NEW color, NEW point, IsLabel(objects, name, point, color)
    PROVE  /\ objects \in Seq(Range(objects)) /\ Len(objects) = 2 /\ DOMAIN objects = 1 .. 2
           /\ \A k \in 1 .. 2 : objects[k].tag = "text" /\ objects[k].of = name
           /\ \A k \in 1 .. 2 : objects[k].position = point
           /\ objects[2].fill = color
           /\ LabelsAmong(objects, name) = {2}
           /\ \A other : other # name => LabelsAmong(objects, other) = {}
           /\ Underlaid(objects)
  <1>1. /\ objects \in Seq(Range(objects)) /\ Len(objects) = 2
        /\ \A k \in 1 .. 2 : objects[k].tag = "text" /\ objects[k].of = name /\ objects[k].position = point
        /\ "stroke" \in DOMAIN objects[1] /\ "stroke" \notin DOMAIN objects[2]
        /\ objects[2].fill = color
    BY DEF IsLabel
  <1>2. DOMAIN objects = 1 .. 2 /\ 1 .. 2 = {1, 2}
    BY <1>1
  <1>3. LabelsAmong(objects, name) = {2}
    BY <1>1, <1>2 DEF LabelsAmong, LabelsIn, Kind
  <1>4. \A other : other # name => LabelsAmong(objects, other) = {}
    BY <1>1, <1>2 DEF LabelsAmong, LabelsIn, Kind
  <1>5. Underlaid(objects)
    <2>1. LabelsIn(objects) = {2}
      BY <1>1, <1>2 DEF LabelsIn, Kind
    <2>2. DOMAIN Text \subseteq DOMAIN objects[2] /\ objects[1] = Underlayer(objects[2])
      BY DEF IsLabel
    <2>3. {k - 1 : k \in {2}} = {1}
      OBVIOUS
    <2>4. \A k \in LabelsIn(objects) : k = 2 /\ k - 1 = 1
      BY <2>1
    <2>5. DOMAIN objects = LabelsIn(objects) \cup {k - 1 : k \in LabelsIn(objects)}
      BY <1>2, <2>1, <2>3
    <2> QED
      BY <2>2, <2>4, <2>5 DEF Underlaid
  <1> QED
    BY <1>1, <1>2, <1>3, <1>4, <1>5

LEMMA StopLabelDrawn ==
    ASSUME MapInvariant, DrawStopLabel
    PROVE  MapInvariant'
  <1>1. PICK name : name = StopStats[counter + 1]
    OBVIOUS
  <1>2. PICK objects : objects = StopLabel(name)
    OBVIOUS
  <1>3. Draw(objects) /\ document \in Seq(Range(document)) /\ PopulateInvariant
    BY <1>1, <1>2 DEF MapInvariant, DrawStopLabel
  <1>4. drawing = "stop labels" /\ counter < Len(StopStats) /\ drawing \in Loops /\ drawing # "lines"
    BY DEF DrawStopLabel, Drawing, Loops
  <1>5. UNCHANGED <<db, coords, settings, drawing>>
    BY <1>3 DEF Draw, populateVars
  <1>6. name \in GetAllStopStats(db) /\ name \in StopName
    <2>1. counter \in Nat /\ stage = "populated" /\ Len(StopStats) \in Nat
      BY <1>3, <1>4, InTurn, StatsInOrder
    <2>4. counter \in Nat /\ Len(StopStats) \in Nat /\ counter < Len(StopStats)
      BY <1>4, <2>1
    <2>2. counter + 1 \in 1 .. Len(StopStats)
      BY <2>4
    <2>3. name \in GetAllStopStats(db)
      BY <1>1, <1>3, <2>2, StatsInOrder
    <2> QED
      BY <1>3, <2>1, <2>3, StopsOfStats
  <1>7. IsLabel(objects, name, Project(Place(name)), Black)
    BY <1>2, LabelObjects DEF StopLabel
  <1>8. /\ objects \in Seq(Range(objects)) /\ Len(objects) = 2 /\ DOMAIN objects = 1 .. 2
        /\ \A k \in 1 .. 2 : /\ objects[k].tag = "text" /\ objects[k].of = name
                             /\ objects[k].position = Project(Place(name))
    BY <1>7 DEF IsLabel
  <1>9. \A k \in 1 .. Len(objects) : /\ objects[k].tag = "text"
                                     /\ objects[k].tag \in {"polyline", "circle", "text"}
                                     /\ objects[k].position = Project(Place(name))
    BY <1>8
  <1>10. Routes' = Routes /\ StopStats' = StopStats
    BY <1>5, SamePicture
  <1>11. LinesDrawn' = LinesDrawn /\ LinesNamed' = LinesNamed /\ StopsDrawn' = StopsDrawn
    BY <1>4, <1>5, <1>10 DEF LinesDrawn, LinesNamed, StopsDrawn
  <1>12. LinesFollowRoutes' /\ CirclesFollowStops'
    BY <1>3, <1>4, <1>8, <1>9, <1>11, ShapesKept
  <1>13. /\ \A i \in Tagged("text")' \ Tagged("text") :
                \E k \in 1 .. Len(objects) : document'[i] = objects[k]
         /\ \A line : LabelsOf(line)' =
                LabelsOf(line) \cup {Len(document) + k : k \in LabelsAmong(objects, line)}
    BY <1>3, <1>8, <1>9, TextsAdded
  <1>14. \A tag : \A i \in Tagged(tag) : document'[i] = document[i]
    BY <1>3, <1>8, <1>9, TextsAdded
  <1>15. LabelsFollowRoutes'
    <2>1. ASSUME NEW i \in 1 .. Len(Routes)
          PROVE  LabelsOf(Routes[i])' = LabelsOf(Routes[i])
      <3>1. Routes[i] \in BusName
        BY <1>3, RoutesInOrder, BusOfRoute
      <3>2. name # Routes[i]
        BY <1>6, <3>1, MapRendererAssumption
      <3>3. LabelsAmong(objects, Routes[i]) = {}
        BY <1>8, <3>2 DEF LabelsAmong, LabelsIn, Kind
      <3>4. PICK line : line = Routes[i]
        OBVIOUS
      <3>5. LabelsOf(line)' = LabelsOf(line)
        BY <1>13, <3>3, <3>4
      <3>6. LabelsOf(Routes[i])' = LabelsOf(line)'
        BY <1>10, <3>4 DEF LabelsOf
      <3> QED
        BY <3>4, <3>5, <3>6
    <2>2. \A i \in 1 .. Len(Routes) : \A k \in LabelsOf(Routes[i]) : document'[k] = document[k]
      BY <1>14 DEF LabelsOf, Labels
    <2> QED
      BY <1>4, <1>5, <1>11, <2>1, <2>2, InTurn, LabelsKept
  <1>16. TextsAreAtStops'
    <2>1. \A i \in Tagged("text")' \ Tagged("text") :
                \E stop \in GetAllStopStats(db) : document'[i].position = Project(Place(stop))
      BY <1>6, <1>9, <1>13
    <2> QED
      BY <1>4, <1>5, <1>14, <2>1, InTurn, TextsKept
  <1>17. \A k \in 1 .. Len(objects) : objects[k].tag \in {"polyline", "circle", "text"}
    BY <1>9
  <1>18. LabelsFollowUnderlayers'
    <2>1. Underlaid(objects)
      BY <1>7, LabelAlone
    <2>2. \A k \in 1 .. Len(objects) : objects[k].tag = "text"
      BY <1>9
    <2> QED
      BY <1>3, <1>4, <1>8, <2>1, <2>2, UnderlayersAdded
  <1> QED
    BY <1>3, <1>4, <1>8, <1>12, <1>15, <1>16, <1>17, <1>18, TurnTaken

\* The labels of a line's ends: the second and, where there is one, the fourth text.
LEMMA LabelsJoined ==
    ASSUME NEW p, NEW q, NEW name, NEW color, NEW at, NEW point,
           IsLabel(p, name, at, color), IsLabel(q, name, point, color)
    PROVE  LET objects == p \o q
           IN  /\ objects \in Seq(Range(objects)) /\ Len(objects) = 4 /\ DOMAIN objects = 1 .. 4
               /\ \A k \in 1 .. 4 : objects[k].tag = "text" /\ objects[k].of = name
               /\ \A k \in 1 .. 4 : objects[k].position \in {at, point}
               /\ objects[2].position = at /\ objects[4].position = point
               /\ objects[2].fill = color /\ objects[4].fill = color
               /\ LabelsAmong(objects, name) = {2, 4}
               /\ \A other : other # name => LabelsAmong(objects, other) = {}
               /\ Underlaid(objects)
  <1>1. PICK S : S = Range(p) \cup Range(q)
    OBVIOUS
  <1>2. PICK first \in Seq(S) : first = p
    BY <1>1 DEF IsLabel
  <1>3. PICK second \in Seq(S) : second = q
    BY <1>1 DEF IsLabel
  <1>4. Len(first) = 2 /\ Len(second) = 2
    BY <1>2, <1>3 DEF IsLabel
  <1>12. first \o second \in Seq(S)
    OBVIOUS
  <1>5. PICK objects \in Seq(S) : objects = first \o second
    BY <1>12
  <1>6. Len(objects) = 4 /\ objects[1] = p[1] /\ objects[2] = p[2] /\ objects[3] = q[1] /\ objects[4] = q[2]
    <2>4. /\ Len(objects) = Len(first) + Len(second)
          /\ \A i \in 1 .. Len(first) + Len(second) :
                objects[i] = IF i <= Len(first) THEN first[i] ELSE second[i - Len(first)]
      BY <1>5
    <2>1. Len(objects) = 4
      BY <1>4, <2>4
    <2>2. \A i \in 1 .. 4 : objects[i] = IF i <= 2 THEN first[i] ELSE second[i - 2]
      BY <1>4, <2>4
    <2>3. objects[1] = first[1] /\ objects[2] = first[2] /\ objects[3] = second[1] /\ objects[4] = second[2]
      BY <2>2
    <2> QED
      BY <1>2, <1>3, <2>1, <2>3
  <1>7. DOMAIN objects = 1 .. 4 /\ 1 .. 4 = {1, 2, 3, 4}
    BY <1>6
  <1>8. objects \in Seq(Range(objects))
    <2>1. \A k \in 1 .. 4 : objects[k] \in Range(objects)
      BY <1>7 DEF Range
    <2>2. PICK n \in Nat : n = 4
      OBVIOUS
    <2>3. objects = [k \in 1 .. n |-> objects[k]]
      BY <1>7, <2>2
    <2>4. objects \in [1 .. n -> Range(objects)]
      BY <2>1, <2>2, <2>3
    <2> QED
      BY <2>4
  <1>9. /\ \A k \in 1 .. 4 : objects[k].tag = "text" /\ objects[k].of = name
        /\ \A k \in 1 .. 4 : objects[k].position \in {at, point}
        /\ objects[2].position = at /\ objects[4].position = point
        /\ objects[2].fill = color /\ objects[4].fill = color
        /\ "stroke" \in DOMAIN objects[1] /\ "stroke" \notin DOMAIN objects[2]
        /\ "stroke" \in DOMAIN objects[3] /\ "stroke" \notin DOMAIN objects[4]
    BY <1>6, <1>7 DEF IsLabel
  <1>10. LabelsAmong(objects, name) = {2, 4}
    BY <1>7, <1>9 DEF LabelsAmong, LabelsIn, Kind
  <1>11. \A other : other # name => LabelsAmong(objects, other) = {}
    BY <1>7, <1>9 DEF LabelsAmong, LabelsIn, Kind
  <1>13. Underlaid(objects)
    <2>1. LabelsIn(objects) = {2, 4}
      BY <1>7, <1>9 DEF LabelsIn, Kind
    <2>2. /\ DOMAIN Text \subseteq DOMAIN objects[2] /\ objects[1] = Underlayer(objects[2])
          /\ DOMAIN Text \subseteq DOMAIN objects[4] /\ objects[3] = Underlayer(objects[4])
      BY <1>6 DEF IsLabel
    <2>3. {k - 1 : k \in {2, 4}} = {1, 3}
      OBVIOUS
    <2>4. \A k \in LabelsIn(objects) : (k = 2 /\ k - 1 = 1) \/ (k = 4 /\ k - 1 = 3)
      BY <2>1
    <2>5. DOMAIN objects = LabelsIn(objects) \cup {k - 1 : k \in LabelsIn(objects)}
      BY <1>7, <2>1, <2>3
    <2> QED
      BY <2>2, <2>4, <2>5 DEF Underlaid
  <1> QED
    BY <1>2, <1>3, <1>5, <1>6, <1>7, <1>8, <1>9, <1>10, <1>11, <1>13

\* What the second loop draws of a line.
AreLabelsOf(objects, name, bus, color) ==
    /\ objects \in Seq(Range(objects)) /\ DOMAIN objects = 1 .. Len(objects)
    /\ \A k \in 1 .. Len(objects) :
            /\ objects[k].tag = "text" /\ objects[k].of = name
            /\ objects[k].position \in {Project(coords[bus.stops[1]]), Project(coords[Last(bus.stops)])}
    /\ Underlaid(objects)
    /\ \A other : other # name => LabelsAmong(objects, other) = {}
    /\ \A k \in LabelsAmong(objects, name) :
            k \in 1 .. Len(objects) /\ objects[k].fill = color
    /\ \E last \in LabelsAmong(objects, name) :
            /\ objects[last].position = Project(coords[Last(bus.stops)])
            /\ IF HasTwoEnds(bus)
               THEN \E first \in LabelsAmong(objects, name) :
                        /\ first # last /\ LabelsAmong(objects, name) = {first, last}
                        /\ objects[first].position = Project(coords[bus.stops[1]])
               ELSE LabelsAmong(objects, name) = {last}

LEMMA LineLabelObjects ==
    ASSUME NEW name, NEW color
    PROVE  AreLabelsOf(BusLineLabels(name, color), name, BusNamed(name), color)
  <1>1. PICK bus : bus = BusNamed(name)
    OBVIOUS
  <1>2. PICK props : props = [fill |-> color, font_weight |-> "bold"]
    OBVIOUS
  <1>3. PICK p : p = Label(name, coords[bus.stops[1]], settings.bus_label, props)
    OBVIOUS
  <1>4. PICK q : q = Label(name, coords[Last(bus.stops)], settings.bus_label, props)
    OBVIOUS
  <1>5. PICK at : at = Project(coords[bus.stops[1]])
    OBVIOUS
  <1>6. PICK point : point = Project(coords[Last(bus.stops)])
    OBVIOUS
  <1>7. IsLabel(p, name, at, color)
    BY <1>2, <1>3, <1>5, LabelObjects
  <1>8. IsLabel(q, name, point, color)
    BY <1>2, <1>4, <1>6, LabelObjects
  <1>9. BusLineLabels(name, color) = (IF HasTwoEnds(bus) THEN p ELSE << >>) \o q
    BY <1>1, <1>2, <1>3, <1>4 DEF BusLineLabels, HasTwoEnds
  <1>10. CASE HasTwoEnds(bus)
    <2>1. PICK objects : objects = p \o q
      OBVIOUS
    <2>2. BusLineLabels(name, color) = objects
      BY <1>9, <1>10, <2>1
    <2>3. /\ objects \in Seq(Range(objects)) /\ Len(objects) = 4 /\ DOMAIN objects = 1 .. 4
          /\ \A k \in 1 .. 4 : objects[k].tag = "text" /\ objects[k].of = name
          /\ \A k \in 1 .. 4 : objects[k].position \in {at, point}
          /\ objects[2].position = at /\ objects[4].position = point
          /\ objects[2].fill = color /\ objects[4].fill = color
          /\ LabelsAmong(objects, name) = {2, 4}
          /\ \A other : other # name => LabelsAmong(objects, other) = {}
          /\ Underlaid(objects)
      BY <1>7, <1>8, <2>1, LabelsJoined
    <2>4. \A k \in LabelsAmong(objects, name) : k \in 1 .. Len(objects) /\ objects[k].fill = color
      BY <2>3
    <2>5. 4 # 2 /\ 4 \in LabelsAmong(objects, name) /\ 2 \in LabelsAmong(objects, name)
      BY <2>3
    <2> QED
      BY <1>1, <1>5, <1>6, <1>10, <2>2, <2>3, <2>4, <2>5 DEF AreLabelsOf
  <1>11. CASE ~HasTwoEnds(bus)
    <2>1. BusLineLabels(name, color) = << >> \o q
      BY <1>9, <1>11
    <2>2. << >> \o q = q
      <3>1. PICK S : S = Range(q)
        OBVIOUS
      <3>2. PICK list \in Seq(S) : list = q
        BY <1>8, <3>1 DEF IsLabel
      <3> QED
        BY <3>2
    <2>3. /\ q \in Seq(Range(q)) /\ Len(q) = 2 /\ DOMAIN q = 1 .. 2
          /\ \A k \in 1 .. 2 : q[k].tag = "text" /\ q[k].of = name
          /\ \A k \in 1 .. 2 : q[k].position = point
          /\ q[2].fill = color
          /\ LabelsAmong(q, name) = {2}
          /\ \A other : other # name => LabelsAmong(q, other) = {}
          /\ Underlaid(q)
      BY <1>8, LabelAlone
    <2>4. \A k \in LabelsAmong(q, name) : k \in 1 .. Len(q) /\ q[k].fill = color
      BY <2>3
    <2>5. /\ \A k \in 1 .. Len(q) :
                /\ q[k].tag = "text" /\ q[k].of = name
                /\ q[k].position \in {Project(coords[bus.stops[1]]), Project(coords[Last(bus.stops)])}
          /\ DOMAIN q = 1 .. Len(q)
      BY <1>6, <2>3
    <2>6. q[2].position = Project(coords[Last(bus.stops)])
      BY <1>6, <2>3
    <2>7. AreLabelsOf(q, name, bus, color)
      BY <1>11, <2>3, <2>4, <2>5, <2>6 DEF AreLabelsOf
    <2> QED
      BY <1>1, <2>1, <2>2, <2>7
  <1> QED
    BY <1>10, <1>11

LEMMA LineLabelDrawn ==
    ASSUME MapInvariant, DrawBusLineLabel
    PROVE  MapInvariant'
  <1>1. PICK name : name = Routes[counter + 1]
    OBVIOUS
  <1>2. PICK color : color = GetBusLineColor(counter)
    OBVIOUS
  <1>3. PICK objects : objects = BusLineLabels(name, color)
    OBVIOUS
  <1>4. PICK bus : bus = BusNamed(name)
    OBVIOUS
  <1>5. Draw(objects) /\ document \in Seq(Range(document)) /\ PopulateInvariant
    BY <1>1, <1>2, <1>3 DEF MapInvariant, DrawBusLineLabel
  <1>6. /\ drawing = "line labels" /\ counter < Len(Routes)
        /\ drawing \in Loops /\ drawing # "lines"
    BY DEF DrawBusLineLabel, Drawing, Loops
  <1>7. UNCHANGED <<db, coords, settings, drawing>>
    BY <1>5 DEF Draw, populateVars
  <1>8. counter' = counter + 1
    BY <1>5 DEF Draw
  <1>9. counter \in Nat /\ Len(Routes) \in Nat /\ Len(document) \in Nat
    BY <1>5, <1>6, InTurn, RoutesInOrder
  <1>10. PICK turn \in 1 .. Len(Routes) : turn = counter + 1 /\ turn - 1 = counter
    <2>1. counter < Len(Routes)
      BY <1>6
    <2> QED
      BY <1>9, <2>1
  <1>11. name \in GetAllBusLines(db) /\ name = Routes[turn]
    BY <1>1, <1>5, <1>10, RoutesInOrder
  <1>12. /\ AreLabelsOf(objects, name, bus, color)
    BY <1>3, <1>4, LineLabelObjects
  <1>13. /\ objects \in Seq(Range(objects))
         /\ \A k \in 1 .. Len(objects) :
                objects[k].tag = "text" /\ objects[k].tag \in {"polyline", "circle", "text"}
    BY <1>12 DEF AreLabelsOf
  <1>14. Routes' = Routes
    BY <1>7, SamePicture
  <1>15. LinesDrawn' = LinesDrawn /\ LinesDrawn = Len(Routes) /\ StopsDrawn' = StopsDrawn
    BY <1>6, <1>7, <1>14 DEF LinesDrawn, StopsDrawn
  <1>16. LinesNamed = counter /\ LinesNamed' = counter + 1
    BY <1>6, <1>7, <1>8 DEF LinesNamed
  <1>17. LinesFollowRoutes' /\ CirclesFollowStops'
    BY <1>5, <1>6, <1>13, <1>15, ShapesKept
  <1>18. \A i \in Tagged("text")' \ Tagged("text") : \E k \in 1 .. Len(objects) : document'[i] = objects[k]
    BY <1>5, <1>13, TextsAdded
  <1>19. \A line : LabelsOf(line)' =
                LabelsOf(line) \cup {Len(document) + k : k \in LabelsAmong(objects, line)}
    BY <1>5, <1>13, TextsAdded
  <1>20. \A tag : \A i \in Tagged(tag) : document'[i] = document[i]
    BY <1>5, <1>13, TextsAdded
  <1>21. \A k \in 1 .. Len(objects) : document'[Len(document) + k] = objects[k]
    BY <1>5, <1>13, TextsAdded
  <1>22. LabelsFollowRoutes
    BY <1>6, InTurn
  <1>23. HasItsLabels(turn)'
    <2>1. ~(turn <= counter)
      BY <1>9, <1>10
    <2>2. LabelsOf(name) = {}
      BY <1>11, <1>16, <1>22, <2>1 DEF LabelsFollowRoutes
    <2>3. PICK new : new = LabelsAmong(objects, name)
      OBVIOUS
    <2>4. LabelsOf(name)' = {Len(document) + k : k \in new}
      BY <1>19, <2>2, <2>3
    <2>5. PICK labels : labels = {Len(document) + k : k \in new}
      OBVIOUS
    <2>6. LabelsOf(Routes[turn])' = labels
      BY <1>11, <1>14, <2>4, <2>5 DEF LabelsOf
    <2>7. /\ BusNamed(Routes[turn])' = bus /\ GetBusLineColor(turn - 1)' = color
          /\ Project(coords[bus.stops[1]])' = Project(coords[bus.stops[1]])
          /\ Project(coords[Last(bus.stops)])' = Project(coords[Last(bus.stops)])
      <3>1. PICK m : m = turn - 1
        OBVIOUS
      <3>2. GetBusLineColor(m)' = GetBusLineColor(m)
        BY <1>7, SamePicture
      <3>3. GetBusLineColor(m) = color
        BY <1>2, <1>10, <3>1
      <3>4. BusNamed(Routes[turn])' = bus
        BY <1>4, <1>7, <1>11, <1>14 DEF BusNamed
      <3> QED
        BY <1>7, <3>1, <3>2, <3>3, <3>4, SamePicture
    <2>8. ASSUME NEW k \in labels
          PROVE  k > Len(Routes)' /\ document'[k].fill = GetBusLineColor(turn - 1)'
      <3>1. PICK j \in new : k = Len(document) + j
        BY <2>5
      <3>2. j \in 1 .. Len(objects) /\ objects[j].fill = color
        BY <1>12, <2>3, <3>1 DEF AreLabelsOf
      <3>3. Len(Routes) <= Len(document)
        BY <1>6, <1>15, InTurn
      <3>4. k > Len(Routes)
        <4>1. j > 0 /\ j \in Int
          BY <3>2
        <4> QED
          BY <1>9, <3>1, <3>3, <4>1
      <3>5. document'[k] = objects[j]
        BY <1>21, <3>1, <3>2
      <3> QED
        BY <1>14, <2>7, <3>2, <3>4, <3>5
    <2>9. \E last \in labels :
            /\ document'[last].position = Project(coords[Last(bus.stops)])
            /\ IF HasTwoEnds(bus)
               THEN \E first \in labels :
                        /\ first # last /\ labels = {first, last}
                        /\ document'[first].position = Project(coords[bus.stops[1]])
               ELSE labels = {last}
      <3>1. \A j \in new : j \in 1 .. Len(objects) /\ Len(document) + j \in labels
        BY <1>12, <2>3, <2>5 DEF AreLabelsOf
      <3>2. \A j \in new : document'[Len(document) + j] = objects[j]
        BY <1>21, <3>1
      <3>3. \A i, j \in new : i # j => Len(document) + i # Len(document) + j
        BY <1>9, <3>1
      <3>4. PICK last \in new :
                /\ objects[last].position = Project(coords[Last(bus.stops)])
                /\ IF HasTwoEnds(bus)
                   THEN \E first \in new :
                            /\ first # last /\ new = {first, last}
                            /\ objects[first].position = Project(coords[bus.stops[1]])
                   ELSE new = {last}
        BY <1>12, <2>3 DEF AreLabelsOf
      <3>5. CASE HasTwoEnds(bus)
        <4>1. PICK first \in new :
                    /\ first # last /\ new = {first, last}
                    /\ objects[first].position = Project(coords[bus.stops[1]])
          BY <3>4, <3>5
        <4>2. labels = {Len(document) + first, Len(document) + last}
          BY <2>5, <4>1
        <4>3. Len(document) + first # Len(document) + last
          BY <3>3, <4>1
        <4> QED
          BY <3>1, <3>2, <3>4, <3>5, <4>1, <4>2, <4>3
      <3>6. CASE ~HasTwoEnds(bus)
        <4>1. labels = {Len(document) + last}
          BY <2>5, <3>4, <3>6
        <4> QED
          BY <3>1, <3>2, <3>4, <3>6, <4>1
      <3> QED
        BY <3>5, <3>6
    <2> QED
      BY <2>6, <2>7, <2>8, <2>9 DEF HasItsLabels
  <1>24. LabelsFollowRoutes'
    <2>1. ASSUME NEW i \in 1 .. Len(Routes), i # turn
          PROVE  LabelsOf(Routes[i])' = LabelsOf(Routes[i])
      <3>1. Routes[i] # name
        BY <1>5, <1>11, <2>1, RoutesInOrder
      <3>2. LabelsAmong(objects, Routes[i]) = {}
        BY <1>12, <3>1 DEF AreLabelsOf
      <3>3. PICK line : line = Routes[i]
        OBVIOUS
      <3>4. LabelsOf(line)' = LabelsOf(line)
        BY <1>19, <3>2, <3>3
      <3>5. LabelsOf(Routes[i])' = LabelsOf(line)'
        BY <1>14, <3>3 DEF LabelsOf
      <3> QED
        BY <3>3, <3>4, <3>5
    <2>2. \A i \in 1 .. Len(Routes) : \A k \in LabelsOf(Routes[i]) : document'[k] = document[k]
      BY <1>20 DEF LabelsOf, Labels
    <2>3. ASSUME NEW i \in 1 .. Len(Routes), i <= counter + 1
          PROVE  HasItsLabels(i)'
      <3>1. CASE i = turn
        BY <1>23, <3>1
      <3>2. CASE i # turn
        <4>1. i <= counter
          BY <1>9, <1>10, <2>3, <3>2
        <4>2. HasItsLabels(i)
          BY <1>16, <1>22, <4>1 DEF LabelsFollowRoutes
        <4> QED
          BY <1>7, <2>1, <2>2, <3>2, <4>2, LabelsOfLineKept
      <3> QED
        BY <3>1, <3>2
    <2>4. ASSUME NEW i \in 1 .. Len(Routes), ~(i <= counter + 1)
          PROVE  LabelsOf(Routes[i])' = {}
      <3>1. i # turn /\ ~(i <= counter)
        BY <1>9, <1>10, <2>4
      <3> QED
        BY <1>16, <1>22, <2>1, <3>1 DEF LabelsFollowRoutes
    <2> QED
      BY <1>14, <1>16, <2>3, <2>4 DEF LabelsFollowRoutes
  <1>25. TextsAreAtStops'
    <2>1. ASSUME NEW stop \in Range(bus.stops)
          PROVE  \E at \in GetAllStopStats(db) : Place(at) = coords[stop]
      <3>1. SearchBus(db, name) \in BusPtrs(db) /\ bus = db.buses[SearchBus(db, name)]
        BY <1>4, <1>5, <1>11, BusOfRoute
      <3>2. stage = "populated"
        BY <1>6, InTurn
      <3>3. /\ db.stops[stop] \in GetAllStopStats(db)
            /\ SearchStop(db, db.stops[stop]) = stop
        BY <1>5, <3>1, <3>2, StopsOfBuses
      <3> QED
        BY <3>3 DEF Place
    <2>2. bus.stops[1] \in Range(bus.stops) /\ Last(bus.stops) \in Range(bus.stops)
      <3>1. bus.stops \in Seq(StopPtr \cup {Null}) /\ bus.stops # << >>
        <4>1. ~GetBusLineCrashes(db, name)
          BY <1>6, <1>11, InTurn
        <4> QED
          BY <1>4, <1>5, <1>11, <4>1, BusOfRoute, RouteHasStops
      <3>2. PICK stops \in Seq(StopPtr \cup {Null}) : stops = bus.stops
        BY <3>1
      <3>3. 1 \in DOMAIN stops /\ Len(stops) \in DOMAIN stops
        BY <3>1, <3>2
      <3> QED
        BY <3>2, <3>3 DEF Range, Last
    <2>3. ASSUME NEW i \in Tagged("text")' \ Tagged("text")
          PROVE  \E at \in GetAllStopStats(db) : document'[i].position = Project(Place(at))
      <3>1. PICK k \in 1 .. Len(objects) : document'[i] = objects[k]
        BY <1>18
      <3>2. PICK stop \in Range(bus.stops) : document'[i].position = Project(coords[stop])
        BY <1>12, <2>2, <3>1 DEF AreLabelsOf
      <3> QED
        BY <2>1, <3>2
    <2> QED
      BY <1>6, <1>7, <1>20, <2>3, InTurn, TextsKept
  <1>26. \A k \in 1 .. Len(objects) : objects[k].tag \in {"polyline", "circle", "text"}
    BY <1>13
  <1>27. LabelsFollowUnderlayers'
    <2>1. name \in BusName
      BY <1>1, <1>5, <1>10, RoutesInOrder, BusOfRoute
    <2>2. name \notin StopName
      BY <2>1, MapRendererAssumption
    <2>3. Underlaid(objects) /\ \A k \in 1 .. Len(objects) : objects[k].of = name
      BY <1>12 DEF AreLabelsOf
    <2>4. \A k \in LabelsIn(objects) : k \in 1 .. Len(objects)
      BY <1>12 DEF AreLabelsOf, LabelsIn, Kind
    <2>5. \A k \in LabelsIn(objects) : objects[k].of \notin StopName
      BY <2>2, <2>3, <2>4
    <2> QED
      BY <1>5, <1>6, <1>13, <2>3, <2>5, UnderlayersAdded
  <1> QED
    BY <1>5, <1>6, <1>13, <1>17, <1>24, <1>25, <1>26, <1>27, TurnTaken

LEMMA NoColorLeft ==
    ASSUME MapInvariant, drawing \in Loops, NoColor
    PROVE  MapInvariant'
  <1>1. PopulateInvariant'
    <2>1. PopulateInvariant /\ UNCHANGED populateVars
      BY DEF MapInvariant, NoColor
    <2> QED
      BY <2>1, PopulateStep
  <1>2. UNCHANGED <<base, db, stage, coords, settings, counter, document>> /\ drawing' = "crashed"
    BY DEF NoColor, populateVars
  <1>3. LoopsFollowCatalogue'
    BY <1>2, InTurn DEF LoopsFollowCatalogue
  <1> QED
    BY <1>1, <1>2, <1>3 DEF MapInvariant

LEMMA LayerEnded ==
    ASSUME MapInvariant, NextLayer
    PROVE  MapInvariant'
  <1>1. drawing \in Loops
    BY DEF NextLayer, Loops
  <1>2. UNCHANGED <<base, db, stage, coords, settings, document>> /\ UNCHANGED populateVars /\ counter' = 0
    BY DEF NextLayer, populateVars
  <1>3. PopulateInvariant'
    BY <1>2, PopulateStep DEF MapInvariant
  <1>4. PICK turns, stops \in Nat : turns = Len(Routes) /\ stops = Len(StopStats)
    BY RoutesInOrder, StatsInOrder DEF MapInvariant
  <1>5. Routes' = Routes /\ StopStats' = StopStats
    BY <1>2, SamePicture
  <1>6. \/ /\ drawing = "lines" /\ drawing' = "line labels" /\ counter = turns
        \/ /\ drawing = "line labels" /\ drawing' = "stops" /\ counter = turns
        \/ /\ drawing = "stops" /\ drawing' = "stop labels" /\ counter = stops
        \/ /\ drawing = "stop labels" /\ drawing' = "done" /\ counter = stops
    BY <1>4 DEF NextLayer
  <1>7. LinesDrawn' = LinesDrawn /\ LinesNamed' = LinesNamed /\ StopsDrawn' = StopsDrawn
    BY <1>2, <1>4, <1>5, <1>6 DEF LinesDrawn, LinesNamed, StopsDrawn
  <1>8. LoopsFollowCatalogue'
    <2>1. 0 \in Nat /\ 0 <= turns /\ 0 <= stops
      BY <1>4
    <2>2. counter' \in Nat /\ counter' <= Len(Routes)' /\ counter' <= Len(StopStats)'
      BY <1>2, <1>4, <1>5, <2>1
    <2>3. stage = "populated" /\ \A name \in GetAllBusLines(db) : ~GetBusLineCrashes(db, name)
      BY <1>1, InTurn
    <2>4. drawing' \in {"line labels", "stops", "stop labels", "done"}
      BY <1>6
    <2> QED
      BY <1>2, <2>2, <2>3, <2>4 DEF LoopsFollowCatalogue
  <1>9. \A tag : Tagged(tag)' = Tagged(tag)
    BY <1>2 DEF Tagged
  <1>10. \A name : LabelsOf(name)' = LabelsOf(name)
    BY <1>2, <1>9 DEF LabelsOf, Labels
  <1>11. LinesFollowRoutes'
    <2>1. drawing' # "lines"
      BY <1>6
    <2>2. Len(document') \in Nat /\ Len(document) <= Len(document') /\ Len(document) \in Nat
      BY <1>1, <1>2, InTurn
    <2> QED
      BY <1>1, <1>2, <1>7, <1>9, <2>1, <2>2, InTurn, LinesKept
  <1>12. LabelsFollowRoutes'
    <2>1. \A i \in 1 .. Len(Routes) : LabelsOf(Routes[i])' = LabelsOf(Routes[i])
      BY <1>2, <1>10, LabelsOfRoute
    <2> QED
      BY <1>1, <1>2, <1>7, <2>1, InTurn, LabelsKept
  <1>13. CirclesFollowStops'
    BY <1>1, <1>2, <1>7, <1>9, InTurn, CirclesKept
  <1>14. TextsAreAtStops'
    BY <1>1, <1>2, <1>9, InTurn, TextsKept
  <1>15. LabelsFollowUnderlayers'
    <2>1. LabelsFollowUnderlayers /\ document \in Seq(Range(document))
      BY <1>1, InTurn DEF MapInvariant
    <2>2. Labels' = Labels
      BY <1>2, <1>9 DEF Labels
    <2>3. drawing' # "lines"
      BY <1>6
    <2>4. \A i \in Labels : \A k \in Tagged("polyline")' : k < i
      BY <1>9, <2>1 DEF LabelsFollowUnderlayers
    <2>5. \A i \in Labels : document[i].of \in StopName =>
                drawing' \in {"stop labels", "done"} /\ \A k \in Tagged("circle")' : k < i
      BY <1>6, <1>9, <2>1 DEF LabelsFollowUnderlayers
    <2> QED
      BY <1>2, <1>9, <2>1, <2>2, <2>3, <2>4, <2>5, UnderlayersStay
  <1> QED
    BY <1>2, <1>3, <1>8, <1>11, <1>12, <1>13, <1>14, <1>15 DEF MapInvariant

LEMMA MapStarted ==
    ASSUME MapInvariant, StartMap
    PROVE  MapInvariant'
  <1>1. /\ UNCHANGED <<base, db, stage, coords, settings, counter, document>> /\ UNCHANGED populateVars
        /\ stage = "populated" /\ drawing = "waiting"
    BY DEF StartMap, populateVars
  <1>2. PopulateInvariant'
    BY <1>1, PopulateStep DEF MapInvariant
  <1>3. counter = 0 /\ document = << >>
    BY <1>1 DEF MapInvariant, LoopsFollowCatalogue
  <1>4. /\ drawing' \in {"lines", "crashed"}
        /\ drawing' # "crashed" => \A name \in GetAllBusLines(db) : ~GetBusLineCrashes(db, name)
    BY DEF StartMap
  <1>5. PICK turns \in Nat : turns = Len(Routes)
    BY RoutesInOrder DEF MapInvariant
  <1>6. Routes' = Routes
    BY <1>1, SamePicture
  <1>7. LoopsFollowCatalogue'
    <2>1. counter' \in Nat /\ counter' <= Len(Routes)'
      BY <1>1, <1>3, <1>5, <1>6
    <2> QED
      BY <1>1, <1>4, <2>1 DEF LoopsFollowCatalogue
  <1>8. DOMAIN document = {} /\ Len(document) = 0
    BY <1>3
  <1>9. \A tag : Tagged(tag)' = {}
    BY <1>1, <1>8 DEF Tagged
  <1>10. ASSUME drawing' = "lines"
         PROVE  /\ (LinesFollowRoutes /\ LabelsFollowRoutes /\ CirclesFollowStops /\ TextsAreAtStops)'
                /\ LabelsFollowUnderlayers'
    <2>1. LinesDrawn' = 0 /\ LinesNamed' = 0 /\ StopsDrawn' = 0
      BY <1>1, <1>3, <1>10 DEF LinesDrawn, LinesNamed, StopsDrawn
    <2>2. 1 .. 0 = {}
      OBVIOUS
    <2>3. LinesFollowRoutes'
      BY <1>1, <1>8, <1>9, <1>10, <2>1, <2>2 DEF LinesFollowRoutes
    <2>4. LabelsFollowRoutes'
      <3>1. \A i \in 1 .. turns : ~(i <= 0)
        BY <1>5
      <3>2. Labels' = {}
        BY <1>9 DEF Labels
      <3>3. \A i \in 1 .. turns : LabelsOf(Routes[i])' = {}
        BY <3>2 DEF LabelsOf
      <3> QED
        BY <1>5, <1>6, <2>1, <3>1, <3>3 DEF LabelsFollowRoutes
    <2>5. CirclesFollowStops'
      BY <1>9, <2>1, <2>2 DEF CirclesFollowStops
    <2>6. TextsAreAtStops'
      BY <1>9 DEF TextsAreAtStops
    <2>7. LabelsFollowUnderlayers'
      <3>1. Labels' = {}
        BY <1>9 DEF Labels
      <3> QED
        BY <1>9, <3>1 DEF LabelsFollowUnderlayers
    <2> QED
      BY <2>3, <2>4, <2>5, <2>6, <2>7
  <1> QED
    BY <1>1, <1>2, <1>4, <1>7, <1>10 DEF MapInvariant

\* Populate does not run any more when the map is drawn.
LEMMA CatalogueFilled ==
    ASSUME MapInvariant, [PopulateNext]_populateVars, UNCHANGED mapVars
    PROVE  MapInvariant'
  <1>1. PopulateInvariant'
    BY PopulateStep DEF MapInvariant
  <1>2. UNCHANGED <<coords, settings, drawing, counter, document>>
    BY DEF mapVars
  <1>3. base' = base
    BY DEF PopulateNext, NextStop, NextDistance, NextDistances, NextBus, NextLoop, populateVars
  <1>4. CASE drawing = "waiting"
    <2>1. LoopsFollowCatalogue'
      BY <1>2, <1>4 DEF MapInvariant, LoopsFollowCatalogue
    <2> QED
      BY <1>1, <1>2, <1>3, <1>4, <2>1 DEF MapInvariant
  <1>5. CASE drawing # "waiting"
    <2>1. stage = "populated"
      BY <1>5 DEF MapInvariant, LoopsFollowCatalogue
    <2>2. UNCHANGED populateVars
      BY <2>1 DEF PopulateNext, NextStop, NextDistance, NextDistances, NextBus, NextLoop
    <2>3. UNCHANGED <<db, stage>>
      BY <2>2 DEF populateVars
    <2>4. Routes' = Routes /\ StopStats' = StopStats
      BY <1>2, <2>3, SamePicture
    <2>5. LoopsFollowCatalogue'
      BY <1>2, <2>3, <2>4 DEF MapInvariant, LoopsFollowCatalogue
    <2>6. LinesDrawn' = LinesDrawn /\ LinesNamed' = LinesNamed /\ StopsDrawn' = StopsDrawn
      BY <1>2, <2>4 DEF LinesDrawn, LinesNamed, StopsDrawn
    <2>7. \A tag : Tagged(tag)' = Tagged(tag)
      BY <1>2 DEF Tagged
    <2>8. \A name : LabelsOf(name)' = LabelsOf(name)
      BY <1>2, <2>7 DEF LabelsOf, Labels
    <2>9. LinesFollowRoutes => LinesFollowRoutes'
      BY <1>2, <2>3, <2>6, <2>7, SamePicture DEF LinesFollowRoutes
    <2>10. LabelsFollowRoutes => LabelsFollowRoutes'
      <3>1. \A i \in 1 .. Len(Routes) : LabelsOf(Routes[i])' = LabelsOf(Routes[i])
        BY <1>2, <2>3, <2>8, LabelsOfRoute
      <3> QED
        BY <1>2, <2>3, <2>6, <3>1, LabelsKept
    <2>11. CirclesFollowStops => CirclesFollowStops'
      BY <1>2, <2>3, <2>6, <2>7, CirclesKept
    <2>12. TextsAreAtStops => TextsAreAtStops'
      BY <1>2, <2>3, <2>7, TextsKept
    <2>13. LabelsFollowUnderlayers => LabelsFollowUnderlayers'
      <3>1. Labels' = Labels
        BY <1>2, <2>7 DEF Labels
      <3>2. document \in Seq(Range(document))
        BY DEF MapInvariant
      <3> QED
        BY <1>2, <2>7, <3>1, <3>2, UnderlayersStay DEF LabelsFollowUnderlayers
    <2> QED
      BY <1>1, <1>2, <1>3, <2>5, <2>9, <2>10, <2>11, <2>12, <2>13 DEF MapInvariant
  <1> QED
    BY <1>4, <1>5

LEMMA MapInitHolds == Init => MapInvariant
  <1> SUFFICES ASSUME Init
               PROVE  MapInvariant
    OBVIOUS
  <1>1. PopulateInvariant
    BY InitHolds DEF Init
  <1>2. drawing = "waiting" /\ counter = 0 /\ document = << >>
    BY DEF Init
  <1>3. LoopsFollowCatalogue
    BY <1>2 DEF LoopsFollowCatalogue
  <1>4. document \in Seq(Range(document)) /\ DOMAIN document = {}
    BY <1>2
  <1>5. base \in Bases /\ coords \in Places /\ settings \in MapSettings
    BY DEF Init, PopulateInit
  <1> QED
    BY <1>1, <1>2, <1>3, <1>4, <1>5 DEF MapInvariant

LEMMA MapStep == MapInvariant /\ [Next]_vars => MapInvariant'
  <1> SUFFICES ASSUME MapInvariant, [Next]_vars
               PROVE  MapInvariant'
    OBVIOUS
  <1>1. CASE PopulateNext /\ UNCHANGED mapVars
    BY <1>1, CatalogueFilled
  <1>2. CASE UNCHANGED vars
    BY <1>2, CatalogueFilled DEF vars
  <1>3. CASE StartMap
    BY <1>3, MapStarted
  <1>4. CASE NextLayer
    BY <1>4, LayerEnded
  <1>5. CASE DrawBusLineLine
    <2>1. drawing \in Loops /\ Drawing("lines", Len(Routes))
      BY <1>5 DEF DrawBusLineLine, Drawing, Loops
    <2>2. CASE settings.palette = << >>
      BY <1>5, <2>1, <2>2, NoColorLeft DEF DrawBusLineLine
    <2>3. CASE settings.palette # << >>
      <3>1. PICK line : line = BusLineLine(Routes[counter + 1], GetBusLineColor(counter))
        OBVIOUS
      <3>2. Draw(<<line>>)
        BY <1>5, <2>3, <3>1 DEF DrawBusLineLine
      <3> QED
        BY <2>1, <3>1, <3>2, LineDrawn
    <2> QED
      BY <2>2, <2>3
  <1>6. CASE DrawBusLineLabel
    BY <1>6, LineLabelDrawn
  <1>7. CASE DrawStop
    BY <1>7, StopDrawn
  <1>8. CASE DrawStopLabel
    BY <1>8, StopLabelDrawn
  <1> QED
    BY <1>1, <1>2, <1>3, <1>4, <1>5, <1>6, <1>7, <1>8 DEF Next, RenderMap

\* Whatever the requests, the places and the settings, the document has at every
\* step what the loops have come to: RenderMap and its four DrawBusLine... and
\* DrawStop... methods (map_renderer.cpp:9-24, 43-160).
THEOREM MapInvariance == Spec => []MapInvariant
  BY MapInitHolds, MapStep, PTL DEF Spec

-----------------------------------------------------------------------------
(* The picture that is done. *)

LEMMA Finished ==
    ASSUME MapInvariant, drawing = "done"
    PROVE  /\ PopulateInvariant /\ stage = "populated"
           /\ Len(document) \in Nat /\ DOMAIN document = 1 .. Len(document)
           /\ Tagged("polyline") = 1 .. Len(Routes)
           /\ \A i \in 1 .. Len(Routes) :
                document[i] = BusLineLine(Routes[i], GetBusLineColor(i - 1)) /\ HasItsLabels(i)
           /\ \A i \in Tagged("circle") : \E k \in 1 .. Len(StopStats) :
                document[i] = StopCircle(StopStats[k])
           /\ \A k \in 1 .. Len(StopStats) : \E i \in Tagged("circle") :
                document[i] = StopCircle(StopStats[k])
           /\ \A i, k \in Tagged("circle") : document[i].of = document[k].of => i = k
           /\ TextsAreAtStops
           /\ \A name \in GetAllBusLines(db) : BusNamed(name).stops # << >>
  <1>1. drawing \notin {"waiting", "crashed", "lines", "line labels", "stops", "stop labels"}
    OBVIOUS
  <1>2. LoopsFollowCatalogue /\ document \in Seq(Range(document)) /\ PopulateInvariant
    BY DEF MapInvariant
  <1>3. /\ LinesFollowRoutes /\ LabelsFollowRoutes /\ CirclesFollowStops /\ TextsAreAtStops
        /\ LabelsFollowUnderlayers
    BY <1>1 DEF MapInvariant
  <1>4. stage = "populated" /\ \A name \in GetAllBusLines(db) : ~GetBusLineCrashes(db, name)
    BY <1>1, <1>2 DEF LoopsFollowCatalogue
  <1>5. LinesDrawn = Len(Routes) /\ LinesNamed = Len(Routes) /\ StopsDrawn = Len(StopStats)
    BY <1>1 DEF LinesDrawn, LinesNamed, StopsDrawn
  <1>6. Tagged("polyline") = 1 .. Len(Routes)
    BY <1>3, <1>5 DEF LinesFollowRoutes
  <1>7. \A i \in 1 .. Len(Routes) : document[i] = BusLineLine(Routes[i], GetBusLineColor(i - 1))
    BY <1>3, <1>5 DEF LinesFollowRoutes
  <1>8. \A i \in 1 .. Len(Routes) : HasItsLabels(i)
    <2>1. Len(Routes) \in Nat
      BY <1>2, RoutesInOrder
    <2>2. \A i \in 1 .. Len(Routes) : i <= Len(Routes)
      BY <2>1
    <2> QED
      BY <1>3, <1>5, <2>2 DEF LabelsFollowRoutes
  <1>9. \A name \in GetAllBusLines(db) : BusNamed(name).stops # << >>
    BY <1>2, <1>4, RouteHasStops
  <1>10. Len(document) \in Nat /\ DOMAIN document = 1 .. Len(document)
    BY <1>2
  <1>11. /\ \A i \in Tagged("circle") : \E k \in 1 .. Len(StopStats) :
                document[i] = StopCircle(StopStats[k])
         /\ \A k \in 1 .. Len(StopStats) : \E i \in Tagged("circle") :
                document[i] = StopCircle(StopStats[k])
         /\ \A i, k \in Tagged("circle") : document[i].of = document[k].of => i = k
    BY <1>3, <1>5 DEF CirclesFollowStops
  <1> QED
    BY <1>2, <1>3, <1>4, <1>6, <1>7, <1>8, <1>9, <1>10, <1>11

\* The points of a line are those of its stops.
LEMMA PointsOfLine ==
    ASSUME MapInvariant, drawing = "done", NEW i \in 1 .. Len(Routes)
    PROVE  /\ document[i].of = Routes[i] /\ document[i].stroke = GetBusLineColor(i - 1)
           /\ LET bus  == BusNamed(Routes[i])
                  trip == Trip(bus)
              IN  /\ bus.stops \in Seq(StopPtr \cup {Null}) /\ bus.stops # << >>
                  /\ bus \in {db.buses[ptr] : ptr \in BusPtrs(db)}
                  /\ Range(trip) = Range(bus.stops)
                  /\ document[i].points = [n \in DOMAIN trip |-> Project(coords[trip[n]])]
                  /\ Range(document[i].points) = {Project(coords[stop]) : stop \in Range(bus.stops)}
  <1>1. PICK name : name = Routes[i]
    OBVIOUS
  <1>2. PICK color : color = GetBusLineColor(i - 1)
    OBVIOUS
  <1>3. PICK bus : bus = BusNamed(name)
    OBVIOUS
  <1>4. PICK trip : trip = Trip(bus)
    OBVIOUS
  <1>5. document[i] = BusLineLine(name, color)
    BY <1>1, <1>2, Finished
  <1>6. /\ document[i].of = name /\ document[i].stroke = color
        /\ document[i].points = [n \in DOMAIN trip |-> Project(coords[trip[n]])]
    BY <1>3, <1>4, <1>5, LineObject
  <1>7. name \in GetAllBusLines(db)
    BY <1>1, Finished, RoutesInOrder
  <1>8. bus.stops \in Seq(StopPtr \cup {Null}) /\ bus.stops # << >>
    BY <1>3, <1>7, Finished, BusOfRoute
  <1>9. bus \in {db.buses[ptr] : ptr \in BusPtrs(db)}
    BY <1>3, <1>7, Finished, BusOfRoute
  <1>10. Range(trip) = Range(bus.stops)
    BY <1>4, <1>8, TripStops
  <1>11. Range(document[i].points) = {Project(coords[stop]) : stop \in Range(trip)}
    <2>1. PICK points : points = [n \in DOMAIN trip |-> Project(coords[trip[n]])]
      OBVIOUS
    <2>2. Range(points) = {Project(coords[stop]) : stop \in Range(trip)}
      BY <2>1 DEF Range
    <2> QED
      BY <1>6, <2>1, <2>2
  <1> QED
    BY <1>1, <1>2, <1>3, <1>4, <1>6, <1>8, <1>9, <1>10, <1>11

\* Where the circles are.
LEMMA CentersAreStops ==
    ASSUME MapInvariant, drawing = "done"
    PROVE  {document[i].center : i \in Tagged("circle")} =
                {Project(Place(name)) : name \in GetAllStopStats(db)}
  <1>1. ASSUME NEW i \in Tagged("circle")
        PROVE  \E name \in GetAllStopStats(db) : document[i].center = Project(Place(name))
    <2>1. PICK k \in 1 .. Len(StopStats) : document[i] = StopCircle(StopStats[k])
      BY Finished
    <2>2. PICK name \in GetAllStopStats(db) : name = StopStats[k]
      BY Finished, StatsInOrder
    <2> QED
      BY <2>1, <2>2, CircleObject
  <1>2. ASSUME NEW name \in GetAllStopStats(db)
        PROVE  \E i \in Tagged("circle") : document[i].center = Project(Place(name))
    <2>1. PICK k \in 1 .. Len(StopStats) : name = StopStats[k]
      BY Finished, StatsInOrder
    <2>2. PICK i \in Tagged("circle") : document[i] = StopCircle(name)
      BY <2>1, Finished
    <2> QED
      BY <2>2, CircleObject
  <1> QED
    BY <1>1, <1>2

LEMMA StopsOnLines == MapInvariant => StopsAreOnLines
  <1> SUFFICES ASSUME MapInvariant, drawing = "done"
               PROVE  StopsAreOnLines
    BY DEF StopsAreOnLines
  <1>1. PICK centers : centers = {document[i].center : i \in Tagged("circle")}
    OBVIOUS
  <1>2. PICK onlines : onlines = UNION {Range(document[i].points) : i \in Tagged("polyline")}
    OBVIOUS
  <1>3. centers = {Project(Place(name)) : name \in GetAllStopStats(db)}
    BY <1>1, CentersAreStops
  <1>4. ASSUME NEW ptr \in BusPtrs(db), NEW stop \in Range(db.buses[ptr].stops)
        PROVE  Project(coords[stop]) \in centers
    <2>1. db.stops[stop] \in GetAllStopStats(db) /\ SearchStop(db, db.stops[stop]) = stop
      BY Finished, StopsOfBuses
    <2> QED
      BY <1>3, <2>1 DEF Place
  <1>5. onlines \subseteq centers
    <2>1. ASSUME NEW i \in Tagged("polyline"), NEW point \in Range(document[i].points)
          PROVE  point \in centers
      <3>1. i \in 1 .. Len(Routes)
        BY Finished
      <3>4. Range(document[i].points) = {Project(coords[stop]) : stop \in Range(BusNamed(Routes[i]).stops)}
        BY <3>1, PointsOfLine
      <3>2. PICK stop \in Range(BusNamed(Routes[i]).stops) : point = Project(coords[stop])
        BY <3>4
      <3>3. BusNamed(Routes[i]) \in {db.buses[ptr] : ptr \in BusPtrs(db)}
        BY <3>1, PointsOfLine
      <3> QED
        BY <1>4, <3>2, <3>3
    <2> QED
      BY <1>2, <2>1
  <1>6. ASSUME NEW name \in GetAllStopStats(db)
        PROVE  \E ptr \in BusPtrs(db) :
                    SearchStop(db, name) \in Range(db.buses[ptr].stops)
    BY Finished, StopsOfStats
  <1>7. ASSUME BusPtrs(db) \ GetBusesHolder(db) = {}
        PROVE  centers \subseteq onlines
    <2>1. ASSUME NEW name \in GetAllStopStats(db)
          PROVE  Project(Place(name)) \in onlines
      <3>1. PICK ptr \in BusPtrs(db) : SearchStop(db, name) \in Range(db.buses[ptr].stops)
        BY <1>6
      <3>2. ptr \in GetBusesHolder(db)
        BY <1>7
      <3>3. /\ db.buses[ptr].name \in GetAllBusLines(db)
            /\ BusNamed(db.buses[ptr].name) = db.buses[ptr]
        BY <3>2, Finished, RouteOfBus
      <3>4. PICK i \in 1 .. Len(Routes) : Routes[i] = db.buses[ptr].name
        BY <3>3, Finished, RoutesInOrder
      <3>5. BusNamed(Routes[i]) = db.buses[ptr]
        BY <3>3, <3>4
      <3>6. Project(coords[SearchStop(db, name)]) \in Range(document[i].points)
        BY <3>1, <3>5, PointsOfLine
      <3>7. i \in Tagged("polyline")
        BY Finished
      <3> QED
        BY <1>2, <3>6, <3>7 DEF Place
    <2> QED
      BY <1>3, <2>1
  <1>8. centers = {Project(coords[ptr]) : ptr \in UNION {Range(bus.stops) : bus \in Range(db.buses)}}
    <2>1. Range(db.buses) = {db.buses[ptr] : ptr \in BusPtrs(db)}
      BY DEF Range, BusPtrs
    <2>2. \A point \in centers : \E ptr \in BusPtrs(db) : \E stop \in Range(db.buses[ptr].stops) :
                point = Project(coords[stop])
      BY <1>3, <1>6 DEF Place
    <2> QED
      BY <1>4, <2>1, <2>2
  <1>9. \A i, k \in Tagged("circle") : document[i].of = document[k].of => i = k
    BY Finished
  <1> QED
    BY <1>1, <1>2, <1>5, <1>7, <1>8, <1>9 DEF StopsAreOnLines

\* No line of a picture leads anywhere but to a circle, and every circle is where a
\* stop of a bus is: projector, GetAllStopStats and GetAllBusLines
\* (map_renderer.cpp:27-64, 133-146) agree on the stops that AddBus has listed
\* (catalogue.cpp:30-37).
THEOREM StopsAreDrawnOnLines == Spec => []StopsAreOnLines
  BY MapInvariance, StopsOnLines, PTL

LEMMA CountOfTwo ==
    ASSUME NEW a, NEW b
    PROVE  Cardinality({a, b}) = IF a = b THEN 1 ELSE 2
  <1>1. IsFiniteSet({a}) /\ Cardinality({a}) = 1
    BY FS_Singleton
  <1>2. {a} \cup {b} = {a, b}
    OBVIOUS
  <1>3. Cardinality({a} \cup {b}) = IF b \in {a} THEN 1 ELSE 1 + 1
    BY <1>1, FS_AddElement
  <1> QED
    BY <1>2, <1>3

LEMMA LabelsOnLines == MapInvariant => LabelsMatchLines
  <1> SUFFICES ASSUME MapInvariant, drawing = "done", NEW i \in Tagged("polyline")
               PROVE  LET line   == document[i]
                          labels == {k \in Labels : document[k].of = line.of}
                          bus    == BusNamed(line.of)
                          ends   == {bus.stops[1], Last(bus.stops)}
                      IN  /\ \A k \in labels : k > i /\ document[k].fill = line.stroke
                          /\ Cardinality(labels) = IF bus.is_roundtrip THEN 1 ELSE Cardinality(ends)
                          /\ {document[k].position : k \in labels} =
                                (IF bus.is_roundtrip THEN {Last(line.points)}
                                 ELSE {line.points[1], line.points[Len(bus.stops)]})
    BY DEF LabelsMatchLines
  <1>1. i \in 1 .. Len(Routes)
    BY Finished
  <1>2. PICK bus : bus = BusNamed(Routes[i])
    OBVIOUS
  <1>3. PICK trip : trip = Trip(bus)
    OBVIOUS
  <1>4. PICK labels : labels = LabelsOf(Routes[i])
    OBVIOUS
  <1>5. document[i].of = Routes[i] /\ document[i].stroke = GetBusLineColor(i - 1)
    BY <1>1, PointsOfLine
  <1>6. /\ bus.stops \in Seq(StopPtr \cup {Null}) /\ bus.stops # << >>
        /\ document[i].points = [n \in DOMAIN trip |-> Project(coords[trip[n]])]
    BY <1>1, <1>2, <1>3, PointsOfLine
  <1>7. PICK stops \in Seq(StopPtr \cup {Null}) : stops = bus.stops
    BY <1>6
  <1>8. PICK n \in Nat : n = Len(stops)
    BY <1>7
  <1>9. 1 \in 1 .. n /\ n \in 1 .. n /\ DOMAIN stops = 1 .. n
    BY <1>6, <1>7, <1>8
  <1>10. /\ trip \in Seq(StopPtr \cup {Null}) /\ n <= Len(trip)
         /\ \A k \in 1 .. n : trip[k] = stops[k]
         /\ bus.is_roundtrip => trip = stops
    BY <1>3, <1>6, <1>7, <1>8, TripStops
  <1>11. PICK points : points = document[i].points
    OBVIOUS
  <1>12. /\ Len(trip) \in Nat /\ DOMAIN trip = 1 .. Len(trip)
         /\ points = [k \in 1 .. Len(trip) |-> Project(coords[trip[k]])]
    BY <1>6, <1>10, <1>11
  <1>13. points[1] = Project(coords[stops[1]]) /\ points[n] = Project(coords[Last(stops)])
    <2>1. 1 \in 1 .. Len(trip) /\ n \in 1 .. Len(trip)
      BY <1>8, <1>9, <1>10, <1>12
    <2>2. points[1] = Project(coords[trip[1]]) /\ points[n] = Project(coords[trip[n]])
      BY <1>12, <2>1
    <2>3. trip[1] = stops[1] /\ trip[n] = stops[n]
      BY <1>9, <1>10
    <2>4. Last(stops) = stops[n]
      BY <1>8 DEF Last
    <2> QED
      BY <2>2, <2>3, <2>4
  <1>14. bus.is_roundtrip => Last(points) = points[n]
    <2>1. Len(points) = Len(trip)
      BY <1>12
    <2>2. bus.is_roundtrip => Len(trip) = n
      BY <1>8, <1>10
    <2> QED
      BY <2>1, <2>2 DEF Last
  <1>15. HasItsLabels(i)
    BY <1>1, Finished
  <1>16. \A k \in labels : k > i /\ document[k].fill = document[i].stroke
    <2>1. \A k \in labels : k > Len(Routes) /\ document[k].fill = GetBusLineColor(i - 1)
      BY <1>4, <1>15 DEF HasItsLabels
    <2>2. labels \subseteq DOMAIN document
      BY <1>4 DEF LabelsOf, Labels, Tagged
    <2>3. \A k \in labels : k \in Int
      BY <2>2, Finished
    <2>4. Len(Routes) \in Nat
      BY Finished, RoutesInOrder
    <2>5. \A k \in labels : k > i
      BY <1>1, <2>1, <2>3, <2>4
    <2> QED
      BY <1>5, <2>1, <2>5
  <1>17. PICK last \in labels :
            /\ document[last].position = Project(coords[Last(stops)])
            /\ IF HasTwoEnds(bus)
               THEN \E first \in labels :
                        /\ first # last /\ labels = {first, last}
                        /\ document[first].position = Project(coords[stops[1]])
               ELSE labels = {last}
    BY <1>2, <1>4, <1>7, <1>15 DEF HasItsLabels
  <1>18. HasTwoEnds(bus) <=> ~bus.is_roundtrip /\ stops[1] # Last(stops)
    BY <1>7 DEF HasTwoEnds
  <1>19. Cardinality(labels) =
            IF bus.is_roundtrip THEN 1 ELSE Cardinality({stops[1], Last(stops)})
    <2>1. CASE HasTwoEnds(bus)
      <3>1. PICK first \in labels : first # last /\ labels = {first, last}
        BY <1>17, <2>1
      <3>2. Cardinality(labels) = 2
        BY <3>1, CountOfTwo
      <3>3. Cardinality({stops[1], Last(stops)}) = 2
        BY <1>18, <2>1, CountOfTwo
      <3> QED
        BY <1>18, <2>1, <3>2, <3>3
    <2>2. CASE ~HasTwoEnds(bus)
      <3>1. labels = {last, last}
        BY <1>17, <2>2
      <3>2. Cardinality(labels) = 1
        BY <3>1, CountOfTwo
      <3>3. ~bus.is_roundtrip => Cardinality({stops[1], Last(stops)}) = 1
        BY <1>18, <2>2, CountOfTwo
      <3> QED
        BY <3>2, <3>3
    <2> QED
      BY <2>1, <2>2
  <1>20. {document[k].position : k \in labels} =
            IF bus.is_roundtrip THEN {Last(points)} ELSE {points[1], points[n]}
    <2>1. CASE HasTwoEnds(bus)
      <3>1. PICK first \in labels :
                /\ first # last /\ labels = {first, last}
                /\ document[first].position = Project(coords[stops[1]])
        BY <1>17, <2>1
      <3>2. {document[k].position : k \in labels} = {points[1], points[n]}
        BY <1>13, <1>17, <3>1
      <3> QED
        BY <1>18, <2>1, <3>2
    <2>2. CASE ~HasTwoEnds(bus)
      <3>1. {document[k].position : k \in labels} = {points[n]}
        BY <1>13, <1>17, <2>2
      <3>2. ~bus.is_roundtrip => points[1] = points[n]
        BY <1>13, <1>18, <2>2
      <3> QED
        BY <1>14, <3>1, <3>2
    <2> QED
      BY <2>1, <2>2
  <1>21. /\ labels = {k \in Labels : document[k].of = document[i].of}
         /\ bus = BusNamed(document[i].of)
    BY <1>2, <1>4, <1>5 DEF LabelsOf
  <1> QED
    BY <1>7, <1>8, <1>11, <1>16, <1>19, <1>20, <1>21

\* A line has a label for each of its ends, in the color of its polyline, although
\* two loops go through the lines on their own and count the colors from nought
\* (map_renderer.cpp:43-64, 102-131).
THEOREM LabelsAreOfTheirLines == Spec => []LabelsMatchLines
  BY MapInvariance, LabelsOnLines, PTL

-----------------------------------------------------------------------------
(* The projection of the stops onto the map. *)

\* Every stop that is drawn has coordinates.
LEMMA PlacesAreGiven ==
    ASSUME MapInvariant, stage = "populated", NEW name \in GetAllStopStats(db)
    PROVE  Place(name).lng \in Int /\ Place(name).lat \in Int
  <1>1. SearchStop(db, name) \in StopPtrs(db)
    BY StopsOfStats DEF MapInvariant
  <1>2. PICK places \in Places : places = coords
    BY DEF MapInvariant
  <1>3. places \in Seq(Coordinates) /\ Len(base.stops) <= Len(places)
    BY <1>2, MapRendererAssumption DEF MapInvariant
  <1>4. Len(db.stops) = Len(base.stops) /\ db.stops \in Seq(StopName)
    BY DEF MapInvariant, PopulateInvariant, StopsFollowRequests, PopulateTypeOK
  <1>5. PICK m \in Nat, n \in Nat : m = Len(db.stops) /\ n = Len(places)
    BY <1>3, <1>4
  <1>6. SearchStop(db, name) \in 1 .. m /\ m <= n
    BY <1>1, <1>3, <1>4, <1>5 DEF StopPtrs
  <1>7. SearchStop(db, name) \in 1 .. n
    BY <1>5, <1>6
  <1>8. places[SearchStop(db, name)] \in Coordinates
    BY <1>3, <1>5, <1>7
  <1> QED
    BY <1>2, <1>8 DEF Place, Coordinates

LEMMA Extent ==
    ASSUME MapInvariant, stage = "populated", GetAllStopStats(db) # {}
    PROVE  /\ Lngs \subseteq Int /\ IsFiniteSet(Lngs) /\ Lngs # {}
           /\ Lats \subseteq Int /\ IsFiniteSet(Lats) /\ Lats # {}
  <1>1. PICK names : names = GetAllStopStats(db)
    OBVIOUS
  <1>2. IsFiniteSet(names)
    BY <1>1, StatsAreFinite DEF MapInvariant
  <1>3. PICK f : f = [name \in names |-> Place(name).lng]
    OBVIOUS
  <1>4. PICK g : g = [name \in names |-> Place(name).lat]
    OBVIOUS
  <1>5. f \in Surjection(names, Lngs)
    BY <1>1, <1>3 DEF Surjection, Lngs
  <1>6. g \in Surjection(names, Lats)
    BY <1>1, <1>4 DEF Surjection, Lats
  <1>7. IsFiniteSet(Lngs) /\ IsFiniteSet(Lats)
    BY <1>2, <1>5, <1>6, FS_Surjection
  <1>8. Lngs # {} /\ Lats # {}
    BY DEF Lngs, Lats
  <1>9. Lngs \subseteq Int /\ Lats \subseteq Int
    BY PlacesAreGiven DEF Lngs, Lats
  <1> QED
    BY <1>7, <1>8, <1>9

\* One of two fractions is the smaller one.
IsFraction(zoom) == zoom.num \in Nat /\ zoom.den \in Nat \ {0}

LEMMA SmallerFraction ==
    ASSUME NEW S, NEW a, NEW b, IsFraction(a), IsFraction(b), S \in {{a}, {b}, {a, b}}
    PROVE  \E zoom \in S : \A other \in S : zoom.num * other.den <= other.num * zoom.den
  <1>1. PICK m \in Nat, n \in Nat : m = a.num /\ n = a.den
    BY DEF IsFraction
  <1>2. PICK p \in Nat, q \in Nat : p = b.num /\ q = b.den
    BY DEF IsFraction
  <1>3. m * n <= m * n /\ p * q <= p * q
    OBVIOUS
  <1>4. m * q <= p * n \/ p * n <= m * q
    OBVIOUS
  <1>5. CASE S = {a}
    BY <1>1, <1>3, <1>5
  <1>6. CASE S = {b}
    BY <1>2, <1>3, <1>6
  <1>7. CASE S = {a, b}
    BY <1>1, <1>2, <1>3, <1>4, <1>7
  <1> QED
    BY <1>5, <1>6, <1>7

LEMMA Sizes ==
    ASSUME MapInvariant
    PROVE  /\ Width \in Nat /\ Height \in Nat /\ Padding \in Nat
           /\ Width - 2 * Padding \in Nat \ {0} /\ Height - 2 * Padding \in Nat \ {0}
  <1>1. settings \in MapSettings
    BY DEF MapInvariant
  <1>2. \A i \in 1 .. 2 : /\ settings.map_sizes[i] \in Nat /\ settings.padding \in Nat
                          /\ 2 * settings.padding < settings.map_sizes[i]
    BY <1>1, MapRendererAssumption
  <1>3. 1 \in 1 .. 2 /\ 2 \in 1 .. 2
    OBVIOUS
  <1>4. /\ Width \in Nat /\ Height \in Nat /\ Padding \in Nat
        /\ 2 * Padding < Width /\ 2 * Padding < Height
    BY <1>2, <1>3 DEF Width, Height, Padding
  <1> QED
    BY <1>4

\* The zoom fits the stops into the map, and fills its width or its height.
LEMMA ZoomFits ==
    ASSUME MapInvariant, stage = "populated", GetAllStopStats(db) # {}
    PROVE  LET dx == Max(Lngs) - Min(Lngs)
               dy == Max(Lats) - Min(Lats)
               w  == Width - 2 * Padding
               h  == Height - 2 * Padding
           IN  /\ dx \in Nat /\ dy \in Nat /\ Zoom.num \in Nat /\ Zoom.den \in Nat
               /\ dx * Zoom.num <= w * Zoom.den /\ dy * Zoom.num <= h * Zoom.den
               /\ \/ dx = 0 /\ dy = 0
                  \/ dx * Zoom.num = w * Zoom.den
                  \/ dy * Zoom.num = h * Zoom.den
  <1>1. /\ Min(Lngs) \in Int /\ Max(Lngs) \in Int /\ Min(Lngs) <= Max(Lngs)
        /\ Min(Lats) \in Int /\ Max(Lats) \in Int /\ Min(Lats) <= Max(Lats)
    <2>1. /\ Min(Lngs) \in Lngs /\ Max(Lngs) \in Lngs /\ Min(Lngs) <= Max(Lngs)
      BY Extent, LeastAndGreatest
    <2>2. /\ Min(Lats) \in Lats /\ Max(Lats) \in Lats /\ Min(Lats) <= Max(Lats)
      BY Extent, LeastAndGreatest
    <2> QED
      BY <2>1, <2>2, Extent
  <1>2. PICK dx \in Nat, dy \in Nat : dx = Max(Lngs) - Min(Lngs) /\ dy = Max(Lats) - Min(Lats)
    <2>1. Max(Lngs) - Min(Lngs) \in Nat /\ Max(Lats) - Min(Lats) \in Nat
      BY <1>1
    <2> QED
      BY <2>1
  <1>3. PICK w \in Nat \ {0}, h \in Nat \ {0} : w = Width - 2 * Padding /\ h = Height - 2 * Padding
    BY Sizes
  <1>4. (Max(Lngs) = Min(Lngs) <=> dx = 0) /\ (Max(Lats) = Min(Lats) <=> dy = 0)
    BY <1>1, <1>2
  <1>5. PICK a : a = [num |-> w, den |-> dx]
    OBVIOUS
  <1>6. PICK b : b = [num |-> h, den |-> dy]
    OBVIOUS
  <1>7. Zooms = (IF dx = 0 THEN {} ELSE {a}) \cup (IF dy = 0 THEN {} ELSE {b})
    BY <1>2, <1>3, <1>4, <1>5, <1>6 DEF Zooms
  <1>8. CASE Zooms = {}
    <2>1. dx = 0 /\ dy = 0
      BY <1>7, <1>8
    <2>2. Zoom.num = 0 /\ Zoom.den = 1
      BY <1>8 DEF Zoom
    <2>3. dx * 0 <= w * 1 /\ dy * 0 <= h * 1
      BY <2>1, <1>3
    <2> QED
      BY <1>2, <1>3, <2>1, <2>2, <2>3
  <1>9. CASE Zooms # {}
    <2>1. \E zoom \in Zooms : \A other \in Zooms : zoom.num * other.den <= other.num * zoom.den
      <3>1. CASE dx = 0
        <4>1. dy # 0 /\ Zooms = {b}
          BY <1>7, <1>9, <3>1
        <4>2. IsFraction(b)
          BY <1>6, <4>1 DEF IsFraction
        <4> QED
          BY <4>1, <4>2, SmallerFraction
      <3>2. CASE dx # 0 /\ dy = 0
        <4>1. Zooms = {a}
          BY <1>7, <3>2
        <4>2. IsFraction(a)
          BY <1>5, <3>2 DEF IsFraction
        <4> QED
          BY <4>1, <4>2, SmallerFraction
      <3>3. CASE dx # 0 /\ dy # 0
        <4>1. Zooms = {a, b}
          BY <1>7, <3>3
        <4>2. IsFraction(a) /\ IsFraction(b)
          BY <1>5, <1>6, <3>3 DEF IsFraction
        <4> QED
          BY <4>1, <4>2, SmallerFraction
      <3> QED
        BY <3>1, <3>2, <3>3
    <2>2. Zoom \in Zooms /\ \A other \in Zooms : Zoom.num * other.den <= other.num * Zoom.den
      BY <1>9, <2>1 DEF Zoom
    <2>3. PICK z : z = Zoom
      OBVIOUS
    <2>4. (z = a /\ dx # 0) \/ (z = b /\ dy # 0)
      BY <1>7, <2>2, <2>3
    <2>5. PICK m \in Nat, n \in Nat : m = z.num /\ n = z.den
      BY <1>5, <1>6, <2>4
    <2>6. dx * m <= w * n
      <3>1. CASE dx = 0
        BY <1>3, <3>1
      <3>2. CASE dx # 0
        <4>1. a \in Zooms
          BY <1>7, <3>2
        <4>2. m * dx <= w * n
          BY <1>5, <2>2, <2>3, <2>5, <4>1
        <4> QED
          BY <4>2
      <3> QED
        BY <3>1, <3>2
    <2>7. dy * m <= h * n
      <3>1. CASE dy = 0
        BY <1>3, <3>1
      <3>2. CASE dy # 0
        <4>1. b \in Zooms
          BY <1>7, <3>2
        <4>2. m * dy <= h * n
          BY <1>6, <2>2, <2>3, <2>5, <4>1
        <4> QED
          BY <4>2
      <3> QED
        BY <3>1, <3>2
    <2>8. dx * m = w * n \/ dy * m = h * n
      <3>1. CASE z = a
        <4>1. m = w /\ n = dx
          BY <1>5, <2>5, <3>1
        <4> QED
          BY <4>1
      <3>2. CASE z = b
        <4>1. m = h /\ n = dy
          BY <1>6, <2>5, <3>2
        <4> QED
          BY <4>1
      <3> QED
        BY <2>4, <3>1, <3>2
    <2> QED
      BY <1>2, <1>3, <2>3, <2>5, <2>6, <2>7, <2>8
  <1> QED
    BY <1>8, <1>9

\* All that is drawn is drawn where stops are that have a bus, and each of them has a
\* circle.
LEMMA PointsAreStops ==
    ASSUME MapInvariant, drawing = "done"
    PROVE  Points = {Project(Place(name)) : name \in GetAllStopStats(db)}
  <1>1. PICK places : places = {Project(Place(name)) : name \in GetAllStopStats(db)}
    OBVIOUS
  <1>2. DOMAIN document = 1 .. Len(document) /\ Range(document) = {document[i] : i \in DOMAIN document}
    BY Finished DEF Range
  <1>3. ASSUME NEW i \in DOMAIN document
        PROVE  PointsOf(document[i]) \subseteq places
    <2>1. document[i].tag \in {"polyline", "circle", "text"}
      BY DEF MapInvariant
    <2>2. CASE document[i].tag = "polyline"
      <3>1. i \in 1 .. Len(Routes)
        BY <2>2, Finished DEF Tagged
      <3>2. Range(document[i].points) = {Project(coords[stop]) : stop \in Range(BusNamed(Routes[i]).stops)}
        BY <3>1, PointsOfLine
      <3>3. BusNamed(Routes[i]) \in {db.buses[ptr] : ptr \in BusPtrs(db)}
        BY <3>1, PointsOfLine
      <3>4. \A stop \in Range(BusNamed(Routes[i]).stops) :
                db.stops[stop] \in GetAllStopStats(db) /\ SearchStop(db, db.stops[stop]) = stop
        BY <3>3, Finished, StopsOfBuses
      <3>5. Range(document[i].points) \subseteq places
        BY <1>1, <3>2, <3>4 DEF Place
      <3> QED
        BY <2>2, <3>5 DEF PointsOf
    <2>3. CASE document[i].tag = "circle"
      <3>1. document[i].center \in places
        BY <1>1, <2>3, CentersAreStops DEF Tagged
      <3> QED
        BY <2>3, <3>1 DEF PointsOf
    <2>4. CASE document[i].tag = "text"
      <3>1. document[i].position \in places
        BY <1>1, <2>4, Finished DEF TextsAreAtStops, Tagged
      <3> QED
        BY <2>4, <3>1 DEF PointsOf
    <2> QED
      BY <2>1, <2>2, <2>3, <2>4
  <1>4. ASSUME NEW point \in places
        PROVE  \E i \in DOMAIN document : point \in PointsOf(document[i])
    <2>1. PICK i \in Tagged("circle") : point = document[i].center
      BY <1>1, CentersAreStops
    <2>2. i \in DOMAIN document /\ document[i].tag = "circle"
      BY DEF Tagged
    <2> QED
      BY <2>1, <2>2 DEF PointsOf
  <1>5. Points = places
    BY <1>2, <1>3, <1>4 DEF Points
  <1> QED
    BY <1>1, <1>5

\* Nothing is drawn where no stop has a bus.
LEMMA NothingWithoutStops ==
    ASSUME MapInvariant, drawing = "done", document # << >>
    PROVE  GetAllStopStats(db) # {}
  <1>1. document \in Seq(Range(document))
    BY DEF MapInvariant
  <1>2. PICK i \in DOMAIN document : TRUE
    <2>1. PICK S : S = Range(document)
      OBVIOUS
    <2>2. PICK list \in Seq(S) : list = document
      BY <1>1, <2>1
    <2>3. 1 \in DOMAIN list
      BY <2>2
    <2> QED
      BY <2>2, <2>3
  <1>3. document[i].tag \in {"polyline", "circle", "text"}
    BY DEF MapInvariant
  <1>4. CASE document[i].tag = "polyline"
    <2>1. i \in 1 .. Len(Routes)
      BY <1>4, Finished DEF Tagged
    <2>2. PICK stops : stops = BusNamed(Routes[i]).stops
      OBVIOUS
    <2>3. stops \in Seq(StopPtr \cup {Null}) /\ stops # << >>
      BY <2>1, <2>2, PointsOfLine
    <2>4. stops[1] \in Range(stops)
      <3>1. 1 \in DOMAIN stops
        BY <2>3
      <3> QED
        BY <3>1 DEF Range
    <2>5. BusNamed(Routes[i]) \in {db.buses[ptr] : ptr \in BusPtrs(db)}
      BY <2>1, PointsOfLine
    <2> QED
      BY <2>2, <2>4, <2>5, Finished, StopsOfBuses
  <1>5. CASE document[i].tag = "circle"
    BY <1>5, CentersAreStops DEF Tagged
  <1>6. CASE document[i].tag = "text"
    BY <1>6, Finished DEF TextsAreAtStops, Tagged
  <1> QED
    BY <1>3, <1>4, <1>5, <1>6

LEMMA Scaled ==
    \A d \in Nat, span \in Nat, a \in Nat, c \in Int :
        d <= span => /\ d * a + c \in Int /\ c <= d * a + c /\ d * a + c <= span * a + c
                     /\ 0 * a + c = c
  <1> SUFFICES ASSUME NEW d \in Nat, NEW span \in Nat, NEW a \in Nat, NEW c \in Int, d <= span
               PROVE  /\ d * a + c \in Int /\ c <= d * a + c /\ d * a + c <= span * a + c
                      /\ 0 * a + c = c
    OBVIOUS
  <1>1. PICK rest \in Nat : span = d + rest
    <2>1. span - d \in Nat /\ span = d + (span - d)
      OBVIOUS
    <2> QED
      BY <2>1
  <1>2. d * a \in Nat /\ rest * a \in Nat /\ span * a = d * a + rest * a
    BY <1>1
  <1> QED
    BY <1>2

\* Distances, from nought to a span; and what becomes of them, scaled and moved.
AreWithin(d, N, span) ==
    /\ d \in [N -> Nat] /\ \A n \in N : d[n] <= span
    /\ \E n \in N : d[n] = 0
    /\ \E n \in N : d[n] = span

Stretch(d, N, a, c) == {d[n] * a + c : n \in N}

LEMMA Stretched ==
    ASSUME NEW N, IsFiniteSet(N), NEW d, NEW span \in Nat, NEW a \in Nat, NEW c \in Int,
           AreWithin(d, N, span)
    PROVE  Min(Stretch(d, N, a, c)) = c /\ Max(Stretch(d, N, a, c)) = span * a + c
  <1>2. PICK T : T = Stretch(d, N, a, c) /\ T = {d[n] * a + c : n \in N}
    BY DEF Stretch
  <1>13. /\ d \in [N -> Nat] /\ \A n \in N : d[n] <= span
         /\ \E n \in N : d[n] = 0
         /\ \E n \in N : d[n] = span
    BY DEF AreWithin
  <1>1. PICK f : f = [n \in N |-> d[n] * a + c]
    OBVIOUS
  <1>3. f \in Surjection(N, T)
    BY <1>1, <1>2 DEF Surjection
  <1>4. IsFiniteSet(T)
    BY <1>3, FS_Surjection
  <1>5. \A n \in N : d[n] * a + c \in Int /\ c <= d[n] * a + c /\ d[n] * a + c <= span * a + c
    BY <1>13, Scaled
  <1>6. T \subseteq Int /\ \A t \in T : c <= t /\ t <= span * a + c
    BY <1>2, <1>5
  <1>7. c \in T
    <2>1. PICK n \in N : d[n] = 0
      BY <1>13
    <2>2. 0 * a + c = c
      BY Scaled
    <2>3. d[n] * a + c \in T
      BY <1>2
    <2> QED
      BY <2>1, <2>2, <2>3
  <1>8. span * a + c \in T
    BY <1>2, <1>13
  <1>9. /\ Min(T) \in T /\ \A x \in T : Min(T) <= x
        /\ Max(T) \in T /\ \A x \in T : x <= Max(T)
    BY <1>4, <1>6, <1>7, LeastAndGreatest
  <1>10. /\ Min(T) \in Int /\ c <= Min(T) /\ Min(T) <= c
         /\ Max(T) \in Int /\ Max(T) <= span * a + c /\ span * a + c <= Max(T) /\ span * a + c \in Int
    BY <1>6, <1>7, <1>8, <1>9
  <1>11. Min(T) = c
    BY <1>10
  <1>12. Max(T) = span * a + c
    <2>1. PICK top \in Int : top = span * a + c
      BY <1>10
    <2> QED
      BY <1>10, <2>1
  <1> QED
    BY <1>2, <1>11, <1>12

LEMMA PictureFits == MapInvariant => PictureFitsMap
  <1> SUFFICES ASSUME MapInvariant, drawing = "done", document # << >>
               PROVE  LET xs == {point.x : point \in Points}
                          ys == {point.y : point \in Points}
                          margin == Padding * Zoom.den
                      IN  /\ Min(xs) = margin /\ Max(xs) <= Width * Zoom.den - margin
                          /\ Min(ys) = margin /\ Max(ys) <= Height * Zoom.den - margin
                          /\ Cardinality(Points) > 1 =>
                                \/ Max(xs) = Width * Zoom.den - margin
                                \/ Max(ys) = Height * Zoom.den - margin
    BY DEF PictureFitsMap
  <1>1. PICK names : names = GetAllStopStats(db)
    OBVIOUS
  <1>2. names # {} /\ IsFiniteSet(names) /\ stage = "populated"
    BY <1>1, NothingWithoutStops, StatsAreFinite, Finished
  <1>3. PICK low, high, bottom, top :
            low = Min(Lngs) /\ high = Max(Lngs) /\ bottom = Min(Lats) /\ top = Max(Lats)
    OBVIOUS
  <1>4. /\ low \in Lngs /\ high \in Lngs /\ \A x \in Lngs : low <= x /\ x <= high
        /\ bottom \in Lats /\ top \in Lats /\ \A x \in Lats : bottom <= x /\ x <= top
    BY <1>1, <1>2, <1>3, Extent, LeastAndGreatest
  <1>5. low \in Int /\ high \in Int /\ bottom \in Int /\ top \in Int
    BY <1>1, <1>2, <1>4, Extent
  <1>6. PICK dx, dy, w, h : /\ dx = high - low /\ dy = top - bottom
                            /\ w = Width - 2 * Padding /\ h = Height - 2 * Padding
    OBVIOUS
  <1>7. PICK num, den, margin : num = Zoom.num /\ den = Zoom.den /\ margin = Padding * den
    OBVIOUS
  <1>8. /\ dx \in Nat /\ dy \in Nat /\ num \in Nat /\ den \in Nat
        /\ dx * num <= w * den /\ dy * num <= h * den
        /\ \/ dx = 0 /\ dy = 0
           \/ dx * num = w * den
           \/ dy * num = h * den
    BY <1>1, <1>2, <1>3, <1>6, <1>7, ZoomFits
  <1>9. PICK across : across = [name \in names |-> Place(name).lng - low]
    OBVIOUS
  <1>10. PICK down : down = [name \in names |-> top - Place(name).lat]
    OBVIOUS
  <1>11. \A name \in names : Place(name).lng \in Int /\ Place(name).lat \in Int
    BY <1>1, <1>2, PlacesAreGiven
  <1>12. \A name \in names : Place(name).lng \in Lngs /\ Place(name).lat \in Lats
    BY <1>1 DEF Lngs, Lats
  <1>13. /\ \A x \in Lngs : \E name \in names : Place(name).lng = x
         /\ \A x \in Lats : \E name \in names : Place(name).lat = x
    BY <1>1 DEF Lngs, Lats
  <1>14. across \in [names -> Nat] /\ \A name \in names : across[name] <= dx
    BY <1>4, <1>5, <1>6, <1>9, <1>11, <1>12
  <1>15. down \in [names -> Nat] /\ \A name \in names : down[name] <= dy
    BY <1>4, <1>5, <1>6, <1>10, <1>11, <1>12
  <1>16. (\E name \in names : across[name] = 0) /\ (\E name \in names : across[name] = dx)
    <2>1. PICK name \in names : Place(name).lng = low
      BY <1>4, <1>13
    <2>2. PICK other \in names : Place(other).lng = high
      BY <1>4, <1>13
    <2>3. across[name] = 0 /\ across[other] = dx
      BY <1>5, <1>6, <1>9, <2>1, <2>2
    <2> QED
      BY <2>3
  <1>17. (\E name \in names : down[name] = 0) /\ (\E name \in names : down[name] = dy)
    <2>1. PICK name \in names : Place(name).lat = top
      BY <1>4, <1>13
    <2>2. PICK other \in names : Place(other).lat = bottom
      BY <1>4, <1>13
    <2>3. down[name] = 0 /\ down[other] = dy
      BY <1>5, <1>6, <1>10, <2>1, <2>2
    <2> QED
      BY <2>3
  <1>18. margin \in Int
    BY <1>7, <1>8, Sizes
  <1>19. PICK xs : xs = Stretch(across, names, num, margin)
    OBVIOUS
  <1>20. PICK ys : ys = Stretch(down, names, num, margin)
    OBVIOUS
  <1>29. dx \in Nat /\ dy \in Nat /\ num \in Nat /\ IsFiniteSet(names)
    BY <1>2, <1>8
  <1>30. AreWithin(across, names, dx) /\ AreWithin(down, names, dy)
    BY <1>14, <1>15, <1>16, <1>17 DEF AreWithin
  <1>21. Min(xs) = margin /\ Max(xs) = dx * num + margin
    BY <1>18, <1>19, <1>29, <1>30, Stretched
  <1>22. Min(ys) = margin /\ Max(ys) = dy * num + margin
    BY <1>18, <1>20, <1>29, <1>30, Stretched
  <1>23. \A name \in names :
            Project(Place(name)) = [x |-> across[name] * num + margin, y |-> down[name] * num + margin]
    BY <1>3, <1>7, <1>9, <1>10 DEF Project, Point
  <1>24. Points = {Project(Place(name)) : name \in names}
    BY <1>1, PointsAreStops
  <1>25. xs = {point.x : point \in Points} /\ ys = {point.y : point \in Points}
    BY <1>19, <1>20, <1>23, <1>24 DEF Stretch
  <1>26. w * den + margin = Width * den - margin /\ h * den + margin = Height * den - margin
    <2>1. PICK width \in Nat, height \in Nat, padding \in Nat :
                width = Width /\ height = Height /\ padding = Padding
      BY Sizes
    <2>2. w = width - 2 * padding /\ h = height - 2 * padding /\ margin = padding * den
      BY <1>6, <1>7, <2>1
    <2>3. /\ (width - 2 * padding) * den + padding * den = width * den - padding * den
          /\ (height - 2 * padding) * den + padding * den = height * den - padding * den
      BY <1>8
    <2> QED
      BY <2>1, <2>2, <2>3
  <1>27. ASSUME Cardinality(Points) > 1
         PROVE  ~(dx = 0 /\ dy = 0)
    <2>1. SUFFICES ASSUME dx = 0, dy = 0
                   PROVE  FALSE
      OBVIOUS
    <2>2. PICK name \in names : TRUE
      BY <1>2
    <2>3. \A other \in names : across[other] = 0 /\ down[other] = 0
      BY <1>14, <1>15, <2>1
    <2>4. Points = {Project(Place(name))}
      BY <1>23, <1>24, <2>3
    <2>5. Cardinality(Points) = 1
      BY <2>4, FS_Singleton
    <2> QED
      BY <1>27, <2>5
  <1>28. /\ dx * num + margin <= Width * den - margin /\ dy * num + margin <= Height * den - margin
         /\ Cardinality(Points) > 1 =>
                \/ dx * num + margin = Width * den - margin
                \/ dy * num + margin = Height * den - margin
    <2>1. PICK p \in Int, q \in Int : p = dx * num /\ q = dy * num
      BY <1>8
    <2>2. PICK m \in Int, n \in Int : m = w * den /\ n = h * den
      BY <1>6, <1>8, Sizes
    <2>3. p <= m /\ q <= n /\ (p = m \/ q = n \/ (dx = 0 /\ dy = 0))
      BY <1>8, <2>1, <2>2
    <2>4. p + margin <= m + margin /\ q + margin <= n + margin
      BY <1>18, <2>3
    <2>5. Cardinality(Points) > 1 => p = m \/ q = n
      BY <1>27, <2>3
    <2> QED
      BY <1>26, <2>1, <2>2, <2>4, <2>5
  <1> QED
    BY <1>7, <1>21, <1>22, <1>25, <1>28

\* Wherever the stops are, the map is within its padding and as large as that
\* allows: the zoom that SphereProjector takes, the smaller one of two fractions or
\* the only one, fits what all four loops draw (map_renderer.h:20-82,
\* map_renderer.cpp:27-41).
THEOREM PictureFitsTheMap == Spec => []PictureFitsMap
  BY MapInvariance, PictureFits, PTL

-----------------------------------------------------------------------------
(* What is printed of a text and of its underlayer. *)

Listed(list) == list \in Seq(Range(list))

LEMMA JoinedRange ==
    ASSUME NEW first, NEW second, Listed(first), Listed(second)
    PROVE  Listed(first \o second) /\ Range(first \o second) = Range(first) \cup Range(second)
  <1>1. PICK S : S = Range(first) \cup Range(second)
    OBVIOUS
  <1>2. PICK a \in Seq(S) : a = first
    BY <1>1 DEF Listed
  <1>3. PICK b \in Seq(S) : b = second
    BY <1>1 DEF Listed
  <1>4. PICK m \in Nat : m = Len(a) /\ DOMAIN a = 1 .. m
    OBVIOUS
  <1>5. PICK n \in Nat : n = Len(b) /\ DOMAIN b = 1 .. n
    OBVIOUS
  <1>6. PICK joined : joined = a \o b
    OBVIOUS
  <1>7. /\ joined \in Seq(S) /\ Len(joined) = m + n /\ DOMAIN joined = 1 .. m + n
        /\ \A i \in 1 .. m : joined[i] = a[i]
        /\ \A i \in 1 .. n : joined[m + i] = b[i]
    BY <1>4, <1>5, <1>6
  <1>8. /\ \A i \in 1 .. m : i \in 1 .. m + n
        /\ \A i \in 1 .. n : m + i \in 1 .. m + n
        /\ \A i \in 1 .. m + n : i \notin 1 .. m => i - m \in 1 .. n /\ m + (i - m) = i
    BY <1>4, <1>5
  <1>9. Range(joined) = Range(a) \cup Range(b)
    <2>1. \A i \in 1 .. m : a[i] \in Range(joined)
      BY <1>7, <1>8 DEF Range
    <2>2. \A i \in 1 .. n : b[i] \in Range(joined)
      BY <1>7, <1>8 DEF Range
    <2>3. ASSUME NEW i \in 1 .. m + n
          PROVE  joined[i] \in Range(a) \cup Range(b)
      <3>1. CASE i \in 1 .. m
        BY <1>4, <1>7, <3>1 DEF Range
      <3>2. CASE i \notin 1 .. m
        <4>1. PICK k \in 1 .. n : i = m + k
          BY <1>8, <3>2
        <4> QED
          BY <1>5, <1>7, <4>1 DEF Range
      <3> QED
        BY <3>1, <3>2
    <2>4. Range(a) \subseteq Range(joined)
      BY <1>4, <2>1 DEF Range
    <2>5. Range(b) \subseteq Range(joined)
      BY <1>5, <2>2 DEF Range
    <2>6. Range(joined) \subseteq Range(a) \cup Range(b)
      BY <1>7, <2>3 DEF Range
    <2> QED
      BY <2>4, <2>5, <2>6
  <1>10. Range(joined) = S
    BY <1>1, <1>2, <1>3, <1>9
  <1> QED
    BY <1>1, <1>2, <1>3, <1>6, <1>7, <1>10 DEF Listed

\* An optional attribute is printed once, under its name.
Named(attrs, name) == \A attr \in Range(attrs) : attr[1] = name

LEMMA OptionalAttr ==
    ASSUME NEW object, NEW field, NEW name
    PROVE  LET attrs == IfSet(object, field, name)
           IN  /\ Listed(attrs) /\ Named(attrs, name)
               /\ field \notin DOMAIN object => Range(attrs) = {}
               /\ field \in DOMAIN object /\ field \in {"fill", "stroke"} =>
                    Range(attrs) = {<<name, PrintColor(object[field])>>}
  <1>1. CASE field \notin DOMAIN object
    <2>1. PICK attrs : attrs = IfSet(object, field, name)
      OBVIOUS
    <2>2. attrs = << >>
      BY <1>1, <2>1 DEF IfSet
    <2>3. Range(attrs) = {} /\ attrs \in Seq({})
      BY <2>2 DEF Range
    <2> QED
      BY <1>1, <2>1, <2>3 DEF Listed, Named
  <1>2. CASE field \in DOMAIN object
    <2>1. PICK attrs : attrs = IfSet(object, field, name)
      OBVIOUS
    <2>2. PICK attr : attr = <<name, IF field \in {"fill", "stroke"} THEN PrintColor(object[field])
                                     ELSE object[field]>>
      OBVIOUS
    <2>3. attrs = <<attr>>
      BY <1>2, <2>1, <2>2 DEF IfSet
    <2>4. Range(attrs) = {attr} /\ attrs \in Seq({attr})
      BY <2>3 DEF Range
    <2>5. attr[1] = name
      BY <2>2
    <2>6. field \in {"fill", "stroke"} => attr = <<name, PrintColor(object[field])>>
      BY <2>2
    <2> QED
      BY <1>2, <2>1, <2>4, <2>5, <2>6 DEF Listed, Named
  <1> QED
    BY <1>1, <1>2

\* The attributes of RenderAttrs, apart from the two colors.
LEMMA PathAttrs ==
    ASSUME NEW object
    PROVE  /\ Listed(RenderAttrs(object))
           /\ \E others :
                /\ Range(RenderAttrs(object)) = Range(IfSet(object, "fill", "fill"))
                        \cup Range(IfSet(object, "stroke", "stroke")) \cup others
                /\ \A attr \in others : attr[1] \in {"stroke-width", "stroke-linecap", "stroke-linejoin"}
  <1>1. PICK fill : fill = IfSet(object, "fill", "fill")
    OBVIOUS
  <1>2. PICK stroke : stroke = IfSet(object, "stroke", "stroke")
    OBVIOUS
  <1>3. PICK width : width = IfSet(object, "width", "stroke-width")
    OBVIOUS
  <1>4. PICK cap : cap = IfSet(object, "line_cap", "stroke-linecap")
    OBVIOUS
  <1>5. PICK join : join = IfSet(object, "line_join", "stroke-linejoin")
    OBVIOUS
  <1>6. RenderAttrs(object) = fill \o stroke \o width \o cap \o join
    BY <1>1, <1>2, <1>3, <1>4, <1>5 DEF RenderAttrs
  <1>7. Listed(fill) /\ Listed(stroke)
    BY <1>1, <1>2, OptionalAttr
  <1>8. Listed(width) /\ Named(width, "stroke-width")
    BY <1>3, OptionalAttr
  <1>9. Listed(cap) /\ Named(cap, "stroke-linecap")
    BY <1>4, OptionalAttr
  <1>10. Listed(join) /\ Named(join, "stroke-linejoin")
    BY <1>5, OptionalAttr
  <1>11. PICK two : two = fill \o stroke
    OBVIOUS
  <1>12. Listed(two) /\ Range(two) = Range(fill) \cup Range(stroke)
    BY <1>7, <1>11, JoinedRange
  <1>13. PICK three : three = two \o width
    OBVIOUS
  <1>14. Listed(three) /\ Range(three) = Range(two) \cup Range(width)
    BY <1>8, <1>12, <1>13, JoinedRange
  <1>15. PICK four : four = three \o cap
    OBVIOUS
  <1>16. Listed(four) /\ Range(four) = Range(three) \cup Range(cap)
    BY <1>9, <1>14, <1>15, JoinedRange
  <1>17. PICK all : all = four \o join
    OBVIOUS
  <1>18. Listed(all) /\ Range(all) = Range(four) \cup Range(join)
    BY <1>10, <1>16, <1>17, JoinedRange
  <1>19. RenderAttrs(object) = all
    BY <1>6, <1>11, <1>13, <1>15, <1>17
  <1>20. PICK others : others = Range(width) \cup Range(cap) \cup Range(join)
    OBVIOUS
  <1>21. \A attr \in others : attr[1] \in {"stroke-width", "stroke-linecap", "stroke-linejoin"}
    BY <1>8, <1>9, <1>10, <1>20 DEF Named
  <1>22. Range(all) = Range(fill) \cup Range(stroke) \cup others
    BY <1>12, <1>14, <1>16, <1>18, <1>20
  <1> QED
    BY <1>1, <1>2, <1>18, <1>19, <1>21, <1>22

Fonts == {"x", "y", "dx", "dy", "font-size", "font-family", "font-weight"}

LEMMA TextAttrs ==
    ASSUME NEW object, object.tag = "text"
    PROVE  Listed(OwnAttrs(object)) /\ \A attr \in Range(OwnAttrs(object)) : attr[1] \in Fonts
  <1>1. PICK five : five = <<<<"x", object.position.x>>, <<"y", object.position.y>>,
                             <<"dx", object.offset.x>>, <<"dy", object.offset.y>>,
                             <<"font-size", object.font_size>>>>
    OBVIOUS
  <1>2. PICK family : family = IfSet(object, "font_family", "font-family")
    OBVIOUS
  <1>3. PICK weight : weight = IfSet(object, "font_weight", "font-weight")
    OBVIOUS
  <1>4. OwnAttrs(object) = five \o family \o weight
    BY <1>1, <1>2, <1>3 DEF OwnAttrs
  <1>5. Listed(five) /\ \A attr \in Range(five) : attr[1] \in Fonts
    <2>1. Len(five) = 5 /\ DOMAIN five = {1, 2, 3, 4, 5} /\ five \in Seq(Range(five))
      BY <1>1 DEF Range
    <2>2. five[1][1] = "x" /\ five[2][1] = "y" /\ five[3][1] = "dx" /\ five[4][1] = "dy"
          /\ five[5][1] = "font-size"
      BY <1>1
    <2> QED
      BY <2>1, <2>2 DEF Listed, Range, Fonts
  <1>6. Listed(family) /\ \A attr \in Range(family) : attr[1] \in Fonts
    BY <1>2, OptionalAttr DEF Named, Fonts
  <1>7. Listed(weight) /\ \A attr \in Range(weight) : attr[1] \in Fonts
    BY <1>3, OptionalAttr DEF Named, Fonts
  <1>8. PICK six : six = five \o family
    OBVIOUS
  <1>9. Listed(six) /\ Range(six) = Range(five) \cup Range(family)
    BY <1>5, <1>6, <1>8, JoinedRange
  <1>10. PICK all : all = six \o weight
    OBVIOUS
  <1>11. Listed(all) /\ Range(all) = Range(six) \cup Range(weight)
    BY <1>7, <1>9, <1>10, JoinedRange
  <1> QED
    BY <1>4, <1>5, <1>6, <1>7, <1>8, <1>9, <1>10, <1>11

\* What is printed of a text: in its font, and in its colors.
InFont(printed) == {attr \in Range(printed.attrs) : attr[1] \in Fonts}
ValuesOf(printed, name) == {attr[2] : attr \in {a \in Range(printed.attrs) : a[1] = name}}

LEMMA TextRendered ==
    ASSUME NEW object, object.tag = "text"
    PROVE  LET printed == RenderObject(object)
           IN  /\ printed.content = Escape(object.content)
               /\ InFont(printed) = Range(OwnAttrs(object))
               /\ "stroke" \notin DOMAIN object => ValuesOf(printed, "stroke") = {}
               /\ {"fill", "stroke"} \subseteq DOMAIN object =>
                    /\ ValuesOf(printed, "fill") = {PrintColor(object["fill"])}
                    /\ ValuesOf(printed, "stroke") = {PrintColor(object["stroke"])}
  <1>1. PICK printed : printed = RenderObject(object)
    OBVIOUS
  <1>2. PICK own : own = OwnAttrs(object)
    OBVIOUS
  <1>3. PICK path : path = RenderAttrs(object)
    OBVIOUS
  <1>4. printed.content = Escape(object.content) /\ printed.attrs = own \o path
    BY <1>1, <1>2, <1>3 DEF RenderObject
  <1>5. PICK fill : fill = Range(IfSet(object, "fill", "fill"))
    OBVIOUS
  <1>6. PICK stroke : stroke = Range(IfSet(object, "stroke", "stroke"))
    OBVIOUS
  <1>7. Listed(path)
    BY <1>3, PathAttrs
  <1>8. PICK others : /\ Range(path) = fill \cup stroke \cup others
                      /\ \A attr \in others :
                            attr[1] \in {"stroke-width", "stroke-linecap", "stroke-linejoin"}
    BY <1>3, <1>5, <1>6, PathAttrs
  <1>9. Listed(own) /\ \A attr \in Range(own) : attr[1] \in Fonts
    BY <1>2, TextAttrs
  <1>10. Range(printed.attrs) = Range(own) \cup fill \cup stroke \cup others
    BY <1>4, <1>7, <1>8, <1>9, JoinedRange
  <1>11. \A attr \in fill : attr[1] = "fill"
    BY <1>5, OptionalAttr DEF Named
  <1>12. \A attr \in stroke : attr[1] = "stroke"
    BY <1>6, OptionalAttr DEF Named
  <1>13. "fill" \notin Fonts /\ "stroke" \notin Fonts /\ "stroke-width" \notin Fonts
         /\ "stroke-linecap" \notin Fonts /\ "stroke-linejoin" \notin Fonts
    BY DEF Fonts
  <1>14. InFont(printed) = Range(own)
    BY <1>8, <1>9, <1>10, <1>11, <1>12, <1>13 DEF InFont
  <1>15. {a \in Range(printed.attrs) : a[1] = "stroke"} = stroke
    BY <1>8, <1>9, <1>10, <1>11, <1>12, <1>13
  <1>16. {a \in Range(printed.attrs) : a[1] = "fill"} = fill
    BY <1>8, <1>9, <1>10, <1>11, <1>12, <1>13
  <1>17. ASSUME "stroke" \notin DOMAIN object
         PROVE  ValuesOf(printed, "stroke") = {}
    <2>1. stroke = {}
      BY <1>6, <1>17, OptionalAttr
    <2> QED
      BY <1>15, <2>1 DEF ValuesOf
  <1>18. ASSUME {"fill", "stroke"} \subseteq DOMAIN object
         PROVE  /\ ValuesOf(printed, "fill") = {PrintColor(object["fill"])}
                /\ ValuesOf(printed, "stroke") = {PrintColor(object["stroke"])}
    <2>1. fill = {<<"fill", PrintColor(object["fill"])>>}
      BY <1>5, <1>18, OptionalAttr
    <2>2. stroke = {<<"stroke", PrintColor(object["stroke"])>>}
      BY <1>6, <1>18, OptionalAttr
    <2>3. PICK first, second : first = PrintColor(object["fill"]) /\ second = PrintColor(object["stroke"])
      OBVIOUS
    <2>4. {attr[2] : attr \in {<<"fill", first>>}} = {first}
          /\ {attr[2] : attr \in {<<"stroke", second>>}} = {second}
      OBVIOUS
    <2>5. ValuesOf(printed, "fill") = {attr[2] : attr \in fill}
      BY <1>16 DEF ValuesOf
    <2>6. ValuesOf(printed, "stroke") = {attr[2] : attr \in stroke}
      BY <1>15 DEF ValuesOf
    <2> QED
      BY <2>1, <2>2, <2>3, <2>4, <2>5, <2>6
  <1> QED
    BY <1>1, <1>2, <1>4, <1>14, <1>17, <1>18

\* An underlayer has the text, the place and the font of its label.
LEMMA SameText ==
    ASSUME NEW text, DOMAIN Text \subseteq DOMAIN text, text.tag = "text"
    PROVE  LET under == Underlayer(text)
           IN  /\ under.tag = "text" /\ under.content = text.content
               /\ OwnAttrs(under) = OwnAttrs(text)
               /\ {"fill", "stroke"} \subseteq DOMAIN under /\ under["fill"] = under["stroke"]
  <1>1. PICK over :
            over = [fill |-> settings.underlayer.color, width |-> settings.underlayer.width,
                    stroke |-> settings.underlayer.color, line_cap |-> "round", line_join |-> "round"]
    OBVIOUS
  <1>2. PICK under : under = Set(text, over)
    OBVIOUS
  <1>3. Underlayer(text) = under
    BY <1>1, <1>2 DEF Underlayer
  <1>4. /\ DOMAIN over = {"fill", "width", "stroke", "line_cap", "line_join"}
        /\ over["fill"] = over["stroke"]
    BY <1>1
  <1>5. DOMAIN under = DOMAIN over \cup DOMAIN text
    BY <1>2, SetFields
  <1>6. {"tag", "position", "offset", "font_size", "content"} \subseteq DOMAIN text
    BY DEF Text
  <1>7. \A field \in DOMAIN text : field \notin DOMAIN over => under[field] = text[field]
    BY <1>2, FieldLeft
  <1>8. /\ under["tag"] = text["tag"] /\ under["content"] = text["content"]
        /\ under["position"] = text["position"] /\ under["offset"] = text["offset"]
        /\ under["font_size"] = text["font_size"]
    BY <1>4, <1>6, <1>7
  <1>9. "fill" \in DOMAIN over /\ "stroke" \in DOMAIN over
    BY <1>4
  <1>10. under["fill"] = under["stroke"]
    BY <1>2, <1>4, <1>9, FieldSet
  <1>11. IfSet(under, "font_family", "font-family") = IfSet(text, "font_family", "font-family")
    <2>1. "font_family" \notin DOMAIN over
      BY <1>4
    <2>2. "font_family" \in DOMAIN under <=> "font_family" \in DOMAIN text
      BY <1>5, <2>1
    <2>3. "font_family" \in DOMAIN text => under["font_family"] = text["font_family"]
      BY <1>7, <2>1
    <2> QED
      BY <2>2, <2>3 DEF IfSet
  <1>12. IfSet(under, "font_weight", "font-weight") = IfSet(text, "font_weight", "font-weight")
    <2>1. "font_weight" \notin DOMAIN over
      BY <1>4
    <2>2. "font_weight" \in DOMAIN under <=> "font_weight" \in DOMAIN text
      BY <1>5, <2>1
    <2>3. "font_weight" \in DOMAIN text => under["font_weight"] = text["font_weight"]
      BY <1>7, <2>1
    <2> QED
      BY <2>2, <2>3 DEF IfSet
  <1>13. under.tag = "text" /\ under.content = text.content
    BY <1>8
  <1>14. OwnAttrs(under) = OwnAttrs(text)
    BY <1>8, <1>11, <1>12, <1>13 DEF OwnAttrs
  <1> QED
    BY <1>3, <1>5, <1>9, <1>10, <1>13, <1>14

LEMMA LabelsUnderlaid == MapInvariant => LabelsAreUnderlaid
  <1> SUFFICES ASSUME MapInvariant, drawing = "done"
               PROVE  LabelsAreUnderlaid
    BY DEF LabelsAreUnderlaid
  <1>1. LabelsFollowUnderlayers
    BY DEF MapInvariant
  <1>2. PICK picture : picture = Render(document)
    OBVIOUS
  <1>3. \A i \in DOMAIN document : picture[i] = RenderObject(document[i])
    BY <1>2 DEF Render
  <1>4. ASSUME NEW i \in Labels
        PROVE  /\ picture[i].content = picture[i - 1].content
               /\ InFont(picture[i]) = InFont(picture[i - 1])
               /\ ValuesOf(picture[i - 1], "fill") = ValuesOf(picture[i - 1], "stroke")
               /\ ValuesOf(picture[i], "stroke") = {}
    <2>1. i \in Tagged("text") /\ i - 1 \in Tagged("text") /\ "stroke" \notin DOMAIN document[i]
      BY <1>1 DEF Labels, LabelsFollowUnderlayers
    <2>2. PICK text : text = document[i]
      OBVIOUS
    <2>3. PICK under : under = Underlayer(text)
      OBVIOUS
    <2>4. text.tag = "text" /\ DOMAIN Text \subseteq DOMAIN text /\ document[i - 1] = under
      BY <1>1, <2>1, <2>2, <2>3 DEF LabelsFollowUnderlayers, Tagged
    <2>5. picture[i] = RenderObject(text) /\ picture[i - 1] = RenderObject(under)
      BY <1>3, <2>1, <2>2, <2>4 DEF Tagged
    <2>6. /\ under.tag = "text" /\ under.content = text.content
          /\ OwnAttrs(under) = OwnAttrs(text)
          /\ {"fill", "stroke"} \subseteq DOMAIN under /\ under["fill"] = under["stroke"]
      BY <2>3, <2>4, SameText
    <2>7. PICK above : above = RenderObject(text)
      OBVIOUS
    <2>8. PICK below : below = RenderObject(under)
      OBVIOUS
    <2>9. above.content = Escape(text.content) /\ below.content = Escape(under.content)
      BY <2>4, <2>6, <2>7, <2>8, TextRendered
    <2>10. InFont(above) = Range(OwnAttrs(text)) /\ InFont(below) = Range(OwnAttrs(under))
      BY <2>4, <2>6, <2>7, <2>8, TextRendered
    <2>11. ValuesOf(above, "stroke") = {}
      BY <2>1, <2>2, <2>4, <2>7, TextRendered
    <2>12. /\ ValuesOf(below, "fill") = {PrintColor(under["fill"])}
           /\ ValuesOf(below, "stroke") = {PrintColor(under["stroke"])}
      BY <2>6, <2>8, TextRendered
    <2> QED
      BY <2>5, <2>6, <2>7, <2>8, <2>9, <2>10, <2>11, <2>12
  <1>5. /\ Tagged("text") = Labels \cup {i - 1 : i \in Labels}
        /\ \A i \in Labels :
            /\ \A k \in Tagged("polyline") : k < i
            /\ document[i].of \in StopName => \A k \in Tagged("circle") : k < i
    BY <1>1 DEF LabelsFollowUnderlayers
  <1> QED
    BY <1>2, <1>4, <1>5 DEF LabelsAreUnderlaid, InFont, ValuesOf, Fonts

\* Whatever the names, the label settings and the colors, a label is printed on an
\* underlayer that reads the same, in the same font at the same place, above all
\* lines and, where it is the label of a stop, above all circles: DrawLabel and the
\* order of the loops of RenderMap (map_renderer.cpp:9-24, 84-92).
THEOREM LabelsLieOnUnderlayers == Spec => []LabelsAreUnderlaid
  BY MapInvariance, LabelsUnderlaid, PTL
=============================================================================
