------------------------ MODULE TransportRouter_proofs ------------------------
(***************************************************************************)
(* Proofs about TransportRouter for every catalogue that Populate can      *)
(* fill: any stops, any lines, any distances.                              *)
(***************************************************************************)
EXTENDS TransportRouterInvariant, Populate_proofs, InductionLemmas, FiniteSetTheorems

-----------------------------------------------------------------------------
(* Sequences. *)

\* What a concatenation is made of.
LEMMA Concatenated ==
    ASSUME NEW S, NEW s \in Seq(S), NEW t \in Seq(S)
    PROVE  s \o t \in Seq(S) /\ Range(s \o t) = Range(s) \cup Range(t)
  <1>1. s \o t \in Seq(S) /\ Len(s \o t) = Len(s) + Len(t)
    OBVIOUS
  <1>2. Range(s \o t) \subseteq Range(s) \cup Range(t)
    <2> SUFFICES ASSUME NEW i \in 1 .. Len(s) + Len(t)
                 PROVE  (s \o t)[i] \in Range(s) \cup Range(t)
      BY <1>1 DEF Range
    <2>1. CASE i <= Len(s)
      BY <2>1 DEF Range
    <2>2. CASE i > Len(s)
      BY <2>2 DEF Range
    <2> QED
      BY <2>1, <2>2
  <1>3. Range(s) \subseteq Range(s \o t)
    <2> SUFFICES ASSUME NEW i \in 1 .. Len(s)
                 PROVE  s[i] \in Range(s \o t)
      BY DEF Range
    <2>1. s[i] = (s \o t)[i] /\ i \in DOMAIN (s \o t)
      BY <1>1
    <2> QED
      BY <2>1 DEF Range
  <1>4. Range(t) \subseteq Range(s \o t)
    <2> SUFFICES ASSUME NEW i \in 1 .. Len(t)
                 PROVE  t[i] \in Range(s \o t)
      BY DEF Range
    <2>1. t[i] = (s \o t)[Len(s) + i] /\ Len(s) + i \in DOMAIN (s \o t)
      BY <1>1
    <2> QED
      BY <2>1 DEF Range
  <1> QED
    BY <1>1, <1>2, <1>3, <1>4

\* FlattenSeq keeps the elements of its sequences and adds none.
LEMMA Flattened ==
    ASSUME NEW S, NEW seqs \in Seq(Seq(S))
    PROVE  /\ FlattenSeq(seqs) \in Seq(S)
           /\ Range(FlattenSeq(seqs)) = UNION {Range(seqs[i]) : i \in DOMAIN seqs}
  <1>1. PICK n \in Nat : n = Len(seqs) /\ DOMAIN seqs = 1 .. n
    OBVIOUS
  <1>2. CASE n = 0
    <2>1. FlattenSeq(seqs) = seqs /\ DOMAIN seqs = {}
      BY <1>1, <1>2 DEF FlattenSeq
    <2>2. seqs \in Seq(S)
      BY <2>1
    <2> QED
      BY <2>1, <2>2 DEF Range
  <1>3. CASE n # 0
    <2> DEFINE Flatten(f) == [i \in 1 .. n |-> IF i = 1 THEN seqs[i] ELSE f[i - 1] \o seqs[i]]
    <2>1. PICK T : T = Seq(S)
      OBVIOUS
    <2>2. PICK start \in T : start = << >>
      <3>1. << >> \in Seq(S)
        OBVIOUS
      <3> QED
        BY <2>1, <3>1
    <2>3. PICK step \in Steps(T) :
            step = [i \in Nat |-> [s \in T |-> s \o IF i \in 1 .. n THEN seqs[i] ELSE << >>]]
      <3>1. \A i \in Nat : \A s \in T : s \o (IF i \in 1 .. n THEN seqs[i] ELSE << >>) \in T
        BY <1>1, <2>1
      <3> QED
        BY <3>1 DEF Steps
    <2>4. PICK g \in [Nat -> T] : IsRun(g, start, step)
      BY RunExists
    <2>5. g[0] = << >> /\ \A i \in 1 .. n : g[i] = g[i - 1] \o seqs[i]
      <3>1. g[0] = << >>
        BY <2>2, <2>4 DEF IsRun
      <3>2. ASSUME NEW i \in 1 .. n
            PROVE  g[i] = g[i - 1] \o seqs[i]
        <4>1. i \in Nat \ {0} /\ i - 1 \in Nat
          OBVIOUS
        <4>2. g[i] = step[i][g[i - 1]] /\ g[i - 1] \in T
          BY <2>4, <4>1 DEF IsRun
        <4> QED
          BY <2>3, <4>1, <4>2
      <3> QED
        BY <3>1, <3>2
    <2>6. PICK f : f = [i \in 1 .. n |-> g[i]]
      OBVIOUS
    <2>7. f = Flatten(f)
      <3>1. ASSUME NEW i \in 1 .. n, i # 1
            PROVE  f[i] = f[i - 1] \o seqs[i]
        <4>1. i - 1 \in 1 .. n
          BY <3>1
        <4> QED
          BY <2>5, <2>6, <4>1
      <3>2. f[1] = seqs[1]
        <4>1. 1 \in 1 .. n /\ 1 - 1 = 0
          BY <1>3
        <4>2. g[1] = << >> \o seqs[1]
          BY <2>5, <4>1
        <4>3. seqs[1] \in Seq(S)
          BY <1>1, <4>1
        <4> QED
          BY <2>6, <4>1, <4>2, <4>3
      <3> QED
        BY <2>6, <3>1, <3>2
    <2>8. PICK h : h = Flatten(h) /\ FlattenSeq(seqs) = h[n]
      <3>1. PICK h : h = CHOOSE flatten : flatten = Flatten(flatten)
        OBVIOUS
      <3>2. h = Flatten(h)
        BY <2>7, <3>1
      <3>3. FlattenSeq(seqs) = h[n]
        BY <1>1, <1>3, <3>1 DEF FlattenSeq
      <3> QED
        BY <3>2, <3>3
    <2> DEFINE Good == {k \in Nat : k \in 1 .. n =>
                          /\ h[k] \in Seq(S)
                          /\ Range(h[k]) = UNION {Range(seqs[i]) : i \in 1 .. k}}
    <2>9. 0 \in Good
      OBVIOUS
    <2>10. ASSUME NEW k \in Nat, k \in Good
           PROVE  k + 1 \in Good
      <3> SUFFICES ASSUME k + 1 \in 1 .. n
                   PROVE  /\ h[k + 1] \in Seq(S)
                          /\ Range(h[k + 1]) = UNION {Range(seqs[i]) : i \in 1 .. k + 1}
        OBVIOUS
      <3>1. seqs[k + 1] \in Seq(S)
        BY <1>1
      <3>2. CASE k = 0
        <4>1. h[k + 1] = seqs[k + 1] /\ 1 .. k + 1 = {k + 1}
          BY <2>8, <3>2
        <4> QED
          BY <3>1, <4>1
      <3>3. CASE k # 0
        <4>1. k \in 1 .. n /\ (k + 1) - 1 = k /\ k + 1 # 1
          BY <3>3
        <4>2. h[k + 1] = h[k] \o seqs[k + 1]
          BY <2>8, <4>1
        <4>3. Range(h[k + 1]) = Range(h[k]) \cup Range(seqs[k + 1]) /\ h[k + 1] \in Seq(S)
          BY <2>10, <3>1, <4>1, <4>2, Concatenated
        <4>4. 1 .. k + 1 = (1 .. k) \cup {k + 1}
          OBVIOUS
        <4>5. Range(h[k]) = UNION {Range(seqs[i]) : i \in 1 .. k}
          BY <2>10, <4>1
        <4> QED
          BY <4>3, <4>4, <4>5
      <3> QED
        BY <3>2, <3>3
    <2> HIDE DEF Good
    <2>11. n \in Good
      BY <2>9, <2>10, SetInduction
    <2>12. n \in 1 .. n
      BY <1>3
    <2>13. /\ h[n] \in Seq(S)
           /\ Range(h[n]) = UNION {Range(seqs[i]) : i \in 1 .. n}
      BY <2>11, <2>12 DEF Good
    <2> QED
      BY <1>1, <2>8, <2>13
  <1> QED
    BY <1>2, <1>3

-----------------------------------------------------------------------------
(* The distance of the inner loop of CreateEdgesFromBusLines. *)

\* Whatever legs are counted, the sum starts at 0 and grows leg by leg.
LEMMA MetresSteps ==
    ASSUME NEW stops, NEW legs, \A k \in legs : Distance(db, stops[k - 1], stops[k]) \in Int
    PROVE  \E m \in [Nat -> Int] :
              /\ m[0] = 0
              /\ \A k \in Nat \ {0} :
                    m[k] = m[k - 1] + IF k \in legs THEN Distance(db, stops[k - 1], stops[k]) ELSE 0
              /\ \A to \in Nat : Metres(stops, legs, to) = m[to]
  <1> DEFINE D(k) == Distance(db, stops[k - 1], stops[k])
             Sums(f) == [k \in Nat |-> IF k = 0 THEN 0
                                       ELSE f[k - 1] + IF k \in legs THEN D(k) ELSE 0]
  <1>1. \A k \in legs : D(k) \in Int
    OBVIOUS
  <1>2. \A to : Metres(stops, legs, to) = (CHOOSE f : f = Sums(f))[to]
    BY DEF Metres
  <1> HIDE DEF D
  <1>3. PICK step \in Steps(Int) :
          step = [k \in Nat |-> [x \in Int |-> x + IF k \in legs THEN D(k) ELSE 0]]
    <2>1. \A k \in Nat : \A x \in Int : x + (IF k \in legs THEN D(k) ELSE 0) \in Int
      BY <1>1
    <2> QED
      BY <2>1 DEF Steps
  <1>4. PICK f \in [Nat -> Int] : IsRun(f, 0, step)
    <2>1. PICK zero \in Int : zero = 0
      OBVIOUS
    <2>2. \E f \in [Nat -> Int] : IsRun(f, zero, step)
      BY RunExists
    <2> QED
      BY <2>1, <2>2
  <1>5. f[0] = 0
    BY <1>4 DEF IsRun
  <1>6. ASSUME NEW k \in Nat \ {0}
        PROVE  f[k] = f[k - 1] + IF k \in legs THEN D(k) ELSE 0
    <2>1. f[k] = step[k][f[k - 1]] /\ f[k - 1] \in Int
      BY <1>4 DEF IsRun
    <2> QED
      BY <1>3, <2>1
  <1>7. f = Sums(f)
    BY <1>5, <1>6
  <1>8. PICK g : g = CHOOSE h : h = Sums(h)
    OBVIOUS
  <1>9. g = Sums(g)
    BY <1>7, <1>8
  <1>10. \A k \in Nat : g[k] \in Int
    <2> DEFINE S == {k \in Nat : g[k] \in Int}
    <2>1. 0 \in S
      BY <1>9
    <2>2. ASSUME NEW k \in Nat, k \in S
          PROVE  k + 1 \in S
      <3>1. PICK n \in Nat \ {0} : n = k + 1 /\ n - 1 = k
        OBVIOUS
      <3>2. g[n] = g[k] + IF n \in legs THEN D(n) ELSE 0
        BY <1>9, <3>1
      <3> QED
        BY <1>1, <2>2, <3>1, <3>2
    <2> HIDE DEF S
    <2>3. \A k \in Nat : k \in S
      BY <2>1, <2>2, SetInduction
    <2> QED
      BY <2>3 DEF S
  <1>11. g \in [Nat -> Int] /\ g[0] = 0
    BY <1>9, <1>10
  <1>12. \A k \in Nat \ {0} : g[k] = g[k - 1] + IF k \in legs THEN D(k) ELSE 0
    BY <1>9
  <1>13. \A to \in Nat : Metres(stops, legs, to) = g[to]
    BY <1>2, <1>8
  <1> HIDE DEF Sums
  <1> QED
    BY <1>11, <1>12, <1>13 DEF D

\* Of the same legs the sum is the same, and no leg of a negative length makes a sum
\* of more legs smaller.
LEMMA MoreMetres ==
    ASSUME NEW stops, NEW legs, NEW more, NEW to \in Nat,
           legs \cap (1 .. to) \subseteq more,
           \A k \in legs \cup more : Distance(db, stops[k - 1], stops[k]) \in Int,
           \A k \in more \cap (1 .. to) : k \notin legs => Distance(db, stops[k - 1], stops[k]) >= 0
    PROVE  /\ Metres(stops, legs, to) \in Int /\ Metres(stops, more, to) \in Int
           /\ Metres(stops, legs, to) <= Metres(stops, more, to)
           /\ more \cap (1 .. to) \subseteq legs =>
                Metres(stops, legs, to) = Metres(stops, more, to)
           /\ (\E k \in more \cap (1 .. to) :
                    k \notin legs /\ Distance(db, stops[k - 1], stops[k]) > 0)
              => Metres(stops, legs, to) < Metres(stops, more, to)
  <1> DEFINE D(k) == Distance(db, stops[k - 1], stops[k])
  <1>0. /\ \A k \in legs : Distance(db, stops[k - 1], stops[k]) \in Int
        /\ \A k \in more : Distance(db, stops[k - 1], stops[k]) \in Int
    OBVIOUS
  <1>1. PICK a \in [Nat -> Int] :
          /\ a[0] = 0
          /\ \A k \in Nat \ {0} : a[k] = a[k - 1] + IF k \in legs THEN D(k) ELSE 0
          /\ \A n \in Nat : Metres(stops, legs, n) = a[n]
    BY <1>0, MetresSteps
  <1>2. PICK b \in [Nat -> Int] :
          /\ b[0] = 0
          /\ \A k \in Nat \ {0} : b[k] = b[k - 1] + IF k \in more THEN D(k) ELSE 0
          /\ \A n \in Nat : Metres(stops, more, n) = b[n]
    BY <1>0, MetresSteps
  <1>3. \A k \in legs \cup more : D(k) \in Int
    OBVIOUS
  <1>4. \A k \in more \cap (1 .. to) : k \notin legs => D(k) >= 0
    OBVIOUS
  <1> DEFINE Gap(n)  == \E k \in more \cap (1 .. n) : k \notin legs /\ D(k) > 0
             Good(n) == /\ a[n] <= b[n]
                        /\ more \cap (1 .. n) \subseteq legs => a[n] = b[n]
                        /\ Gap(n) => a[n] < b[n]
             S == {n \in Nat : n <= to => Good(n)}
  <1> HIDE DEF D
  <1>5. 0 \in S
    BY <1>1, <1>2
  <1>6. ASSUME NEW n \in Nat, n \in S
        PROVE  n + 1 \in S
    <2> SUFFICES ASSUME n + 1 <= to PROVE Good(n + 1)
      OBVIOUS
    <2>1. PICK k \in Nat \ {0} : k = n + 1 /\ k - 1 = n /\ k \in 1 .. to /\ n <= to
      OBVIOUS
    <2>2. Good(n)
      BY <1>6, <2>1
    <2>3. /\ a[k] = a[n] + IF k \in legs THEN D(k) ELSE 0
          /\ b[k] = b[n] + IF k \in more THEN D(k) ELSE 0
          /\ a[n] \in Int /\ b[n] \in Int
      BY <1>1, <1>2, <2>1
    <2>4. 1 .. k = (1 .. n) \cup {k}
      BY <2>1
    <2>5. k \in legs => k \in more
      BY <2>1
    <2>6. CASE k \in legs
      <3>1. Gap(k) => Gap(n)
        BY <2>4, <2>6
      <3>2. D(k) \in Int
        BY <1>3, <2>6
      <3> HIDE DEF Gap
      <3> QED
        BY <2>1, <2>2, <2>3, <2>4, <2>5, <2>6, <3>1, <3>2
    <2>7. CASE k \notin legs /\ k \in more
      <3>1. D(k) \in Int /\ D(k) >= 0
        BY <1>3, <1>4, <2>1, <2>7
      <3>2. Gap(k) => Gap(n) \/ D(k) > 0
        BY <2>4
      <3>3. ~(more \cap (1 .. k) \subseteq legs)
        BY <2>1, <2>7
      <3> HIDE DEF Gap
      <3> QED
        BY <2>1, <2>2, <2>3, <2>7, <3>1, <3>2, <3>3
    <2>8. CASE k \notin legs /\ k \notin more
      <3>1. Gap(k) => Gap(n)
        BY <2>4, <2>8
      <3> HIDE DEF Gap
      <3> QED
        BY <2>1, <2>2, <2>3, <2>4, <2>8, <3>1
    <2> QED
      BY <2>5, <2>6, <2>7, <2>8
  <1> HIDE DEF S, Good, Gap
  <1>7. to \in S
    BY <1>5, <1>6, SetInduction
  <1>8. Good(to)
    BY <1>7 DEF S
  <1> QED
    BY <1>1, <1>2, <1>8 DEF Good, Gap, D

-----------------------------------------------------------------------------
(* The lines of a populated catalogue, and the edges collected along them. *)

\* Every stop of a line is one that a name leads to.
LEMMA LineStops ==
    ASSUME PopulateInvariant, stage = "populated", NEW ptr \in GetBusesHolder(db)
    PROVE  /\ ptr \in BusPtrs(db) /\ ptr \in BusPtr /\ ptr # Null
           /\ db.buses[ptr].stops \in Seq(GetStopsHolder(db))
  <1>1. /\ ptr \in BusPtrs(db) /\ ptr # Null
        /\ db.buses \in Seq(Bus)
    BY DEF PopulateInvariant, PopulateTypeOK, GetBusesHolder
  <1>2. ptr \in BusPtr /\ db.buses[ptr].stops \in Seq(StopPtr \cup {Null})
    <2>1. ptr \in 1 .. Len(db.buses) /\ db.buses[ptr] \in Bus
      BY <1>1 DEF BusPtrs
    <2> QED
      BY <1>1, <2>1 DEF BusPtr, Bus
  <1>3. PICK stops : stops = db.buses[ptr].stops
    OBVIOUS
  <1>4. \A n \in DOMAIN stops : stops[n] \in GetStopsHolder(db)
    <2> SUFFICES ASSUME NEW n \in DOMAIN stops
                 PROVE  stops[n] \in GetStopsHolder(db)
      OBVIOUS
    <2>1. stops[n] \in GetStopsHolder(db) \cup {Null}
      BY <1>1, <1>3 DEF PopulateInvariant, BusesUseNamedStops
    <2>2. Returned(ptr)
      BY DEF Returned
    <2>3. stops[n] # Null
      BY <1>1, <1>3, <2>2 DEF PopulateInvariant, ListsFollowBuses
    <2> QED
      BY <2>1, <2>3
  <1>5. stops \in Seq(GetStopsHolder(db))
    BY <1>2, <1>3, <1>4
  <1> QED
    BY <1>1, <1>2, <1>3, <1>5

\* A bus is scanned along its stops and, unless it goes round, along them reversed.
LEMMA DirectionsOf ==
    ASSUME NEW S, NEW bus, bus.stops \in Seq(S)
    PROVE  /\ Directions(bus) \in Seq(Seq(S))
           /\ Range(Directions(bus)) =
                {bus.stops} \cup IF bus.is_roundtrip THEN {} ELSE {Reverse(bus.stops)}
  <1>1. Reverse(bus.stops) \in Seq(S)
    BY DEF Reverse
  <1>2. PICK a \in Seq(S) : a = bus.stops
    OBVIOUS
  <1>3. PICK b \in Seq(S) : b = Reverse(bus.stops)
    BY <1>1
  <1>4. CASE bus.is_roundtrip
    <2>1. Directions(bus) = <<a>>
      BY <1>2, <1>4 DEF Directions
    <2>2. <<a>> \in Seq(Seq(S)) /\ Range(<<a>>) = {a}
      BY DEF Range
    <2> QED
      BY <1>2, <1>4, <2>1, <2>2
  <1>5. CASE ~bus.is_roundtrip
    <2>1. Directions(bus) = <<a, b>>
      BY <1>2, <1>3, <1>5 DEF Directions
    <2>2. <<a, b>> \in Seq(Seq(S)) /\ Range(<<a, b>>) = {a, b}
      BY DEF Range
    <2> QED
      BY <1>2, <1>3, <1>5, <2>1, <2>2
  <1> QED
    BY <1>4, <1>5

\* The lines of a bus are sequences of stops that have names.
LEMMA LinesOf ==
    ASSUME PopulateInvariant, stage = "populated", NEW ptr \in GetBusesHolder(db)
    PROVE  Directions(db.buses[ptr]) \in Seq(Seq(GetStopsHolder(db)))
  <1>1. PICK bus : bus = db.buses[ptr]
    OBVIOUS
  <1>2. bus.stops \in Seq(GetStopsHolder(db))
    BY <1>1, LineStops
  <1>3. Directions(bus) \in Seq(Seq(GetStopsHolder(db)))
    BY <1>2, DirectionsOf
  <1> QED
    BY <1>1, <1>3

\* A distance is a number or there is none.
LEMMA DistanceType ==
    ASSUME PopulateTypeOK, NEW s, NEW t
    PROVE  Distance(db, s, t) \in Int \cup {Null}
  BY DEF PopulateTypeOK, Distance

\* What push_back_busline_edges collects is of the type of an item, and every edge
\* leads to another stop.
LEMMA LineEdgeType ==
    ASSUME PopulateTypeOK, NEW stops \in Seq(GetStopsHolder(db)), ~LineThrows(stops),
           NEW bus_ptr \in BusPtr, NEW from \in DOMAIN stops, NEW to \in Destinations(stops, from)
    PROVE  LET item == LineEdge(stops, bus_ptr, from, to)
           IN  /\ item \in Item
               /\ item.from \in GetStopsHolder(db) /\ item.to \in GetStopsHolder(db)
               /\ item.from # item.to /\ item.bus = bus_ptr
  <1>1. /\ to \in DOMAIN stops /\ stops[to] # stops[from]
        /\ stops[from] \in GetStopsHolder(db) /\ stops[to] \in GetStopsHolder(db)
        /\ from \in Nat /\ to \in Nat
    BY DEF Destinations
  <1>2. GetStopsHolder(db) \subseteq StopPtr
    BY DEF PopulateTypeOK, StopPtrs, StopPtr
  <1>3. (to - from) % SpanModulus \in 0 .. SpanModulus - 1
    BY <1>1, TransportRouterAssumption
  <1>4. \A k \in Destinations(stops, from) : Distance(db, stops[k - 1], stops[k]) \in Int
    BY DistanceType DEF LineThrows
  <1>5. Ridden(stops, from, to) \in Int
    <2>1. Metres(stops, Destinations(stops, from), to) \in Int
      BY <1>1, <1>4, MetresSteps
    <2> QED
      BY <2>1 DEF Ridden
  <1> HIDE DEF Ridden
  <1> QED
    BY <1>1, <1>2, <1>3, <1>5 DEF LineEdge, Item

\* LineEdges collects the edges from every stop to its destinations.
LEMMA LineEdgesCollected ==
    ASSUME PopulateTypeOK, NEW stops \in Seq(GetStopsHolder(db)), ~LineThrows(stops),
           NEW bus_ptr \in BusPtr
    PROVE  /\ LineEdges(stops, bus_ptr) \in Seq(Item)
           /\ Range(LineEdges(stops, bus_ptr)) =
                UNION {{LineEdge(stops, bus_ptr, from, to) : to \in Destinations(stops, from)} :
                        from \in DOMAIN stops}
  <1> DEFINE EdgesFrom(from) ==
               [to \in DOMAIN stops |-> IF to \in Destinations(stops, from)
                                        THEN <<LineEdge(stops, bus_ptr, from, to)>> ELSE << >>]
             Found(from) == {LineEdge(stops, bus_ptr, from, to) : to \in Destinations(stops, from)}
             all == [from \in DOMAIN stops |-> FlattenSeq(EdgesFrom(from))]
  <1>0. DOMAIN stops = 1 .. Len(stops) /\ Len(stops) \in Nat
    OBVIOUS
  <1>1. ASSUME NEW from \in DOMAIN stops
        PROVE  FlattenSeq(EdgesFrom(from)) \in Seq(Item) /\ Range(FlattenSeq(EdgesFrom(from))) = Found(from)
    <2>1. PICK seqs : seqs = EdgesFrom(from)
      OBVIOUS
    <2>2. \A to \in Destinations(stops, from) : LineEdge(stops, bus_ptr, from, to) \in Item
      BY LineEdgeType
    <2>3. seqs \in Seq(Seq(Item))
      <3>1. \A to \in DOMAIN stops : seqs[to] \in Seq(Item)
        BY <2>1, <2>2
      <3>2. seqs \in [1 .. Len(stops) -> Seq(Item)]
        BY <1>0, <2>1, <3>1
      <3> QED
        BY <1>0, <3>2
    <2>4. /\ FlattenSeq(seqs) \in Seq(Item)
          /\ Range(FlattenSeq(seqs)) = UNION {Range(seqs[i]) : i \in DOMAIN seqs}
      BY <2>3, Flattened
    <2>5. UNION {Range(seqs[i]) : i \in DOMAIN seqs} = Found(from)
      <3>1. \A to \in Destinations(stops, from) :
               to \in DOMAIN seqs /\ Range(seqs[to]) = {LineEdge(stops, bus_ptr, from, to)}
        BY <2>1 DEF Range, Destinations
      <3>2. \A to \in DOMAIN seqs : to \notin Destinations(stops, from) => Range(seqs[to]) = {}
        BY <2>1 DEF Range
      <3> QED
        BY <3>1, <3>2
    <2> QED
      BY <2>1, <2>4, <2>5
  <1> HIDE DEF EdgesFrom, Found
  <1>2. all \in Seq(Seq(Item))
    <2>1. all \in [1 .. Len(stops) -> Seq(Item)]
      BY <1>0, <1>1
    <2> QED
      BY <1>0, <2>1
  <1>3. /\ FlattenSeq(all) \in Seq(Item)
        /\ Range(FlattenSeq(all)) = UNION {Range(all[i]) : i \in DOMAIN all}
    <2>1. PICK seqs \in Seq(Seq(Item)) : seqs = all
      BY <1>2
    <2> HIDE DEF all
    <2> QED
      BY <2>1, Flattened
  <1>4. UNION {Range(all[i]) : i \in DOMAIN all} = UNION {Found(from) : from \in DOMAIN stops}
    BY <1>1
  <1>5. LineEdges(stops, bus_ptr) = FlattenSeq(all)
    BY DEF LineEdges, EdgesFrom
  <1> HIDE DEF all
  <1> QED
    BY <1>3, <1>4, <1>5 DEF Found

\* The edges collected from a bus: from every index of a line to its destinations.
LEMMA LineItemsAre ==
    ASSUME NEW bus_ptr, NEW item
    PROVE  item \in LineItems(bus_ptr) <=>
              \E stops \in Range(Directions(db.buses[bus_ptr])) :
                \E from \in DOMAIN stops : \E to \in Destinations(stops, from) :
                    item = LineEdge(stops, bus_ptr, from, to)
  BY DEF LineItems

\* One turn of the outer loop collects the edges of one bus.
LEMMA BusEdgesCollected ==
    ASSUME PopulateInvariant, stage = "populated", NEW ptr \in GetBusesHolder(db),
           NEW lines, lines = Directions(db.buses[ptr]),
           \A d \in DOMAIN lines : ~LineThrows(lines[d])
    PROVE  LET found == FlattenSeq([d \in DOMAIN lines |-> LineEdges(lines[d], ptr)])
           IN  found \in Seq(Item) /\ Range(found) = LineItems(ptr)
  <1> DEFINE all == [d \in DOMAIN lines |-> LineEdges(lines[d], ptr)]
             Found(stops) == UNION {{LineEdge(stops, ptr, from, to) : to \in Destinations(stops, from)} :
                                        from \in DOMAIN stops}
  <1>0. PopulateTypeOK /\ ptr \in BusPtr
    BY LineStops DEF PopulateInvariant
  <1>1. lines \in Seq(Seq(GetStopsHolder(db))) /\ DOMAIN lines = 1 .. Len(lines) /\ Len(lines) \in Nat
    BY LinesOf
  <1>2. ASSUME NEW d \in DOMAIN lines
        PROVE  LineEdges(lines[d], ptr) \in Seq(Item) /\ Range(LineEdges(lines[d], ptr)) = Found(lines[d])
    <2>1. PICK stops \in Seq(GetStopsHolder(db)) : stops = lines[d]
      BY <1>1
    <2>2. ~LineThrows(stops)
      BY <2>1
    <2> QED
      BY <1>0, <2>1, <2>2, LineEdgesCollected
  <1> HIDE DEF Found
  <1>3. all \in Seq(Seq(Item))
    <2>1. all \in [1 .. Len(lines) -> Seq(Item)]
      BY <1>1, <1>2
    <2> QED
      BY <1>1, <2>1
  <1>4. /\ FlattenSeq(all) \in Seq(Item)
        /\ Range(FlattenSeq(all)) = UNION {Range(all[d]) : d \in DOMAIN all}
    <2>1. PICK seqs \in Seq(Seq(Item)) : seqs = all
      BY <1>3
    <2> HIDE DEF all
    <2> QED
      BY <2>1, Flattened
  <1>5. UNION {Range(all[d]) : d \in DOMAIN all} = UNION {Found(lines[d]) : d \in DOMAIN lines}
    BY <1>2
  <1>6. UNION {Found(lines[d]) : d \in DOMAIN lines} = LineItems(ptr)
    <2>1. LineItems(ptr) = UNION {Found(stops) : stops \in Range(lines)}
      BY DEF LineItems, Found
    <2> QED
      BY <2>1 DEF Range
  <1> HIDE DEF all
  <1>7. FlattenSeq(all) \in Seq(Item) /\ Range(FlattenSeq(all)) = LineItems(ptr)
    BY <1>4, <1>5, <1>6
  <1> QED
    BY <1>7 DEF all

\* The router leaves the catalogue alone, so its lines stay the same.
LEMMA SameLines ==
    ASSUME db' = db
    PROVE  /\ GetStopsHolder(db)' = GetStopsHolder(db) /\ GetBusesHolder(db)' = GetBusesHolder(db)
           /\ \A ptrs : ItemsOfLines(ptrs)' = ItemsOfLines(ptrs)
           /\ \A stops : LineThrows(stops)' <=> LineThrows(stops)
  <1>1. \A stops, legs, to : Metres(stops, legs, to)' = Metres(stops, legs, to)
    BY DEF Metres
  <1>2. \A stops, from, to : Ridden(stops, from, to)' = Ridden(stops, from, to)
    BY <1>1 DEF Ridden
  <1>3. \A stops, ptr, from, to : LineEdge(stops, ptr, from, to)' = LineEdge(stops, ptr, from, to)
    BY <1>2 DEF LineEdge
  <1>4. \A ptr : LineItems(ptr)' = LineItems(ptr)
    BY <1>3 DEF LineItems
  <1>5. \A ptrs : ItemsOfLines(ptrs)' = ItemsOfLines(ptrs)
    BY <1>4 DEF ItemsOfLines
  <1>6. \A stops : LineThrows(stops)' <=> LineThrows(stops)
    BY DEF LineThrows
  <1> QED
    BY <1>5, <1>6

-----------------------------------------------------------------------------
(* The steps. *)

\* The router leaves the catalogue alone.
LEMMA CatalogueKept ==
    ASSUME RouterInvariant, UNCHANGED populateVars
    PROVE  /\ PopulateInvariant' /\ db' = db /\ stage' = stage
           /\ GetStopsHolder(db)' = GetStopsHolder(db) /\ GetBusesHolder(db)' = GetBusesHolder(db)
           /\ \A ptrs : ItemsOfLines(ptrs)' = ItemsOfLines(ptrs)
           /\ \A stops : LineThrows(stops)' <=> LineThrows(stops)
  <1>1. PopulateInvariant'
    BY PopulateStep DEF RouterInvariant
  <1>2. db' = db /\ stage' = stage
    BY DEF populateVars
  <1> QED
    BY <1>1, <1>2, SameLines

\* Stops and lines that have been collected are not touched by the steps that do not
\* change them.
LEMMA CollectedKept ==
    ASSUME RouterInvariant, UNCHANGED populateVars, building' = building, edges' = edges,
           building = "lines" => pending' = pending
    PROVE  CollectedFollowsLines'
  <1>1. /\ db' = db
        /\ GetBusesHolder(db)' = GetBusesHolder(db)
        /\ \A ptrs : ItemsOfLines(ptrs)' = ItemsOfLines(ptrs)
        /\ \A stops : LineThrows(stops)' <=> LineThrows(stops)
    BY CatalogueKept
  <1>2. CollectedFollowsLines
    BY DEF RouterInvariant
  <1> QED
    BY <1>1, <1>2 DEF CollectedFollowsLines

\* While the catalogue is being populated the router has not been started.
LEMMA PopulateContinues ==
    RouterInvariant /\ PopulateNext /\ UNCHANGED routerVars => RouterInvariant'
  <1> SUFFICES ASSUME RouterInvariant, PopulateNext, UNCHANGED routerVars
               PROVE  RouterInvariant'
    OBVIOUS
  <1>1. PopulateInvariant'
    BY PopulateStep DEF RouterInvariant
  <1>2. building = "waiting"
    BY DEF RouterInvariant, LoopsFollowCatalogue, PopulateNext, NextStop, NextDistance, NextDistances,
           NextBus, NextLoop
  <1>3. /\ building' = "waiting" /\ pending' = {} /\ stop_to_transfer' = [ptr \in {} |-> 0]
        /\ graph' = EmptyGraph(0) /\ answer' = Null /\ id_to_edge' = << >> /\ edges' = << >>
        /\ DOMAIN graph'.incidence_lists = {}
    BY <1>2 DEF RouterInvariant, LoopsFollowCatalogue, routerVars
  <1>4. LoopsFollowCatalogue'
    BY <1>3 DEF LoopsFollowCatalogue
  <1>5. TransfersFollowStops'
    BY <1>3 DEF TransfersFollowStops
  <1>6. ItemsFollowEdges' /\ WaitsFollowStops'
    <2>1. graph'.edges = << >>
      BY <1>3 DEF EmptyGraph
    <2> QED
      BY <1>3, <2>1 DEF ItemsFollowEdges, WaitsFollowStops
  <1>7. CollectedFollowsLines' /\ RidesAreFastest'
    BY <1>3 DEF CollectedFollowsLines, RidesAreFastest
  <1> QED
    BY <1>1, <1>4, <1>5, <1>6, <1>7 DEF RouterInvariant

\* graph_(2*db.GetStopCount())
LEMMA RouterStarted == RouterInvariant /\ StartRouter => RouterInvariant'
  <1> SUFFICES ASSUME RouterInvariant, StartRouter PROVE RouterInvariant'
    OBVIOUS
  <1>1. /\ stage = "populated" /\ building = "waiting" /\ UNCHANGED populateVars
        /\ building' = "transfers" /\ pending' = GetStopsHolder(db)
        /\ graph' = EmptyGraph(2 * Len(db.stops))
        /\ stop_to_transfer' = stop_to_transfer /\ id_to_edge' = id_to_edge
        /\ edges' = edges /\ answer' = answer
    BY DEF StartRouter
  <1>2. /\ stop_to_transfer = [ptr \in {} |-> 0] /\ id_to_edge = << >> /\ edges = << >>
        /\ answer = Null
    BY <1>1 DEF RouterInvariant, LoopsFollowCatalogue
  <1>3. /\ PopulateInvariant' /\ db' = db /\ stage' = stage
        /\ GetStopsHolder(db)' = GetStopsHolder(db) /\ GetBusesHolder(db)' = GetBusesHolder(db)
    BY <1>1, CatalogueKept
  <1>4. LoopsFollowCatalogue'
    BY <1>1, <1>2, <1>3 DEF LoopsFollowCatalogue, EmptyGraph
  <1>5. TransfersFollowStops'
    BY <1>1, <1>2, <1>3 DEF TransfersFollowStops
  <1>6. ItemsFollowEdges' /\ WaitsFollowStops'
    <2>1. graph'.edges = << >>
      BY <1>1 DEF EmptyGraph
    <2> QED
      BY <1>1, <1>2, <2>1 DEF ItemsFollowEdges, WaitsFollowStops
  <1>7. CollectedFollowsLines' /\ RidesAreFastest'
    BY <1>1 DEF CollectedFollowsLines, RidesAreFastest
  <1> QED
    BY <1>3, <1>4, <1>5, <1>6, <1>7 DEF RouterInvariant

\* The stops are finitely many, and there are vertices for all of them.
LEMMA StopsFit ==
    ASSUME PopulateTypeOK, NEW S, S \subseteq GetStopsHolder(db)
    PROVE  /\ IsFiniteSet(S) /\ Cardinality(S) \in Nat /\ Cardinality(S) <= Len(db.stops)
           /\ Len(db.stops) \in Nat
           /\ \A stop \in GetStopsHolder(db) \ S : Cardinality(S) < Len(db.stops)
  <1>1. PICK n \in Nat : n = Len(db.stops) /\ StopPtrs(db) = 1 .. n
    BY DEF PopulateTypeOK, StopPtrs
  <1>2. GetStopsHolder(db) \subseteq 1 .. n
    BY <1>1 DEF PopulateTypeOK
  <1>3. IsFiniteSet(1 .. n) /\ Cardinality(1 .. n) = n
    BY FS_Interval
  <1>4. S \in SUBSET (1 .. n)
    BY <1>2
  <1>5. /\ IsFiniteSet(S) /\ Cardinality(S) <= n
        /\ Cardinality(S) = n => S = 1 .. n
    BY <1>3, <1>4, FS_Subset
  <1>6. Cardinality(S) \in Nat
    BY <1>5, FS_CardinalityType
  <1>7. \A stop \in GetStopsHolder(db) \ S : Cardinality(S) < n
    BY <1>2, <1>5, <1>6
  <1> QED
    BY <1>1, <1>5, <1>6, <1>7

\* First loop of FillStopEdges: every stop gets two vertices that no other has
\* (router.cpp:10-15).
LEMMA TransferAdded == RouterInvariant /\ AddTransfer => RouterInvariant'
  <1> SUFFICES ASSUME RouterInvariant, AddTransfer PROVE RouterInvariant'
    OBVIOUS
  <1> DEFINE old == DOMAIN stop_to_transfer
             n   == Cardinality(old)
  <1>1. PICK ptr \in pending :
          /\ stop_to_transfer' = [p \in old \cup {ptr} |->
                IF p = ptr THEN Transfer(2 * n) ELSE stop_to_transfer[p]]
          /\ pending' = pending \ {ptr}
    BY DEF AddTransfer
  <1>2. /\ building = "transfers" /\ UNCHANGED populateVars
        /\ building' = building /\ graph' = graph /\ id_to_edge' = id_to_edge
        /\ edges' = edges /\ answer' = answer
    BY DEF AddTransfer
  <1>3. /\ PopulateInvariant' /\ db' = db /\ stage' = stage
        /\ GetStopsHolder(db)' = GetStopsHolder(db) /\ GetBusesHolder(db)' = GetBusesHolder(db)
    BY <1>2, CatalogueKept
  <1>4. /\ id_to_edge = << >> /\ edges = << >>
        /\ pending = GetStopsHolder(db) \ old /\ old \subseteq GetStopsHolder(db)
        /\ ptr \notin old /\ ptr \in GetStopsHolder(db)
    BY <1>2 DEF RouterInvariant, LoopsFollowCatalogue, TransfersFollowStops
  <1>5. /\ IsFiniteSet(old) /\ n \in Nat
        /\ Cardinality(old \cup {ptr}) = n + 1
    <2>1. IsFiniteSet(old) /\ n \in Nat
      BY <1>4, StopsFit DEF RouterInvariant, PopulateInvariant
    <2> QED
      BY <1>4, <2>1, FS_AddElement
  <1>6. LoopsFollowCatalogue'
    BY <1>1, <1>2, <1>3, <1>4 DEF RouterInvariant, LoopsFollowCatalogue
  <1>7. TransfersFollowStops'
    <2>1. PICK c \in Nat : c = n
      BY <1>5
    <2>2. \A s \in old : \E k \in 0 .. c - 1 : stop_to_transfer[s] = Transfer(2 * k)
      BY <2>1 DEF RouterInvariant, TransfersFollowStops
    <2>3. /\ DOMAIN stop_to_transfer' = old \cup {ptr}
          /\ stop_to_transfer'[ptr] = Transfer(2 * c)
          /\ \A s \in old : stop_to_transfer'[s] = stop_to_transfer[s]
      BY <1>1, <1>4, <2>1
    <2>4. \A j, k \in Nat : Transfer(2 * j) = Transfer(2 * k) => j = k
      BY DEF Transfer
    <2>5. \A s \in old : stop_to_transfer[s] # Transfer(2 * c)
      BY <2>2, <2>4
    <2>6. \A s \in old \cup {ptr} : \E k \in 0 .. (c + 1) - 1 : stop_to_transfer'[s] = Transfer(2 * k)
      <3>1. c \in 0 .. (c + 1) - 1 /\ 0 .. c - 1 \subseteq 0 .. (c + 1) - 1
        OBVIOUS
      <3> QED
        BY <2>2, <2>3, <3>1
    <2>7. \A s, t \in old : stop_to_transfer[s] = stop_to_transfer[t] => s = t
      BY DEF RouterInvariant, TransfersFollowStops
    <2>8. Cardinality(DOMAIN stop_to_transfer') = c + 1
      BY <1>5, <2>1, <2>3
    <2>9. building' = "transfers" /\ pending' = GetStopsHolder(db)' \ DOMAIN stop_to_transfer'
      BY <1>1, <1>2, <1>3, <1>4, <2>3
    <2>10. DOMAIN stop_to_transfer' \subseteq GetStopsHolder(db)'
      BY <1>3, <1>4, <2>3
    <2>11. \A s \in DOMAIN stop_to_transfer' :
              \E k \in 0 .. Cardinality(DOMAIN stop_to_transfer') - 1 :
                  stop_to_transfer'[s] = Transfer(2 * k)
      BY <2>3, <2>6, <2>8
    <2>12. \A s, t \in DOMAIN stop_to_transfer' :
              stop_to_transfer'[s] = stop_to_transfer'[t] => s = t
      BY <2>3, <2>5, <2>7
    <2> QED
      BY <2>9, <2>10, <2>11, <2>12 DEF TransfersFollowStops
  <1>8. ItemsFollowEdges' /\ WaitsFollowStops'
    <2>1. graph.edges = << >>
      BY <1>4 DEF RouterInvariant, ItemsFollowEdges
    <2> QED
      BY <1>2, <1>4, <2>1 DEF ItemsFollowEdges, WaitsFollowStops
  <1>9. CollectedFollowsLines' /\ RidesAreFastest'
    BY <1>2 DEF CollectedFollowsLines, RidesAreFastest
  <1> QED
    BY <1>3, <1>6, <1>7, <1>8, <1>9 DEF RouterInvariant

\* A step that leaves stops, graph and items alone leaves alone what is said of them.
LEMMA GraphKept ==
    ASSUME RouterInvariant, UNCHANGED <<populateVars, stop_to_transfer, graph, id_to_edge>>,
           building \notin {"waiting", "transfers"} \/ pending = {},
           building # "waiting", building' \notin {"waiting", "transfers"}
    PROVE  /\ TransfersFollowStops' /\ ItemsFollowEdges'
           /\ DOMAIN graph'.incidence_lists = Vertices(2 * Len(db'.stops))
  <1>1. db' = db /\ GetStopsHolder(db)' = GetStopsHolder(db)
    BY CatalogueKept
  <1>2. DOMAIN stop_to_transfer = GetStopsHolder(db)
    BY DEF RouterInvariant, TransfersFollowStops
  <1>3. TransfersFollowStops'
    BY <1>1, <1>2 DEF RouterInvariant, TransfersFollowStops
  <1>4. \A item : EdgeOf(item)' = EdgeOf(item)
    BY DEF EdgeOf, WaitEdge, RideEdge
  <1>5. ItemsFollowEdges'
    BY <1>1, <1>4 DEF RouterInvariant, ItemsFollowEdges
  <1>6. DOMAIN graph'.incidence_lists = Vertices(2 * Len(db'.stops))
    BY <1>1 DEF RouterInvariant, LoopsFollowCatalogue
  <1> QED
    BY <1>3, <1>5, <1>6

\* The first loop of FillStopEdges is done.
LEMMA TransfersEnd == RouterInvariant /\ EndTransfers => RouterInvariant'
  <1> SUFFICES ASSUME RouterInvariant, EndTransfers PROVE RouterInvariant'
    OBVIOUS
  <1>1. /\ building = "transfers" /\ pending = {} /\ building' = "waits"
        /\ pending' = DOMAIN stop_to_transfer /\ UNCHANGED populateVars
        /\ stop_to_transfer' = stop_to_transfer /\ graph' = graph /\ id_to_edge' = id_to_edge
        /\ edges' = edges /\ answer' = answer
    BY DEF EndTransfers
  <1>2. /\ id_to_edge = << >> /\ edges = << >> /\ DOMAIN stop_to_transfer = GetStopsHolder(db)
    BY <1>1 DEF RouterInvariant, LoopsFollowCatalogue, TransfersFollowStops
  <1>3. /\ PopulateInvariant' /\ db' = db /\ stage' = stage
        /\ GetStopsHolder(db)' = GetStopsHolder(db)
    BY <1>1, CatalogueKept
  <1>4. TransfersFollowStops' /\ ItemsFollowEdges'
    BY <1>1, GraphKept
  <1>5. LoopsFollowCatalogue'
    BY <1>1, <1>2, <1>3 DEF RouterInvariant, LoopsFollowCatalogue
  <1>6. WaitsFollowStops'
    BY <1>1, <1>2, <1>3 DEF WaitsFollowStops, WaitsAt, RidesOf, Range
  <1>7. CollectedFollowsLines' /\ RidesAreFastest'
    BY <1>1 DEF CollectedFollowsLines, RidesAreFastest
  <1> QED
    BY <1>3, <1>4, <1>5, <1>6, <1>7 DEF RouterInvariant

\* What a sequence with one element more is made of.
LEMMA Appended ==
    ASSUME NEW S, NEW s \in Seq(S), NEW x \in S
    PROVE  /\ Append(s, x) \in Seq(S)
           /\ DOMAIN Append(s, x) = DOMAIN s \cup {Len(s) + 1} /\ Len(s) + 1 \notin DOMAIN s
           /\ Append(s, x)[Len(s) + 1] = x /\ \A i \in DOMAIN s : Append(s, x)[i] = s[i]
           /\ Range(Append(s, x)) = Range(s) \cup {x}
  <1>1. /\ Append(s, x) \in Seq(S)
        /\ DOMAIN Append(s, x) = DOMAIN s \cup {Len(s) + 1} /\ Len(s) + 1 \notin DOMAIN s
        /\ Append(s, x)[Len(s) + 1] = x /\ \A i \in DOMAIN s : Append(s, x)[i] = s[i]
    OBVIOUS
  <1>2. Range(Append(s, x)) = Range(s) \cup {x}
    <2>1. PICK t : t = Append(s, x)
      OBVIOUS
    <2> QED
      BY <1>1, <2>1 DEF Range
  <1> QED
    BY <1>1, <1>2

\* An item of a new pair of stops becomes the last one, and its edge the last edge.
LEMMA ItemAdded ==
    ASSUME RouterInvariant, UNCHANGED populateVars, stop_to_transfer' = stop_to_transfer,
           NEW item \in Item, AddItem(item, EdgeOf(item)),
           item.from \in GetStopsHolder(db), item.to \in GetStopsHolder(db),
           item.bus = Null <=> item.from = item.to,
           item.bus = Null => item.timedelta = WaitTime,
           \A id \in DOMAIN id_to_edge : ~SamePair(id_to_edge[id], item)
    PROVE  /\ ItemsFollowEdges'
           /\ Range(id_to_edge)' = Range(id_to_edge) \cup {item}
           /\ DOMAIN graph'.incidence_lists = DOMAIN graph.incidence_lists
  <1>1. GetStopsHolder(db)' = GetStopsHolder(db)
    BY CatalogueKept
  <1>2. /\ id_to_edge \in Seq(Item)
        /\ graph.edges = [id \in DOMAIN id_to_edge |-> EdgeOf(id_to_edge[id])]
    BY DEF RouterInvariant, ItemsFollowEdges
  <1>3. PICK n \in Nat : n = Len(id_to_edge) /\ DOMAIN id_to_edge = 1 .. n
    BY <1>2
  <1>4. /\ id_to_edge' = Append(id_to_edge, item)
        /\ graph'.edges = Append(graph.edges, EdgeOf(item))
        /\ DOMAIN graph'.incidence_lists = DOMAIN graph.incidence_lists
    BY DEF AddItem, AddEdge
  <1>5. /\ id_to_edge' \in Seq(Item)
        /\ DOMAIN id_to_edge' = 1 .. n + 1
        /\ id_to_edge'[n + 1] = item /\ \A id \in 1 .. n : id_to_edge'[id] = id_to_edge[id]
        /\ Range(id_to_edge)' = Range(id_to_edge) \cup {item}
    BY <1>2, <1>3, <1>4, Appended
  <1>6. graph'.edges = [id \in DOMAIN id_to_edge' |-> EdgeOf(id_to_edge[id])']
    <2>1. \A i : EdgeOf(i)' = EdgeOf(i)
      BY DEF EdgeOf, WaitEdge, RideEdge
    <2>2. PICK T : T = {EdgeOf(i) : i \in Item}
      OBVIOUS
    <2>3. graph.edges \in [1 .. n -> T] /\ EdgeOf(item) \in T
      BY <1>2, <1>3, <2>2
    <2>4. PICK edge \in T : edge = EdgeOf(item)
      BY <2>3
    <2>5. PICK old \in [1 .. n -> T] : old = graph.edges
      BY <2>3
    <2>7. Append(old, edge) = [id \in 1 .. n + 1 |-> IF id = n + 1 THEN edge ELSE old[id]]
      <3>1. \A k \in Nat : \A f \in [1 .. k -> T] : f \in Seq(T) /\ Len(f) = k
        OBVIOUS
      <3>2. old \in Seq(T) /\ Len(old) = n
        BY <3>1
      <3>3. PICK sequence \in Seq(T) : sequence = old
        BY <3>2
      <3>4. PICK new \in Seq(T) : new = Append(sequence, edge)
        BY Appended
      <3>5. /\ Len(new) = n + 1 /\ new[n + 1] = edge
            /\ \A id \in 1 .. n : new[id] = old[id]
        BY <3>2, <3>3, <3>4
      <3>6. \A g \in Seq(T) : g = [id \in 1 .. Len(g) |-> g[id]]
        OBVIOUS
      <3>7. new = [id \in 1 .. n + 1 |-> new[id]]
        BY <3>5, <3>6
      <3> QED
        BY <3>3, <3>4, <3>5, <3>7
    <2>8. \A id \in 1 .. n : old[id] = EdgeOf(id_to_edge[id])
      BY <1>2, <1>3, <2>5
    <2> HIDE DEF EdgeOf
    <2>9. Append(old, edge) = [id \in 1 .. n + 1 |-> EdgeOf(id_to_edge'[id])]
      BY <1>5, <2>4, <2>7, <2>8
    <2> QED
      BY <1>4, <1>5, <2>1, <2>4, <2>5, <2>9
  <1>7. \A id \in DOMAIN id_to_edge' :
          LET i == id_to_edge'[id]
          IN  /\ i.from \in GetStopsHolder(db) /\ i.to \in GetStopsHolder(db)
              /\ i.bus = Null <=> i.from = i.to
              /\ i.bus = Null => i.timedelta = WaitTime
    BY <1>3, <1>5 DEF RouterInvariant, ItemsFollowEdges
  <1>8. \A i, j \in DOMAIN id_to_edge' : SamePair(id_to_edge'[i], id_to_edge'[j]) => i = j
    <2>1. \A i, j \in 1 .. n : SamePair(id_to_edge[i], id_to_edge[j]) => i = j
      BY <1>3 DEF RouterInvariant, ItemsFollowEdges
    <2>2. \A i \in 1 .. n : ~SamePair(id_to_edge[i], item) /\ ~SamePair(item, id_to_edge[i])
      BY <1>3 DEF SamePair
    <2>3. 1 .. n + 1 = (1 .. n) \cup {n + 1}
      OBVIOUS
    <2> QED
      BY <1>5, <2>1, <2>2, <2>3
  <1> QED
    BY <1>1, <1>4, <1>5, <1>6, <1>7, <1>8 DEF ItemsFollowEdges

\* Second loop of FillStopEdges: a wait at every stop (router.cpp:17-23).
LEMMA WaitAdded == RouterInvariant /\ AddWait => RouterInvariant'
  <1> SUFFICES ASSUME RouterInvariant, AddWait PROVE RouterInvariant'
    OBVIOUS
  <1> DEFINE ptr  == Min(pending)
             item == [from |-> ptr, to |-> ptr, bus |-> Null, stop_count |-> 0, timedelta |-> WaitTime]
  <1>1. /\ building = "waits" /\ pending # {} /\ UNCHANGED populateVars /\ building' = building
        /\ AddItem(item, WaitEdge(item)) /\ pending' = pending \ {ptr}
        /\ stop_to_transfer' = stop_to_transfer /\ edges' = edges /\ answer' = answer
    BY DEF AddWait
  <1>2. /\ PopulateInvariant' /\ db' = db /\ stage' = stage
        /\ GetStopsHolder(db)' = GetStopsHolder(db)
    BY <1>1, CatalogueKept
  <1>3. pending \subseteq GetStopsHolder(db) /\ GetStopsHolder(db) \subseteq StopPtr
    BY <1>1 DEF RouterInvariant, LoopsFollowCatalogue, PopulateInvariant, PopulateTypeOK, StopPtrs, StopPtr
  <1>4. ptr \in pending
    <2>1. pending \subseteq Nat
      BY <1>3 DEF StopPtr
    <2>2. \E m \in pending : \A n \in pending : m <= n
      BY <1>1, <2>1, LeastElement
    <2> QED
      BY <2>2 DEF Min
  <1> HIDE DEF ptr
  <1>5. item \in Item /\ EdgeOf(item) = WaitEdge(item)
    BY <1>3, <1>4, TransportRouterAssumption DEF Item, EdgeOf
  <1>6. \A id \in DOMAIN id_to_edge : ~SamePair(id_to_edge[id], item)
    <2> SUFFICES ASSUME NEW id \in DOMAIN id_to_edge, SamePair(id_to_edge[id], item)
                 PROVE  FALSE
      OBVIOUS
    <2>1. id_to_edge[id].from = ptr /\ id_to_edge[id].bus = Null
      BY DEF SamePair, RouterInvariant, ItemsFollowEdges
    <2>2. ptr \in WaitsAt(Range(id_to_edge))
      BY <2>1 DEF WaitsAt, Range
    <2> QED
      BY <1>1, <1>4, <2>2 DEF RouterInvariant, WaitsFollowStops
  <1>7. PICK new \in Item : new = item
    BY <1>5
  <1>8. /\ new.from = ptr /\ new.to = ptr /\ new.bus = Null /\ new.timedelta = WaitTime
        /\ AddItem(new, EdgeOf(new))
        /\ \A id \in DOMAIN id_to_edge : ~SamePair(id_to_edge[id], new)
    BY <1>1, <1>5, <1>6, <1>7
  <1> HIDE DEF item
  <1>9. /\ ItemsFollowEdges'
        /\ Range(id_to_edge)' = Range(id_to_edge) \cup {new}
        /\ DOMAIN graph'.incidence_lists = DOMAIN graph.incidence_lists
    BY <1>1, <1>3, <1>4, <1>8, ItemAdded
  <1>10. LoopsFollowCatalogue'
    BY <1>1, <1>2, <1>9 DEF RouterInvariant, LoopsFollowCatalogue
  <1>11. TransfersFollowStops'
    BY <1>1, <1>2 DEF RouterInvariant, TransfersFollowStops
  <1>12. WaitsFollowStops'
    <2>1. /\ WaitsAt(Range(id_to_edge)) = GetStopsHolder(db) \ pending
          /\ RidesOf(Range(id_to_edge)) = {}
      BY <1>1 DEF RouterInvariant, WaitsFollowStops
    <2>2. PICK waits : waits = Range(id_to_edge)
      OBVIOUS
    <2>3. /\ WaitsAt(waits \cup {new}) = WaitsAt(waits) \cup {ptr}
          /\ RidesOf(waits \cup {new}) = RidesOf(waits)
      BY <1>8 DEF WaitsAt, RidesOf
    <2>4. /\ WaitsAt(Range(id_to_edge))' = WaitsAt(Range(id_to_edge)) \cup {ptr}
          /\ RidesOf(Range(id_to_edge))' = RidesOf(Range(id_to_edge))
      BY <1>9, <2>2, <2>3 DEF WaitsAt, RidesOf
    <2> QED
      BY <1>1, <1>2, <1>3, <1>4, <2>1, <2>4 DEF WaitsFollowStops
  <1>13. CollectedFollowsLines' /\ RidesAreFastest'
    BY <1>1 DEF CollectedFollowsLines, RidesAreFastest
  <1> QED
    BY <1>2, <1>9, <1>10, <1>11, <1>12, <1>13 DEF RouterInvariant

\* The second loop of FillStopEdges is done.
LEMMA WaitsEnd == RouterInvariant /\ EndWaits => RouterInvariant'
  <1> SUFFICES ASSUME RouterInvariant, EndWaits PROVE RouterInvariant'
    OBVIOUS
  <1>1. /\ building = "waits" /\ pending = {} /\ building' = "lines"
        /\ pending' = GetBusesHolder(db) /\ UNCHANGED populateVars
        /\ stop_to_transfer' = stop_to_transfer /\ graph' = graph /\ id_to_edge' = id_to_edge
        /\ edges' = edges /\ answer' = answer
    BY DEF EndWaits
  <1>2. /\ PopulateInvariant' /\ db' = db /\ stage' = stage
        /\ GetStopsHolder(db)' = GetStopsHolder(db) /\ GetBusesHolder(db)' = GetBusesHolder(db)
        /\ \A ptrs : ItemsOfLines(ptrs)' = ItemsOfLines(ptrs)
    BY <1>1, CatalogueKept
  <1>3. /\ TransfersFollowStops' /\ ItemsFollowEdges'
        /\ DOMAIN graph'.incidence_lists = Vertices(2 * Len(db'.stops))
    BY <1>1, GraphKept
  <1>4. LoopsFollowCatalogue'
    BY <1>1, <1>2, <1>3 DEF RouterInvariant, LoopsFollowCatalogue
  <1>5. WaitsFollowStops'
    <2>1. /\ RidesOf(Range(id_to_edge)) = {}
          /\ WaitsAt(Range(id_to_edge)) = GetStopsHolder(db)
      BY <1>1 DEF RouterInvariant, WaitsFollowStops
    <2> QED
      BY <1>1, <1>2, <2>1 DEF WaitsFollowStops
  <1>6. CollectedFollowsLines'
    <2>1. edges' = << >>
      BY <1>1 DEF RouterInvariant, LoopsFollowCatalogue
    <2>2. GetBusesHolder(db) \ pending' = {}
      BY <1>1
    <2>3. Range(edges)' = {} /\ edges' \in Seq(Item) /\ ItemsOfLines({}) = {}
      BY <2>1 DEF Range, ItemsOfLines
    <2>4. ItemsOfLines(GetBusesHolder(db) \ pending)' = {}
      BY <1>1, <1>2, <2>2 DEF ItemsOfLines
    <2> QED
      BY <1>1, <1>2, <2>2, <2>3, <2>4 DEF CollectedFollowsLines
  <1>7. RidesAreFastest'
    BY <1>1 DEF RidesAreFastest
  <1> QED
    BY <1>2, <1>3, <1>4, <1>5, <1>6, <1>7 DEF RouterInvariant

\* One turn of the loop of CreateEdgesFromBusLines over the buses, or the exception of
\* stops_to_distance.at (router.cpp:55-70).
LEMMA LineEdgesCreated == RouterInvariant /\ CreateLineEdges => RouterInvariant'
  <1> SUFFICES ASSUME RouterInvariant, CreateLineEdges PROVE RouterInvariant'
    OBVIOUS
  <1>1. /\ building = "lines" /\ UNCHANGED populateVars
        /\ stop_to_transfer' = stop_to_transfer /\ graph' = graph /\ id_to_edge' = id_to_edge
        /\ answer' = answer
    BY DEF CreateLineEdges
  <1>2. PICK ptr \in pending :
          LET lines == Directions(db.buses[ptr])
          IN  \/ /\ building' = "failed" /\ edges' = edges /\ pending' = pending
              \/ /\ \A d \in DOMAIN lines : ~LineThrows(lines[d])
                 /\ edges' = edges \o FlattenSeq([d \in DOMAIN lines |-> LineEdges(lines[d], ptr)])
                 /\ pending' = pending \ {ptr} /\ building' = building
    BY DEF CreateLineEdges
  <1>3. building' \in {"lines", "failed"} /\ pending' \subseteq pending
    BY <1>1, <1>2
  <1>4. /\ PopulateInvariant' /\ db' = db /\ stage' = stage
        /\ GetStopsHolder(db)' = GetStopsHolder(db) /\ GetBusesHolder(db)' = GetBusesHolder(db)
        /\ \A ptrs : ItemsOfLines(ptrs)' = ItemsOfLines(ptrs)
        /\ \A stops : LineThrows(stops)' <=> LineThrows(stops)
    BY <1>1, CatalogueKept
  <1>5. /\ TransfersFollowStops' /\ ItemsFollowEdges'
        /\ DOMAIN graph'.incidence_lists = Vertices(2 * Len(db'.stops))
    BY <1>1, <1>3, GraphKept
  <1>6. stage = "populated" /\ pending \subseteq GetBusesHolder(db) /\ ptr \in GetBusesHolder(db)
    BY <1>1, <1>2 DEF RouterInvariant, LoopsFollowCatalogue
  <1>7. LoopsFollowCatalogue'
    BY <1>1, <1>3, <1>4, <1>5, <1>6 DEF RouterInvariant, LoopsFollowCatalogue
  <1>8. WaitsFollowStops'
    <2>1. /\ RidesOf(Range(id_to_edge)) = {}
          /\ WaitsAt(Range(id_to_edge)) = GetStopsHolder(db)
      BY <1>1 DEF RouterInvariant, WaitsFollowStops
    <2> QED
      BY <1>1, <1>3, <1>4, <2>1 DEF WaitsFollowStops
  <1>9. CollectedFollowsLines'
    <2>1. SUFFICES ASSUME building' = "lines" PROVE CollectedFollowsLines'
      BY DEF CollectedFollowsLines
    <2>2. PICK lines : lines = Directions(db.buses[ptr])
      OBVIOUS
    <2>3. PICK found : found = FlattenSeq([d \in DOMAIN lines |-> LineEdges(lines[d], ptr)])
      OBVIOUS
    <2>4. /\ \A d \in DOMAIN lines : ~LineThrows(lines[d])
          /\ edges' = edges \o found /\ pending' = pending \ {ptr}
      BY <1>2, <2>1, <2>2, <2>3
    <2>5. found \in Seq(Item) /\ Range(found) = LineItems(ptr)
      BY <1>6, <2>2, <2>3, <2>4, BusEdgesCollected DEF RouterInvariant
    <2>6. /\ edges \in Seq(Item)
          /\ Range(edges) = ItemsOfLines(GetBusesHolder(db) \ pending)
          /\ \A p \in GetBusesHolder(db) \ pending :
                \A stops \in Range(Directions(db.buses[p])) : ~LineThrows(stops)
      BY <1>1 DEF RouterInvariant, CollectedFollowsLines
    <2>7. edges' \in Seq(Item) /\ Range(edges)' = Range(edges) \cup LineItems(ptr)
      <3>1. PICK s \in Seq(Item) : s = edges
        BY <2>6
      <3>2. PICK t \in Seq(Item) : t = found
        BY <2>5
      <3>3. s \o t \in Seq(Item) /\ Range(s \o t) = Range(s) \cup Range(t)
        BY Concatenated
      <3>4. Range(edges)' = Range(s \o t)
        BY <2>4, <3>1, <3>2 DEF Range
      <3> QED
        BY <2>4, <2>5, <3>1, <3>2, <3>3, <3>4
    <2>8. GetBusesHolder(db) \ pending' = (GetBusesHolder(db) \ pending) \cup {ptr}
      BY <1>6, <2>4
    <2>9. ItemsOfLines(GetBusesHolder(db) \ pending') =
            ItemsOfLines(GetBusesHolder(db) \ pending) \cup LineItems(ptr)
      BY <2>8 DEF ItemsOfLines
    <2>10. ItemsOfLines(GetBusesHolder(db) \ pending)' = ItemsOfLines(GetBusesHolder(db) \ pending')
      <3>1. PICK ptrs : ptrs = GetBusesHolder(db) \ pending'
        OBVIOUS
      <3>2. ItemsOfLines(ptrs)' = ItemsOfLines(ptrs)
        BY <1>4
      <3> QED
        BY <1>4, <3>1, <3>2 DEF ItemsOfLines
    <2>11. \A stops \in Range(Directions(db.buses[ptr])) : ~LineThrows(stops)
      BY <2>2, <2>4 DEF Range
    <2> QED
      BY <1>4, <2>6, <2>7, <2>8, <2>9, <2>10, <2>11 DEF CollectedFollowsLines
  <1>10. RidesAreFastest'
    BY <1>3 DEF RidesAreFastest
  <1> QED
    BY <1>4, <1>5, <1>7, <1>8, <1>9, <1>10 DEF RouterInvariant

\* In every set of places of a finite sequence of times there is the first of the
\* least.
LEMMA FirstOfLeast ==
    ASSUME NEW n \in Nat, NEW P, P \subseteq 1 .. n, P # {},
           NEW time, \A i \in P : time[i] \in Int
    PROVE  \E i \in P : \A j \in P : time[i] < time[j] \/ (time[i] = time[j] /\ i <= j)
  <1> DEFINE First(i, m) == \A j \in P \cap (1 .. m) :
                                time[i] < time[j] \/ (time[i] = time[j] /\ i <= j)
             S == {m \in Nat : P \cap (1 .. m) = {} \/ \E i \in P \cap (1 .. m) : First(i, m)}
  <1>1. 0 \in S
    OBVIOUS
  <1>2. ASSUME NEW m \in Nat, m \in S
        PROVE  m + 1 \in S
    <2>1. PICK k \in Nat : k = m + 1
      OBVIOUS
    <2>2. 1 .. k = (1 .. m) \cup {k} /\ k \notin 1 .. m /\ \A i \in 1 .. m : i < k
      BY <2>1
    <2>3. CASE k \notin P
      <3>1. P \cap (1 .. k) = P \cap (1 .. m)
        BY <2>2, <2>3
      <3> QED
        BY <1>2, <2>1, <3>1
    <2>4. CASE k \in P
      <3>1. P \cap (1 .. k) = (P \cap (1 .. m)) \cup {k}
        BY <2>2, <2>4
      <3>2. time[k] \in Int
        BY <2>4
      <3>3. CASE P \cap (1 .. m) = {}
        <4>1. First(k, k)
          BY <3>1, <3>3
        <4> QED
          BY <2>1, <2>4, <3>1, <4>1
      <3>4. ASSUME NEW i \in P \cap (1 .. m), First(i, m)
            PROVE  \E h \in P \cap (1 .. k) : First(h, k)
        <4>1. time[i] \in Int /\ i < k
          BY <2>2
        <4>2. CASE time[i] <= time[k]
          <5>1. First(i, k)
            BY <3>1, <3>2, <3>4, <4>1, <4>2
          <5> QED
            BY <3>1, <5>1
        <4>3. CASE time[k] < time[i]
          <5>1. First(k, k)
            <6> SUFFICES ASSUME NEW j \in P \cap (1 .. m) PROVE time[k] < time[j]
              BY <3>1
            <6>1. time[i] <= time[j] /\ time[j] \in Int
              BY <3>4, <4>1
            <6> QED
              BY <3>2, <4>1, <4>3, <6>1
          <5> QED
            BY <3>1, <5>1
        <4> QED
          BY <3>2, <4>1, <4>2, <4>3
      <3> QED
        BY <1>2, <2>1, <3>3, <3>4
    <2> QED
      BY <2>3, <2>4
  <1> HIDE DEF S
  <1>3. n \in S
    BY <1>1, <1>2, SetInduction
  <1>4. P \cap (1 .. n) = P
    OBVIOUS
  <1> QED
    BY <1>3, <1>4 DEF S

\* First loop of FillBusEdges: of the rides between two stops the first of the fastest
\* is kept (router.cpp:76-86).
LEMMA FastestKept == RouterInvariant /\ KeepFastest => RouterInvariant'
  <1> SUFFICES ASSUME RouterInvariant, KeepFastest PROVE RouterInvariant'
    OBVIOUS
  <1>1. /\ building = "lines" /\ pending = {} /\ edges' = << >> /\ UNCHANGED populateVars
        /\ stop_to_transfer' = stop_to_transfer /\ graph' = graph /\ id_to_edge' = id_to_edge
        /\ answer' = answer
        /\ \/ building' = "failed" /\ pending' = pending
           \/ /\ building' = "rides"
              /\ pending' = {edges[n] : n \in {m \in DOMAIN edges : Kept(m)}}
    BY DEF KeepFastest
  <1>2. /\ PopulateInvariant' /\ db' = db /\ stage' = stage
        /\ GetStopsHolder(db)' = GetStopsHolder(db) /\ GetBusesHolder(db)' = GetBusesHolder(db)
        /\ \A ptrs : ItemsOfLines(ptrs)' = ItemsOfLines(ptrs)
        /\ \A stops : LineThrows(stops)' <=> LineThrows(stops)
    BY <1>1, CatalogueKept
  <1>3. /\ TransfersFollowStops' /\ ItemsFollowEdges'
        /\ DOMAIN graph'.incidence_lists = Vertices(2 * Len(db'.stops))
    BY <1>1, GraphKept
  <1>4. LoopsFollowCatalogue'
    BY <1>1, <1>2, <1>3 DEF RouterInvariant, LoopsFollowCatalogue
  <1>5. /\ RidesOf(Range(id_to_edge)) = {}
        /\ WaitsAt(Range(id_to_edge)) = GetStopsHolder(db)
    BY <1>1 DEF RouterInvariant, WaitsFollowStops
  <1>6. WaitsFollowStops'
    BY <1>1, <1>2, <1>5 DEF WaitsFollowStops
  <1>7. CollectedFollowsLines'
    BY <1>1 DEF CollectedFollowsLines
  <1>8. RidesAreFastest'
    <2>1. SUFFICES ASSUME building' = "rides" PROVE RidesAreFastest'
      BY <1>1 DEF RidesAreFastest
    <2>2. PICK lines : lines = ItemsOfLines(GetBusesHolder(db))
      OBVIOUS
    <2>3. PICK kept : kept = {edges[n] : n \in {m \in DOMAIN edges : Kept(m)}}
      OBVIOUS
    <2>4. /\ edges \in Seq(Item) /\ Range(edges) = lines
          /\ \A ptr \in GetBusesHolder(db) :
                \A stops \in Range(Directions(db.buses[ptr])) : ~LineThrows(stops)
      <3>1. GetBusesHolder(db) \ pending = GetBusesHolder(db)
        BY <1>1
      <3> QED
        BY <1>1, <2>2, <3>1 DEF RouterInvariant, CollectedFollowsLines
    <2>5. PICK n \in Nat : n = Len(edges) /\ DOMAIN edges = 1 .. n
      BY <2>4
    <2>6. \A i \in 1 .. n : edges[i] \in Item /\ edges[i].timedelta \in Int /\ edges[i] \in lines
      <3>1. \A i \in 1 .. n : edges[i] \in Item /\ edges[i] \in Range(edges)
        BY <2>4, <2>5 DEF Range
      <3> QED
        BY <2>4, <3>1 DEF Item
    <2>7. \A item \in lines : \E i \in 1 .. n : item = edges[i]
      BY <2>4, <2>5 DEF Range
    <2>8. \A ride \in kept : \E i \in 1 .. n : ride = edges[i] /\ Kept(i)
      BY <2>3, <2>5
    <2>9. kept \subseteq lines
      BY <2>6, <2>8
    <2>10. ASSUME NEW ride \in kept, NEW item \in lines, SamePair(ride, item)
           PROVE  ride.timedelta <= item.timedelta
      <3>1. PICK i \in 1 .. n : ride = edges[i] /\ Kept(i)
        BY <2>8
      <3>2. PICK j \in 1 .. n : item = edges[j]
        BY <2>7
      <3>3. SamePair(edges[j], edges[i])
        BY <2>10, <3>1, <3>2 DEF SamePair
      <3> QED
        BY <2>5, <2>6, <3>1, <3>2, <3>3 DEF Kept
    <2>11. ASSUME NEW item \in lines
           PROVE  \E ride \in kept : SamePair(ride, item)
      <3>1. PICK P : P = {i \in 1 .. n : SamePair(edges[i], item)}
        OBVIOUS
      <3>2. P # {} /\ P \subseteq 1 .. n
        BY <2>7, <3>1 DEF SamePair
      <3>3. PICK time : time = [i \in 1 .. n |-> edges[i].timedelta]
        OBVIOUS
      <3>4. \A i \in P : time[i] \in Int
        BY <2>6, <3>2, <3>3
      <3>5. PICK i \in P : \A j \in P : time[i] < time[j] \/ (time[i] = time[j] /\ i <= j)
        BY <3>2, <3>4, FirstOfLeast
      <3>6. Kept(i)
        <4> SUFFICES ASSUME NEW m \in 1 .. n, SamePair(edges[m], edges[i])
                     PROVE  \/ edges[i].timedelta < edges[m].timedelta
                            \/ edges[i].timedelta = edges[m].timedelta /\ i <= m
          BY <2>5 DEF Kept
        <4>1. m \in P
          BY <3>1, <3>5 DEF SamePair
        <4> QED
          BY <3>2, <3>3, <3>5, <4>1
      <3>7. edges[i] \in kept /\ SamePair(edges[i], item)
        BY <2>3, <2>5, <3>1, <3>6
      <3> QED
        BY <3>7
    <2>12. ASSUME NEW ride \in kept, NEW other \in kept, SamePair(ride, other)
           PROVE  ride = other
      <3>1. PICK i \in 1 .. n : ride = edges[i] /\ Kept(i)
        BY <2>8
      <3>2. PICK j \in 1 .. n : other = edges[j] /\ Kept(j)
        BY <2>8
      <3>3. SamePair(edges[i], edges[j]) /\ SamePair(edges[j], edges[i])
        BY <2>12, <3>1, <3>2 DEF SamePair
      <3>4. edges[i].timedelta \in Int /\ edges[j].timedelta \in Int
        BY <2>6
      <3>5. i <= j /\ j <= i
        BY <2>5, <3>1, <3>2, <3>3, <3>4 DEF Kept
      <3> QED
        BY <3>1, <3>2, <3>5
    <2>13. kept \cap Range(id_to_edge) = {}
      <3> SUFFICES ASSUME NEW ride \in kept, ride \in Range(id_to_edge)
                   PROVE  FALSE
        OBVIOUS
      <3>1. ride.bus # Null
        <4>1. PICK ptr \in GetBusesHolder(db) : ride \in LineItems(ptr)
          BY <2>2, <2>9 DEF ItemsOfLines
        <4>2. ride.bus = ptr
          BY <4>1 DEF LineItems, LineEdge
        <4> QED
          BY <4>2 DEF GetBusesHolder
      <3> QED
        BY <1>5, <3>1 DEF RidesOf
    <2>14. pending' = kept /\ RidesOf(Range(id_to_edge))' = {}
      <3>1. RidesOf(Range(id_to_edge))' = RidesOf(Range(id_to_edge))
        BY <1>1 DEF RidesOf, Range
      <3> QED
        BY <1>1, <1>5, <2>1, <2>3, <3>1
    <2>15. ItemsOfLines(GetBusesHolder(db))' = lines
      <3>1. PICK ptrs : ptrs = GetBusesHolder(db)
        OBVIOUS
      <3>2. ItemsOfLines(ptrs)' = ItemsOfLines(ptrs)
        BY <1>2
      <3> QED
        BY <1>2, <2>2, <3>1, <3>2 DEF ItemsOfLines
    <2>16. kept \cap Range(id_to_edge)' = {} /\ pending' \cup RidesOf(Range(id_to_edge))' = kept
      BY <1>1, <2>13, <2>14
    <2> QED
      BY <1>2, <2>4, <2>9, <2>10, <2>11, <2>12, <2>14, <2>15, <2>16 DEF RidesAreFastest
  <1> QED
    BY <1>2, <1>3, <1>4, <1>6, <1>7, <1>8 DEF RouterInvariant

\* What is collected along a line is a ride between two stops.
LEMMA RideShape ==
    ASSUME PopulateInvariant, stage = "populated",
           \A ptr \in GetBusesHolder(db) :
                \A stops \in Range(Directions(db.buses[ptr])) : ~LineThrows(stops),
           NEW item \in ItemsOfLines(GetBusesHolder(db))
    PROVE  /\ item \in Item /\ item.bus \in GetBusesHolder(db) /\ item.bus # Null
           /\ item.from \in GetStopsHolder(db) /\ item.to \in GetStopsHolder(db)
           /\ item.from # item.to
  <1>1. PICK ptr \in GetBusesHolder(db) : item \in LineItems(ptr)
    BY DEF ItemsOfLines
  <1>2. PICK stops \in Range(Directions(db.buses[ptr])) :
          \E from \in DOMAIN stops : \E to \in Destinations(stops, from) :
                item = LineEdge(stops, ptr, from, to)
    BY <1>1, LineItemsAre
  <1>3. stops \in Seq(GetStopsHolder(db)) /\ ~LineThrows(stops)
    <2>1. PICK S : S = GetStopsHolder(db)
      OBVIOUS
    <2>2. PICK lines : lines = Directions(db.buses[ptr])
      OBVIOUS
    <2>3. lines \in Seq(Seq(S))
      BY <2>1, <2>2, LinesOf
    <2>4. PICK d \in DOMAIN lines : stops = lines[d]
      BY <2>2 DEF Range
    <2>5. stops \in Seq(S)
      BY <2>3, <2>4
    <2> QED
      BY <2>1, <2>5
  <1>4. PICK from \in DOMAIN stops : \E to \in Destinations(stops, from) :
            item = LineEdge(stops, ptr, from, to)
    BY <1>2
  <1>5. PICK to \in Destinations(stops, from) : item = LineEdge(stops, ptr, from, to)
    BY <1>4
  <1>6. ptr \in BusPtr /\ ptr # Null /\ PopulateTypeOK
    BY LineStops DEF PopulateInvariant
  <1>7. LET ride == LineEdge(stops, ptr, from, to)
        IN  /\ ride \in Item
            /\ ride.from \in GetStopsHolder(db) /\ ride.to \in GetStopsHolder(db)
            /\ ride.from # ride.to /\ ride.bus = ptr
    BY <1>3, <1>6, LineEdgeType
  <1> QED
    BY <1>5, <1>6, <1>7

\* Second loop of FillBusEdges (router.cpp:88-93).
LEMMA RideAdded == RouterInvariant /\ AddRide => RouterInvariant'
  <1> SUFFICES ASSUME RouterInvariant, AddRide PROVE RouterInvariant'
    OBVIOUS
  <1>1. PICK item \in pending : AddItem(item, RideEdge(item)) /\ pending' = pending \ {item}
    BY DEF AddRide
  <1>2. /\ building = "rides" /\ UNCHANGED populateVars /\ building' = building
        /\ stop_to_transfer' = stop_to_transfer /\ edges' = edges /\ answer' = answer
    BY DEF AddRide
  <1>3. /\ PopulateInvariant' /\ db' = db /\ stage' = stage
        /\ GetStopsHolder(db)' = GetStopsHolder(db) /\ GetBusesHolder(db)' = GetBusesHolder(db)
        /\ \A ptrs : ItemsOfLines(ptrs)' = ItemsOfLines(ptrs)
        /\ \A stops : LineThrows(stops)' <=> LineThrows(stops)
    BY <1>2, CatalogueKept
  <1>4. PICK lines : lines = ItemsOfLines(GetBusesHolder(db))
    OBVIOUS
  <1>5. PICK rides : rides = pending \cup RidesOf(Range(id_to_edge))
    OBVIOUS
  <1>6. /\ rides \subseteq lines
        /\ \A ride \in rides : \A other \in lines :
                SamePair(ride, other) => ride.timedelta <= other.timedelta
        /\ \A other \in lines : \E ride \in rides : SamePair(ride, other)
        /\ \A ride, other \in rides : SamePair(ride, other) => ride = other
        /\ pending \cap Range(id_to_edge) = {}
        /\ \A ptr \in GetBusesHolder(db) :
            \A stops \in Range(Directions(db.buses[ptr])) : ~LineThrows(stops)
    BY <1>2, <1>4, <1>5 DEF RouterInvariant, RidesAreFastest
  <1>7. /\ item \in Item /\ item.bus # Null
        /\ item.from \in GetStopsHolder(db) /\ item.to \in GetStopsHolder(db)
        /\ item.from # item.to
    <2>1. stage = "populated" /\ item \in lines
      BY <1>2, <1>5, <1>6 DEF RouterInvariant, LoopsFollowCatalogue
    <2> QED
      BY <1>4, <1>6, <2>1, RideShape DEF RouterInvariant
  <1>8. \A id \in DOMAIN id_to_edge : ~SamePair(id_to_edge[id], item)
    <2> SUFFICES ASSUME NEW id \in DOMAIN id_to_edge, SamePair(id_to_edge[id], item)
                 PROVE  FALSE
      OBVIOUS
    <2>1. id_to_edge[id].bus # Null
      BY <1>7 DEF SamePair, RouterInvariant, ItemsFollowEdges
    <2>2. id_to_edge[id] \in Range(id_to_edge) /\ id_to_edge[id] \in rides /\ item \in rides
      BY <1>5, <2>1 DEF RidesOf, Range
    <2> QED
      BY <1>6, <2>2
  <1>9. /\ ItemsFollowEdges'
        /\ Range(id_to_edge)' = Range(id_to_edge) \cup {item}
        /\ DOMAIN graph'.incidence_lists = DOMAIN graph.incidence_lists
    <2>1. AddItem(item, EdgeOf(item))
      BY <1>1, <1>7 DEF EdgeOf
    <2> QED
      BY <1>2, <1>7, <1>8, <2>1, ItemAdded
  <1>10. LoopsFollowCatalogue'
    BY <1>2, <1>3, <1>9 DEF RouterInvariant, LoopsFollowCatalogue
  <1>11. TransfersFollowStops'
    BY <1>2, <1>3 DEF RouterInvariant, TransfersFollowStops
  <1>12. PICK old : old = Range(id_to_edge)
    OBVIOUS
  <1>13. /\ WaitsAt(old \cup {item}) = WaitsAt(old)
         /\ RidesOf(old \cup {item}) = RidesOf(old) \cup {item}
    BY <1>7 DEF WaitsAt, RidesOf
  <1>14. /\ WaitsAt(Range(id_to_edge))' = WaitsAt(old)
         /\ RidesOf(Range(id_to_edge))' = RidesOf(old) \cup {item}
    BY <1>9, <1>12, <1>13 DEF WaitsAt, RidesOf
  <1>15. WaitsFollowStops'
    BY <1>2, <1>3, <1>12, <1>14 DEF RouterInvariant, WaitsFollowStops
  <1>16. CollectedFollowsLines'
    BY <1>2 DEF CollectedFollowsLines
  <1>17. RidesAreFastest'
    <2>1. pending' \cup RidesOf(Range(id_to_edge))' = rides
      BY <1>1, <1>5, <1>12, <1>14
    <2>2. ItemsOfLines(GetBusesHolder(db))' = lines
      <3>1. PICK ptrs : ptrs = GetBusesHolder(db)
        OBVIOUS
      <3>2. ItemsOfLines(ptrs)' = ItemsOfLines(ptrs)
        BY <1>3
      <3> QED
        BY <1>3, <1>4, <3>1, <3>2 DEF ItemsOfLines
    <2>3. pending' \cap Range(id_to_edge)' = {}
      BY <1>1, <1>6, <1>9
    <2> QED
      BY <1>3, <1>6, <2>1, <2>2, <2>3 DEF RidesAreFastest
  <1> QED
    BY <1>3, <1>9, <1>10, <1>11, <1>15, <1>16, <1>17 DEF RouterInvariant

\* Nothing is said of a graph beyond what its loops have made of it.
LEMMA RidesKept ==
    ASSUME RouterInvariant, UNCHANGED populateVars, id_to_edge' = id_to_edge, pending' = pending,
           building \in {"rides", "ready"} \/ building' \notin {"rides", "ready"}
    PROVE  RidesAreFastest'
  <1>1. /\ db' = db /\ GetBusesHolder(db)' = GetBusesHolder(db)
        /\ \A ptrs : ItemsOfLines(ptrs)' = ItemsOfLines(ptrs)
        /\ \A stops : LineThrows(stops)' <=> LineThrows(stops)
    BY CatalogueKept
  <1>2. Range(id_to_edge)' = Range(id_to_edge)
    BY DEF Range
  <1>3. RidesOf(Range(id_to_edge))' = RidesOf(Range(id_to_edge))
    BY <1>2 DEF RidesOf
  <1>4. ItemsOfLines(GetBusesHolder(db))' = ItemsOfLines(GetBusesHolder(db))
    <2>1. PICK ptrs : ptrs = GetBusesHolder(db)
      OBVIOUS
    <2>2. ItemsOfLines(ptrs)' = ItemsOfLines(ptrs)
      BY <1>1
    <2> QED
      BY <1>1, <2>1, <2>2 DEF ItemsOfLines
  <1> QED
    BY <1>1, <1>2, <1>3, <1>4 DEF RouterInvariant, RidesAreFastest

\* Waits stay while no item is added.
LEMMA WaitsKept ==
    ASSUME RouterInvariant, UNCHANGED populateVars, id_to_edge' = id_to_edge,
           building \in {"rides", "ready"}, building' \in {"rides", "ready", "failed"}
    PROVE  WaitsFollowStops'
  <1>1. GetStopsHolder(db)' = GetStopsHolder(db)
    BY CatalogueKept
  <1>2. WaitsAt(Range(id_to_edge))' = WaitsAt(Range(id_to_edge))
    BY DEF WaitsAt, Range
  <1>3. WaitsAt(Range(id_to_edge)) = GetStopsHolder(db)
    BY DEF RouterInvariant, WaitsFollowStops
  <1> QED
    BY <1>1, <1>2, <1>3 DEF WaitsFollowStops

\* graph::Router returns or throws.
LEMMA RouterMade == RouterInvariant /\ MakeRouter => RouterInvariant'
  <1> SUFFICES ASSUME RouterInvariant, MakeRouter PROVE RouterInvariant'
    OBVIOUS
  <1>1. /\ building = "rides" /\ pending = {} /\ building' \in {"ready", "failed"}
        /\ UNCHANGED populateVars /\ pending' = pending
        /\ stop_to_transfer' = stop_to_transfer /\ graph' = graph /\ id_to_edge' = id_to_edge
        /\ edges' = edges /\ answer' = answer
    BY DEF MakeRouter
  <1>2. /\ PopulateInvariant' /\ db' = db /\ stage' = stage
        /\ GetStopsHolder(db)' = GetStopsHolder(db) /\ GetBusesHolder(db)' = GetBusesHolder(db)
    BY <1>1, CatalogueKept
  <1>3. TransfersFollowStops' /\ ItemsFollowEdges'
    BY <1>1, GraphKept
  <1>4. LoopsFollowCatalogue'
    BY <1>1, <1>2 DEF RouterInvariant, LoopsFollowCatalogue
  <1>5. WaitsFollowStops'
    BY <1>1, WaitsKept
  <1>6. CollectedFollowsLines'
    BY <1>1 DEF CollectedFollowsLines
  <1>7. RidesAreFastest'
    BY <1>1, RidesKept
  <1> QED
    BY <1>2, <1>3, <1>4, <1>5, <1>6, <1>7 DEF RouterInvariant

\* A route request changes nothing but the answer.
LEMMA RouteGot ==
    ASSUME RouterInvariant, NEW start, NEW finish, GetRoute(start, finish)
    PROVE  RouterInvariant'
  <1>1. /\ building = "ready" /\ building' = building
        /\ UNCHANGED populateVars /\ pending' = pending
        /\ stop_to_transfer' = stop_to_transfer /\ graph' = graph /\ id_to_edge' = id_to_edge
        /\ edges' = edges /\ DOMAIN answer' = {"start", "finish", "route"}
    BY DEF GetRoute
  <1>2. /\ PopulateInvariant' /\ db' = db /\ stage' = stage
        /\ GetStopsHolder(db)' = GetStopsHolder(db) /\ GetBusesHolder(db)' = GetBusesHolder(db)
    BY <1>1, CatalogueKept
  <1>3. TransfersFollowStops' /\ ItemsFollowEdges'
    BY <1>1, GraphKept
  <1>4. LoopsFollowCatalogue'
    BY <1>1, <1>2 DEF RouterInvariant, LoopsFollowCatalogue
  <1>5. WaitsFollowStops'
    BY <1>1, WaitsKept
  <1>6. CollectedFollowsLines'
    BY <1>1 DEF CollectedFollowsLines
  <1>7. RidesAreFastest'
    BY <1>1, RidesKept
  <1> QED
    BY <1>2, <1>3, <1>4, <1>5, <1>6, <1>7 DEF RouterInvariant

\* Before Populate there is nothing.
LEMMA NothingBuilt == Init => RouterInvariant
  <1> SUFFICES ASSUME Init PROVE RouterInvariant
    OBVIOUS
  <1>1. PopulateInvariant
    BY InitHolds DEF Init
  <1>2. LoopsFollowCatalogue
    BY DEF Init, LoopsFollowCatalogue, EmptyGraph, Vertices
  <1>3. TransfersFollowStops
    BY DEF Init, TransfersFollowStops
  <1>4. ItemsFollowEdges /\ WaitsFollowStops
    BY DEF Init, ItemsFollowEdges, WaitsFollowStops, EmptyGraph
  <1>5. CollectedFollowsLines /\ RidesAreFastest
    BY DEF Init, CollectedFollowsLines, RidesAreFastest
  <1> QED
    BY <1>1, <1>2, <1>3, <1>4, <1>5 DEF RouterInvariant

\* No step breaks the invariant.
LEMMA RouterStep == RouterInvariant /\ [Next]_vars => RouterInvariant'
  <1> SUFFICES ASSUME RouterInvariant, [Next]_vars PROVE RouterInvariant'
    OBVIOUS
  <1>1. CASE PopulateNext /\ UNCHANGED routerVars
    BY <1>1, PopulateContinues
  <1>2. CASE RouterNext
    BY <1>2, RouterStarted, TransferAdded, TransfersEnd, WaitAdded, WaitsEnd, LineEdgesCreated,
       FastestKept, RideAdded, RouterMade DEF RouterNext
  <1>3. CASE \E start, finish \in StopName : GetRoute(start, finish)
    BY <1>3, RouteGot
  <1>4. CASE UNCHANGED vars
    <2>1. /\ UNCHANGED populateVars /\ building' = building /\ pending' = pending
          /\ stop_to_transfer' = stop_to_transfer /\ graph' = graph /\ id_to_edge' = id_to_edge
          /\ edges' = edges /\ answer' = answer
      BY <1>4 DEF vars, routerVars
    <2>2. /\ PopulateInvariant' /\ db' = db /\ stage' = stage
          /\ GetStopsHolder(db)' = GetStopsHolder(db) /\ GetBusesHolder(db)' = GetBusesHolder(db)
      BY <2>1, CatalogueKept
    <2>3. LoopsFollowCatalogue' /\ TransfersFollowStops'
      BY <2>1, <2>2 DEF RouterInvariant, LoopsFollowCatalogue, TransfersFollowStops
    <2>4. ItemsFollowEdges'
      <3>1. \A item : EdgeOf(item)' = EdgeOf(item)
        BY <2>1 DEF EdgeOf, WaitEdge, RideEdge
      <3> QED
        BY <2>1, <2>2, <3>1 DEF RouterInvariant, ItemsFollowEdges
    <2>5. WaitsFollowStops'
      <3>1. /\ WaitsAt(Range(id_to_edge))' = WaitsAt(Range(id_to_edge))
            /\ RidesOf(Range(id_to_edge))' = RidesOf(Range(id_to_edge))
        BY <2>1 DEF WaitsAt, RidesOf, Range
      <3> QED
        BY <2>1, <2>2, <3>1 DEF RouterInvariant, WaitsFollowStops
    <2>6. CollectedFollowsLines'
      BY <2>1, CollectedKept
    <2>7. RidesAreFastest'
      BY <2>1, RidesKept
    <2> QED
      BY <2>2, <2>3, <2>4, <2>5, <2>6, <2>7 DEF RouterInvariant
  <1> QED
    BY <1>1, <1>2, <1>3, <1>4 DEF Next

\* At every step of the constructor its graph, its items and its collected edges are
\* what the stops and lines of the catalogue make them (router.cpp:10-94).
THEOREM RouterInvariance == Spec => []RouterInvariant
  BY NothingBuilt, RouterStep, PTL DEF Spec

-----------------------------------------------------------------------------
(* What the invariant says of the graph that has been built. *)

\* The vertices of a stop are among those of the graph, and they are its own.
LEMMA VerticesFit ==
    ASSUME RouterInvariant, NEW s \in DOMAIN stop_to_transfer
    PROVE  /\ stop_to_transfer[s].first \in 0 .. 2 * Len(db.stops) - 1
           /\ stop_to_transfer[s].second \in 0 .. 2 * Len(db.stops) - 1
           /\ stop_to_transfer[s].first # stop_to_transfer[s].second
           /\ \A t \in DOMAIN stop_to_transfer : s # t =>
                {stop_to_transfer[s].first, stop_to_transfer[s].second} \cap
                {stop_to_transfer[t].first, stop_to_transfer[t].second} = {}
  <1>1. PICK n : n = Cardinality(DOMAIN stop_to_transfer)
    OBVIOUS
  <1>2. n \in Nat /\ n <= Len(db.stops) /\ Len(db.stops) \in Nat
    BY <1>1, StopsFit DEF RouterInvariant, PopulateInvariant, TransfersFollowStops
  <1>3. \A t \in DOMAIN stop_to_transfer : \E k \in 0 .. n - 1 :
            stop_to_transfer[t].first = 2 * k + 1 /\ stop_to_transfer[t].second = 2 * k
            /\ stop_to_transfer[t] = Transfer(2 * k)
    BY <1>1 DEF RouterInvariant, TransfersFollowStops, Transfer
  <1>4. PICK k \in 0 .. n - 1 :
            stop_to_transfer[s].first = 2 * k + 1 /\ stop_to_transfer[s].second = 2 * k
            /\ stop_to_transfer[s] = Transfer(2 * k)
    BY <1>3
  <1>5. ASSUME NEW t \in DOMAIN stop_to_transfer, s # t
        PROVE  {stop_to_transfer[s].first, stop_to_transfer[s].second} \cap
               {stop_to_transfer[t].first, stop_to_transfer[t].second} = {}
    <2>1. PICK m \in 0 .. n - 1 :
              stop_to_transfer[t].first = 2 * m + 1 /\ stop_to_transfer[t].second = 2 * m
              /\ stop_to_transfer[t] = Transfer(2 * m)
      BY <1>3
    <2>2. stop_to_transfer[s] # stop_to_transfer[t]
      BY <1>5 DEF RouterInvariant, TransfersFollowStops
    <2>3. k # m
      BY <1>4, <2>1, <2>2
    <2>4. /\ 2 * k + 1 # 2 * m + 1 /\ 2 * k + 1 # 2 * m
          /\ 2 * k # 2 * m + 1 /\ 2 * k # 2 * m
      BY <1>2, <2>3
    <2> QED
      BY <1>4, <2>1, <2>4
  <1> QED
    BY <1>2, <1>4, <1>5

\* An edge joins the vertices of the stops of its item.
LEMMA EdgeIsOfItem ==
    ASSUME RouterInvariant, NEW id \in DOMAIN graph.edges
    PROVE  LET edge == graph.edges[id]
               item == id_to_edge[id]
           IN  /\ DOMAIN graph.edges = DOMAIN id_to_edge /\ item \in Item
               /\ DOMAIN stop_to_transfer = GetStopsHolder(db)
               /\ item.from \in GetStopsHolder(db) /\ item.to \in GetStopsHolder(db)
               /\ edge.weight = item.timedelta
               /\ IF item.bus = Null
                  THEN /\ item.from = item.to /\ item.timedelta = WaitTime
                       /\ edge.from = stop_to_transfer[item.from].second
                       /\ edge.to = stop_to_transfer[item.to].first
                  ELSE /\ item.from # item.to
                       /\ edge.from = stop_to_transfer[item.from].first
                       /\ edge.to = stop_to_transfer[item.to].second
               /\ {edge.from, edge.to} \subseteq 0 .. 2 * Len(db.stops) - 1
  <1>1. PICK item : item = id_to_edge[id]
    OBVIOUS
  <1>2. /\ DOMAIN graph.edges = DOMAIN id_to_edge /\ graph.edges[id] = EdgeOf(item)
        /\ item \in Item
        /\ item.from \in GetStopsHolder(db) /\ item.to \in GetStopsHolder(db)
        /\ item.bus = Null <=> item.from = item.to
        /\ item.bus = Null => item.timedelta = WaitTime
    BY <1>1 DEF RouterInvariant, ItemsFollowEdges
  <1>3. id_to_edge # << >>
    BY <1>2
  <1>4. DOMAIN stop_to_transfer = GetStopsHolder(db)
    BY <1>3 DEF RouterInvariant, LoopsFollowCatalogue, TransfersFollowStops
  <1>5. PICK edge : edge = EdgeOf(item)
    OBVIOUS
  <1>6. /\ edge.weight = item.timedelta
        /\ item.bus = Null => /\ edge.from = stop_to_transfer[item.from].second
                              /\ edge.to = stop_to_transfer[item.to].first
        /\ item.bus # Null => /\ edge.from = stop_to_transfer[item.from].first
                              /\ edge.to = stop_to_transfer[item.to].second
    BY <1>5 DEF EdgeOf, WaitEdge, RideEdge
  <1>7. \A s \in GetStopsHolder(db) :
            /\ stop_to_transfer[s].first \in 0 .. 2 * Len(db.stops) - 1
            /\ stop_to_transfer[s].second \in 0 .. 2 * Len(db.stops) - 1
    BY <1>4, VerticesFit
  <1>8. {edge.from, edge.to} \subseteq 0 .. 2 * Len(db.stops) - 1
    BY <1>2, <1>6, <1>7
  <1> QED
    BY <1>1, <1>2, <1>4, <1>5, <1>6, <1>8

\* The types are part of what the loops have done.
LEMMA TypesFollow == RouterInvariant => RouterTypeOK
  <1> SUFFICES ASSUME RouterInvariant PROVE RouterTypeOK
    OBVIOUS
  <1>1. PopulateTypeOK
    BY DEF RouterInvariant, PopulateInvariant
  <1>2. /\ building \in {"waiting", "transfers", "waits", "lines", "rides", "ready", "failed"}
        /\ answer = Null \/ DOMAIN answer = {"start", "finish", "route"}
    BY DEF RouterInvariant, LoopsFollowCatalogue
  <1>3. /\ GetStopsHolder(db) \subseteq StopPtrs(db) /\ GetBusesHolder(db) \subseteq BusPtrs(db)
        /\ DOMAIN stop_to_transfer \subseteq StopPtrs(db)
    BY <1>1 DEF PopulateTypeOK, RouterInvariant, TransfersFollowStops
  <1>4. /\ building \in {"transfers", "waits"} => pending \subseteq StopPtrs(db)
        /\ building \in {"lines", "failed"} => pending \subseteq BusPtrs(db)
        /\ building \in {"waiting", "ready"} => pending = {}
    BY <1>3 DEF RouterInvariant, LoopsFollowCatalogue, TransfersFollowStops
  <1>5. building = "rides" => pending \subseteq Item
    <2> SUFFICES ASSUME building = "rides", NEW ride \in pending PROVE ride \in Item
      OBVIOUS
    <2>1. stage = "populated" /\ PopulateInvariant
      BY DEF RouterInvariant, LoopsFollowCatalogue
    <2>2. /\ ride \in ItemsOfLines(GetBusesHolder(db))
          /\ \A ptr \in GetBusesHolder(db) :
                \A stops \in Range(Directions(db.buses[ptr])) : ~LineThrows(stops)
      BY DEF RouterInvariant, RidesAreFastest
    <2> QED
      BY <2>1, <2>2, RideShape
  <1>6. pending \subseteq CASE building \in {"transfers", "waits"} -> StopPtrs(db)
                            [] building \in {"lines", "failed"}    -> BusPtrs(db)
                            [] building = "rides"                  -> Item
                            [] OTHER                               -> {}
    BY <1>2, <1>4, <1>5
  <1>7. Len(id_to_edge) = Len(graph.edges)
    BY DEF RouterInvariant, ItemsFollowEdges
  <1>8. \A id \in DOMAIN graph.edges :
            {graph.edges[id].from, graph.edges[id].to} \subseteq 0 .. 2 * Len(db.stops) - 1
    BY EdgeIsOfItem
  <1> QED
    BY <1>1, <1>2, <1>3, <1>6, <1>7, <1>8 DEF RouterTypeOK

\* Types, and that ids and vertices stay within the graph (router.h, router.cpp).
THEOREM RouterTypes == Spec => []RouterTypeOK
  BY RouterInvariance, TypesFollow, PTL

\* Edges that join the same vertices are of items between the same stops.
LEMMA EdgesDiffer ==
    ASSUME RouterInvariant, NEW i \in DOMAIN graph.edges, NEW j \in DOMAIN graph.edges,
           graph.edges[i].from = graph.edges[j].from, graph.edges[i].to = graph.edges[j].to
    PROVE  i = j
  <1>1. PICK a : a = id_to_edge[i]
    OBVIOUS
  <1>2. PICK b : b = id_to_edge[j]
    OBVIOUS
  <1> DEFINE First(s)  == stop_to_transfer[s].first
             Second(s) == stop_to_transfer[s].second
  <1>3. /\ a.from \in DOMAIN stop_to_transfer /\ a.to \in DOMAIN stop_to_transfer
        /\ IF a.bus = Null
           THEN graph.edges[i].from = Second(a.from) /\ graph.edges[i].to = First(a.to)
           ELSE graph.edges[i].from = First(a.from) /\ graph.edges[i].to = Second(a.to)
    BY <1>1, EdgeIsOfItem
  <1>4. /\ b.from \in DOMAIN stop_to_transfer /\ b.to \in DOMAIN stop_to_transfer
        /\ IF b.bus = Null
           THEN graph.edges[j].from = Second(b.from) /\ graph.edges[j].to = First(b.to)
           ELSE graph.edges[j].from = First(b.from) /\ graph.edges[j].to = Second(b.to)
    BY <1>2, EdgeIsOfItem
  <1>5. \A s, t \in DOMAIN stop_to_transfer :
            /\ First(s) # Second(t)
            /\ First(s) = First(t) \/ Second(s) = Second(t) => s = t
    BY VerticesFit
  <1> HIDE DEF First, Second
  <1>6. a.from = b.from /\ a.to = b.to
    BY <1>3, <1>4, <1>5
  <1>7. SamePair(id_to_edge[i], id_to_edge[j])
    BY <1>1, <1>2, <1>6 DEF SamePair
  <1>8. i \in DOMAIN id_to_edge /\ j \in DOMAIN id_to_edge
    BY DEF RouterInvariant, ItemsFollowEdges
  <1> QED
    BY <1>7, <1>8 DEF RouterInvariant, ItemsFollowEdges

\* What is known of edges and items while the loops run is what holds in the end.
LEMMA ItemsFollow == RouterInvariant => ItemsMatchEdges
  <1> SUFFICES ASSUME RouterInvariant, Ready PROVE ItemsMatchEdges
    BY DEF ItemsMatchEdges
  <1>1. DOMAIN stop_to_transfer = GetStopsHolder(db)
    BY DEF Ready, RouterInvariant, TransfersFollowStops
  <1>2. \A s, t \in DOMAIN stop_to_transfer : s # t =>
            {stop_to_transfer[s].first, stop_to_transfer[s].second} \cap
            {stop_to_transfer[t].first, stop_to_transfer[t].second} = {}
    BY VerticesFit
  <1>3. ASSUME NEW id \in DOMAIN graph.edges
        PROVE  LET edge == graph.edges[id]
                   item == id_to_edge[id]
               IN  /\ edge.weight = item.timedelta
                   /\ IF item.bus = Null
                      THEN /\ item.from = item.to /\ item.timedelta = WaitTime
                           /\ edge.from = stop_to_transfer[item.from].second
                           /\ edge.to = stop_to_transfer[item.to].first
                      ELSE /\ item.from # item.to
                           /\ edge.from = stop_to_transfer[item.from].first
                           /\ edge.to = stop_to_transfer[item.to].second
                   /\ id \in ListedEdges(graph)
    <2>1. DOMAIN graph.incidence_lists = 0 .. 2 * Len(db.stops) - 1
      BY DEF Ready, RouterInvariant, LoopsFollowCatalogue, Vertices
    <2>2. graph.edges[id].from \in DOMAIN graph.incidence_lists
      BY <2>1, EdgeIsOfItem
    <2>3. id \in ListedEdges(graph)
      BY <2>2 DEF ListedEdges, GetEdge
    <2> QED
      BY <2>3, EdgeIsOfItem
  <1>4. \A i, j \in DOMAIN graph.edges :
            i # j => <<graph.edges[i].from, graph.edges[i].to>> # <<graph.edges[j].from, graph.edges[j].to>>
    BY EdgesDiffer
  <1>5. ASSUME NEW ptr \in GetStopsHolder(db)
        PROVE  \E id \in DOMAIN id_to_edge : id_to_edge[id].bus = Null /\ id_to_edge[id].from = ptr
    <2>1. ptr \in WaitsAt(Range(id_to_edge))
      BY DEF Ready, RouterInvariant, WaitsFollowStops
    <2>2. PICK item \in Range(id_to_edge) : item.bus = Null /\ item.from = ptr
      BY <2>1 DEF WaitsAt
    <2>3. PICK id \in DOMAIN id_to_edge : item = id_to_edge[id]
      BY <2>2 DEF Range
    <2> QED
      BY <2>2, <2>3
  <1> QED
    BY <1>1, <1>2, <1>3, <1>4, <1>5 DEF ItemsMatchEdges

\* Once the constructor has returned, edges and items say the same, and every stop
\* has its two vertices and its wait (router.cpp:10-24, 74-94).
THEOREM EdgesMatchItems == Spec => []ItemsMatchEdges
  BY RouterInvariance, ItemsFollow, PTL

-----------------------------------------------------------------------------
(* The rides of a line, with and without the legs the continue leaves out. *)

\* Rides is what passengers find along the directions the router scans.
LEMMA RidesAre ==
    ASSUME NEW ride
    PROVE  ride \in Rides <=>
              \E ptr \in GetBusesHolder(db) : \E stops \in Range(Directions(db.buses[ptr])) :
                \E from \in DOMAIN stops : \E to \in DOMAIN stops :
                    /\ from < to
                    /\ \A k \in from + 1 .. to : Distance(db, stops[k - 1], stops[k]) # Null
                    /\ ride = [from |-> stops[from], to |-> stops[to], bus |-> ptr,
                               legs |-> to - from, metres |-> RiddenAllLegs(stops, from, to)]
  <1> DEFINE IsOn(line, p) ==
                /\ p \in (DOMAIN line.stops) \X (DOMAIN line.stops)
                /\ p[1] < p[2]
                /\ \A k \in p[1] + 1 .. p[2] : Distance(db, line.stops[k - 1], line.stops[k]) # Null
             RideOn(line, p) == [from |-> line.stops[p[1]], to |-> line.stops[p[2]], bus |-> line.bus,
                                 legs |-> p[2] - p[1], metres |-> RiddenAllLegs(line.stops, p[1], p[2])]
             Scanned(ptr, stops) == ptr \in GetBusesHolder(db) /\ stops \in Range(Directions(db.buses[ptr]))
  <1>1. ride \in Rides <=> \E line \in Lines : \E p : IsOn(line, p) /\ ride = RideOn(line, p)
    BY DEF Rides
  <1>2. \A line : line \in Lines <=>
            \E ptr \in GetBusesHolder(db) : \E stops \in Range(Directions(db.buses[ptr])) :
                line = [bus |-> ptr, stops |-> stops]
    <2>1. \A bus : Range(Directions(bus)) =
              {bus.stops} \cup IF bus.is_roundtrip THEN {} ELSE {Reverse(bus.stops)}
      BY DEF Directions, Range
    <2>2. Lines = UNION {{[bus |-> ptr, stops |-> stops] :
                              stops \in Range(Directions(db.buses[ptr]))} : ptr \in GetBusesHolder(db)}
      BY <2>1 DEF Lines
    <2> QED
      BY <2>2
  <1>3. \A ptr, stops, from, to :
          LET line == [bus |-> ptr, stops |-> stops]
          IN  /\ IsOn(line, <<from, to>>) <=>
                    /\ from \in DOMAIN stops /\ to \in DOMAIN stops /\ from < to
                    /\ \A k \in from + 1 .. to : Distance(db, stops[k - 1], stops[k]) # Null
              /\ RideOn(line, <<from, to>>) =
                    [from |-> stops[from], to |-> stops[to], bus |-> ptr,
                     legs |-> to - from, metres |-> RiddenAllLegs(stops, from, to)]
    OBVIOUS
  <1>4. \A line, p : IsOn(line, p) => \E from, to : p = <<from, to>>
    OBVIOUS
  <1> HIDE DEF IsOn, RideOn
  <1>5. ASSUME ride \in Rides
        PROVE  \E ptr \in GetBusesHolder(db) : \E stops \in Range(Directions(db.buses[ptr])) :
                \E from \in DOMAIN stops : \E to \in DOMAIN stops :
                    /\ from < to
                    /\ \A k \in from + 1 .. to : Distance(db, stops[k - 1], stops[k]) # Null
                    /\ ride = [from |-> stops[from], to |-> stops[to], bus |-> ptr,
                               legs |-> to - from, metres |-> RiddenAllLegs(stops, from, to)]
    <2>1. PICK line \in Lines : \E p : IsOn(line, p) /\ ride = RideOn(line, p)
      BY <1>1, <1>5
    <2>2. PICK p : IsOn(line, p) /\ ride = RideOn(line, p)
      BY <2>1
    <2>3. PICK ptr \in GetBusesHolder(db) : \E stops \in Range(Directions(db.buses[ptr])) :
              line = [bus |-> ptr, stops |-> stops]
      BY <1>2, <2>1
    <2>4. PICK stops \in Range(Directions(db.buses[ptr])) : line = [bus |-> ptr, stops |-> stops]
      BY <2>3
    <2>5. PICK from, to : p = <<from, to>>
      BY <1>4, <2>2
    <2>6. /\ from \in DOMAIN stops /\ to \in DOMAIN stops /\ from < to
          /\ \A k \in from + 1 .. to : Distance(db, stops[k - 1], stops[k]) # Null
          /\ ride = [from |-> stops[from], to |-> stops[to], bus |-> ptr,
                     legs |-> to - from, metres |-> RiddenAllLegs(stops, from, to)]
      BY <1>3, <2>2, <2>4, <2>5
    <2> QED
      BY <2>6
  <1>6. ASSUME NEW ptr \in GetBusesHolder(db), NEW stops \in Range(Directions(db.buses[ptr])),
               NEW from \in DOMAIN stops, NEW to \in DOMAIN stops,
               from < to,
               \A k \in from + 1 .. to : Distance(db, stops[k - 1], stops[k]) # Null,
               ride = [from |-> stops[from], to |-> stops[to], bus |-> ptr,
                       legs |-> to - from, metres |-> RiddenAllLegs(stops, from, to)]
        PROVE  ride \in Rides
    <2>1. PICK line : line = [bus |-> ptr, stops |-> stops]
      OBVIOUS
    <2>2. line \in Lines
      BY <1>2, <2>1
    <2>3. IsOn(line, <<from, to>>) /\ ride = RideOn(line, <<from, to>>)
      BY <1>3, <1>6, <2>1
    <2> QED
      BY <1>1, <2>2, <2>3
  <1> QED
    BY <1>5, <1>6

\* The lookups of the inner loop did not throw.
LEMMA LegsKnown ==
    ASSUME PopulateTypeOK, NEW stops, ~LineThrows(stops),
           NEW from \in DOMAIN stops, NEW k \in Destinations(stops, from)
    PROVE  Distance(db, stops[k - 1], stops[k]) \in Int
  BY DistanceType DEF LineThrows

\* Boarding later, where the line stops at from once more, counts only legs that
\* were counted from there, and leaves out those before.
LEMMA BoardedLater ==
    ASSUME PopulateInvariant, NEW S, NEW stops \in Seq(S), ~LineThrows(stops),
           NEW from \in DOMAIN stops, NEW k \in DOMAIN stops, from <= k, stops[k] = stops[from],
           NEW to \in Destinations(stops, k),
           \A j \in Destinations(stops, from) : Distance(db, stops[j - 1], stops[j]) >= 0
    PROVE  /\ to \in Destinations(stops, from)
           /\ Ridden(stops, from, to) \in Int /\ Ridden(stops, k, to) \in Int
           /\ Ridden(stops, k, to) <= Ridden(stops, from, to)
           /\ /\ from + 1 \in Destinations(stops, from) /\ from < k
              /\ Distance(db, stops[from], stops[from + 1]) > 0
              => Ridden(stops, k, to) < Ridden(stops, from, to)
  <1>0. PICK n \in Nat : n = Len(stops) /\ DOMAIN stops = 1 .. n
    OBVIOUS
  <1>1. PICK legs : legs = Destinations(stops, k)
    OBVIOUS
  <1>2. PICK more : more = Destinations(stops, from)
    OBVIOUS
  <1>3. /\ from \in 1 .. n /\ k \in 1 .. n /\ from <= k
        /\ legs \subseteq k + 1 .. n /\ more \subseteq from + 1 .. n
        /\ \A j : j \in legs <=> j \in k + 1 .. n /\ stops[j] # stops[from]
        /\ \A j : j \in more <=> j \in from + 1 .. n /\ stops[j] # stops[from]
    BY <1>0, <1>1, <1>2 DEF Destinations
  <1>4. legs \subseteq more /\ to \in legs /\ to \in more /\ to \in Nat
    BY <1>1, <1>3
  <1>5. PopulateTypeOK
    BY DEF PopulateInvariant
  <1>6. \A j \in legs \cup more : Distance(db, stops[j - 1], stops[j]) \in Int
    BY <1>2, <1>4, <1>5, LegsKnown
  <1>7. \A j \in more \cap (1 .. to) : j \notin legs => Distance(db, stops[j - 1], stops[j]) >= 0
    BY <1>2
  <1>8. /\ Metres(stops, legs, to) \in Int /\ Metres(stops, more, to) \in Int
        /\ Metres(stops, legs, to) <= Metres(stops, more, to)
        /\ (\E j \in more \cap (1 .. to) :
                 j \notin legs /\ Distance(db, stops[j - 1], stops[j]) > 0)
           => Metres(stops, legs, to) < Metres(stops, more, to)
    BY <1>4, <1>6, <1>7, MoreMetres
  <1>9. ASSUME from + 1 \in Destinations(stops, from), from < k,
               Distance(db, stops[from], stops[from + 1]) > 0
        PROVE  Metres(stops, legs, to) < Metres(stops, more, to)
    <2>1. PICK j : j = from + 1
      OBVIOUS
    <2>2. j \in more /\ j <= k /\ j - 1 = from
      BY <1>2, <1>3, <1>9, <2>1
    <2>3. j \in 1 .. to /\ j \notin legs
      BY <1>3, <1>4, <2>1, <2>2
    <2>4. Distance(db, stops[j - 1], stops[j]) > 0
      BY <1>9, <2>1, <2>2
    <2> QED
      BY <1>8, <2>2, <2>3, <2>4
  <1> QED
    BY <1>1, <1>2, <1>4, <1>8, <1>9 DEF Ridden

\* Where the line does not come back to the stop of from on the way, no leg is left
\* out, and all of them are known.
LEMMA NoLegLeftOut ==
    ASSUME PopulateInvariant, NEW S, NEW stops \in Seq(S), ~LineThrows(stops),
           NEW from \in DOMAIN stops, NEW to \in DOMAIN stops, from < to,
           \A j \in from + 1 .. to : stops[j] # stops[from]
    PROVE  /\ to \in Destinations(stops, from)
           /\ \A j \in from + 1 .. to : Distance(db, stops[j - 1], stops[j]) \in Int
           /\ RiddenAllLegs(stops, from, to) = Ridden(stops, from, to)
  <1>0. PICK n \in Nat : n = Len(stops) /\ DOMAIN stops = 1 .. n
    OBVIOUS
  <1>1. PICK legs : legs = from + 1 .. to
    OBVIOUS
  <1>2. PICK more : more = Destinations(stops, from)
    OBVIOUS
  <1>3. /\ from \in 1 .. n /\ to \in 1 .. n /\ legs \subseteq 1 .. to
        /\ \A j : j \in more <=> j \in from + 1 .. n /\ stops[j] # stops[from]
    BY <1>0, <1>1, <1>2 DEF Destinations
  <1>4. legs \subseteq more /\ to \in more
    BY <1>1, <1>3
  <1>5. more \cap (1 .. to) \subseteq legs
    BY <1>1, <1>3
  <1>6. PopulateTypeOK
    BY DEF PopulateInvariant
  <1>7. \A j \in legs \cup more : Distance(db, stops[j - 1], stops[j]) \in Int
    BY <1>2, <1>4, <1>6, LegsKnown
  <1>8. Metres(stops, legs, to) = Metres(stops, more, to)
    <2>1. \A j \in more \cap (1 .. to) : j \notin legs => Distance(db, stops[j - 1], stops[j]) >= 0
      BY <1>5
    <2>2. to \in Nat /\ legs \cap (1 .. to) \subseteq more
      BY <1>3, <1>4
    <2> QED
      BY <1>5, <1>7, <2>1, <2>2, MoreMetres
  <1> QED
    BY <1>1, <1>2, <1>4, <1>7, <1>8 DEF Ridden, RiddenAllLegs

\* On the way to another stop a line leaves the stop of from for the last time.
LEMMA LastBoarding ==
    ASSUME NEW S, NEW stops \in Seq(S), NEW from \in DOMAIN stops, NEW to \in Destinations(stops, from)
    PROVE  \E k \in DOMAIN stops :
              /\ from <= k /\ k < to /\ stops[k] = stops[from]
              /\ \A j \in k + 1 .. to : stops[j] # stops[from]
              /\ to \in DOMAIN stops /\ to \in Destinations(stops, k)
  <1>0. PICK n \in Nat : n = Len(stops) /\ DOMAIN stops = 1 .. n
    OBVIOUS
  <1>1. from \in 1 .. n /\ to \in from + 1 .. n /\ stops[to] # stops[from]
    BY <1>0 DEF Destinations
  <1> DEFINE Back == {b \in Nat : b <= to - from /\ stops[to - b] = stops[from]}
  <1>2. Back # {} /\ Back \subseteq Nat
    <2>1. PICK b \in Nat : b = to - from /\ to - b = from
      BY <1>1
    <2> QED
      BY <2>1
  <1>3. PICK b \in Back : \A c \in Back : b <= c
    BY <1>2, LeastElement
  <1>4. PICK k \in 1 .. n : k = to - b /\ from <= k /\ k < to /\ stops[k] = stops[from]
    <2>1. b # 0
      BY <1>1, <1>3
    <2> QED
      BY <1>1, <1>3, <2>1
  <1>5. ASSUME NEW j \in k + 1 .. to, stops[j] = stops[from]
        PROVE  FALSE
    <2>1. PICK c \in Nat : c = to - j /\ to - c = j
      BY <1>1, <1>4
    <2>2. c \in Back
      BY <1>1, <1>4, <1>5, <2>1
    <2>3. b \in Nat /\ b <= c
      BY <1>2, <1>3, <2>2
    <2> HIDE DEF Back
    <2> QED
      BY <1>1, <1>4, <2>1, <2>3
  <1>6. to \in Destinations(stops, k)
    BY <1>0, <1>1, <1>4 DEF Destinations
  <1> QED
    BY <1>0, <1>1, <1>4, <1>5, <1>6

\* A leg of either direction is one of the bus, there or back.
LEMMA LegsOfDirections ==
    ASSUME NEW S, NEW bus, bus.stops \in Seq(S),
           NEW stops \in Range(Directions(bus)), NEW k \in DOMAIN stops, k > 1
    PROVE  \E leg \in Legs(bus) :
              \/ stops[k - 1] = bus.stops[leg] /\ stops[k] = bus.stops[leg + 1]
              \/ stops[k - 1] = bus.stops[leg + 1] /\ stops[k] = bus.stops[leg]
  <1>1. PICK line \in Seq(S) : line = bus.stops
    OBVIOUS
  <1>2. PICK n \in Nat : n = Len(line) /\ DOMAIN line = 1 .. n
    OBVIOUS
  <1>3. stops = line \/ stops = Reverse(line)
    BY <1>1, DirectionsOf
  <1>4. CASE stops = line
    <2>1. k - 1 \in Legs(bus) /\ (k - 1) + 1 = k
      BY <1>1, <1>2, <1>4 DEF Legs
    <2> QED
      BY <1>1, <1>4, <2>1
  <1>5. CASE stops = Reverse(line)
    <2>1. stops = [i \in 1 .. n |-> line[(n - i) + 1]]
      BY <1>2, <1>5 DEF Reverse
    <2>2. PICK leg : leg = (n - k) + 1
      OBVIOUS
    <2>3. k \in 1 .. n /\ k - 1 \in 1 .. n /\ (n - (k - 1)) + 1 = leg + 1 /\ leg \in 1 .. n - 1
      BY <1>2, <2>1, <2>2
    <2>4. stops[k - 1] = line[leg + 1] /\ stops[k] = line[leg]
      BY <2>1, <2>2, <2>3
    <2>5. leg \in Legs(bus)
      BY <1>1, <1>2, <2>3 DEF Legs
    <2> QED
      BY <1>1, <2>4, <2>5
  <1> QED
    BY <1>3, <1>4, <1>5

\* What the constructor has found along a direction of a bus when it returns.
LEMMA LinesScanned ==
    ASSUME RouterInvariant, building = "ready", NEW ptr \in GetBusesHolder(db),
           NEW stops \in Range(Directions(db.buses[ptr]))
    PROVE  /\ PopulateInvariant /\ stops \in Seq(GetStopsHolder(db)) /\ ~LineThrows(stops)
           /\ \A from \in DOMAIN stops : \A to \in Destinations(stops, from) :
                LineEdge(stops, ptr, from, to) \in ItemsOfLines(GetBusesHolder(db))
  <1>1. /\ PopulateInvariant /\ stage = "populated"
        /\ \A p \in GetBusesHolder(db) : \A s \in Range(Directions(db.buses[p])) : ~LineThrows(s)
    BY DEF Ready, RouterInvariant, LoopsFollowCatalogue, RidesAreFastest
  <1>2. ~LineThrows(stops)
    BY <1>1
  <1>3. stops \in Seq(GetStopsHolder(db))
    <2>1. PICK S : S = GetStopsHolder(db)
      OBVIOUS
    <2>2. PICK lines : lines = Directions(db.buses[ptr])
      OBVIOUS
    <2>3. lines \in Seq(Seq(S))
      BY <1>1, <2>1, <2>2, LinesOf
    <2>4. PICK d \in DOMAIN lines : stops = lines[d]
      BY <2>2 DEF Range
    <2>5. stops \in Seq(S)
      BY <2>3, <2>4
    <2> QED
      BY <2>1, <2>5
  <1>4. ASSUME NEW from \in DOMAIN stops, NEW to \in Destinations(stops, from)
        PROVE  LineEdge(stops, ptr, from, to) \in ItemsOfLines(GetBusesHolder(db))
    <2>1. PICK item : item = LineEdge(stops, ptr, from, to)
      OBVIOUS
    <2>2. item \in LineItems(ptr)
      BY <2>1, LineItemsAre
    <2> QED
      BY <2>1, <2>2 DEF ItemsOfLines
  <1> QED
    BY <1>1, <1>2, <1>3, <1>4

\* A ride of the graph was collected along a direction of its bus, and none that was
\* collected between the same stops is faster.
LEMMA RideOfGraph ==
    ASSUME RouterInvariant, building = "ready", NEW id \in DOMAIN id_to_edge, id_to_edge[id].bus # Null
    PROVE  LET ride == id_to_edge[id]
           IN  /\ ride.bus \in GetBusesHolder(db)
               /\ \E stops \in Range(Directions(db.buses[ride.bus])) :
                    \E from \in DOMAIN stops : \E to \in Destinations(stops, from) :
                        ride = LineEdge(stops, ride.bus, from, to)
               /\ \A item \in ItemsOfLines(GetBusesHolder(db)) :
                    SamePair(ride, item) => ride.timedelta <= item.timedelta
  <1>1. PICK ride : ride = id_to_edge[id]
    OBVIOUS
  <1>2. ride \in RidesOf(Range(id_to_edge))
    BY <1>1 DEF RidesOf, Range
  <1>3. /\ ride \in ItemsOfLines(GetBusesHolder(db))
        /\ \A item \in ItemsOfLines(GetBusesHolder(db)) :
                SamePair(ride, item) => ride.timedelta <= item.timedelta
    BY <1>2 DEF Ready, RouterInvariant, RidesAreFastest
  <1>4. PICK ptr \in GetBusesHolder(db) : ride \in LineItems(ptr)
    BY <1>3 DEF ItemsOfLines
  <1>5. PICK stops \in Range(Directions(db.buses[ptr])) :
          \E from \in DOMAIN stops : \E to \in Destinations(stops, from) :
              ride = LineEdge(stops, ptr, from, to)
    BY <1>4, LineItemsAre
  <1>6. ride.bus = ptr
    BY <1>5 DEF LineEdge
  <1> QED
    BY <1>1, <1>3, <1>5, <1>6

\* What is kept are rides with all their legs.
LEMMA RidesFollow == RouterInvariant => RidesAreReal
  <1> SUFFICES ASSUME RouterInvariant, building = "ready", NEW id \in DOMAIN id_to_edge,
                      id_to_edge[id].bus # Null,
                      \A k \in Legs(db.buses[id_to_edge[id].bus]) :
                        LET stops == db.buses[id_to_edge[id].bus].stops
                        IN  /\ stops[k] # stops[k + 1]
                            /\ Distance(db, stops[k], stops[k + 1]) > 0
                            /\ Distance(db, stops[k + 1], stops[k]) > 0
               PROVE  IsRide(id_to_edge[id], Rides)
    BY DEF Ready, RidesAreReal
  <1>1. PICK item : item = id_to_edge[id]
    OBVIOUS
  <1>2. PICK ptr \in GetBusesHolder(db) : ptr = item.bus
    BY <1>1, RideOfGraph
  <1>3. PICK bus : bus = db.buses[ptr]
    OBVIOUS
  <1>4. \A k \in Legs(bus) :
            /\ bus.stops[k] # bus.stops[k + 1]
            /\ Distance(db, bus.stops[k], bus.stops[k + 1]) > 0
            /\ Distance(db, bus.stops[k + 1], bus.stops[k]) > 0
    BY <1>1, <1>2, <1>3
  <1>5. PICK stops \in Range(Directions(bus)) :
            \E from \in DOMAIN stops : \E to \in Destinations(stops, from) :
                item = LineEdge(stops, ptr, from, to)
    BY <1>1, <1>2, <1>3, RideOfGraph
  <1>6. PICK from \in DOMAIN stops : \E to \in Destinations(stops, from) :
            item = LineEdge(stops, ptr, from, to)
    BY <1>5
  <1>7. PICK to \in Destinations(stops, from) : item = LineEdge(stops, ptr, from, to)
    BY <1>6
  <1>8. /\ PopulateInvariant /\ stops \in Seq(GetStopsHolder(db)) /\ ~LineThrows(stops)
        /\ \A f \in DOMAIN stops : \A t \in Destinations(stops, f) :
                LineEdge(stops, ptr, f, t) \in ItemsOfLines(GetBusesHolder(db))
    BY <1>3, <1>5, LinesScanned
  <1>9. bus.stops \in Seq(GetStopsHolder(db))
    BY <1>3, <1>8, LineStops DEF Ready, RouterInvariant, LoopsFollowCatalogue
  <1>10. ASSUME NEW k \in DOMAIN stops, k > 1
         PROVE  stops[k - 1] # stops[k] /\ Distance(db, stops[k - 1], stops[k]) > 0
    <2>1. PICK leg \in Legs(bus) :
              \/ stops[k - 1] = bus.stops[leg] /\ stops[k] = bus.stops[leg + 1]
              \/ stops[k - 1] = bus.stops[leg + 1] /\ stops[k] = bus.stops[leg]
      BY <1>5, <1>9, <1>10, LegsOfDirections
    <2> QED
      BY <1>4, <2>1
  <1>11. PICK n \in Nat : n = Len(stops) /\ DOMAIN stops = 1 .. n
    BY <1>8
  <1>12. \A f \in DOMAIN stops : \A j \in Destinations(stops, f) :
            j \in 1 .. n /\ j > f /\ j > 1 /\ stops[j] # stops[f]
    BY <1>11 DEF Destinations
  <1>13. PICK k \in DOMAIN stops :
            /\ from <= k /\ k < to /\ stops[k] = stops[from]
            /\ \A j \in k + 1 .. to : stops[j] # stops[from]
            /\ to \in DOMAIN stops /\ to \in Destinations(stops, k)
    BY <1>8, LastBoarding
  <1>14. from = k
    <2> SUFFICES ASSUME from < k PROVE FALSE
      BY <1>11, <1>13
    <2>1. \A j \in Destinations(stops, from) : Distance(db, stops[j - 1], stops[j]) >= 0
      <3> SUFFICES ASSUME NEW j \in Destinations(stops, from)
                   PROVE  Distance(db, stops[j - 1], stops[j]) >= 0
        OBVIOUS
      <3>1. Distance(db, stops[j - 1], stops[j]) \in Int
        BY <1>8, LegsKnown DEF PopulateInvariant
      <3>2. Distance(db, stops[j - 1], stops[j]) > 0
        BY <1>10, <1>11, <1>12
      <3> QED
        BY <3>1, <3>2
    <2>2. PICK next \in DOMAIN stops : next = from + 1 /\ next > 1 /\ next - 1 = from
      BY <1>11, <1>13
    <2>3. stops[next] # stops[from] /\ Distance(db, stops[from], stops[next]) > 0
      BY <1>10, <2>2
    <2>4. next \in Destinations(stops, from)
      BY <1>11, <2>2, <2>3 DEF Destinations
    <2>5. /\ Ridden(stops, from, to) \in Int /\ Ridden(stops, k, to) \in Int
          /\ Ridden(stops, k, to) < Ridden(stops, from, to)
      BY <1>8, <1>13, <2>1, <2>2, <2>3, <2>4, BoardedLater
    <2>6. PICK other \in ItemsOfLines(GetBusesHolder(db)) : other = LineEdge(stops, ptr, k, to)
      BY <1>8, <1>13
    <2>7. SamePair(item, other)
      BY <1>7, <1>13, <2>6 DEF SamePair, LineEdge
    <2>8. item.timedelta <= other.timedelta
      BY <1>1, <2>6, <2>7, RideOfGraph
    <2>9. item.timedelta = Ridden(stops, from, to) /\ other.timedelta = Ridden(stops, k, to)
      BY <1>7, <2>6 DEF LineEdge
    <2> QED
      BY <2>5, <2>8, <2>9
  <1>15. /\ from < to /\ to \in DOMAIN stops
         /\ \A j \in from + 1 .. to : Distance(db, stops[j - 1], stops[j]) \in Int
         /\ RiddenAllLegs(stops, from, to) = Ridden(stops, from, to)
    BY <1>8, <1>13, <1>14, NoLegLeftOut
  <1>16. Null \notin Int
    BY PopulateAssumption
  <1>17. PICK ride : ride = [from |-> stops[from], to |-> stops[to], bus |-> ptr,
                             legs |-> to - from, metres |-> RiddenAllLegs(stops, from, to)]
    OBVIOUS
  <1>18. ride \in Rides
    <2>1. \A j \in from + 1 .. to : Distance(db, stops[j - 1], stops[j]) # Null
      BY <1>15, <1>16
    <2> QED
      BY <1>3, <1>5, <1>15, <1>17, <2>1, RidesAre
  <1>19. /\ ride.from = item.from /\ ride.to = item.to /\ ride.bus = item.bus
         /\ ride.legs % SpanModulus = item.stop_count /\ ride.metres = item.timedelta
    BY <1>7, <1>15, <1>17 DEF LineEdge
  <1> QED
    BY <1>1, <1>18, <1>19 DEF IsRide

\* A ride of the graph is one that its bus makes: bus, span and time belong to each
\* other (router.cpp:26-53, 74-86).
THEOREM RidesExist == Spec => []RidesAreReal
  BY RouterInvariance, RidesFollow, PTL

-----------------------------------------------------------------------------
(* Where no road is shorter than nothing, the legs left out cost no time. *)

\* The requests are those of one of the inputs, to the end.
LEMMA BaseChosen == Spec => [](base \in Bases)
  <1>1. Init => base \in Bases
    BY DEF Init, PopulateInit
  <1>2. base \in Bases /\ [Next]_vars => (base \in Bases)'
    <2>1. [Next]_vars => base' = base
      BY DEF Next, vars, populateVars, PopulateNext, NextStop, NextDistance, NextDistances, NextBus,
             NextLoop, RouterNext, StartRouter, AddTransfer, EndTransfers, AddWait, EndWaits,
             CreateLineEdges, KeepFastest, AddRide, MakeRouter, GetRoute
    <2> QED
      BY <2>1
  <1> QED
    BY <1>1, <1>2, PTL DEF Spec

\* The distances stored are among those declared.
LEMMA DistancesNotNegative ==
    ASSUME PopulateInvariant, stage = "populated", base \in Bases, NoNegativeRoads,
           NEW s \in GetStopsHolder(db), NEW t \in GetStopsHolder(db), Distance(db, s, t) \in Int
    PROVE  Distance(db, s, t) >= 0
  <1>1. \A a, b \in GetStopsHolder(db) :
            <<a, b>> \in DOMAIN db.stops_to_distance =>
                db.stops_to_distance[<<a, b>>] \in Given(db.stops[a], db.stops[b])
    BY DEF PopulateInvariant, DistancesFollowRequests
  <1>2. \A a, b : \A metres \in Given(a, b) : metres >= 0
    BY DEF Given, PassedOn, NoNegativeRoads
  <1>3. \A a, b \in GetStopsHolder(db) :
            <<a, b>> \in DOMAIN db.stops_to_distance => db.stops_to_distance[<<a, b>>] >= 0
    BY <1>1, <1>2
  <1>4. Null \notin Int
    BY PopulateAssumption
  <1> QED
    BY <1>3, <1>4 DEF Distance

\* Along a direction of a bus, what is collected from the last stop at a place is as
\* fast as what is collected from an earlier one, and it is a ride.
LEMMA AsFastLater ==
    ASSUME RouterInvariant, building = "ready", base \in Bases, NoNegativeRoads,
           NEW ptr \in GetBusesHolder(db), NEW stops \in Range(Directions(db.buses[ptr])),
           NEW from \in DOMAIN stops, NEW to \in Destinations(stops, from)
    PROVE  \E ride \in Rides : \E item \in ItemsOfLines(GetBusesHolder(db)) :
              /\ ride.from = stops[from] /\ ride.to = stops[to]
              /\ SamePair(item, ride) /\ item.timedelta = ride.metres
              /\ ride.metres \in Int /\ ride.metres <= Ridden(stops, from, to)
  <1>1. /\ PopulateInvariant /\ stops \in Seq(GetStopsHolder(db)) /\ ~LineThrows(stops)
        /\ \A f \in DOMAIN stops : \A t \in Destinations(stops, f) :
                LineEdge(stops, ptr, f, t) \in ItemsOfLines(GetBusesHolder(db))
    BY LinesScanned
  <1>2. PICK n \in Nat : n = Len(stops) /\ DOMAIN stops = 1 .. n
    BY <1>1
  <1>3. PICK k \in DOMAIN stops :
            /\ from <= k /\ k < to /\ stops[k] = stops[from]
            /\ \A j \in k + 1 .. to : stops[j] # stops[from]
            /\ to \in DOMAIN stops /\ to \in Destinations(stops, k)
    BY <1>1, LastBoarding
  <1>4. \A j \in Destinations(stops, from) : Distance(db, stops[j - 1], stops[j]) >= 0
    <2> SUFFICES ASSUME NEW j \in Destinations(stops, from)
                 PROVE  Distance(db, stops[j - 1], stops[j]) >= 0
      OBVIOUS
    <2>1. Distance(db, stops[j - 1], stops[j]) \in Int
      BY <1>1, LegsKnown DEF PopulateInvariant
    <2>2. j \in 1 .. n /\ j - 1 \in 1 .. n
      BY <1>2 DEF Destinations
    <2>3. stops[j - 1] \in GetStopsHolder(db) /\ stops[j] \in GetStopsHolder(db)
      BY <1>1, <1>2, <2>2
    <2> QED
      BY <1>1, <2>1, <2>3, DistancesNotNegative DEF Ready, RouterInvariant, LoopsFollowCatalogue
  <1>5. /\ Ridden(stops, from, to) \in Int /\ Ridden(stops, k, to) \in Int
        /\ Ridden(stops, k, to) <= Ridden(stops, from, to)
    BY <1>1, <1>3, <1>4, BoardedLater
  <1>6. /\ \A j \in k + 1 .. to : Distance(db, stops[j - 1], stops[j]) \in Int
        /\ RiddenAllLegs(stops, k, to) = Ridden(stops, k, to)
    BY <1>1, <1>3, NoLegLeftOut
  <1>7. PICK ride : ride = [from |-> stops[k], to |-> stops[to], bus |-> ptr,
                            legs |-> to - k, metres |-> RiddenAllLegs(stops, k, to)]
    OBVIOUS
  <1>8. ride \in Rides
    <2>1. \A j \in k + 1 .. to : Distance(db, stops[j - 1], stops[j]) # Null
      BY <1>6, PopulateAssumption
    <2> QED
      BY <1>3, <1>7, <2>1, RidesAre
  <1>9. PICK item \in ItemsOfLines(GetBusesHolder(db)) : item = LineEdge(stops, ptr, k, to)
    BY <1>1, <1>3
  <1>10. /\ ride.from = stops[from] /\ ride.to = stops[to]
         /\ SamePair(item, ride) /\ item.timedelta = ride.metres
         /\ ride.metres \in Int /\ ride.metres <= Ridden(stops, from, to)
    BY <1>3, <1>5, <1>6, <1>7, <1>9 DEF SamePair, LineEdge
  <1> QED
    BY <1>8, <1>9, <1>10

\* A ride to another stop takes no less than what is collected for its two places.
LEMMA RideCollected ==
    ASSUME RouterInvariant, building = "ready", base \in Bases, NoNegativeRoads,
           NEW ride \in Rides, ride.from # ride.to
    PROVE  /\ ride.metres \in Int
           /\ \E item \in ItemsOfLines(GetBusesHolder(db)) :
                SamePair(item, ride) /\ item.timedelta <= ride.metres
  <1>1. PICK ptr \in GetBusesHolder(db) :
          \E stops \in Range(Directions(db.buses[ptr])) :
            \E from \in DOMAIN stops : \E to \in DOMAIN stops :
                /\ from < to
                /\ \A k \in from + 1 .. to : Distance(db, stops[k - 1], stops[k]) # Null
                /\ ride = [from |-> stops[from], to |-> stops[to], bus |-> ptr,
                           legs |-> to - from, metres |-> RiddenAllLegs(stops, from, to)]
    BY RidesAre
  <1>2. PICK stops \in Range(Directions(db.buses[ptr])) :
            \E from \in DOMAIN stops : \E to \in DOMAIN stops :
                /\ from < to
                /\ \A k \in from + 1 .. to : Distance(db, stops[k - 1], stops[k]) # Null
                /\ ride = [from |-> stops[from], to |-> stops[to], bus |-> ptr,
                           legs |-> to - from, metres |-> RiddenAllLegs(stops, from, to)]
    BY <1>1
  <1>3. PICK from \in DOMAIN stops :
            \E to \in DOMAIN stops :
                /\ from < to
                /\ \A k \in from + 1 .. to : Distance(db, stops[k - 1], stops[k]) # Null
                /\ ride = [from |-> stops[from], to |-> stops[to], bus |-> ptr,
                           legs |-> to - from, metres |-> RiddenAllLegs(stops, from, to)]
    BY <1>2
  <1>4. PICK to \in DOMAIN stops :
            /\ from < to
            /\ \A k \in from + 1 .. to : Distance(db, stops[k - 1], stops[k]) # Null
            /\ ride = [from |-> stops[from], to |-> stops[to], bus |-> ptr,
                       legs |-> to - from, metres |-> RiddenAllLegs(stops, from, to)]
    BY <1>3
  <1>5. /\ PopulateInvariant /\ stops \in Seq(GetStopsHolder(db)) /\ ~LineThrows(stops)
        /\ \A f \in DOMAIN stops : \A t \in Destinations(stops, f) :
                LineEdge(stops, ptr, f, t) \in ItemsOfLines(GetBusesHolder(db))
    BY LinesScanned
  <1>6. PICK n \in Nat : n = Len(stops) /\ DOMAIN stops = 1 .. n
    BY <1>5
  <1>7. stops[from] # stops[to]
    BY <1>4
  <1>8. to \in Destinations(stops, from)
    BY <1>4, <1>6, <1>7 DEF Destinations
  <1>9. PICK legs : legs = Destinations(stops, from)
    OBVIOUS
  <1>10. PICK more : more = from + 1 .. to
    OBVIOUS
  <1>11. \A k \in more : Distance(db, stops[k - 1], stops[k]) \in Int /\ Distance(db, stops[k - 1], stops[k]) >= 0
    <2> SUFFICES ASSUME NEW k \in more
                 PROVE  Distance(db, stops[k - 1], stops[k]) \in Int /\ Distance(db, stops[k - 1], stops[k]) >= 0
      OBVIOUS
    <2>1. k \in 1 .. n /\ k - 1 \in 1 .. n
      BY <1>4, <1>6, <1>10
    <2>2. stops[k - 1] \in GetStopsHolder(db) /\ stops[k] \in GetStopsHolder(db)
      BY <1>5, <1>6, <2>1
    <2>3. Distance(db, stops[k - 1], stops[k]) \in Int
      BY <1>4, <1>5, <1>10, DistanceType DEF PopulateInvariant
    <2> QED
      BY <1>5, <2>2, <2>3, DistancesNotNegative DEF Ready, RouterInvariant, LoopsFollowCatalogue
  <1>12. \A k \in legs : Distance(db, stops[k - 1], stops[k]) \in Int
    BY <1>5, <1>9, LegsKnown DEF PopulateInvariant
  <1>13. Metres(stops, more, to) \in Int /\ Metres(stops, legs, to) <= Metres(stops, more, to)
    <2>1. to \in Nat /\ legs \cap (1 .. to) \subseteq more
      BY <1>4, <1>6, <1>9, <1>10 DEF Destinations
    <2>2. \A k \in legs \cup more : Distance(db, stops[k - 1], stops[k]) \in Int
      BY <1>11, <1>12
    <2>3. \A k \in more \cap (1 .. to) : k \notin legs => Distance(db, stops[k - 1], stops[k]) >= 0
      BY <1>11
    <2> QED
      BY <2>1, <2>2, <2>3, MoreMetres
  <1>14. PICK item \in ItemsOfLines(GetBusesHolder(db)) : item = LineEdge(stops, ptr, from, to)
    BY <1>5, <1>8
  <1>15. ride.metres \in Int /\ SamePair(item, ride) /\ item.timedelta <= ride.metres
    BY <1>4, <1>9, <1>10, <1>13, <1>14 DEF SamePair, LineEdge, Ridden, RiddenAllLegs
  <1> QED
    BY <1>15

\* Min of FiniteSetsExt, of numbers one of which is the least.
LEMMA MinIsLeast ==
    ASSUME NEW S, NEW least \in S, least \in Int, \A x \in S : x \in Int /\ least <= x
    PROVE  Min(S) = least
  <1>1. PICK m : m = Min(S)
    OBVIOUS
  <1>2. m \in S /\ \A x \in S : m <= x
    BY <1>1 DEF Min
  <1>3. m \in Int /\ m <= least /\ least <= m
    BY <1>2
  <1> QED
    BY <1>1, <1>3

\* What the graph has from one stop to another is a fastest ride of the lines.
LEMMA LeastRides ==
    ASSUME RouterInvariant, building = "ready", base \in Bases, NoNegativeRoads,
           NEW s \in GetStopsHolder(db), NEW t \in GetStopsHolder(db), s # t
    PROVE  LET times == {ride.metres : ride \in {r \in Rides : r.from = s /\ r.to = t}}
               items == {id \in DOMAIN id_to_edge :
                           id_to_edge[id].bus # Null /\ id_to_edge[id].from = s
                           /\ id_to_edge[id].to = t}
           IN  /\ items = {} <=> times = {}
               /\ \A id \in items : /\ id_to_edge[id].timedelta = Min(times)
                                     /\ id_to_edge[id].timedelta \in times
               /\ \A time \in times : \E id \in items : id_to_edge[id].timedelta <= time
  <1> DEFINE times == {ride.metres : ride \in {r \in Rides : r.from = s /\ r.to = t}}
             items == {id \in DOMAIN id_to_edge :
                         id_to_edge[id].bus # Null /\ id_to_edge[id].from = s /\ id_to_edge[id].to = t}
  <1>1. ASSUME NEW ride \in Rides, ride.from = s, ride.to = t
        PROVE  /\ ride.metres \in Int
               /\ \E item \in ItemsOfLines(GetBusesHolder(db)) :
                    item.from = s /\ item.to = t /\ item.timedelta <= ride.metres
    BY <1>1, RideCollected DEF SamePair
  <1>2. ASSUME NEW id \in items
        PROVE  /\ \A item \in ItemsOfLines(GetBusesHolder(db)) :
                    item.from = s /\ item.to = t => id_to_edge[id].timedelta <= item.timedelta
               /\ \E ride \in Rides : /\ ride.from = s /\ ride.to = t
                                      /\ ride.metres \in Int /\ ride.metres = id_to_edge[id].timedelta
    <2>1. PICK kept : kept = id_to_edge[id]
      OBVIOUS
    <2>2. id \in DOMAIN id_to_edge /\ kept.bus # Null /\ kept.from = s /\ kept.to = t
      BY <2>1
    <2>3. PICK ptr \in GetBusesHolder(db) :
            \E stops \in Range(Directions(db.buses[ptr])) :
              \E from \in DOMAIN stops : \E to \in Destinations(stops, from) :
                kept = LineEdge(stops, ptr, from, to)
      BY <2>1, <2>2, RideOfGraph
    <2>4. PICK stops \in Range(Directions(db.buses[ptr])) :
            \E from \in DOMAIN stops : \E to \in Destinations(stops, from) :
                kept = LineEdge(stops, ptr, from, to)
      BY <2>3
    <2>5. PICK from \in DOMAIN stops : \E to \in Destinations(stops, from) :
                kept = LineEdge(stops, ptr, from, to)
      BY <2>4
    <2>6. PICK to \in Destinations(stops, from) : kept = LineEdge(stops, ptr, from, to)
      BY <2>5
    <2>7. kept.from = stops[from] /\ kept.to = stops[to] /\ kept.timedelta = Ridden(stops, from, to)
      BY <2>6 DEF LineEdge
    <2>8. PICK ride \in Rides : \E item \in ItemsOfLines(GetBusesHolder(db)) :
              /\ ride.from = stops[from] /\ ride.to = stops[to]
              /\ SamePair(item, ride) /\ item.timedelta = ride.metres
              /\ ride.metres \in Int /\ ride.metres <= Ridden(stops, from, to)
      BY AsFastLater
    <2>9. \A item \in ItemsOfLines(GetBusesHolder(db)) :
              item.from = s /\ item.to = t => kept.timedelta <= item.timedelta
      BY <2>1, <2>2, RideOfGraph DEF SamePair
    <2>10. ride.from = s /\ ride.to = t /\ ride.metres \in Int
           /\ kept.timedelta <= ride.metres /\ ride.metres <= kept.timedelta
      BY <2>2, <2>7, <2>8, <2>9 DEF SamePair
    <2>11. kept.timedelta \in Int
      <3>1. id_to_edge \in Seq(Item)
        BY DEF RouterInvariant, ItemsFollowEdges
      <3>2. kept \in Item
        BY <2>1, <2>2, <3>1
      <3> QED
        BY <3>2 DEF Item
    <2> QED
      BY <2>1, <2>9, <2>10, <2>11
  <1>3. ASSUME NEW ride \in Rides, ride.from = s, ride.to = t
        PROVE  items # {}
    <2>1. PICK item \in ItemsOfLines(GetBusesHolder(db)) : item.from = s /\ item.to = t
      BY <1>1, <1>3
    <2>2. PICK kept \in RidesOf(Range(id_to_edge)) : SamePair(kept, item)
      BY DEF Ready, RouterInvariant, LoopsFollowCatalogue, RidesAreFastest
    <2>3. PICK id \in DOMAIN id_to_edge : kept = id_to_edge[id]
      BY <2>2 DEF RidesOf, Range
    <2>4. kept.bus # Null /\ kept.from = s /\ kept.to = t
      BY <2>1, <2>2 DEF RidesOf, SamePair
    <2> QED
      BY <2>3, <2>4
  <1>4. items = {} <=> times = {}
    BY <1>2, <1>3
  <1>5. ASSUME NEW id \in items
        PROVE  /\ id_to_edge[id].timedelta = Min(times) /\ id_to_edge[id].timedelta \in times
               /\ \A time \in times : id_to_edge[id].timedelta <= time
    <2>1. PICK least : least = id_to_edge[id].timedelta
      OBVIOUS
    <2>2. least \in times /\ least \in Int
      BY <1>2, <1>5, <2>1
    <2>3. \A time \in times : time \in Int /\ least <= time
      <3> SUFFICES ASSUME NEW ride \in Rides, ride.from = s, ride.to = t
                   PROVE  ride.metres \in Int /\ least <= ride.metres
        OBVIOUS
      <3>1. PICK item \in ItemsOfLines(GetBusesHolder(db)) :
                ride.metres \in Int /\ item.from = s /\ item.to = t /\ item.timedelta <= ride.metres
        BY <1>1
      <3>2. least <= item.timedelta
        BY <1>2, <1>5, <2>1, <3>1
      <3>3. item.timedelta \in Int
        BY <3>1, RideShape
           DEF Item, Ready, RouterInvariant, LoopsFollowCatalogue, RidesAreFastest
      <3> QED
        BY <2>2, <3>1, <3>2, <3>3
    <2> HIDE DEF times
    <2>4. Min(times) = least
      BY <2>2, <2>3, MinIsLeast
    <2> QED
      BY <2>1, <2>2, <2>3, <2>4
  <1>6. \A time \in times : items # {}
    BY <1>4
  <1> QED
    BY <1>4, <1>5, <1>6

\* The time of the edge is the least there is, and is there if there is a ride.
LEMMA TimesFollow ==
    ASSUME RouterInvariant, base \in Bases, NoNegativeRoads
    PROVE  RideTimesAreLeast
  <1> SUFFICES ASSUME building = "ready",
                      NEW s \in GetStopsHolder(db), NEW t \in GetStopsHolder(db), s # t
               PROVE  LET times == {ride.metres : ride \in {r \in Rides : r.from = s /\ r.to = t}}
                          items == {id \in DOMAIN id_to_edge :
                                      id_to_edge[id].bus # Null /\ id_to_edge[id].from = s
                                      /\ id_to_edge[id].to = t}
                      IN  /\ items = {} <=> times = {}
                          /\ \A id \in items : id_to_edge[id].timedelta = Min(times)
    BY DEF Ready, RideTimesAreLeast
  <1> QED
    BY LeastRides

\* Where no road is shorter than nothing, the ride the graph has from one stop to
\* another takes the time of the fastest, and there is one if a line goes there
\* (router.cpp:34-35).
THEOREM RideTimes ==
    ASSUME NoNegativeRoads
    PROVE  Spec => []RideTimesAreLeast
  <1>1. (base \in Bases) /\ RouterInvariant => RideTimesAreLeast
    BY TimesFollow
  <1> QED
    BY <1>1, BaseChosen, RouterInvariance, PTL

-----------------------------------------------------------------------------
(* What the planner and the passengers move along. *)

\* The router stands, over a catalogue whose roads are not negative.
Served ==
    RouterInvariant /\ building = "ready" /\ base \in Bases /\ NoNegativeRoads

\* All rides start and end at stops that have names, and take some time.
LEMMA RidesTakeTime ==
    ASSUME Served, NEW ride \in Rides
    PROVE  /\ ride.from \in GetStopsHolder(db) /\ ride.to \in GetStopsHolder(db)
           /\ ride.metres \in Nat
  <1>0. /\ RouterInvariant /\ building = "ready" /\ base \in Bases /\ NoNegativeRoads
        /\ stage = "populated" /\ PopulateInvariant /\ PopulateTypeOK
    BY DEF Served, RouterInvariant, LoopsFollowCatalogue, PopulateInvariant
  <1>1. PICK ptr \in GetBusesHolder(db) :
          \E stops \in Range(Directions(db.buses[ptr])) :
            \E from \in DOMAIN stops : \E to \in DOMAIN stops :
                /\ from < to
                /\ \A k \in from + 1 .. to : Distance(db, stops[k - 1], stops[k]) # Null
                /\ ride = [from |-> stops[from], to |-> stops[to], bus |-> ptr,
                           legs |-> to - from, metres |-> RiddenAllLegs(stops, from, to)]
    BY RidesAre
  <1>2. PICK stops \in Range(Directions(db.buses[ptr])) :
            \E from \in DOMAIN stops : \E to \in DOMAIN stops :
                /\ from < to
                /\ \A k \in from + 1 .. to : Distance(db, stops[k - 1], stops[k]) # Null
                /\ ride = [from |-> stops[from], to |-> stops[to], bus |-> ptr,
                           legs |-> to - from, metres |-> RiddenAllLegs(stops, from, to)]
    BY <1>1
  <1>3. PICK from \in DOMAIN stops :
            \E to \in DOMAIN stops :
                /\ from < to
                /\ \A k \in from + 1 .. to : Distance(db, stops[k - 1], stops[k]) # Null
                /\ ride = [from |-> stops[from], to |-> stops[to], bus |-> ptr,
                           legs |-> to - from, metres |-> RiddenAllLegs(stops, from, to)]
    BY <1>2
  <1>4. PICK to \in DOMAIN stops :
            /\ from < to
            /\ \A k \in from + 1 .. to : Distance(db, stops[k - 1], stops[k]) # Null
            /\ ride = [from |-> stops[from], to |-> stops[to], bus |-> ptr,
                       legs |-> to - from, metres |-> RiddenAllLegs(stops, from, to)]
    BY <1>3
  <1>5. stops \in Seq(GetStopsHolder(db))
    BY <1>0, <1>2, LinesScanned
  <1>6. PICK n \in Nat : n = Len(stops) /\ DOMAIN stops = 1 .. n
    BY <1>5
  <1>7. from \in Nat /\ to \in Nat /\ from >= 1 /\ to <= n
    BY <1>6
  <1>8. \A k \in from + 1 .. to : Distance(db, stops[k - 1], stops[k]) \in Nat
    <2> SUFFICES ASSUME NEW k \in from + 1 .. to PROVE Distance(db, stops[k - 1], stops[k]) \in Nat
      OBVIOUS
    <2>1. k - 1 \in 1 .. n /\ k \in 1 .. n
      BY <1>7
    <2>2. PICK s \in GetStopsHolder(db) : s = stops[k - 1]
      BY <1>5, <1>6, <2>1
    <2>3. PICK t \in GetStopsHolder(db) : t = stops[k]
      BY <1>5, <1>6, <2>1
    <2>4. Distance(db, s, t) # Null
      BY <1>4, <2>2, <2>3
    <2>5. Distance(db, s, t) \in Int
      BY <1>0, <2>4, DistanceType
    <2>6. Distance(db, s, t) >= 0
      BY <1>0, <2>5, DistancesNotNegative
    <2> QED
      BY <2>2, <2>3, <2>5, <2>6
  <1>9. RiddenAllLegs(stops, from, to) \in Nat
    <2>1. PICK legs : legs = from + 1 .. to
      OBVIOUS
    <2>2. \A k \in legs : Distance(db, stops[k - 1], stops[k]) \in Nat
      BY <1>8, <2>1
    <2>3. PICK m \in [Nat -> Int] :
              /\ m[0] = 0
              /\ \A k \in Nat \ {0} :
                    m[k] = m[k - 1] + IF k \in legs THEN Distance(db, stops[k - 1], stops[k]) ELSE 0
              /\ \A k \in Nat : Metres(stops, legs, k) = m[k]
      <3>1. \A k \in legs : Distance(db, stops[k - 1], stops[k]) \in Int
        BY <2>2
      <3> QED
        BY <3>1, MetresSteps
    <2> DEFINE S == {k \in Nat : m[k] >= 0}
    <2>4. 0 \in S
      BY <2>3
    <2>5. ASSUME NEW k \in Nat, k \in S
          PROVE  k + 1 \in S
      <3>1. PICK j \in Nat \ {0} : j = k + 1 /\ j - 1 = k
        OBVIOUS
      <3>2. m[j] = m[k] + IF j \in legs THEN Distance(db, stops[j - 1], stops[j]) ELSE 0
        BY <2>3, <3>1
      <3>3. CASE j \in legs
        <4>1. PICK d \in Nat : d = Distance(db, stops[j - 1], stops[j])
          BY <2>2, <3>3
        <4>2. m[j] = m[k] + d
          BY <3>2, <3>3, <4>1
        <4> QED
          BY <2>5, <3>1, <4>2
      <3>4. CASE j \notin legs
        BY <2>5, <3>1, <3>2, <3>4
      <3> QED
        BY <3>3, <3>4
    <2> HIDE DEF S
    <2>6. to \in S
      BY <1>7, <2>4, <2>5, SetInduction
    <2> QED
      BY <1>7, <2>1, <2>3, <2>6 DEF S, RiddenAllLegs
  <1>10. stops[from] \in GetStopsHolder(db) /\ stops[to] \in GetStopsHolder(db)
    BY <1>5
  <1> QED
    BY <1>4, <1>9, <1>10

\* The vertices of the graph.
Vertex == Vertices(2 * Len(db.stops))

\* The edges of the graph, what they are for and what they weigh.
LEMMA EdgesServe ==
    ASSUME Served, NEW id \in DOMAIN graph.edges
    PROVE  /\ id \in Nat /\ id \in ListedEdges(graph) /\ DOMAIN graph.edges = DOMAIN id_to_edge
           /\ graph.edges[id].from \in Vertex /\ graph.edges[id].to \in Vertex
           /\ graph.edges[id].weight \in Nat
           /\ graph.edges[id].weight = id_to_edge[id].timedelta
           /\ id_to_edge[id].bus # Null =>
                \E ride \in Rides : /\ ride.from = id_to_edge[id].from /\ ride.to = id_to_edge[id].to
                                    /\ ride.metres = graph.edges[id].weight
  <1>0. /\ RouterInvariant /\ building = "ready" /\ base \in Bases /\ NoNegativeRoads
    BY DEF Served
  <1>1. PICK edge : edge = graph.edges[id]
    OBVIOUS
  <1>2. PICK item : item = id_to_edge[id]
    OBVIOUS
  <1>3. /\ DOMAIN graph.edges = DOMAIN id_to_edge /\ item \in Item
        /\ item.from \in GetStopsHolder(db) /\ item.to \in GetStopsHolder(db)
        /\ edge.weight = item.timedelta
        /\ item.bus = Null => item.timedelta = WaitTime
        /\ item.bus # Null => item.from # item.to
        /\ {edge.from, edge.to} \subseteq 0 .. 2 * Len(db.stops) - 1
    BY <1>0, <1>1, <1>2, EdgeIsOfItem
  <1>4. ASSUME item.bus # Null
        PROVE  \E ride \in Rides : ride.from = item.from /\ ride.to = item.to /\ ride.metres = edge.weight
    <2>1. item.from # item.to /\ id \in DOMAIN id_to_edge
      BY <1>3, <1>4
    <2>2. id_to_edge[id].timedelta \in
            {ride.metres : ride \in {r \in Rides : r.from = item.from /\ r.to = item.to}}
      BY <1>0, <1>2, <1>3, <1>4, <2>1, LeastRides
    <2> QED
      BY <1>2, <1>3, <2>2
  <1>5. edge.weight \in Nat
    <2>1. CASE item.bus = Null
      BY <1>3, <2>1, TransportRouterAssumption
    <2>2. CASE item.bus # Null
      BY <1>4, <2>2, RidesTakeTime
    <2> QED
      BY <2>1, <2>2
  <1>6. id \in Nat
    <2>1. id_to_edge \in Seq(Item)
      BY <1>0 DEF RouterInvariant, ItemsFollowEdges
    <2> QED
      BY <1>3, <2>1
  <1>7. edge.from \in Vertex /\ edge.to \in Vertex
    BY <1>3 DEF Vertex, Vertices
  <1>8. id \in ListedEdges(graph)
    <2>1. DOMAIN graph.incidence_lists = Vertex
      BY <1>0 DEF RouterInvariant, LoopsFollowCatalogue, Vertex
    <2> QED
      BY <1>1, <1>7, <2>1 DEF ListedEdges, GetEdge
  <1> QED
    BY <1>1, <1>2, <1>3, <1>4, <1>5, <1>6, <1>7, <1>8

-----------------------------------------------------------------------------
(* The walks of the planner in the graph. *)

\* The walks of the planner, from vertex to vertex.
WalkRecord == [edges : Seq(Nat), weight : Nat, end : Vertex]

\* The walks of one edge more, by their last edge.
LEMMA LongerWalks ==
    ASSUME Served, NEW walks \in SUBSET WalkRecord
    PROVE  /\ walks \subseteq Planner!Longer(walks)
           /\ \A w \in walks : \A id \in DOMAIN graph.edges :
                graph.edges[id].from = w.end => Planner!Extended(w, id) \in Planner!Longer(walks)
           /\ \A w \in Planner!Longer(walks) : w \notin walks =>
                \E front \in walks : \E id \in DOMAIN graph.edges :
                    graph.edges[id].from = front.end /\ w = Planner!Extended(front, id)
           /\ \A w \in walks : \A id \in DOMAIN graph.edges : Planner!Extended(w, id) \in WalkRecord
           /\ Planner!Longer(walks) \in SUBSET WalkRecord
  <1>1. \A w : w \in Planner!Longer(walks) <=>
            \E front \in walks :
              w = front \/ \E id \in Planner!Leaving(front) : w = Planner!Extended(front, id)
    BY DEF Planner!Longer
  <1>2. \A front : \A id : id \in Planner!Leaving(front) <=>
            id \in DOMAIN graph.edges /\ graph.edges[id].from = front.end
    <2>1. Planner!ListedEdges(graph) = DOMAIN graph.edges
      BY EdgesServe DEF Planner!ListedEdges, ListedEdges, Planner!GetEdge, GetEdge
    <2> QED
      BY <2>1 DEF Planner!Leaving
  <1>3. ASSUME NEW w \in walks, NEW id \in DOMAIN graph.edges
        PROVE  Planner!Extended(w, id) \in WalkRecord
    <2>1. id \in Nat /\ graph.edges[id].to \in Vertex /\ graph.edges[id].weight \in Nat
      BY EdgesServe
    <2>2. w.edges \in Seq(Nat) /\ w.weight \in Nat
      BY DEF WalkRecord
    <2>3. Append(w.edges, id) \in Seq(Nat) /\ w.weight + graph.edges[id].weight \in Nat
      BY <2>1, <2>2
    <2> QED
      BY <2>1, <2>3 DEF WalkRecord, Planner!Extended
  <1>4. walks \subseteq Planner!Longer(walks)
    BY <1>1
  <1>5. \A w \in walks : \A id \in DOMAIN graph.edges :
            graph.edges[id].from = w.end => Planner!Extended(w, id) \in Planner!Longer(walks)
    BY <1>1, <1>2
  <1>6. \A w \in Planner!Longer(walks) : w \notin walks =>
            \E front \in walks : \E id \in DOMAIN graph.edges :
                graph.edges[id].from = front.end /\ w = Planner!Extended(front, id)
    BY <1>1, <1>2
  <1>7. Planner!Longer(walks) \in SUBSET WalkRecord
    BY <1>3, <1>6
  <1> QED
    BY <1>3, <1>4, <1>5, <1>6, <1>7

\* The walks from a vertex by the most edges they may have.
WalksFrom(f, source) ==
    /\ f \in [Nat -> SUBSET WalkRecord]
    /\ f[0] = {Planner!Staying(source)}
    /\ \A n \in Nat : f[n + 1] = Planner!Longer(f[n])

\* The planner's walks of at most n edges: the first it lists, and what one edge more
\* makes of them (RoutePlanner).
LEMMA WalksByLength ==
    ASSUME Served, NEW source \in Vertex, MaxStopCount > 0
    PROVE  \E f : WalksFrom(f, source) /\ Planner!Walks(source) = f[2 * MaxStopCount - 1]
  <1> DEFINE step == [walks \in SUBSET WalkRecord |-> Planner!Longer(walks)]
             Unfolds(f) == f = [n \in Nat |-> IF n = 0 THEN {Planner!Staying(source)}
                                              ELSE Planner!Longer(f[n - 1])]
             walks == CHOOSE f : Unfolds(f)
  <1>1. {Planner!Staying(source)} \in SUBSET WalkRecord
    BY DEF Planner!Staying, WalkRecord
  <1>2. step \in [SUBSET WalkRecord -> SUBSET WalkRecord]
    BY LongerWalks
  <1>3. PICK f \in [Nat -> SUBSET WalkRecord] :
            f = [n \in Nat |-> IF n = 0 THEN {Planner!Staying(source)} ELSE step[f[n - 1]]]
    <2>1. PICK T : T = SUBSET WalkRecord
      OBVIOUS
    <2>2. PICK start \in T : start = {Planner!Staying(source)}
      BY <1>1, <2>1
    <2>3. PICK next \in [T -> T] : next = step
      BY <1>2, <2>1
    <2> HIDE DEF step
    <2>4. \E f \in [Nat -> T] : f = [n \in Nat |-> IF n = 0 THEN start ELSE next[f[n - 1]]]
      BY RecursionOnNat
    <2> QED
      BY <2>1, <2>2, <2>3, <2>4
  <1>4. \A n \in Nat : f[n] = IF n = 0 THEN {Planner!Staying(source)} ELSE Planner!Longer(f[n - 1])
    <2>1. \A n \in Nat \ {0} : step[f[n - 1]] = Planner!Longer(f[n - 1])
      <3>1. \A n \in Nat \ {0} : f[n - 1] \in SUBSET WalkRecord
        OBVIOUS
      <3> QED
        BY <3>1
    <2> HIDE DEF step
    <2> QED
      BY <1>3, <2>1
  <1>5. Unfolds(f)
    BY <1>4
  <1>6. Unfolds(walks)
    BY <1>5
  <1>7. walks[2 * MaxStopCount - 1] = Planner!Walks(source)
    BY DEF Planner!Walks
  <1>8. PICK g : g = walks
    OBVIOUS
  <1>9. g = [n \in Nat |-> IF n = 0 THEN {Planner!Staying(source)} ELSE Planner!Longer(g[n - 1])]
    BY <1>6, <1>8
  <1>10. \A n \in Nat : g[n] = f[n]
    <2> DEFINE S == {n \in Nat : g[n] = f[n]}
    <2>1. 0 \in S
      BY <1>4, <1>9
    <2>2. ASSUME NEW n \in Nat, n \in S
          PROVE  n + 1 \in S
      <3>1. PICK m \in Nat : m = n + 1 /\ m # 0 /\ m - 1 = n
        OBVIOUS
      <3>2. f[m] = Planner!Longer(f[m - 1]) /\ g[m] = Planner!Longer(g[m - 1])
        BY <1>4, <1>9, <3>1
      <3> QED
        BY <2>2, <3>1, <3>2
    <2> HIDE DEF S
    <2>3. \A n \in Nat : n \in S
      BY <2>1, <2>2, SetInduction
    <2> QED
      BY <2>3 DEF S
  <1>11. WalksFrom(f, source)
    <2>1. \A n \in Nat : f[n + 1] = Planner!Longer(f[n])
      <3> SUFFICES ASSUME NEW n \in Nat PROVE f[n + 1] = Planner!Longer(f[n])
        OBVIOUS
      <3>1. PICK m \in Nat : m = n + 1 /\ m # 0 /\ m - 1 = n
        OBVIOUS
      <3>2. f[m] = Planner!Longer(f[m - 1])
        BY <1>4, <3>1
      <3> QED
        BY <3>1, <3>2
    <2>2. f[0] = {Planner!Staying(source)}
      BY <1>4
    <2> QED
      BY <2>1, <2>2 DEF WalksFrom
  <1>12. 2 * MaxStopCount - 1 \in Nat
    BY TransportRouterAssumption
  <1> QED
    BY <1>7, <1>8, <1>10, <1>11, <1>12

\* Where the walks end, and at what weight.
Ends(f) == [n \in Nat |-> {<<w.end, w.weight>> : w \in f[n]}]

\* What the edges do: from a vertex to a vertex, at a weight.
Hops == {<<graph.edges[id].from, graph.edges[id].to, graph.edges[id].weight>> : id \in DOMAIN graph.edges}

\* Where they end, and how heavy they are, is what edges lead to, one after another.
LEMMA WalksReach ==
    ASSUME Served, NEW source, NEW f, WalksFrom(f, source)
    PROVE  IsReach(Vertex, Hops, Ends(f))
  <1> DEFINE R == Ends(f)
  <1>0. \A n \in Nat : f[n] \in SUBSET WalkRecord /\ f[n + 1] = Planner!Longer(f[n])
    BY DEF WalksFrom
  <1>1. R \in [Nat -> SUBSET (Vertex \X Nat)]
    <2>1. \A w \in WalkRecord : w.end \in Vertex /\ w.weight \in Nat
      BY DEF WalkRecord
    <2>2. \A n \in Nat : \A w \in f[n] : <<w.end, w.weight>> \in Vertex \X Nat
      BY <1>0, <2>1
    <2> QED
      BY <2>2 DEF Ends
  <1>2. Hops \subseteq Vertex \X Vertex \X Nat
    BY EdgesServe DEF Hops
  <1>3. \A n \in Nat : R[n] \subseteq R[n + 1]
    BY <1>0, LongerWalks DEF Ends
  <1>4. ASSUME NEW n \in Nat, NEW x \in Vertex, NEW t \in Nat, <<x, t>> \in R[n + 1] \ R[n]
        PROVE  \E p \in Vertex : \E s, c \in Nat : <<p, s>> \in R[n] /\ <<p, x, c>> \in Hops /\ t = s + c
    <2>1. PICK w \in f[n + 1] : x = w.end /\ t = w.weight
      BY <1>4 DEF Ends
    <2>2. w \notin f[n]
      BY <1>4, <2>1 DEF Ends
    <2>3. PICK front \in f[n] : \E id \in DOMAIN graph.edges :
                graph.edges[id].from = front.end /\ w = Planner!Extended(front, id)
      BY <1>0, <2>1, <2>2, LongerWalks
    <2>4. PICK id \in DOMAIN graph.edges :
                graph.edges[id].from = front.end /\ w = Planner!Extended(front, id)
      BY <2>3
    <2>5. PICK p \in Vertex, s \in Nat, c \in Nat :
            p = front.end /\ s = front.weight /\ c = graph.edges[id].weight
      BY <1>0, <2>3, EdgesServe DEF WalkRecord
    <2>6. x = graph.edges[id].to /\ t = s + c
      BY <2>1, <2>4, <2>5 DEF Planner!Extended
    <2>7. <<p, s>> \in R[n]
      BY <2>3, <2>5 DEF Ends
    <2>8. <<p, x, c>> \in Hops
      BY <2>4, <2>5, <2>6 DEF Hops
    <2> QED
      BY <2>6, <2>7, <2>8
  <1>5. ASSUME NEW n \in Nat, NEW p \in Vertex, NEW x \in Vertex, NEW s \in Nat, NEW c \in Nat,
               <<p, s>> \in R[n], <<p, x, c>> \in Hops
        PROVE  <<x, s + c>> \in R[n + 1]
    <2>1. PICK w \in f[n] : p = w.end /\ s = w.weight
      BY <1>5 DEF Ends
    <2>2. PICK id \in DOMAIN graph.edges :
            p = graph.edges[id].from /\ x = graph.edges[id].to /\ c = graph.edges[id].weight
      BY <1>5 DEF Hops
    <2>3. PICK longer : longer = Planner!Extended(w, id)
      OBVIOUS
    <2>4. longer \in f[n + 1]
      <3>1. PICK walks \in SUBSET WalkRecord : walks = f[n] /\ f[n + 1] = Planner!Longer(walks)
        BY <1>0
      <3>2. \A w0 \in walks : \A i \in DOMAIN graph.edges :
                graph.edges[i].from = w0.end => Planner!Extended(w0, i) \in Planner!Longer(walks)
        BY LongerWalks
      <3> QED
        BY <2>1, <2>2, <2>3, <3>1, <3>2
    <2>5. longer.end = x /\ longer.weight = s + c
      BY <2>1, <2>2, <2>3 DEF Planner!Extended
    <2> QED
      BY <2>4, <2>5 DEF Ends
  <1> HIDE DEF R
  <1>6. IsReach(Vertex, Hops, R)
    BY <1>1, <1>2, <1>3, <1>4, <1>5 DEF IsReach
  <1> QED
    BY <1>6 DEF R

-----------------------------------------------------------------------------
(* The journeys by the lines. *)

\* Where passengers are, and when.
Position == [stop : GetStopsHolder(db), time : Nat]

\* The rides, whatever the bus.
Moves == {[from |-> r.from, to |-> r.to, metres |-> r.metres] : r \in Rides}

\* What passengers that are somewhere do next.
LEMMA OnwardPlaces ==
    ASSUME Served, NEW places \in SUBSET Position
    PROVE  /\ places \subseteq Onward(places, Moves)
           /\ \A r \in places : \A ride \in Rides : ride.from = r.stop =>
                [stop |-> ride.to, time |-> r.time + WaitTime + ride.metres] \in Onward(places, Moves)
           /\ \A q \in Onward(places, Moves) : q \notin places =>
                \E r \in places : \E ride \in Rides :
                    /\ ride.from = r.stop
                    /\ q = [stop |-> ride.to, time |-> r.time + WaitTime + ride.metres]
           /\ Onward(places, Moves) \in SUBSET Position
  <1>1. ASSUME NEW q
        PROVE  q \in Onward(places, Moves) <=>
                 q \in places \/ \E r \in places : \E move \in Moves :
                    /\ move.from = r.stop
                    /\ q = [stop |-> move.to, time |-> r.time + WaitTime + move.metres]
    <2>1. \A r : \A p : p \in {[stop |-> ride.to, time |-> r.time + WaitTime + ride.metres] :
                                    ride \in {i \in Moves : i.from = r.stop}}
                        <=> \E move \in Moves : /\ move.from = r.stop
                                    /\ p = [stop |-> move.to, time |-> r.time + WaitTime + move.metres]
      OBVIOUS
    <2> QED
      BY <2>1 DEF Onward
  <1>2. ASSUME NEW ride \in Rides
        PROVE  \E move \in Moves :
                    move.from = ride.from /\ move.to = ride.to /\ move.metres = ride.metres
    <2>1. PICK move : move = [from |-> ride.from, to |-> ride.to, metres |-> ride.metres]
      OBVIOUS
    <2>2. move \in Moves
      BY <2>1 DEF Moves
    <2> QED
      BY <2>1, <2>2
  <1>3. ASSUME NEW move \in Moves
        PROVE  \E ride \in Rides :
                    move.from = ride.from /\ move.to = ride.to /\ move.metres = ride.metres
    BY DEF Moves
  <1>4. places \subseteq Onward(places, Moves)
    BY <1>1
  <1>5. ASSUME NEW r \in places, NEW ride \in Rides, ride.from = r.stop
        PROVE  [stop |-> ride.to, time |-> r.time + WaitTime + ride.metres] \in Onward(places, Moves)
    <2>1. PICK move \in Moves :
                    move.from = ride.from /\ move.to = ride.to /\ move.metres = ride.metres
      BY <1>2
    <2> QED
      BY <1>1, <1>5, <2>1
  <1>6. ASSUME NEW q \in Onward(places, Moves), q \notin places
        PROVE  \E r \in places : \E ride \in Rides :
                    /\ ride.from = r.stop
                    /\ q = [stop |-> ride.to, time |-> r.time + WaitTime + ride.metres]
    <2>1. PICK r \in places : \E move \in Moves :
                    /\ move.from = r.stop
                    /\ q = [stop |-> move.to, time |-> r.time + WaitTime + move.metres]
      BY <1>1, <1>6
    <2>2. PICK move \in Moves :
                    /\ move.from = r.stop
                    /\ q = [stop |-> move.to, time |-> r.time + WaitTime + move.metres]
      BY <2>1
    <2>3. PICK ride \in Rides :
                    move.from = ride.from /\ move.to = ride.to /\ move.metres = ride.metres
      BY <1>3
    <2> QED
      BY <2>2, <2>3
  <1>7. ASSUME NEW r \in places, NEW ride \in Rides
        PROVE  [stop |-> ride.to, time |-> r.time + WaitTime + ride.metres] \in Position
    <2>1. ride.to \in GetStopsHolder(db) /\ ride.metres \in Nat
      BY RidesTakeTime
    <2>2. r.time \in Nat
      BY DEF Position
    <2>3. r.time + WaitTime + ride.metres \in Nat
      BY <2>1, <2>2, TransportRouterAssumption
    <2> QED
      BY <2>1, <2>3 DEF Position
  <1>8. Onward(places, Moves) \in SUBSET Position
    <2> SUFFICES ASSUME NEW q \in Onward(places, Moves) PROVE q \in Position
      OBVIOUS
    <2>1. CASE q \in places
      BY <2>1
    <2>2. CASE q \notin places
      BY <1>6, <1>7, <2>2
    <2> QED
      BY <2>1, <2>2
  <1> QED
    BY <1>4, <1>5, <1>6, <1>8

\* Where passengers can be from a stop by the most rides they may take.
JourneysFrom(f, start) ==
    /\ f \in [Nat -> SUBSET Position]
    /\ f[0] = {[stop |-> start, time |-> 0]}
    /\ \A n \in Nat : f[n + 1] = Onward(f[n], Moves)

\* What Reached lists is where passengers are after one ride more, and one more.
LEMMA JourneysByLength ==
    ASSUME Served, NEW start \in GetStopsHolder(db)
    PROVE  \E f : JourneysFrom(f, start) /\ Reached(start) = f[Len(db.stops)]
  <1> DEFINE step == [places \in SUBSET Position |-> Onward(places, Moves)]
             here == [stop |-> start, time |-> 0]
             Unfolds(f) == f = [n \in Nat |-> IF n = 0 THEN {here} ELSE Onward(f[n - 1], Moves)]
             places == CHOOSE f : Unfolds(f)
  <1>1. {here} \in SUBSET Position
    BY DEF Position
  <1>2. step \in [SUBSET Position -> SUBSET Position]
    BY OnwardPlaces
  <1>3. PICK f \in [Nat -> SUBSET Position] :
            f = [n \in Nat |-> IF n = 0 THEN {here} ELSE step[f[n - 1]]]
    <2>1. PICK T : T = SUBSET Position
      OBVIOUS
    <2>2. PICK first \in T : first = {here}
      BY <1>1, <2>1
    <2>3. PICK next \in [T -> T] : next = step
      BY <1>2, <2>1
    <2> HIDE DEF step, here
    <2>4. \E f \in [Nat -> T] : f = [n \in Nat |-> IF n = 0 THEN first ELSE next[f[n - 1]]]
      BY RecursionOnNat
    <2> QED
      BY <2>1, <2>2, <2>3, <2>4
  <1>4. \A n \in Nat : f[n] = IF n = 0 THEN {here} ELSE Onward(f[n - 1], Moves)
    <2>1. \A n \in Nat \ {0} : step[f[n - 1]] = Onward(f[n - 1], Moves)
      <3>1. \A n \in Nat \ {0} : f[n - 1] \in SUBSET Position
        OBVIOUS
      <3> QED
        BY <3>1
    <2> HIDE DEF step, here
    <2> QED
      BY <1>3, <2>1
  <1>5. Unfolds(f)
    <2> HIDE DEF here
    <2> QED
      BY <1>4
  <1>6. Unfolds(places)
    BY <1>5
  <1>7. places[Len(db.stops)] = Reached(start)
    BY DEF Reached, Moves
  <1>8. PICK g : g = places
    OBVIOUS
  <1>9. g = [n \in Nat |-> IF n = 0 THEN {here} ELSE Onward(g[n - 1], Moves)]
    BY <1>6, <1>8
  <1> HIDE DEF here
  <1>10. \A n \in Nat : g[n] = f[n]
    <2> DEFINE S == {n \in Nat : g[n] = f[n]}
    <2>1. 0 \in S
      BY <1>4, <1>9
    <2>2. ASSUME NEW n \in Nat, n \in S
          PROVE  n + 1 \in S
      <3>1. PICK m \in Nat : m = n + 1 /\ m # 0 /\ m - 1 = n
        OBVIOUS
      <3>2. f[m] = Onward(f[m - 1], Moves) /\ g[m] = Onward(g[m - 1], Moves)
        BY <1>4, <1>9, <3>1
      <3> QED
        BY <2>2, <3>1, <3>2
    <2> HIDE DEF S
    <2>3. \A n \in Nat : n \in S
      BY <2>1, <2>2, SetInduction
    <2> QED
      BY <2>3 DEF S
  <1>11. JourneysFrom(f, start)
    <2>1. \A n \in Nat : f[n + 1] = Onward(f[n], Moves)
      <3> SUFFICES ASSUME NEW n \in Nat PROVE f[n + 1] = Onward(f[n], Moves)
        OBVIOUS
      <3>1. PICK m \in Nat : m = n + 1 /\ m # 0 /\ m - 1 = n
        OBVIOUS
      <3>2. f[m] = Onward(f[m - 1], Moves)
        BY <1>4, <3>1
      <3> QED
        BY <3>1, <3>2
    <2>2. f[0] = {[stop |-> start, time |-> 0]}
      BY <1>4 DEF here
    <2> QED
      BY <2>1, <2>2 DEF JourneysFrom
  <1>12. Len(db.stops) \in Nat
    BY DEF Served, RouterInvariant, PopulateInvariant, PopulateTypeOK
  <1> QED
    BY <1>7, <1>8, <1>10, <1>11, <1>12

\* Which stops can be reached, and when.
Times(f) == [n \in Nat |-> {<<r.stop, r.time>> : r \in f[n]}]

\* What waiting and riding do: from a stop to a stop, in a time.
JourneyHops == {<<ride.from, ride.to, WaitTime + ride.metres>> : ride \in Rides}

\* Where passengers are, and when, is what a wait and a ride lead to, one after another.
LEMMA JourneysReach ==
    ASSUME Served, NEW start, NEW f, JourneysFrom(f, start)
    PROVE  IsReach(GetStopsHolder(db), JourneyHops, Times(f))
  <1> DEFINE R == Times(f)
  <1>00. PICK X : X = GetStopsHolder(db)
    OBVIOUS
  <1>0. \A n \in Nat : f[n] \in SUBSET Position /\ f[n + 1] = Onward(f[n], Moves)
    BY DEF JourneysFrom
  <1>1. R \in [Nat -> SUBSET (X \X Nat)]
    <2>1. \A r \in Position : r.stop \in X /\ r.time \in Nat
      BY <1>00 DEF Position
    <2>2. \A n \in Nat : \A r \in f[n] : <<r.stop, r.time>> \in X \X Nat
      BY <1>0, <2>1
    <2> QED
      BY <2>2 DEF Times
  <1>2. JourneyHops \subseteq X \X X \X Nat
    <2> SUFFICES ASSUME NEW ride \in Rides
                 PROVE  <<ride.from, ride.to, WaitTime + ride.metres>> \in X \X X \X Nat
      BY DEF JourneyHops
    <2>1. ride.from \in X /\ ride.to \in X /\ ride.metres \in Nat
      BY <1>00, RidesTakeTime
    <2> QED
      BY <2>1, TransportRouterAssumption
  <1>3. \A n \in Nat : R[n] \subseteq R[n + 1]
    BY <1>0, OnwardPlaces DEF Times
  <1>4. ASSUME NEW n \in Nat, NEW x \in X, NEW t \in Nat, <<x, t>> \in R[n + 1] \ R[n]
        PROVE  \E p \in X : \E s, c \in Nat : <<p, s>> \in R[n] /\ <<p, x, c>> \in JourneyHops /\ t = s + c
    <2>1. PICK q \in f[n + 1] : x = q.stop /\ t = q.time
      BY <1>4 DEF Times
    <2>2. q \notin f[n]
      BY <1>4, <2>1 DEF Times
    <2>3. PICK r \in f[n] : \E ride \in Rides :
                    /\ ride.from = r.stop
                    /\ q = [stop |-> ride.to, time |-> r.time + WaitTime + ride.metres]
      BY <1>0, <2>1, <2>2, OnwardPlaces
    <2>4. PICK ride \in Rides :
                    /\ ride.from = r.stop
                    /\ q = [stop |-> ride.to, time |-> r.time + WaitTime + ride.metres]
      BY <2>3
    <2>5. PICK p \in X, s \in Nat : p = r.stop /\ s = r.time
      BY <1>0, <1>00, <2>3 DEF Position
    <2>6. PICK m \in Nat : m = ride.metres
      BY RidesTakeTime
    <2>7. PICK c \in Nat : c = WaitTime + m
      BY TransportRouterAssumption
    <2>8. x = ride.to /\ t = s + c
      BY <2>1, <2>4, <2>5, <2>6, <2>7, TransportRouterAssumption
    <2>9. <<p, s>> \in R[n]
      BY <2>3, <2>5 DEF Times
    <2>10. <<p, x, c>> \in JourneyHops
      BY <2>4, <2>5, <2>6, <2>7, <2>8 DEF JourneyHops
    <2> QED
      BY <2>8, <2>9, <2>10
  <1>5. ASSUME NEW n \in Nat, NEW p \in X, NEW x \in X, NEW s \in Nat, NEW c \in Nat,
               <<p, s>> \in R[n], <<p, x, c>> \in JourneyHops
        PROVE  <<x, s + c>> \in R[n + 1]
    <2>1. PICK r \in f[n] : p = r.stop /\ s = r.time
      BY <1>5 DEF Times
    <2>2. PICK ride \in Rides : p = ride.from /\ x = ride.to /\ c = WaitTime + ride.metres
      BY <1>5 DEF JourneyHops
    <2>3. PICK q : q = [stop |-> ride.to, time |-> r.time + WaitTime + ride.metres]
      OBVIOUS
    <2>4. q \in f[n + 1]
      <3>1. PICK places \in SUBSET Position : places = f[n] /\ f[n + 1] = Onward(places, Moves)
        BY <1>0
      <3>2. \A at \in places : \A move \in Rides : move.from = at.stop =>
                [stop |-> move.to, time |-> at.time + WaitTime + move.metres] \in Onward(places, Moves)
        BY OnwardPlaces
      <3> QED
        BY <2>1, <2>2, <2>3, <3>1, <3>2
    <2>5. q.stop = x /\ q.time = s + c
      <3>1. ride.metres \in Nat
        BY RidesTakeTime
      <3> QED
        BY <2>1, <2>2, <2>3, <3>1, TransportRouterAssumption
    <2> QED
      BY <2>4, <2>5 DEF Times
  <1> HIDE DEF R
  <1>6. IsReach(X, JourneyHops, R)
    BY <1>1, <1>2, <1>3, <1>4, <1>5 DEF IsReach
  <1> QED
    BY <1>00, <1>6 DEF R

-----------------------------------------------------------------------------
(* A journey is a walk, a walk is a journey. *)

\* Where passengers arrive at a stop, and where they board.
Arrival(stop) == stop_to_transfer[stop].second
Boarding(stop) == stop_to_transfer[stop].first

\* The vertices of the stops are their own.
LEMMA VerticesDiffer ==
    ASSUME Served, NEW s \in GetStopsHolder(db)
    PROVE  /\ Arrival(s) \in Vertex /\ Boarding(s) \in Vertex
           /\ \A t \in GetStopsHolder(db) : /\ Arrival(s) # Boarding(t)
                                            /\ Arrival(s) = Arrival(t) => s = t
                                            /\ Boarding(s) = Boarding(t) => s = t
  <1>1. DOMAIN stop_to_transfer = GetStopsHolder(db) /\ RouterInvariant
    BY DEF Served, RouterInvariant, TransfersFollowStops
  <1>2. Arrival(s) \in Vertex /\ Boarding(s) \in Vertex /\ Arrival(s) # Boarding(s)
    BY <1>1, VerticesFit DEF Arrival, Boarding, Vertex, Vertices
  <1>3. ASSUME NEW t \in GetStopsHolder(db), s # t
        PROVE  Arrival(s) # Boarding(t) /\ Arrival(s) # Arrival(t) /\ Boarding(s) # Boarding(t)
    <2>1. {Boarding(s), Arrival(s)} \cap {Boarding(t), Arrival(t)} = {}
      BY <1>1, <1>3, VerticesFit DEF Arrival, Boarding
    <2> QED
      BY <2>1
  <1> QED
    BY <1>2, <1>3

\* Every stop with a name has an edge to wait there, of the wait time (router.cpp:17-23).
LEMMA WaitThere ==
    ASSUME Served, NEW s \in GetStopsHolder(db)
    PROVE  \E id \in DOMAIN graph.edges : /\ graph.edges[id].from = Arrival(s)
                                          /\ graph.edges[id].to = Boarding(s)
                                          /\ graph.edges[id].weight = WaitTime
  <1>1. RouterInvariant /\ WaitsAt(Range(id_to_edge)) = GetStopsHolder(db)
    BY DEF Served, RouterInvariant, WaitsFollowStops
  <1>2. PICK item \in Range(id_to_edge) : item.bus = Null /\ item.from = s
    BY <1>1 DEF WaitsAt
  <1>3. PICK id \in DOMAIN id_to_edge : id_to_edge[id] = item
    BY <1>2 DEF Range
  <1>4. DOMAIN graph.edges = DOMAIN id_to_edge
    BY <1>1 DEF RouterInvariant, ItemsFollowEdges
  <1>5. /\ graph.edges[id].weight = WaitTime
        /\ item.from = item.to
        /\ graph.edges[id].from = stop_to_transfer[item.from].second
        /\ graph.edges[id].to = stop_to_transfer[item.to].first
    BY <1>1, <1>2, <1>3, <1>4, EdgeIsOfItem
  <1> QED
    BY <1>2, <1>3, <1>4, <1>5 DEF Arrival, Boarding

\* From a stop to a stop a line goes to there is an edge, at most as slow as any ride
\* between the two (router.cpp:74-94).
LEMMA RideThere ==
    ASSUME Served, NEW ride \in Rides, ride.from # ride.to
    PROVE  \E id \in DOMAIN graph.edges : /\ graph.edges[id].from = Boarding(ride.from)
                                          /\ graph.edges[id].to = Arrival(ride.to)
                                          /\ graph.edges[id].weight <= ride.metres
  <1>1. /\ RouterInvariant /\ building = "ready" /\ base \in Bases /\ NoNegativeRoads
    BY DEF Served
  <1>2. PICK s \in GetStopsHolder(db), t \in GetStopsHolder(db) : s = ride.from /\ t = ride.to
    BY RidesTakeTime
  <1>3. ride.metres \in {r.metres : r \in {i \in Rides : i.from = s /\ i.to = t}}
    BY <1>2
  <1>4. PICK id \in DOMAIN id_to_edge :
            /\ id_to_edge[id].bus # Null /\ id_to_edge[id].from = s /\ id_to_edge[id].to = t
            /\ id_to_edge[id].timedelta <= ride.metres
    BY <1>1, <1>2, <1>3, LeastRides
  <1>5. DOMAIN graph.edges = DOMAIN id_to_edge
    BY <1>1 DEF RouterInvariant, ItemsFollowEdges
  <1>6. /\ graph.edges[id].weight = id_to_edge[id].timedelta
        /\ graph.edges[id].from = stop_to_transfer[s].first
        /\ graph.edges[id].to = stop_to_transfer[t].second
    BY <1>1, <1>4, <1>5, EdgeIsOfItem
  <1> QED
    BY <1>2, <1>4, <1>5, <1>6 DEF Arrival, Boarding

\* Every edge of the graph is a wait or a ride.
LEMMA EdgeMeans ==
    ASSUME Served, NEW id \in DOMAIN graph.edges
    PROVE  \/ \E s \in GetStopsHolder(db) : /\ graph.edges[id].from = Arrival(s)
                                            /\ graph.edges[id].to = Boarding(s)
                                            /\ graph.edges[id].weight = WaitTime
           \/ \E ride \in Rides : /\ graph.edges[id].from = Boarding(ride.from)
                                  /\ graph.edges[id].to = Arrival(ride.to)
                                  /\ graph.edges[id].weight = ride.metres
  <1>1. RouterInvariant
    BY DEF Served
  <1>2. PICK item : item = id_to_edge[id]
    OBVIOUS
  <1>3. /\ item.from \in GetStopsHolder(db)
        /\ graph.edges[id].weight = item.timedelta
        /\ item.bus = Null => /\ item.from = item.to /\ item.timedelta = WaitTime
                              /\ graph.edges[id].from = stop_to_transfer[item.from].second
                              /\ graph.edges[id].to = stop_to_transfer[item.to].first
        /\ item.bus # Null => /\ graph.edges[id].from = stop_to_transfer[item.from].first
                              /\ graph.edges[id].to = stop_to_transfer[item.to].second
    BY <1>1, <1>2, EdgeIsOfItem
  <1>4. CASE item.bus = Null
    BY <1>3, <1>4 DEF Arrival, Boarding
  <1>5. CASE item.bus # Null
    <2>1. PICK ride \in Rides : /\ ride.from = item.from /\ ride.to = item.to
                                /\ ride.metres = graph.edges[id].weight
      BY <1>2, <1>5, EdgesServe
    <2> QED
      BY <1>3, <1>5, <2>1 DEF Arrival, Boarding
  <1> QED
    BY <1>4, <1>5

\* Wherever passengers can be by the lines, a walk leads there as fast.
LEMMA JourneyIsWalked ==
    ASSUME Served, NEW start \in GetStopsHolder(db),
           NEW f, WalksFrom(f, Arrival(start)), NEW g, JourneysFrom(g, start), NEW n \in Nat
    PROVE  \A r \in g[n] : \E m \in Nat : \E w \in f[m] :
                w.end = Arrival(r.stop) /\ w.weight <= r.time
  <1> DEFINE Walked(r) == \E m \in Nat : \E w \in f[m] :
                                w.end = Arrival(r.stop) /\ w.weight <= r.time
             S == {i \in Nat : \A r \in g[i] : Walked(r)}
  <1>0. /\ \A i \in Nat : f[i] \in SUBSET WalkRecord /\ f[i + 1] = Planner!Longer(f[i])
        /\ \A i \in Nat : g[i] \in SUBSET Position /\ g[i + 1] = Onward(g[i], Moves)
    BY DEF WalksFrom, JourneysFrom
  <1>1. 0 \in S
    <2>1. PICK w : w = Planner!Staying(Arrival(start))
      OBVIOUS
    <2>2. w \in f[0] /\ w.end = Arrival(start) /\ w.weight = 0
      BY <2>1 DEF WalksFrom, Planner!Staying
    <2>3. \A r \in g[0] : r.stop = start /\ r.time = 0
      BY DEF JourneysFrom
    <2> QED
      BY <2>2, <2>3
  <1>2. ASSUME NEW i \in Nat, i \in S
        PROVE  i + 1 \in S
    <2> SUFFICES ASSUME NEW r \in g[i + 1] PROVE Walked(r)
      OBVIOUS
    <2>1. CASE r \in g[i]
      BY <1>2, <2>1
    <2>2. CASE r \notin g[i]
      <3>1. PICK q \in g[i] : \E ride \in Rides :
                    /\ ride.from = q.stop
                    /\ r = [stop |-> ride.to, time |-> q.time + WaitTime + ride.metres]
        BY <1>0, <2>2, OnwardPlaces
      <3>2. PICK ride \in Rides :
                    /\ ride.from = q.stop
                    /\ r = [stop |-> ride.to, time |-> q.time + WaitTime + ride.metres]
        BY <3>1
      <3>3. PICK m \in Nat : \E w \in f[m] : w.end = Arrival(q.stop) /\ w.weight <= q.time
        BY <1>2, <3>1
      <3>4. PICK w \in f[m] : w.end = Arrival(q.stop) /\ w.weight <= q.time
        BY <3>3
      <3>5. PICK metres \in Nat, time \in Nat, weight \in Nat :
                metres = ride.metres /\ time = q.time /\ weight = w.weight
        BY <1>0, <3>1, <3>4, RidesTakeTime DEF Position, WalkRecord
      <3>6. r.stop = ride.to /\ r.time = time + WaitTime + metres /\ weight <= time
        BY <3>2, <3>4, <3>5
      <3>7. CASE ride.from = ride.to
        <4>1. w.end = Arrival(r.stop) /\ w.weight <= r.time
          BY <3>2, <3>4, <3>5, <3>6, <3>7, TransportRouterAssumption
        <4> QED
          BY <3>3, <3>4, <4>1
      <3>8. CASE ride.from # ride.to
        <4>1. PICK wait \in DOMAIN graph.edges : /\ graph.edges[wait].from = Arrival(ride.from)
                                                 /\ graph.edges[wait].to = Boarding(ride.from)
                                                 /\ graph.edges[wait].weight = WaitTime
          BY RidesTakeTime, WaitThere
        <4>2. PICK id \in DOMAIN graph.edges : /\ graph.edges[id].from = Boarding(ride.from)
                                               /\ graph.edges[id].to = Arrival(ride.to)
                                               /\ graph.edges[id].weight <= ride.metres
          BY <3>8, RideThere
        <4>3. PICK w1 : w1 = Planner!Extended(w, wait)
          OBVIOUS
        <4>4. w1 \in f[m + 1] /\ m + 1 \in Nat /\ w1.end = Boarding(ride.from)
              /\ w1.weight = weight + WaitTime
          <5>1. PICK walks \in SUBSET WalkRecord : walks = f[m] /\ f[m + 1] = Planner!Longer(walks)
            BY <1>0
          <5>2. w \in walks /\ graph.edges[wait].from = w.end
            BY <3>2, <3>4, <4>1, <5>1
          <5>3. w1 \in Planner!Longer(walks)
            BY <4>3, <5>2, LongerWalks
          <5> QED
            BY <3>5, <4>1, <4>3, <5>1, <5>3 DEF Planner!Extended
        <4>5. PICK w2 : w2 = Planner!Extended(w1, id)
          OBVIOUS
        <4>6. PICK j \in Nat : j = m + 1
          OBVIOUS
        <4>7. w2 \in f[j + 1] /\ j + 1 \in Nat /\ w2.end = Arrival(ride.to)
              /\ w2.weight = weight + WaitTime + graph.edges[id].weight
          <5>1. PICK walks \in SUBSET WalkRecord : walks = f[j] /\ f[j + 1] = Planner!Longer(walks)
            BY <1>0
          <5>2. w1 \in walks /\ graph.edges[id].from = w1.end
            BY <4>2, <4>4, <4>6, <5>1
          <5>3. w2 \in Planner!Longer(walks)
            BY <4>5, <5>2, LongerWalks
          <5> QED
            BY <4>2, <4>4, <4>5, <5>1, <5>3 DEF Planner!Extended
        <4>8. w2.weight <= r.time
          <5>1. PICK c \in Nat : c = graph.edges[id].weight
            BY EdgesServe
          <5>2. c <= metres /\ weight <= time /\ WaitTime \in Nat
            BY <3>5, <3>6, <4>2, <5>1, TransportRouterAssumption
          <5>3. weight + WaitTime + c <= time + WaitTime + metres
            BY <5>2
          <5> QED
            BY <3>6, <4>7, <5>1, <5>3
        <4> QED
          BY <3>6, <4>7, <4>8
      <3> QED
        BY <3>7, <3>8
    <2> QED
      BY <2>1, <2>2
  <1> HIDE DEF S
  <1>3. n \in S
    BY <1>1, <1>2, SetInduction
  <1> QED
    BY <1>3 DEF S

\* Wherever a walk leads, passengers can be as fast by the lines.
LEMMA WalkIsRidden ==
    ASSUME Served, NEW start \in GetStopsHolder(db),
           NEW f, WalksFrom(f, Arrival(start)), NEW g, JourneysFrom(g, start), NEW m \in Nat
    PROVE  \A w \in f[m] : \E n \in Nat : \E r \in g[n] :
                \/ w.end = Arrival(r.stop) /\ w.weight = r.time
                \/ w.end = Boarding(r.stop) /\ w.weight = r.time + WaitTime
  <1> DEFINE RiddenSo(w) == \E n \in Nat : \E r \in g[n] :
                                \/ w.end = Arrival(r.stop) /\ w.weight = r.time
                                \/ w.end = Boarding(r.stop) /\ w.weight = r.time + WaitTime
             S == {i \in Nat : \A w \in f[i] : RiddenSo(w)}
  <1>0. /\ \A i \in Nat : f[i] \in SUBSET WalkRecord /\ f[i + 1] = Planner!Longer(f[i])
        /\ \A i \in Nat : g[i] \in SUBSET Position /\ g[i + 1] = Onward(g[i], Moves)
    BY DEF WalksFrom, JourneysFrom
  <1>1. 0 \in S
    <2>1. PICK r : r = [stop |-> start, time |-> 0]
      OBVIOUS
    <2>2. r \in g[0] /\ r.stop = start /\ r.time = 0
      BY <2>1 DEF JourneysFrom
    <2>3. \A w \in f[0] : w.end = Arrival(start) /\ w.weight = 0
      BY DEF WalksFrom, Planner!Staying
    <2> QED
      BY <2>2, <2>3
  <1>2. ASSUME NEW i \in Nat, i \in S
        PROVE  i + 1 \in S
    <2> SUFFICES ASSUME NEW w \in f[i + 1] PROVE RiddenSo(w)
      OBVIOUS
    <2>1. CASE w \in f[i]
      BY <1>2, <2>1
    <2>2. CASE w \notin f[i]
      <3>1. PICK front \in f[i] : \E id \in DOMAIN graph.edges :
                graph.edges[id].from = front.end /\ w = Planner!Extended(front, id)
        BY <1>0, <2>2, LongerWalks
      <3>2. PICK id \in DOMAIN graph.edges :
                graph.edges[id].from = front.end /\ w = Planner!Extended(front, id)
        BY <3>1
      <3>3. w.end = graph.edges[id].to /\ w.weight = front.weight + graph.edges[id].weight
        BY <3>2 DEF Planner!Extended
      <3>4. PICK n \in Nat : \E r \in g[n] :
                \/ front.end = Arrival(r.stop) /\ front.weight = r.time
                \/ front.end = Boarding(r.stop) /\ front.weight = r.time + WaitTime
        BY <1>2, <3>1
      <3>5. PICK r \in g[n] :
                \/ front.end = Arrival(r.stop) /\ front.weight = r.time
                \/ front.end = Boarding(r.stop) /\ front.weight = r.time + WaitTime
        BY <3>4
      <3>6. r \in Position /\ r.stop \in GetStopsHolder(db) /\ r.time \in Nat
        BY <1>0, <3>5 DEF Position
      <3>7. CASE \E s \in GetStopsHolder(db) : /\ graph.edges[id].from = Arrival(s)
                                               /\ graph.edges[id].to = Boarding(s)
                                               /\ graph.edges[id].weight = WaitTime
        <4>1. PICK s \in GetStopsHolder(db) : /\ graph.edges[id].from = Arrival(s)
                                              /\ graph.edges[id].to = Boarding(s)
                                              /\ graph.edges[id].weight = WaitTime
          BY <3>7
        <4>2. front.end = Arrival(r.stop) /\ front.weight = r.time
          BY <3>2, <3>5, <3>6, <4>1, VerticesDiffer
        <4>3. s = r.stop
          BY <3>2, <3>6, <4>1, <4>2, VerticesDiffer
        <4>4. w.end = Boarding(r.stop) /\ w.weight = r.time + WaitTime
          BY <3>3, <4>1, <4>2, <4>3
        <4> QED
          BY <3>5, <4>4
      <3>8. CASE \E ride \in Rides : /\ graph.edges[id].from = Boarding(ride.from)
                                     /\ graph.edges[id].to = Arrival(ride.to)
                                     /\ graph.edges[id].weight = ride.metres
        <4>1. PICK ride \in Rides : /\ graph.edges[id].from = Boarding(ride.from)
                                    /\ graph.edges[id].to = Arrival(ride.to)
                                    /\ graph.edges[id].weight = ride.metres
          BY <3>8
        <4>2. ride.from \in GetStopsHolder(db) /\ ride.metres \in Nat
          BY RidesTakeTime
        <4>3. front.end = Boarding(r.stop) /\ front.weight = r.time + WaitTime
          BY <3>2, <3>5, <3>6, <4>1, <4>2, VerticesDiffer
        <4>4. ride.from = r.stop
          BY <3>2, <3>6, <4>1, <4>2, <4>3, VerticesDiffer
        <4>5. PICK next : next = [stop |-> ride.to, time |-> r.time + WaitTime + ride.metres]
          OBVIOUS
        <4>6. next \in g[n + 1] /\ n + 1 \in Nat
          <5>1. PICK places \in SUBSET Position : places = g[n] /\ g[n + 1] = Onward(places, Moves)
            BY <1>0
          <5>2. \A at \in places : \A move \in Rides : move.from = at.stop =>
                  [stop |-> move.to, time |-> at.time + WaitTime + move.metres] \in Onward(places, Moves)
            BY OnwardPlaces
          <5> QED
            BY <3>5, <4>4, <4>5, <5>1, <5>2
        <4>7. w.end = Arrival(next.stop) /\ w.weight = next.time
          BY <3>3, <4>1, <4>3, <4>5
        <4> QED
          BY <4>6, <4>7
      <3> QED
        BY <3>7, <3>8, EdgeMeans
    <2> QED
      BY <2>1, <2>2
  <1> HIDE DEF S
  <1>3. m \in S
    BY <1>1, <1>2, SetInduction
  <1> QED
    BY <1>3 DEF S

-----------------------------------------------------------------------------
(* What a response shows. *)

\* Items of a walk: waits and rides by turns, each from where the one before leads to,
\* that take the time of the walk (router.cpp:106-119).
Itemized(items, w, start) ==
    /\ items \in Seq(Item)
    /\ \E times \in Seq(Int) : /\ times = [i \in DOMAIN items |-> items[i].timedelta]
                               /\ w.weight = SumFunction(times)
    /\ \A i \in DOMAIN items : items[i].bus = Null <=> i % 2 = 1
    /\ \A i \in 1 .. Len(items) - 1 : items[i].to = items[i + 1].from
    /\ items # << >> => items[1].from = start
    /\ LET end == IF items = << >> THEN start ELSE items[Len(items)].to
       IN  /\ end \in GetStopsHolder(db)
           /\ w.end = IF Len(items) % 2 = 0 THEN Arrival(end) ELSE Boarding(end)

\* With an edge more there is an item more.
LEMMA ItemShown ==
    ASSUME Served, NEW start \in GetStopsHolder(db), NEW w \in WalkRecord,
           NEW items, items = ItemsOf(w.edges), Itemized(items, w, start),
           NEW id \in DOMAIN graph.edges, graph.edges[id].from = w.end,
           NEW longer, longer = Planner!Extended(w, id)
    PROVE  Itemized(ItemsOf(longer.edges), longer, start)
  <1>0. RouterInvariant
    BY DEF Served
  <1>1. PICK item \in Item : item = id_to_edge[id]
    BY <1>0, EdgeIsOfItem
  <1>2. PICK edge : edge = graph.edges[id]
    OBVIOUS
  <1>3. /\ item.from \in GetStopsHolder(db) /\ item.to \in GetStopsHolder(db)
        /\ edge.weight = item.timedelta
        /\ item.bus = Null => edge.from = Arrival(item.from) /\ edge.to = Boarding(item.to)
        /\ item.bus # Null => edge.from = Boarding(item.from) /\ edge.to = Arrival(item.to)
    BY <1>0, <1>1, <1>2, EdgeIsOfItem DEF Arrival, Boarding
  <1>4. id \in Nat
    BY EdgesServe
  <1>5. w.edges \in Seq(Nat)
    BY DEF WalkRecord
  <1>6. PICK n \in Nat : n = Len(w.edges) /\ DOMAIN w.edges = 1 .. n
    BY <1>5
  <1>7. items \in Seq(Item) /\ DOMAIN items = 1 .. n /\ Len(items) = n
    BY <1>6 DEF Itemized, ItemsOf
  <1>8. PICK more \in Seq(Item) : more = Append(items, item)
    BY <1>7, Appended
  <1>9. PICK m \in Nat : m = n + 1
    OBVIOUS
  <1>10. /\ Len(more) = m /\ DOMAIN more = 1 .. m /\ more[m] = item
         /\ \A i \in 1 .. n : more[i] = items[i]
    BY <1>7, <1>8, <1>9
  <1>11. ItemsOf(longer.edges) = more
    <2>1. longer.edges = Append(w.edges, id)
      BY DEF Planner!Extended
    <2>2. PICK ids \in Seq(Nat) : ids = Append(w.edges, id)
      BY <1>4, <1>5, Appended
    <2>3. /\ Len(ids) = m /\ DOMAIN ids = 1 .. m /\ ids[m] = id
          /\ \A i \in 1 .. n : ids[i] = w.edges[i]
      BY <1>4, <1>5, <1>6, <1>9, <2>2
    <2>4. \A i \in 1 .. n : items[i] = id_to_edge[w.edges[i]]
      BY <1>6 DEF ItemsOf
    <2>5. \A i \in 1 .. m : more[i] = id_to_edge[ids[i]]
      <3> SUFFICES ASSUME NEW i \in 1 .. m PROVE more[i] = id_to_edge[ids[i]]
        OBVIOUS
      <3>1. i \in 1 .. n \/ i = m
        BY <1>9
      <3> QED
        BY <1>1, <1>10, <2>3, <2>4, <3>1
    <2>6. ItemsOf(ids) = [i \in 1 .. m |-> id_to_edge[ids[i]]]
      BY <2>3 DEF ItemsOf
    <2>7. more = [i \in 1 .. m |-> more[i]]
      BY <1>10
    <2> QED
      BY <2>1, <2>2, <2>5, <2>6, <2>7
  <1>12. longer.end = edge.to /\ longer.weight = w.weight + edge.weight
    BY <1>2 DEF Planner!Extended
  <1>13. PICK end \in GetStopsHolder(db) :
            /\ end = IF items = << >> THEN start ELSE items[Len(items)].to
            /\ w.end = IF n % 2 = 0 THEN Arrival(end) ELSE Boarding(end)
    BY <1>7 DEF Itemized
  <1>14. item.from = end /\ (item.bus = Null <=> n % 2 = 0)
    <2>1. edge.from = w.end
      BY <1>2
    <2>2. CASE item.bus = Null
      BY <1>3, <1>13, <2>1, <2>2, VerticesDiffer
    <2>3. CASE item.bus # Null
      BY <1>3, <1>13, <2>1, <2>3, VerticesDiffer
    <2> QED
      BY <2>2, <2>3
  <1>15. (m % 2 = 1 <=> n % 2 = 0) /\ (m % 2 = 0 <=> n % 2 # 0)
    BY <1>9
  <1>16. \E times \in Seq(Int) : /\ times = [i \in DOMAIN more |-> more[i].timedelta]
                                 /\ longer.weight = SumFunction(times)
    <2>1. PICK times \in Seq(Int) : /\ times = [i \in DOMAIN items |-> items[i].timedelta]
                                    /\ w.weight = SumFunction(times)
      BY DEF Itemized
    <2>2. PICK t \in Int : t = item.timedelta
      BY DEF Item
    <2>3. PICK all \in Seq(Int) : all = Append(times, t)
      BY <2>1, Appended
    <2>4. DOMAIN times = 1 .. n /\ Len(times) = n /\ \A i \in 1 .. n : times[i] = items[i].timedelta
      BY <1>7, <2>1
    <2>5. Len(all) = m /\ DOMAIN all = 1 .. m /\ all[m] = t /\ \A i \in 1 .. n : all[i] = times[i]
      BY <1>9, <2>3, <2>4
    <2>6. \A i \in 1 .. m : all[i] = more[i].timedelta
      <3> SUFFICES ASSUME NEW i \in 1 .. m PROVE all[i] = more[i].timedelta
        OBVIOUS
      <3>1. i \in 1 .. n \/ i = m
        BY <1>9
      <3> QED
        BY <1>10, <2>2, <2>4, <2>5, <3>1
    <2>7. all = [i \in 1 .. m |-> all[i]]
      BY <2>5
    <2>8. all = [i \in DOMAIN more |-> more[i].timedelta]
      BY <1>10, <2>6, <2>7
    <2>9. SumFunction(all) = SumFunction(times) + t
      BY <2>3, SumOfMore
    <2>10. longer.weight = SumFunction(all)
      BY <1>3, <1>12, <2>1, <2>2, <2>9
    <2> QED
      BY <2>8, <2>10
  <1>17. \A i \in 1 .. m : more[i].bus = Null <=> i % 2 = 1
    <2> SUFFICES ASSUME NEW i \in 1 .. m PROVE more[i].bus = Null <=> i % 2 = 1
      OBVIOUS
    <2>1. CASE i \in 1 .. n
      BY <1>7, <1>10, <2>1 DEF Itemized
    <2>2. CASE i = m
      BY <1>10, <1>14, <1>15, <2>2
    <2> QED
      BY <1>9, <2>1, <2>2
  <1>18. \A i \in 1 .. m - 1 : more[i].to = more[i + 1].from
    <2> SUFFICES ASSUME NEW i \in 1 .. n PROVE more[i].to = more[i + 1].from
      BY <1>9
    <2>1. CASE i < n
      <3>1. i \in 1 .. n - 1 /\ i + 1 \in 1 .. n
        BY <2>1
      <3>2. items[i].to = items[i + 1].from
        BY <1>7, <3>1 DEF Itemized
      <3> QED
        BY <1>10, <3>1, <3>2
    <2>2. CASE i = n
      <3>1. items # << >> /\ end = items[n].to
        BY <1>7, <1>13, <2>2
      <3> QED
        BY <1>9, <1>10, <1>14, <2>2, <3>1
    <2> QED
      BY <2>1, <2>2
  <1>19. more # << >> /\ more[1].from = start
    <2>1. CASE n = 0
      <3>1. items = << >> /\ m = 1
        BY <1>7, <1>9, <2>1
      <3>2. end = start /\ more[1].from = item.from
        BY <1>10, <1>13, <3>1
      <3>3. more # << >>
        <4>1. Len(more) # 0 /\ Len(<< >>) = 0
          BY <1>10, <3>1
        <4> QED
          BY <4>1
      <3> QED
        BY <1>14, <3>2, <3>3
    <2>2. CASE n # 0
      <3>1. items # << >> /\ 1 \in 1 .. n /\ 1 \in 1 .. m
        BY <1>7, <1>9, <2>2
      <3>2. items[1].from = start
        BY <3>1 DEF Itemized
      <3> QED
        BY <1>10, <3>1, <3>2
    <2> QED
      BY <2>1, <2>2
  <1>20. longer.end = IF m % 2 = 0 THEN Arrival(item.to) ELSE Boarding(item.to)
    BY <1>3, <1>12, <1>14, <1>15
  <1>21. more[Len(more)].to = item.to
    BY <1>10
  <1>22. Itemized(more, longer, start)
    BY <1>3, <1>8, <1>10, <1>16, <1>17, <1>18, <1>19, <1>20, <1>21 DEF Itemized
  <1> QED
    BY <1>11, <1>22

\* The items of every walk from where passengers arrive show it.
LEMMA WalkIsShown ==
    ASSUME Served, NEW start \in GetStopsHolder(db),
           NEW f, WalksFrom(f, Arrival(start)), NEW m \in Nat
    PROVE  \A w \in f[m] : Itemized(ItemsOf(w.edges), w, start)
  <1> DEFINE S == {i \in Nat : \A w \in f[i] : Itemized(ItemsOf(w.edges), w, start)}
  <1>0. \A i \in Nat : f[i] \in SUBSET WalkRecord /\ f[i + 1] = Planner!Longer(f[i])
    BY DEF WalksFrom
  <1>1. 0 \in S
    <2>1. PICK w : w = Planner!Staying(Arrival(start))
      OBVIOUS
    <2>2. w.edges = << >> /\ w.weight = 0 /\ w.end = Arrival(start)
      BY <2>1 DEF Planner!Staying
    <2>3. PICK items \in Seq(Item) : items = << >> /\ DOMAIN items = {} /\ Len(items) = 0
      <3>1. << >> \in Seq(Item) /\ DOMAIN << >> = {} /\ Len(<< >>) = 0
        OBVIOUS
      <3> QED
        BY <3>1
    <2>4. ItemsOf(w.edges) = items
      BY <2>2, <2>3 DEF ItemsOf
    <2>5. \E times \in Seq(Int) : /\ times = [i \in DOMAIN items |-> items[i].timedelta]
                                  /\ w.weight = SumFunction(times)
      <3>1. PICK times \in Seq(Int) : times = << >>
        <4>1. << >> \in Seq(Int)
          OBVIOUS
        <4> QED
          BY <4>1
      <3>2. times = [i \in DOMAIN items |-> items[i].timedelta]
        BY <2>3, <3>1
      <3> QED
        BY <2>2, <3>1, <3>2, SumOfNone
    <2>6. Itemized(items, w, start)
      <3>1. \A i \in DOMAIN items : items[i].bus = Null <=> i % 2 = 1
        BY <2>3
      <3>2. \A i \in 1 .. Len(items) - 1 : items[i].to = items[i + 1].from
        BY <2>3
      <3>3. Len(items) % 2 = 0
        BY <2>3
      <3> QED
        BY <2>2, <2>3, <2>5, <3>1, <3>2, <3>3 DEF Itemized
    <2>7. \A v \in f[0] : v = w
      BY <2>1 DEF WalksFrom
    <2> QED
      BY <2>4, <2>6, <2>7
  <1>2. ASSUME NEW i \in Nat, i \in S
        PROVE  i + 1 \in S
    <2> SUFFICES ASSUME NEW w \in f[i + 1] PROVE Itemized(ItemsOf(w.edges), w, start)
      OBVIOUS
    <2>1. CASE w \in f[i]
      BY <1>2, <2>1
    <2>2. CASE w \notin f[i]
      <3>1. PICK front \in f[i] : \E id \in DOMAIN graph.edges :
                graph.edges[id].from = front.end /\ w = Planner!Extended(front, id)
        BY <1>0, <2>2, LongerWalks
      <3>2. PICK id \in DOMAIN graph.edges :
                graph.edges[id].from = front.end /\ w = Planner!Extended(front, id)
        BY <3>1
      <3>3. Itemized(ItemsOf(front.edges), front, start) /\ front \in WalkRecord
        BY <1>0, <1>2, <3>1
      <3>4. PICK items : items = ItemsOf(front.edges)
        OBVIOUS
      <3> QED
        BY <3>2, <3>3, <3>4, ItemShown
    <2> QED
      BY <2>1, <2>2
  <1> HIDE DEF S
  <1>3. m \in S
    BY <1>1, <1>2, SetInduction
  <1> QED
    BY <1>3 DEF S

-----------------------------------------------------------------------------
(* The fastest walk is the fastest journey. *)

\* There are no more stops with names than stops, and two vertices for each.
LEMMA StopsAreFew ==
    ASSUME Served
    PROVE  LET n == Len(db.stops)
           IN  /\ n \in Nat /\ n <= MaxStopCount
               /\ IsFiniteSet(GetStopsHolder(db)) /\ Cardinality(GetStopsHolder(db)) <= n
               /\ IsFiniteSet(Vertex) /\ Cardinality(Vertex) = 2 * n
  <1>0. PopulateInvariant /\ PopulateTypeOK /\ StopsFollowRequests /\ stage = "populated" /\ base \in Bases
    BY DEF Served, RouterInvariant, LoopsFollowCatalogue, PopulateInvariant
  <1>1. PICK n : n = Len(db.stops)
    OBVIOUS
  <1>2. n \in Nat /\ n <= MaxStopCount
    <2>1. n = Len(base.stops)
      BY <1>0, <1>1 DEF StopsFollowRequests
    <2>2. n \in Nat
      BY <1>0, <1>1 DEF PopulateTypeOK
    <2> QED
      BY <1>0, <2>1, <2>2, TransportRouterAssumption
  <1>3. IsFiniteSet(GetStopsHolder(db)) /\ Cardinality(GetStopsHolder(db)) <= n
    BY <1>0, <1>1, StopsFit
  <1>4. Vertex = 0 .. 2 * n - 1 /\ 2 * n - 1 \in Int
    BY <1>1, <1>2 DEF Vertex, Vertices
  <1>5. IsFiniteSet(0 .. 2 * n - 1)
        /\ Cardinality(0 .. 2 * n - 1) = IF 0 > 2 * n - 1 THEN 0 ELSE (2 * n - 1) - 0 + 1
    BY <1>4, FS_Interval
  <1>6. Cardinality(0 .. 2 * n - 1) = 2 * n
    BY <1>2, <1>5
  <1> QED
    BY <1>1, <1>2, <1>3, <1>4, <1>5, <1>6

\* The least weight of the walks from one stop to another is the least time of the
\* journeys; where there is none of the ones there is none of the others.
LEMMA ShortestIsFastest ==
    ASSUME Served, NEW start \in GetStopsHolder(db), NEW finish \in GetStopsHolder(db)
    PROVE  LET routes == Planner!ShortestRoutes(Arrival(start), Arrival(finish))
           IN  /\ routes = {} => Fastest(start, finish) = Null
               /\ \A route \in routes :
                    /\ route.weight = Fastest(start, finish)
                    /\ \E w \in WalkRecord : /\ w.end = Arrival(finish)
                                             /\ w.edges = route.edges /\ w.weight = route.weight
                                             /\ Itemized(ItemsOf(w.edges), w, start)
  <1>1. PICK n \in Nat : /\ n = Len(db.stops) /\ n <= MaxStopCount
                         /\ IsFiniteSet(GetStopsHolder(db)) /\ Cardinality(GetStopsHolder(db)) <= n
                         /\ IsFiniteSet(Vertex) /\ Cardinality(Vertex) = 2 * n
    BY StopsAreFew
  <1>2. Cardinality(GetStopsHolder(db)) \in Nat \ {0}
    <2>1. Cardinality(GetStopsHolder(db)) \in Nat
      BY <1>1, FS_CardinalityType
    <2>2. Cardinality(GetStopsHolder(db)) # 0
      BY <1>1, FS_EmptySet
    <2> QED
      BY <2>1, <2>2
  <1>3. PICK few \in Nat : few = Cardinality(GetStopsHolder(db)) - 1 /\ few <= n /\ n > 0
    BY <1>1, <1>2
  <1>4. MaxStopCount > 0 /\ MaxStopCount \in Nat
    BY <1>1, <1>3, TransportRouterAssumption
  <1>5. PICK most \in Nat : most = 2 * MaxStopCount - 1
    BY <1>4
  <1>6. PICK some \in Nat : some = Cardinality(Vertex) - 1 /\ some <= most
    <2>1. 2 * n - 1 \in Nat /\ 2 * n - 1 <= most
      BY <1>1, <1>3, <1>4, <1>5
    <2> QED
      BY <1>1, <2>1
  <1>7. Arrival(start) \in Vertex /\ Arrival(finish) \in Vertex
    BY VerticesDiffer
  <1>8. PICK f : WalksFrom(f, Arrival(start)) /\ Planner!Walks(Arrival(start)) = f[most]
    BY <1>4, <1>5, <1>7, WalksByLength
  <1>9. PICK g : JourneysFrom(g, start) /\ Reached(start) = g[n]
    BY <1>1, JourneysByLength
  <1>10. \A i \in Nat : f[i] \in SUBSET WalkRecord /\ g[i] \in SUBSET Position
    BY <1>8, <1>9 DEF WalksFrom, JourneysFrom
  <1>11. IsReach(Vertex, Hops, Ends(f))
    BY <1>8, WalksReach
  <1>12. IsReach(GetStopsHolder(db), JourneyHops, Times(g))
    BY <1>9, JourneysReach
  <1>13. ASSUME NEW w \in f[most], w.end = Arrival(finish)
         PROVE  \E r \in g[n] : r.stop = finish /\ r.time <= w.weight
    <2>1. PICK k \in Nat : \E r \in g[k] :
                \/ w.end = Arrival(r.stop) /\ w.weight = r.time
                \/ w.end = Boarding(r.stop) /\ w.weight = r.time + WaitTime
      BY <1>8, <1>9, WalkIsRidden
    <2>2. PICK r \in g[k] :
                \/ w.end = Arrival(r.stop) /\ w.weight = r.time
                \/ w.end = Boarding(r.stop) /\ w.weight = r.time + WaitTime
      BY <2>1
    <2>3. r.stop \in GetStopsHolder(db) /\ r.time \in Nat
      BY <1>10, <2>2 DEF Position
    <2>4. r.stop = finish /\ r.time = w.weight
      BY <1>13, <2>2, <2>3, VerticesDiffer
    <2>5. PICK time \in Nat : time = r.time /\ <<finish, time>> \in Times(g)[k]
      BY <2>2, <2>3, <2>4 DEF Times
    <2>6. PICK s \in Nat : s <= time /\ <<finish, s>> \in Times(g)[few]
      BY <1>1, <1>3, <1>12, <2>5, SoonReached
    <2>7. <<finish, s>> \in Times(g)[n]
      BY <1>3, <1>12, <2>6, ReachGrows
    <2>8. PICK q \in g[n] : q.stop = finish /\ q.time = s
      BY <2>7 DEF Times
    <2> QED
      BY <2>4, <2>5, <2>6, <2>8
  <1>14. ASSUME NEW r \in g[n], r.stop = finish
         PROVE  \E w \in f[most] : w.end = Arrival(finish) /\ w.weight <= r.time
    <2>1. PICK m \in Nat : \E w \in f[m] : w.end = Arrival(r.stop) /\ w.weight <= r.time
      BY <1>8, <1>9, JourneyIsWalked
    <2>2. PICK w \in f[m] : w.end = Arrival(finish) /\ w.weight <= r.time
      BY <1>14, <2>1
    <2>3. PICK weight \in Nat : weight = w.weight /\ <<Arrival(finish), weight>> \in Ends(f)[m]
      BY <1>10, <2>2 DEF WalkRecord, Ends
    <2>4. PICK s \in Nat : s <= weight /\ <<Arrival(finish), s>> \in Ends(f)[some]
      <3>1. PICK x \in Vertex : x = Arrival(finish)
        BY <1>7
      <3> QED
        BY <1>1, <1>6, <1>11, <2>3, <3>1, SoonReached
    <2>5. <<Arrival(finish), s>> \in Ends(f)[most]
      BY <1>6, <1>11, <2>4, ReachGrows
    <2>6. PICK v \in f[most] : v.end = Arrival(finish) /\ v.weight = s
      BY <2>5 DEF Ends
    <2>7. r.time \in Nat
      BY <1>10 DEF Position
    <2> QED
      BY <2>2, <2>3, <2>4, <2>6, <2>7
  <1>15. PICK walks : walks = {w \in f[most] : w.end = Arrival(finish)}
    OBVIOUS
  <1>16. PICK routes : routes = {[weight |-> w.weight, edges |-> w.edges] :
                                    w \in {v \in walks : \A other \in walks : v.weight <= other.weight}}
    OBVIOUS
  <1>17. routes = Planner!ShortestRoutes(Arrival(start), Arrival(finish))
    BY <1>8, <1>15, <1>16 DEF Planner!ShortestRoutes
  <1>18. PICK times : times = {r.time : r \in {q \in g[n] : q.stop = finish}}
    OBVIOUS
  <1>19. Fastest(start, finish) = IF times = {} THEN Null ELSE Min(times)
    BY <1>9, <1>18 DEF Fastest
  <1>20. \A w \in walks : w \in WalkRecord /\ w.weight \in Nat
    BY <1>10, <1>15 DEF WalkRecord
  <1>21. \A time \in times : time \in Nat
    BY <1>10, <1>18 DEF Position
  <1>22. ASSUME routes = {}
         PROVE  Fastest(start, finish) = Null
    <2>1. walks = {}
      <3> SUFFICES ASSUME walks # {} PROVE FALSE
        OBVIOUS
      <3>1. PICK weights : weights = {w.weight : w \in walks}
        OBVIOUS
      <3>2. weights \subseteq Nat /\ weights # {}
        BY <1>20, <3>1
      <3>3. PICK least \in weights : \A weight \in weights : least <= weight
        BY <3>2, LeastElement
      <3>4. PICK w \in walks : w.weight = least
        BY <3>1, <3>3
      <3>5. \A other \in walks : w.weight <= other.weight
        BY <3>1, <3>3, <3>4
      <3>6. [weight |-> w.weight, edges |-> w.edges] \in routes
        BY <1>16, <3>4, <3>5
      <3> QED
        BY <1>22, <3>6
    <2>2. times = {}
      BY <1>14, <1>15, <1>18, <2>1
    <2> QED
      BY <1>19, <2>2
  <1>23. ASSUME NEW route \in routes
         PROVE  /\ route.weight = Fastest(start, finish)
                /\ \E w \in WalkRecord : /\ w.end = Arrival(finish)
                                         /\ w.edges = route.edges /\ w.weight = route.weight
                                         /\ Itemized(ItemsOf(w.edges), w, start)
    <2>1. PICK w \in walks : /\ \A other \in walks : w.weight <= other.weight
                             /\ route = [weight |-> w.weight, edges |-> w.edges]
      BY <1>16
    <2>2. w \in f[most] /\ w.end = Arrival(finish) /\ w \in WalkRecord /\ w.weight \in Nat
      BY <1>15, <1>20, <2>1
    <2>3. \A time \in times : w.weight <= time
      <3> SUFFICES ASSUME NEW r \in g[n], r.stop = finish PROVE w.weight <= r.time
        BY <1>18
      <3>1. PICK v \in f[most] : v.end = Arrival(finish) /\ v.weight <= r.time
        BY <1>14
      <3>2. v \in walks
        BY <1>15, <3>1
      <3>3. r.time \in Nat
        BY <1>10 DEF Position
      <3> QED
        BY <1>20, <2>1, <2>2, <3>1, <3>2, <3>3
    <2>4. PICK r \in g[n] : r.stop = finish /\ r.time <= w.weight
      BY <1>13, <2>2
    <2>5. r.time \in times
      BY <1>18, <2>4
    <2>6. r.time = w.weight
      BY <1>21, <2>2, <2>3, <2>4, <2>5
    <2>7. PICK least \in times : least = w.weight
      BY <2>5, <2>6
    <2>8. Min(times) = least
      BY <1>21, <2>3, <2>7, MinIsLeast
    <2>9. route.weight = Fastest(start, finish)
      BY <1>19, <2>1, <2>7, <2>8
    <2>10. Itemized(ItemsOf(w.edges), w, start)
      BY <1>8, <2>2, WalkIsShown
    <2> QED
      BY <2>1, <2>2, <2>9, <2>10
  <1> QED
    BY <1>17, <1>22, <1>23

\* What GetRoute returns is what passengers want to know (router.cpp:106-119).
LEMMA ResponsesAreFastest ==
    ASSUME Served, answer # Null, answer.start \in StopName, answer.finish \in StopName,
           answer.route \in Responses(answer.start, answer.finish)
    PROVE  AnswerIsFastest
  <1>1. PICK start : start = SearchStop(db, answer.start)
    OBVIOUS
  <1>2. PICK finish : finish = SearchStop(db, answer.finish)
    OBVIOUS
  <1>3. PICK route : route = answer.route
    OBVIOUS
  <1>4. PopulateTypeOK
    BY DEF Served, RouterInvariant, PopulateInvariant
  <1>5. start \in GetStopsHolder(db) \cup {Null} /\ finish \in GetStopsHolder(db) \cup {Null}
    BY <1>1, <1>2, <1>4, SearchStopHeld
  <1> DEFINE items == route.edges
             Good == IF start = Null \/ finish = Null
                     THEN route = Null
                     ELSE IF route = Null
                     THEN Fastest(start, finish) = Null
                     ELSE /\ route.timedelta = Fastest(start, finish)
                          /\ route.timedelta = SumFunction([i \in DOMAIN items |-> items[i].timedelta])
                          /\ \A i \in DOMAIN items : items[i].bus = Null <=> i % 2 = 1
                          /\ Len(items) % 2 = 0
                          /\ \A i \in 1 .. Len(items) - 1 : items[i].to = items[i + 1].from
                          /\ IF items = << >> THEN start = finish
                             ELSE items[1].from = start /\ Last(items).to = finish
  <1>6. SUFFICES Good
    BY <1>1, <1>2, <1>3 DEF AnswerIsFastest
  <1>7. CASE start = Null \/ finish = Null
    <2>1. route = Null
      BY <1>1, <1>2, <1>3, <1>7 DEF Responses
    <2> QED
      BY <1>7, <2>1
  <1>8. CASE start # Null /\ finish # Null
    <2>1. start \in GetStopsHolder(db) /\ finish \in GetStopsHolder(db)
      BY <1>5, <1>8
    <2>2. PICK routes : routes = Planner!ShortestRoutes(Arrival(start), Arrival(finish))
      OBVIOUS
    <2>3. route \in IF routes = {} THEN {Null}
                    ELSE {[edges |-> ItemsOf(r.edges), timedelta |-> r.weight] : r \in routes}
      BY <1>1, <1>2, <1>3, <1>8, <2>2 DEF Responses, Arrival
    <2>4. CASE routes = {}
      <3>1. route = Null /\ Fastest(start, finish) = Null
        BY <2>1, <2>2, <2>3, <2>4, ShortestIsFastest
      <3> QED
        BY <1>8, <3>1
    <2>5. CASE routes # {}
      <3>1. PICK r \in routes : route = [edges |-> ItemsOf(r.edges), timedelta |-> r.weight]
        BY <2>3, <2>5
      <3>2. r.weight = Fastest(start, finish)
        BY <2>1, <2>2, ShortestIsFastest
      <3>3. PICK w \in WalkRecord : /\ w.end = Arrival(finish)
                                    /\ w.edges = r.edges /\ w.weight = r.weight
                                    /\ Itemized(ItemsOf(w.edges), w, start)
        BY <2>1, <2>2, ShortestIsFastest
      <3>4. Itemized(items, w, start) /\ route.timedelta = w.weight
        BY <3>1, <3>3
      <3>5. items \in Seq(Item)
        BY <3>4 DEF Itemized
      <3> HIDE DEF items
      <3>6. PICK end \in GetStopsHolder(db) :
                /\ end = IF items = << >> THEN start ELSE items[Len(items)].to
                /\ w.end = IF Len(items) % 2 = 0 THEN Arrival(end) ELSE Boarding(end)
        BY <3>4 DEF Itemized
      <3>7. Len(items) % 2 = 0 /\ end = finish
        BY <2>1, <3>3, <3>6, VerticesDiffer
      <3>8. route.timedelta = SumFunction([i \in DOMAIN items |-> items[i].timedelta])
        BY <3>4 DEF Itemized
      <3>9. /\ \A i \in DOMAIN items : items[i].bus = Null <=> i % 2 = 1
            /\ \A i \in 1 .. Len(items) - 1 : items[i].to = items[i + 1].from
            /\ items # << >> => items[1].from = start
        BY <3>4 DEF Itemized
      <3>10. IF items = << >> THEN start = finish
             ELSE items[1].from = start /\ Last(items).to = finish
        BY <3>6, <3>7, <3>9 DEF Last
      <3>11. route # Null
        <4>1. w.weight \in Int
          BY DEF WalkRecord
        <4>2. route = [edges |-> items, timedelta |-> w.weight]
          BY <3>1, <3>3 DEF items
        <4>3. route \in [edges : Seq(Item), timedelta : Int]
          BY <3>5, <4>1, <4>2
        <4> QED
          BY <4>3, TransportRouterAssumption
      <3> QED
        BY <1>8, <3>1, <3>2, <3>7, <3>8, <3>9, <3>10, <3>11
    <2> QED
      BY <2>4, <2>5
  <1> QED
    BY <1>5, <1>7, <1>8

-----------------------------------------------------------------------------
(* Every answer is a response. *)

\* The last answer is what GetRoute returns over the router as it stands.
AnswerKnown ==
    answer # Null =>
        /\ building = "ready"
        /\ answer.start \in StopName /\ answer.finish \in StopName
        /\ answer.route \in Responses(answer.start, answer.finish)

\* Nothing but the router and its catalogue matters to a response.
LEMMA SameResponses ==
    ASSUME UNCHANGED <<populateVars, stop_to_transfer, graph, id_to_edge>>,
           NEW start, NEW finish
    PROVE  Responses(start, finish)' = Responses(start, finish)
  <1>1. db' = db /\ stop_to_transfer' = stop_to_transfer /\ graph' = graph /\ id_to_edge' = id_to_edge
    BY DEF populateVars
  <1>2. \A s, t : Planner!ShortestRoutes(s, t)' = Planner!ShortestRoutes(s, t)
    BY <1>1 DEF Planner!ShortestRoutes, Planner!Walks, Planner!Longer, Planner!Leaving,
                Planner!Extended, Planner!Staying, Planner!ListedEdges, Planner!GetEdge
  <1>3. \A ids : ItemsOf(ids)' = ItemsOf(ids)
    BY <1>1 DEF ItemsOf
  <1> QED
    BY <1>1, <1>2, <1>3 DEF Responses

\* The last answer stays a response: once there is one, the router does not change.
LEMMA AnsweredStep ==
    ASSUME RouterInvariant, AnswerKnown, [Next]_vars
    PROVE  AnswerKnown'
  <1>1. CASE \E start, finish \in StopName : GetRoute(start, finish)
    <2>1. PICK start \in StopName, finish \in StopName : GetRoute(start, finish)
      BY <1>1
    <2>2. PICK route \in Responses(start, finish) :
            answer' = [start |-> start, finish |-> finish, route |-> route]
      BY <2>1 DEF GetRoute
    <2>3. building = "ready" /\ building' = building
          /\ UNCHANGED <<populateVars, stop_to_transfer, graph, id_to_edge>>
      BY <2>1 DEF GetRoute
    <2>4. Responses(start, finish)' = Responses(start, finish)
      BY <2>3, SameResponses
    <2>5. answer'.start = start /\ answer'.finish = finish /\ answer'.route = route
      BY <2>2
    <2> QED
      BY <2>2, <2>3, <2>4, <2>5 DEF AnswerKnown
  <1>2. CASE UNCHANGED vars
    <2>1. answer' = answer /\ building' = building
          /\ UNCHANGED <<populateVars, stop_to_transfer, graph, id_to_edge>>
      BY <1>2 DEF vars, routerVars
    <2>2. Responses(answer.start, answer.finish)' = Responses(answer.start, answer.finish)
      <3>1. PICK start, finish : start = answer.start /\ finish = answer.finish
        OBVIOUS
      <3>2. Responses(start, finish)' = Responses(start, finish)
        BY <2>1, SameResponses
      <3> QED
        BY <2>1, <3>1, <3>2
    <2> QED
      BY <2>1, <2>2 DEF AnswerKnown
  <1>3. CASE RouterNext \/ (PopulateNext /\ UNCHANGED routerVars)
    <2>1. ASSUME RouterNext PROVE building # "ready" /\ answer' = answer
      <3>1. building # "ready"
        BY <2>1 DEF RouterNext, StartRouter, AddTransfer, EndTransfers, AddWait, EndWaits,
                    CreateLineEdges, KeepFastest, AddRide, MakeRouter
      <3>2. answer' = answer
        BY <2>1 DEF RouterNext, StartRouter, AddTransfer, EndTransfers, AddWait, EndWaits,
                    CreateLineEdges, KeepFastest, AddRide, MakeRouter
      <3> QED
        BY <3>1, <3>2
    <2>2. ASSUME PopulateNext, UNCHANGED routerVars PROVE building # "ready" /\ answer' = answer
      <3>1. stage # "populated"
        BY <2>2 DEF PopulateNext, NextStop, NextDistance, NextDistances, NextBus, NextLoop
      <3>2. building # "ready"
        BY <3>1 DEF RouterInvariant, LoopsFollowCatalogue
      <3> QED
        BY <2>2, <3>2 DEF routerVars
    <2>3. building # "ready" /\ answer' = answer
      BY <1>3, <2>1, <2>2
    <2>4. answer = Null
      BY <2>3 DEF AnswerKnown
    <2> QED
      BY <2>3, <2>4 DEF AnswerKnown
  <1> QED
    BY <1>1, <1>2, <1>3 DEF Next

\* Where no road is shorter than nothing, every answer to a route request is a fastest
\* journey by the lines, or nothing if there is none (request_handler.h:59-69,
\* router.cpp:106-119).
THEOREM AnswersAreFastest ==
    ASSUME NoNegativeRoads
    PROVE  Spec => []AnswerIsFastest
  <1>1. Init => AnswerKnown
    BY DEF Init, AnswerKnown
  <1>2. RouterInvariant /\ AnswerKnown /\ [Next]_vars => AnswerKnown'
    BY AnsweredStep
  <1>3. RouterInvariant /\ (base \in Bases) /\ AnswerKnown => AnswerIsFastest
    <2> SUFFICES ASSUME RouterInvariant, base \in Bases, AnswerKnown, answer # Null PROVE AnswerIsFastest
      BY DEF AnswerIsFastest
    <2> QED
      BY ResponsesAreFastest DEF Served, AnswerKnown
  <1> QED
    BY <1>1, <1>2, <1>3, RouterInvariance, BaseChosen, PTL DEF Spec
=============================================================================
