-------------------------- MODULE MCTransportRouter --------------------------
(* Small instances of TransportRouter. *)
EXTENDS TransportRouter

Stop(stop, roads) == [name |-> stop, road_distances |-> roads]
Line(bus, stops, roundtrip) == [name |-> bus, stops |-> stops, is_roundtrip |-> roundtrip]

\* Three stops; roads in one or both directions, of different lengths, short cuts
\* and detours, B to itself or not; once B is declared twice, once C is not.
StopLists ==
    {<<Stop("A", "B" :> 2 @@ "C" :> 9), Stop("B", "A" :> 5 @@ "C" :> 1), Stop("C", "A" :> 2)>>,
     <<Stop("A", "B" :> 2), Stop("B", "C" :> 2 @@ "B" :> 1), Stop("C", "A" :> 4)>>,
     <<Stop("A", "B" :> 3), Stop("B", "C" :> 1), Stop("C", "B" :> 2)>>,
     <<Stop("A", "B" :> 1), Stop("B", "C" :> 2), Stop("B", "C" :> 1 @@ "A" :> 1), Stop("C", "A" :> 6)>>,
     <<Stop("A", "B" :> 1), Stop("B", "A" :> 2)>>}

\* Lines over A, B and C that run straight, back, in a circle, twice over a stop, and
\* twice in a row over a stop.
Routes ==
    {<<"A", "B", "C">>, <<"A", "C">>, <<"C", "B", "A", "C">>, <<"A", "B", "A", "C">>,
     <<"B", "B", "C">>, <<"A", "B", "B">>, <<"C">>}

MCBases ==
    [stops : StopLists,
     buses : {<<Line("1", first, TRUE), Line(second, other, roundtrip)>> :
                first \in Routes, second \in {"1", "2"}, other \in Routes, roundtrip \in BOOLEAN}]

\* The line 750 of resources/(Stop|Bus|Map).base.json.
Line750 ==
    {[stops |-> <<Stop("A", "B" :> 39), Stop("B", "C" :> 99 @@ "B" :> 1), Stop("C", "B" :> 95)>>,
      buses |-> <<Line("750", <<"A", "B", "B", "C">>, FALSE)>>]}
=============================================================================
