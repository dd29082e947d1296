------------------------------ MODULE MCSearch ------------------------------
(* Small instances of Search. *)
EXTENDS Search, MCTransportRouter

\* The inputs of MCTransportRouter, and a line without stops.
SearchBases ==
    MCBases \cup
    [stops : {stops \in StopLists : Len(stops) = 3},
     buses : {<<Line("1", <<"A", "B", "C">>, TRUE), Line(second, << >>, roundtrip)>> :
                second \in {"1", "2"}, roundtrip \in BOOLEAN}]

\* B and C are in one place.
MCPlace    == "A" :> 1 @@ "B" :> 2 @@ "C" :> 2
MCStayedAt == <<"nan", "zero">>

\* Inputs without render settings, among them some with no more than ordinary lines.
Uncolored  == {input \in SearchBases : Len(input.stops) = 3 /\ ~input.buses[2].is_roundtrip}
MCPalette  == [input \in SearchBases |-> IF input \in Uncolored THEN << >> ELSE <<"green">>]

\* A line of one stop, which has no distance to divide by.
OneStop ==
    {[stops |-> <<Stop("A", << >>)>>, buses |-> <<Line("1", <<"A">>, TRUE)>>]}
NoPalette == [input \in OneStop |-> << >>]
AskLine == {<<[id |-> 5, type |-> "Bus", name |-> "1"]>>}

\* All about the stops and the lines, and one route; or else the map and
\* a request behind it.
SearchStats ==
    {<<[id |-> 1, type |-> "Stop", name |-> "A"], [id |-> 4, type |-> "Stop", name |-> "B"],
       [id |-> 1, type |-> "Stop", name |-> "C"],
       [id |-> 5, type |-> "Bus", name |-> "1"], [id |-> 9, type |-> "Bus", name |-> "2"],
       [id |-> 3, type |-> "Route", from |-> from, to |-> to]>> :
        from \in StopName, to \in StopName}
    \cup {<<[id |-> 6, type |-> "Map"], [id |-> 2, type |-> "Stop", name |-> "A"]>>}
=============================================================================
