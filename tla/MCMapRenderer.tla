--------------------------- MODULE MCMapRenderer ---------------------------
(* Small instances of MapRenderer. *)
EXTENDS MapRenderer

Named(name) == [name |-> name, road_distances |-> << >>]

\* Stops in three orders, B or C declared twice, D never called at; lines that
\* return and do not, that end where they start, of one stop and of none.
MapBases ==
    [stops : {<<Named("A"), Named("B"), Named("C"), Named("D")>>,
              <<Named("B"), Named("A"), Named("B"), Named("C")>>,
              <<Named("C"), Named("B"), Named("A"), Named("C")>>},
     buses : {<< >>} \cup
             {<<[name |-> "1", stops |-> first, is_roundtrip |-> one],
                [name |-> second, stops |-> other, is_roundtrip |-> two]>> :
                first \in {<<"A", "B">>, <<"A", "B", "A">>, <<"C">>},
                second \in {"1", "2"}, other \in {<<"B", "C">>, <<"B", "A", "C", "B">>, << >>},
                one \in BOOLEAN, two \in BOOLEAN}]

At(lat, lng) == [lat |-> lat, lng |-> lng]

\* High, wide, on one parallel, and all in one place.
MCPlaces ==
    {<<At(0, 2), At(4, 1), At(7, 3), At(9, 9)>>,
     <<At(2, 9), At(1, 4), At(3, 0), At(0, 6)>>,
     <<At(1, 5), At(1, 2), At(1, 8), At(1, 3)>>,
     <<At(5, 5), At(5, 5), At(5, 5), At(5, 5)>>}

Green == [word |-> <<"g", "r", "e", "e", "n">>]
Brown == [rgb |-> <<165, 42, 42>>]
White85 == [rgb |-> <<255, 255, 255>>, opacity |-> 85]

\* Without a color, with one and with two, the last with a font size that is negative.
MCSettings ==
    {[map_sizes |-> <<20, 12>>, padding |-> 2, stop_radius |-> 5, line_width |-> 14,
      bus_label |-> [font_size |-> setting[2], offset |-> Point(7, 15)],
      stop_label |-> [font_size |-> 6, offset |-> Point(7, -3)],
      underlayer |-> [width |-> 3, color |-> White85],
      palette |-> setting[1]] :
        setting \in {<<<< >>, 4>>, <<<<Green>>, 4>>, <<<<Green, Brown>>, -1>>}}

\* Names as they may be, quotes, brackets and an ampersand included.
MCSpelling ==
    ("A" :> <<"A", "&">>) @@ ("B" :> <<"\"", "B", "\"">>) @@ ("C" :> <<"C", "'", "<">>) @@ ("D" :> <<"D">>)
    @@ ("1" :> <<"<", "1", ">">>) @@ ("2" :> <<"2">>)
=============================================================================
