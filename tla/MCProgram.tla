----------------------------- MODULE MCProgram -----------------------------
(* Small instances of Program. *)
EXTENDS Program, MCPopulate

Num(n)     == [int |-> n]
Name(name) == [string |-> name]
List(seq)  == [array |-> seq]
Dict(f)    == [dict |-> f]

Serialized(name) == [serialization_settings |-> Dict([file |-> Name(name)])]
Requested(seq)   == [base_requests |-> List(seq)]
Asked(seq)       == [stat_requests |-> List(seq)]

MakeBase(input)        == [mode |-> "make_base", input |-> Dict(input)]
ProcessRequests(input) == [mode |-> "process_requests", input |-> Dict(input)]

\* Buses in front of their stops.
Typed(type, request) == request @@ [type |-> type]
BaseRequestsOf(stops_and_buses) ==
    [i \in DOMAIN stops_and_buses.buses |-> Typed("Bus", stops_and_buses.buses[i])]
    \o [i \in DOMAIN stops_and_buses.stops |-> Typed("Stop", stops_and_buses.stops[i])]

Base(stops_and_buses, name) == MakeBase(Requested(BaseRequestsOf(stops_and_buses)) @@ Serialized(name))

Stat(type, id, name) == [type |-> type, id |-> Num(id), name |-> name]
Map   == [type |-> "Map", id |-> Num(1)]
Route == [type |-> "Route", id |-> Num(2), from |-> "A", to |-> "B"]

-----------------------------------------------------------------------------
\* Every catalogue of MCPopulate.

Catalogues == {<<Base(base_of, "f"), ProcessRequests(Asked(<<Map>>) @@ Serialized("f"))>> : base_of \in MCBases}

-----------------------------------------------------------------------------
\* Lists of requests of every type, known or not, with and without ids.

AnyRequest ==
    {[type |-> type] : type \in {"Bus", "Stop", "Route", "Metro"}}
    \cup {[type |-> "Metro", id |-> id] : id \in {Num(1), Name("1")}}
    \cup {[id |-> Name("1")]}

Listings ==
    [base_requests : {List(seq) : seq \in BoundedSeq(AnyRequest, 3)},
     stat_requests : {List(seq) : seq \in BoundedSeq(AnyRequest, 1)}]
    \cup
    [stat_requests : {List(seq) : seq \in BoundedSeq(AnyRequest, 2)}]
    \cup
    [base_requests : {Num(1), List(<< >>)}, stat_requests : {Num(1), List(<< >>)},
     render_settings : {Num(1), Dict([width |-> Num(1)])}]

Readings ==
    {<<[mode |-> "make_map", input |-> Dict(input)]>> : input \in Listings}
    \cup {<<[mode |-> "make_map", input |-> List(<< >>)]>>, <<[mode |-> "none", input |-> Num(1)]>>}

-----------------------------------------------------------------------------
\* Settings that are whole, or miss one thing, over a line without stops.

Red         == Name(<<"r", "e", "d">>)
RgbOf(r, g, b) == List(<<Num(r), Num(g), Num(b)>>)
RgbaOf(r, g, b, opacity) == List(<<Num(r), Num(g), Num(b), opacity>>)

Colors ==
    {Red, Name(<<"n", "o", "n", "e">>), Name(<<"r", "g", "b", "(", "1", ",", "2", ",", "3", ")">>),
     RgbOf(1, 2, 3), RgbOf(1, 2, 30), RgbOf(1, 20, 3), RgbOf(10, 20, 30), RgbOf(255, 160, 0), RgbOf(300, -1, 256),
     RgbaOf(1, 2, 3, [double |-> 50]), RgbaOf(1, 2, 3, [double |-> 5]), RgbaOf(1, 2, 3, Num(1)),
     RgbaOf(1, 2, 3, Num(0)), RgbaOf(12, 2, 3, Num(1)), RgbaOf(1, 2, 34, Num(1)), RgbaOf(100, 100, 1, Num(1)),
     List(<<Num(1), Num(2)>>), List(<<Num(1), Num(2), Red>>), RgbaOf(1, 2, 3, Red), Num(1)}

Whole ==
    [width |-> Num(600), height |-> [double |-> 40050], padding |-> Num(50),
     stop_radius |-> Num(5), line_width |-> [double |-> 1450],
     bus_label_font_size |-> Num(2), bus_label_offset |-> List(<<Num(7), [double |-> -1550]>>),
     stop_label_font_size |-> Num(7), stop_label_offset |-> List(<<Num(-3), Num(0)>>),
     underlayer_width |-> Num(3), underlayer_color |-> Red, color_palette |-> List(<<Red, RgbOf(1, 2, 3)>>)]

Renders ==
    {Whole}
    \cup {[key \in DOMAIN Whole \ {missing} |-> Whole[key]] : missing \in DOMAIN Whole}
    \cup {[Whole EXCEPT ![key] = wrong] : key \in DOMAIN Whole, wrong \in {Dict([a |-> Num(1)]), List(<< >>), Num(-3)}}
    \cup {[Whole EXCEPT !.underlayer_color = color] : color \in Colors}
    \cup {[Whole EXCEPT !.color_palette = List(<<Red, color>>)] : color \in Colors}
    \cup {[Whole EXCEPT !.bus_label_offset = List(offset)] :
            offset \in {<<Num(1)>>, <<Red, Num(1)>>, <<Num(1), Red, Num(2)>>}}

Routings ==
    {[bus_wait_time |-> Num(6), bus_velocity |-> Num(40)], [bus_wait_time |-> Num(6)],
     [bus_wait_time |-> [double |-> 650], bus_velocity |-> Num(40)]}

Serializations == {[file |-> Name("f")], [file |-> Num(1)], [port |-> Num(1)]}

Line(name) == [type |-> "Bus", name |-> name, stops |-> << >>, is_roundtrip |-> TRUE]
Lines1 == Requested(<<Line("1")>>)

Answers == ProcessRequests(Asked(<<Stat("Stop", 1, "A"), Stat("Bus", 3, "2"), Route>>) @@ Serialized("f"))

Settings ==
    {<<MakeBase(Lines1 @@ Serialized("f") @@ [render_settings |-> Dict(render)]), Answers>> : render \in Renders}
    \cup {<<MakeBase(Lines1 @@ Serialized("f") @@ [routing_settings |-> Dict(routing)]), Answers>> :
            routing \in Routings}
    \cup {<<MakeBase(Lines1 @@ [serialization_settings |-> Dict(serialization)]), Answers>> :
            serialization \in Serializations}
    \cup {<<MakeBase(Lines1)>>, <<ProcessRequests(Asked(<<Map>>))>>}
    \cup {<<MakeBase(Lines1 @@ Serialized("f") @@ [render_settings |-> Dict(Whole)]),
            ProcessRequests(Asked(<<stat, Stat("Stop", 1, "A")>>) @@ Serialized("f")
                            @@ [render_settings |-> Dict(render)])>> :
            stat \in {Map, Route, Stat("Bus", 1, "1"), Stat("Stop", 2, "B"),
                      [type |-> "Bus", id |-> Num(1)], [type |-> "Map"], [type |-> "Map", id |-> Name("1")]},
            render \in {Whole, [Whole EXCEPT !.width = Num(1), !.color_palette = List(<< >>)]}}

-----------------------------------------------------------------------------
\* Files that are overwritten, out of date, missing, or cannot be opened.

OneStop == [stops |-> <<[name |-> "A", road_distances |-> << >>]>>, buses |-> << >>]
Scripts ==
    [1 .. 3 ->
        {MakeBase(Requested(<<Line("1"), Line("2")>>) @@ Serialized("f") @@ [render_settings |-> Dict(Whole)]),
         MakeBase(Requested(<<Line("2")>>) @@ Serialized("f")),
         MakeBase(Requested(<<Line("1")>>) @@ Serialized("g")),
         MakeBase(Requested(<<[Line("1") EXCEPT !.stops = <<"A">>]>>) @@ Serialized("f")),
         Base(OneStop, "nowhere"),
         Answers,
         ProcessRequests(Asked(<<Map>>) @@ Serialized("nowhere"))}]

-----------------------------------------------------------------------------
\* A road shorter than nothing that a line takes, and one that none takes.

Shortcuts ==
    {<<Base([stops |-> <<[name |-> "A", road_distances |-> [B |-> -1]],
                         [name |-> "B", road_distances |-> << >>]>>,
             buses |-> <<[name |-> "1", stops |-> line, is_roundtrip |-> TRUE]>>], "f")>> :
        line \in {<<"A", "B">>, <<"A">>}}

-----------------------------------------------------------------------------
MCSessions == Catalogues \cup Readings \cup Settings \cup Scripts \cup Shortcuts

\* A process begins with nothing in base.
NoBase == {EmptyBase}

\* Two stops and a road from the one to the other.
OneRoad ==
    {<<Base([stops |-> <<[name |-> "A", road_distances |-> [B |-> 1]],
                         [name |-> "B", road_distances |-> << >>]>>,
             buses |-> << >>], "f"), Answers>>}

\* The palette of resources/(Stop|Bus|Map).base.json.
ResourcePalette ==
    {<<MakeBase(Serialized("f") @@
            [render_settings |->
                Dict([Whole EXCEPT !.color_palette =
                        List(<<Name(<<"g", "r", "e", "e", "n">>), RgbOf(255, 160, 0), Red>>)])]),
       Answers>>}
=============================================================================
