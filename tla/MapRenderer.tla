---------------------------- MODULE MapRenderer ----------------------------
(***************************************************************************)
(* renderer::MapRenderer and SphereProjector of src/map_renderer.h and     *)
(* src/map_renderer.cpp: RenderMap draws a catalogue that Populate has     *)
(* filled, in four loops, one step per line or stop.                       *)
(*                                                                         *)
(* Coordinates and sizes are whole numbers, so that EPSILON makes no       *)
(* difference.  The zoom is a fraction, and the points of a document count *)
(* in parts of its denominator.                                            *)
(***************************************************************************)
EXTENDS Populate, Svg

CONSTANTS
    Places,         \* coordinates of the stops, in the order of the base requests
    MapSettings,    \* render settings, as GenerateMapSettings of RenderSettings has them
    Spelling        \* the characters of the names, which may be the same for a stop and a line

Coordinates == [lat : Int, lng : Int]

ASSUME MapRendererAssumption ==
    /\ StopName \cap BusName = {}
    /\ \A places \in Places :
        places \in Seq(Coordinates) /\ \A input \in Bases : Len(input.stops) <= Len(places)
    /\ \A s \in MapSettings : \A i \in 1 .. 2 :
        {s.map_sizes[i], s.padding} \subseteq Nat /\ 2 * s.padding < s.map_sizes[i]
    /\ Spelling \in [StopName \cup BusName -> Seq(STRING)]

VARIABLES
    coords,     \* coords of every StopPtr
    settings,   \* settings_
    drawing,    \* which loop of RenderMap is running, "done" or "crashed"
    counter,    \* the elements the loop is through with
    document    \* the objects of the svg::Document; the field of names the line or stop drawn

mapVars == <<coords, settings, drawing, counter, document>>
vars == <<populateVars, mapVars>>

Init ==
    /\ PopulateInit
    /\ coords \in Places
    /\ settings \in MapSettings
    /\ drawing = "waiting"
    /\ counter = 0
    /\ document = << >>

-----------------------------------------------------------------------------
\* SphereProjector

\* A std::set of lines or stops is in the order of their names; any order does.
InOrder(names) == SetToSeq(names)
Routes    == InOrder(GetAllBusLines(db))
StopStats == InOrder(GetAllStopStats(db))

BusNamed(name)   == db.buses[SearchBus(db, name)]
Place(name) == coords[SearchStop(db, name)]

Lngs == {Place(name).lng : name \in GetAllStopStats(db)}
Lats == {Place(name).lat : name \in GetAllStopStats(db)}

Width   == settings.map_sizes[1]
Height  == settings.map_sizes[2]
Padding == settings.padding

\* The fractions for the width and for the height, if there is one.
Zooms ==
    (IF Max(Lngs) = Min(Lngs) THEN {}
     ELSE {[num |-> Width - 2 * Padding, den |-> Max(Lngs) - Min(Lngs)]})
    \cup
    (IF Max(Lats) = Min(Lats) THEN {}
     ELSE {[num |-> Height - 2 * Padding, den |-> Max(Lats) - Min(Lats)]})

\* Zoom that takes the larger one.
LargerZoom ==
    IF Zooms = {} THEN [num |-> 0, den |-> 1]
    ELSE CHOOSE zoom \in Zooms : \A other \in Zooms : zoom.num * other.den >= other.num * zoom.den

\* zoom_coeff_
Zoom ==
    IF Zooms = {} THEN [num |-> 0, den |-> 1]
    ELSE CHOOSE zoom \in Zooms : \A other \in Zooms : zoom.num * other.den <= other.num * zoom.den

\* operator(): the latitude grows upwards, y downwards.
Project(place) ==
    Point((place.lng - Min(Lngs)) * Zoom.num + Padding * Zoom.den,
          (Max(Lats) - place.lat) * Zoom.num + Padding * Zoom.den)

-----------------------------------------------------------------------------
\* RenderMap

\* StartMap that asks for a palette first.
StartMapWithPalette ==
    /\ stage = "populated" /\ drawing = "waiting"
    /\ drawing' = IF settings.palette = << >> THEN "done"
                  ELSE IF \E name \in GetAllBusLines(db) : GetBusLineCrashes(db, name)
                  THEN "crashed" ELSE "lines"
    /\ UNCHANGED <<populateVars, coords, settings, counter, document>>

\* GetAllBusLines runs past the end of a line without stops.
StartMap ==
    /\ stage = "populated" /\ drawing = "waiting"
    /\ drawing' = IF \E name \in GetAllBusLines(db) : GetBusLineCrashes(db, name)
                  THEN "crashed" ELSE "lines"
    /\ UNCHANGED <<populateVars, coords, settings, counter, document>>

\* GetBusLineColor of the elements drawn.
ColorByElement(route_counter) == settings.palette[(Len(document) % Len(settings.palette)) + 1]

GetBusLineColor(route_counter) == settings.palette[(route_counter % Len(settings.palette)) + 1]

\* One turn of a loop over n elements adds objects to the document.
Drawing(loop, n) == drawing = loop /\ counter < n

Draw(objects) ==
    /\ document' = document \o objects
    /\ counter' = counter + 1
    /\ UNCHANGED <<populateVars, coords, settings, drawing>>

\* The first color of an empty palette: a division by zero.
NoColor ==
    /\ drawing' = "crashed"
    /\ UNCHANGED <<populateVars, coords, settings, counter, document>>

\* A polyline runs there and back, unless the line is a round trip.
Trip(bus) == IF bus.is_roundtrip THEN bus.stops ELSE bus.stops \o Tail(Reverse(bus.stops))

BusLineLine(name, color) ==
    LET trip == Trip(BusNamed(name))
    IN  Set(Polyline, [of        |-> name,
                       points    |-> [i \in DOMAIN trip |-> Project(coords[trip[i]])],
                       stroke    |-> color,
                       fill      |-> NoneColor,
                       width     |-> settings.line_width,
                       line_cap  |-> "round",
                       line_join |-> "round"])

DrawBusLineLine ==
    /\ Drawing("lines", Len(Routes))
    /\ IF settings.palette = << >> THEN NoColor
       ELSE Draw(<<BusLineLine(Routes[counter + 1], GetBusLineColor(counter))>>)

\* DrawLabel: the underlayer is a copy of the text.
LabelText(name, place, label, props) ==
    Set(Set(Text, props),
        [of |-> name, position |-> Project(place), offset |-> label.offset,
         font_size |-> AsUint32(label.font_size), font_family |-> "Verdana",
         content |-> Spelling[name]])

Underlayer(text) ==
    Set(text, [fill |-> settings.underlayer.color, width |-> settings.underlayer.width,
               stroke |-> settings.underlayer.color, line_cap |-> "round", line_join |-> "round"])

\* Label whose underlayer comes second.
LabelUnderUnderlayer(name, place, label, props) ==
    LET text == LabelText(name, place, label, props) IN <<text, Underlayer(text)>>

Label(name, place, label, props) ==
    LET text == LabelText(name, place, label, props) IN <<Underlayer(text), text>>

BusLineLabels(name, color) ==
    LET stops == BusNamed(name).stops
        props == [fill |-> color, font_weight |-> "bold"]
    IN  (IF ~BusNamed(name).is_roundtrip /\ stops[1] # Last(stops)
         THEN Label(name, coords[stops[1]], settings.bus_label, props) ELSE << >>)
        \o Label(name, coords[Last(stops)], settings.bus_label, props)

DrawBusLineLabel ==
    /\ Drawing("line labels", Len(Routes))
    /\ Draw(BusLineLabels(Routes[counter + 1], GetBusLineColor(counter)))

White == [word |-> <<"w", "h", "i", "t", "e">>]
Black == [word |-> <<"b", "l", "a", "c", "k">>]

StopCircle(name) ==
    Set(Circle, [of |-> name, center |-> Project(Place(name)),
                 radius |-> settings.stop_radius, fill |-> White])

DrawStop ==
    /\ Drawing("stops", Len(StopStats))
    /\ Draw(<<StopCircle(StopStats[counter + 1])>>)

StopLabel(name) == Label(name, Place(name), settings.stop_label, [fill |-> Black])

DrawStopLabel ==
    /\ Drawing("stop labels", Len(StopStats))
    /\ Draw(StopLabel(StopStats[counter + 1]))

NextLayer ==
    /\ \/ drawing \in {"lines", "line labels"} /\ counter = Len(Routes)
       \/ drawing \in {"stops", "stop labels"} /\ counter = Len(StopStats)
    /\ drawing' = CASE drawing = "lines"       -> "line labels"
                    [] drawing = "line labels" -> "stops"
                    [] drawing = "stops"       -> "stop labels"
                    [] drawing = "stop labels" -> "done"
    /\ counter' = 0
    /\ UNCHANGED <<populateVars, coords, settings, document>>

RenderMap ==
    \/ StartMap \/ NextLayer
    \/ DrawBusLineLine \/ DrawBusLineLabel \/ DrawStop \/ DrawStopLabel

Next == (PopulateNext /\ UNCHANGED mapVars) \/ RenderMap

Spec == /\ Init /\ [][Next]_vars
        /\ WF_vars(PopulateNext /\ UNCHANGED mapVars) /\ WF_vars(RenderMap)
-----------------------------------------------------------------------------
Tagged(tag) == {i \in DOMAIN document : document[i].tag = tag}

\* The texts that are no underlayers.
Labels == {i \in Tagged("text") : "stroke" \notin DOMAIN document[i]}

PointsOf(object) ==
    CASE object.tag = "polyline" -> Range(object.points)
      [] object.tag = "circle"   -> {object.center}
      [] object.tag = "text"     -> {object.position}

Points == UNION {PointsOf(object) : object \in Range(document)}

\* The picture stays within the padding of the map, and is as large as that allows:
\* it begins at the upper and the left margin, and its width or its height fills
\* the map, unless all is in one place.  The projector is given the stops with a bus
\* only (map_renderer.cpp:27-36), which must be the ones the lines lead to.
PictureFitsMap ==
    drawing = "done" /\ document # << >> =>
        LET xs == {point.x : point \in Points}
            ys == {point.y : point \in Points}
            margin == Padding * Zoom.den
        IN  /\ Min(xs) = margin /\ Max(xs) <= Width * Zoom.den - margin
            /\ Min(ys) = margin /\ Max(ys) <= Height * Zoom.den - margin
            /\ Cardinality(Points) > 1 =>
                Max(xs) = Width * Zoom.den - margin \/ Max(ys) = Height * Zoom.den - margin

\* Every line has a label at each of its ends, once where both are one stop, in the
\* color of its polyline: two loops count the colors on their own
\* (map_renderer.cpp:43-57, 102-124).
LabelsMatchLines ==
    drawing = "done" =>
        \A i \in Tagged("polyline") :
            LET line   == document[i]
                labels == {k \in Labels : document[k].of = line.of}
                bus    == BusNamed(line.of)
                ends   == {bus.stops[1], Last(bus.stops)}
            IN  /\ \A k \in labels : k > i /\ document[k].fill = line.stroke
                /\ Cardinality(labels) = IF bus.is_roundtrip THEN 1 ELSE Cardinality(ends)
                /\ {document[k].position : k \in labels} =
                    (IF bus.is_roundtrip THEN {Last(line.points)}
                     ELSE {line.points[1], line.points[Len(bus.stops)]})

\* No line leads to a point without a stop, also where a stop has been declared
\* twice at two places; and every stop is drawn once, at a point of a line, or else
\* of a line that a later one of the same name has replaced (catalogue.cpp:30-37,
\* 94-107).
StopsAreOnLines ==
    drawing = "done" =>
        LET centers  == {document[i].center : i \in Tagged("circle")}
            onlines  == UNION {Range(document[i].points) : i \in Tagged("polyline")}
            replaced == BusPtrs(db) \ GetBusesHolder(db)
        IN  /\ onlines \subseteq centers
            /\ replaced = {} => onlines = centers
            /\ centers = {Project(coords[ptr]) : ptr \in UNION {Range(bus.stops) : bus \in Range(db.buses)}}
            /\ \A i, k \in Tagged("circle") : document[i].of = document[k].of => i = k

\* What SVG draws last covers what it draws first: every label lies above all lines,
\* and directly above an underlayer of the same printed text at the same place, in
\* the same font; and no line or circle is drawn over a label of a stop
\* (map_renderer.cpp:19-22, 84-92, svg.cpp:111-160).
LabelsAreUnderlaid ==
    drawing = "done" =>
        LET picture == Render(document)
            Fonts   == {"x", "y", "dx", "dy", "font-size", "font-family", "font-weight"}
            Font(i) == {attr \in Range(picture[i].attrs) : attr[1] \in Fonts}
            Value(i, name) == {attr[2] : attr \in {a \in Range(picture[i].attrs) : a[1] = name}}
        IN  /\ Tagged("text") = Labels \cup {i - 1 : i \in Labels}
            /\ \A i \in Labels :
                /\ \A k \in Tagged("polyline") : k < i
                /\ picture[i].content = picture[i - 1].content /\ Font(i) = Font(i - 1)
                /\ Value(i - 1, "fill") = Value(i - 1, "stroke") /\ Value(i, "stroke") = {}
                /\ document[i].of \in StopName => \A k \in Tagged("circle") : k < i

ReadsAs(name) ==
    \A i \in Tagged("text") :
        document[i].of = name => Displayed[RenderObject(document[i]).content] = Spelling[name]

\* Quotes and brackets in a name do not break the document and are displayed as they
\* are, unless the name has an ampersand (svg.cpp:126-146).
NamesAreReadable ==
    drawing = "done" => \A name \in DOMAIN Spelling : "&" \in Range(Spelling[name]) \/ ReadsAs(name)

\* "Задаёт текстовое содержимое объекта (отображается внутри тега text)" (svg.h:263):
\* the content that is set, the name, is the one displayed within the tag.
NamesAreDisplayed == drawing = "done" => \A name \in DOMAIN Spelling : ReadsAs(name)

\* The map of a catalogue is drawn, but for lines without stops, and for lines
\* without a color: what happens where there are no render settings.
MapIsDrawn ==
    stage = "populated" ~>
        drawing = IF \E bus \in Range(base.buses) : bus.stops = << >> \/ settings.palette = << >>
                  THEN "crashed" ELSE "done"
=============================================================================
