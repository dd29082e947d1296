------------------------ MODULE MapRendererInvariant ------------------------
(***************************************************************************)
(* The inductive invariant behind the safety properties of MapRenderer:    *)
(* what the four loops of RenderMap have drawn at every step in between.   *)
(***************************************************************************)
EXTENDS MapRenderer, PopulateInvariant

\* The turns that the first three loops have taken.
LinesDrawn == IF drawing = "lines" THEN counter ELSE Len(Routes)
LinesNamed == IF drawing = "lines" THEN 0 ELSE IF drawing = "line labels" THEN counter ELSE Len(Routes)
StopsDrawn == IF drawing \in {"lines", "line labels"} THEN 0
              ELSE IF drawing = "stops" THEN counter ELSE Len(StopStats)

LoopsFollowCatalogue ==
    /\ drawing \in {"waiting", "lines", "line labels", "stops", "stop labels", "done", "crashed"}
    /\ counter \in Nat
    /\ drawing \in {"lines", "line labels"} => counter <= Len(Routes)
    /\ drawing \in {"stops", "stop labels"} => counter <= Len(StopStats)
    /\ drawing = "waiting" => counter = 0 /\ document = << >>
    /\ drawing # "waiting" => stage = "populated"
    /\ drawing \notin {"waiting", "crashed"} =>
        \A name \in GetAllBusLines(db) : ~GetBusLineCrashes(db, name)

\* The polylines come first, one of each line.
LinesFollowRoutes ==
    /\ IF drawing = "lines" THEN LinesDrawn = Len(document) ELSE LinesDrawn <= Len(document)
    /\ Tagged("polyline") = 1 .. LinesDrawn
    /\ \A i \in 1 .. LinesDrawn : document[i] = BusLineLine(Routes[i], GetBusLineColor(i - 1))

LabelsOf(name) == {k \in Labels : document[k].of = name}

HasTwoEnds(bus) == ~bus.is_roundtrip /\ bus.stops[1] # Last(bus.stops)

\* The labels of the i-th line: one at the last stop of its bus, and another one at
\* the first stop unless the line ends where it begins.
HasItsLabels(i) ==
    LET labels == LabelsOf(Routes[i])
        bus    == BusNamed(Routes[i])
    IN  /\ \A k \in labels : k > Len(Routes) /\ document[k].fill = GetBusLineColor(i - 1)
        /\ \E last \in labels :
            /\ document[last].position = Project(coords[Last(bus.stops)])
            /\ IF HasTwoEnds(bus)
               THEN \E first \in labels :
                        /\ first # last /\ labels = {first, last}
                        /\ document[first].position = Project(coords[bus.stops[1]])
               ELSE labels = {last}

\* A line has its labels if the second loop has passed it, and none before.
LabelsFollowRoutes ==
    \A i \in 1 .. Len(Routes) :
        IF i <= LinesNamed THEN HasItsLabels(i) ELSE LabelsOf(Routes[i]) = {}

\* The circles drawn are those of the stops that the third loop has passed.
CirclesFollowStops ==
    /\ \A i \in Tagged("circle") : \E k \in 1 .. StopsDrawn : document[i] = StopCircle(StopStats[k])
    /\ \A k \in 1 .. StopsDrawn : \E i \in Tagged("circle") : document[i] = StopCircle(StopStats[k])
    /\ \A i, k \in Tagged("circle") : document[i].of = document[k].of => i = k

\* Texts are where stops are that have a bus.
TextsAreAtStops ==
    \A i \in Tagged("text") : \E name \in GetAllStopStats(db) : document[i].position = Project(Place(name))

\* Every label lies on its underlayer and above all lines, and the label of a stop
\* above all circles.
LabelsFollowUnderlayers ==
    /\ Tagged("text") = Labels \cup {i - 1 : i \in Labels}
    /\ \A i \in Labels :
        /\ DOMAIN Text \subseteq DOMAIN document[i]
        /\ document[i - 1] = Underlayer(document[i])
        /\ \A k \in Tagged("polyline") : k < i
        /\ document[i].of \in StopName =>
            drawing \in {"stop labels", "done"} /\ \A k \in Tagged("circle") : k < i
    /\ drawing = "lines" => Tagged("text") = {}

MapInvariant ==
    /\ PopulateInvariant
    /\ base \in Bases /\ coords \in Places /\ settings \in MapSettings
    /\ document \in Seq(Range(document))
    /\ \A i \in DOMAIN document : document[i].tag \in {"polyline", "circle", "text"}
    /\ LoopsFollowCatalogue
    /\ drawing \notin {"waiting", "crashed"} =>
        /\ LinesFollowRoutes /\ LabelsFollowRoutes /\ CirclesFollowStops /\ TextsAreAtStops
        /\ LabelsFollowUnderlayers
=============================================================================
