# A verification of transport_catalogue

TLA+ models of the transport catalogue (`src/src`), of the graph, JSON and SVG libraries under it
(`src/lib`) and of its command line (`src/run/main.cpp`), the TLC runs that check them, and proofs
that its shortest-route algorithm is correct for every graph, that the catalogue is what the requests
declare for every input, that the edges of the transport router are the rides and waits of that
catalogue, that every route it answers is a fastest journey by the lines, that its answers to different
requests agree with each other and with the input, that the map shows the lines and stops of the catalogue and
fits, and that no process loses a file to a bad input. Paths here are those of the repository.

The program reads one JSON document. *Base requests* declare stops, the roads between them and bus
lines; they fill a catalogue. *Stat requests* ask about a stop, a line, the fastest route between two
stops, or the map as an SVG picture. In `make_base` mode the program saves the catalogue, a router over
it and the settings to a protobuf file; in `process_requests` mode it loads them and answers. The unit
tests do both in one process (`ProcessTransport`, run/gtest-transport.cpp).

## Inventory

The whole program is one thread. Nothing is concurrent, and no behaviour below depends on a scheduler;
what is hard is *stale and disagreeing state* (six indexes of one catalogue; a table rewritten while it
is read), *order* (hash maps, requests in any order, calls of a builder in any order), *half-done
operations* (a container changed before the exception), *restarts* (what one process saves, another
loads, and either may be killed) and *loops that must end*.

| Component | State | Operations | Talks to | What makes it correct |
|---|---|---|---|---|
| Graph container, `lib/graph/graph.h` | `edges_`, `incidence_lists_` | AddEdge, GetEdge, GetIncidentEdges | filled by transport::Router | the lists index the edges, also after an AddEdge that threw |
| Graph router, `lib/graph/router.h` | `routes_internal_data_` | constructor, BuildRoute | reads the graph through a reference | the table is optimal, its links lead along real edges that add up, BuildRoute ends and dereferences nothing empty |
| Catalogue, `src/catalogue.*` | `stops_`, `buses_`, two name indexes, `stop_to_buses_`, `stops_to_distance_` | AddStop, AddBus, MakeAdjacent, queries | everything reads it | the six members agree, whatever is declared twice, unknown or half-added |
| Population, `io::Populate`, `src/json_reader.cpp` | three loops | one catalogue call per step | JSON reader → catalogue | distances and lines are the declared ones; fails exactly on an unknown stop |
| JSON reader, `src/json_reader.*` | sorted requests, settings | constructor, GenerateMapSettings, GetDatabaseFileName | JSON parser → Populate, Search | no request lost, doubled or reordered; an exception for what is missing or of a wrong type |
| Transport router, `src/router.*` | `stop_to_transfer_`, `graph_`, `id_to_edge_`, `router_` | constructor, GetRoute | catalogue, graph router | every edge is a ride or a wait that exists, the fastest is kept, answers are fastest journeys |
| Request handler and search, `src/request_handler.*`, `io::Search` | responses so far | GetRoute, GetStop, GetBus, RenderMap | catalogue, router, renderer | answers to different requests do not contradict each other |
| Map renderer, `src/map_renderer.*` | document, settings | RenderMap | catalogue, SVG library | the picture fits, labels belong to their lines and are not covered, lines lead to stops |
| Serialization, `src/serialization.*`, `*.proto` | the file | Serialize, Deserialize | between the two modes | what is loaded is what was saved |
| JSON parser and printer, `lib/json/json.*` | the stream | Load, Print | reader, search | accepts JSON (and what it forgives), inverse of printing |
| JSON builder, `lib/json/json_builder.*` | `root_`, `nodes_stack_` | Key, Value, Start*, End*, Build | search | builds exactly the document the calls describe, throws otherwise |
| SVG library, `lib/svg/*` | objects and their properties | Render, operator<< of a color | renderer, serialization (colors) | what is set is what is displayed |
| Geography, `lib/geo/*` | – | ComputeDistance | catalogue, for the curvature | a formula in doubles |
| Program, `run/main.cpp` | the files | make_base, process_requests | all | a bad input ends in an exception, before a good file is touched |
| Examples, generator, unit tests, `run/*` | – | – | – | not part of the program |

`PROJECT.json` lists the same components with their status, and under `hazards` every place in the code
where one of these things can go wrong, with the properties that watch it.

## The modules

EXTENDS runs downwards; MC modules only give values to constants.

```
DirectedWeightedGraph ---- RoutePlanner (abstract)     Catalogue
   |                          |                           |
GraphRouter                   |                        Populate
GraphRouterInvariant          |                           |-- PopulateInvariant -- Populate_proofs
   |-- GraphRouter_proofs     |                           |-- MapRenderer -- Svg
   '-- GraphRouterRefinement -'(INSTANCE)                 |   MapRendererInvariant -- MapRenderer_proofs
       GraphRouterRefinement_proofs                    TransportRouter --(INSTANCE RoutePlanner)
                                                          |-- TransportRouterInvariant
                                                          |   TransportRouter_proofs
InductionLemmas (used by the proofs)                      |-- Search -- SearchInvariant -- Search_proofs
   JsonNode -- RenderSettings (with Svg) ---------- Persistence
      |------- JsonReader -------------------------------- Program
      |                                                  ProgramInvariant -- Program_proofs
      |------- JsonBuilder --------------------.
      '------- Json (JsonString, JsonNumber) -- JsonDocument
```

**DirectedWeightedGraph** (graph.h). A graph is a record of `edges` and `incidence_lists`, an edge id the
position of its edge (ids count from 1, in the code from 0). `AddEdge` stores the edge first and throws
second: an edge of an unknown tail stays in `edges` and is in no list. `ListedEdges` are the others.

**GraphRouter** (router.h). The variables are the members and the loop variables of the constructor, one
action per turn of a loop: `AddEdge` by the caller, then `EnterVertex`, `ScanEdge`, `RejectEdge`,
`LeaveVertex` for InitializeRoutesInternalData, `RelaxRoute`, `SkipRow`, `SkipColumn`, `NextRow`,
`NextThrough` for the three loops of Floyd and Warshall, `BuildRoute`, `WalkEdge`, `FinishWalk` for a
request. The relaxation changes one entry of the table at a time and reads the row and the column of
`vertex_through` from the table it is changing, as the references in the code do.

**RoutePlanner** is the abstract specification: built over a graph, it answers a request with some shortest
route (defined by enumerating walks) or with nothing, and building and answering always end.
**GraphRouterRefinement** is the mapping, from the phases of the loops to "building" and "asked".

**Catalogue** (catalogue.h/.cpp) is a value with the six members and operators for the methods; a StopPtr or
a BusPtr is the position of its element, so that two stops of one name are two pointers, as in the code.
**Populate** (json_reader.cpp) fills it, one action per call.

**TransportRouter** (router.h/.cpp) extends Populate: when the catalogue is populated the constructor runs,
an action per turn of its loops, and then takes route requests. It does not repeat Floyd and Warshall but
uses the promise of RoutePlanner, which GraphRouter is shown to keep; so a response is *any* shortest route.
Where the iteration order of an `unordered_map` can make a difference (vertices of the stops, which of
two equal rides is kept) the order is nondeterministic; where it only numbers edges it is fixed.

**Search** (json_reader.cpp, request_handler.cpp) answers the stat requests of an input one by one over catalogue
and router; a Route request is the action GetRoute of TransportRouter. Of the curvature of a line it has
whether it is a number: `Place` says where the stops are, and `StayedAt` what the geographic distance from a
place to itself may come out as, 0 or NaN, since the cosine may be rounded to more than 1. A Map request crashes in
it where drawing would: at a line without stops, and at any line when the input has no render settings, for a
color is then taken modulo the size of an empty palette (`Palette`). `EndsSearch` says which requests those are.

**Svg** (svg.h/.cpp) has the objects with the properties that have been set, how a color is written, and
`RenderObject`, the attributes and the escaped content that are printed of an object.
**MapRenderer** (map_renderer.h/.cpp) draws the populated catalogue with them, one action per object, with
exact fractions in place of doubles. `Displayed` in it reads what is printed as XML does.

**JsonNode** is the json::Node of the input with its predicates (`IsDouble` holds of an int, too).
**JsonReader** is the constructor: two passes over the base requests, one over the stat requests, the settings.
**RenderSettings** takes renderer::Settings through all their forms: read from the input with the key that is
missing or of a wrong type as the reason to throw (`GenerateEnds`), uninitialized where the input has none,
converted to the message and back, colors character by character where `convert_color` cuts strings.
**Persistence** is the message that Serialize makes of catalogue, router and settings.

**Program** (main.cpp) composes them all. A session is a sequence of processes, each with a mode and an
input. `Start` begins one with empty memory; `MainNext` is the body of main, in its order: `ReadInput`,
`BeginPopulate` and `ContinuePopulate` (or `SkipPopulate`), `TakeSettings`, `MakeHandler`, `OpenForWriting`
and `Serialize`, or `OpenForReading`, `LoadBus`, `LoadSettings`, `Respond`, `PrintResponses`. An exception
leaves main (`at = "threw"`), undefined behaviour is an end of its own, and `Kill` ends the process
between any two steps: what it had in memory is gone, what it has done to the files stays. Opening and
writing the file are two steps, so that there is a kill that leaves it empty. The actions of the components
are conjuncts of those of main, not copies: `ReaderNext`, `PopulateNext`, `RouterNext`.

**JsonString** and **JsonNumber** read the characters of a string and of a number, **Json** uses them and reads
and prints tokens, a double with the six digits that a stream writes (`SixDigits`, `PrintDouble`), **JsonBuilder** takes any sequence of calls. **JsonDocument** composes the two: what has been
built is printed, and what is printed is loaded.

Abstractions that hold for several modules: weights, times and distances are whole numbers, doubles are
not modelled (numbers in JSON and settings are hundredths); times are counted in the metres that a bus rides
meanwhile, since all buses have one velocity; names are model values or short strings, except where their
characters are the question; only MapRenderer has coordinates.

## The runs

One thread runs until it returns, so no run has fewer interleavings than the program has. Every run
enumerates its inputs in Init or, for the calls of a client, in actions.

| Run | Inputs and bounds | Shows |
|---|---|---|
| `graph_router` | every sequence of up to 4 of 11 edges over 4 vertices: cycles of weight 0, parallel and heavier edges, a negative one, one without a tail | type, incidence lists, optimal table, links that add up, no empty dereference, a walk that meets no vertex twice, the inductive invariant, PivotUntouched, and refinement of RoutePlanner, progress included |
| `search` | 5 sets of roads with 196 pairs of lines each, and lines without stops; render settings, which 300 of the 992 inputs do without; two stops in one place; all orders of the hash maps; Stop, Bus, Map and every Route request | edges match items, the fastest ride is kept, rides are real, answers are fastest, when the constructor throws; answers agree with each other and with the input; every request is answered up to the first that the code has no answer for |
| `map_renderer` | 3 orders of stops, 73 sets of lines, 4 shapes of places, 3 settings | the picture fits; labels and stops are where the lines are, and covered by nothing; names with quotes and brackets are displayed as they are; when the renderer ends or crashes |
| `program` | sessions of up to 3 processes, each of which may be killed at any step: every catalogue of MCPopulate (2 or 3 stops, one of them declared twice or unknown, every choice of roads, 2 lines of one name or two) through both modes; lists of up to 3 base and 2 stat requests of known and unknown types; settings that are whole, lack one key, or have one of a wrong type, and 20 colors, one of them the name of a color that looks like numbers; all sequences of 3 of 7 processes that write, overwrite and read two files or one that cannot be opened; a road shorter than nothing | the catalogue and its loops; sorting of the requests; which inputs make a base; that no file is lost to an input that does not; which lines and settings another process finds in the file; that every process ends |
| `json` | every sequence of up to 7 calls, legal or not; every text of up to 8 tokens; every string and every number of up to 7 of the characters that matter | a document is built if and only if the calls are its reading, by a recursive-descent definition, and comes back from Print and Load, but for the digits of its doubles; accepted texts are those of the grammar with commas forgiven; where a string and a number end; printing is inverted |

Why these bounds are enough to be interesting:

* *Four vertices* and four edges: a detour of two or three edges beats or ties with a direct edge, cycles cost
  nothing, parallel edges differ, and a rejected edge can stand before, between and behind the others. The
  proofs are for all sizes.
* *A name twice* is the least at which pointers and names diverge, and two lines the least at which one
  takes over the name of another. The third stop is the unknown one, or the second of its name.
* *Lines of three and four stops* pass twice over a stop, turn, circle, stay; a third stop makes transfers. In
  `search` the constant SpanModulus is 3 where the code has 256, so that spans of short lines wrap around.
* *Three processes* write a file, overwrite it or are killed at it, and read what is there. `IntModulus`, 16 in
  place of 2^32, makes negative font sizes wrap; `Indeterminate` stands for uninitialized numbers.
* *Numbers of seven digits* in an array that is built as a whole: a digit is lost, a fraction is, rounding carries into
  the next power of ten or to the even digit, or the number has zeros at its end; an int of seven digits keeps them.
* *Seven calls* open two containers, fill and close them and call once more; *eight tokens* are a dictionary
  with a nested array, or two members; *seven characters* are two quotes around two escapes and one more
  character, the text that almost is that, or a sign, a digit, a fraction and an exponent of two digits;
  an exponent of three digits and `ExponentLimit` make a double overflow, `IntLimit` an int.

CHECK_DEADLOCK is FALSE throughout: constructors, requests and sessions end, with a result or with an
exception.

### Fairness

`Fairness` says that the one thread goes on while it has something to do (weak fairness of the loops);
main calls them one after the other and waits for nothing but its input, so the code justifies that much. It
never says that a client asks: `GetRoute`, `BuildRoute`, `AddEdge` and the calls of a builder need not
come. In Program the fairness is that of `MainNext`; that a process is started, or killed, is never assumed.
Each liveness property is conditional on the thread having been started (`populated ~> ...`,
`ready ~> ...`, `reading ~> ...`).

### What the code does otherwise than it says

Seven more runs end in a counterexample; each is a finding in `PROJECT.json` with the line it contradicts.

* `ride_750`: CreateEdgesFromBusLines passes over the leg between a stop and itself without its distance but
  counts it in the span, while Catalogue::GetBusLine counts its length (test of line 750). `RidesAreReal` says
  what holds for all other lines.
* `base_roads`: Serialize writes the id of the first stop of a distance twice.
* `base_loads`: Deserialize asks the still empty catalogue for the name of a stop, so that process_requests
  cannot read any file with a stop. Names of stops are not in the file at all.
* `palette`: convert_color takes too few characters of an rgb color, and reads behind the end of a vector.
  `SettingsSurvive` says which colors do survive: those whose numbers have one digit.
* `json_root`: a container may be started inside of a finished root array.
* `map_amp`: an ampersand in a name is printed as `&amp` without a semicolon, and the picture is no XML.
* `curvature`: the curvature of a line with one stop is 0/0, and `nan` is no JSON.

Smaller things are part of properties that pass: the message for an unknown stat request takes its id for a
string and fails itself if it is a number, as every valid id is (`RequestsAreSorted`); the double 1.0 is
printed as 1 and loaded as an int, 12345.67 comes back as 12345.7 and 999999.5 as the double 1e+06
(`BuiltIsLoaded` says what comes back of every double); `[01]` is
loaded as an array of two numbers, since a zero ends a number and commas may be missing
(`NumberEndsAsInJson`, `OnlyCommasAreForgiven`); a file that is cut off or not there is read as a base without
anything (`SettingsSurvive`).

## The proofs

Every theorem below is checked by TLAPS for all values of the constants of its module, from that module's
assumption alone, which TLC evaluates in every run of the module: `RouterAssumption` (the number of
vertices is a natural number, Null is none, the edges are records of natural ends and whole weights, negative
weights and unknown tails included), `PopulateAssumption` (the inputs are records of the types that the JSON
reader hands on), `TransportRouterAssumption` (the waiting time is a natural number, spans are counted
modulo something, there is a bound on the stops of an input, and Null is no route), `SearchAssumption`
(the requests come in sequences, every stop has a place, and Null is no answer about a line), `MapRendererAssumption`
(no stop is taken for a line of the same spelling, every stop request has whole coordinates, the padding leaves something of
the map) and `ProgramAssumption` (sessions and JSON arrays are sequences, base requests of a known type hold what
Populate reads of them, and the render settings hold numbers of their range: font sizes, and what memory that nobody
has set may hold, fit an int; colors have whole numbers, of whatever size, and an opacity of up to 1). Where a theorem needs more it says so in its statement.

Each component has a module with its inductive invariant and a module with the proofs. TLC has checked each inductive
invariant on the small instances first (`InductiveInvariant` still, in the run `graph_router`). There is one lemma for
each action, with one step for each conjunct that the action can disturb; properties follow from the invariant
alone, and a temporal theorem only puts the steps together.

### The graph router

| Theorem | Module | Statement |
|---|---|---|
| `TableInvariance` | GraphRouter_proofs | `Spec => []TableInvariant` |
| `TypeCorrect`, `IncidenceCorrect` | | types; the incidence lists index the edges |
| `Optimality` | | in a finished table no route can be bettered: each entry is at most the direct edge and at most any detour, and an empty entry has no detour |
| `LinkSoundness` | | in a finished table the weight of a route is that of the route its last edge leaves from, plus that edge |
| `DereferenceSafety` | | BuildRoute never dereferences an empty entry |
| `PivotStability` | | no step of a phase changes the row or the column the phase reads |
| `Invariance` | | `Spec => []InductiveInvariant`, which adds the shape of the routes |
| `WalkEnds` | | BuildRoute meets no vertex twice, so that its loop ends |
| `Refinement` | GraphRouterRefinement_proofs | every behaviour of GraphRouter is one of RoutePlanner: the initial state maps to its initial state, every step to a step of it or to none; so every answer is a walk of least weight among *all* walks, and there is none only where there is no walk |

**The table.** `RoutesAreShortest` speaks of the finished table only and is not inductive. What is, in
GraphRouterInvariant:

* `Initialized`: while the direct edges are entered, rows not yet entered are empty, and others cover the
  edges scanned so far by entries that are edges themselves.
* `EdgesCovered`, `DiagonalZero`: afterwards no entry is ever heavier than a direct edge, and the diagonal is
  0 with no link.
* `ClosedBelow`: for every `m < vertex_through`, a detour over `m` is no better than what the pair has *or will
  have when the phase in progress ends*. That "or" is the heart of it (`AtMost` is `Direct` or `ByThrough`): in
  the middle of a phase the table is *not* closed, for the two halves of a detour may be relaxed already and
  the whole not yet. `ByThrough` says that the phase still has the detour over `vertex_through` to offer, and
  `PassedRelaxed` that the pairs already passed need no such offer; at the end of a phase all are passed,
  so that `AtMost` collapses to `Direct` and the phase's own vertex joins the closed ones.
* `PrevLinks`: the last edge of a route ends it, and the rest is `AtMost` what remains: links written in
  different phases fit together, though with an inequality in the middle of a phase. When the table is
  finished, `EdgesCovered` and `ClosedBelow` turn it into the equality of `PrevEdgesAddUp` (`FinishedTable`).
* `OnRoute`: BuildRoute stands at an edge whose tail has a route.

`RelaxRouteEffect` is the one place where the arithmetic of a relaxation is done: because the diagonal is 0 and
weights are not negative, the row and the column of `vertex_through` do not change in their own phase, which is
why the references held into a table that is being written are harmless.

**The walk.** That the links of a row never lead round in a circle is not true of the table in the middle of a
phase: an entry that was relaxed can link to one that waits for it and still belongs to the old route. It is
true of the table that the phase will leave, `Eventual`. `LinksEndAtSource` states it without walks: among any
vertices that have a route from x there is one whose route comes from elsewhere. A phase keeps it
(`NoCircleClosed`), because a route relaxed over `vertex_through` is strictly lighter than the one it replaces
and `TailsBelow` keeps the routes of earlier phases below that vertex; so edges of weight 0 do no harm.

**The refinement.** RoutePlanner enumerates walks by length, a recursive function. That no walk is lighter than
the entry (`NoLighterWalk`) is an induction over that length. That the entry is a walk (`EveryRouteIsWalked`) grows
the tree of the links of a row by one vertex at a time, each with one more edge, until no vertex is left: as
there are only `VertexCount` vertices, a walk of RoutePlanner's bounded length is enough. And what
BuildRoute has walked back is such a walk (`AnswerIsWalked`). The prover cannot take an operator as the
parameter of an induction theorem; **InductionLemmas** states induction over the natural numbers, least
elements, definition by recursion, reachability and sums about sets and functions instead, which it can.

### Population

| Theorem | Statement |
|---|---|
| `PopulateInvariance` | `PopulateSpec => []PopulateInvariant` |
| `PopulateTypes` | types |
| `BusesAreOfNamedStops` | the stops of every bus are those that their names lead to, in the order of the request, and an unknown name ends the population |
| `DistancesAreDeclared` | a road has the length that was declared last for its direction, else the length of the way back, else none |
| `StopsListBuses` | a stop lists the lines that call there and no other |

All in Populate_proofs, for every input: names declared twice, roads to stops that come later or never, lines
that take over a name. The invariant says of each index of the catalogue what the loops have made of the
requests passed. The stop loop ends before the others begin, so that SearchStop gives the last pointer of a name
for good (`NamesLeadToLastStops`); a bus that failed half-way is in `buses_` and in no list, so that
`ListsFollowBuses` is about the buses from which AddBus has `Returned`; and that a distance of the way back is
only missing where it equals the other one is a fact about two entries of a map over all turns of a loop.

### Transport router

| Theorem | Statement |
|---|---|
| `RouterInvariance` | `Spec => []RouterInvariant` |
| `RouterTypes` | types; ids and vertices stay within the graph |
| `EdgesMatchItems` | every edge of the graph says the same as the item that is shown for it, and no two edges join the same vertices |
| `RidesExist` | every ride of the graph is one its bus really makes: span, bus and time belong to one ride |
| `RideTimes` | there is a ride between two stops exactly if a line goes from the one to the other, and it takes the least time; *if no road is shorter than nothing* |

All in TransportRouter_proofs, over any catalogue that Populate leaves. The invariant (TransportRouterInvariant)
has for each loop of the constructor what it has made of the one before: transfers numbered in the order of
the hash map (`TransfersFollowStops`), edges that are those of their items with no pair twice
(`ItemsFollowEdges`), a wait at each stop passed (`WaitsFollowStops`), the edges collected being those of the
buses passed (`CollectedFollowsLines`), of which the first of the fastest of each pair is kept (`RidesAreFastest`).

The last two theorems are about the `continue` of CreateEdgesFromBusLines, which skips a leg that comes back to
the stop of departure, length and all. `RidesExist`: an edge with such a leg left out is never kept, since the same
bus boarded at that later place is strictly faster, and was collected, too (`BoardedLater`, `NoLegLeftOut`);
what is kept counts all its legs. `RideTimes`: whoever boards at the last return rides as fast (`AsFastLater`).
This needs that roads are not negative, and the code does not see to that: a stop that declares a distance of -1
to itself makes a ride that counts it shorter than the one the router keeps. So `NoNegativeRoads` is an explicit
hypothesis of this theorem, about the inputs, and no assumption of the module.

### Answers

| Theorem | Statement |
|---|---|
| `AnswersAreFastest` | every route that is answered is a journey of the least time by the lines, shown as waits and rides that join up and add up to that time; where there is no answer a name is unknown, or no change of lines leads there; *if no road is shorter than nothing* |

In TransportRouter_proofs, too, of the two halves: the promise of RoutePlanner (which `Refinement` shows
graph::Router to keep) and the edges of the router. A response is a shortest walk over the edges of the
graph; `Fastest` is defined without the graph, by passengers who wait and ride along the lines of the catalogue.

* *A journey is a walk* (`JourneyIsWalked`): where passengers wait and ride, two edges lead, at most as slow
  (`WaitThere`, `RideThere`, the latter from `RideTimes`).
* *A walk is a journey* (`WalkIsRidden`): edges are waits and rides by turns (`EdgeMeans`), for a wait leads from
  where passengers arrive at a stop to where they board, and a ride from there to where they arrive. So a walk
  between two arrivals is a journey, and takes as long, since the edge of a ride is one of the rides
  (`RidesExist`).
* *Both enumerations stop early enough*. RoutePlanner lists walks of fewer edges than there are vertices, `Fastest`
  journeys of no more rides than there are stops. Neither would be a bound without weights that are not
  negative: `SoonReached` (InductionLemmas) says that whatever is reached by moves that cost nothing or more
  is reached at most as dear in fewer moves than there are places. `WalksReach` and `JourneysReach` make the
  two enumerations instances of it.
* *The items show the walk* (`WalkIsShown`): one more edge is one more item, it starts where the one before ends,
  and the times add up, since `SumOfMore` says what a sum of one element more is.
* *The last answer stays a response* (`Answered`): the router that is ready does not change.


### Requests

| Theorem | Statement |
|---|---|
| `SearchInvariance` | `SearchSpec => []SearchInvariant` |
| `RidesListed` | a passenger boards and leaves a bus only at stops whose own answer lists that bus |
| `RidesFit` | no ride takes longer than its line there and back, as the answer about the bus has it, or spans as many stops |
| `BusAnswersDeclared` | a bus is answered with the length and the numbers of stops of the trip its last declaration describes |

In Search_proofs, over any catalogue and any list of requests. SearchInvariant adds to the invariant of the router that
responses belong to the requests in their order (`ResponsesFollowRequests`), that each says what there is
to say of its stop or line, and that what a route shows are items of the router (`RespondsTo`): walks are
made of edge ids, and the items are theirs (`WalksStay`, `RouteItems`). It is inductive because no request changes the
catalogue or the router, and no response is given before both are ready.

* `RidesListed` goes from an item to the ride of a line it was collected from (`RideOfBus`), and from that line to the
  lists of its stops, where another bus of its name may stand for it (`BusIsListed`).
* `RidesFit` compares two sums over the same roads. One skips legs and starts in the middle, in either direction; the
  other adds each leg to its way back. `SumWithin` compares them leg by leg, in either order, provided that no leg is
  negative. The property excludes that only for the legs there; on the way back none is, for each is an edge
  between neighbours, graph::Router would have refused the one that was kept, and the one that was kept
  is as fast or faster (`KeptTakesTime`, `NoNegativeLeg`). The span is a number modulo 256, which can only be less.
* `BusAnswersDeclared` takes a bus back to the request it was made of (`BusOfName`, `StopsOfNames`), each leg to
  the declared road (`LegIsDeclared`, from `DistancesAreDeclared`), and the sum of pairs of legs to the sum along
  the trip, there and then back (`ThereAndBack`, `SumThereAndBack`). `SumByLength` in InductionLemmas makes sums over a
  function, which the library defines by choosing elements of a set, into sums by length.

### The program

| Theorem | Statement |
|---|---|
| `ProgramInvariance` | `ProgramSpec => []ProgramInvariant` |
| `ReadRequestsAreSorted` | the lists of the reader are the requests of their types, all and in their order; it is done exactly if the input is well-formed, and which exception it throws otherwise |
| `MakeBaseEnds` | make_base returns only if its input is acceptable, throws only if it is not or has a road shorter than nothing, and is undefined in two cases only |
| `FilesStayWhole` | `ProgramSpec => FilesAreWhole`: a file changes only when the whole input has been accepted |
| `SavedLinesSurvive` | process_requests has the lines of the base written last, or none |
| `SettingsInvariance` | `ProgramSpec => []SettingsInvariant`: settings taken from an input, and those a file was written from, are whole |
| `SavedSettingsSurvive` | process_requests draws with the settings of the base written last, or with none; of the colors those with numbers of one digit come back, and no others |

All in Program_proofs, for every session: any number of processes, any inputs, a kill anywhere, files that cannot be
opened. Program is a long sequence of steps, each of which checks a little of the input, and the properties are about
its end; so ProgramInvariant says what each place of main may rely on.

* `ReaderFollowsInput`: which prefix of which array each pass has taken. `Taken` is the sublist of a type, so that the
  two passes over the base requests are two sublists of one array.
* `MainFollowsSession`, `MainFollowsCatalogue`: behind every place what has been accepted before it (`RoutingIsWhole`
  once Populate runs, `RenderFits` once the settings are taken, RouterInvariant throughout), so that at
  `at = "writing"` the parts add up to `Acceptable`. RouterInvariant is the invariant of the transport
  router above: Program runs PopulateNext and RouterNext themselves, and their lemmas are cited, not repeated.
* `MakeBaseOutcome` is a conjunct itself, since it is about the states that main ends in: each way out of main is shown to
  be taken for a reason. The hard one is the exception of graph::Router for a ride of negative time: it takes
  a road shorter than nothing (`RidesAreReal` leads from the edge to the ride, and a ride's time is a sum of its roads).
* `FilesHoldBases`, `MainFollowsFile`: what a file that has been written to the end holds is the message of what was saved. The lines
  of the catalogue are those of the last request of each name (from PopulateInvariant), and ids lead back to
  stops, although GetStopId counts to the first of a name and the buses hold the last.
* `LoadingFollowsFile`: what Deserialize has added is what it has read. Since the names of a file are different, LoadBus
  never takes a name away.

`SavedSettingsSurvive` needs an invariant of its own, `SettingsInvariant`, which stands beside ProgramInvariant and rests on
it: the settings have all their members (`SettingsTakenAreWhole`), so that none is left out of the file. Numbers come back
field by field (`SettingsComeBack`), negative font sizes through uint32_t (`FontSizeReturns`). A color is followed
character by character, through the stream that prints it and convert_color that takes 5 characters of its name, or 7, and
reads numbers from their pieces (`RgbReturns`, `RgbaReturns`). These have just room for numbers of one digit
(`ShortWords`), so whatever is read has digits below 10, and a color that is not short comes out as another; a short one is
in its place as a whole and read back digit by digit (`WordsOfDigits`). The pieces are those of a recursive function on
the places of the commas; `WordsAre` gives its defining equation, and the lemmas above need it for
four pieces only.

### The map

| Theorem | Statement |
|---|---|
| `MapInvariance` | `Spec => []MapInvariant` |
| `PictureFitsTheMap` | the picture keeps to the padding, and fills the map in one direction unless it is one point |
| `LabelsAreOfTheirLines` | a label at each end of each line, in the color of its polyline, above it |
| `StopsAreDrawnOnLines` | lines lead to circles only, and each circle is a stop of some bus |
| `LabelsLieOnUnderlayers` | each label right above a copy of itself in the colors of the underlayer, above all lines, those of stops above all circles |

All in MapRenderer_proofs, over every catalogue that Populate leaves, all coordinates and settings. MapInvariant
(MapRendererInvariant) says what the four loops have drawn: polylines first, the i-th of the i-th line
(`LinesFollowRoutes`); labels for the lines passed, and none for others (`LabelsFollowRoutes`); circles for the stops passed
(`CirclesFollowStops`); texts at stops, each label behind its underlayer (`TextsAreAtStops`,
`LabelsFollowUnderlayers`). There is one lemma for adding objects to a document (`ObjectsAdded`) and one for what a turn
leaves alone.

* `PictureFitsTheMap` is arithmetic of fractions: points count in parts of the denominator of the zoom, and the smaller of
  two fractions is compared with the other by multiplying across (`SmallerFraction`, `ZoomFits`). That the extent is taken
  of the same points that are drawn is `PointsAreStops`: the projector is given the stops that have a bus, and lines and
  labels are where such stops are (`StopsOfBuses`, from PopulateInvariant).
* `LabelsAreOfTheirLines` needs that no two turns are for one line, that stops and lines do not share names, and that the two
  loops count the same colors.
* `LabelsLieOnUnderlayers` goes down to the attributes that are printed: the setters leave alone what they do not set
  (`FieldLeft`), so that text and underlayer have the same font (`SameText`), and a list of optional attributes has those that are
  set (`OptionalAttr`, `JoinedRange`).

### What is only model-checked

* Liveness, here and everywhere: `RouterEnds`, `RequestsAreAnswered`, `MapIsDrawn`, `ProcessesEnd` and the like, and the fairness half
  of the refinement of RoutePlanner. The prover has no ENABLED.
* What the readers of JSON (Json, JsonString, JsonNumber, JsonDocument), the reference readings of JsonBuilder, and the
  reader of XML in `NamesAreReadable` compute: they recur over texts and trees, and induction over data is out of the
  prover's reach; in modules with RECURSIVE operators the SMT backend is not available either.

## Not modelled

* Doubles: rounding, infinities and NaN of times (a velocity of 0 is the default without routing settings), the
  overflow of `60 * distance`, the formula of the geographic distance, the values of JSON numbers beyond
  hundredths (where six digits of a double tie, only quarters are exact, and the runs have no other tie). `uint16_t` in the items of routes is wide enough for any wait.
* Escapes in the values of SVG attributes (the renderer has none to escape), `Drawable`, and indentation, of
  SVG and of JSON.
* Deserialize behind its crash on the first stop: no state of the program gets there. Where the file has no
  stops it runs to its end and is modelled (`LoadBus`, `LoadSettings`). For the same reason `Respond` in
  Program has a catalogue without stops; Search is the module for others.
* A file that has been written in part: protobuf writes a small message at once, and a kill leaves the file
  empty or whole here.
* The reference `graph_` of a graph::Router whose transport::Router has been moved (`SetRouter`): the table is built
  by then, and the one Router that is moved is over a catalogue without stops.
* `Router(db, graph)` with a catalogue that is not empty, `Catalogue::GetBusId` and `GetBus(id)`: nothing
  calls them.
* `ComputeDistance` (lib/geo), a formula without state; the examples (`run/app-*`), the generator of inputs
  (`run/input_generator.cpp`) and the unit tests (`run/gtest-*`), which are not part of the program.

## Plan

Done: the modules above in the order graph router (with its proofs), catalogue and population, transport
router, search, serialization, JSON, renderer; then settings, SVG, numbers, and the compositions Program and
JsonDocument.

What is left of the model is small: Deserialize as the .proto files intend it, as the abstract specification
of the file, to say exactly which parts of a base would survive.

The proofs planned are done: the graph router with its refinement, population, the transport router and its
answers, search, the program, the map renderer.
