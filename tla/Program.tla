------------------------------ MODULE Program ------------------------------
(***************************************************************************)
(* run/main.cpp: processes that run one after the other, each with a mode  *)
(* and a JSON input, and share nothing but files.                          *)
(*                                                                         *)
(* make_base reads the input (JsonReader), populates a catalogue           *)
(* (Populate), takes the render settings (RenderSettings), builds the      *)
(* router (TransportRouter), and only then opens the file and writes to it *)
(* (Persistence).  process_requests does the same with a catalogue that is *)
(* empty, fills it from the file (Bufferiser::Deserialize) and answers the *)
(* stat requests.  Any process may be killed at any time.                  *)
(***************************************************************************)
EXTENDS Persistence, JsonReader

CONSTANTS
    Sessions,       \* what is started: sequences of [mode, input]
    FileName,       \* the names under which a file can be opened
    Indeterminate   \* some of the numbers in memory that nobody has set

\* JSON arrays are sequences.
ArraysAreSequences(input) ==
    IsDict(input) =>
        \A key \in {"base_requests", "stat_requests"} \cap DOMAIN input.dict :
            LET array == input.dict[key].array
            IN  IsArray(input.dict[key]) => array \in Seq(Range(array))

\* The requests of an input hold what Populate reads of them.
DeclaresBase(input) ==
    IsDict(input) /\ "base_requests" \in DOMAIN input.dict /\ IsArray(input.dict["base_requests"]) =>
        \A request \in Range(input.dict["base_requests"].array) :
            /\ KnownType(request) /\ request.type = "Stop" => IsStopRequest(request)
            /\ KnownType(request) /\ request.type = "Bus" => IsBusRequest(request)

\* The numbers of an int, negative ones among them.
FitsInt(n) == n \in -(IntModulus \div 2) .. IntModulus \div 2 - 1

\* The numbers of a color: three of them whole, an opacity of up to 1.
DeclaresColor(node) ==
    IsArray(node) /\ IsColor(node) =>
        /\ \A i \in 1 .. 3 : node.array[i].int \in Int
        /\ Len(node.array) = 4 => AsDouble(node.array[4]) \in 0 .. 100

\* The render settings of an input hold what GenerateMapSettings reads of them.
DeclaresRender(input) ==
    IsDict(input) /\ "render_settings" \in DOMAIN input.dict /\ IsDict(input.dict["render_settings"]) =>
        LET render == input.dict["render_settings"].dict
        IN  /\ \A key \in {"bus_label_font_size", "stop_label_font_size"} \cap DOMAIN render :
                IsInt(render[key]) => FitsInt(render[key].int)
            /\ "underlayer_color" \in DOMAIN render => DeclaresColor(render["underlayer_color"])
            /\ "color_palette" \in DOMAIN render /\ IsArray(render["color_palette"]) =>
                LET palette == render["color_palette"].array
                IN  palette \in Seq(Range(palette)) /\ \A color \in Range(palette) : DeclaresColor(color)

ASSUME ProgramAssumption ==
    /\ \A n \in Indeterminate : FitsInt(n)
    /\ \A steps \in Sessions :
        /\ steps \in Seq(Range(steps))
        /\ \A i \in DOMAIN steps :
            /\ ArraysAreSequences(steps[i].input) /\ DeclaresRender(steps[i].input)
            /\ steps[i].mode = "make_base" => DeclaresBase(steps[i].input)

VARIABLES
    session,    \* the session
    started,    \* how many of its processes have been started
    at,         \* where main is, or how it ended
    renderer,   \* settings of the RequestHandler
    files,      \* what the files hold that there are
    unread,     \* buses of the file that Deserialize has still to add
    nodes,      \* responses of Search
    saved       \* what the make_base that wrote a file to the end was given, for the properties

memory == <<vars, readerVars, renderer, unread, nodes>>
store  == <<files, saved>>
programVars == <<session, started, at, memory, store>>

EmptyBase == [stops |-> << >>, buses |-> << >>]

\* How a process ends; "undefined" is a crash, or anything else.
Ended == {"returned", "threw", "undefined", "killed"}
Running == at \notin {"idle"} \cup Ended

mode == IF started = 0 THEN "none" ELSE session[started].mode

-----------------------------------------------------------------------------
\* A process starts with nothing in its memory.
ForgetCatalogue ==
    /\ base' = EmptyBase /\ db' = EmptyCatalogue
    /\ stage' = "waiting" /\ index' = 1 /\ undeclared' = {}
    /\ building' = "waiting" /\ pending' = {} /\ stop_to_transfer' = << >>
    /\ graph' = EmptyGraph(0) /\ id_to_edge' = << >> /\ edges' = << >> /\ answer' = Null
    /\ renderer' = Null /\ unread' = {} /\ nodes' = << >>

ProgramInit ==
    /\ session \in Sessions /\ started = 0 /\ at = "idle"
    /\ files = [name \in {} |-> EmptyMessage]
    /\ saved = [name \in {} |-> EmptyBase]
    /\ base = EmptyBase /\ db = EmptyCatalogue
    /\ stage = "waiting" /\ index = 1 /\ undeclared = {}
    /\ building = "waiting" /\ pending = {} /\ stop_to_transfer = << >>
    /\ graph = EmptyGraph(0) /\ id_to_edge = << >> /\ edges = << >> /\ answer = Null
    /\ renderer = Null /\ unread = {} /\ nodes = << >>
    /\ requests = Null /\ buses = << >> /\ stops = << >> /\ stats = << >> /\ settings = << >>
    /\ parsing = "waiting" /\ parsed = 0 /\ raised = "nothing"

\* Without a mode there is nothing to read.
Start ==
    /\ ~Running /\ started < Len(session)
    /\ started' = started + 1
    /\ at' = IF session[started + 1].mode = "none" THEN "returned" ELSE "reading"
    /\ ForgetCatalogue
    /\ StartReader(session[started + 1].input)
    /\ UNCHANGED <<session, store>>

\* The process is gone; what it has written stays.
Kill ==
    /\ Running
    /\ at' = "killed"
    /\ ForgetCatalogue
    /\ requests' = Null /\ buses' = << >> /\ stops' = << >> /\ stats' = << >> /\ settings' = << >>
    /\ parsing' = "waiting" /\ parsed' = 0 /\ raised' = "nothing"
    /\ UNCHANGED <<session, started, store>>
-----------------------------------------------------------------------------
\* The frames of the steps of main.
KeepCatalogue == UNCHANGED populateVars
KeepRouter    == UNCHANGED routerVars
KeepReader    == UNCHANGED readerVars
KeepRest      == UNCHANGED <<session, started>>

\* Main goes on, or an exception leaves it.
GoOn(fails, next) == at' = IF fails THEN "threw" ELSE next

\* ReadInput that does not notice an exception.
ReadInputOnly ==
    /\ at = "reading" /\ ReaderNext
    /\ KeepCatalogue /\ KeepRouter /\ KeepRest
    /\ UNCHANGED <<at, renderer, files, unread, nodes, saved>>

\* The constructor of JsonReader.
ReadInput ==
    /\ at = "reading" /\ parsing # "done"
    /\ IF parsing = "failed" THEN at' = "threw" /\ KeepReader ELSE at' = at /\ ReaderNext
    /\ KeepCatalogue /\ KeepRouter /\ KeepRest
    /\ UNCHANGED <<renderer, files, unread, nodes, saved>>

\* The mode is looked at behind the constructor.
PrintUsage ==
    /\ at = "reading" /\ parsing = "done" /\ mode \notin {"make_base", "process_requests"}
    /\ at' = "returned"
    /\ KeepCatalogue /\ KeepRouter /\ KeepReader /\ KeepRest
    /\ UNCHANGED <<renderer, files, unread, nodes, saved>>

\* The settings Populate begins with.
RoutingFits ==
    "routing_settings" \in DOMAIN settings =>
        \A key \in {"bus_wait_time", "bus_velocity"} :
            key \in DOMAIN settings.routing_settings /\ IsInt(settings.routing_settings[key])

\* BeginPopulate that has no use for routing_settings.
BeginPopulateAnyway ==
    /\ at = "reading" /\ parsing = "done" /\ mode = "make_base"
    /\ at' = "populating"
    /\ base' = [stops |-> stops, buses |-> buses] /\ stage' = "stops"
    /\ KeepRouter /\ KeepReader /\ KeepRest
    /\ UNCHANGED <<db, index, undeclared, renderer, files, unread, nodes, saved>>

BeginPopulate ==
    /\ at = "reading" /\ parsing = "done" /\ mode = "make_base"
    /\ GoOn(~RoutingFits, "populating")
    /\ base' = [stops |-> stops, buses |-> buses] /\ stage' = "stops"
    /\ KeepRouter /\ KeepReader /\ KeepRest
    /\ UNCHANGED <<db, index, undeclared, renderer, files, unread, nodes, saved>>

ContinuePopulate ==
    /\ at = "populating"
    /\ PopulateNext
    /\ at' = CASE stage' = "failed"    -> "threw"
               [] stage' = "populated" -> "settings"
               [] OTHER                -> at
    /\ KeepRouter /\ KeepReader /\ KeepRest
    /\ UNCHANGED <<renderer, files, unread, nodes, saved>>

\* process_requests leaves its catalogue empty for now.
SkipPopulate ==
    /\ at = "reading" /\ parsing = "done" /\ mode = "process_requests"
    /\ at' = "settings"
    /\ stage' = "populated"
    /\ KeepRouter /\ KeepReader /\ KeepRest
    /\ UNCHANGED <<base, db, index, undeclared, renderer, files, unread, nodes, saved>>

\* GetDatabaseFileName: settings_.serialization may be null.
FileEnds ==
    IF ~HasKey("serialization_settings") THEN "undefined"
    ELSE IF /\ "file" \in DOMAIN settings.serialization_settings
            /\ IsString(settings.serialization_settings.file)
    THEN "read"
    ELSE "threw"

DatabaseFile == settings.serialization_settings.file.string

\* The file, which others than the database do not change, is made anew; where it
\* cannot be opened nothing is.
WithFile(contents, content) ==
    IF DatabaseFile \in FileName
    THEN [name \in DOMAIN contents \cup {DatabaseFile} |->
            IF name = DatabaseFile THEN content ELSE contents[name]]
    ELSE contents

\* TakeSettings that opens the file first thing.
TakeSettingsAndOpen ==
    /\ at = "settings" /\ HasKey("render_settings")
    /\ at' = IF GenerateEnds(settings.render_settings) = "read" THEN "handler"
             ELSE GenerateEnds(settings.render_settings)
    /\ renderer' = IF at' = "handler" THEN GenerateMapSettings(settings.render_settings) ELSE renderer
    /\ files' = IF FileEnds = "read" /\ mode = "make_base"
                THEN WithFile(files, EmptyMessage) ELSE files
    /\ KeepCatalogue /\ KeepRouter /\ KeepReader /\ KeepRest
    /\ UNCHANGED <<unread, nodes, saved>>

TakeSettings ==
    /\ at = "settings"
    /\ IF HasKey("render_settings")
       THEN /\ at' = IF GenerateEnds(settings.render_settings) = "read" THEN "handler"
                     ELSE GenerateEnds(settings.render_settings)
            /\ renderer' = IF at' = "handler" THEN GenerateMapSettings(settings.render_settings)
                           ELSE renderer
       ELSE /\ at' = "handler"
            /\ \E n \in Indeterminate : renderer' = UninitializedSettings(n)
    /\ KeepCatalogue /\ KeepRouter /\ KeepReader /\ KeepRest
    /\ UNCHANGED <<files, unread, nodes, saved>>

\* The constructor of RequestHandler, which builds a router over the catalogue.
MakeHandler ==
    /\ at = "handler"
    /\ RouterNext
    /\ at' = CASE building' = "failed" -> "threw"
               [] building' = "ready"  -> "opening"
               [] OTHER                -> at
    /\ KeepReader /\ KeepRest
    /\ UNCHANGED <<renderer, files, unread, nodes, saved>>

NoFile ==
    /\ at = "opening" /\ FileEnds # "read"
    /\ at' = FileEnds
    /\ KeepCatalogue /\ KeepRouter /\ KeepReader /\ KeepRest
    /\ UNCHANGED <<renderer, files, unread, nodes, saved>>

\* An std::ofstream makes the file anew, or fails to open it, which nobody checks.
OpenForWriting ==
    /\ at = "opening" /\ FileEnds = "read" /\ mode = "make_base"
    /\ at' = "writing"
    /\ files' = WithFile(files, EmptyMessage)
    /\ saved' = [name \in DOMAIN saved \ {DatabaseFile} |-> saved[name]]
    /\ KeepCatalogue /\ KeepRouter /\ KeepReader /\ KeepRest
    /\ UNCHANGED <<renderer, unread, nodes>>

\* Bufferiser::Serialize
Serialize ==
    /\ at = "writing"
    /\ at' = "returned"
    /\ files' = WithFile(files, Message(renderer))
    /\ saved' = WithFile(saved, [settings |-> renderer, base |-> base])
    /\ KeepCatalogue /\ KeepRouter /\ KeepReader /\ KeepRest
    /\ UNCHANGED <<renderer, unread, nodes>>
-----------------------------------------------------------------------------
\* Bufferiser::Deserialize, whose ParseFromIstream reports no failure to anyone.

Loaded == IF DatabaseFile \in DOMAIN files THEN files[DatabaseFile] ELSE EmptyMessage

\* The name of a stop is looked up in the catalogue that is to be filled: begin() of
\* an empty map is dereferenced.
OpenForReading ==
    /\ at = "opening" /\ FileEnds = "read" /\ mode = "process_requests"
    /\ at' = IF Loaded.stop = {} THEN "loading" ELSE "undefined"
    /\ unread' = Loaded.bus
    /\ KeepCatalogue /\ KeepRouter /\ KeepReader /\ KeepRest
    /\ UNCHANGED <<renderer, files, nodes, saved>>

\* Convert of a bus; there is a bus to load only where no bus of the file has stops.
LoadBus ==
    /\ at = "loading"
    /\ \E bus \in unread :
        /\ db' = AddBus(db, [name |-> bus.name, stops |-> << >>, is_roundtrip |-> bus.is_roundtrip])
        /\ unread' = unread \ {bus}
    /\ KeepRouter /\ KeepReader /\ KeepRest
    /\ UNCHANGED <<base, stage, index, undeclared, at, renderer, files, nodes, saved>>

\* SetRendererSettings.  The router over a catalogue without stops, which SetRouter
\* puts in the place of the other, is like that one.
LoadSettings ==
    /\ at = "loading" /\ unread = {}
    /\ LET message == Loaded.map_settings
           ends    == ConvertBackEnds(message)
       IN  /\ at' = CASE ends = "read" -> "searching" [] ends = "threw" -> "threw" [] OTHER -> "undefined"
           /\ renderer' = IF ends = "read" THEN ConvertBack(message) ELSE renderer
    /\ KeepCatalogue /\ KeepRouter /\ KeepReader /\ KeepRest
    /\ UNCHANGED <<files, unread, nodes, saved>>
-----------------------------------------------------------------------------
\* Search, over a catalogue without stops: see the module Search for others.

Keys(request) == {"id"} \cup CASE request.type \in {"Bus", "Stop"} -> {"name"}
                               [] request.type = "Route"           -> {"from", "to"}
                               [] OTHER                            -> {}

CrashingNames(request) ==
    CASE request.type = "Bus" -> {request.name}
      [] request.type = "Map" -> GetAllBusLines(db)
      [] OTHER                -> {}

Respond ==
    /\ at = "searching" /\ Len(nodes) < Len(stats)
    /\ LET request == stats[Len(nodes) + 1]
           fits    == Keys(request) \subseteq DOMAIN request /\ IsInt(request.id)
       IN  /\ at' = IF ~fits THEN "threw"
                    ELSE IF \E name \in CrashingNames(request) : GetBusLineCrashes(db, name) THEN "undefined"
                    ELSE at
           /\ nodes' = IF at' # at THEN nodes
                       ELSE Append(nodes, [request_id |-> request.id.int, found |-> request.type = "Map"])
    /\ KeepCatalogue /\ KeepRouter /\ KeepReader /\ KeepRest
    /\ UNCHANGED <<renderer, files, unread, saved>>

PrintResponses ==
    /\ at = "searching" /\ Len(nodes) = Len(stats)
    /\ at' = "returned"
    /\ KeepCatalogue /\ KeepRouter /\ KeepReader /\ KeepRest
    /\ UNCHANGED <<renderer, files, unread, nodes, saved>>

MainNext ==
    \/ ReadInput \/ PrintUsage
    \/ BeginPopulate \/ ContinuePopulate \/ SkipPopulate
    \/ TakeSettings \/ MakeHandler
    \/ NoFile \/ OpenForWriting \/ Serialize
    \/ OpenForReading \/ LoadBus \/ LoadSettings
    \/ Respond \/ PrintResponses

ProgramNext == Start \/ Kill \/ MainNext

\* A process that is not killed runs on.
ProgramSpec == ProgramInit /\ [][ProgramNext]_programVars /\ WF_programVars(MainNext)

-----------------------------------------------------------------------------
\* The input of the process, by what it says.

BaseRequests(type) == {request \in Range(Listed("base_requests")) : request.type = type}

StopsAreDeclared ==
    \A bus \in BaseRequests("Bus") :
        Range(bus.stops) \subseteq {stop.name : stop \in BaseRequests("Stop")}

Road(from, to) ==
    \E stop \in BaseRequests("Stop") : stop.name = from /\ to \in DOMAIN stop.road_distances

\* A leg matters to those who have boarded in front of it, at another stop than the
\* one it leads to.
RoadsAreKnown(line) ==
    \A k \in 2 .. Len(line) :
        \/ \A i \in 1 .. k - 1 : line[i] = line[k]
        \/ Road(line[k - 1], line[k]) \/ Road(line[k], line[k - 1])

\* Of the buses of a name only the last one runs.
LastBuses ==
    LET declared == OfType(Listed("base_requests"), "Bus")
    IN  {declared[i] : i \in {j \in DOMAIN declared :
            \A k \in j + 1 .. Len(declared) : declared[k].name # declared[j].name}}

IsOffset(node) ==
    /\ IsArray(node) /\ node.array # << >>
    /\ IsDouble(Head(node.array)) /\ IsDouble(Last(node.array))

RenderKinds ==
    [width |-> "double", height |-> "double", padding |-> "double", stop_radius |-> "double",
     line_width |-> "double", underlayer_width |-> "double",
     bus_label_font_size |-> "int", stop_label_font_size |-> "int",
     bus_label_offset |-> "offset", stop_label_offset |-> "offset",
     underlayer_color |-> "color", color_palette |-> "palette"]

HasKind(node, kind) ==
    CASE kind = "double"  -> IsDouble(node)
      [] kind = "int"     -> IsInt(node)
      [] kind = "offset"  -> IsOffset(node)
      [] kind = "color"   -> IsColor(node)
      [] kind = "palette" -> IsArray(node) /\ \A color \in Range(node.array) : IsColor(color)

RenderFits ==
    LET render == requests.dict["render_settings"].dict
    IN  \A key \in DOMAIN RenderKinds : key \in DOMAIN render /\ HasKind(render[key], RenderKinds[key])

NamesFile ==
    /\ HasKey("serialization_settings")
    /\ LET serialization == requests.dict["serialization_settings"].dict
       IN  "file" \in DOMAIN serialization /\ IsString(serialization.file)

RoutingIsWhole ==
    LET routing == requests.dict["routing_settings"].dict
    IN  \A key \in {"bus_wait_time", "bus_velocity"} : key \in DOMAIN routing /\ IsInt(routing[key])

\* What make_base can make a base of.
Acceptable ==
    /\ WellFormed(requests)
    /\ HasKey("routing_settings") => RoutingIsWhole
    /\ StopsAreDeclared
    /\ \A bus \in LastBuses :
        RoadsAreKnown(bus.stops) /\ (bus.is_roundtrip \/ RoadsAreKnown(Reverse(bus.stops)))
    /\ HasKey("render_settings") => RenderFits
    /\ NamesFile

\* No request declares a road shorter than nothing.
RoadsAreNatural ==
    \A stop \in BaseRequests("Stop") :
        \A name \in DOMAIN stop.road_distances : stop.road_distances[name] >= 0
-----------------------------------------------------------------------------
\* make_base returns if and only if its input is acceptable: all its settings are
\* there and of their types, every stop of a bus is declared, and every road known
\* that the router asks for, but not one that only a line which has lost its name
\* takes.  Otherwise it throws; it also throws where a ride would take less than
\* nothing.  Undefined behaviour is left to an input without serialization_settings
\* and to an empty label offset (main.cpp:32-37, json_reader.cpp:12-49, 136-175,
\* json_reader.h:71-73, router.cpp:26-72, router.h:52-55).
MakeBaseOutcome ==
    at \in Ended /\ mode = "make_base" =>
        /\ at = "returned" => Acceptable
        /\ at = "threw" => ~(Acceptable /\ RoadsAreNatural)
        /\ at = "undefined" =>
            /\ ~Acceptable
            /\ \/ ~HasKey("serialization_settings")
               \/ \E key \in {"bus_label_offset", "stop_label_offset"} :
                    LET offset == requests.dict["render_settings"].dict[key]
                    IN  IsArray(offset) /\ offset.array = << >>

\* A base is never lost to an input that make_base cannot accept, or to
\* process_requests: the file is opened, and with it emptied, only behind the last
\* thing in the input that can fail (main.cpp:32-37).
FilesAreWhole ==
    [][files' # files => mode = "make_base" /\ Acceptable]_programVars

\* The file process_requests has opened holds what a make_base was given.
IsWhole == DatabaseFile \in DOMAIN saved
Answering == at = "searching" \/ (at = "returned" /\ nodes # << >>)

LastLines(requests_of_base) ==
    {[name |-> bus.name, is_roundtrip |-> bus.is_roundtrip] : bus \in
        {LastNamed(requests_of_base, name) : name \in {bus.name : bus \in Range(requests_of_base)}}}

\* The ids in the file lead back to the stops of every line, and tell the stops of
\* the catalogue apart, although a stop is numbered by the first element of its
\* name and held by the last one; and process_requests has the lines of the make_base
\* that wrote the file last, or none if that was killed (catalogue.h:52-57,
\* serialization.cpp:32-48, 209-265).
LinesSurvive ==
    /\ at = "returned" /\ mode = "make_base" /\ DatabaseFile \in FileName =>
        LET file == files[DatabaseFile]
        IN  /\ Cardinality(file.stop) = Cardinality(GetStopsHolder(db))
            /\ \A ptr \in GetBusesHolder(db) :
                \E bus \in file.bus :
                    /\ bus.name = db.buses[ptr].name
                    /\ DOMAIN bus.stop_id = DOMAIN db.buses[ptr].stops
                    /\ \A i \in DOMAIN bus.stop_id :
                        /\ bus.stop_id[i] \in file.stop
                        /\ db.stops[bus.stop_id[i] + 1] = db.stops[db.buses[ptr].stops[i]]
    /\ Answering =>
        {[name |-> db.buses[ptr].name, is_roundtrip |-> db.buses[ptr].is_roundtrip] : ptr \in GetBusesHolder(db)}
            = IF IsWhole THEN LastLines(saved[DatabaseFile].base.buses) ELSE {}

\* Where the digits of a color fit into the piece that convert_color takes of its
\* name, and a name is not taken for such digits, it comes back as it was; or else, if
\* process_requests lives on, as another.
IsShort(color) ==
    /\ "word" \in DOMAIN color => ~IsRgb(color.word)
    /\ "rgb" \in DOMAIN color =>
        /\ \A i \in 1 .. 3 : color.rgb[i] < 10
        /\ "opacity" \in DOMAIN color => color.opacity \in {0, 100}

\* The picture process_requests draws is that of make_base, whatever render_settings
\* its own input has, if any: every number, negative font sizes too, all colors,
\* and those that are not short are not the same any more.  From a file that was cut
\* off, or is not there, it takes a picture of width 0 and goes on
\* (serialization.cpp:51-76, 78-152).
SettingsSurvive ==
    Answering =>
        IF IsWhole
        THEN LET kept == saved[DatabaseFile].settings
             IN  /\ \A field \in DOMAIN kept \ {"underlayer", "palette"} : renderer[field] = kept[field]
                 /\ renderer.underlayer.width = kept.underlayer.width
                 /\ renderer.underlayer.color = kept.underlayer.color <=> IsShort(kept.underlayer.color)
                 /\ Len(renderer.palette) = Len(kept.palette)
                 /\ \A i \in DOMAIN kept.palette :
                        renderer.palette[i] = kept.palette[i] <=> IsShort(kept.palette[i])
        ELSE renderer.map_sizes = <<0, 0>> /\ renderer.palette = << >>

\* Every process comes to an end, with a result, an exception or a crash
\* (json_reader.cpp:136-175, 256-293, main.cpp:25-50).
ProcessesEnd == at = "reading" ~> at \in Ended
-----------------------------------------------------------------------------
\* AdjacentStops.adjacent_id (domain.proto:15), which Deserialize takes for the second
\* stop (serialization.cpp:67), is the id of the second stop of the distance.
AdjacentIdsAreSaved ==
    at = "returned" /\ mode = "make_base" =>
        \A pair \in DOMAIN db.stops_to_distance : pair[2] # Null =>
            db.stops[files[DatabaseFile].adjacent_stops[pair].adjacent_id + 1] = db.stops[pair[2]]

\* "Usage: transport_catalogue [make_base|process_requests]" (main.cpp:12): the file
\* of the one mode can be read by the other.
BaseIsReadable == mode = "process_requests" => at # "undefined"

\* "repeated svg.pb.Color color_palette = 12;" (map_renderer.proto:19): the file keeps
\* the palette, that of resources/(Stop|Bus|Map).base.json for one.
PaletteSurvives ==
    mode = "process_requests" =>
        /\ at \notin {"threw", "undefined"}
        /\ at = "searching" /\ IsWhole => renderer.palette = saved[DatabaseFile].settings.palette
=============================================================================
