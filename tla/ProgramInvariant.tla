-------------------------- MODULE ProgramInvariant --------------------------
(***************************************************************************)
(* The inductive invariant behind the safety properties of Program: what   *)
(* main has made of the input by each of its steps, and what the files     *)
(* hold of the processes that have ended.                                  *)
(***************************************************************************)
EXTENDS Program, TransportRouterInvariant

AllKnown(list, n) == \A i \in 1 .. n : KnownType(list[i])

KeyIsArray(key) == HasKey(key) => IsArray(requests.dict[key])

\* The lists of the reader hold what its passes have taken so far.
ReaderFollowsInput ==
    LET declared == Listed("base_requests")
        asked    == Listed("stat_requests")
    IN  /\ parsing \in {"waiting", "Bus", "Stop", "stats", "settings", "done", "failed"}
        /\ parsing # "waiting" => ArraysAreSequences(requests)
        /\ parsing \notin {"waiting", "failed"} => IsDict(requests) /\ raised = "nothing"
        /\ InPass => parsed \in 0 .. Len(Listed(PassKey))
        /\ parsing \in {"Bus", "Stop"} => stats = << >>
        /\ parsing = "Bus" =>
            AllKnown(declared, parsed) /\ buses = Taken(declared, "Bus", parsed) /\ stops = << >>
        /\ parsing \in {"Stop", "stats", "settings", "done"} =>
            /\ KeyIsArray("base_requests") /\ AllKnown(declared, Len(declared))
            /\ buses = OfType(declared, "Bus")
            /\ stops = Taken(declared, "Stop", IF parsing = "Stop" THEN parsed ELSE Len(declared))
        /\ parsing = "stats" =>
            /\ AllKnown(asked, parsed)
            /\ stats \in Seq(Range(asked)) /\ Len(stats) = parsed
            /\ \A i \in 1 .. parsed : stats[i] = asked[i]
        /\ parsing \in {"settings", "done"} =>
            /\ KeyIsArray("stat_requests") /\ AllKnown(asked, Len(asked))
            /\ stats = asked
        /\ parsing = "done" =>
            LET present == {key \in SettingKeys : HasKey(key)}
            IN  /\ \A key \in present : IsDict(requests.dict[key])
                /\ settings = [key \in present |-> requests.dict[key].dict]
        /\ parsing = "failed" => RequestsAreSorted

\* The memory of a process that has only read its input.
Forgotten ==
    /\ base = EmptyBase /\ db = EmptyCatalogue
    /\ stage = "waiting" /\ index = 1 /\ undeclared = {}
    /\ building = "waiting" /\ pending = {} /\ stop_to_transfer = << >>
    /\ graph = EmptyGraph(0) /\ id_to_edge = << >> /\ edges = << >> /\ answer = Null

\* Main reads the input of its process, and goes on when it is read.
MainFollowsSession ==
    /\ session \in Sessions
    /\ started \in 0 .. Len(session)
    /\ at \in {"idle", "reading", "populating", "settings", "handler", "opening", "writing",
               "loading", "searching"} \cup Ended
    /\ at # "idle" => started > 0
    /\ at \notin {"idle", "killed"} => requests = session[started].input /\ parsing # "waiting"
    /\ at \notin {"idle", "reading"} \cup Ended =>
        parsing = "done" /\ mode \in {"make_base", "process_requests"}
    /\ at \notin {"searching"} \cup Ended => nodes = << >>

\* The parts of make_base that come before the file, and what each has found to be
\* there.  The catalogue of process_requests is empty all that time.
MainFollowsCatalogue ==
    /\ at = "reading" => Forgotten
    /\ at \in {"populating", "settings", "handler", "opening", "writing"} =>
        /\ RouterInvariant
        /\ IF mode = "make_base"
           THEN /\ base = [stops |-> stops, buses |-> buses]
                /\ HasKey("routing_settings") => RoutingIsWhole
           ELSE base = EmptyBase
    /\ at = "populating" =>
        mode = "make_base" /\ building = "waiting" /\ stage \in {"stops", "distances", "buses"}
    /\ at \in {"settings", "handler", "opening", "writing"} => stage = "populated"
    /\ at = "settings" => building = "waiting"
    /\ at = "handler" => building \notin {"ready", "failed"}
    /\ at \in {"opening", "writing"} => building = "ready"
    /\ at \in {"handler", "opening", "writing"} /\ mode = "make_base" /\ HasKey("render_settings") =>
        RenderFits
    /\ at = "writing" => mode = "make_base" /\ FileEnds = "read"

LineOf(bus) == [name |-> bus.name, is_roundtrip |-> bus.is_roundtrip]

\* A file without a base that was written to the end has nothing in it, others have
\* the lines and the settings of theirs.
FilesHoldBases ==
    /\ DOMAIN saved \subseteq DOMAIN files /\ DOMAIN files \subseteq FileName
    /\ \A name \in DOMAIN files \ DOMAIN saved : files[name] = EmptyMessage
    /\ \A name \in DOMAIN saved :
        /\ {LineOf(bus) : bus \in files[name].bus} = LastLines(saved[name].base.buses)
        /\ \A bus \in files[name].bus : bus.name \in BusName
        /\ \A bus, other \in files[name].bus : bus.name = other.name => bus = other
        /\ files[name].map_settings = ConvertSettings(saved[name].settings)

\* The base that make_base has written is still in its memory.
MainFollowsFile ==
    at = "returned" /\ mode = "make_base" =>
        /\ parsing = "done" /\ FileEnds = "read"
        /\ PopulateInvariant /\ stage = "populated"
        /\ DatabaseFile \in FileName =>
            DatabaseFile \in DOMAIN files /\ files[DatabaseFile] = Message(renderer)

\* A bus of a file as LoadBus adds it.
Added(bus) == [name |-> bus.name, stops |-> << >>, is_roundtrip |-> bus.is_roundtrip]

\* The names of the buses that have been added lead to them.
LoadingFollowsFile ==
    /\ at \in {"loading", "searching"} => mode = "process_requests" /\ FileEnds = "read"
    /\ at = "loading" =>
        LET read == Loaded.bus \ unread
        IN  /\ unread \subseteq Loaded.bus
            /\ DOMAIN db = DOMAIN EmptyCatalogue /\ DOMAIN db.bus_names = BusName
            /\ db.buses \in Seq({Added(bus) : bus \in read})
            /\ \A bus \in read : db.bus_names[bus.name] # Null
            /\ \A name \in BusName :
                LET ptr == db.bus_names[name]
                IN  ptr # Null => ptr \in BusPtrs(db) /\ db.buses[ptr].name = name
    /\ Answering =>
        /\ {LineOf(db.buses[ptr]) : ptr \in GetBusesHolder(db)} = {LineOf(bus) : bus \in Loaded.bus}
        /\ renderer = ConvertBack(Loaded.map_settings)
        /\ ConvertBackEnds(Loaded.map_settings) = "read"

\* A color of any of the three kinds.
ColorIsWhole(color) ==
    \/ "word" \in DOMAIN color /\ color = [word |-> color.word]
    \/ /\ "rgb" \in DOMAIN color /\ color.rgb \in [1 .. 3 -> 0 .. 255]
       /\ \/ color = [rgb |-> color.rgb]
          \/ /\ "opacity" \in DOMAIN color /\ color.opacity \in 0 .. 100
             /\ color = [rgb |-> color.rgb, opacity |-> color.opacity]

LabelIsWhole(label) ==
    label = [font_size |-> label.font_size, offset |-> label.offset] /\ FitsInt(label.font_size)

\* Settings with all their members, of the numbers and the colors there are.
SettingsAreWhole(kept) ==
    /\ kept = [map_sizes |-> <<kept.map_sizes[1], kept.map_sizes[2]>>, padding |-> kept.padding,
                stop_radius |-> kept.stop_radius, line_width |-> kept.line_width,
                bus_label |-> kept.bus_label, stop_label |-> kept.stop_label,
                underlayer |-> kept.underlayer, palette |-> kept.palette]
    /\ LabelIsWhole(kept.bus_label) /\ LabelIsWhole(kept.stop_label)
    /\ kept.underlayer = [width |-> kept.underlayer.width, color |-> kept.underlayer.color]
    /\ ColorIsWhole(kept.underlayer.color)
    /\ kept.palette \in Seq(Range(kept.palette))
    /\ \A i \in DOMAIN kept.palette : ColorIsWhole(kept.palette[i])

\* What make_base has taken from its input, and what a file was written from.
SettingsInvariant ==
    /\ at \in {"handler", "opening", "writing"} => SettingsAreWhole(renderer)
    /\ \A name \in DOMAIN saved : SettingsAreWhole(saved[name].settings)

ProgramInvariant ==
    /\ ReaderFollowsInput
    /\ MainFollowsSession
    /\ MainFollowsCatalogue
    /\ FilesHoldBases
    /\ MainFollowsFile
    /\ LoadingFollowsFile
    /\ MakeBaseOutcome
=============================================================================
