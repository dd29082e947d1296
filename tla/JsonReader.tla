----------------------------- MODULE JsonReader -----------------------------
(***************************************************************************)
(* The constructor of io::JsonReader (src/json_reader.h, json_reader.cpp): *)
(* the requests of an input are copied into three lists, in two passes     *)
(* over base_requests and one over stat_requests, one request a step, and  *)
(* then the settings.                                                      *)
(*                                                                         *)
(* The input is a node as in JsonNode, but for a request, which is a       *)
(* record: its type is a string, its id a node, and either may be missing. *)
(* What else it holds is read later, by Populate and Search.               *)
(***************************************************************************)
EXTENDS JsonNode, SequencesExt

TypeNames   == {"Bus", "Map", "Route", "Stop"}
SettingKeys == {"render_settings", "routing_settings", "serialization_settings"}

VARIABLES
    requests,       \* requests_, or whatever Load gave in its place
    buses, stops, stats,
    settings,       \* settings_: the dictionaries of the keys that are there
    parsing,        \* "Bus" and "Stop" as ParseBases runs, "stats", "settings",
                    \* "done" or "failed"
    parsed,         \* the requests the pass is through with
    raised          \* what has been thrown

readerVars == <<requests, buses, stops, stats, settings, parsing, parsed, raised>>

\* The root of the input must be a dictionary.
StartReader(input) ==
    /\ requests' = input
    /\ buses' = << >> /\ stops' = << >> /\ stats' = << >> /\ settings' = << >>
    /\ parsing' = IF IsDict(input) THEN "Bus" ELSE "failed"
    /\ raised' = IF IsDict(input) THEN "nothing" ELSE "logic_error"
    /\ parsed' = 0

HasKey(key) == key \in DOMAIN requests.dict

\* The requests of a key.  Without the key its passes are left out.
Listed(key) ==
    IF HasKey(key) /\ IsArray(requests.dict[key]) THEN requests.dict[key].array ELSE << >>

PassKey == IF parsing = "stats" THEN "stat_requests" ELSE "base_requests"
InPass  == parsing \in {"Bus", "Stop", "stats"}
Request == Listed(PassKey)[parsed + 1]

Throw(exception) ==
    /\ parsing' = "failed" /\ raised' = exception
    /\ UNCHANGED <<requests, buses, stops, stats, settings, parsed>>

NotAnArray ==
    /\ InPass /\ HasKey(PassKey) /\ ~IsArray(requests.dict[PassKey])
    /\ Throw("logic_error")

Taking == InPass /\ parsed < Len(Listed(PassKey))

HasType(request)   == "type" \in DOMAIN request
KnownType(request) == HasType(request) /\ request.type \in TypeNames

\* request.at("type") throws; ThrowInvalidRequest does so when its argument, the
\* request.at("id").AsString(), has not thrown before it.
UnknownRequest ==
    /\ Taking /\ ~KnownType(Request)
    /\ Throw(IF ~HasType(Request) \/ "id" \notin DOMAIN Request THEN "out_of_range"
             ELSE IF IsString(Request.id) THEN "unable to load request"
             ELSE "logic_error")

\* ParseBase that lets the first pass take the requests of both.
ParseBaseOfAnyType ==
    /\ Taking /\ parsing # "stats" /\ KnownType(Request)
    /\ buses' = IF parsing = "Bus" /\ Request.type \in {"Bus", "Stop"}
                THEN Append(buses, Request) ELSE buses
    /\ stops' = IF parsing = "Stop" /\ Request.type = "Stop" THEN Append(stops, Request) ELSE stops
    /\ parsed' = parsed + 1
    /\ UNCHANGED <<requests, stats, settings, parsing, raised>>

\* One turn of the loop of ParseBases: a request of another type is left alone.
ParseBase ==
    /\ Taking /\ parsing # "stats" /\ KnownType(Request)
    /\ buses' = IF parsing = "Bus" /\ Request.type = "Bus" THEN Append(buses, Request) ELSE buses
    /\ stops' = IF parsing = "Stop" /\ Request.type = "Stop" THEN Append(stops, Request) ELSE stops
    /\ parsed' = parsed + 1
    /\ UNCHANGED <<requests, stats, settings, parsing, raised>>

ParseStat ==
    /\ Taking /\ parsing = "stats" /\ KnownType(Request)
    /\ stats' = Append(stats, Request)
    /\ parsed' = parsed + 1
    /\ UNCHANGED <<requests, buses, stops, settings, parsing, raised>>

NextPass ==
    /\ InPass /\ ~Taking
    /\ HasKey(PassKey) => IsArray(requests.dict[PassKey])
    /\ parsing' = CASE parsing = "Bus"   -> "Stop"
                    [] parsing = "Stop"  -> "stats"
                    [] parsing = "stats" -> "settings"
    /\ parsed' = 0
    /\ UNCHANGED <<requests, buses, stops, stats, settings, raised>>

ParseSettings ==
    /\ parsing = "settings"
    /\ LET present == {key \in SettingKeys : HasKey(key)}
       IN  IF \E key \in present : ~IsDict(requests.dict[key])
           THEN Throw("logic_error")
           ELSE /\ settings' = [key \in present |-> requests.dict[key].dict]
                /\ parsing' = "done"
                /\ UNCHANGED <<requests, buses, stops, stats, parsed, raised>>

ReaderNext ==
    NotAnArray \/ UnknownRequest \/ ParseBase \/ ParseStat \/ NextPass \/ ParseSettings
-----------------------------------------------------------------------------
\* What an input must be for the constructor to return.
WellFormed(input) ==
    /\ IsDict(input)
    /\ \A key \in {"base_requests", "stat_requests"} \cap DOMAIN input.dict :
        IsArray(input.dict[key]) /\ \A request \in Range(input.dict[key].array) : KnownType(request)
    /\ \A key \in SettingKeys \cap DOMAIN input.dict : IsDict(input.dict[key])

\* The requests of a type, of the first n of a list.
Taken(list, type, n) ==
    LET taken[k \in Nat] ==
          IF k = 0 THEN << >>
          ELSE IF list[k].type = type THEN Append(taken[k - 1], list[k]) ELSE taken[k - 1]
    IN  taken[n]

OfType(list, type) == Taken(list, type, Len(list))

\* Where the requests of unknown type are, in the order of the passes.
AllRequests == Listed("base_requests") \o Listed("stat_requests")
Unknown     == {i \in DOMAIN AllRequests : ~KnownType(AllRequests[i])}

HasStringId(request) == "id" \in DOMAIN request /\ IsString(request.id)

\* Base requests may come in any order and mixed with requests of other types: the
\* lists hold those of their type, all and in their order, as Populate expects; and
\* they do so if and only if every request, of either array, has a known type, and
\* all else is what it should be.  The exception names a request of unknown type only
\* if its id is a string: for a number, as Search reads ids, the wording of the
\* message throws first (json_reader.cpp:86-134, 261).
RequestsAreSorted ==
    /\ parsing = "done" =>
        /\ WellFormed(requests)
        /\ buses = OfType(Listed("base_requests"), "Bus")
        /\ stops = OfType(Listed("base_requests"), "Stop")
        /\ stats = Listed("stat_requests")
        /\ \A key \in SettingKeys : key \in DOMAIN settings <=> HasKey(key)
    /\ parsing = "failed" =>
        /\ ~WellFormed(requests)
        /\ IsDict(requests) /\ (\A key \in {"base_requests", "stat_requests"} :
                                    HasKey(key) => IsArray(requests.dict[key])) =>
            (raised = "unable to load request" <=>
                /\ Unknown # {}
                /\ HasType(AllRequests[Min(Unknown)]) /\ HasStringId(AllRequests[Min(Unknown)]))
=============================================================================
