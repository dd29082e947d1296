--------------------------- MODULE RenderSettings ---------------------------
(***************************************************************************)
(* renderer::Settings on their way through the program: GenerateMapSettings*)
(* takes them from the dictionary of the input (src/json_reader.cpp), and  *)
(* Bufferiser::Convert puts them into the file and gets them back          *)
(* (src/serialization.cpp, .h; colors are printed by lib/svg/svg.h).       *)
(***************************************************************************)
EXTENDS JsonNode, Svg

-----------------------------------------------------------------------------
\* JsonReader::ConvertToColor

IsColor(node) ==
    \/ IsString(node)
    \/ /\ IsArray(node) /\ Len(node.array) \in {3, 4}
       /\ \A i \in 1 .. 3 : IsInt(node.array[i])
       /\ Len(node.array) = 4 => IsDouble(node.array[4])

\* The numbers become uint8_t.
ConvertToColor(node) ==
    IF IsString(node) THEN [word |-> node.string]
    ELSE LET rgb == [i \in 1 .. 3 |-> node.array[i].int % 256]
         IN  IF Len(node.array) = 3 THEN [rgb |-> rgb]
             ELSE [rgb |-> rgb, opacity |-> AsDouble(node.array[4])]

-----------------------------------------------------------------------------
\* GenerateMapSettings

Read(fits) == IF fits THEN "read" ELSE "threw"

ReadDouble(render, key) == Read(key \in DOMAIN render /\ IsDouble(render[key]))

\* fill: front() and back() of an array that may be empty.
ReadLabel(render, offset, font_size) ==
    IF ~(offset \in DOMAIN render /\ IsArray(render[offset])) THEN "threw"
    ELSE IF ~(font_size \in DOMAIN render /\ IsInt(render[font_size])) THEN "threw"
    ELSE IF render[offset].array = << >> THEN "undefined"
    ELSE Read(IsDouble(Head(render[offset].array)) /\ IsDouble(Last(render[offset].array)))

\* Its reads, in their order.
Reads(render) ==
    [i \in 1 .. 5 |-> ReadDouble(render, <<"width", "height", "padding", "stop_radius", "line_width">>[i])]
    \o <<ReadLabel(render, "bus_label_offset", "bus_label_font_size"),
         ReadLabel(render, "stop_label_offset", "stop_label_font_size"),
         ReadDouble(render, "underlayer_width"),
         Read("underlayer_color" \in DOMAIN render /\ IsColor(render["underlayer_color"])),
         Read(/\ "color_palette" \in DOMAIN render /\ IsArray(render["color_palette"])
              /\ \A color \in Range(render["color_palette"].array) : IsColor(color))>>

\* The first of a sequence of reads that does not end well ends them all: "read",
\* "threw", or "undefined".
ReadsEnd(reads) ==
    LET stops == {i \in DOMAIN reads : reads[i] # "read"}
    IN  IF stops = {} THEN "read" ELSE reads[Min(stops)]

\* How GenerateMapSettings ends.
GenerateEnds(render) == ReadsEnd(Reads(render))

LabelOf(offset, font_size) ==
    [font_size |-> font_size.int,
     offset    |-> <<AsDouble(Head(offset.array)), AsDouble(Last(offset.array))>>]

GenerateMapSettings(render) ==
    [map_sizes   |-> <<AsDouble(render.width), AsDouble(render.height)>>,
     padding     |-> AsDouble(render.padding),
     stop_radius |-> AsDouble(render.stop_radius),
     line_width  |-> AsDouble(render.line_width),
     bus_label   |-> LabelOf(render.bus_label_offset, render.bus_label_font_size),
     stop_label  |-> LabelOf(render.stop_label_offset, render.stop_label_font_size),
     underlayer  |-> [width |-> AsDouble(render.underlayer_width),
                      color |-> ConvertToColor(render.underlayer_color)],
     palette     |-> [i \in DOMAIN render.color_palette.array |->
                        ConvertToColor(render.color_palette.array[i])]]

\* Without render_settings: the members that have no initializer hold any number.
UninitializedSettings(n) ==
    [map_sizes   |-> <<0, 0>>,
     padding     |-> n, stop_radius |-> n, line_width  |-> n,
     bus_label   |-> [font_size |-> n, offset |-> <<0, 0>>],
     stop_label  |-> [font_size |-> n, offset |-> <<0, 0>>],
     underlayer  |-> [width |-> n, color |-> NoneColor],
     palette     |-> << >>]

-----------------------------------------------------------------------------
\* convert_color

\* The characters that PrintColor makes colors of.
ColorChars == {"r", "g", "b", "a", "(", ")", ",", "."} \cup {Digit[i] : i \in 1 .. 10}

\* Any character; those of colors are named because the provers do not know them for
\* strings.
Character == ColorChars \cup STRING

IsDigit(c) == Contains(Digit, c)

\* std::stoi: the digits a word begins with.
Stoi[word \in Seq(Character)] ==
    LET digits == SubSeq(word, 1, SelectInSeq(Append(word, ")"), LAMBDA c : ~IsDigit(c)) - 1)
    IN  FoldLeft(LAMBDA n, c : 10 * n + SelectInSeq(Digit, LAMBDA d : d = c) - 1, 0, digits)

\* ParseIntegerContainer: each word ends at the next comma, the last one with the text.
Words[text \in Seq(Character)] ==
    LET sep[n \in Nat] ==
            IF n = 0 THEN 0
            ELSE Min({i \in sep[n - 1] + 1 .. Len(text) : text[i] = ","} \cup {Len(text) + 1})
    IN  [n \in 1 .. Cardinality({i \in DOMAIN text : text[i] = ","}) + 1 |->
            SubSeq(text, sep[n - 1] + 1, sep[n] - 1)]

\* name.substr(begin, end), whose second argument is a length, with end counted from
\* the opening parenthesis.
Inside(name) ==
    LET begin  == SelectInSeq(name, LAMBDA c : c = "(")
        length == begin + (begin - 1) - 2
    IN  SubSeq(name, begin + 1, IF begin + length < Len(name) THEN begin + length ELSE Len(name))

IsRgb(name) == IsPrefix(<<"r", "g", "b">>, name)

\* How ParseIntegerContainer ends: std::stoi throws for a word that begins with no
\* digit.  Fewer than three numbers are read past the end of the vector.
WordsEnd(words) ==
    IF \E word \in Range(words) : word = << >> \/ ~IsDigit(word[1]) THEN "threw"
    ELSE IF Len(words) < 3 THEN "undefined"
    ELSE "read"

ReadColor(name) == IF IsRgb(name) THEN WordsEnd(Words[Inside(name)]) ELSE "read"

\* Three numbers become uint8_t.  Where there are not three there are four, and the
\* opacity is a whole number by now.
ColorOf(words) ==
    LET rgb == [i \in 1 .. 3 |-> Stoi[words[i]] % 256]
    IN  IF Len(words) = 3 THEN [rgb |-> rgb] ELSE [rgb |-> rgb, opacity |-> 100 * Stoi[words[4]]]

LoadColor(name) == IF IsRgb(name) THEN ColorOf(Words[Inside(name)]) ELSE [word |-> name]

-----------------------------------------------------------------------------
\* Bufferiser::Convert of the settings to the message pb::renderer::Settings and back.

\* AsInt32 that leaves a number as it comes.
AsUnsigned(n) == n

AsInt32(n) == IF n < IntModulus \div 2 THEN n ELSE n - IntModulus

ConvertSettings(settings) ==
    [width                |-> settings.map_sizes[1],
     height               |-> settings.map_sizes[2],
     padding              |-> settings.padding,
     line_width           |-> settings.line_width,
     stop_radius          |-> settings.stop_radius,
     bus_label_font_size  |-> AsUint32(settings.bus_label.font_size),
     bus_label_offset     |-> settings.bus_label.offset,
     stop_label_font_size |-> AsUint32(settings.stop_label.font_size),
     stop_label_offset    |-> settings.stop_label.offset,
     underlayer_width     |-> settings.underlayer.width,
     underlayer_color     |-> PrintColor(settings.underlayer.color),
     color_palette        |-> [i \in DOMAIN settings.palette |-> PrintColor(settings.palette[i])]]

\* How the conversion back ends; the underlayer comes first.
ConvertBackEnds(message) ==
    LET colors == <<message.underlayer_color>> \o message.color_palette
    IN  ReadsEnd([i \in DOMAIN colors |-> ReadColor(colors[i])])

ConvertBack(message) ==
    [map_sizes   |-> <<message.width, message.height>>,
     padding     |-> message.padding,
     stop_radius |-> message.stop_radius,
     line_width  |-> message.line_width,
     bus_label   |-> [font_size |-> AsInt32(message.bus_label_font_size),
                      offset    |-> message.bus_label_offset],
     stop_label  |-> [font_size |-> AsInt32(message.stop_label_font_size),
                      offset    |-> message.stop_label_offset],
     underlayer  |-> [width |-> message.underlayer_width, color |-> LoadColor(message.underlayer_color)],
     palette     |-> [i \in DOMAIN message.color_palette |-> LoadColor(message.color_palette[i])]]

\* The settings of a message without any field: what a file that is empty or not
\* there gives.
DefaultMessage ==
    [width                |-> 0,
     height               |-> 0,
     padding              |-> 0,
     line_width           |-> 0,
     stop_radius          |-> 0,
     bus_label_font_size  |-> 0,
     bus_label_offset     |-> <<0, 0>>,
     stop_label_font_size |-> 0,
     stop_label_offset    |-> <<0, 0>>,
     underlayer_width     |-> 0,
     underlayer_color     |-> << >>,
     color_palette        |-> << >>]
=============================================================================
