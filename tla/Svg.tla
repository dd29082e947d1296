-------------------------------- MODULE Svg --------------------------------
(***************************************************************************)
(* lib/svg/svg.h and svg.cpp: the objects of a document, and what Render   *)
(* prints of them.                                                         *)
(*                                                                         *)
(* An object is a record of its tag and its properties; an optional one is *)
(* there if it has been set.  What is printed of it is a record of the tag,*)
(* its attributes in their order, as pairs of a name and a value, and the  *)
(* content.  A color is one of                                             *)
(*   [word |-> name], "none" being the color without a value               *)
(*   [rgb |-> <<red, green, blue>>]                                        *)
(*   [rgb |-> <<red, green, blue>>, opacity |-> hundredths]                *)
(* Names and contents are sequences of characters; numbers are values of   *)
(* their own, but for those in the name of a color.                        *)
(***************************************************************************)
EXTENDS Integers, SequencesExt

CONSTANT IntModulus     \* 2^32, the range of int and of uint32_t

ASSUME SvgAssumption == IntModulus \in Nat \ {0} /\ IntModulus % 2 = 0

AsUint32(n) == n % IntModulus

-----------------------------------------------------------------------------
\* ColorPrinter

Digit == <<"0", "1", "2", "3", "4", "5", "6", "7", "8", "9">>

\* A number up to 255.
Decimal(n) ==
    (IF n >= 100 THEN <<Digit[(n \div 100) + 1]>> ELSE << >>)
    \o (IF n >= 10 THEN <<Digit[((n \div 10) % 10) + 1]>> ELSE << >>)
    \o <<Digit[(n % 10) + 1]>>

\* An opacity up to 1, as std::ostream writes it: without zeros at its end.
Opacity(hundredths) ==
    CASE hundredths \in {0, 100} -> Decimal(hundredths \div 100)
      [] hundredths % 100 # 0    ->
            <<"0", ".", Digit[(hundredths \div 10) + 1]>>
            \o (IF hundredths % 10 = 0 THEN << >> ELSE <<Digit[(hundredths % 10) + 1]>>)

Rgb(rgb) == Decimal(rgb[1]) \o <<",">> \o Decimal(rgb[2]) \o <<",">> \o Decimal(rgb[3])

PrintColor(color) ==
    CASE "word" \in DOMAIN color    -> color.word
      [] "opacity" \in DOMAIN color ->
            <<"r", "g", "b", "a", "(">> \o Rgb(color.rgb) \o <<",">> \o Opacity(color.opacity) \o <<")">>
      [] OTHER                      -> <<"r", "g", "b", "(">> \o Rgb(color.rgb) \o <<")">>

NoneColor == [word |-> <<"n", "o", "n", "e">>]

-----------------------------------------------------------------------------
\* Objects.

Point(x, y) == [x |-> x, y |-> y]

Circle   == [tag |-> "circle", center |-> Point(0, 0), radius |-> 1]
Polyline == [tag |-> "polyline", points |-> << >>]
Text     == [tag |-> "text", position |-> Point(0, 0), offset |-> Point(0, 0),
             font_size |-> 1, content |-> << >>]

\* The setters.
Set(object, properties) ==
    [name \in DOMAIN properties \cup DOMAIN object |->
        IF name \in DOMAIN properties THEN properties[name] ELSE object[name]]

-----------------------------------------------------------------------------
\* Render

\* An attribute, if its property has been set.
IfSet(object, name, attr) ==
    IF name \notin DOMAIN object THEN << >>
    ELSE <<<<attr, IF name \in {"fill", "stroke"} THEN PrintColor(object[name]) ELSE object[name]>>>>

RenderAttrs(object) ==
    IfSet(object, "fill", "fill") \o IfSet(object, "stroke", "stroke")
    \o IfSet(object, "width", "stroke-width")
    \o IfSet(object, "line_cap", "stroke-linecap") \o IfSet(object, "line_join", "stroke-linejoin")

\* EscapeChar without the case of "<".
EscapeCharButLess(letter) ==
    CASE letter = "\"" -> <<"&", "q", "u", "o", "t", ";">>
      [] letter = "'"  -> <<"&", "a", "p", "o", "s", ";">>
      [] letter = ">"  -> <<"&", "g", "t", ";">>
      [] letter = "&"  -> <<"&", "a", "m", "p">>
      [] OTHER         -> <<letter>>

EscapeChar(letter) ==
    CASE letter = "\"" -> <<"&", "q", "u", "o", "t", ";">>
      [] letter = "'"  -> <<"&", "a", "p", "o", "s", ";">>
      [] letter = "<"  -> <<"&", "l", "t", ";">>
      [] letter = ">"  -> <<"&", "g", "t", ";">>
      [] letter = "&"  -> <<"&", "a", "m", "p">>
      [] OTHER         -> <<letter>>

Escape(content) == FlattenSeq([i \in DOMAIN content |-> EscapeChar(content[i])])

OwnAttrs(object) ==
    CASE object.tag = "circle"   ->
            <<<<"cx", object.center.x>>, <<"cy", object.center.y>>, <<"r", object.radius>>>>
      [] object.tag = "polyline" -> <<<<"points", object.points>>>>
      [] object.tag = "text"     ->
            <<<<"x", object.position.x>>, <<"y", object.position.y>>,
              <<"dx", object.offset.x>>, <<"dy", object.offset.y>>, <<"font-size", object.font_size>>>>
            \o IfSet(object, "font_family", "font-family")
            \o IfSet(object, "font_weight", "font-weight")

RenderObject(object) ==
    [tag     |-> object.tag,
     attrs   |-> OwnAttrs(object) \o RenderAttrs(object),
     content |-> IF object.tag = "text" THEN Escape(object.content) ELSE << >>]

Render(objects) == [i \in DOMAIN objects |-> RenderObject(objects[i])]

-----------------------------------------------------------------------------
\* Reference definition: what a reader of XML takes a content for.

Entities ==
    {[name |-> <<"&", "q", "u", "o", "t", ";">>, letter |-> "\""],
     [name |-> <<"&", "a", "p", "o", "s", ";">>, letter |-> "'"],
     [name |-> <<"&", "l", "t", ";">>, letter |-> "<"],
     [name |-> <<"&", "g", "t", ";">>, letter |-> ">"],
     [name |-> <<"&", "a", "m", "p", ";">>, letter |-> "&"]}

Malformed == <<"malformed">>

Displayed[content \in Seq(STRING)] ==
    LET entities == {entity \in Entities : IsPrefix(entity.name, content)}
        first    == IF entities = {} THEN [name |-> <<content[1]>>, letter |-> content[1]]
                    ELSE CHOOSE entity \in entities : TRUE
        rest     == Displayed[SubSeq(content, Len(first.name) + 1, Len(content))]
    IN  IF content = << >> THEN << >>
        ELSE IF rest = Malformed \/ first.name \in {<<"&">>, <<"<">>} THEN Malformed
        ELSE <<first.letter>> \o rest
=============================================================================
