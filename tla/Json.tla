-------------------------------- MODULE Json --------------------------------
(***************************************************************************)
(* json::Load and json::Print of lib/json/json.cpp, on the level of        *)
(* tokens: what operator>> separates by white space, a string, a number,   *)
(* or a word.  The text arrives token by token, or as the characters of    *)
(* one string, as long as Load asks for more.                              *)
(*                                                                         *)
(* Numbers come with their value, which JsonNumber reads from the          *)
(* characters.                                                             *)
(***************************************************************************)
EXTENDS JsonNode, JsonString, JsonNumber, FiniteSetsExt

CONSTANTS
    Strings,    \* the strings among the tokens
    Numbers,    \* the numbers: [hundredths, point], point if it is written with one, or with
                \* an exponent
    Words,      \* the words, true, false and null or not
    MaxTokens,  \* the length of a text of tokens
    MaxLength   \* the length of a text of characters, its opening quote included

VARIABLES
    chars,      \* the characters of one string or one number, or empty
    tokens      \* the text by tokens

textVars == <<chars, tokens>>

Punct(c) == [punct |-> c]
Token ==
    {Punct(c) : c \in {"[", "]", "{", "}", ",", ":"}} \cup [string : Strings] \cup [word : Words]
    \cup Numbers

-----------------------------------------------------------------------------
\* Load: the node and the tokens behind it, or one of the two ways to fail.

EndOfInput   == [failed |-> "end of input"]
ParsingError == [failed |-> "parsing error"]
Loaded(result) == "node" \in DOMAIN result

RECURSIVE LoadNode(_), LoadArray(_, _), LoadDict(_, _)

NumberOf(token) ==
    IF token.point THEN [double |-> token.hundredths] ELSE [int |-> token.hundredths \div 100]

\* LoadBool and LoadNull, which look at whole words.
IsLiteral(word) == word \in {"true", "false", "null"}

\* By default LoadNumber looks for a digit, and throws at any punctuation.
LoadNode(ts) ==
    IF ts = << >> THEN EndOfInput
    ELSE IF Head(ts) = Punct("[") THEN LoadArray(Tail(ts), << >>)
    ELSE IF Head(ts) = Punct("{") THEN LoadDict(Tail(ts), << >>)
    ELSE IF "string" \in DOMAIN Head(ts) THEN [node |-> Head(ts), rest |-> Tail(ts)]
    ELSE IF "punct" \in DOMAIN Head(ts) THEN ParsingError
    ELSE IF "word" \in DOMAIN Head(ts)
    THEN IF IsLiteral(Head(ts).word) THEN [node |-> Head(ts), rest |-> Tail(ts)] ELSE ParsingError
    ELSE [node |-> NumberOf(Head(ts)), rest |-> Tail(ts)]

\* One comma may stand in front of any item, and need not.
LoadArray(ts, result) ==
    IF ts = << >> THEN EndOfInput
    ELSE IF Head(ts) = Punct("]") THEN [node |-> [array |-> result], rest |-> Tail(ts)]
    ELSE LET item == LoadNode(IF Head(ts) = Punct(",") THEN Tail(ts) ELSE ts)
         IN  IF Loaded(item) THEN LoadArray(item.rest, Append(result, item.node)) ELSE item

With(dict, key, node) == [k \in DOMAIN dict \cup {key} |-> IF k = key THEN node ELSE dict[k]]

\* KeyThrows that lets the last of several values of a key win.
KeyNeverThrows(dict, key) == FALSE

KeyThrows(dict, key) == key \in DOMAIN dict

\* Commas may stand anywhere between the pairs.
LoadDict(ts, dict) ==
    IF ts = << >> THEN EndOfInput
    ELSE IF Head(ts) = Punct("}") THEN [node |-> [dict |-> dict], rest |-> Tail(ts)]
    ELSE IF Head(ts) = Punct(",") THEN LoadDict(Tail(ts), dict)
    ELSE IF "string" \notin DOMAIN Head(ts) THEN ParsingError
    ELSE IF Len(ts) = 1 THEN EndOfInput
    ELSE IF ts[2] # Punct(":") \/ KeyThrows(dict, Head(ts).string) THEN ParsingError
    ELSE LET item == LoadNode(Tail(Tail(ts)))
         IN  IF Loaded(item)
             THEN LoadDict(item.rest, With(dict, Head(ts).string, item.node))
             ELSE item

-----------------------------------------------------------------------------
\* Print, without its white space.

RECURSIVE PrintNode(_)

\* Texts with a comma between each two.
Separated(texts) ==
    FlattenSeq([i \in DOMAIN texts |-> IF i = 1 THEN texts[i] ELSE <<Punct(",")>> \o texts[i]])

Abs(value) == IF value < 0 THEN -value ELSE value

\* The least power of ten that leaves at most six digits of a value.
Unit(value) == 10 ^ Min({k \in 0 .. 9 : Abs(value) \div 10^k < 10^6})

\* SixDigits that cuts off the others.
SixDigitsCutOff(value) ==
    (IF value < 0 THEN -Unit(value) ELSE Unit(value)) * (Abs(value) \div Unit(value))

\* What is left of the value of a double: the nearest multiple of the unit, the even one
\* of two.  (A tie is one for the double itself where the value has a binary fraction,
\* that is for quarters; the instances have no other tie.)
SixDigits(value) ==
    LET unit  == Unit(value)
        count == Abs(value) \div unit
        rest  == Abs(value) % unit
        up    == 2 * rest > unit \/ (2 * rest = unit /\ count % 2 = 1)
    IN  (IF value < 0 THEN -unit ELSE unit) * (IF up THEN count + 1 ELSE count)

\* std::ostream writes six digits of a double: with a point where they leave a fraction,
\* with an exponent from a million on, and like an int otherwise.
PrintDouble(value) ==
    [hundredths |-> SixDigits(value),
     point      |-> SixDigits(value) % 100 # 0 \/ Abs(SixDigits(value)) >= 100 * 10^6]

\* A double that is not finite is a word.
PrintNode(node) ==
    CASE IsArray(node) ->
            <<Punct("[")>> \o Separated([i \in DOMAIN node.array |-> PrintNode(node.array[i])])
            \o <<Punct("]")>>
      [] IsDict(node) ->
            LET keys == SetToSeq(DOMAIN node.dict)
            IN  <<Punct("{")>>
                \o Separated([i \in DOMAIN keys |->
                        <<[string |-> keys[i]], Punct(":")>> \o PrintNode(node.dict[keys[i]])])
                \o <<Punct("}")>>
      [] DOMAIN node \in {{"string"}, {"word"}} -> <<node>>
      [] "notfinite" \in DOMAIN node -> <<[word |-> node.notfinite]>>
      [] IsInt(node)    -> <<[hundredths |-> 100 * node.int, point |-> FALSE]>>
      [] IsDouble(node) -> <<PrintDouble(node.double)>>

-----------------------------------------------------------------------------
LoadInit == chars = << >> /\ tokens = << >>

\* std::cin: Load reads on until it returns or throws for what it has read.
NextToken ==
    /\ chars = << >>
    /\ Len(tokens) < MaxTokens
    /\ LoadNode(tokens) = EndOfInput
    /\ \E token \in Token : tokens' = Append(tokens, token)
    /\ UNCHANGED chars

InString == chars # << >> /\ Head(chars) = "quote"
InNumber == chars # << >> /\ Head(chars) \in NumberChars

\* Load finds a quote and calls LoadString for the rest.
NextChar ==
    /\ tokens = << >>
    /\ chars = << >> \/ InString
    /\ Len(chars) < MaxLength
    /\ \E c \in IF chars = << >> THEN {"quote"} ELSE Chars : chars' = Append(chars, c)
    /\ chars # << >> => LoadString(Tail(chars)) = EndOfInput
    /\ LET result == LoadString(Tail(chars'))
       IN  tokens' = IF "string" \in DOMAIN result THEN <<[string |-> result.string]>> ELSE << >>

\* Load finds something else and calls LoadNumber, which looks at one character behind
\* the number at most; any may follow.
NextDigit ==
    /\ tokens = << >>
    /\ chars = << >> \/ InNumber
    /\ Len(chars) < MaxLength
    /\ \E c \in NumberChars : chars' = Append(chars, c)
    /\ UNCHANGED tokens

LoadNext == NextToken \/ NextChar \/ NextDigit
-----------------------------------------------------------------------------
\* Reference: documents whose commas have been taken out, by the grammar of JSON.
RECURSIVE Reads(_, _), ReadsItems(_, _), ReadsPairs(_, _)

\* Whether the text spells the node.
Reads(ts, node) ==
    CASE IsArray(node) ->
            /\ Len(ts) >= 2 /\ ts[1] = Punct("[") /\ Last(ts) = Punct("]")
            /\ ReadsItems(SubSeq(ts, 2, Len(ts) - 1), node.array)
      [] IsDict(node) ->
            /\ Len(ts) >= 2 /\ ts[1] = Punct("{") /\ Last(ts) = Punct("}")
            /\ ReadsPairs(SubSeq(ts, 2, Len(ts) - 1), node.dict)
      [] IsString(node) -> ts = <<node>>
      [] "word" \in DOMAIN node   -> ts = <<node>> /\ node.word \in {"true", "false", "null"}
      [] OTHER ->
            Len(ts) = 1 /\ "point" \in DOMAIN ts[1] /\ NumberOf(ts[1]) = node

\* Some beginning of the text spells the first item, and the rest the others.
ReadsItems(ts, items) ==
    IF items = << >> THEN ts = << >>
    ELSE \E n \in 1 .. Len(ts) :
            Reads(SubSeq(ts, 1, n), Head(items)) /\ ReadsItems(SubSeq(ts, n + 1, Len(ts)), Tail(items))

ReadsPairs(ts, dict) ==
    IF ts = << >> THEN DOMAIN dict = {}
    ELSE /\ Len(ts) >= 3 /\ "string" \in DOMAIN ts[1] /\ ts[2] = Punct(":")
         /\ ts[1].string \in DOMAIN dict
         /\ \E n \in 3 .. Len(ts) :
              /\ Reads(SubSeq(ts, 3, n), dict[ts[1].string])
              /\ ReadsPairs(SubSeq(ts, n + 1, Len(ts)),
                            [k \in DOMAIN dict \ {ts[1].string} |-> dict[k]])

RECURSIVE Numerals(_)

\* The doubles in a document.
Numerals(node) ==
    CASE IsArray(node)      -> UNION {Numerals(item) : item \in Range(node.array)}
      [] IsDict(node)       -> UNION {Numerals(item) : item \in Range(node.dict)}
      [] IsPureDouble(node) -> {node}
      [] OTHER              -> {}
-----------------------------------------------------------------------------
\* What Load accepts is a JSON document in which nothing but commas is missing or too
\* many, and its node is the one the document spells (json.cpp:21-66, 190-214).
OnlyCommasAreForgiven ==
    LET result == LoadNode(tokens)
    IN  Loaded(result) =>
            /\ result.rest = << >>
            /\ Reads(SelectSeq(tokens, LAMBDA token : token # Punct(",")), result.node)

\* Backslashes right in front of the i-th character.
BackslashesBefore(i) ==
    Cardinality({k \in 1 .. i - 1 : \A j \in k .. i - 1 : chars[j] = "backslash"})

\* Where a string ends: quotes that are not escaped, but for the opening one.
Ends == {i \in 2 .. Len(chars) : chars[i] = "quote" /\ BackslashesBefore(i) % 2 = 0}

\* A string is loaded up to the first quote that is not escaped, and no further,
\* however many backslashes stand in front of it (json.cpp:68-114).
StringEndsAtQuote ==
    InString =>
        LET result == LoadString(Tail(chars))
        IN  /\ tokens # << >> => Ends = {Len(chars)} /\ result.rest = << >>
            /\ Ends # {} => result # EndOfInput

\* What PrintString writes LoadString reads as the same string, and what follows the
\* string is left for others (json.cpp:239-261): also where it begins with the
\* characters a string could end with.
PrintedStringIsLoaded ==
    InString /\ tokens # << >> =>
        LET s == tokens[1].string
        IN  \A next \in Chars :
                LoadString(Tail(PrintString(s)) \o <<next>>) = [string |-> s, rest |-> <<next>>]

\* The grammar of numbers.
Unsigned(text, signs) == IF text # << >> /\ Head(text) \in signs THEN Tail(text) ELSE text
IsDigits(text) == text # << >> /\ Range(text) \subseteq Digits
IsWhole(text)  == IsDigits(text) /\ (Head(text) = "0" => Len(text) = 1)

IsNumber(text) ==
    \E point, letter \in 0 .. Len(text) :
        LET fraction == SubSeq(text, point + 1, letter)
            power    == SubSeq(text, letter + 1, Len(text))
        IN  /\ point <= letter
            /\ IsWhole(Unsigned(SubSeq(text, 1, point), {"-"}))
            /\ fraction # << >> => Head(fraction) = "." /\ IsDigits(Tail(fraction))
            /\ power # << >> => Head(power) = "e" /\ IsDigits(Unsigned(Tail(power), {"+", "-"}))

\* A number that no int, or no double, can hold.
IsTooLarge(text) ==
    LET whole == Unsigned(text, {"-"})
        power == SubSeq(text, SelectInSeq(text, LAMBDA c : c = "e") + 1, Len(text))
    IN  IF IsWhole(whole) THEN Number(whole) > IntLimit
        ELSE "e" \in Range(text) /\ Number(Unsigned(power, {"+", "-"})) > ExponentLimit

\* A number is loaded as far as JSON has it reach, and no digit further: behind a
\* leading zero another number begins.  Load fails where there is none, where its
\* fraction or exponent has no digits, or where it is too large (json.cpp:133-188).
NumberEndsAsInJson ==
    InNumber =>
        LET result  == LoadNumber(chars)
            ends    == {n \in DOMAIN chars : IsNumber(SubSeq(chars, 1, n))}
            longest == SubSeq(chars, 1, Max(ends))
            rest    == SubSeq(chars, Max(ends) + 1, Len(chars))
        IN  IF result = NoNumber
            THEN ends = {} \/ (rest # << >> /\ Head(rest) \in {".", "e"}) \/ IsTooLarge(longest)
            ELSE /\ ends # {} /\ result.rest = rest
                 /\ result.kind = IF Range(longest) \subseteq Digits \cup {"-"} THEN "int" ELSE "double"
=============================================================================
