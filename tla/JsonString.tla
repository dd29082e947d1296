----------------------------- MODULE JsonString -----------------------------
(***************************************************************************)
(* LoadString and PrintString of lib/json/json.cpp: the escapes of JSON    *)
(* strings, on sequences of characters.                                    *)
(***************************************************************************)
EXTENDS Integers, SequencesExt

\* The characters that matter, and one that does not.
Chars == {"a", "n", "t", "r", "quote", "backslash", "LF", "CR", "TAB"}

-----------------------------------------------------------------------------
\* An escaped character; the others are no escapes.
Escapes == [n |-> "LF", t |-> "TAB", r |-> "CR", quote |-> "quote", backslash |-> "backslash"]

RECURSIVE LoadChars(_, _)

\* LoadChars without the ++it behind the backslash's own.
LoadEscapedTwice(input, s) ==
    IF input = << >> THEN [failed |-> "end of input"]
    ELSE CASE Head(input) = "quote" -> [string |-> s, rest |-> Tail(input)]
           [] Head(input) = "backslash" ->
                IF Len(input) = 1 THEN [failed |-> "end of input"]
                ELSE IF input[2] \notin DOMAIN Escapes THEN [failed |-> "unrecognized escape"]
                ELSE LoadChars(Tail(input), Append(s, Escapes[input[2]]))
           [] Head(input) \in {"LF", "CR"} -> [failed |-> "unexpected end of line"]
           [] OTHER -> LoadChars(Tail(input), Append(s, Head(input)))

\* The string s and what is left of the input; or else an exception, at the end of
\* the input or before it.
LoadChars(input, s) ==
    IF input = << >> THEN [failed |-> "end of input"]
    ELSE CASE Head(input) = "quote" -> [string |-> s, rest |-> Tail(input)]
           [] Head(input) = "backslash" ->
                IF Len(input) = 1 THEN [failed |-> "end of input"]
                ELSE IF input[2] \notin DOMAIN Escapes THEN [failed |-> "unrecognized escape"]
                ELSE LoadChars(Tail(Tail(input)), Append(s, Escapes[input[2]]))
           [] Head(input) \in {"LF", "CR"} -> [failed |-> "unexpected end of line"]
           [] OTHER -> LoadChars(Tail(input), Append(s, Head(input)))

LoadString(input) == LoadChars(input, << >>)

\* PrintChar that takes a backslash for any other character.
PrintCharAsIs(c) ==
    CASE c = "CR"    -> <<"backslash", "r">>
      [] c = "LF"    -> <<"backslash", "n">>
      [] c = "quote" -> <<"backslash", c>>
      [] OTHER       -> <<c>>

\* The switch of PrintString: a tab is printed as it is.
PrintChar(c) ==
    CASE c = "CR"                     -> <<"backslash", "r">>
      [] c = "LF"                     -> <<"backslash", "n">>
      [] c \in {"quote", "backslash"} -> <<"backslash", c>>
      [] OTHER                        -> <<c>>

PrintString(s) ==
    <<"quote">> \o FlattenSeq([i \in DOMAIN s |-> PrintChar(s[i])]) \o <<"quote">>

=============================================================================
