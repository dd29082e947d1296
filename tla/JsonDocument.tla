---------------------------- MODULE JsonDocument ----------------------------
(***************************************************************************)
(* A client of json::Builder, the printer and a reader: what the calls     *)
(* have built is printed, as main does with the responses of io::Search,   *)
(* and what is printed is loaded.  A reader may as well be given any other *)
(* text.                                                                   *)
(***************************************************************************)
EXTENDS Json, JsonBuilder

DocumentInit == LoadInit /\ BuilderInit

Building == BuilderNext /\ tokens = << >> /\ chars = << >> /\ UNCHANGED textVars

\* json::Print of a document whose root is what Build has returned.
PrintDocument ==
    /\ status = "built" /\ tokens = << >>
    /\ tokens' = PrintNode(nodes_stack[1])
    /\ UNCHANGED <<chars, builderVars>>

\* Another text than one that has been built.
Loading == LoadNext /\ calls = << >> /\ status = "building" /\ UNCHANGED builderVars

DocumentNext == Building \/ PrintDocument \/ Loading

DocumentSpec == DocumentInit /\ [][DocumentNext]_<<textVars, builderVars>>
-----------------------------------------------------------------------------
\* Reference: what a reader can tell of a document that another program has printed.

\* Whether at most six digits of a value are not zeros at its end.
IsShort(value) == \E k \in 0 .. 9 : value % 10^k = 0 /\ Abs(value) \div 10^k < 10^6

\* Of a double, the value but for its seventh digit, and as an int if that is a whole
\* number below a million.
IsNumberOf(double, found) ==
    LET value == AsDouble(found)
    IN  /\ value = double <=> IsShort(double)
        /\ IsShort(value) /\ Abs(value - double) <= Abs(double) \div 200000
        /\ IsInt(found) <=> value % 100 = 0 /\ Abs(value) < 100 * 10^6

RECURSIVE ComesBackAs(_, _)

ComesBackAs(node, found) ==
    CASE IsArray(node) ->
            /\ IsArray(found) /\ DOMAIN found.array = DOMAIN node.array
            /\ \A i \in DOMAIN node.array : ComesBackAs(node.array[i], found.array[i])
      [] IsDict(node) ->
            /\ IsDict(found) /\ DOMAIN found.dict = DOMAIN node.dict
            /\ \A key \in DOMAIN node.dict : ComesBackAs(node.dict[key], found.dict[key])
      [] "double" \in DOMAIN node -> IsDouble(found) /\ IsNumberOf(node.double, found)
      [] OTHER -> found = node

\* What Builder returns and Print writes, Load reads as a document of the same shape,
\* with the same keys, strings, ints and words at the same places.  A double has six
\* digits left, is the same just if it had no more, and comes back as an int where they
\* leave a whole number below a million.  Unless there is a double that is infinite or
\* NaN: what is printed then is not JSON at all
\* (json_builder.cpp:56-67, json.cpp:133-214, 232-350).
BuiltIsLoaded ==
    status = "built" /\ tokens # << >> =>
        LET root   == nodes_stack[1]
            result == LoadNode(tokens)
        IN  /\ Loaded(result) <=> \A double \in Numerals(root) : "notfinite" \notin DOMAIN double
            /\ Loaded(result) =>
                /\ result.rest = << >>
                /\ ComesBackAs(root, result.node)
=============================================================================
