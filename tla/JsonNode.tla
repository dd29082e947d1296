------------------------------ MODULE JsonNode ------------------------------
(***************************************************************************)
(* json::Node of lib/json/json.h: a record with one field, named for the   *)
(* alternative that the variant holds:                                     *)
(*   int, a whole number        double, a number counted in hundredths     *)
(*   word, true, false or null  string                                     *)
(*   array, a sequence of nodes                                            *)
(*   dict, a function from keys to nodes                                   *)
(* A double without a value, an infinity or NaN, has the field notfinite.  *)
(***************************************************************************)
EXTENDS Integers

IsInt(node)        == "int" \in DOMAIN node
IsPureDouble(node) == DOMAIN node \in {{"double"}, {"notfinite"}}
IsDouble(node)     == IsInt(node) \/ IsPureDouble(node)
IsString(node)     == "string" \in DOMAIN node
IsArray(node)      == "array" \in DOMAIN node
IsDict(node)       == "dict" \in DOMAIN node

\* AsDouble, of a node for which it does not throw.
AsDouble(node) == IF IsInt(node) THEN 100 * node.int ELSE node.double
=============================================================================
