---------------------------- MODULE JsonBuilder ----------------------------
(***************************************************************************)
(* json::Builder of lib/json/json_builder.h and json_builder.cpp: a stack  *)
(* of nodes and two counters, driven by calls that a client makes one by   *)
(* one and that throw where they make no sense.                            *)
(*                                                                         *)
(* A key on the stack is a node of a string, as in the code.               *)
(***************************************************************************)
EXTENDS JsonNode, SequencesExt

CONSTANTS
    Keys,       \* the strings a client passes to Key
    Values,     \* the nodes it passes to Value
    MaxCalls    \* the most calls it makes before Build

VARIABLES
    nodes_stack,    \* nodes_stack_
    level,          \* level_
    status,         \* "building", "threw", "crashed", "built" or "unbuilt"
    calls           \* the calls made so far

builderVars == <<nodes_stack, level, status, calls>>

BuilderInit ==
    /\ nodes_stack = << >>
    /\ level = [array |-> 0, dict |-> 0]
    /\ status = "building"
    /\ calls = << >>

-----------------------------------------------------------------------------
\* What a call does to the stack, given that it does not throw.

\* dict.insert does nothing where the key is taken.
Insert(dict, key, node) ==
    [k \in DOMAIN dict \cup {key} |-> IF k \in DOMAIN dict THEN dict[k] ELSE node]

\* Value has nowhere to put the node: neither an array, nor a key of an open dict.
ValueThrows(stack, lvl) ==
    /\ stack # << >>
    /\ ~IsArray(Last(stack))
    /\ ~(lvl.dict # 0 /\ IsString(Last(stack)))

WithValue(stack, node) ==
    IF stack = << >> THEN <<node>>
    ELSE IF IsArray(Last(stack))
    THEN Append(Front(stack), [array |-> Append(Last(stack).array, node)])
    ELSE LET dict == Last(Front(stack)).dict
         IN  Append(Front(Front(stack)), [dict |-> Insert(dict, Last(stack).string, node)])

\* IsRoot that does not let a container follow a key.
IsRootOrKey(stack) == stack # << >> /\ ~IsArray(Last(stack))

IsRoot(stack) == stack # << >> /\ ~IsString(Last(stack)) /\ ~IsArray(Last(stack))

\* The tail of Value, which EndArray and EndDict share: an exception leaves the
\* stack and the level as they are by then.
Put(stack, lvl, node) ==
    /\ level' = lvl
    /\ IF ValueThrows(stack, lvl)
       THEN status' = "threw" /\ nodes_stack' = stack
       ELSE status' = status /\ nodes_stack' = WithValue(stack, node)

Throw == status' = "threw" /\ UNCHANGED <<nodes_stack, level>>

\* nodes_stack_.back() of an empty stack is read before empty() is asked.
Crash == status' = "crashed" /\ UNCHANGED <<nodes_stack, level>>

Calling(call) ==
    /\ status = "building" /\ Len(calls) < MaxCalls
    /\ calls' = Append(calls, call)

Key(key) ==
    /\ Calling([key |-> key])
    /\ IF nodes_stack = << >> THEN Crash
       ELSE IF ~IsDict(Last(nodes_stack)) THEN Throw
       ELSE /\ nodes_stack' = Append(nodes_stack, [string |-> key])
            /\ UNCHANGED <<level, status>>

Value(node) ==
    /\ Calling([value |-> node])
    /\ Put(nodes_stack, level, node)

StartArray ==
    /\ Calling([start |-> "array"])
    /\ IF IsRoot(nodes_stack) THEN Throw
       ELSE /\ nodes_stack' = Append(nodes_stack, [array |-> << >>])
            /\ level' = [level EXCEPT !.array = @ + 1]
            /\ UNCHANGED status

StartDict ==
    /\ Calling([start |-> "dict"])
    /\ IF IsRoot(nodes_stack) THEN Throw
       ELSE /\ nodes_stack' = Append(nodes_stack, [dict |-> << >>])
            /\ level' = [level EXCEPT !.dict = @ + 1]
            /\ UNCHANGED status

EndArray ==
    /\ Calling([end |-> "array"])
    /\ IF nodes_stack = << >> THEN Crash
       ELSE IF ~IsArray(Last(nodes_stack)) THEN Throw
       ELSE Put(Front(nodes_stack), [level EXCEPT !.array = @ - 1], Last(nodes_stack))

EndDict ==
    /\ Calling([end |-> "dict"])
    /\ IF nodes_stack = << >> THEN Crash
       ELSE IF ~IsDict(Last(nodes_stack)) THEN Throw
       ELSE Put(Front(nodes_stack), [level EXCEPT !.dict = @ - 1], Last(nodes_stack))

BuildThrows == Len(nodes_stack) # 1 \/ level.array # 0 \/ level.dict # 0

\* The last call of a client.
Build ==
    /\ status = "building"
    /\ status' = IF BuildThrows THEN "unbuilt" ELSE "built"
    /\ UNCHANGED <<nodes_stack, level, calls>>

BuilderNext ==
    \/ \E key \in Keys : Key(key)
    \/ \E node \in Values : Value(node)
    \/ StartArray \/ StartDict \/ EndArray \/ EndDict
    \/ Build

BuilderSpec == BuilderInit /\ [][BuilderNext]_builderVars
-----------------------------------------------------------------------------
\* Reference: the calls read as a text, by recursive descent.  Read gives the node
\* the text begins with and the calls that follow it, or else says whether more
\* calls could make a node of it.

More == [more |-> TRUE]
Bad  == [more |-> FALSE]
Complete(reading) == "node" \in DOMAIN reading

RECURSIVE Read(_), ReadItems(_, _), ReadPairs(_, _)

Read(cs) ==
    IF cs = << >> THEN More
    ELSE IF "value" \in DOMAIN Head(cs) THEN [node |-> Head(cs).value, rest |-> Tail(cs)]
    ELSE IF Head(cs) = [start |-> "array"] THEN ReadItems(Tail(cs), << >>)
    ELSE IF Head(cs) = [start |-> "dict"] THEN ReadPairs(Tail(cs), << >>)
    ELSE Bad

ReadItems(cs, items) ==
    IF cs # << >> /\ Head(cs) = [end |-> "array"]
    THEN [node |-> [array |-> items], rest |-> Tail(cs)]
    ELSE LET item == Read(cs)
         IN  IF Complete(item) THEN ReadItems(item.rest, Append(items, item.node)) ELSE item

ReadPairs(cs, pairs) ==
    IF cs = << >> THEN More
    ELSE IF Head(cs) = [end |-> "dict"] THEN [node |-> [dict |-> pairs], rest |-> Tail(cs)]
    ELSE IF "key" \notin DOMAIN Head(cs) THEN Bad
    ELSE LET item == Read(Tail(cs))
         IN  IF Complete(item)
             THEN ReadPairs(item.rest, Insert(pairs, Head(cs).key, item.node))
             ELSE item
-----------------------------------------------------------------------------
\* Calls that spell a document, or the beginning of one, never throw, and a whole
\* document is what Build returns.  It returns nothing for calls that spell none:
\* containers left open, closed twice or with the wrong End, keys without a value,
\* values without a key; only a root array may be followed by more (OneRoot).  No call
\* but the first can find the stack empty and read its back (json_builder.cpp:8): once
\* there is a root, whatever is called and in whatever order, there is a node on it
\* (json_builder.cpp:15-67, json_builder.h:26-58).
DocumentsAreBuilt ==
    LET reading == Read(calls)
    IN  /\ reading = More => status \in {"building", "unbuilt"}
        /\ Complete(reading) /\ reading.rest = << >> =>
                status \in {"building", "built"} /\ nodes_stack = <<reading.node>>
        /\ status = "built" =>
                Complete(reading) /\ (reading.rest = << >> \/ IsArray(reading.node))
        /\ status = "crashed" => Len(calls) = 1

\* "try to add new root" (json_builder.cpp:40, 49): a container that is started when
\* the root is complete makes the builder throw.
OneRoot ==
    LET reading == Read(calls)
    IN  Complete(reading) /\ Len(reading.rest) = 1 /\ "start" \in DOMAIN Head(reading.rest) =>
            status = "threw"
=============================================================================
