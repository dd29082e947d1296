----------------------------- MODULE MCPopulate -----------------------------
(* Small instances of Populate. *)
EXTENDS Populate, SequencesExt

Roads == UNION {[names -> {1, 2}] : names \in SUBSET {"A", "B"}}

\* Two or three stops, the third of a name already taken or of a third name, with
\* every choice of distances among A and B, their own included; C is never
\* declared by the first two, so that it may be unknown.
StopRequests ==
    {<<[name |-> "A", road_distances |-> a], [name |-> "B", road_distances |-> b]>> :
        a \in Roads, b \in Roads}
    \cup
    {<<[name |-> "A", road_distances |-> a], [name |-> "B", road_distances |-> b],
       [name |-> third, road_distances |-> c]>> :
        a \in Roads, b \in {r \in Roads : "B" \notin DOMAIN r}, third \in {"A", "B", "C"},
        c \in [{"A", "C"} -> {1, 2}]}

\* Two lines of the same or of different names, one of them over C.
BusRequests ==
    {<<[name |-> "1", stops |-> <<"A", "B", "A">>, is_roundtrip |-> TRUE],
       [name |-> second, stops |-> line, is_roundtrip |-> FALSE]>> :
        second \in {"1", "2"}, line \in {<<"B">>, <<"B", "C">>, <<"A", "C", "B">>}}

MCBases == [stops : StopRequests, buses : BusRequests]
=============================================================================
