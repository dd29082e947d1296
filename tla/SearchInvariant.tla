--------------------------- MODULE SearchInvariant ---------------------------
(***************************************************************************)
(* The inductive invariant behind the safety properties of Search: what    *)
(* the responses given so far say of the catalogue and of the router.      *)
(***************************************************************************)
EXTENDS Search, TransportRouterInvariant

\* The loop has answered the requests it has come to, but for one it crashed at.
ResponsesFollowRequests ==
    /\ stats \in Seq(StatRequest) /\ nodes \in Seq(Range(nodes))
    /\ Len(nodes) <= Len(stats)
    /\ searching = "running" => Len(nodes) = Len(stats)
    /\ building # "ready" => nodes = << >>

\* An item of the router, as a response shows it.
IsShown(ride) == \E id \in DOMAIN id_to_edge : ride = Shown(id_to_edge[id])

\* What there was to say of a stop and of a line, and items of the router.
RespondsTo(request, response) ==
    /\ request.type = "Stop" => response.buses = GetStop(db, request.name)
    /\ request.type = "Bus" =>
            /\ response.bus = GetBusLine(db, request.name)
            /\ ~GetBusLineCrashes(db, request.name)
    /\ request.type = "Route" /\ response.items # Null =>
            \A k \in DOMAIN response.items : IsShown(response.items[k])

\* graph::Router has refused all other graphs.
NoNegativeEdge ==
    building = "ready" => \A id \in DOMAIN graph.edges : graph.edges[id].weight >= 0

SearchInvariant ==
    /\ base \in Bases
    /\ RouterInvariant
    /\ NoNegativeEdge
    /\ ResponsesFollowRequests
    /\ \A i \in DOMAIN nodes : RespondsTo(stats[i], nodes[i])
=============================================================================
