----------------------- MODULE GraphRouterRefinement -----------------------
(***************************************************************************)
(* graph::Router implements RoutePlanner: the loops of the constructor are *)
(* one step of the planner, the walk of BuildRoute is another.             *)
(***************************************************************************)
EXTENDS GraphRouterInvariant

PlannerPhase ==
    CASE phase \in {"initializing", "relaxing"} -> "building"
      [] phase \in {"ready", "answered"}        -> "ready"
      [] phase = "walking"                      -> "asked"
      [] OTHER                                  -> phase

Planner == INSTANCE RoutePlanner WITH phase <- PlannerPhase

\* Every behaviour of the router is one the planner allows: each answer is a
\* connected sequence of stored edges from the one vertex to the other, its
\* weight is the sum of theirs and the least possible, unconnected vertices get
\* no answer, only a negative edge makes the constructor fail, and both calls
\* end (router.h:87-121).
ImplementsPlanner == Planner!Spec
=============================================================================
