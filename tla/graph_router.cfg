\* Four vertices, every sequence of at most four of the MCEdges.
SPECIFICATION Spec
CONSTANTS
    VertexCount = 4
    MaxEdgeCount = 4
    EdgeChoice <- MCEdges
    Null = Null
INVARIANTS
    TypeOK
    IncidenceIndexesEdges
    RoutesAreShortest
    PrevEdgesAddUp
    NoEmptyOptionalRead
    WalkIsSimple
    InductiveInvariant
PROPERTIES
    PivotUntouched
    ImplementsPlanner
\* A constructor that threw leaves nothing to run.
CHECK_DEADLOCK FALSE
