\* Every request to every catalogue of five sets of roads and two lines, in every order
\* of the maps.  SpanModulus is small enough for spans to wrap around.
SPECIFICATION SearchSpec
CONSTANTS
    StopName = {"A", "B", "C"}
    BusName = {"1", "2"}
    Null = Null
    Bases <- SearchBases
    Stats <- SearchStats
    Palette <- MCPalette
    Place <- MCPlace
    StayedAt <- MCStayedAt
    WaitTime = 2
    SpanModulus = 3
    MaxStopCount = 4
INVARIANTS
    ItemsMatchEdges
    RideTimesAreLeast
    RidesAreReal
    AnswerIsFastest
    RidesAreListed
    RidesFitTheirLine
    BusAnswersAsDeclared
PROPERTIES
    RouterEnds
    RequestsAreAnswered
\* Search returns once, or Populate or the router has thrown.
CHECK_DEADLOCK FALSE
