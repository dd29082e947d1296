\* A line with one stop.
SPECIFICATION SearchSpec
CONSTANTS
    StopName = {"A", "B", "C"}
    BusName = {"1", "2"}
    Null = Null
    Bases <- OneStop
    Stats <- AskLine
    Palette <- NoPalette
    Place <- MCPlace
    StayedAt <- MCStayedAt
    WaitTime = 2
    SpanModulus = 256
    MaxStopCount = 2
INVARIANT
    ResponsesAreJson
\* Search returns once.
CHECK_DEADLOCK FALSE
