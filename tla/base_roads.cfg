\* The second stop of a distance in the file.
SPECIFICATION ProgramSpec
CONSTANTS
    StopName = {"A", "B", "C"}
    BusName = {"1", "2"}
    Null = Null
    Bases <- NoBase
    WaitTime = 2
    SpanModulus = 3
    MaxStopCount = 3
    IntModulus = 16
    Sessions <- OneRoad
    FileName = {"f"}
    Indeterminate = {0}
INVARIANT
    AdjacentIdsAreSaved
\* The last process of a session ends.
CHECK_DEADLOCK FALSE
