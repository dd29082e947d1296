\* The file of make_base in process_requests.
SPECIFICATION ProgramSpec
CONSTANTS
    StopName = {"A", "B", "C"}
    BusName = {"1", "2"}
    Null = Null
    Bases <- NoBase
    WaitTime = 2
    SpanModulus = 3
    MaxStopCount = 3
    IntModulus = 16
    Sessions <- OneRoad
    FileName = {"f"}
    Indeterminate = {0}
INVARIANT
    BaseIsReadable
\* The last process of a session ends.
CHECK_DEADLOCK FALSE
