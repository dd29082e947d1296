\* The palette of the test resources.
SPECIFICATION ProgramSpec
CONSTANTS
    StopName = {"A", "B", "C"}
    BusName = {"1", "2"}
    Null = Null
    Bases <- NoBase
    WaitTime = 2
    SpanModulus = 3
    MaxStopCount = 3
    IntModulus = 16
    Sessions <- ResourcePalette
    FileName = {"f"}
    Indeterminate = {0}
INVARIANT
    PaletteSurvives
\* The last process of a session ends.
CHECK_DEADLOCK FALSE
