\* Every session of MCSessions, any of whose processes may be killed.
SPECIFICATION ProgramSpec
CONSTANTS
    StopName = {"A", "B", "C"}
    BusName = {"1", "2"}
    Null = Null
    Bases <- NoBase
    WaitTime = 2
    SpanModulus = 3
    MaxStopCount = 3
    IntModulus = 16
    Sessions <- MCSessions
    FileName = {"f", "g"}
    Indeterminate = {0, 5}
INVARIANTS
    RouterTypeOK
    BusesUseNamedStops
    DistancesAsDeclared
    StopsListTheirBuses
    RequestsAreSorted
    MakeBaseOutcome
    LinesSurvive
    SettingsSurvive
PROPERTIES
    FilesAreWhole
    ProcessesEnd
\* The last process of a session ends.
CHECK_DEADLOCK FALSE
