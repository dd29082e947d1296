\* The line 750 of the test resources.
SPECIFICATION Spec
CONSTANTS
    StopName = {"A", "B", "C"}
    BusName = {"750"}
    Null = Null
    Bases <- Line750
    WaitTime = 2
    SpanModulus = 256
    MaxStopCount = 3
INVARIANT
    EveryRideIsReal
CHECK_DEADLOCK FALSE
