\* Every sequence of at most three calls.
SPECIFICATION DocumentSpec
CONSTANTS
    Keys <- MCStrings
    Values <- MCValues
    MaxCalls = 3
    Strings <- MCStrings
    Numbers <- MCNumbers
    Words = {"true", "nil"}
    MaxTokens = 1
    MaxLength = 1
    IntLimit = 10
    ExponentLimit = 308
INVARIANT
    OneRoot
\* Build is the last call.
CHECK_DEADLOCK FALSE
