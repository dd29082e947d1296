\* Every sequence of at most seven calls, and what it builds; every text of at most eight
\* tokens; every string and every number of at most seven characters.
SPECIFICATION DocumentSpec
CONSTANTS
    Keys <- MCStrings
    Values <- MCValues
    MaxCalls = 7
    Strings <- MCStrings
    Numbers <- MCNumbers
    Words = {"true", "nil"}
    MaxTokens = 8
    MaxLength = 7
    IntLimit = 10
    ExponentLimit = 308
INVARIANTS
    DocumentsAreBuilt
    BuiltIsLoaded
    OnlyCommasAreForgiven
    StringEndsAtQuote
    PrintedStringIsLoaded
    NumberEndsAsInJson
\* Build is the last call, and Load returns or throws, or the text is over.
CHECK_DEADLOCK FALSE
