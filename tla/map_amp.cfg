\* The name of the stop A has an ampersand.
SPECIFICATION Spec
CONSTANTS
    StopName = {"A", "B", "C", "D"}
    BusName = {"1", "2"}
    Null = Null
    Bases <- MapBases
    Places <- MCPlaces
    MapSettings <- MCSettings
    Spelling <- MCSpelling
    IntModulus = 16
INVARIANT
    NamesAreDisplayed
\* RenderMap returns once, or Populate has thrown.
CHECK_DEADLOCK FALSE
