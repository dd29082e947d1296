\* Every picture of two lines over at most four stops at four places.
SPECIFICATION Spec
CONSTANTS
    StopName = {"A", "B", "C", "D"}
    BusName = {"1", "2"}
    Null = Null
    Bases <- MapBases
    Places <- MCPlaces
    MapSettings <- MCSettings
    Spelling <- MCSpelling
    IntModulus = 16
INVARIANTS
    PictureFitsMap
    LabelsMatchLines
    StopsAreOnLines
    LabelsAreUnderlaid
    NamesAreReadable
PROPERTY
    MapIsDrawn
\* RenderMap returns once, or Populate has thrown.
CHECK_DEADLOCK FALSE
