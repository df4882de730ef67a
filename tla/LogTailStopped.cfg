SPECIFICATION Spec
CONSTANTS
    None = None
    Places <- MCPlaces
    KnownPlaces <- MCKnownPlaces
    Programs <- MCPrograms
    NameOf <- MCNameOf
    ParentOf <- MCParentOf
    LocationsOf <- MCLocationsOf
    MaxParentDepth = 2
    LineKinds = {"unload", "event"}
    MaxLines = 1
    MaxFiles = 1
    MaxChanges = 1
    HalfKinds = {}
    Fresh = {TRUE}
    Regrows = FALSE
    EventsAnywhere = FALSE
    LateSources = FALSE
INVARIANTS
    StoppedIsPaused
CHECK_DEADLOCK FALSE
