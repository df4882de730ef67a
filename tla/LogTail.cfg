SPECIFICATION FairSpec
CONSTANTS
    None = None
    Places <- MCPlaces
    KnownPlaces <- MCKnownPlaces
    Programs <- MCPrograms
    NameOf <- MCNameOf
    ParentOf <- MCParentOf
    LocationsOf <- MCLocationsOf
    MaxParentDepth = 2
    LineKinds = {"unload", "event"}
    MaxLines = 2
    MaxFiles = 2
    MaxChanges = 1
    HalfKinds = {"event"}
    Fresh = {TRUE}
    Regrows = FALSE
    EventsAnywhere = FALSE
    LateSources = FALSE
INVARIANTS
    ReportedOnce
    NothingMissed
    ModeConverges
PROPERTIES
    Follows
CHECK_DEADLOCK FALSE
