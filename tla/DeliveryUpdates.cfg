SPECIFICATION FairSpec
CONSTANTS
    Links = {l1}
    None = None
    Rejected = {1}
    MaxReports = 2
    MaxPings = 0
    MaxPerTick = 1
    MaxPendingPings = 1
    MaxExpired = 1
    MaxCrashes = 0
    MaxUpdates = 2
INVARIANTS
    PausedAtHandOff
    ReportsWhileObserving
PROPERTIES
    EventuallyDelivered
