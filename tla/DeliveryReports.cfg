SPECIFICATION Spec
CONSTANTS
    Links = {l1, l2}
    None = None
    Rejected = {}
    MaxReports = 2
    MaxPings = 1
    MaxPerTick = 2
    MaxPendingPings = 1
    MaxExpired = 1
    MaxCrashes = 1
    MaxUpdates = 0
SYMMETRY LinkSymmetry
INVARIANTS
    SharedState
    NothingLost
    NothingOwed
PROPERTIES
    DeliversReports
