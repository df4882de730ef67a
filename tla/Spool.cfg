SPECIFICATION Spec
CONSTANTS
    MaxReports = 3
    Capacity = 2
    Windows = TRUE
    MaxCorruptions = 1
INVARIANTS
    NoAcceptedReportLost
    SettledStaysGone
    InOrder
    OneCommitBack
PROPERTIES
    IsDurableQueue
