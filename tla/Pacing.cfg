SPECIFICATION PacingSpec
CONSTANTS
    Buffer = 1
    InitialDelay = 1
    MaxDelay = 2
    Stable = 2
    Timeout = 1
    CallsPerTick = 1
    MaxWire = 2
    MaxFaults = 2
    Events = {"moon"}
    Window = 1
    MaxUnread = 1
PROPERTIES
    DuplicateIsRecent
    BackoffRespected
    EventuallyConnected
    UpgradeShown
    HeartbeatsAnswered
