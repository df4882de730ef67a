SPECIFICATION CycleSpec
CONSTANTS
    Platforms = {"unix", "windows"}
    MayFail = {"wait", "clear", "hash", "copy", "fill", "check", "backup", "save",
               "rename", "unstage", "launch", "watch", "stable", "forget",
               "discard", "terminate", "clean", "restore", "restart"}
    MayDie = TRUE
    MaxVersion = 5
    Signed = {2, 3, 4}
    Bad = {3}
    MaxReleases = 2
    MaxFaults = 2
INVARIANTS
    PreviousKept
    AlwaysStartable
    OneCollector
    Settled
    InstalledIsEndorsed
PROPERTIES
    EventuallyUpdated
    ButtonComesBack
CHECK_DEADLOCK FALSE
