SPECIFICATION FairSpec
CONSTANTS
    Processes = {p1, p2, e1}
    External = {e1}
    Tokens = {t1}
    None = None
    Flaky = {"read", "remove"}
    MaxSecrets = 2
INVARIANTS
    RetrySafe
    OneWorker
PROPERTIES
    ActiveKeyKept
    ActivationEnds
CHECK_DEADLOCK FALSE
