SPECIFICATION Spec
CONSTANTS
    MaxBytes = 4
    Retained = 2
    Sizes = {1, 3, 5}
    MaxLines = 5
    MaxFailures = 3
INVARIANTS
    InOrder
    NewestKept
CHECK_DEADLOCK FALSE
