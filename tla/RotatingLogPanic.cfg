SPECIFICATION Spec
CONSTANTS
    MaxBytes = 4
    Retained = 2
    Sizes = {1, 3, 5}
    MaxLines = 6
    MaxFailures = 2
INVARIANTS
    KeepsOpenFile
CHECK_DEADLOCK FALSE
