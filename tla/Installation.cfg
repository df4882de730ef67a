SPECIFICATION Spec
CONSTANTS
    Installers = {i1, i2}
    MaxVersion = 3
    MaxStarts = 3
    MaxFailures = 1
    ByPath = FALSE
INVARIANTS
    SomeExecutable

    
CHECK_DEADLOCK FALSE
