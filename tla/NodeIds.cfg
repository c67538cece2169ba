SPECIFICATION Spec
CONSTANTS
    N = 2
    MaxCalls <- OneCallEach
    MaxNew = 1
    InitNodes = 1
INVARIANTS IdsUnique
CHECK_DEADLOCK FALSE
