SPECIFICATION Spec
CONSTANTS
    N = 3
    MaxCalls <- OneCallEach
    MaxNew = 1
    InitNodes = 1
INVARIANTS PeersLocked NobodyStuck
PROPERTIES ImplementsReservation
CHECK_DEADLOCK FALSE
