SPECIFICATION SimpleSpec
CONSTANTS
    N = 2
    MaxCalls <- OneCallEach
    MaxNew = 1
    InitNodes = 1
    EdgeNodes = {1}
    MaxEdges <- LastOnly
    MaxSaves <- Nobody
    Careful = FALSE
INVARIANTS ReplicasSame
CHECK_DEADLOCK FALSE
