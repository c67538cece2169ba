SPECIFICATION SimpleFairSpec
CONSTANTS
    N = 2
    MaxCalls <- LastTwice
    MaxNew = 2
    InitNodes = 1
    EdgeNodes = {0, 1}
    MaxEdges <- FirstOnly
    MaxSaves <- LastOnly
    Careful = TRUE
INVARIANTS AcksAccounted RequestsAccounted EdgesAccounted VerticesOfSnapshots ReplicasSame
PROPERTY EveryCallReturns
CHECK_DEADLOCK FALSE
