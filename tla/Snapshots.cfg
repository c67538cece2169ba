SPECIFICATION Spec
CONSTANTS
    N = 2
    Fresh = TRUE
    PageSize = 2
    InitNodes = 3
    InitEdges <- ThreeNodes
    MaxNodes = 4
    Sources = {1, 3}
    Targets = {0, 2}
    MaxEdges = 3
    MaxLevels = 5
    MaxMerges = 2
INVARIANTS TypeOK DegreesCount TablesFit BasesAgree
PROPERTY ImplementsSharedGraph
CHECK_DEADLOCK FALSE
