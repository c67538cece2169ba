SPECIFICATION FairSpec
CONSTANTS
    Edge <- MCEdge
    Node <- MCNode
    TailOf <- MCTail
    LastPage <- MCLastPage
    Window = 3
    PullSize = 2
    MaxBatch = 3
    MaxAdvances = 5
INVARIANTS BatchBound EdgesKeptOnce WindowIntact DegreesOfWindow AtMostTwoMissing TwoAhead
PROPERTIES Answered StopObeyed
CHECK_DEADLOCK FALSE
