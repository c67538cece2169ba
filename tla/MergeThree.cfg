SPECIFICATION FairSpec
CONSTANTS
    N = 3
    Writers = {1, 2}
    MaxUpdates = 1
    MaxSaves = 1
    MaxStarts <- StartFirst
    Rendezvous = TRUE
    Fresh = TRUE
    Barrier = TRUE
INVARIANT MergesAgree
PROPERTIES MergeEnds CheckpointEnds
CHECK_DEADLOCK FALSE
