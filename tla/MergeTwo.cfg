SPECIFICATION Spec
CONSTANTS
    N = 2
    Writers = {0, 1}
    MaxUpdates = 2
    MaxSaves = 2
    MaxStarts <- StartEach
    Rendezvous = FALSE
    Fresh = TRUE
    Barrier = FALSE
INVARIANTS NoUpdateLost MergeReadsFiles NoCheckpointInMerge MergeSeesAll MergesAgree NobodyStuck
CHECK_DEADLOCK FALSE
