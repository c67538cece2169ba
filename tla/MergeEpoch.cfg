SPECIFICATION Spec
CONSTANTS
    N = 3
    Writers = {1}
    MaxUpdates = 2
    MaxSaves = 2
    MaxStarts <- StartFirst
    Rendezvous = FALSE
    Fresh = TRUE
    Barrier = FALSE
INVARIANTS MergesAgree
CHECK_DEADLOCK FALSE
