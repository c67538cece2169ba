SPECIFICATION FairSpec
CONSTANTS
    ThreadCount = 3
    Stripes = 2
    EdgeCount = 5
    Source <- MCSource
    Target <- MCTarget
    Nodes <- MCNodes
    StripeOf <- MCStripeOf
    ChunkSize = 4
INVARIANTS NoneLost Mirrored FreshIds
PROPERTIES ImplementsWorkList LoadingEnds
