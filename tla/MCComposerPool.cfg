SPECIFICATION FairSpec
CONSTANTS
    g1 = g1
    g2 = g2
    g3 = g3
    none = none
    Goroutine <- Goroutines
    PoolMax = 2
    NoComposer = none
INVARIANTS
    ComposersExclusive
    PutNeverBlocks
PROPERTY
    CallsServed
