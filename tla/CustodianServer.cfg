SPECIFICATION FairSpec
CONSTANTS
    c1 = c1
    c2 = c2
    c3 = c3
    Requests <- ThreeConnections
    Mixes <- TwoMixes
    Buckets <- BothBuckets
    Limits <- OffAndOne
    Window = 1
    MaxTime = 2
    MaxConnections = 2
    MaxPieces = 1
    MaxLives = 2
INVARIANTS
    TokenRateBounded
    SlotsConserved
PROPERTIES
    EveryConnectionEnds
\* Every connection has ended and the clock has reached its bound.
CHECK_DEADLOCK FALSE
