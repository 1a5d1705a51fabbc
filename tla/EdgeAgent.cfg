SPECIFICATION BoundedFairSpec
CONSTANTS
    f1 = f1
    f2 = f2
    c1 = c1
    c2 = c2
    NoFrame = NoFrame
    NoCall = NoCall
    Names <- TwoFiles
    ReadsIn <- TwoAndOne
    Malformed <- OneMalformed
    MaxVersion = 1
    BatchSize = 2
    MaxBatch = 2
    Calls <- TwoCalls
    MaxCrashes = 1
    MaxFaults = 1
    MaxSuspensions = 1
INVARIANTS
    NothingLost
    RepeatsAreBounded
PROPERTIES
    EveryReadArrives
