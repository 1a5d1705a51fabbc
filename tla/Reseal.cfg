SPECIFICATION FairSpec
CONSTANTS
    e1 = e1
    e2 = e2
    e3 = e3
    e4 = e4
    t1 = t1
    t2 = t2
    Events <- FourRecords
    Unreadable <- OneDamaged
    Connections <- TwoThreads
    Batch = 2
    MaxDeaths = 1
PROPERTIES
    PurgeIsFinal
    ResealConverges
    ApplicationFollows
