SPECIFICATION Spec
CHECK_DEADLOCK FALSE
CONSTANTS
    e1 = e1
    e2 = e2
    totp = totp
    t1 = t1
    NoKey = NoKey
    Plain = Plain
    OwnKey = OwnKey
    Overwritten = Overwritten
    NoManifest = NoManifest
    NoStage = NoStage
    Records <- TwoRecords
    Credentials <- OneSecret
    Threads <- OneThread
    MaxRoot = 2
CONSTRAINT Bounded
SYMMETRY Symmetric
VIEW Distinguished
INVARIANTS
    NothingLost
    DestructionIsReal
    StepsAreRecorded
