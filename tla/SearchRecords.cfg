SPECIFICATION OrderedFairSpec
CONSTANTS
    a1 = a1
    a2 = a2
    s1 = s1
    s2 = s2
    NoProof = NoProof
    Approvals <- TwoApprovals
    Proofs <- SearchProofs
    ProofExpires <- ProofExpiry
    Expiry <- ExpiresAt1
    Callers <- TwoSearches
    Rows <- TwoRowsEach
    MaxRows = 2
    Presence <- OnlyFirst
    Limit = 3
    Revoked <- RevokedLater
    MaxVersion = 1
    TTL = 1
    MaxTime = 2
INVARIANTS
    ShownIsAccounted
    AllOrNothing
    OnePolicyPerSearch
    OpeningsArePaid
PROPERTIES
    EverySearchEnds
    SearchImplementsCapability
\* Every search has ended and the clock has reached its bound.
CHECK_DEADLOCK FALSE
