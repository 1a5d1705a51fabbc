SPECIFICATION FairSpec
CONSTANTS
  a1 = a1  a2 = a2  p1 = p1  p2 = p2  p3 = p3  k1 = k1  r1 = r1  r2 = r2  r3 = r3
  NoProof = NoProof
  Forged = Forged
  Software = Software
  Limit = 1
  PresenceMode = "enrolled"
  Enrolled <- OneApproval
  Requests <- TwoRequests
  Approvals <- TwoApprovals
  Expiry <- ExpiryBoth
  ApprovedAt <- ApprovedBoth
  Proofs <- ThreeProofs
  ProofFor <- ProofForThree
  ProofExpires <- ProofExpiresThree
  ProofIssued <- ProofIssuedThree
  Authenticators <- OneAuthenticator
  MadeWith <- HardwareAndSoftware
  Counter <- Counters
  MaxTTL = 3
  MaxTime = 2
INVARIANTS
  GrantsBacked
PROPERTIES
  EveryRequestEnds
CHECK_DEADLOCK FALSE
