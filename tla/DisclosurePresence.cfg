SPECIFICATION Spec
CONSTANTS
  a1 = a1  a2 = a2  p1 = p1  p2 = p2  p3 = p3  k1 = k1  r1 = r1  r2 = r2  r3 = r3
  NoProof = NoProof
  Forged = Forged
  Software = Software
  Limit = 2
  PresenceMode = "required"
  Enrolled <- OneApproval
  Requests <- ThreeRequests
  Approvals <- OneApproval
  Expiry <- ExpiryOne
  ApprovedAt <- ApprovedOne
  Proofs <- TwoProofs
  ProofFor <- ProofForOne
  ProofExpires <- ProofExpiresTwo
  ProofIssued <- ProofIssuedTwo
  Authenticators <- NoAuthenticators
  MadeWith <- BySoftware
  Counter <- NoCounter
  MaxTTL = 3
  MaxTime = 3
SYMMETRY Symmetric
PROPERTIES
 ImplementsCapability
INVARIANTS
  ApprovalBoundsUses
  ConfirmationsBuyDisclosures
  LedgerFollowsClaims
CHECK_DEADLOCK FALSE
