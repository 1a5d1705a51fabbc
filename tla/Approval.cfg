SPECIFICATION Spec
CHECK_DEADLOCK FALSE
CONSTANTS
    a1 = a1
    a2 = a2
    u1 = u1
    u2 = u2
    officer = officer
    r1 = r1
    r2 = r2
    r3 = r3
    NoKey = NoKey
    NoOne = NoOne
    Authorizations <- TwoAuthorizations
    Approvers <- TwoApprovers
    Enrolled <- OneApprover
    RequestedBy <- AskedBy
    Requests <- ThreeRequests
    MaxStep = 1
SYMMETRY SameRequests
INVARIANTS
    ApprovalsStand
    OneCodeOneApproval
    LedgerTellsDecisions
PROPERTIES
    DecisionIsFinal
