SPECIFICATION Spec
CONSTANTS
    m1 = m1
    m2 = m2
    h1 = h1
    h2 = h2
    o1 = o1
    o2 = o2
    NoMessage = NoMessage
    Messages <- TwoMessages
    Handlers <- TwoHandlers
    Operators <- TwoOperators
    MaxKeys = 3
    Window = 2
    Ahead = 1
    Behind = 1
    Delay = 1
    MaxTime = 8
SYMMETRY SameNames
CONSTRAINT Bounded
INVARIANTS
    AcceptedOnce
    FeedKeepsItsKey
