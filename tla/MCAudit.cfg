SPECIFICATION Spec
CONSTANTS
    o1 = o1
    e3 = e3
    e1 = e1
    e2 = e2
    NULL = NULL
    Ops <- OneOp
    EventIDs <- ThreeIDs
    PageLimit = 2
    MaxRetries = 2
INVARIANTS
    ChainVerifies
    ContainmentSound
PROPERTIES
    ContainmentReturns
    ImplementsAuditTrail
