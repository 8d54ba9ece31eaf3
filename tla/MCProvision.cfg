SPECIFICATION ProvisionSpec
CONSTANTS
    t1 = t1
    t2 = t2
    c1 = c1
    c2 = c2
    p1 = p1
    Tasks <- TwoTasks
    Callers <- TwoCallers
    MaxAttempts = 1
    MaxStops = 0
    MaxRestores = 0
    MaxGen = 0
    Principals <- OnePrincipal
    Edges <- LaneEdges
    MaxSends = 2
    MaxCreates = 2
    OperatorVerified = FALSE
INVARIANTS
    CreateDiscipline
    SessionIsProvisioned
    OneActiveLane
    SendDiscipline
PROPERTIES
    ProvisionDecidedOnce
SYMMETRY Symmetry
