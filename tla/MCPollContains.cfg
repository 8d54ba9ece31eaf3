SPECIFICATION RecoverySpec
CONSTANTS
    t1 = t1
    p1 = p1
    c1 = c1
    Tasks <- OneTask
    Callers <- OneCaller
    MaxAttempts = 1
    MaxStops = 0
    MaxRestores = 0
    MaxGen = 0
    Principals <- OnePrincipal
    Edges <- AllEdges
    MaxSends = 2
    OperatorVerified = FALSE
PROPERTIES
    PollContainsIntents
