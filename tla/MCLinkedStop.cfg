SPECIFICATION RestartSpec
CONSTANTS
    t1 = t1
    p1 = p1
    p2 = p2
    Tasks <- OneTask
    Callers <- NoCallers
    MaxAttempts = 1
    MaxStops = 1
    MaxRestores = 1
    MaxGen = 1
    Principals <- OnePrincipal
    Edges <- NoEdges
    MaxSends = 2
    MaxKills = 2
    MaxPosts = 2
    OperatorVerified = TRUE
    StartPurposes <- AllPurposes
INVARIANTS
    LinkedKillConfirmable
