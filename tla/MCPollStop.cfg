SPECIFICATION StopSpec
CONSTANTS
    t1 = t1
    p1 = p1
    c1 = c1
    Tasks <- OneTask
    Callers <- OneCaller
    MaxAttempts = 1
    MaxStops = 1
    MaxRestores = 0
    MaxGen = 0
    Principals <- OnePrincipal
    Edges <- NoEdges
    MaxSends = 2
    MaxKills = 2
    OperatorVerified = FALSE
    StartPurposes <- NoPurposes
INVARIANTS
    PollReconcilesStops
