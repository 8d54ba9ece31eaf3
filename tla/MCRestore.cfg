SPECIFICATION RestartSpec
CONSTANTS
    t1 = t1
    p1 = p1
    p2 = p2
    Tasks <- OneTask
    Callers <- NoCallers
    MaxAttempts = 1
    MaxStops = 1
    MaxRestores = 2
    MaxGen = 2
    Principals <- TwoPrincipals
    Edges <- NoEdges
    MaxSends = 2
    MaxKills = 2
    MaxPosts = 2
    OperatorVerified = TRUE
    StartPurposes <- AllPurposes
INVARIANTS
    RestoreDiscipline
    RestoreLocksPair
    AdoptedIsReal
PROPERTIES
    ResolvedOnEvidence
    RestoreOwned
SYMMETRY PrincipalSymmetry
