SPECIFICATION HostSpec
CONSTANTS
    d1 = d1
    d2 = d2
    c1 = c1
    c2 = c2
    Procs <- TwoProcs
    Files <- TwoFiles
    Clients <- TwoClients
INVARIANTS
    StoreOwned
    EffectsOwned
    DrainSparesEffects
    MetadataNamesOwner
PROPERTIES
    FailureSurfaces
    StopCompletes
