CONSTANTS
    PRs = {p}
    Kinds = {"source", "flawed", "hand"}
    MaxLandings = 3
    MaxAttempts = 2
    MaxFaults = 2
    MaxPushes = 2
    MaxSyncs = 1
    Budget = 4
SPECIFICATION MCFairSpec
INVARIANTS
    TypeOK
    SyncedAtRest
    OnlyRetriesHide
PROPERTIES
    NothingOverwritten
    BuildersKeepTheirPushes
    ChainEnds
    PRsCatchUp
