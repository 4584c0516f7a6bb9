CONSTANTS
    Idle = Idle
    a = a
    b = b
    c = c
    d = d
    MaxBuilt = 17
    MaxListed = 5
    MaxHonest = 13
    MaxAny = 4
    Widths = {2, 4}
    MaxEntries = 11
    MaxBatch = 3
    Entities <- MCEntities
    Names <- MCEntities
    Lists <- MCLists
    Amounts = {1, 2, 3, 5}
    MaxGross = 4
    Dust = 2
    Ids = {"id1", "id2"}
    Entries = {"mine", "yours"}
    None = None
    MaxEdits = 4
    Tasks = {"main", "side"}
    Main = "main"
    MaxCalls = 2
SPECIFICATION Algorithms
INVARIANTS
    GrowthDecided
    MembershipDecided
    RootFromTiles
    TypeOK
    FewLegs
    Settled
    NothingLost
    AddsResolve
    ReturnsClean
    ThrowsForCause
PROPERTY RunEnds
CHECK_DEADLOCK FALSE
