SPECIFICATION FairSpec
CONSTANTS
    Records = {r1, r2}
    W = 2
    Kinds <- MCKinds
    Span <- MCSpan
    MaxSize = 3
    MaxCrashes = 1
    TornWrites = TRUE
    NoFile = NoFile
    Torn = Torn
INVARIANTS
    TypeOK
    EveryCheckpointVerifies
    AnchorNamesPublished
    NeverForks
PROPERTIES
    AnchorNeverDemoted
    CompletedRunChecks
    ImplementsLog
    KeepsPublishing
