SPECIFICATION Spec
CONSTANTS
    PRs = {}
    Kinds = {"other", "source", "flawed", "hand"}
    MaxLandings = 3
    MaxAttempts = 3
    MaxFaults = 0
    MaxPushes = 0
    MaxSyncs = 2
INVARIANT OnlyGatedText
