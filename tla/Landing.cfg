CONSTANTS
    a = a
    b = b
    r1 = r1
    r2 = r2
    PRs <- MCPRs
    Eligible <- MCPRs
    ByHand = {b}
    Lineage <- MCPRs
    Rank <- MCRank
    Faults = {"timeout", "fatal", "gate"}
    Window = 2
    MaxTip = 1
    TimeoutCap = 2
    Runs = {r1, r2}
SPECIFICATION MCFairSpec
INVARIANTS TypeOK RequeuesCapped
PROPERTIES ArmsOneLineagePR NotForgotten LaneMoves
