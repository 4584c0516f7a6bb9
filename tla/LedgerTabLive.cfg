SPECIFICATION FairSpec
CONSTANTS
    Hashes = {h1}
    Bodies = {genuine, odd}
    Genuine = genuine
    Malformed = {odd}
    Escalated = {}
    Incoming <- Issued
    Decisions = {}
    Doors = {"decode", "import", "hear"}
    Ids = {i1, i2}
    NoCopy = NoCopy
PROPERTY LoadingEnds
