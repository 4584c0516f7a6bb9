SPECIFICATION Spec
CONSTANTS
    Hashes = {h1}
    Bodies = {genuine, altered}
    Genuine = genuine
    Malformed = {altered}
    Escalated = {}
    Incoming <- Issued
    Decisions = {}
    Doors = {"decode", "import", "hear", "scan"}
    Ids = {i1, i2}
    NoCopy = NoCopy
INVARIANT VerdictIsOfRecord
