SPECIFICATION Spec
CONSTANTS
    Hashes = {h1}
    Bodies = {genuine, altered}
    Genuine = genuine
    Malformed = {altered}
    Escalated = {h1}
    Incoming <- Issued
    Decisions = {"approve"}
    Doors = {"decode", "import", "hear", "scan"}
    Ids = {i1, i2}
    NoCopy = NoCopy
SYMMETRY IdSymmetry
INVARIANTS TypeOK DialogAnswersItsImport
PROPERTY AnchorReverifies
