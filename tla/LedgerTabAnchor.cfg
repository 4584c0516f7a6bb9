SPECIFICATION Spec
CONSTANTS
    Hashes = {h1}
    Bodies = {genuine}
    Genuine = genuine
    Malformed = {}
    Escalated = {h1}
    Incoming <- Issued
    Decisions = {"approve"}
    Doors = {"import"}
    Ids = {i1, i2}
    NoCopy = NoCopy
PROPERTY AnchorOnlyAttaches
