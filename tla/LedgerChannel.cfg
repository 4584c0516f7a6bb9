SPECIFICATION Spec
CONSTANTS
    Sends = {s1, s2}
    Tabs = {t1, t2}
    Receipts = {a, b, m}
    Artifacts = {a, b}
    NoReceipt = NoReceipt
INVARIANTS
    TypeOK
    AckedWasStored
    NoAckStorm
SYMMETRY ChannelSymmetry
