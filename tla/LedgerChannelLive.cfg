SPECIFICATION FairSpec
CONSTANTS
    Sends = {s1, s2}
    Tabs = {t1}
    Receipts = {a, m}
    Artifacts = {a}
    NoReceipt = NoReceipt
PROPERTIES
    SendSettles
    ReachedIsRecorded
