SPECIFICATION Spec
CONSTANTS
    Sends = {s1, s2}
    Tabs = {t1}
    Receipts = {a, b}
    Artifacts = {a, b}
    NoReceipt = NoReceipt
INVARIANTS
    NoticeIsTrue
