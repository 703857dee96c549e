\* Two gateway processes append to one ledger.
CONSTANTS
    Writers = {w1, w2}
    Contents = {a, b}
    Cut = Cut
    Unreadable = Unreadable
    Bare = Bare
    Forged = Forged
    None = None
    Serialized = FALSE
    MaxRows = 3
    MaxAlterations = 1
SPECIFICATION Spec
CHECK_DEADLOCK FALSE
INVARIANTS
    LiveChainVerifies
