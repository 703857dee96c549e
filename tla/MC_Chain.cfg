\* One process at a time, and a copy altered in one place.
CONSTANTS
    Writers = {w1, w2}
    Contents = {a, b}
    Cut = Cut
    Unreadable = Unreadable
    Bare = Bare
    Forged = Forged
    None = None
    Serialized = TRUE
    MaxRows = 3
    MaxAlterations = 1
SPECIFICATION Spec
CHECK_DEADLOCK FALSE
INVARIANTS
    TypeOK
    LiveChainVerifies
    VerifiedIsPrefix
    NamesFirstBroken
    InspectorAgrees
