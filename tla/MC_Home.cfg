\* Three set-up runs, any two of them side by side, and a gateway.
CONSTANTS
    Setups = {s1, s2}
    Keys = {k1, k2, k3}
    NoKey = NoKey
    Torn = Torn
    Available = TRUE
    MaxRuns = 3
SPECIFICATION Spec
SYMMETRY MCSymmetry
CHECK_DEADLOCK FALSE
INVARIANTS
    TypeOK
    LedgerVerifies
    MarkerAfterGrants
    GatewayServes
    HomeAtRest
