\* A home that outlives the installation it was set up with.
CONSTANTS
    Setups = {s1, s2}
    Keys = {k1, k2, k3}
    NoKey = NoKey
    Torn = Torn
    Available = TRUE
    MaxRuns = 3
SPECIFICATION Spec
SYMMETRY MCSymmetry
CHECK_DEADLOCK FALSE
INVARIANTS
    ReinstalledIsUsable
