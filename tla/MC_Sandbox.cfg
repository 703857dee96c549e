\* Two gateways with any two backends.
CONSTANTS
    Gateways = {g1, g2}
    Kitchen = Kitchen
SPECIFICATION FairSpec
INVARIANTS
    TypeOK
    ReportIsOutput
    GrantsLast
    NoGrantLeft
PROPERTIES
    RunEnds
