\* The MCP gateway with --confirm: fresh ids, the personal gate, a backend that
\* may exit 0 without a draft.
CONSTANTS
    Principals <- MCPrincipals
    Roles <- MCRoles
    Capabilities <- MCCapabilities
    OrderIds <- MCOrderIds
    Nonces <- MCNonces
    Nobody = Nobody
    Unscoped = Unscoped
    Menu <- MCShortMenu
    PolicySet <- MCLaxPolicySet
    Orders <- MCToolCalls
    UniqueIds = TRUE
    Consumer = TRUE
    ConfirmCaps <- MCConfirm
    SandboxExits <- MCSilentExits
    Torn = Torn
    NoDraft = NoDraft
    Window = 2
    MaxOrders = 2
    MaxMalformed = 1
    MaxUndeleted = 2
    MaxTime = 0
    MaxEpochs = 2
SPECIFICATION FairSpec
CHECK_DEADLOCK FALSE
INVARIANTS
    ReportTellsOrders
    ReceiptMatchesRun
    DraftStands
    WorkspaceGone
    BlockedNeverRuns
PROPERTIES
    OrderEnds
    ImplementsLifecycle
