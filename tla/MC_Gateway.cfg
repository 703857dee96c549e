\* The JSON gateway in enterprise mode: callers choose ids and nonces.
CONSTANTS
    Principals <- MCPrincipals
    Roles <- MCRoles
    Capabilities <- MCCapabilities
    OrderIds <- MCOrderIds
    Nonces <- MCNonces
    Nobody = Nobody
    Unscoped = Unscoped
    Menu <- MCMenu
    PolicySet <- MCPolicySet
    Orders <- MCGatewayOrders
    UniqueIds = FALSE
    Consumer = FALSE
    ConfirmCaps <- MCConfirm
    SandboxExits <- MCGatewayExits
    Torn = Torn
    NoDraft = NoDraft
    Window = 2
    MaxOrders = 3
    MaxMalformed = 1
    MaxUndeleted = 0
    MaxTime = 2
    MaxEpochs = 2
SPECIFICATION Spec
CHECK_DEADLOCK FALSE
INVARIANTS
    TypeOK
    ReplayExactly
    RateWindow
    SlotPerTicket
    ReceiptedInTurn
    ExecutionGoverned
    ReportTellsOrders
