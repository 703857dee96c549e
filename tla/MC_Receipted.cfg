\* An order whose call raises is not in the ledger.
CONSTANTS
    Principals <- MCPrincipals
    Roles <- MCRoles
    Capabilities <- MCCapabilities
    OrderIds <- MCOrderIds
    Nonces <- MCNonces
    Nobody = Nobody
    Unscoped = Unscoped
    Menu <- MCShortMenu
    PolicySet <- MCLaxPolicySet
    Orders <- MCToolCalls
    UniqueIds = TRUE
    Consumer = TRUE
    ConfirmCaps <- MCConfirm
    SandboxExits <- MCSilentExits
    Torn = Torn
    NoDraft = NoDraft
    Window = 2
    MaxOrders = 3
    MaxMalformed = 1
    MaxUndeleted = 1
    MaxTime = 0
    MaxEpochs = 2
SPECIFICATION Spec
CHECK_DEADLOCK FALSE
INVARIANTS
    EveryOrderReceipted
