CONSTANTS
    L = L
    P = P
    h1 = h1
    h2 = h2
    None = None
    Peers <- MCPeers
    Lighthouses <- MCLighthouses
    Statics <- MCLighthouses
    HostIds <- MCHostIds
    Retries = 1
    TriggerBuffer = 1
    RelayCanFail = TRUE
SPECIFICATION Spec
PROPERTY PendingResolves
CHECK_DEADLOCK FALSE
