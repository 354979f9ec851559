CONSTANTS
    L = L
    P = P
    h1 = h1
    h2 = h2
    None = None
    Peers <- MCPeers
    Lighthouses <- MCLighthouses
    Statics <- MCLighthouses
    HostIds <- MCHostIds
    Retries = 2
    TriggerBuffer = 1
    RelayCanFail = FALSE
SPECIFICATION Spec
INVARIANT TypeOK
INVARIANT WheelCoversPending
INVARIANT AbandonAtRelayExhaustion
PROPERTY PendingResolves
PROPERTY RefinesLifecycle
CHECK_DEADLOCK FALSE
