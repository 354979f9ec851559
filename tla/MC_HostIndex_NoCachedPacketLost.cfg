\* The packet-loss race of spec.md invariant 4 under the bounds of
\* MC_HostIndex.cfg.
CONSTANTS
    p1 = p1
    p2 = p2
    h1 = h1
    h2 = h2
    h3 = h3
    None = None
    Peers <- MCPeers
    HostIds <- MCHostIds
    Overwrite <- MCOverwrite
    Indexes = {1, 2}
    MaxTime = 3
    MaxSends = 2
SPECIFICATION Spec
INVARIANT NoCachedPacketLost
CHECK_DEADLOCK FALSE
