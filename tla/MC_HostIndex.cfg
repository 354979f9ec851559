\* Two peers, one of which wins handshake races; three HostInfos; two
\* index values; three stamped handshake messages; two sends.
CONSTANTS
    p1 = p1
    p2 = p2
    h1 = h1
    h2 = h2
    h3 = h3
    None = None
    Peers <- MCPeers
    HostIds <- MCHostIds
    Overwrite <- MCOverwrite
    Indexes = {1, 2}
    MaxTime = 3
    MaxSends = 2
SPECIFICATION Spec
INVARIANT TypeOK
INVARIANT IndexUnique
INVARIANT MainIndexConsistent
INVARIANT LatestWins
CHECK_DEADLOCK FALSE
