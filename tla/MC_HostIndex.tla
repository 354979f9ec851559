---------------------------- MODULE MC_HostIndex ----------------------------
EXTENDS HostIndex

CONSTANTS p1, p2, h1, h2, h3

MCPeers == {p1, p2}
MCHostIds == {h1, h2, h3}
MCOverwrite == {p1}
=============================================================================
