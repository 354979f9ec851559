------------------------- MODULE MC_HandshakeManager -------------------------
(* One node initiating handshakes to a lighthouse L (also in the static    *)
(* host list) and an ordinary peer P.                                      *)
EXTENDS HandshakeManager

CONSTANTS L, P, h1, h2

MCPeers == {L, P}
MCLighthouses == {L}
MCHostIds == {h1, h2}
MCNoLighthouses == {}
=============================================================================
