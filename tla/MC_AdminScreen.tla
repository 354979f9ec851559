---------------------------- MODULE MC_AdminScreen ----------------------------
(* Three-bit addresses.  The certificate's network is 4/2 (addresses 4-5); *)
(* the user may type the subnet 0/1, outside it, 4/1, which starts inside *)
(* it and ends outside, or 4/3, inside it; a via inside (5) or outside (1) *)
(* it, and an MTU in range (1300) or below the engine's minimum (100).    *)
(* The router is the VPN peer 4 and has one WiFi client, 2.                *)
(* MaxSubnets 2 lets one route and one client fill a.subnets.              *)
EXTENDS AdminScreen

MC_W == 3
MC_VpnNet == [ip |-> 4, len |-> 2]
MC_Subnets == {[ip |-> 0, len |-> 1], [ip |-> 4, len |-> 1], [ip |-> 4, len |-> 3]}
MC_ClientNets == << [ip |-> 2, len |-> 3] >>

\* Semi, Full VPN through 4 with DNS 4, and Custom 0/1 through 5.
MC_InitConfigs ==
    { [fullvpn |-> FALSE, routes |-> <<>>, dns |-> <<>>],
      [fullvpn |-> TRUE,
       routes |-> << [subnet |-> [ip |-> 0, len |-> 0], via |-> 4, mtu |-> 1300] >>,
       dns |-> <<4>>],
      [fullvpn |-> FALSE,
       routes |-> << [subnet |-> [ip |-> 0, len |-> 1], via |-> 5, mtu |-> 1300] >>,
       dns |-> <<>>] }
================================================================================
