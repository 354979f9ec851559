\* A Full VPN save writes what the Gateway field shows (a violation is expected).
CONSTANTS
    W <- MC_W
    VpnNet <- MC_VpnNet
    Subnets <- MC_Subnets
    ViaAddrs = {1, 5}
    DnsAddrs = {4}
    RouterIp = 4
    ClientNets <- MC_ClientNets
    Mtus = {100, 1300}
    MaxSubnets = 2
    InitConfigs <- MC_InitConfigs
    Bad = Bad
    Empty = Empty
    MaxSteps = 5
    MaxConnects = 1
SPECIFICATION Spec
INVARIANT GatewaySaved
\* The user may stop at any point; the step bounds end every behaviour.
CHECK_DEADLOCK FALSE
