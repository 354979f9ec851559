------------------------------ MODULE AdminScreen ------------------------------
(***************************************************************************)
(* The ADMIN screen of the desktop GUI (screen/adminscreen.go) with the    *)
(* path a saved setting takes to the tunnel: the screen validates its      *)
(* fields and hands a ConfigData to MainActivity.saveConfig, which writes  *)
(* the second config file; a later Connect reloads the config directory    *)
(* and Main parses tun.unsafe_routes against the certificate's network     *)
(* (overlay/tun.go NewDeviceFromConfig).                                   *)
(*                                                                         *)
(* Addresses are W-bit numbers and a CIDR is a record [ip, len]; the       *)
(* containment tests of package net are computed with Bitwise.  A text     *)
(* field holds one of the values the user may type, the model value Bad   *)
(* (text that does not parse) or Empty.                                    *)
(***************************************************************************)
EXTENDS Naturals, Sequences, SequencesExt, Bitwise

CONSTANTS
    W,            \* address width in bits
    VpnNet,       \* the certificate's network, cs.certificate.Details.Ips[0]
    Subnets,      \* CIDRs the user may type into a Subnet field
    ViaAddrs,     \* addresses the user may type into a Via or Gateway field
    DnsAddrs,     \* addresses the user may type into a DNS Server field
    RouterIp,     \* the WiFi router's address, as GetRouterIP answers it
    ClientNets,   \* the /W routes of the router's WiFi clients, in list order
    Mtus,         \* numbers the user may type into an MTU field
    MaxSubnets,   \* MAX_SUBNETS, the length of the fixed array a.subnets
    InitConfigs,  \* tun settings the config directory may hold at start
    Bad,          \* a text that does not parse
    Empty,        \* the empty text
    MaxSteps,     \* bound on the user's steps
    MaxConnects   \* bound on Connect clicks

MIN_MTU == 576
MAX_MTU == 1500

\* SemiVPN, FullVPN and CustomVPN of the radio group.
Modes == {"semi", "full", "custom"}

RowIdx == 0..(MaxSubnets - 1)
Addrs == 0..(2^W - 1)
Cidrs == [ip : Addrs, len : 0..W]
DefaultRoute == [ip |-> 0, len |-> 0]

HostBits(len) == 2^(W - len) - 1
NetMask(len) == (2^W - 1) - HostBits(len)

\* net.IPNet.Contains
InNet(o, a) == (a & NetMask(o.len)) = (o.ip & NetMask(o.len))

\* The addresses of a CIDR: the reference ipWithin is checked against.
Block(c) == {a \in Addrs : InNet(c, a)}

(* ipWithin, with the lowest address of i checked and not its highest. *)
IpWithinLowOnly(o, i) == InNet(o, i.ip & NetMask(i.len))

\* ipWithin: o holds the lowest and the highest address of i.
IpWithin(o, i) ==
    /\ InNet(o, i.ip & NetMask(i.len))
    /\ InNet(o, i.ip | HostBits(i.len))

\* nh_util: net.ParseCIDR, net.ParseIP and strconv.Atoi succeed.
ProperSubnet(t) == t \notin {Bad, Empty}
ProperIp(t) == t \notin {Bad, Empty}

(* NH_is_proper_Integer without its lower bound. *)
ProperIntegerNoMin(t, lo, hi) == t \notin {Bad, Empty} /\ t <= hi

ProperInteger(t, lo, hi) == t \notin {Bad, Empty} /\ lo <= t /\ t <= hi

(* nebula.ValidateVPNIP behind AdminScreen.ValidateVPNIP: the certificate's  *)
(* network contains the address; a text that does not parse is a nil ip,   *)
(* which it never contains (the "Not a valid ip address" error is dropped). *)
ValidateVPNIP(t) == ProperIp(t) /\ InNet(VpnNet, t)

(* parseUnsafeRoutes: every entry has an MTU of 0 or at least 500, and with *)
(* a network given no route lies within it.                                *)
UnsafeRoutesOk(cfg, network) ==
    \A k \in DOMAIN cfg.routes :
        /\ cfg.routes[k].mtu = 0 \/ cfg.routes[k].mtu >= 500
        /\ ~IpWithin(network, cfg.routes[k].subnet)

\* NewDeviceFromConfig: tun.unsafe_routes parsed against tunCidr.
DeviceRoutesOk(cfg) == UnsafeRoutesOk(cfg, VpnNet)

\* getDNSServers: tun.dns split at the commas.
DnsServers(cfg) == cfg.dns
--------------------------------------------------------------------------------
(* MainActivity.saveConfig: the ConfigData as the second config file holds  *)
(* it.  Custom entries are deduplicated by their subnet text, the first     *)
(* kept; Full VPN writes one default route via the gateway, with MTU 1300.  *)
FirstBySubnet(es) ==
    FoldLeft(LAMBDA acc, r : IF \E j \in DOMAIN acc : acc[j].subnet = r.subnet
                             THEN acc ELSE Append(acc, r), <<>>, es)

MainSaveConfig(md, es, ds) ==
    [fullvpn |-> md = "full",
     routes  |-> CASE md = "custom" -> FirstBySubnet(es)
                   [] md = "full"   -> <<[subnet |-> DefaultRoute,
                                          via |-> es[1].via, mtu |-> 1300]>>
                   [] OTHER         -> <<>>,
     dns     |-> ds]

\* save_config_to_file: creating the directory or writing the file may fail.
WriteConfig == BOOLEAN

\* CommandCallback(GetRouterIP): the router's address, or "" if none answers.
FetchRouterIp == {Empty, RouterIp}

\* CommandCallback(GetWiFiClientIPList): how many clients the list holds;
\* a failed fetch or an unparsable answer leaves it at 0.
FetchClients == 0..Len(ClientNets)

VARIABLES
    mode,       \* a.curvpnmode
    rows,       \* a.subnets: per index, made (entries exist), texts, marked
    numRoutes,  \* a.num_of_routes
    laid,       \* rows laid out by the last populateCustomRoutes
    newentry,   \* a.newentry
    wifi,       \* a.wificlientsroutes
    routerip,   \* a.wifirouterip
    gateway,    \* text of the Full VPN "Gateway VPN IP Address" entry
    via0full,   \* a.subnets[0].via is still that Full VPN entry
    dns,        \* a.servers[0..1] texts
    file,       \* tun settings in the second config file
    loaded,     \* tun settings of m.config, read at the last Load
    parsed,     \* outcome of the last Main's parseUnsafeRoutes
    crashed,    \* the GUI process panicked
    saved,      \* history: the last save that reached the file
    steps,      \* user steps taken
    connects    \* Connect clicks taken

vars == <<mode, rows, numRoutes, laid, newentry, wifi, routerip, gateway,
          via0full, dns, file, loaded, parsed, crashed, saved, steps, connects>>

BlankRow == [made |-> FALSE, subnet |-> Empty, via |-> Empty, mtu |-> Empty,
             marked |-> FALSE]

NoSave == [mode |-> "none", gateway |-> Empty,
           cfg |-> [fullvpn |-> FALSE, routes |-> <<>>, dns |-> <<>>]]

(* createObjects(i): new entries for row i carrying the given texts; the   *)
(* row's markedForDeletion is left as it was.                              *)
Laid(r, subnet, via, mtu) == [r EXCEPT !.made = TRUE, !.subnet = subnet,
                                       !.via = via, !.mtu = mtu]

(* populateCustomRoutes' decision on the empty New Route row: not when the *)
(* routes laid already fill the array.                                     *)
NewRowOffByOne(ne, n) == ne /\ n <= MaxSubnets

NewRow(ne, n) == ne /\ n < MaxSubnets

(* The rows populateCustomRoutes lays out over rs: the loaded routes, the  *)
(* WiFi clients via the router with MTU 1300, and the New Route row.       *)
LaidRows(rs, rt, clients, rip, ne) ==
    LET n == Len(rt) + Len(clients) IN
    [i \in RowIdx |->
        IF i < Len(rt)
            THEN Laid(rs[i], rt[i + 1].subnet, rt[i + 1].via, rt[i + 1].mtu)
        ELSE IF i < n
            THEN Laid(rs[i], clients[i - Len(rt) + 1], rip, 1300)
        ELSE IF NewRow(ne, n) /\ i = n
            THEN Laid(rs[i], Empty, Empty, 1300)
        ELSE rs[i]]

\* populateFullVPNRoute: the gateway text.
FullVpnGateway(rt, rip) == IF rt # <<>> THEN rt[1].via ELSE rip

\* populateDNSServers: the loaded servers, else the router's address.
DnsPrefill(cfg, rip) ==
    LET ds == DnsServers(cfg)
    IN <<IF Len(ds) > 0 THEN ds[1] ELSE rip, IF Len(ds) > 1 THEN ds[2] ELSE Empty>>

(* NewAdminScreen at StartMainWindow, over the config loaded at start: the *)
(* router's address fetched, the Full VPN entry, populateCustomRoutes(c,   *)
(* false, false), which takes over a.subnets[0].via when a route exists,   *)
(* the DNS servers, and the mode from tun.fullvpn and the routes.          *)
AdminInit ==
    /\ file \in InitConfigs
    /\ loaded = file
    /\ routerip \in FetchRouterIp
    /\ numRoutes = Len(loaded.routes)
    /\ rows = LaidRows([i \in RowIdx |-> BlankRow], loaded.routes, <<>>,
                       routerip, FALSE)
    /\ laid = numRoutes
    /\ via0full = (numRoutes = 0)
    /\ gateway = FullVpnGateway(loaded.routes, routerip)
    /\ dns = DnsPrefill(loaded, routerip)
    /\ mode = CASE loaded.fullvpn      -> "full"
                [] loaded.routes = <<>> -> "semi"
                [] OTHER                -> "custom"
    /\ newentry = FALSE
    /\ wifi = FALSE
    /\ parsed = "none"
    /\ crashed = FALSE
    /\ saved = NoSave
    /\ steps = 0
    /\ connects = 0

(* populateCustomRoutes(a.config, ne, wf), for Show in Custom mode.  With  *)
(* wf the router's address is fetched if unknown; without one it alerts    *)
(* and lays nothing out.  Rows are created at index num_of_routes with no  *)
(* bound check, so more routes and clients than MAX_SUBNETS panic.         *)
Populate(ne, wf) ==
    \E rip \in IF wf /\ routerip = Empty THEN FetchRouterIp ELSE {routerip},
       k \in IF wf THEN FetchClients ELSE {0} :
        LET rt == loaded.routes
            clients == SubSeq(ClientNets, 1, k)
            n == Len(rt) + k
        IN
        /\ routerip' = rip
        /\ \/ /\ wf /\ rip = Empty
              /\ UNCHANGED <<rows, numRoutes, laid, via0full, crashed>>
           \/ /\ ~(wf /\ rip = Empty)
              /\ n > MaxSubnets
              /\ crashed' = TRUE
              /\ UNCHANGED <<rows, numRoutes, laid, via0full>>
           \/ /\ ~(wf /\ rip = Empty)
              /\ n <= MaxSubnets
              /\ rows' = LaidRows(rows, rt, clients, rip, ne)
              /\ numRoutes' = n
              /\ laid' = n + (IF NewRow(ne, n) THEN 1 ELSE 0)
              /\ via0full' = (via0full /\ laid' = 0)
              /\ UNCHANGED crashed

(* AdminScreen.Show for mode md: only Custom mode lays out the routes.     *)
Show(md, ne, wf) ==
    IF md = "custom" THEN Populate(ne, wf)
    ELSE UNCHANGED <<rows, numRoutes, laid, via0full, routerip, crashed>>

(* MainWindow.ReloadAdmin: reload(1) shows the admin screen again.         *)
ReloadAdmin(md, ne, wf) == Show(md, ne, wf)

\* A step of the user on the live screen.
UserStep ==
    /\ ~crashed
    /\ steps < MaxSteps
    /\ steps' = steps + 1

\* Clicking ADMIN in the menu: reload(1).
Navigate ==
    /\ UserStep
    /\ ReloadAdmin(mode, newentry, wifi)
    /\ UNCHANGED <<mode, newentry, wifi, gateway, dns, file, loaded, parsed,
                   saved, connects>>

\* The radio group's callback: set a.curvpnmode and reload.
SelectMode(md) ==
    /\ UserStep
    /\ mode' = md
    /\ ReloadAdmin(md, newentry, wifi)
    /\ UNCHANGED <<newentry, wifi, gateway, dns, file, loaded, parsed, saved,
                   connects>>

\* newRouteClicked: a.newentry is set, and never cleared.
NewRoute ==
    /\ UserStep
    /\ mode = "custom"
    /\ newentry' = TRUE
    /\ ReloadAdmin(mode, TRUE, wifi)
    /\ UNCHANGED <<mode, wifi, gateway, dns, file, loaded, parsed, saved,
                   connects>>

\* homeRoutesClicked: a.wificlientsroutes is set, and never cleared.
HomeRoutes ==
    /\ UserStep
    /\ mode = "custom"
    /\ wifi' = TRUE
    /\ ReloadAdmin(mode, newentry, TRUE)
    /\ UNCHANGED <<mode, newentry, gateway, dns, file, loaded, parsed, saved,
                   connects>>

(* AdminScreen.saveConfig over the rows rs.  It reads a.subnets[0..        *)
(* entries-1] with entries = num_of_routes, plus one with a.newentry, and  *)
(* panics when that passes the array.  Full VPN takes the gateway from     *)
(* a.subnets[0].via, whichever entry that is now; Custom skips the marked  *)
(* rows and validates the others; a failed check alerts and saves nothing. *)
(* A valid config goes through CommandCallback(SaveConfig) to              *)
(* MainActivity.saveConfig and save_config_to_file.                        *)
SaveConfig(rs) ==
    LET entries == numRoutes + (IF newentry THEN 1 ELSE 0)
        overflow == mode = "custom" /\ entries > MaxSubnets
        kept == SelectSeq([j \in 1..entries |-> rs[j - 1]], LAMBDA r : ~r.marked)
        gw == IF via0full THEN gateway ELSE rs[0].via
        RowOk(r) == /\ r.made
                    /\ ProperSubnet(r.subnet)
                    /\ ValidateVPNIP(r.via)
                    /\ ProperInteger(r.mtu, MIN_MTU, MAX_MTU)
        valid == CASE mode = "full"   -> ValidateVPNIP(gw)
                   [] mode = "custom" -> \A k \in DOMAIN kept : RowOk(kept[k])
                   [] OTHER           -> TRUE
        dnsOk == mode = "semi" \/ \A k \in 1..2 : dns[k] = Empty \/ ProperIp(dns[k])
        es == CASE mode = "full"   -> <<[subnet |-> Empty, via |-> gw, mtu |-> Empty]>>
                [] mode = "custom" -> [k \in DOMAIN kept |->
                                         [subnet |-> kept[k].subnet,
                                          via |-> kept[k].via, mtu |-> kept[k].mtu]]
                [] OTHER           -> <<>>
        ds == IF mode = "semi" THEN <<>> ELSE SelectSeq(dns, LAMBDA t : t # Empty)
    IN
    /\ rows' = rs
    /\ \/ /\ overflow
          /\ crashed' = TRUE
          /\ UNCHANGED <<file, saved>>
       \/ /\ ~overflow
          /\ ~(valid /\ dnsOk)
          /\ UNCHANGED <<file, saved, crashed>>
       \/ /\ ~overflow
          /\ valid /\ dnsOk
          /\ \E written \in WriteConfig :
                /\ file' = IF written THEN MainSaveConfig(mode, es, ds) ELSE file
                /\ saved' = IF written
                              THEN [mode |-> mode, gateway |-> gateway, cfg |-> file']
                              ELSE saved
          /\ UNCHANGED crashed

\* The SAVE button, or Enter in any field.
Save ==
    /\ UserStep
    /\ SaveConfig(rows)
    /\ UNCHANGED <<mode, numRoutes, laid, newentry, wifi, routerip, gateway,
                   via0full, dns, loaded, parsed, connects>>

(* The delete button of row i, confirmed: markedForDeletion is set, then   *)
(* saveConfig.  The mark stays on the row whether or not the save goes     *)
(* through.                                                                *)
Delete(i) ==
    /\ UserStep
    /\ mode = "custom"
    /\ i < laid
    /\ SaveConfig([rows EXCEPT ![i].marked = TRUE])
    /\ UNCHANGED <<mode, numRoutes, laid, newentry, wifi, routerip, gateway,
                   via0full, dns, loaded, parsed, connects>>

\* The user types into a field of a laid-out route row.
EditRow ==
    /\ UserStep
    /\ mode = "custom"
    /\ \E i \in 0..(laid - 1) :
          \/ \E t \in Subnets \cup {Bad} : rows' = [rows EXCEPT ![i].subnet = t]
          \/ \E t \in ViaAddrs \cup {Bad} : rows' = [rows EXCEPT ![i].via = t]
          \/ \E t \in Mtus \cup {Bad} : rows' = [rows EXCEPT ![i].mtu = t]
    /\ UNCHANGED <<mode, numRoutes, laid, newentry, wifi, routerip, gateway,
                   via0full, dns, file, loaded, parsed, crashed, saved, connects>>

\* The user types into the Full VPN "Gateway VPN IP Address" field.
EditGateway ==
    /\ UserStep
    /\ mode = "full"
    /\ \E t \in ViaAddrs \cup {Bad} : gateway' = t
    /\ UNCHANGED <<mode, rows, numRoutes, laid, newentry, wifi, routerip,
                   via0full, dns, file, loaded, parsed, crashed, saved, connects>>

\* The user types into a DNS Server field.
EditDns ==
    /\ UserStep
    /\ mode # "semi"
    /\ \E k \in 1..2, t \in DnsAddrs \cup {Bad, Empty} : dns' = [dns EXCEPT ![k] = t]
    /\ UNCHANGED <<mode, rows, numRoutes, laid, newentry, wifi, routerip, gateway,
                   via0full, file, loaded, parsed, crashed, saved, connects>>

(* Connect: MainActivity.Run on a true trigger reloads m.config from the   *)
(* config directory, the same *config.C the admin screen reads, and Main   *)
(* builds the tun device, whose parseUnsafeRoutes rejects a route within   *)
(* the certificate's network.                                              *)
Connect ==
    /\ ~crashed
    /\ connects < MaxConnects
    /\ connects' = connects + 1
    /\ loaded' = file
    /\ parsed' = IF DeviceRoutesOk(file) THEN "ok" ELSE "rejected"
    /\ UNCHANGED <<mode, rows, numRoutes, laid, newentry, wifi, routerip, gateway,
                   via0full, dns, file, crashed, saved, steps>>

Next ==
    \/ Navigate
    \/ \E md \in Modes : SelectMode(md)
    \/ NewRoute
    \/ HomeRoutes
    \/ EditRow
    \/ EditGateway
    \/ EditDns
    \/ Save
    \/ \E i \in RowIdx : Delete(i)
    \/ Connect

(* The user drives every step and may stop at any time: no fairness.       *)
Spec == AdminInit /\ [][Next]_vars
--------------------------------------------------------------------------------
RouteType == [subnet : Cidrs, via : Addrs, mtu : 0..MAX_MTU]
CfgType == [fullvpn : BOOLEAN, routes : Seq(RouteType), dns : Seq(Addrs)]
RowType == [made : BOOLEAN, subnet : Cidrs \cup {Bad, Empty},
            via : Addrs \cup {Bad, Empty}, mtu : (0..MAX_MTU) \cup {Bad, Empty},
            marked : BOOLEAN]

(* Every variable holds a value of its type; a.num_of_routes and the rows  *)
(* laid out never pass the array.                                          *)
TypeOK ==
    /\ mode \in Modes
    /\ rows \in [RowIdx -> RowType]
    /\ numRoutes \in 0..MaxSubnets
    /\ laid \in 0..MaxSubnets
    /\ {newentry, wifi, via0full, crashed} \subseteq BOOLEAN
    /\ routerip \in FetchRouterIp
    /\ gateway \in Addrs \cup {Bad, Empty}
    /\ dns \in [1..2 -> Addrs \cup {Bad, Empty}]
    /\ file \in CfgType
    /\ loaded \in CfgType
    /\ parsed \in {"none", "ok", "rejected"}
    /\ saved.mode \in Modes \cup {"none"}
    /\ saved.cfg \in CfgType
    /\ steps \in 0..MaxSteps
    /\ connects \in 0..MaxConnects

(* Main's verdict on the loaded routes is the one a reference check gives: *)
(* refused exactly when a route has an MTU below 500 other than 0, or has *)
(* every address inside the certificate's network.  ipWithin decides the *)
(* second by the lowest and the highest address of the route alone.       *)
RouteRefused(cfg) ==
    \E k \in DOMAIN cfg.routes :
        \/ cfg.routes[k].mtu # 0 /\ cfg.routes[k].mtu < 500
        \/ Block(cfg.routes[k].subnet) \subseteq Block(VpnNet)

ParsedMatchesReference ==
    parsed # "none" => (parsed = "rejected" <=> RouteRefused(loaded))

(* When Main refuses the saved routes, the cause is a route lying inside   *)
(* the certificate's network: every other reason parseUnsafeRoutes has   *)
(* (an MTU below 500) is caught by the admin screen's checks in            *)
(* saveConfig before the file is written.                                  *)
RejectedOnlyInsideNetwork ==
    parsed = "rejected" =>
        \E k \in DOMAIN loaded.routes : IpWithin(VpnNet, loaded.routes[k].subnet)

(* A config the admin screen accepted starts the tunnel: the engine never  *)
(* refuses routes that saveConfig validated and reported "Config Saved".   *)
SavedConfigStarts == parsed # "rejected"

(* The GUI never panics: no sequence of clicks indexes a.subnets past      *)
(* MAX_SUBNETS in populateCustomRoutes or saveConfig.                      *)
AdminAlive == ~crashed

(* A Full VPN save writes the gateway the user sees in the "Gateway VPN IP *)
(* Address" field: saveConfig's a.subnets[0].via is that field.            *)
GatewaySaved ==
    saved.mode = "full" => saved.cfg.routes[1].via = saved.gateway
================================================================================
