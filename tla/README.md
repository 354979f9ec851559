# TLA+ models of the homenet tunnel engine

This directory holds TLA+ specifications of the concurrent core of the tunnel
engine under `src/`: the in-tunnel request/response messaging layer, the
initiator side of the handshake manager with an abstract lifecycle it
refines, the index and host-map bookkeeping of handshake completion, the
router's client registry with its files, the desktop activity that starts
and stops the engine, the two event rings, and the admin screen's path from
a saved route setting to the tunnel device that parses it. Each module
is translated from the Go source. `PROJECT.json` maps every definition to the
lines it models, and it lists the runs, the mutants, the findings and the
hazards.

## 1. The system and its parts

| Part | Source | State | Operations | Interacts with |
|---|---|---|---|---|
| Messaging | `messaging.go`, `control.go` (`SendMessage`, `SendNonTunMessage`) | Per peer `MessageManager`: `Seqnum`, `pending[10]`, `recvdmsg[10]`, unbuffered `acked[10]` channels, a mutex | `sendMessage` (request and ACK paths), `Run` (8 s ticker), `recvMessage` | The tunnel (`getOrHandshake`, `sendNoMetrics`); `ProcessMessage` |
| HandshakeManager | `handshake_manager.go`, `inside.go` (`getOrHandshake`), `handshake.go` | Pending and main host maps, each HostInfo's `HandshakeReady`, `HandshakeComplete`, `HandshakeCounter`, `relay` and `remotes`, the timer wheel, the `trigger` channel | `Run`, `NextOutboundHandshakeTimerTick`, `handleOutbound`, `AddVpnIp`, `Complete`, `CheckAndComplete`, `AddIndexHostInfo` | Senders, the UDP reader, the lighthouse, relays |
| Host index maps | `handshake_manager.go` (`AddIndexHostInfo`, `CheckAndComplete`, `Complete`), `inside.go` (`SendMessageToVpnIp`) | Pending and main maps by vpn IP and by local index, the packet store | Index allocation, completion, overwrite of a pending initiator | HandshakeManager, the UDP reader, senders |
| Event rings | `messages/messages.go`, `messaging.go`, `router/router_telemetry.go`, `cmd/nebula/main_activity.go` | A `container/ring` of 8 slots holding `*Event`, and each event's `Active` flag | `newEvent`, `GetNextEvent`, `getNextEvent`, `handleEvents`, `MarkRouterEvent` | The producer is `ProcessMessage` (router events) or telemetry; the consumer is the GUI or the mobile app |
| Router telemetry | `router/router_telemetry.go`, `router/router_server.go` | `RouterClients` (MAC to `*RouterClient`, a repeater's second MAC an alias), `Repeaters`, the client files and the repeater file, `clientsdumped`, the event ring | `processTelemetry`, `processWirelessTelemetry`, `pauseClient`, `pauseAll`, `setClientDetails`, `registerRepeater`, `Run`'s hourly `dumpRouterClients`, `NewTelemetry` | Router agents over HTTP; `handleEvents` of `MainActivity` drains the ring |
| MainActivity | `cmd/nebula/main_activity.go`, `screen/homescreen.go`, `screen/onboardscreen.go`, `screen/routerscreen.go`, `main.go` (`Main`), `control.go` (`Start`, `Stop`, `CloseAllTunnels`, `listHostMap`) | `m.ctrl`, `m.onboarded`, the unbuffered `m.trigger`, `m.Status`, the window's `onboarded` flag | `Run` (boot, trigger, 5 s ticker), `processCommands` (Connect, Disconnect, OnboardClient), `getLinkStatus`, `signcert` | The GUI goroutine or the router's `/signcert` handlers; the engine through `nebula.Main` and `Control`; the router's HTTP server |
| Admin screen and routes | `screen/adminscreen.go`, `screen/screen.go` (`reload`), `cmd/nebula/main_activity.go` (`saveConfig`, `Run`), `overlay/route.go`, `overlay/tun.go`, `nh_util/nh_util.go` | The mode, the fixed `a.subnets[64]` rows, `num_of_routes`, `newentry`, `wificlientsroutes`, the Gateway and DNS fields, the second config file, the loaded config | `NewAdminScreen`, the radio group, New Route, home routes, `Show`/`populateCustomRoutes`, `saveConfig`, delete, `MainActivity.saveConfig`, Connect's reload and `parseUnsafeRoutes` | The user; `MainActivity` through `CommandCallback`; the engine through the config directory |
| Relay forwarding | `relay.go`, `inside.go` (`SendRelay`, `UpdateRelayHostInfo`, `GetABetterRelayServer`) | `relayHostInfo` cache | Forward, choose relay | HandshakeManager (relay fallback) |
| Send path | `inside.go` (`sendNoMetrics`) | ConnectionState `messageCounter` | Atomic increment, encrypt | Everything that sends |
| Control API | `control.go` | none of its own | `CloseTunnel`, `CloseAllTunnels`, `ListHostmap`, `RebindUDPServer`, … | The host maps, Messaging |
| Not modelled | the other screens, `overlay/` device code, `platform/`, `config/` merging, `cert.go`, `nh_cert.go`, `nh_http.go`, `main*.go`, most of `messages/` and `router/` | | | |

Hard behaviours, each in `PROJECT.json` "hazards":
- **Messaging.** A sender blocks on an unbuffered channel under a lock while receive goroutines send the wake-ups. Wake-up and data are published in two separate steps, and the lock is held across an 8 s timeout.
- **Handshakes.** Three goroutine kinds share the pending map. There are two wake-up sources (the wheel and the trigger), and the relay escalation has three thresholds (`retries`, `2·retries`, `3·retries`).
- **Event rings.** A ring pointer is advanced in one ring and not in the other.
- **Admin screen.** One Go array slot is shared by two widgets, the rows are indexed with no bound check, and a route the screen accepts is parsed again, with a different check, by the engine on the next Connect.
- **Router telemetry.** `registerRepeater` takes no lock while the other handlers lock, `pauseAll` stops at the first failed save, and the files must survive a restart although `Lastseen` is refreshed without marking the client dirty.

## 2. Modules

### `Messaging.tla` (`MC_Messaging.tla`)

A set of nodes. Each ordered pair has its own `MessageManager`, on the sending side.

- **Variables.** `seq`, `pending` and `recvdmsg` are the manager's fields. `ready` is the tunnel's `ci.ready`. `appPc`, `appTry`, `appReq` and `appResult` are the `Control.SendMessage` caller inside `sendMessage`. `net` is a bag of datagrams, each carrying the MH header fields. `ackSenders` is a bag of the `go sendMessage(..ACK..)` goroutines, and `ackRecv` a bag of the `recvMessage` goroutines that block on `acked[]`. `lost` and `dropped` are history.
- **Request path.**
  - `SendMessage`: the lock, `ci.ready`, `pending[Seqnum] = true` and the first transmission.
  - `SendMessageNotReady`: "Host not ready".
  - `Handoff`: the channel rendezvous in `Run`.
  - `Timeout`: the ticker fires. It retransmits, or after the third attempt returns "Message not sent".
  - `CompleteSend`: lines 171–181.
- **Receive path.**
  - `RecvAck` and `RecvRequest`: the two branches of `recvMessage`.
  - `StoreReply`: line 204, which runs after the handoff.
  - `SendAck` and `SendAckNotReady`: the ACK path of `sendMessage`. It needs the same lock, which the caller holds while its exchange lasts; the guard `appPc = "idle"` is that lock.
- **Environment.** `Lose` (a lost datagram) and `TunnelReady`.
- **Timeout.** The ticker (8 s) is far longer than a round trip, so `Timeout` is enabled only when no goroutine step is (`~ENABLED Progress`).

### `HandshakeManager.tla` (`MC_HandshakeManager.tla`)

One node's initiator side.

- **Variables.** `pending` and `main` map each vpn IP to a HostInfo id or `None`. `hi` holds the HostInfo records. `wheel` is a bag of vpn IPs: the timer wheel without its delays, where a purge may return any entry. `trigger` is the bounded channel. `hm` is the manager goroutine, in `handleOutbound` under the HostInfo lock or idle. `snd` is a sender inside `getOrHandshake`.
- **The manager loop.**
  - `Purge` and `Triggered`: the two `select` cases of `Run`, up to the pending lookup.
  - `HandleOutbound`: the locked body. Each path is an operator:
    - `OutboundComplete`: the handshake raced to completion.
    - `OutboundNotReady`: no stage-1 packet yet.
    - `OutboundRelay`: relay fallback. It gives up when no remotes are known, returns on a `SendRelay` error (possible only when `RelayCanFail`), and otherwise counts the attempt, abandons at `3·retries` and re-adds.
    - `OutboundDirect`: the lighthouse give-up (without a `return`), the trigger early return, `QueryCache`, the transmission to every remote, and the counter and wheel updates.
- **Senders.**
  - `SenderLookupMain`: `getOrHandshake` finds no tunnel in the main map.
  - `SenderLookupPending`: the pending lookup, or `AddVpnIp`.
  - `SenderStage0`: `ixHandshakeStage0` under the lock, and the non-blocking trigger send for a static host.
- **The peer.**
  - `Stage2`: the reply completes the handshake and `Complete` moves the HostInfo to main.
  - `Stage2TearDown`: the reply is rejected.
- **The lighthouse.** `LighthouseReply` fills in the remotes and sends a trigger.
- **The user.** `CloseTunnel` (`Control.CloseTunnel`).
- **History.** `fate` records what became of each HostInfo.

### `EventRing.tla`

Both rings, selected by the constant `Variant`.

- **Variables.** `slot` holds the ring's values and `head` the `*ring.Ring` its owner holds. `active` is the set of events whose `Active` flag is set. `rd` is the event `handleEvents` holds between `getNextEvent` and `MarkRouterEvent`. `delivered` is history.
- **`messages` variant.** `NewEventMsg` does not move `head`, because `messages.newEvent` advances only its parameter. `GetNextEventMsg` marks the event inactive on read.
- **`telemetry` variant.**
  - `NewEventTel` advances `head`.
  - `GetNextEventTel` returns the first active event and leaves it active.
  - `HandleEventTel` sends the event and marks it inactive on success, or keeps it active if every send failed.

### `MainActivity.tla` (`MC_MainActivity.tla`)

The client's activity. Callers run `processCommands`; the `Run` goroutine
starts and stops engines. The constant `Build` picks who the callers are:

- `"desktop"`: the Fyne GUI goroutine, the one caller. Before onboarding it
  submits the onboarding form (`OnboardSubmit`), after it the home screen's
  Connect/Disconnect button.
- `"router"`: every POST to `/signcert` runs `MainWindow.signcert` in an HTTP
  handler goroutine of its own, so `Callers` has several members. There is
  no button.

- **Variables.** `ctrl` is `m.ctrl`; `eng` says which engines `nebula.Main`
  built and whether they run; `up` holds the engines with a tunnel in their
  main host map; `shown` is `m.Status`, which the button reads; `onboarded` is
  `m.onboarded` and `mwOnb` the window's flag, which decides whether the form
  or `/signcert` is still accepted; `pc` is each caller's place in
  `processCommands`, and the callers whose `pc` is a send are those blocked on
  the unbuffered `m.trigger`; `run` is the `Run` goroutine; `served` says the
  router's HTTP patterns are registered and `crashed` that a goroutine
  panicked. `Next` is disabled once `crashed` holds.
- **Engine.** `DoMain` is `m.Main` with `Run`'s `Start`: `nebula.Main` first
  creates the `RouterServer` and starts `StartRouterServer`, which on a router
  registers `/telemetry` and the other patterns on the default mux, and
  panics if they are already there; then `NebulaMain` yields a new engine or
  nil, `ControlStart` runs it, and `m.ctrl` is overwritten. `ControlStop` is
  `Control.Stop` with its `CloseAllTunnels`.
- **Run.** `Boot` connects an onboarded client. `RecvTrigger(c)` completes
  one blocked sender: false stops `m.ctrl` (`StopCtrl`), true (Connect or
  OnboardClient) leads to `RunMain`. `Tick` refreshes `m.Status` only while
  `m.ctrl` is set.
- **Callers.** `Confirm` is `processCommands` for the button (`ButtonCmd`),
  enabled only while `ButtonShown` holds: `HomeScreen.Show`, rebuilt from
  `m.Status` on every 5 s tick, shows the button only for "connected" or
  "disconnected" (`homescreen.go:237-244`). It models the live `LinkStatus`, the refusal rules and the send. `LinkStatus` keeps
  `getLinkStatus`'s branches as they behave: `listHostMap` never returns nil,
  so "in progress" never appears. `Signcert` is the `onboarded` check of
  `signcert` and `OnboardSubmit`; `Onboard` is `OnboardClient` up to its send,
  with `SignClientCerts` and `GenerateConfig` each succeeding or failing;
  `OnboardDone` sets both flags after the send, as `OnboardClient` and
  `MainWindow.Onboarded` do.
- **Peers.** `TunnelUp` and `TunnelDown`.

### `HandshakeLifecycle.tla`

What the manager promises of each handshake, apart from scheduling (spec
§4.4): `none → created → built → Sent(n) → complete | rejected | abandoned`.
`n` counts attempts; the first `Retries` are direct, the rest relayed, and the
`3·Retries`-th abandons. `GiveUp` abandons a handshake with nobody to relay to;
because `handleOutbound` has no `return` after deleting a lighthouse
(the missing `return` under Findings), that step may also make one last attempt. `LateAttempt` is an
attempt made by a `handleOutbound` that looked the HostInfo up in pending
before it ended (a tear-down between `handleOutbound`'s pending lookup and
its HostInfo lock, `handshake_manager.go:109`, transmits once more; the
refinement allows it, and no separate run states it). `HandshakeManager.tla` defines `Life == INSTANCE
HandshakeLifecycle WITH hs <- …`, mapping each HostInfo's `fate`, `ready`,
`counter`, `sent` and relay flag to the abstract record, and the handshake run checks
`RefinesLifecycle == Life!Spec` as a PROPERTY.

### `HostIndex.tla` (`MC_HostIndex.tla`)

The responder and completion side: the index allocation and the two host maps
of `handshake_manager.go` (`AddIndexHostInfo`, `CheckAndComplete`,
`Complete`), with the sender's packet cache of `inside.go`.

- **Variables.** `pHosts`/`pIdx` and `mHosts`/`mIdx` are the pending and main
  maps by vpn IP and by local index, as partial functions. `hi` holds each
  HostInfo (role, vpn, index, peer time stamp, stage-1 packet, `ready`,
  `phase`, and the history `fate`). `net` is a set of handshake messages, so
  they may be delayed, reordered and duplicated. `clock` stamps the peers'
  messages; `snd`, `sends` and `pkts` are the senders and their cached packets;
  `best` is the newest time stamp completed per peer (history).
- **Index allocation.** `GenerateIndex` draws any non-zero index;
  `AddIndexHostInfo` retries while the index is used in either map and gives
  up when the space is full (`IndexSpaceFull`).
- **Our side.** `SendLookupMain`, `SendLookupPending`, `SenderStage0`,
  `CachePacket` (the `queueLock` branch of `SendMessageToVpnIp`), `RecvStage2`
  (the reply completes or tears down), `Abandon` and `CloseTunnel`.
- **The peer's side.** `PeerInitiate` sends a stamped stage 1, `PeerReply`
  answers ours, `RecvStage1` builds a responder HostInfo; `CheckAndComplete`
  applies the code's checks in its order (already seen, existing newer, main
  index collision, pending index collision, pending initiator without
  overwrite) and on success replaces the pending initiator and the old main
  entry.
- **Spec-modelled parts.** `hostmap.go` and `handshake_ix.go` are not in the
  repository, so the stage-1/2 handlers of the peer (`PeerInitiate`,
  `PeerReply`, `RecvStage1`) and `Fresh` follow spec §4.4.

### `RouterTelemetry.tla` (`MC_RouterTelemetry.tla`)

The router's client registry, with the telemetry ring as `Ring == INSTANCE
EventRing WITH Variant <- "telemetry"`, its variables shared.

- **Variables.** `rc` is `RouterClients`: each key maps to the MAC of the
  client object, so an alias key maps to another MAC. `cl` holds the objects
  (`paused`, `dirty`, `age`), `files` the client files (`paused`, `age`),
  `reps` the keys of `Repeaters`, `repFile` the keys the repeater file reads
  back as. `due` says an hour has passed since `clientsdumped`. `reg` holds
  each `registerRepeater` handler's step and request. `dmp` holds the
  `dumpRouterClients` loop of each caller (`Run`, or a registration): the
  keys it has still to visit, and the client it has marshalled and not yet
  written, with the bytes it marshalled. `pa` holds the `pauseAll` loop.
  `pauses` counts `pauseAll` calls, bounded by `MaxPauses`.
- **Time.** The code only compares `now - Lastseen` with a week (`<`, `>=`
  and `>`), so each client and file keeps its age in hours, capped at
  `Week + 1`. A `Lastseen` of 0 (a client `createClient` made and nobody has
  seen) is that cap. `Tick` ages everything and happens only after the hourly
  dump, because `Run`'s ticker is 30 s.
- **Write-locked handlers, one step each.** `ProcessTelemetry` (a blocked-IP
  event for a known client, `createClient`, then `Lastseen`),
  `UpdateWireless`, `PauseClient` and `SetClientDetails` (through
  `ChangeClient`: change, then `dumpClientStats`) and `GetNextEvent` hold
  `tel.Lock`. `Unlocked` is their guard: a `sync.RWMutex` writer waits for
  every reader. `dumpClientStats` writes the file of a client younger than a
  week and otherwise removes it, failing when there is no file (`StatsFail`).
- **Read-locked loops, one step per client.** `dumpRouterClients` and
  `pauseAll` hold only `tel.RLock`, so they run beside each other and beside
  `registerRepeater`. A dump is `RunDump` or `RegDump` (start), `DumpMarshal`
  (visit a key in any map order; a client under its own MAC that is dirty or
  more than a week old is marshalled), `DumpWrite` (the marshalled bytes are
  written or the file removed, and `Dirty` cleared whatever the error) and
  `DumpEnd` (`Run` sets `clientsdumped`; a registration returns).
  `pauseAll` is `PauseStart`, `PauseStep` (set `Paused`, then save; the first
  failed save returns before the platform `pauseAll`) and `PauseEnd`.
- **`registerRepeater`, unlocked.** `RegCheck` (the `len` check), `RegWrite`
  (the insert), `RegSave` (`RepeatersJson` and the file; a map larger than
  the slice panics the handler, and blank entries fill the rest),
  `RegClient` (`createClient` with the alias) and `RegDump`, which enters
  `dumpRouterClients`.
- **Consumer and restart.** `GetNextEvent` and `HandleEvent` drive the ring.
  `Restart` is `NewTelemetry`: `ReadClientDetails` and `ReadRepeaterInfo`
  rebuild the maps from the files, the ring is new and handlers are gone.
- **Left out.** Names, IPs, types and signal data: `paused` stands for what
  the user sets. The DNS and blocklist scripts and the read-only handlers.

### `AdminScreen.tla` (`MC_AdminScreen.tla`)

The ADMIN screen of the desktop GUI and the path of what it saves.

- **Addresses.** An address is a `W`-bit number and a CIDR a record
  `[ip, len]`. `InNet` is `net.IPNet.Contains`; `IpWithin` is `ipWithin`,
  computing the highest address with Bitwise `|` as the code ORs in the
  inverted mask. A field's text is a typed value, `Bad` (does not parse) or
  `Empty`; the `nh_util` validators and `ValidateVPNIP` test that.
- **State.** `mode` is `a.curvpnmode`; `rows` is the fixed `a.subnets`
  array, each row with `made` (its entries exist), the subnet, via and MTU
  texts and `markedForDeletion`; `numRoutes` and `laid` are the rows of the
  last layout; `newentry` and `wifi` are the two flags the buttons set and
  nothing clears; `gateway` is the Full VPN field's text and `via0full` says
  whether `a.subnets[0].via` is still that field; `dns` the two DNS fields;
  `file` the second config file; `loaded` what `m.config` held at the last
  `Load`; `parsed` Main's verdict on its routes; `crashed` a panic; `saved`
  a history of the last save that reached the file.
- **Actions.** `AdminInit` is `NewAdminScreen` as `StartMainWindow` builds
  it, from any starting config. `Navigate`, `SelectMode`, `NewRoute` and
  `HomeRoutes` each end in `ReloadAdmin`, whose `Show` runs
  `populateCustomRoutes` in Custom mode: the loaded routes, then the
  router's WiFi clients at index `num_of_routes` with no bound check (past
  `MAX_SUBNETS` it panics), then the New Route row unless the array is full.
  `Save` and `Delete(i)` run `SaveConfig`: the overflow panic, each mode's
  validation with its early returns, then `MainSaveConfig` (dedup by subnet
  text, the Full VPN default route) and a write that may fail. `Connect` is
  `Run`'s true trigger: `Load` and `parseUnsafeRoutes` against the
  certificate's network. `EditRow`, `EditGateway` and `EditDns` are the
  user typing, and model no code.
- **Left out.** Names, widget geometry and alerts' wording. Router and
  client lookups are their answers: an address or none, and 0 to all the
  clients.

### Further work

- `SendPath`: the AEAD counter and its width.
- `RemoteIndexes` and the responder's own pending-index clean-up, whose caller
  (`ixHandshakeStage1`) is not in the repository.

## 3. Runs

| Run | cfg | Expect | What it shows |
|---|---|---|---|
| messaging | `MC_Messaging.cfg` | pass | Every `sendMessage` call returns, whatever the peer and the network do (`RequestTerminates`). |
| messaging_reply | `MC_Messaging_ReplyMatchesRequest.cfg` | violation | A successful `sendMessage` can return a reply that does not answer its own request. |
| handshake | `MC_HandshakeManager.cfg` | pass | With `SendRelay` succeeding: <ul><li>the manager refines `HandshakeLifecycle` (`RefinesLifecycle`);</li><li>every pending HostInfo is scheduled (`WheelCoversPending`);</li><li>a handshake with known remotes is abandoned only at `3·retries` after relaying (`AbandonAtRelayExhaustion`);</li><li>every handshake resolves (`PendingResolves`).</li></ul> |
| handshake_relay_error | `MC_HandshakeManager_PendingResolves.cfg` | violation | A `SendRelay` error leaves the handshake pending forever. |
| hostindex | `MC_HostIndex.cfg` | pass | <ul><li>an index names one HostInfo across pending and main (`IndexUnique`);</li><li>`mHosts` and `mIdx` agree (`MainIndexConsistent`);</li><li>the tunnel in main is the newest one completed for its peer (`LatestWins`), however stage-1 messages are duplicated or reordered.</li></ul> |
| telemetry | `MC_RouterTelemetry.cfg` | pass | With the handlers, the hourly dump and `pauseAll` running per client under the read lock, a registration and a restart, the telemetry ring: <ul><li>delivers oldest first and at most once (`TelDeliveredOldestFirst`);</li><li>overwrites an unread event only when full, the third event of a lifetime reusing the first one's slot (`TelNoUnreadOverwritten`).</li></ul> |
| telemetry_settings_lost | `MC_RouterTelemetry_ClientSettingsDurable.cfg` | violation | A client seen again after a week is never saved again, so a restart forgets it. |
| mainactivity_orphan_engine | `MC_MainActivity_EngineReachable.cfg` | violation | Connect is accepted while the engine started at boot has no tunnel; the second `nebula.Main` replaces `m.ctrl` and the first engine runs on out of reach. |
| mainactivity_router_crash | `MC_MainActivity_ProcessAlive.cfg` | violation | On a router two `/signcert` requests both onboard; `Run` calls `nebula.Main` twice and the second `RouterServer`'s duplicate HTTP registration panics the process (`ProcessAlive`). |
| hostindex_packet_loss | `MC_HostIndex_NoCachedPacketLost.cfg` | violation | A packet cached on a pending initiator is lost when the peer's stage 1 wins the race and replaces it. |
| adminscreen | `MC_AdminScreen.cfg` | pass | From a Semi, Full or Custom config, through any mode changes, edits, New Route, home routes, deletes, saves (some failing) and a Connect: <ul><li>Main refuses the loaded routes exactly when a reference check on their address blocks does (`ParsedMatchesReference`);</li><li>a route inside the certificate's network is the only thing the screen lets through that Main refuses (`RejectedOnlyInsideNetwork`).</li></ul> |
| adminscreen_gateway | `MC_AdminScreen_GatewaySaved.cfg` | violation | A Full VPN save writes the hidden custom row's via, not the Gateway field the user edited (`GatewaySaved`). |

Every property of a passing run has a mutant in `PROJECT.json`: a plausible bug in the mapped code that makes TLC report the property violated.

### Findings

1. **The reply is published after the wake-up** (`messaging.go:203-204`). The sender reads `recvdmsg` before the receive goroutine stores it, and returns a stale or empty reply as success. A late ACK from an abandoned attempt also wakes the next request on the same `Seqnum`.
2. **Stuck handshake** (`handshake_manager.go:171-178`). When `SendRelay` errors, for example because no relay host is known, the HostInfo is neither rescheduled nor deleted. Every later packet to that peer finds it in pending and does nothing. The spec (§7, and the state machine of §4.4) says exhaustion abandons the attempt and the next packet starts over.
3. **Cached packet lost** (`inside.go:235`). `SendMessageToVpnIp` caches the packet on the HostInfo `getOrHandshake` returned once it sees it is not ready, without checking that it is still pending. If the peer's stage 1 has meanwhile replaced it (`CheckAndComplete` with overwrite), the packet stays on a discarded HostInfo and is never sent.
4. **Settings lost after a week away** (`router/router_telemetry.go:281`). `processTelemetry` refreshes `Lastseen` without setting `Dirty`. The trace: a client is seen and saved; after a week unseen, a `setClientDetails` (or the hourly dump) removes its file; the client comes back, fresh and clean, and no dump writes it again, so a restart forgets its settings.
5. **Orphaned engine** (`cmd/nebula/main_activity.go:775`). `Run` calls `m.Main` on every true trigger without stopping the Control in `m.ctrl`. `processCommands` accepts Connect whenever the live status is not connected, and an engine without a tunnel is reported as disconnected. The trace: the client connects at boot and no tunnel comes up; the 5 s refresh shows the status as disconnected, so `HomeScreen.Show` offers the Connect button; the user presses it, and `nebula.Main` runs again. The first engine keeps running while `m.ctrl` names the second, or nil if `Main` failed, so neither Disconnect nor closing the window stops it.
6. **Router dies on a second onboarding** (`screen/routerscreen.go:39`). `signcert` refuses a request only when the window's `onboarded` flag is set, and `OnboardClient` sets it only after the signing round trip, the configuration write and `Run`'s receive on `m.trigger`. A second `/signcert` served in that window onboards again. `Run` calls `nebula.Main` again; its `go rs.StartRouterServer()` (`main.go:39`) calls `http.HandleFunc("/telemetry", ...)` on the default mux a second time, which panics in that goroutine and ends the process. The trace: `r1` passes the check, signs and is received; `r2` passes the check before `r1` sets the flag, signs and is received; the second `Main` crashes.
7. **The Gateway field is not what is saved** (`screen/adminscreen.go:187`). `populateFullVPNRoute` makes the Gateway field `a.subnets[0].via`, but `NewAdminScreen` then runs `populateCustomRoutes`, whose `createObjects(0)` puts the hidden custom row's entry in that slot whenever the loaded config has a route, as every Full VPN config does. The trace: start from a Full VPN config through 4; type text that is not an address into the Gateway field; SAVE. `saveConfig` validates and writes the hidden entry's 4 and reports "Config Saved"; the user's gateway is never read, valid or not.

These disagreements are stated by properties that no run checks, because the project keeps one run per question:

- **A dump writes a stale pause setting** (`router/router_telemetry.go:147`). `dumpRouterClients` and `pauseAll` both hold only the read lock. `SavedPauseMatches` in `RouterTelemetry.tla` says a clean client's `Paused` is the one in its file. With `MC_RouterTelemetry.cfg`'s constants and it as the only invariant, TLC finds it violated in seven steps: a new client is dirty; the hourly dump marshals it; `pauseAll` sets `Paused` and saves the file; the dump writes the bytes it marshalled before and clears `Dirty`. The file keeps the old setting and no later dump writes it, so a restart loses the pause.

- **The lock is held across the retries** (`messaging.go:128`). The ACK to a peer's request needs the lock that our own pending request holds for up to 24 s, so two peers requesting each other at once both fail with no packet lost. `NoFailureWithoutLoss` in `Messaging.tla` states it; with `MC_Messaging.cfg`'s constants and it as the invariant, TLC finds it violated.
- **The ring never advances** (`messages/messages.go:258`). `newEvent` advances its parameter, a copy of the ring pointer, so every event overwrites the last. `NoUnreadOverwritten` in `EventRing.tla` states it; with `N = 3`, `MaxEvents = 2`, `Variant = "messages"` and it as the `PROPERTY` of `Spec`, TLC finds it violated when the second event arrives.
- **A saved route that Main refuses** (`screen/adminscreen.go:207`). `saveConfig` checks a custom route's via against the certificate's network but not its subnet, so it saves a route inside the network and says "Config Saved"; the next Connect's `parseUnsafeRoutes` refuses it and Main fails. `SavedConfigStarts` in `AdminScreen.tla` states it; TLC finds it violated under `MC_AdminScreen.cfg` in three steps (edit, save, Connect).
- **The admin screen panics at `MAX_SUBNETS`** (`screen/adminscreen.go:166`, `:400`). With New Route clicked and the routes and home-network clients filling the array, `saveConfig` reads `a.subnets[MAX_SUBNETS]`. `AdminAlive` states it; under `MC_AdminScreen.cfg` TLC finds it violated: a Custom config with one route, New Route, Add Routes To My Home Network (one client fills the two rows), SAVE.

- **Missing `return`** (`handshake_manager.go:197-200`). For a lighthouse past its retries `handleOutbound` deletes the HostInfo from pending but goes on: it still transmits stage 1 and re-adds a wheel entry, and the reply can no longer be matched in pending. `NoSendAfterGiveUp` in `HandshakeManager.tla` states it; with `Retries = 1` and `NoSendAfterGiveUp` as the invariant TLC finds it violated.
- An ACK that arrives after its sender timed out also blocks its receive goroutine on the unbuffered channel (`messaging.go:203`). `AckReceiversTerminate` in `Messaging.tla` states this, and the model violates it, but no run checks it; finding 1 covers the same late ACK.

## 4. Bounds

- **`MC_Messaging`.** Two nodes and `MAX_MESSAGES_PER_IP = 2` slots, so the `Seqnum` wrap and the "no free slot" case are reached. Retries are 3, as in the code. Request budget: 2 from `a` to `b` and 1 back, so crossing requests and slot reuse both happen. At most one datagram is lost. 137k distinct states.
- **`MC_HandshakeManager`.** A lighthouse `L`, also static, and an ordinary peer `P`. Retries 2, so both the `2·retries` and the `3·retries` thresholds are crossed. Trigger buffer 1, so the buffer can be full. Two HostInfo objects, so one handshake per peer or two in a row to one peer. 419k distinct states in about 2.5 min, with the refinement property.
- **`MC_HostIndex`.** Two peers, one of which wins handshake races (`Overwrite`), so both outcomes of a pending-initiator collision occur. Three HostInfos and only two index values, so index collisions, retries and a full index space are all reached. `MaxTime = 3` stamped peer messages, enough for a duplicated old stage 1 to arrive after a newer tunnel. Two sends. 2.8M distinct states in about 50 s.
- **`MC_MainActivity`.** Two calls of `nebula.Main` (`MaxMains`) and two commands (`MaxCmds`): the fewest that reach a second engine on the desktop (boot, then one Connect) and two onboardings on a router (two `/signcert` requests). Desktop callers `{gui}`; router callers `{r1, r2}`, two handler goroutines, the fewest that race. The violations are found at 56 and 137 distinct states.
- **Violation runs.** These use `retries = 1` to keep the traces short.
- **`MC_RouterTelemetry`.** Two devices, so a repeater with a second MAC and an alias exist. One registration with room for two repeaters, so the repeater file gets a blank entry that the restart reads back. `Week = 1`: ages 0, 1 and 2 are the three cases the code tells apart (younger than a week, a week, more than a week). Two calls of the write-locked handlers (`MaxCalls`) and one `pauseAll` (`MaxPauses`): with the registration that is three events in one process lifetime, so with two ring slots the third reuses the first one's slot. One restart. Symmetry over the devices. 1.98M distinct states in about 2.5 min. The dump, `pauseAll` and the registration's own dump can all be in flight at once. The violation run has three handler calls, no registration and no `pauseAll`, so that its trace is the week-away path of finding 4 rather than the dump race.
- **`MC_AdminScreen`.** Three-bit addresses; the certificate's network is 4/2. The user may type a subnet outside it (0/1), straddling it (4/1, whose lowest address is inside and highest outside) and inside it (4/3), a via inside and outside it, and an MTU in range or below the engine's 500. `MAX_SUBNETS` is 2 and the router has one client, so one route and one client fill the array. Five user steps and one Connect. 568k distinct states in about 35 s.

## 5. Fairness

**Messaging**
- Goroutine steps are weakly fair: Go's scheduler runs runnable goroutines.
- The ticker's `Timeout` is weakly fair.
- Nothing is assumed of the caller, of losses or of tunnel readiness.

**HandshakeManager**
- The purge is **strongly** fair. `Run` selects between the 110 ms ticker and the trigger channel, and Go picks uniformly among ready cases, so a tick that is repeatedly ready is taken.
- `handleOutbound` and the sender steps are weakly fair.
- Nothing is assumed of the peer's reply, the lighthouse or the user.

**EventRing**, **RouterTelemetry**, **HostIndex** and **AdminScreen** (whose every step is the user's) have no liveness property: their runs check safety, and `CHECK_DEADLOCK FALSE` because every bounded budget is eventually spent.

**Refinement.** `RefinesLifecycle` is a safety refinement (`[][Next]_hs`); it needs no fairness of its own.

## 6. Abstractions and what is left out

- **Messaging:** payloads are records naming the request, and a reply is a function of its request. Checksums are not modelled: `recvMessage` discards corrupt data, which is equivalent to a loss. `getOrHandshake` returns nil only on a lighthouse with network id 0 or for an address with no route; the modelled peers are neither, so the "Can't reach the host" return of `sendMessage` (`messaging.go:143-145`) is not reached.
- **HandshakeManager:**
  - Delays of the wheel are not modelled; any entry may be purged next.
  - `remotes` is `nil`, `empty` or `some`.
  - The relay is one attempt that succeeds or, if `RelayCanFail`, errors.
  - Network IDs are one.
  - Lighthouse replies are bounded to the one that brings the addresses. Repeated replies before the stage-1 packet is built each add a wheel entry (hazard at `handshake_manager.go:134`), which the model does not bound.
- **HostIndex:** the peer is a spec-level handshake partner; keys, certificates and `RemoteIndexes` are left out, and a stage-1 packet is its time stamp.
- **RouterTelemetry:**
  - `registerRepeater` writes the maps with no lock while a read-lock holder may range over them, a Go data race. The model interleaves its steps with the loops' per-client steps.
  - A loop's range visits the keys present when it starts; keys a registration adds meanwhile are not visited.
  - An hour passes (`Tick`) only while no loop and no registration is in flight. `dumpRouterClients` judges every client by the `curtime` it reads at its start. `pauseAll` and `registerRepeater` finish within milliseconds, and the model does not let an hour boundary fall inside them.
  - `dumpClientsJson` and its 128-entry slice are read-only.
- **MainActivity:** an engine's host map is whether it holds a tunnel, so `CloseAllTunnels` is one step; its iteration of the map without the lock, racing handshakes, is not modelled. `nebula.Main` is its outcome only. The signing request, the rendered configuration and the file write are their success or failure.
- **AdminScreen:** addresses are IPv4 cut to `W` bits; IPv6, for which `ipWithin` answers false, is left out. The engine reads the second config file's tun settings as written: the file names (`GetConfigFileName`, `GetConfigFileNameSecond`), `newConfig` and the YAML types are not in the repository, and `config.parse` merges the directory's files with `mergo.Merge` and no override, so which file's `tun` keys win depends on names not in the repository; the model assumes the saved settings take effect. Main's other failures (gateway discovery for Full VPN) are in `MainActivity`. RESET removes the files and exits the process, and is not modelled.
- **Relay selection** (`inside.go:337`, `relay.go`) is not modelled. `f.relayHostInfo` is set only while nil and never cleared in the repository; whether a dead relay is ever replaced depends on `closeTunnel`, the `HostMap` and the HostInfo's `remote`, which are not in the repository, so a model of it would be a guess. `HandshakeManager` keeps `SendRelay` as success or error (`RelayCanFail`).
- **Not yet modelled:** the AEAD counter.
- **`NH_checksum`** (`nh_util/nh_util.go`) is a byte sum into a 32-bit word. Payloads are at most 9000 bytes, so the sum is below 9000·255 < 2^32 and never wraps; a one-byte change alters it by `d` or `256·d` with `0 < |d| < 256`, so it always changes. No model is needed for that argument, and the module was not kept.
- **Out of scope:** the screens other than ADMIN and the home and onboarding buttons, the overlay's device and route-table code, platform, configuration merging and certificate code, which is I/O without shared concurrent state.
