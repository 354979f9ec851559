-------------------------- MODULE HandshakeManager --------------------------
(***************************************************************************)
(* The initiator side of the tunnel handshake of one node, for one network *)
(* (src/handshake_manager.go, getOrHandshake in src/inside.go).            *)
(*                                                                         *)
(* Three kinds of goroutine share the pending and main HostMaps:           *)
(*  - the HandshakeManager loop (Run): each timer-wheel purge or trigger   *)
(*    runs handleOutbound, which looks the peer up in the pending map and  *)
(*    then, under the HostInfo lock, retries, falls back to a relay or     *)
(*    gives up;                                                            *)
(*  - senders (getOrHandshake, called for every outbound packet): look in  *)
(*    the main map, then find or create the pending HostInfo (AddVpnIp),   *)
(*    then build the stage-1 packet under the HostInfo lock (stage 0);     *)
(*  - the UDP reader: the peer's stage-2 reply completes the handshake and *)
(*    Complete moves the HostInfo from pending to main.                    *)
(*                                                                         *)
(* A HostInfo is an element of HostIds, allocated once; pending and main   *)
(* map a vpn IP to the HostInfo they hold.  The timer wheel is abstracted  *)
(* to the bag of vpn IPs it holds: a purge may return any of them (its     *)
(* delays are not modelled).  The trigger channel is a bounded FIFO.       *)
(***************************************************************************)
EXTENDS Naturals, Sequences, Bags, BagsExt

CONSTANTS
    Peers,          \* vpn IPs this node sends to
    Lighthouses,    \* c.lightHouse.IsLighthouseIP
    Statics,        \* f.lightHouse.staticList: hosts with a static address
    Retries,        \* config.retries
    TriggerBuffer,  \* config.triggerBuffer: capacity of the trigger channel
    HostIds,        \* bound: HostInfo objects ever created
    RelayCanFail,   \* whether SendRelay may return an error
    None

ASSUME Lighthouses \subseteq Peers /\ Statics \subseteq Peers
ASSUME None \notin HostIds

VARIABLES
    pending,  \* pendingHostMap.Hosts: vpn IP -> HostInfo or None
    main,     \* mainHostMap.Hosts: vpn IP -> HostInfo or None
    hi,       \* the HostInfo objects: HostIds -> record (see HostInfoRec)
    wheel,    \* OutboundHandshakeTimer: bag of vpn IPs
    trigger,  \* the trigger channel: sequence of vpn IPs
    hm,       \* the HandshakeManager goroutine
    snd       \* per vpn IP, a goroutine inside getOrHandshake

vars == <<pending, main, hi, wheel, trigger, hm, snd>>

\* remotes: "nil" before the lighthouse cache was queried, "empty" or "some"
\* addresses after.  fate is history: what became of the handshake.
HostInfoRec ==
    [vpn : Peers, used : BOOLEAN, ready : BOOLEAN, complete : BOOLEAN,
     counter : 0 .. 3 * Retries, relay : 0 .. 1, sent : BOOLEAN,
     remotes : {"nil", "empty", "some"},
     fate : {"pending", "complete", "rejected", "abandoned"}]

FreshHostInfo(v) ==
    [vpn |-> v, used |-> TRUE, ready |-> FALSE, complete |-> FALSE,
     counter |-> 0, relay |-> 0, sent |-> FALSE, remotes |-> "nil",
     fate |-> "pending"]

HmStates ==
    [pc : {"idle"}] \cup
    [pc : {"lock"}, vpn : Peers, id : HostIds, trig : BOOLEAN]
SndStates ==
    [pc : {"idle", "pend"}] \cup [pc : {"lock"}, id : HostIds]

TypeOK ==
    /\ pending \in [Peers -> HostIds \cup {None}]
    /\ main \in [Peers -> HostIds \cup {None}]
    /\ hi \in [HostIds -> HostInfoRec]
    /\ IsABag(wheel) /\ BagToSet(wheel) \subseteq Peers
    /\ trigger \in Seq(Peers) /\ Len(trigger) <= TriggerBuffer
    /\ hm \in HmStates
    /\ snd \in [Peers -> SndStates]

Init ==
    /\ pending = [v \in Peers |-> None]
    /\ main = [v \in Peers |-> None]
    /\ hi = [h \in HostIds |-> [FreshHostInfo(CHOOSE v \in Peers : TRUE)
                                    EXCEPT !.used = FALSE]]
    /\ wheel = EmptyBag
    /\ trigger = << >>
    /\ hm = [pc |-> "idle"]
    /\ snd = [v \in Peers |-> [pc |-> "idle"]]

\* A non-blocking send on the trigger channel ("select ... default:").
TrySendTrigger(v) ==
    IF Len(trigger) < TriggerBuffer THEN Append(trigger, v) ELSE trigger

\* DeleteHostInfo on the pending map: removes this HostInfo if it is there.
PendingWithout(h) ==
    IF pending[hi[h].vpn] = h THEN [pending EXCEPT ![hi[h].vpn] = None]
                              ELSE pending

\* History: the outcome of a handshake is that of the step that takes it
\* out of pending; deleting a HostInfo that is gone already changes nothing.
Settle(h, out) == IF pending[hi[h].vpn] = h THEN out ELSE hi[h].fate

-----------------------------------------------------------------------------
(***************************************************************************)
(* The HandshakeManager goroutine (Run).                                   *)
(***************************************************************************)

\* A clock tick advances the wheel and Purge returns an expired entry;
\* handleOutbound(vpnIp, f, false) starts with pendingHostMap.QueryVpnIp
\* and returns at once if no pending HostInfo is found.
Purge(v) ==
    /\ hm.pc = "idle"
    /\ BagIn(v, wheel)
    /\ wheel' = BagRemove(wheel, v)
    /\ hm' = IF pending[v] = None THEN hm
             ELSE [pc |-> "lock", vpn |-> v, id |-> pending[v], trig |-> FALSE]
    /\ UNCHANGED <<pending, main, hi, trigger, snd>>

\* "case nip := <-c.trigger": handleOutbound(vpnIp, f, true).
Triggered ==
    LET v == Head(trigger) IN
    /\ hm.pc = "idle"
    /\ trigger # << >>
    /\ trigger' = Tail(trigger)
    /\ hm' = IF pending[v] = None THEN hm
             ELSE [pc |-> "lock", vpn |-> v, id |-> pending[v], trig |-> TRUE]
    /\ UNCHANGED <<pending, main, hi, wheel, snd>>

\* The rest of handleOutbound runs under hostinfo.Lock().  Each of the
\* following is one path through it, named for where it returns.

\* "We may have raced to completion": delete from pending, return.
OutboundComplete(h) ==
    /\ hi[h].complete
    /\ pending' = PendingWithout(h)
    /\ UNCHANGED <<hi, wheel>>

\* Mutant: the NotReady path returns without re-adding the wheel entry.
OutboundNotReadyNoReadd(h, v) ==
    /\ ~hi[h].complete
    /\ ~hi[h].ready
    /\ UNCHANGED <<pending, hi, wheel>>

\* !HandshakeReady: the stage-1 packet is not built yet; re-add, return.
OutboundNotReady(h, v) ==
    /\ ~hi[h].complete
    /\ ~hi[h].ready
    /\ wheel' = BagAdd(wheel, v)
    /\ UNCHANGED <<pending, hi>>

\* Mutants of the relay path: giving up at 2 * retries, never giving up,
\* and returning on every SendRelay call without rescheduling.
OutboundRelayEarly(h, v, trig) ==
    /\ ~hi[h].complete /\ hi[h].ready
    /\ hi[h].counter >= Retries /\ v \notin Lighthouses
    /\ hi[h].remotes = "some"
    /\ LET c == hi[h].counter + 1 IN
       /\ hi' = [hi EXCEPT ![h].relay = 1, ![h].counter = c, ![h].sent = TRUE,
                           ![h].fate = IF c >= 2 * Retries THEN Settle(h, "abandoned") ELSE @]
       /\ pending' = IF c >= 2 * Retries THEN PendingWithout(h) ELSE pending
       /\ wheel' = IF c < 2 * Retries /\ ~trig THEN BagAdd(wheel, v) ELSE wheel
OutboundRelayForever(h, v, trig) ==
    /\ ~hi[h].complete /\ hi[h].ready
    /\ hi[h].counter >= Retries /\ v \notin Lighthouses
    /\ hi[h].remotes = "some"
    /\ hi' = [hi EXCEPT ![h].relay = 1, ![h].counter = @ + 1, ![h].sent = TRUE]
    /\ wheel' = IF ~trig THEN BagAdd(wheel, v) ELSE wheel
    /\ UNCHANGED pending
OutboundRelayAlwaysFails(h, v, trig) ==
    /\ ~hi[h].complete /\ hi[h].ready
    /\ hi[h].counter >= Retries /\ v \notin Lighthouses
    /\ hi[h].remotes = "some"
    /\ UNCHANGED <<pending, hi, wheel>>

\* Out of direct attempts towards a host that is not a lighthouse: give up
\* if no remote is known; else send the stored stage-1 packet through a
\* relay (GetABetterRelayServer at 2 * retries only changes which relay).
\* A SendRelay error returns without touching the counter or the wheel.
\* Success sets relay = 1, counts the attempt, gives up at 3 * retries and
\* otherwise re-adds (at twice the interval) unless a trigger brought it.
OutboundRelay(h, v, trig) ==
    /\ ~hi[h].complete
    /\ hi[h].ready
    /\ hi[h].counter >= Retries
    /\ v \notin Lighthouses
    /\ \/ /\ hi[h].remotes # "some"
          /\ pending' = PendingWithout(h)
          /\ hi' = [hi EXCEPT ![h].fate = Settle(h, "abandoned")]
          /\ UNCHANGED wheel
       \/ /\ hi[h].remotes = "some"
          /\ RelayCanFail
          /\ UNCHANGED <<pending, hi, wheel>>
       \/ /\ hi[h].remotes = "some"
          /\ LET c == hi[h].counter + 1 IN
             /\ hi' = [hi EXCEPT ![h].relay = 1, ![h].counter = c,
                                 ![h].sent = TRUE,
                                 ![h].fate = IF c >= 3 * Retries
                                             THEN Settle(h, "abandoned")
                                             ELSE @]
             /\ pending' = IF c >= 3 * Retries THEN PendingWithout(h)
                                               ELSE pending
             /\ wheel' = IF c < 3 * Retries /\ ~trig THEN BagAdd(wheel, v)
                                                     ELSE wheel

\* The direct path.  For a lighthouse out of attempts the HostInfo is
\* deleted from pending ("HandshakeCounter >= c.config.retries") and the
\* function goes on.  A trigger is honoured only before the first attempt.
\* Otherwise: query the lighthouse cache if there is no remote list yet,
\* send stage 1 to every known remote, count the attempt and re-add to the
\* wheel unless a trigger brought it.
OutboundDirect(h, v, trig) ==
    LET outOfTime == hi[h].counter >= Retries
        fate1 == IF outOfTime THEN Settle(h, "abandoned") ELSE hi[h].fate
    IN
    /\ ~hi[h].complete
    /\ hi[h].ready
    /\ ~outOfTime \/ v \in Lighthouses
    /\ pending' = IF outOfTime THEN PendingWithout(h) ELSE pending
    /\ \/ /\ trig /\ hi[h].counter > 0
          /\ hi' = [hi EXCEPT ![h].fate = fate1]
          /\ UNCHANGED wheel
       \/ /\ ~(trig /\ hi[h].counter > 0)
          /\ \E rem \in IF hi[h].remotes = "nil" THEN {"empty", "some"}
                                                ELSE {hi[h].remotes} :
                hi' = [hi EXCEPT ![h].remotes = rem, ![h].counter = @ + 1,
                                 ![h].sent = @ \/ rem = "some",
                                 ![h].fate = fate1]
          /\ wheel' = IF trig THEN wheel ELSE BagAdd(wheel, v)

HandleOutbound ==
    LET h == hm.id
        v == hm.vpn
    IN
    /\ hm.pc = "lock"
    /\ \/ OutboundComplete(h)
       \/ OutboundNotReady(h, v)
       \/ OutboundRelay(h, v, hm.trig)
       \/ OutboundDirect(h, v, hm.trig)
    /\ hm' = [pc |-> "idle"]
    /\ UNCHANGED <<main, trigger, snd>>

-----------------------------------------------------------------------------
(***************************************************************************)
(* getOrHandshake(vpnIp, networkID, true), from a packet to be sent.       *)
(***************************************************************************)

\* hostMap.PromoteBestQueryVpnIp finds no established tunnel.
SenderLookupMain(v) ==
    /\ snd[v].pc = "idle"
    /\ main[v] = None
    /\ snd' = [snd EXCEPT ![v] = [pc |-> "pend"]]
    /\ UNCHANGED <<pending, main, hi, wheel, trigger, hm>>

\* pendingHostMap.QueryVpnIp, and if that fails AddVpnIp, which creates
\* the HostInfo in pending and adds it to the wheel.
SenderLookupPending(v) ==
    /\ snd[v].pc = "pend"
    /\ \/ /\ pending[v] # None
          /\ snd' = [snd EXCEPT ![v] = [pc |-> "lock", id |-> pending[v]]]
          /\ UNCHANGED <<pending, hi, wheel>>
       \/ /\ pending[v] = None
          /\ \E h \in HostIds : ~hi[h].used
          /\ LET h == CHOOSE h \in HostIds : ~hi[h].used IN
             /\ pending' = [pending EXCEPT ![v] = h]
             /\ hi' = [hi EXCEPT ![h] = FreshHostInfo(v)]
             /\ wheel' = BagAdd(wheel, v)
             /\ snd' = [snd EXCEPT ![v] = [pc |-> "lock", id |-> h]]
    /\ UNCHANGED <<main, trigger, hm>>

\* Under hostinfo.Lock(): if the handshake is not ready and the stage-1
\* packet is not built, ixHandshakeStage0 builds it; for a static host the
\* manager is triggered at once.  A ready ConnectionState returns.
SenderStage0(v) ==
    LET h == snd[v].id IN
    /\ snd[v].pc = "lock"
    /\ \/ /\ ~hi[h].complete /\ ~hi[h].ready
          /\ hi' = [hi EXCEPT ![h].ready = TRUE]
          /\ trigger' = IF v \in Statics THEN TrySendTrigger(v) ELSE trigger
       \/ /\ hi[h].complete \/ hi[h].ready
          /\ UNCHANGED <<hi, trigger>>
    /\ snd' = [snd EXCEPT ![v] = [pc |-> "idle"]]
    /\ UNCHANGED <<pending, main, wheel, hm>>

-----------------------------------------------------------------------------
(***************************************************************************)
(* The peer, the lighthouse and the user.                                  *)
(***************************************************************************)

\* The peer's stage-2 reply to a stage-1 packet h sent: HandleIncomingHandshake
\* finds h in pending by its index, ixHandshakeStage2 completes it and
\* Complete moves it to main, replacing any older tunnel, and deletes it
\* from pending.
Stage2(h) ==
    LET v == hi[h].vpn IN
    /\ hi[h].used
    /\ pending[v] = h
    /\ hi[h].sent
    /\ ~hi[h].complete
    /\ hi' = [hi EXCEPT ![h].complete = TRUE, ![h].fate = "complete"]
    /\ main' = [main EXCEPT ![v] = h]
    /\ pending' = PendingWithout(h)
    /\ UNCHANGED <<wheel, trigger, hm, snd>>

\* A stage-2 reply that ixHandshakeStage2 rejects (tearDown): the
\* HostInfo found by its index is deleted from pending.
Stage2TearDown(h) ==
    /\ hi[h].used
    /\ pending[hi[h].vpn] = h
    /\ hi[h].sent
    /\ ~hi[h].complete
    /\ pending' = PendingWithout(h)
    /\ hi' = [hi EXCEPT ![h].fate = "rejected"]
    /\ UNCHANGED <<main, wheel, trigger, hm, snd>>

\* A HostQueryReply from the lighthouse fills in the remotes of a pending
\* handshake and triggers the manager.  Only the reply that brings the
\* addresses is modelled: repeated replies only repeat the trigger.
LighthouseReply(v) ==
    /\ pending[v] # None
    /\ hi[pending[v]].remotes # "some"
    /\ hi' = [hi EXCEPT ![pending[v]].remotes = "some"]
    /\ trigger' = TrySendTrigger(v)
    /\ UNCHANGED <<pending, main, wheel, hm, snd>>

\* Control.CloseTunnel: the tunnel is torn down and leaves the main map.
CloseTunnel(v) ==
    /\ main[v] # None
    /\ main' = [main EXCEPT ![v] = None]
    /\ UNCHANGED <<pending, hi, wheel, trigger, hm, snd>>

Next ==
    \/ \E v \in Peers : Purge(v)
    \/ Triggered
    \/ HandleOutbound
    \/ \E v \in Peers : \/ SenderLookupMain(v) \/ SenderLookupPending(v)
                        \/ SenderStage0(v)
    \/ \E h \in HostIds : Stage2(h) \/ Stage2TearDown(h)
    \/ \E v \in Peers : LighthouseReply(v) \/ CloseTunnel(v)

\* The manager goroutine and the senders run when they can.  Run selects
\* between the ticker and the trigger channel; Go's select picks uniformly
\* among ready cases, so a tick that is ready again and again is eventually
\* taken even while triggers keep arriving (strong fairness).  The peer may
\* never answer and the lighthouse and the user owe nothing.
Fairness ==
    /\ SF_vars(\E v \in Peers : Purge(v))
    /\ WF_vars(Triggered)
    /\ WF_vars(HandleOutbound)
    /\ \A v \in Peers : WF_vars(SenderLookupPending(v))
                        /\ WF_vars(SenderStage0(v))

Spec == Init /\ [][Next]_vars /\ Fairness

-----------------------------------------------------------------------------
(***************************************************************************)
(* Properties.                                                             *)
(***************************************************************************)

\* Every handshake still pending in pendingHostMap has a future: an entry in
\* the timer wheel, or the manager is inside handleOutbound for it after a
\* purge.  handleOutbound must re-add on every path that leaves the HostInfo
\* pending; a path that forgets (the NotReady path, the relay path after a
\* SendRelay error) strands the HostInfo, and getOrHandshake, which finds it
\* in pending, never starts a new handshake for that peer.
WheelCoversPending ==
    \A v \in Peers :
        pending[v] # None /\ ~hi[pending[v]].complete
            => \/ BagIn(v, wheel)
               \/ hm.pc = "lock" /\ hm.vpn = v /\ ~hm.trig

\* Relay fallback (handleOutbound, "out of time"): a handshake to a
\* non-lighthouse peer with known remotes is given up only after it went
\* through the relay and counted exactly 3 * retries attempts.
AbandonAtRelayExhaustion ==
    \A h \in HostIds :
        /\ hi[h].used
        /\ hi[h].fate = "abandoned"
        /\ hi[h].vpn \notin Lighthouses
        /\ hi[h].remotes = "some"
        => hi[h].relay = 1 /\ hi[h].counter = 3 * Retries

\* Every HostInfo created by AddVpnIp eventually leaves the pending state:
\* it completes, is rejected, or is abandoned, so that the next outbound
\* packet starts a fresh handshake ("fail silent, self-heal").
PendingResolves ==
    \A h \in HostIds :
        (hi[h].used /\ hi[h].fate = "pending") ~> (hi[h].fate # "pending")

\* No stage-1 packet is sent (HandshakeCounter is bumped) for a HostInfo
\* after it was deleted from pendingHostMap: once handleOutbound gives up
\* on a handshake, it stops transmitting it.
NoSendAfterGiveUp ==
    [][\A h \in HostIds :
          hi'[h].counter > hi[h].counter => pending'[hi[h].vpn] = h]_vars

-----------------------------------------------------------------------------
(***************************************************************************)
(* Refinement of the handshake lifecycle of spec.md section 4.4.           *)
(***************************************************************************)

\* The lifecycle state of HostInfo h.
LifeState(h) ==
    IF ~hi[h].used THEN "none"
    ELSE IF hi[h].fate # "pending" THEN hi[h].fate
    ELSE IF hi[h].ready THEN "built" ELSE "created"

Life == INSTANCE HandshakeLifecycle WITH
    hs <- [h \in HostIds |-> [st |-> LifeState(h), n |-> hi[h].counter,
                              sent |-> hi[h].sent, relay |-> hi[h].relay = 1]]

\* handleOutbound, getOrHandshake and the stage-2 handling together move
\* each HostInfo only along the lifecycle: direct attempts first, relay
\* attempts from the retries-th on, given up exactly after 3 * retries
\* relay-counted attempts or, with nobody to relay to, after retries; and
\* completed or rejected only after a stage-1 packet was sent.
RefinesLifecycle == Life!Spec
=============================================================================
