------------------------------ MODULE HostIndex ------------------------------
(***************************************************************************)
(* The two host maps of one node and how handshakes move HostInfos between *)
(* them (src/handshake_manager.go: AddVpnIp, AddIndexHostInfo,             *)
(* generateIndex, CheckAndComplete, Complete, DeleteHostInfo).             *)
(*                                                                         *)
(* A host map is two Go maps: Hosts (vpn IP -> HostInfo) and Indexes       *)
(* (localIndexId -> HostInfo), modelled as functions whose domain is the   *)
(* set of keys present.  pending holds handshakes in progress, main the    *)
(* established tunnels.  An initiator HostInfo is created in pending by    *)
(* getOrHandshake, gets its index in stage 0 and is promoted by Complete   *)
(* when the peer's stage-2 reply arrives; a responder HostInfo is created  *)
(* for a stage-1 packet, gets its index from AddIndexHostInfo and is       *)
(* promoted by CheckAndComplete.  The handshake handlers themselves        *)
(* (handshake_ix.go) and the host map (hostmap.go) are not in the          *)
(* repository and follow spec.md sections 4.2 and 4.4.                    *)
(*                                                                         *)
(* Peers create handshake messages stamped with their clock; messages are  *)
(* a set, so they may be delayed, reordered and delivered more than once.  *)
(***************************************************************************)
EXTENDS Naturals, Functions, TLC

CONSTANTS
    Peers,      \* vpn IPs of the remote hosts
    HostIds,    \* HostInfo objects
    Indexes,    \* the non-zero localIndexIds generateIndex may return
    Overwrite,  \* peers whose stage 1 wins a race (overwrite = true)
    MaxTime,    \* bound: handshake messages created by the peers
    MaxSends,   \* bound: SendMessageToVpnIp calls that miss main
    None

ASSUME 0 \notin Indexes /\ Overwrite \subseteq Peers

NoIndex == 0

\* Go map operations on a function whose domain is the keys present.
Put(m, k, x) == (k :> x) @@ m
Del(m, k) == Restrict(m, DOMAIN m \ {k})
IsMap(m, K, V) == DOMAIN m \subseteq K /\ \A k \in DOMAIN m : m[k] \in V

Roles == {"none", "init", "resp"}
Fates == {"live", "abandoned", "replaced", "rejected", "torndown"}

\* Stage-1 packets from a peer (type 1), our stage-1 packets to it (type 0)
\* and its stage-2 replies to them (type 2); h is the HostInfo whose noise
\* state a reply answers.
Msgs == [type : {0, 1, 2}, vpn : Peers, idx : Indexes \cup {NoIndex},
         h : HostIds \cup {None}, t : 0 .. MaxTime]

VARIABLES
    pHosts, pIdx,   \* pendingHostMap.Hosts, .Indexes
    mHosts, mIdx,   \* mainHostMap.Hosts, .Indexes
    hi,             \* HostIds -> the HostInfo's fields
    net,            \* handshake messages sent so far
    clock,          \* the peers' clock
    snd,            \* Peers -> where SendMessageToVpnIp towards it is
    sends,          \* calls of SendMessageToVpnIp so far
    pkts,           \* HostIds -> packets in its packetStore
    best            \* history: Peers -> latest lastHandshakeTime promoted

vars == <<pHosts, pIdx, mHosts, mIdx, hi, net, clock, snd, sends, pkts, best>>

\* role; vpnIp; localIndexId; lastHandshakeTime; HandshakePacket[0] (the
\* stamp of the peer's stage 1, 0 for our own); ready; the responder's
\* progress; and the history variable fate.
Fresh == [role |-> "none", vpn |-> CHOOSE v \in Peers : TRUE, idx |-> NoIndex,
          time |-> 0, pkt |-> 0, ready |-> FALSE, phase |-> "new",
          fate |-> "live"]

TypeOK ==
    /\ IsMap(pHosts, Peers, HostIds) /\ IsMap(mHosts, Peers, HostIds)
    /\ IsMap(pIdx, Indexes, HostIds) /\ IsMap(mIdx, Indexes, HostIds)
    /\ hi \in [HostIds -> [role : Roles, vpn : Peers,
                           idx : Indexes \cup {NoIndex}, time : 0 .. MaxTime,
                           pkt : 0 .. MaxTime, ready : BOOLEAN,
                           phase : {"new", "check", "done"}, fate : Fates]]
    /\ net \subseteq Msgs
    /\ clock \in 0 .. MaxTime
    /\ snd \in [Peers -> [pc : {"idle", "miss", "stage0", "cache"},
                          h : HostIds \cup {None}]]
    /\ sends \in 0 .. MaxSends
    /\ pkts \in [HostIds -> 0 .. MaxSends]
    /\ best \in [Peers -> 0 .. MaxTime]

Init ==
    /\ pHosts = << >> /\ pIdx = << >> /\ mHosts = << >> /\ mIdx = << >>
    /\ hi = [h \in HostIds |-> Fresh]
    /\ net = {}
    /\ clock = 0
    /\ snd = [v \in Peers |-> [pc |-> "idle", h |-> None]]
    /\ sends = 0
    /\ pkts = [h \in HostIds |-> 0]
    /\ best = [v \in Peers |-> 0]

Unused == {h \in HostIds : hi[h].role = "none"}

MaxOf(a, b) == IF a >= b THEN a ELSE b

\* Mutant: the loop "for index == 0" is dropped, so zero may be returned.
GenerateIndexMayBeZero == Indexes \cup {0}

\* generateIndex: random uint32 values, drawn again while zero.
GenerateIndex == Indexes

\* Mutant: the index is checked against pending only.
AddIndexHostInfoPendingOnly(h, r) ==
    \E i \in GenerateIndex :
        /\ i \notin DOMAIN pIdx
        /\ pIdx' = Put(pIdx, i, h)
        /\ hi' = [hi EXCEPT ![h] = [r EXCEPT !.idx = i]]

\* AddIndexHostInfo: a generated index free in both maps is given to the
\* HostInfo, whose record becomes r, and added to pending.Indexes.
AddIndexHostInfo(h, r) ==
    \E i \in GenerateIndex :
        /\ i \notin DOMAIN pIdx /\ i \notin DOMAIN mIdx
        /\ pIdx' = Put(pIdx, i, h)
        /\ hi' = [hi EXCEPT ![h] = [r EXCEPT !.idx = i]]

\* The 32 draws all hit used indexes: "failed to generate unique
\* localIndexId".
IndexSpaceFull == \A i \in GenerateIndex : i \in DOMAIN pIdx \cup DOMAIN mIdx

\* pendingHostMap.DeleteHostInfo: h leaves Hosts and Indexes.
PendingDelete(h) ==
    /\ pHosts' = IF hi[h].vpn \in DOMAIN pHosts /\ pHosts[hi[h].vpn] = h
                 THEN Del(pHosts, hi[h].vpn) ELSE pHosts
    /\ pIdx' = Del(pIdx, hi[h].idx)

-----------------------------------------------------------------------------
(* The sender: SendMessageToVpnIp and getOrHandshake (src/inside.go).      *)

\* PromoteBestQueryVpnIp misses in main (a hit sends on the tunnel and
\* changes nothing here).
SendLookupMain(v) ==
    /\ snd[v].pc = "idle"
    /\ sends < MaxSends
    /\ v \notin DOMAIN mHosts
    /\ sends' = sends + 1
    /\ snd' = [snd EXCEPT ![v].pc = "miss"]
    /\ UNCHANGED <<pHosts, pIdx, mHosts, mIdx, hi, net, clock, pkts, best>>

\* pendingHostMap.QueryVpnIp, else HandshakeManager.AddVpnIp.
SendLookupPending(v) ==
    /\ snd[v].pc = "miss"
    /\ \/ /\ v \in DOMAIN pHosts
          /\ snd' = [snd EXCEPT ![v] = [pc |-> "stage0", h |-> pHosts[v]]]
          /\ UNCHANGED <<pHosts, hi>>
       \/ /\ v \notin DOMAIN pHosts
          /\ \E h \in Unused :
                /\ hi' = [hi EXCEPT ![h] = [Fresh EXCEPT !.role = "init",
                                                         !.vpn = v]]
                /\ pHosts' = Put(pHosts, v, h)
                /\ snd' = [snd EXCEPT ![v] = [pc |-> "stage0", h |-> h]]
    /\ UNCHANGED <<pIdx, mHosts, mIdx, net, clock, sends, pkts, best>>

\* Under the HostInfo lock: unless ready or already built, ixHandshakeStage0
\* takes an index and builds the stage-1 packet (sent by handleOutbound).
SenderStage0(v) ==
    LET h == snd[v].h IN
    /\ snd[v].pc = "stage0"
    /\ \/ /\ hi[h].ready \/ hi[h].idx # NoIndex \/ IndexSpaceFull
          /\ UNCHANGED <<pIdx, hi, net>>
       \/ /\ ~hi[h].ready /\ hi[h].idx = NoIndex
          /\ AddIndexHostInfo(h, hi[h])
          /\ net' = net \cup {[type |-> 0, vpn |-> v, idx |-> hi'[h].idx,
                               h |-> h, t |-> 0]}
    /\ snd' = [snd EXCEPT ![v].pc = "cache"]
    /\ UNCHANGED <<pHosts, mHosts, mIdx, clock, sends, pkts, best>>

\* Under queueLock, a HostInfo that is not ready stores the packet.
CachePacket(v) ==
    LET h == snd[v].h IN
    /\ snd[v].pc = "cache"
    /\ pkts' = IF hi[h].ready THEN pkts ELSE [pkts EXCEPT ![h] = @ + 1]
    /\ snd' = [snd EXCEPT ![v] = [pc |-> "idle", h |-> None]]
    /\ UNCHANGED <<pHosts, pIdx, mHosts, mIdx, hi, net, clock, sends, best>>

-----------------------------------------------------------------------------
(* The peers. *)

PeerInitiate(v) ==
    /\ clock < MaxTime
    /\ clock' = clock + 1
    /\ net' = net \cup {[type |-> 1, vpn |-> v, idx |-> NoIndex, h |-> None,
                         t |-> clock + 1]}
    /\ UNCHANGED <<pHosts, pIdx, mHosts, mIdx, hi, snd, sends, pkts, best>>

\* A peer answers a stage-1 packet of ours once, with a fresh stamp.
PeerReply(m) ==
    /\ m.type = 0
    /\ clock < MaxTime
    /\ ~\E r \in net : r.type = 2 /\ r.h = m.h
    /\ clock' = clock + 1
    /\ net' = net \cup {[m EXCEPT !.type = 2, !.t = clock + 1]}
    /\ UNCHANGED <<pHosts, pIdx, mHosts, mIdx, hi, snd, sends, pkts, best>>

-----------------------------------------------------------------------------
(* The responder: ixHandshakeStage1, AddIndexHostInfo, CheckAndComplete.  *)

\* A stage-1 packet gets a new HostInfo stamped with the peer's time and an
\* index; without one the packet is dropped.
RecvStage1(m) ==
    /\ m.type = 1
    /\ \E h \in Unused :
          LET r == [Fresh EXCEPT !.role = "resp", !.vpn = m.vpn, !.time = m.t,
                                 !.pkt = m.t, !.phase = "check"]
          IN \/ AddIndexHostInfo(h, r) /\ UNCHANGED pHosts
             \/ /\ IndexSpaceFull
                /\ hi' = [hi EXCEPT ![h] = [r EXCEPT !.phase = "done",
                                                     !.fate = "rejected"]]
                /\ UNCHANGED <<pHosts, pIdx>>
    /\ UNCHANGED <<mHosts, mIdx, net, clock, snd, sends, pkts, best>>

\* Mutant: the "Is this a newer handshake?" test is missing.
ExistingNewerNever(e, h) == FALSE

\* The tunnel e in main is at least as new as the handshake h.
ExistingNewer(e, h) == hi[e].time >= hi[h].time

\* CheckAndComplete(hostinfo, 0, overwrite), under both map locks, in the
\* code's order: ErrAlreadySeen (same stage-1 packet as the tunnel in
\* main), ErrExistingHostInfo (the tunnel in main is as new or newer),
\* ErrLocalIndexCollision (the index is in main, or in pending for another
\* HostInfo), ErrExistingHandshake (a pending handshake to the peer and no
\* overwrite).  Otherwise the pending handshake, if any, is deleted and its
\* packetStore appended to this one's; the old tunnel leaves main and this
\* one enters it.  hostinfo itself stays in pending.Indexes.  The caller
\* then marks it ready and sends its packetStore; on an error it drops it.
CheckAndComplete(h) ==
    LET v == hi[h].vpn
        e == mHosts[v]
        p == pHosts[v]
        err == \/ v \in DOMAIN mHosts /\ hi[e].pkt = hi[h].pkt
               \/ v \in DOMAIN mHosts /\ ExistingNewer(e, h)
               \/ hi[h].idx \in DOMAIN mIdx
               \/ hi[h].idx \in DOMAIN pIdx /\ pIdx[hi[h].idx] # h
               \/ v \in DOMAIN pHosts /\ v \notin Overwrite
    IN
    /\ hi[h].role = "resp" /\ hi[h].phase = "check"
    /\ \/ /\ err
          /\ hi' = [hi EXCEPT ![h].phase = "done", ![h].fate = "rejected"]
          /\ UNCHANGED <<pHosts, pIdx, mHosts, mIdx, pkts, best>>
       \/ /\ ~err
          /\ IF v \in DOMAIN pHosts
             THEN /\ pHosts' = Del(pHosts, v)
                  /\ pIdx' = Del(pIdx, hi[p].idx)
                  /\ pkts' = [pkts EXCEPT ![p] = 0]
                  /\ hi' = [hi EXCEPT ![h].phase = "done", ![h].ready = TRUE,
                                      ![p].fate = "replaced"]
             ELSE /\ UNCHANGED <<pHosts, pIdx, pkts>>
                  /\ hi' = [hi EXCEPT ![h].phase = "done", ![h].ready = TRUE]
          /\ mHosts' = Put(mHosts, v, h)
          /\ mIdx' = Put(IF v \in DOMAIN mHosts THEN Del(mIdx, hi[e].idx)
                         ELSE mIdx, hi[h].idx, h)
          /\ best' = [best EXCEPT ![v] = MaxOf(@, hi[h].time)]
    /\ UNCHANGED <<net, clock, snd, sends>>

-----------------------------------------------------------------------------
(* The initiator: stage 2 (src/handshake.go) and Complete.                 *)

\* Mutant: the old tunnel's entry in main.Indexes is not deleted.
CompleteKeepIndex(h, t) ==
    LET v == hi[h].vpn IN
    /\ mHosts' = Put(mHosts, v, h)
    /\ mIdx' = Put(mIdx, hi[h].idx, h)
    /\ PendingDelete(h)
    /\ hi' = [hi EXCEPT ![h].time = t, ![h].ready = TRUE]
    /\ pkts' = [pkts EXCEPT ![h] = 0]
    /\ best' = [best EXCEPT ![v] = MaxOf(@, t)]

\* Complete: the old tunnel leaves main, h enters main and leaves pending.
\* ixHandshakeStage2 has set lastHandshakeTime from the reply, and the
\* handshake's completion sends the packetStore.
Complete(h, t) ==
    LET v == hi[h].vpn IN
    /\ mHosts' = Put(mHosts, v, h)
    /\ mIdx' = Put(IF v \in DOMAIN mHosts THEN Del(mIdx, hi[mHosts[v]].idx)
                   ELSE mIdx, hi[h].idx, h)
    /\ PendingDelete(h)
    /\ hi' = [hi EXCEPT ![h].time = t, ![h].ready = TRUE]
    /\ pkts' = [pkts EXCEPT ![h] = 0]
    /\ best' = [best EXCEPT ![v] = MaxOf(@, t)]

\* HandleIncomingHandshake, MessageCounter 2: QueryIndex(RemoteIndex) in
\* pending; a reply to the HostInfo's own stage 1 completes it, any other
\* is refused by ixHandshakeStage2 and the HostInfo is deleted (tearDown).
RecvStage2(m) ==
    /\ m.type = 2
    /\ m.idx \in DOMAIN pIdx
    /\ LET h == pIdx[m.idx] IN
       \/ /\ hi[h].role = "init" /\ m.h = h
          /\ Complete(h, m.t)
       \/ /\ ~(hi[h].role = "init" /\ m.h = h)
          /\ PendingDelete(h)
          /\ hi' = [hi EXCEPT ![h].fate = IF @ = "live" THEN "torndown" ELSE @]
          /\ UNCHANGED <<mHosts, mIdx, pkts, best>>
    /\ UNCHANGED <<net, clock, snd, sends>>

\* handleOutbound gives a built handshake up after its retries.
Abandon(h) ==
    /\ hi[h].role = "init" /\ hi[h].idx # NoIndex
    /\ hi[h].vpn \in DOMAIN pHosts /\ pHosts[hi[h].vpn] = h
    /\ PendingDelete(h)
    /\ hi' = [hi EXCEPT ![h].fate = "abandoned"]
    /\ UNCHANGED <<mHosts, mIdx, net, clock, snd, sends, pkts, best>>

\* Control.CloseTunnel -> closeTunnel: the tunnel leaves main.
CloseTunnel(v) ==
    /\ v \in DOMAIN mHosts
    /\ mHosts' = Del(mHosts, v)
    /\ mIdx' = Del(mIdx, hi[mHosts[v]].idx)
    /\ best' = [best EXCEPT ![v] = 0]
    /\ UNCHANGED <<pHosts, pIdx, hi, net, clock, snd, sends, pkts>>

-----------------------------------------------------------------------------

Next ==
    \/ \E v \in Peers :
          \/ SendLookupMain(v) \/ SendLookupPending(v) \/ SenderStage0(v)
          \/ CachePacket(v) \/ PeerInitiate(v) \/ CloseTunnel(v)
    \/ \E m \in net : PeerReply(m) \/ RecvStage1(m) \/ RecvStage2(m)
    \/ \E h \in HostIds : CheckAndComplete(h) \/ Abandon(h)

Spec == Init /\ [][Next]_vars

-----------------------------------------------------------------------------
(* Properties. *)

\* spec.md invariant 2: no index names two different HostInfos, one in
\* pending and one in main.  It rests on AddIndexHostInfo checking both
\* maps, on CheckAndComplete's collision tests and on every deletion
\* removing the index with the host.
IndexUnique ==
    \A i \in DOMAIN pIdx \cap DOMAIN mIdx : pIdx[i] = mIdx[i]

\* spec.md section 4.2: main's Hosts and Indexes agree; a tunnel in Hosts
\* is found under its index and every index leads to the tunnel in Hosts.
\* CheckAndComplete and Complete must delete the replaced tunnel's index.
MainIndexConsistent ==
    /\ \A v \in DOMAIN mHosts :
          /\ hi[mHosts[v]].vpn = v
          /\ hi[mHosts[v]].idx \in DOMAIN mIdx
          /\ mIdx[hi[mHosts[v]].idx] = mHosts[v]
    /\ \A i \in DOMAIN mIdx :
          hi[mIdx[i]].vpn \in DOMAIN mHosts /\ mHosts[hi[mIdx[i]].vpn] = mIdx[i]

\* spec.md invariant 3: the tunnel in main for a peer is the one with the
\* latest lastHandshakeTime of all that entered main since it was last
\* closed, whatever order the stage-1 packets, their retransmissions and
\* the stage-2 replies arrive in.
LatestWins ==
    \A v \in DOMAIN mHosts : hi[mHosts[v]].time = best[v]

\* spec.md invariant 4: a handshake that loses a race to an overwriting
\* stage 1 leaves no packets behind; they are moved to the winner.
NoCachedPacketLost ==
    \A h \in HostIds : pkts[h] > 0 => hi[h].fate # "replaced"
=============================================================================
