----------------------------- MODULE Messaging -----------------------------
(***************************************************************************)
(* The reliable request/ACK layer carried inside a tunnel as NonTunMessage *)
(* packets (src/messaging.go).                                             *)
(*                                                                         *)
(* Node n keeps one MessageManager per peer p, here indexed by <<n, p>>:   *)
(* its Seqnum, pending[] flags and recvdmsg[] reply slots, and a lock the  *)
(* Control.SendMessage caller holds for the whole exchange, across every   *)
(* retransmission and every 8 s wait.  The per-slot "acked" channels are   *)
(* unbuffered, so an ACK is handed over by a rendezvous between the        *)
(* recvMessage goroutine that carries it and the sender blocked in Run.    *)
(* Every received packet is processed by a goroutine of its own; a request *)
(* is answered by a further goroutine "go m.sendMessage(.., ACK, ..)".     *)
(*                                                                         *)
(* Data is abstracted: a request body is the identity of the request, the  *)
(* reply ProcessMessage computes for it is ReplyTo(request).  The 16-bit   *)
(* checksum never fails on tunnel traffic (the AEAD already rejects a      *)
(* corrupted datagram) and is left to its own module.                      *)
(***************************************************************************)
EXTENDS Naturals, Bags, BagsExt

CONSTANTS
    Node,         \* vpn IPs of the nodes that exchange NonTun messages
    NMsg,         \* MAX_MESSAGES_PER_IP: slots of a MessageManager
    Retries,      \* transmissions of one request: "for i = 0; i < 3; i++"
    Budget,       \* bound: Control.SendMessage calls of n towards p, per <<n, p>>
    MaxLoss,      \* bound: datagrams the UDP underlay may lose
    NoReply       \* the nil []byte a recvdmsg slot holds before any ACK

Pairs == {pr \in Node \X Node : pr[1] # pr[2]}
Slots == 0 .. NMsg - 1

Request(n, k) == [from |-> n, id |-> k]
ReplyTo(r) == [re |-> r]
MaxRequests == CHOOSE m \in {Budget[pr] : pr \in Pairs} :
                   \A pr \in Pairs : Budget[pr] <= m
Requests == {Request(n, k) : n \in Node, k \in 1 .. MaxRequests}
Replies == {ReplyTo(r) : r \in Requests}

\* A NonTunMessage datagram: the MH header fields the protocol reads, and
\* the body (flags bit MH_ACK_IN_MESSAGE is the field "ack").
Packets == [src : Node, dst : Node, ack : BOOLEAN, seq : Slots,
            acknum : Slots, body : Requests \cup Replies]
Outcomes == [kind : {"none", "ok", "notReady", "notSent"},
             reply : Replies \cup {NoReply}]

VARIABLES
    seq,         \* m.messages[p].Seqnum at node n
    pending,     \* m.messages[p].pending[]
    recvdmsg,    \* m.messages[p].recvdmsg[]
    ready,       \* hostinfo.ConnectionState.ready of n's tunnel to p
    appPc,       \* where n's Control.SendMessage caller towards p is
    appTry,      \* its loop counter i
    appReq,      \* how many requests it has issued (the current one's id)
    appResult,   \* what its last sendMessage call returned
    net,         \* bag of datagrams in flight in the underlay
    ackSenders,  \* bag of goroutines sendMessage(.., NonTunMessageACK, ..)
    ackRecv,     \* bag of recvMessage goroutines holding an ACK
    lost,        \* history: datagrams the underlay lost
    dropped      \* history: some datagram or ACK was lost or dropped

vars == <<seq, pending, recvdmsg, ready, appPc, appTry, appReq, appResult,
          net, ackSenders, ackRecv, lost, dropped>>

NoOutcome == [kind |-> "none", reply |-> NoReply]

\* The request datagram of the exchange pr's caller is running.
ReqPacket(pr) ==
    [src |-> pr[1], dst |-> pr[2], ack |-> FALSE, seq |-> seq[pr],
     acknum |-> 0, body |-> Request(pr[1], appReq[pr])]

TypeOK ==
    /\ seq \in [Pairs -> Slots]
    /\ pending \in [Pairs -> [Slots -> BOOLEAN]]
    /\ recvdmsg \in [Pairs -> [Slots -> Replies \cup {NoReply}]]
    /\ ready \in [Pairs -> BOOLEAN]
    /\ appPc \in [Pairs -> {"idle", "run", "acked"}]
    /\ appTry \in [Pairs -> 0 .. Retries - 1]
    /\ appReq \in [Pairs -> 0 .. MaxRequests]
    /\ appResult \in [Pairs -> Outcomes]
    /\ IsABag(net) /\ BagToSet(net) \subseteq Packets
    /\ IsABag(ackSenders)
    /\ BagToSet(ackSenders) \subseteq
           [node : Node, peer : Node, acknum : Slots, body : Replies]
    /\ IsABag(ackRecv)
    /\ BagToSet(ackRecv) \subseteq
           [node : Node, peer : Node, slot : Slots, body : Replies,
            pc : {"send", "store"}]
    /\ lost \in 0 .. MaxLoss
    /\ dropped \in BOOLEAN

Init ==
    /\ seq = [pr \in Pairs |-> 0]
    /\ pending = [pr \in Pairs |-> [s \in Slots |-> FALSE]]
    /\ recvdmsg = [pr \in Pairs |-> [s \in Slots |-> NoReply]]
    /\ ready \in [Pairs -> BOOLEAN]
    /\ appPc = [pr \in Pairs |-> "idle"]
    /\ appTry = [pr \in Pairs |-> 0]
    /\ appReq = [pr \in Pairs |-> 0]
    /\ appResult = [pr \in Pairs |-> NoOutcome]
    /\ net = EmptyBag
    /\ ackSenders = EmptyBag
    /\ ackRecv = EmptyBag
    /\ lost = 0
    /\ dropped = FALSE

-----------------------------------------------------------------------------
(***************************************************************************)
(* The Control.SendMessage caller: sendMessage(vpnIp, .., Main, 0).        *)
(***************************************************************************)

\* Lock the manager, encode the MH header with the current Seqnum, find
\* the tunnel ready, mark the slot pending and make the first transmission.
SendMessage(pr) ==
    /\ appPc[pr] = "idle"
    /\ appReq[pr] < Budget[pr]
    /\ ready[pr]
    /\ appReq' = [appReq EXCEPT ![pr] = @ + 1]
    /\ pending' = [pending EXCEPT ![pr][seq[pr]] = TRUE]
    /\ net' = BagAdd(net, [ReqPacket(pr) EXCEPT !.body =
                               Request(pr[1], appReq[pr] + 1)])
    /\ appPc' = [appPc EXCEPT ![pr] = "run"]
    /\ appTry' = [appTry EXCEPT ![pr] = 0]
    /\ appResult' = [appResult EXCEPT ![pr] = NoOutcome]
    /\ UNCHANGED <<seq, recvdmsg, ready, ackSenders, ackRecv, lost, dropped>>

\* ci.ready == false: "Host not ready", the deferred Unlock releases.
SendMessageNotReady(pr) ==
    /\ appPc[pr] = "idle"
    /\ appReq[pr] < Budget[pr]
    /\ ~ready[pr]
    /\ appReq' = [appReq EXCEPT ![pr] = @ + 1]
    /\ appResult' = [appResult EXCEPT ![pr] =
                        [kind |-> "notReady", reply |-> NoReply]]
    /\ UNCHANGED <<seq, pending, recvdmsg, ready, appPc, appTry, net,
                   ackSenders, ackRecv, lost, dropped>>

\* Run: "status = <-acked[seqnum]" wins the select; the recvMessage
\* goroutine w holding an ACK for this slot is released from its send.
Handoff(pr, w) ==
    /\ appPc[pr] = "run"
    /\ w.pc = "send" /\ w.node = pr[1] /\ w.peer = pr[2]
    /\ w.slot = seq[pr]
    /\ appPc' = [appPc EXCEPT ![pr] = "acked"]
    /\ ackRecv' = BagAdd(BagRemove(ackRecv, w), [w EXCEPT !.pc = "store"])
    /\ UNCHANGED <<seq, pending, recvdmsg, ready, appTry, appReq, appResult,
                   net, ackSenders, lost, dropped>>

\* Mutant of CompleteSend: Seqnum advanced without wrapping round the ring.
CompleteSendNoWrap(pr) ==
    LET pend == [pending[pr] EXCEPT ![seq[pr]] = FALSE] IN
    /\ appPc[pr] = "acked"
    /\ pending' = [pending EXCEPT ![pr] = pend]
    /\ seq' = [seq EXCEPT ![pr] = IF \E i \in Slots : ~pend[i] THEN @ + 1 ELSE @]
    /\ appResult' = [appResult EXCEPT ![pr] =
                        [kind |-> "ok", reply |-> recvdmsg[pr][seq[pr]]]]
    /\ appPc' = [appPc EXCEPT ![pr] = "idle"]
    /\ UNCHANGED <<recvdmsg, ready, appTry, appReq, net, ackSenders, ackRecv,
                   lost, dropped>>

\* After Run returned true: clear pending, read recvdmsg[Seqnum], advance
\* Seqnum if some slot is free, return the reply; Unlock.
CompleteSend(pr) ==
    LET pend == [pending[pr] EXCEPT ![seq[pr]] = FALSE] IN
    /\ appPc[pr] = "acked"
    /\ pending' = [pending EXCEPT ![pr] = pend]
    /\ seq' = [seq EXCEPT ![pr] =
                 IF \E i \in Slots : ~pend[i] THEN (@ + 1) % NMsg ELSE @]
    /\ appResult' = [appResult EXCEPT ![pr] =
                        [kind |-> "ok", reply |-> recvdmsg[pr][seq[pr]]]]
    /\ appPc' = [appPc EXCEPT ![pr] = "idle"]
    /\ UNCHANGED <<recvdmsg, ready, appTry, appReq, net, ackSenders, ackRecv,
                   lost, dropped>>

-----------------------------------------------------------------------------
(***************************************************************************)
(* Goroutines started by the receive path.                                 *)
(***************************************************************************)

\* recvMessage of a datagram whose flags carry MH_ACK_IN_MESSAGE: the
\* goroutine blocks on "acked[mh.Acknum] <- true".
RecvAck(pkt) ==
    /\ pkt.ack
    /\ net' = BagRemove(net, pkt)
    /\ ackRecv' = BagAdd(ackRecv, [node |-> pkt.dst, peer |-> pkt.src,
                                   slot |-> pkt.acknum, body |-> pkt.body,
                                   pc |-> "send"])
    /\ UNCHANGED <<seq, pending, recvdmsg, ready, appPc, appTry, appReq,
                   appResult, ackSenders, lost, dropped>>

\* recvMessage of a request: ProcessMessage, then
\* "go m.sendMessage(vpnIp, .., []byte(ret), NonTunMessageACK, mh.Seqnum)".
RecvRequest(pkt) ==
    /\ ~pkt.ack
    /\ net' = BagRemove(net, pkt)
    /\ ackSenders' = BagAdd(ackSenders, [node |-> pkt.dst, peer |-> pkt.src,
                                         acknum |-> pkt.seq,
                                         body |-> ReplyTo(pkt.body)])
    /\ UNCHANGED <<seq, pending, recvdmsg, ready, appPc, appTry, appReq,
                   appResult, ackRecv, lost, dropped>>

\* After the handoff the goroutine stores the reply: "recvdmsg[mh.Acknum]
\* = inmsg", with no lock and after the sender was already woken.
StoreReply(w) ==
    /\ w.pc = "store"
    /\ recvdmsg' = [recvdmsg EXCEPT ![<<w.node, w.peer>>][w.slot] = w.body]
    /\ ackRecv' = BagRemove(ackRecv, w)
    /\ UNCHANGED <<seq, pending, ready, appPc, appTry, appReq, appResult, net,
                   ackSenders, lost, dropped>>

\* sendMessage(.., NonTunMessageACK, acknum) runs its whole critical
\* section at once: it waits for the lock (held by the caller for as long
\* as that caller's exchange lasts), encodes the header with the manager's
\* own Seqnum, sets pending[Seqnum], transmits once and returns.
SendAck(a) ==
    LET pr == <<a.node, a.peer>> IN
    /\ appPc[pr] = "idle"
    /\ ready[pr]
    /\ ackSenders' = BagRemove(ackSenders, a)
    /\ pending' = [pending EXCEPT ![pr][seq[pr]] = TRUE]
    /\ net' = BagAdd(net, [src |-> a.node, dst |-> a.peer, ack |-> TRUE,
                           seq |-> seq[pr], acknum |-> a.acknum,
                           body |-> a.body])
    /\ UNCHANGED <<seq, recvdmsg, ready, appPc, appTry, appReq, appResult,
                   ackRecv, lost, dropped>>

\* The ACK sender finds the tunnel not ready: "Host not ready"; no ACK.
SendAckNotReady(a) ==
    LET pr == <<a.node, a.peer>> IN
    /\ appPc[pr] = "idle"
    /\ ~ready[pr]
    /\ ackSenders' = BagRemove(ackSenders, a)
    /\ dropped' = TRUE
    /\ UNCHANGED <<seq, pending, recvdmsg, ready, appPc, appTry, appReq,
                   appResult, net, ackRecv, lost>>

-----------------------------------------------------------------------------
(***************************************************************************)
(* Timeouts and the environment.                                           *)
(***************************************************************************)

\* Every step that needs no timer.  The 8 s ticker in Run is far longer
\* than a round trip, so it fires only once none of these can happen.
Progress ==
    \/ \E pr \in Pairs : CompleteSend(pr)
    \/ \E pr \in Pairs, w \in BagToSet(ackRecv) : Handoff(pr, w)
    \/ \E w \in BagToSet(ackRecv) : StoreReply(w)
    \/ \E pkt \in BagToSet(net) : RecvAck(pkt) \/ RecvRequest(pkt)
    \/ \E a \in BagToSet(ackSenders) : SendAck(a) \/ SendAckNotReady(a)

\* Mutant of Timeout: Run selects on the acked channel only, no ticker.
RunWithoutTicker(pr) ==
    /\ appPc[pr] = "run"
    /\ FALSE
    /\ UNCHANGED vars

\* "case <-clockSource.C" in Run: status false.  The loop retransmits the
\* same encoded packet while i < 3, then returns "Message not sent" with
\* pending[Seqnum] still set and Seqnum unchanged.
Timeout(pr) ==
    /\ appPc[pr] = "run"
    /\ ~ENABLED Progress
    /\ \/ /\ appTry[pr] + 1 < Retries
          /\ net' = BagAdd(net, ReqPacket(pr))
          /\ appTry' = [appTry EXCEPT ![pr] = @ + 1]
          /\ UNCHANGED <<appPc, appResult>>
       \/ /\ appTry[pr] + 1 = Retries
          /\ appPc' = [appPc EXCEPT ![pr] = "idle"]
          /\ appResult' = [appResult EXCEPT ![pr] =
                              [kind |-> "notSent", reply |-> NoReply]]
          /\ UNCHANGED <<net, appTry>>
    /\ UNCHANGED <<seq, pending, recvdmsg, ready, appReq, ackSenders, ackRecv,
                   lost, dropped>>

\* The underlay loses a datagram.
Lose(pkt) ==
    /\ lost < MaxLoss
    /\ net' = BagRemove(net, pkt)
    /\ lost' = lost + 1
    /\ dropped' = TRUE
    /\ UNCHANGED <<seq, pending, recvdmsg, ready, appPc, appTry, appReq,
                   appResult, ackSenders, ackRecv>>

\* The handshake completes and the tunnel's ConnectionState becomes ready.
TunnelReady(pr) ==
    /\ ~ready[pr]
    /\ ready' = [ready EXCEPT ![pr] = TRUE]
    /\ UNCHANGED <<seq, pending, recvdmsg, appPc, appTry, appReq, appResult,
                   net, ackSenders, ackRecv, lost, dropped>>

Next ==
    \/ Progress
    \/ \E pr \in Pairs : \/ SendMessage(pr) \/ SendMessageNotReady(pr)
                         \/ Timeout(pr) \/ TunnelReady(pr)
    \/ \E pkt \in BagToSet(net) : Lose(pkt)

\* Go runs every runnable goroutine eventually and the ticker fires; the
\* application's calls, the network's losses and the handshake are not
\* obliged to happen.
Fairness ==
    /\ \A pr \in Pairs : WF_vars(CompleteSend(pr)) /\ WF_vars(Timeout(pr))
    /\ \A pr \in Pairs : WF_vars(\E w \in BagToSet(ackRecv) : Handoff(pr, w))
    /\ WF_vars(\E w \in BagToSet(ackRecv) : StoreReply(w))
    /\ WF_vars(\E pkt \in BagToSet(net) : RecvAck(pkt) \/ RecvRequest(pkt))
    /\ WF_vars(\E a \in BagToSet(ackSenders) : SendAck(a) \/ SendAckNotReady(a))

Spec == Init /\ [][Next]_vars /\ Fairness

-----------------------------------------------------------------------------
(***************************************************************************)
(* Properties.                                                             *)
(***************************************************************************)

\* Every sendMessage call of the Control caller returns: the lock it holds
\* is never waited on by the receive goroutine it waits for, and the 8 s
\* ticker ends every wait.
RequestTerminates ==
    \A pr \in Pairs : (appPc[pr] # "idle") ~> (appPc[pr] = "idle")

\* When sendMessage returns a reply without error, the reply is the one
\* the peer's ProcessMessage produced for this very request (the spec's
\* "Messaging round-trip").
ReplyMatchesRequest ==
    \A pr \in Pairs :
        appResult[pr].kind = "ok" =>
            appResult[pr].reply = ReplyTo(Request(pr[1], appReq[pr]))

\* On an underlay that loses nothing and with both tunnels ready, no
\* request ends in "Message not sent. Try again".
NoFailureWithoutLoss ==
    \A pr \in Pairs : appResult[pr].kind = "notSent" => dropped

\* Every recvMessage goroutine that carries an ACK eventually finishes its
\* blocking send on the unbuffered acked channel.
AckReceiversTerminate ==
    <>[](ackRecv = EmptyBag)
=============================================================================
