--------------------------- MODULE HandshakeLifecycle ---------------------------
(***************************************************************************)
(* What the handshake manager promises for each pending handshake, apart   *)
(* from how it schedules its work (spec.md section 4.4):                   *)
(*                                                                         *)
(*   Created -> PacketBuilt -> Sent(n) -> Completed | Rejected | Abandoned *)
(*                                                                         *)
(* n counts transmission attempts.  The first Retries are direct; from     *)
(* then on each attempt goes through a relay, and the handshake is         *)
(* abandoned after the 3 * Retries-th.  A handshake with nobody to send to *)
(* is abandoned when its direct attempts are used up.  Only a handshake    *)
(* whose stage-1 packet reached somebody can complete or be rejected.      *)
(***************************************************************************)
EXTENDS Naturals

CONSTANTS HostIds, Retries

VARIABLE hs  \* HostIds -> [st, n, sent, relay]

States == {"none", "created", "built", "complete", "rejected", "abandoned"}

TypeOK ==
    hs \in [HostIds -> [st : States, n : 0 .. 3 * Retries,
                        sent : BOOLEAN, relay : BOOLEAN]]

Init ==
    hs = [h \in HostIds |-> [st |-> "none", n |-> 0, sent |-> FALSE,
                             relay |-> FALSE]]

Create(h) ==
    /\ hs[h].st = "none"
    /\ hs' = [hs EXCEPT ![h].st = "created"]

Build(h) ==
    /\ hs[h].st = "created"
    /\ hs' = [hs EXCEPT ![h].st = "built"]

\* A direct attempt may or may not reach an address.
DirectAttempt(h) ==
    /\ hs[h].st = "built"
    /\ hs[h].n < Retries
    /\ \E reached \in BOOLEAN :
          hs' = [hs EXCEPT ![h].n = @ + 1, ![h].sent = @ \/ reached]

\* A relay attempt; the last one gives the handshake up.
RelayAttempt(h) ==
    LET n1 == hs[h].n + 1 IN
    /\ hs[h].st = "built"
    /\ Retries <= hs[h].n /\ hs[h].n < 3 * Retries
    /\ hs' = [hs EXCEPT ![h].n = n1, ![h].sent = TRUE, ![h].relay = TRUE,
                        ![h].st = IF n1 = 3 * Retries THEN "abandoned" ELSE @]

\* Out of direct attempts with no relay attempt made: nobody to relay to.
\* The step that gives a lighthouse up still makes one last attempt.
GiveUp(h) ==
    /\ hs[h].st = "built"
    /\ hs[h].n = Retries
    /\ ~hs[h].relay
    /\ \/ hs' = [hs EXCEPT ![h].st = "abandoned"]
       \/ \E reached \in BOOLEAN :
             hs' = [hs EXCEPT ![h].st = "abandoned", ![h].n = @ + 1,
                              ![h].sent = @ \/ reached]

\* handleOutbound looks the HostInfo up in pending before it takes the
\* HostInfo lock; a handshake that ends in between is attempted once more.
\* Such a late attempt changes nothing but the counters.
LateAttempt(h) ==
    /\ hs[h].st \in {"rejected", "abandoned"}
    /\ hs[h].n < 3 * Retries
    /\ \E reached, relayed \in BOOLEAN :
          hs' = [hs EXCEPT ![h].n = @ + 1, ![h].sent = @ \/ reached,
                           ![h].relay = @ \/ relayed]

Answer(h) ==
    /\ hs[h].st = "built"
    /\ hs[h].sent
    /\ \E out \in {"complete", "rejected"} : hs' = [hs EXCEPT ![h].st = out]

Next ==
    \E h \in HostIds :
        \/ Create(h) \/ Build(h) \/ DirectAttempt(h) \/ RelayAttempt(h)
        \/ GiveUp(h) \/ Answer(h) \/ LateAttempt(h)

Spec == Init /\ [][Next]_hs
=============================================================================
