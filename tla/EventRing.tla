------------------------------ MODULE EventRing ------------------------------
(***************************************************************************)
(* The fixed-capacity circular event buffers (container/ring of            *)
(* MAX_NUMBER_OF_EVENTS slots) that record out-of-band events for later    *)
(* one-at-a-time retrieval.  The code has two of them:                     *)
(*                                                                         *)
(*  - "messages": Messaging.EventRing.  messages.newEvent (called from     *)
(*    ProcessMessage for a router_event request) stores the event and     *)
(*    advances its *parameter*, a copy of the ring pointer;                *)
(*    Messaging.GetNextEvent (Control.GetNextEvent) returns the first      *)
(*    active event from the ring pointer on and marks it inactive.         *)
(*  - "telemetry": Telemetry.EventRing.  Telemetry.newEvent stores the     *)
(*    event and advances the field; MainActivity.handleEvents takes the    *)
(*    first active event (getNextEvent, under the Telemetry lock), sends   *)
(*    it to the mobile apps and then marks it (MarkRouterEvent) inactive   *)
(*    if some send succeeded, active again if all failed.                  *)
(*                                                                         *)
(* An event is its creation number 1..MaxEvents.  active is the set of     *)
(* event objects whose Active flag is set, wherever they are.              *)
(***************************************************************************)
EXTENDS Naturals, Sequences, SequencesExt

CONSTANTS
    N,          \* MAX_NUMBER_OF_EVENTS
    MaxEvents,  \* bound: events created in a behaviour
    Variant     \* "messages" or "telemetry"

ASSUME N \in Nat \ {0} /\ MaxEvents \in Nat
ASSUME Variant \in {"messages", "telemetry"}

Nil == 0
Slots == 0 .. N - 1
EventIds == 1 .. MaxEvents

VARIABLES
    slot,       \* ring element -> event in its Value, or Nil
    head,       \* the *ring.Ring the owner holds
    active,     \* events whose Active flag is TRUE
    nextId,     \* the next event to be created
    rd,         \* handleEvents: the event it got from getNextEvent, or Nil
    delivered   \* history: events handed to their consumer, in order

vars == <<slot, head, active, nextId, rd, delivered>>

TypeOK ==
    /\ slot \in [Slots -> EventIds \cup {Nil}]
    /\ head \in Slots
    /\ active \subseteq EventIds
    /\ nextId \in 1 .. MaxEvents + 1
    /\ rd \in EventIds \cup {Nil}
    /\ delivered \in Seq(EventIds)

Init ==
    /\ slot = [s \in Slots |-> Nil]
    /\ head = 0
    /\ active = {}
    /\ nextId = 1
    /\ rd = Nil
    /\ delivered = << >>

\* ring.Do(f) from head: f sees head, head.Next(), ...; the callback keeps
\* the first non-nil Value whose Active flag is set.
IsActiveAt(i) == slot[(head + i) % N] \in active
FirstActive ==
    slot[(head + CHOOSE i \in Slots : IsActiveAt(i)
                     /\ \A j \in 0 .. i - 1 : ~IsActiveAt(j)) % N]
SomeActive == \E i \in Slots : IsActiveAt(i)

-----------------------------------------------------------------------------
(* messages.go *)

\* Mutant: newEvent advances the ring it was given past its length.
NewEventMsgNoWrap ==
    /\ nextId <= MaxEvents
    /\ slot' = [slot EXCEPT ![head] = nextId]
    /\ active' = active \cup {nextId}
    /\ head' = head + 1
    /\ nextId' = nextId + 1
    /\ UNCHANGED <<rd, delivered>>

\* newEvent: "Events.Value = event; Events = Events.Next()" -- the second
\* assignment changes the local parameter only, so the ring the Messaging
\* holds does not move.
NewEventMsg ==
    /\ nextId <= MaxEvents
    /\ slot' = [slot EXCEPT ![head] = nextId]
    /\ active' = active \cup {nextId}
    /\ nextId' = nextId + 1
    /\ UNCHANGED <<head, rd, delivered>>

\* Mutant: GetNextEvent returns the event without clearing Active.
GetNextEventMsgKeep ==
    /\ SomeActive
    /\ delivered' = Append(delivered, FirstActive)
    /\ UNCHANGED <<slot, head, active, nextId, rd>>

\* GetNextEvent: the first active event is marked inactive and returned.
GetNextEventMsg ==
    /\ SomeActive
    /\ active' = active \ {FirstActive}
    /\ delivered' = Append(delivered, FirstActive)
    /\ UNCHANGED <<slot, head, nextId, rd>>

-----------------------------------------------------------------------------
(* router/router_telemetry.go and cmd/nebula/main_activity.go *)

\* Mutant: the field keeps its place, as in messages.newEvent.
NewEventTelNoAdvance ==
    /\ nextId <= MaxEvents
    /\ slot' = [slot EXCEPT ![head] = nextId]
    /\ active' = active \cup {nextId}
    /\ nextId' = nextId + 1
    /\ UNCHANGED <<head, rd, delivered>>

\* Mutant: the pointer is advanced as an index that never wraps.
NewEventTelNoWrap ==
    /\ nextId <= MaxEvents
    /\ slot' = [slot EXCEPT ![head] = nextId]
    /\ active' = active \cup {nextId}
    /\ head' = head + 1
    /\ nextId' = nextId + 1
    /\ UNCHANGED <<rd, delivered>>

\* Telemetry.newEvent: store, then advance tel.EventRing.
NewEventTel ==
    /\ nextId <= MaxEvents
    /\ slot' = [slot EXCEPT ![head] = nextId]
    /\ active' = active \cup {nextId}
    /\ head' = (head + 1) % N
    /\ nextId' = nextId + 1
    /\ UNCHANGED <<rd, delivered>>

\* Mutant: the scan starts one element past the ring pointer.
GetNextEventTelSkip ==
    LET Skip(i) == slot[(head + 1 + i) % N] \in active IN
    /\ rd = Nil
    /\ SomeActive
    /\ rd' = slot[(head + 1 + CHOOSE i \in Slots :
                              Skip(i) /\ \A j \in 0 .. i - 1 : ~Skip(j)) % N]
    /\ UNCHANGED <<slot, head, active, nextId, delivered>>

\* handleEvents -> getNextEvent: under the Telemetry lock, the first active
\* event; Active is left alone.  A nil result leaves nothing to do.
GetNextEventTel ==
    /\ rd = Nil
    /\ SomeActive
    /\ rd' = FirstActive
    /\ UNCHANGED <<slot, head, active, nextId, delivered>>

\* handleEvent sends the event to the mobile IPs, without the lock; then
\* MarkRouterEvent(event, fail): Active := fail, on the event object it
\* holds, whatever happened to the ring meanwhile.
HandleEventTel ==
    /\ rd # Nil
    /\ \/ /\ active' = active \ {rd}
          /\ delivered' = Append(delivered, rd)
       \/ UNCHANGED <<active, delivered>>
    /\ rd' = Nil
    /\ UNCHANGED <<slot, head, nextId>>

-----------------------------------------------------------------------------

Next ==
    \/ Variant = "messages" /\ (NewEventMsg \/ GetNextEventMsg)
    \/ Variant = "telemetry" /\ (NewEventTel \/ GetNextEventTel
                                 \/ HandleEventTel)

Spec == Init /\ [][Next]_vars

-----------------------------------------------------------------------------
(* Properties. *)

\* Each event is consumed at most once and in the order it was recorded:
\* the consumer is handed the events oldest first and never twice.  In the
\* telemetry ring it relies on the scan starting at the oldest slot and on
\* a failed delivery leaving the event active.
DeliveredOldestFirst ==
    \A i, j \in 1 .. Len(delivered) : i < j => delivered[i] < delivered[j]

\* A fixed-capacity ring drops an unread event only when it is full: an
\* event is written over an active one only if every slot holds an active
\* event.  messages.newEvent breaks this if its ring never moves.
NoUnreadOverwritten ==
    [][ nextId' # nextId /\ slot[head] \in active
          => \A s \in Slots : slot[s] \in active ]_vars
=============================================================================
