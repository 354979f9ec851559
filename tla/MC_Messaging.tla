---------------------------- MODULE MC_Messaging ----------------------------
(* Instantiates Messaging for TLC: two peers, a ring of NMsg slots.        *)
EXTENDS Messaging

CONSTANTS a, b

MCNode == {a, b}

\* a issues two requests to b, so that a's Seqnum wraps round its two
\* slots; b issues one to a, concurrently.
MCBudget == [pr \in Pairs |-> IF pr = <<a, b>> THEN 2 ELSE 1]

\* One request in each direction.
MCBudgetOne == [pr \in Pairs |-> 1]
=============================================================================
