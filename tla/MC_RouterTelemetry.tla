-------------------------- MODULE MC_RouterTelemetry --------------------------
(***************************************************************************)
(* Two LAN devices, which may also be registered as a repeater and its    *)
(* second MAC; registerRepeater handlers as Registrars allow; one restart. *)
(***************************************************************************)
EXTENDS RouterTelemetry

CONSTANTS m1, m2, g1, g2

MCMacs == {m1, m2}
MCRegistrars1 == {g1}
MCRegistrars2 == {g1, g2}

\* Devices are told apart by nothing but their MAC, registrars by nothing.
Sym == Permutations(MCMacs) \cup Permutations(MCRegistrars2)

\* The telemetry ring hands events out oldest first, once each, and drops
\* an unread event only when it is full, while the handlers fill it and a
\* restart replaces it.
TelDeliveredOldestFirst == Ring!DeliveredOldestFirst
TelNoUnreadOverwritten == Ring!NoUnreadOverwritten
=============================================================================
