----------------------------- MODULE DurableLog -----------------------------
(***************************************************************************)
(* What a Session's storage promises, whoever crashes: there is one log of *)
(* events, it only grows at its end and stays well formed, and an event    *)
(* that was acknowledged is in it.                                         *)
(***************************************************************************)
EXTENDS Integers, SequencesExt

CONSTANT Events

VARIABLES kept,   \* the events that survive every crash, in order
          acked   \* the events a caller was told are durable

vars == <<kept, acked>>

\* validate_physical_log: the address of an event is its place, identifiers
\* are not reused.
ValidLog(log) ==
  /\ \A i \in DOMAIN log : log[i].seq = i - 1
  /\ \A i, j \in DOMAIN log : log[i].id = log[j].id => i = j

Init == kept = <<>> /\ acked = {}

\* The log grows, or callers are told of events that are in it.
Next ==
  /\ IsPrefix(kept, kept') /\ ValidLog(kept')
  /\ acked \subseteq acked' /\ acked' \subseteq ToSet(kept')

Spec == Init /\ [][Next]_vars
=============================================================================
