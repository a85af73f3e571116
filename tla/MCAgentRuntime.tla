--------------------------- MODULE MCAgentRuntime ---------------------------
(***************************************************************************)
(* AgentRuntime for TLC: t1 is a turn under a durable claim, t2 is not.    *)
(* scenario bounds what a behaviour is about:                              *)
(*   turn     t2 with models and tools, and everything that may fail       *)
(*   durable  t1 with one call of a model, and everything that may fail    *)
(*   claim    t1 and t2, which takes its place, without capabilities, and  *)
(*            what may fail around a claim                                 *)
(***************************************************************************)
EXTENDS AgentRuntime

CONSTANTS t1, t2

VARIABLE scenario

Idle(t) == turn[t].at = "idle"

\* A step in which nothing fails but the exchange of the checkpoint and the
\* deadline, the agent calls and emits nothing, and the controller waits.
Undisturbed(t) ==
  LET now == turn[t] next == turn'[t] IN
    /\ next.busy = {} /\ ~budget'[t].sealed /\ ~budget'[t].pending /\ next.outcome # "unwound"
    /\ controller'[t] \in {"none", "waiting", "sent"}
    /\ budget[t].run = "cleaning" => budget'[t].stopped = budget[t].stopped
    /\ now.at = "begin" /\ next.at = "finalize" => Signalled(t)
    /\ now.at = "user" /\ ~Signalled(t) => next.at \in {"user", "body"}
    /\ {next.message, next.terminal} \subseteq {"none", "ok"}
    /\ next.report = "failed" => now.foreign
    /\ now.at = "settle" /\ next.at = "finalize" => next.outcome = Outcome(t, TRUE)

Narrow ==
  /\ scenario = "turn" => Idle(t1)'
  /\ scenario = "durable" => Idle(t2)' /\ "tool" \notin turn'[t1].busy /\ Works(t1)' <= 1
  /\ scenario = "claim" =>
       /\ \A t \in Turns : Undisturbed(t) /\ Works(t)' = 0
       /\ ~sick' /\ (stopper'.at = "idle" \/ \A t \in Turns : At(t, "gone"))

MCInit == Init /\ scenario \in {"turn", "durable", "claim"}
MCNext == Next /\ UNCHANGED scenario /\ Narrow
MCSpec == MCInit /\ [][MCNext]_<<vars, scenario>>

\* One scenario, without bounds.
TurnSpec ==
  scenario = "turn" /\ Init /\ [][Next /\ UNCHANGED scenario]_<<vars, scenario>>
=============================================================================
