--------------------------- MODULE MCModelScheduler --------------------------
(***************************************************************************)
(* ModelScheduler for TLC: two jobs of one turn, of which one is a stream, *)
(* and a job of another turn.  scenario tells what a behaviour is about,   *)
(* and Narrow bounds it to that:                                           *)
(*   crowd   the three jobs wait for one slot, and deadlines pass          *)
(*   pair    the two jobs of the turn, and every way to disturb them       *)
(*   turns   a job in each of the turns, and closures that fail            *)
(***************************************************************************)
EXTENDS ModelScheduler

CONSTANTS j1, j2, k, t1, t2

VARIABLE scenario

MCTurnOf == j1 :> t1 @@ j2 :> t1 @@ k :> t2

\* The jobs that are called, once their turns are bound, and the turns that are
\* finished or disturbed.
Called == [crowd |-> {j1, j2, k}, pair |-> {j1, j2}, turns |-> {j2, k}][scenario]
Bound == {TurnOf[j] : j \in Called}
Finished == IF scenario = "turns" THEN Turns ELSE {t1}

Narrow ==
  /\ \A j \in Jobs \ Called : phase'[j] = phase[j]
  /\ \A t \in Turns \ Bound : open'[t] = open[t]
  /\ \A t \in Turns \ Finished :
       finisher'[t] = finisher[t] /\ turnCancelled'[t] = turnCancelled[t]
       /\ budgetStopped'[t] = budgetStopped[t]
  /\ (\E t \in Bound : open[t] = "unbound") => phase' = phase
  /\ scenario \in {"crowd", "turns"} => turnCancelled' = turnCancelled /\ dropped' = dropped
  /\ scenario = "crowd" => /\ lifecycle' = "Running" \/ Inflight = {}
                           /\ budgetStopped' = budgetStopped /\ failed' = failed
  /\ scenario = "turns" =>
       expired' = expired /\ (failed' = failed \/ \E j \in Jobs : RecordFailed(j))

MCInit == Init /\ scenario \in {"crowd", "pair", "turns"}
MCNext == Next /\ Narrow /\ UNCHANGED scenario
MCSpec == MCInit /\ [][MCNext]_<<vars, scenario>>
=============================================================================
