------------------------------- MODULE MCTask -------------------------------
(***************************************************************************)
(* A Task for TLC: TaskCoordinator, and TaskHistory, whose history is that *)
(* of one log seen by one reader.  scenario tells what a behaviour is      *)
(* about:                                                                  *)
(*   turns    two coordinators and a host                                  *)
(*   reader   a history into which another writer may write anything       *)
(*   capture  a longer history of steps, of which snapshots are taken      *)
(***************************************************************************)
EXTENDS TaskCoordinator, TaskHistory, TLC

CONSTANTS c1, c2, t1, t2, k1, k2, s1, s2

VARIABLE scenario

Symmetry == UNION {Permutations(S) : S \in {{c1, c2}, {t1, t2}, {k1, k2}, {s1, s2}}}

OneStep == {s1}
Foreign == TRUE
Reader == INSTANCE TaskHistory WITH StepIds <- OneStep, Strangers <- Foreign, MaxEvents <- 6

StepKinds == Kinds \ {"report", "other"}
Captures == INSTANCE TaskHistory WITH Kinds <- StepKinds

ASSUME Reader!NoneAssumption /\ Reader!EventsAssumption

MCInit == Init /\ HistoryInit /\ scenario \in {"turns", "reader", "capture"}

MCNext == /\ \/ scenario = "turns" /\ Next /\ UNCHANGED assessment
             \/ scenario = "reader" /\ Reader!HistoryNext /\ UNCHANGED vars
             \/ scenario = "capture" /\ Captures!HistoryNext /\ UNCHANGED vars
          /\ UNCHANGED scenario

MCSpec == MCInit /\ [][MCNext]_<<vars, assessment, scenario>>
=============================================================================
