------------------------------ MODULE MCTools ------------------------------
(***************************************************************************)
(* The tools for TLC: ToolRuntime, which runs calls and records them, and  *)
(* ToolRecovery, which reads the records of one operation later.  scenario *)
(* tells what a behaviour is about:                                        *)
(*   calls       two calls of a turn, under every signal and fault         *)
(*   limit       three calls, of which the runtime takes two at a time     *)
(*   attempts    the attempts of an operation, of a tool of any effect     *)
(***************************************************************************)
EXTENDS ToolRuntime, ToolRecovery, TLC

CONSTANTS j1, j2, j3, t1

VARIABLE scenario

OneTurnOf == [j \in {j1, j2} |-> t1]
Symmetry == Permutations({j1, j2})

Three == {j1, j2, j3}
ThreeTurnOf == [j \in Three |-> t1]
None == {}
UnwindOnly == {"unwind"}
Limit == INSTANCE ToolRuntime WITH
  Jobs <- Three, TurnOf <- ThreeTurnOf, Signals <- None, Faults <- UnwindOnly

Holders == {"a", "b"}

MCInit == /\ RecoveryInit
          /\ \/ scenario = "calls" /\ Init /\ effect = "Unknown"
             \/ scenario = "limit" /\ Limit!Init /\ effect = "Unknown"
             \/ scenario = "attempts" /\ Init

MCNext == /\ \/ scenario = "calls" /\ Next /\ UNCHANGED recoveryVars
             \/ scenario = "limit" /\ Limit!Next /\ UNCHANGED recoveryVars
             \/ scenario = "attempts" /\ RecoveryNext /\ UNCHANGED vars
          /\ UNCHANGED scenario

MCSpec == MCInit /\ [][MCNext]_<<vars, recoveryVars, scenario>>
=============================================================================
