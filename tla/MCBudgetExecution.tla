------------------------- MODULE MCBudgetExecution -------------------------
(***************************************************************************)
(* Instances of BudgetExecution for TLC.                                   *)
(***************************************************************************)
EXTENDS BudgetExecution, TLC

CONSTANTS h1, h2
MCNewLimit == "raise" :> 3
Symmetry == Permutations(Hosts)
=============================================================================
