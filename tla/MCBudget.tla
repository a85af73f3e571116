------------------------------ MODULE MCBudget ------------------------------
(***************************************************************************)
(* The budget for TLC: BudgetWaiters, which sees of the ledger only that   *)
(* it stops, and BudgetLedger, which knows nothing of waiters.  scenario   *)
(* tells what a behaviour is about:                                        *)
(*   waiters  calls of stopped, next to threads that use the ledger        *)
(*   ledger   runs and reservations next to no time                        *)
(*   clock    steps of the clock with one kind of reservation              *)
(* The last two are the ledger with a part of what its constants allow.    *)
(* Resource 1 is an attempt, resource 2 is variable.                       *)
(***************************************************************************)
EXTENDS BudgetWaiters, BudgetLedger, TLC

VARIABLE scenario

Q(a, v) == 1 :> a @@ 2 :> v
L(a, v, t) == [res |-> Q(a, v), time |-> t]
U(kind, n) == 2 :> [kind |-> kind, amount |-> n]

LedgerRequests == {Q(1, 0), Q(1, 2)}
LedgerLimits == {L(2, 3, 1), L(3, 2, 1)}
LedgerUsages == {U("actual", 1), U("actual", 3), U("unknown", 0)}
LedgerElapsed == {0, 1}
Ledger == INSTANCE BudgetLedger WITH
  Requests <- LedgerRequests, Limits <- LedgerLimits, Usages <- LedgerUsages,
  Elapsed <- LedgerElapsed

ClockRequests == {Q(1, 2)}
ClockLimits == {L(2, 2, 2), L(2, 1, 3)}
ClockUsages == {U("actual", 2), U("estimated", 1), U("unknown", 0)}
ClockElapsed == {0, 1, 2, -1}
Clock == INSTANCE BudgetLedger WITH
  Requests <- ClockRequests, Limits <- ClockLimits, Usages <- ClockUsages,
  Elapsed <- ClockElapsed, MaxId <- 2

MCRequests == LedgerRequests \cup ClockRequests
MCLimits == LedgerLimits \cup ClockLimits
MCUsages == LedgerUsages \cup ClockUsages
MCElapsed == LedgerElapsed \cup ClockElapsed

ASSUME Ledger!RequestsAssumption /\ Ledger!HostLimitsAssumption /\ Ledger!UsagesAssumption
ASSUME Clock!RequestsAssumption /\ Clock!HostLimitsAssumption /\ Clock!UsagesAssumption
ASSUME Clock!WidthsAssumption /\ Ledger!ElapsedAssumption /\ Clock!ElapsedAssumption

MCInit == \/ scenario = "waiters" /\ WaitersInit /\ LedgerInit /\ account.limits = L(2, 3, 1)
          \/ scenario = "ledger" /\ WaitersInit /\ Ledger!LedgerInit
          \/ scenario = "clock" /\ WaitersInit /\ Clock!LedgerInit

MCNext == /\ \/ scenario = "waiters" /\ WaitersNext /\ UNCHANGED accounts
             \/ scenario = "ledger" /\ Ledger!LedgerNext /\ UNCHANGED waiting
             \/ scenario = "clock" /\ Clock!LedgerNext /\ UNCHANGED waiting
          /\ UNCHANGED scenario

MCSpec == MCInit /\ [][MCNext]_<<waiting, accounts, scenario>>
=============================================================================
