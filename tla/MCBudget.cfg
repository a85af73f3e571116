SPECIFICATION MCSpec
CONSTANTS
  Waiters = {w1, w2}
  Users = {u1, u2}
  MaxUses = 2
  Attempts = {1}
  Variable = {2}
  Requests <- MCRequests
  Limits <- MCLimits
  Usages <- MCUsages
  Elapsed <- MCElapsed
  MaxValue = 4
  MaxId = 3
INVARIANTS
  NoLostWakeup
  AccountsExact
  Transferable
PROPERTIES
  SpentForGood
CHECK_DEADLOCK FALSE
