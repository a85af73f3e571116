SPECIFICATION MCSpec
CONSTANTS
  j1 = j1
  j2 = j2
  k = k
  t1 = t1
  t2 = t2
  Jobs = {j1, j2, k}
  Turns = {t1, t2}
  TurnOf <- MCTurnOf
  Streams = {j1}
  MaxConcurrency = 1
  MaxInflight = 3
  MaxQueued = 2
  Signals = {"budget", "cancel", "timeout", "consumer"}
  Faults = {"recording", "unwind", "abandon"}
INVARIANTS
  SlotsRight
  DrainedQuiet
  ClosureTruthful
PROPERTIES
  NoOvertaking
