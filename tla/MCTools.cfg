SPECIFICATION MCSpec
CONSTANTS
  j1 = j1
  j2 = j2
  j3 = j3
  t1 = t1
  Jobs = {j1, j2}
  Turns = {t1}
  TurnOf <- OneTurnOf
  MaxInFlight = 2
  Signals = {"cancel", "timeout", "budget", "stop"}
  MaxAttempts = 4
  Takers <- Holders
  Faults = {"recording", "unwind", "abandon"}
SYMMETRY Symmetry
INVARIANTS
  BodyAccounted
  ClosureTruthful
  AttemptsSound
CHECK_DEADLOCK FALSE
