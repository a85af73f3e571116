SPECIFICATION TurnSpec
CONSTANTS
  t1 = t1
  t2 = t2
  Turns = {t1}
  Durable = {}
  Capabilities = {}
  MaxInFlight = 1
  MaxDetached = 1
  MaxWork = 0
  Faults = {"late"}
INVARIANTS
  ReportAgrees
