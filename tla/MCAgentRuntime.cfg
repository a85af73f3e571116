SPECIFICATION MCSpec
CONSTANTS
  t1 = t1
  t2 = t2
  Turns = {t1, t2}
  Durable = {t1}
  Capabilities = {"model", "tool"}
  MaxInFlight = 2
  MaxDetached = 1
  MaxWork = 2
  Faults = {"absent", "poison", "invalid", "foreign", "undrained", "unwind", "store", "clock", "seal", "late"}
INVARIANTS
  ToldTruly
  RecordSound
