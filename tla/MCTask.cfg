SPECIFICATION MCSpec
CONSTANTS
  c1 = c1
  c2 = c2
  t1 = t1
  t2 = t2
  k1 = k1
  k2 = k2
  s1 = s1
  s2 = s2
  Coordinators = {c1, c2}
  Closers = {}
  MaxTurns = 2
  MaxRevision = 3
  MaxBudget = 4
  TurnIds = {t1, t2}
  CallIds = {k1, k2}
  StepIds = {s1, s2}
  Kinds = {"user", "model", "model result", "tool", "tool result", "report", "other", "terminal"}
  Strangers = FALSE
  MaxEvents = 8
SYMMETRY Symmetry
INVARIANTS
  OneContinuation
  SnapshotTrue
  HistoryRead
CHECK_DEADLOCK FALSE
