SPECIFICATION MCSpec
CONSTANTS
  c1 = c1
  c2 = c2
  e1 = e1
  e2 = e2
  old = old
  None = None
  Callers <- MCCallers
  EventIds <- MCEventIds
  Drafts <- MCConflicting
  InitialLogs <- MCInitialLogs
  Storages <- MCStorages
  TokenLimit = 3
  MaxQueue = 2
SYMMETRY Symmetry
ACTION_CONSTRAINT Narrow
INVARIANTS
  LeaseExclusive
  LeasesEnd
  MemoryTruthful
  ObserversFollow
  AnswersTruthful
