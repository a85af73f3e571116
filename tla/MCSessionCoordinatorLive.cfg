SPECIFICATION LiveSpec
CONSTANTS
  c1 = c1
  c2 = c2
  e1 = e1
  e2 = e2
  old = old
  None = None
  Callers <- MCCallers
  EventIds <- MCEventIds
  Drafts <- MCDrafts
  InitialLogs <- MCEmpty
  Storages <- MCSoundStorage
  TokenLimit = 3
  MaxQueue = 2
PROPERTIES
  ImplementsLog
  FairlyAnswered
  ShutdownCompletes
