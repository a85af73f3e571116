SPECIFICATION MCSpec
CONSTANTS
  p1 = p1
  p2 = p2
  q1 = q1
  q2 = q2
  j1 = j1
  j2 = j2
  j3 = j3
  Providers = {p1, p2}
  Recovery = {}
  Stoppable = {}
  Jobs = {j1, j2}
  Events <- MCEvents
  None = None
  Torn = Torn
  Faults = {"write", "sync", "crash", "power"}
SYMMETRY Symmetry
INVARIANTS
  DefiniteIsTrue
  StopsAndCloses
PROPERTIES
  LatchAndIsolation
  ImplementsPromise
