SPECIFICATION Spec
CONSTANTS
  h1 = h1
  h2 = h2
  Hosts = {h1, h2}
  GrantOps = {"raise"}
  RecoverOps = {"repair"}
  NewLimit <- MCNewLimit
  Ceilings = {1, 3}
  Costs = {1}
  First = 2
  MaxRevision = 6
  MaxExec = 2
SYMMETRY Symmetry
INVARIANTS OneExecutor ImageTruthful
PROPERTIES ClosedByItsTurn ImplementsClaim
