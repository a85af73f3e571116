SPECIFICATION MCSpec
CONSTANTS
  c1 = c1
  c2 = c2
  c3 = c3
  Callers = {c1, c2, c3}
  N = 4
  MaxPlugins = 4
  Capabilities <- TwoCapabilities
  Compositions <- AllCompositions
  Keys <- TwoKeys
  BadMounts <- Badly
SYMMETRY CallerSymmetry
INVARIANTS
  LifeOrdered
  CompositionRight
  OrderRight
