SPECIFICATION Spec
CONSTANTS
  Bits = 3
  g1 = g1
  g2 = g2
  Goroutines = {g1, g2}
  Bundles = {b1, b2, b3, b4, b5, b6}
  NoBundle = NoBundle
  Cluts <- MCCluts
  Work <- MCWork
  Tolerance = 2
CHECK_DEADLOCK FALSE
INVARIANTS
  NodesAreExact
  AnswersAreNear
  FramesArePrivate
