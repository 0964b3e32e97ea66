CONSTANTS
  c1 = c1
  c2 = c2
  Connections <- TwoConnections
SPECIFICATION Spec
INVARIANT ListensUntilReported
