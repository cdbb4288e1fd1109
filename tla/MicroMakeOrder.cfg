CONSTANTS
  VERTEX = 3
  MaxEdges = 2
SPECIFICATION Spec
INVARIANT OrderFits
