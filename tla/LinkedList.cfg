SPECIFICATION Spec
CONSTANTS
  Node = {n1, n2, n3, n4}
  Data = {d1, d2}
  NULL = NULL
SYMMETRY Symmetry
INVARIANT LinkedBothWays
PROPERTIES
  ImplementsDeque
  WalkStaysWhole
