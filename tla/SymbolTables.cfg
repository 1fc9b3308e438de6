SPECIFICATION Spec
CONSTANTS
  Key = {x, y, z}
  Data = {d}
  NULL = NULL
  Unbound = Unbound
  Node = {n1, n2, n3}
  MaxFrames = 3
SYMMETRY Symmetry
INVARIANTS
  TypeOK
  ChainsWhole
PROPERTY ImplementsScopes
