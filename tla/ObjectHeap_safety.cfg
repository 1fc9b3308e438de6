SPECIFICATION Spec
CONSTANTS
  Object = {o1, o2, o3, o4}
  NULL = NULL
  Name = {x}
  Unbound = Unbound
  HeapSize = 3
  StackHeight = 2
  MaxFrames = 1
SYMMETRY Symmetry
INVARIANTS
  TypeOK
  HeapShape
  RootsLive
  PendingRootsMarked
  NullOnlyInVariables
PROPERTIES
  ImplementsCollector
  ArraysBeginWhole
CHECK_DEADLOCK FALSE
