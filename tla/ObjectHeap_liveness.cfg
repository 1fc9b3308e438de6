SPECIFICATION FairSpec
CONSTANTS
  Object = {o1, o2, o3}
  NULL = NULL
  Name = {x}
  Unbound = Unbound
  HeapSize = 2
  StackHeight = 2
  MaxFrames = 2
INVARIANT RootsLive
PROPERTY GarbageReclaimed
CHECK_DEADLOCK FALSE
