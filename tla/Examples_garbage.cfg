SPECIFICATION Spec
CONSTANTS
  Object = {1, 2, 3, 4, 5, 6, 7, 8, 9, 10, 11, 12}
  NULL = NULL
  Name <- GarbageNames
  Unbound = Unbound
  HeapSize = 8
  StackHeight = 64
  MaxFrames = 3
  IntBits = 16
  InitialMarks = {FALSE, TRUE}
  FnLimit = 4
  LiteralLimit = 4
  Deepest = 8
  Patience = 40
  Programs <- GarbageCollect
  Blobs <- GarbageBlobs
INVARIANT FitsBecauseOfGC
