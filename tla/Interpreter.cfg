SPECIFICATION FairSpec
CONSTANTS
  Object = {1, 2, 3, 4, 5, 6, 7, 8, 9, 10, 11, 12, 13, 14, 15, 16, 17, 18, 19, 20, 21, 22}
  NULL = NULL
  Name <- MCName
  Unbound = Unbound
  HeapSize = 3
  StackHeight = 4
  MaxFrames = 5
  IntBits = 6
  InitialMarks = {FALSE, TRUE}
  FnLimit = 4
  LiteralLimit = 4
  Deepest = 8
  Patience = 40
  Programs <- Small
  Blobs <- SmallBlobs
INVARIANTS
  TypeOK
  OutputAsMeant
  ReturnsToCaller
  EndsInRoot
  HeightsAsCounted
PROPERTIES
  RunsOnHeap
  ArithmeticAsInC
  ComesToRest
