SPECIFICATION Spec
CONSTANTS
  Object = {1, 2, 3, 4, 5, 6, 7, 8, 9, 10, 11, 12, 13, 14, 15, 16, 17, 18, 19, 20, 21, 22, 23, 24, 25, 26, 27, 28, 29, 30, 31, 32, 33, 34, 35, 36, 37, 38, 39, 40}
  NULL = NULL
  Name <- RecordedNames
  Unbound = Unbound
  HeapSize = 8
  StackHeight = 64
  MaxFrames = 3
  IntBits = 16
  InitialMarks = {FALSE}
  FnLimit = 4
  LiteralLimit = 4
  Deepest = 8
  Patience = 40
  Programs <- Recorded
  Blobs <- RecordedBlobs
INVARIANTS
  ExamplesPrintAsRecorded
  ArraysPrintAsMeant
