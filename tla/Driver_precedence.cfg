SPECIFICATION Spec
CONSTANTS
  Commands <- MathematicalOnly
  Alphabet <- MCAlphabet
  Continuations <- MCContinuations
  Dies <- CompilerDies
  MaxTokens = 0
  BufSize = 64
  FnLimit = 4
  LiteralLimit = 4
  Name <- MCNames
  Deepest = 8
INVARIANT MathematicalPrintsAsSaid
