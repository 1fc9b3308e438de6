SPECIFICATION FairSpec
CONSTANTS
  Commands <- MCCommands
  Alphabet <- MCAlphabet
  Continuations <- MCContinuations
  Dies <- CompilerDies
  MaxTokens = 6
  BufSize = 3
  FnLimit = 4
  LiteralLimit = 4
  Name <- MCNames
  Deepest = 8
INVARIANTS
  TypeOK
  ParsesAsRead
  NothingLeftOut
  DoesAsTold
  ExamplesParse
PROPERTY InputEnds
