SPECIFICATION Spec
CONSTANTS
  FnLimit = 4
  LiteralLimit = 4
  Name = {"x"}
  Deepest = 11
  MaxSteps = 5
INVARIANTS
  ControlStaysInside
  LoopsHaveAnExit
  DiesWhenFull
CHECK_DEADLOCK FALSE
