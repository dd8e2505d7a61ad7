SPECIFICATION Spec
CONSTANTS
  MaxLen = 5
  Depths = {0, 1, 2}
INVARIANTS
  StepOverCorrect
CHECK_DEADLOCK FALSE
