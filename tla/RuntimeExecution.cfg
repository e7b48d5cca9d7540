CONSTANTS
  Modes <- AllModes
  Outputs <- MCOutputs
  PtyCapacity = 2
  Environment <- Interruptions
SPECIFICATION Spec
INVARIANTS OutputInOrder OutputIsComplete OnlyInputIsLeft SuccessIsEarned
PROPERTY RunReturns
CHECK_DEADLOCK FALSE
