CONSTANTS
  Modes <- AllModes
  Outputs <- MCOutputs
  PtyCapacity = 2
  Environment <- Interruptions
SPECIFICATION Spec
PROPERTY InterruptedRunReturns
CHECK_DEADLOCK FALSE
