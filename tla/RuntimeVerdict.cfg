CONSTANTS
  Modes <- AllModes
  Outputs <- TestOutputs
  PtyCapacity = 2
  Environment = {}
SPECIFICATION Spec
INVARIANT FailedTestsFailTheRun
CHECK_DEADLOCK FALSE
