CONSTANTS
  MaxEdits = 3
  Commands = {"build", "run"}
SPECIFICATION Spec
INVARIANT RestartedIsBuilt
CHECK_DEADLOCK FALSE
