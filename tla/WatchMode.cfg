CONSTANTS
  MaxEdits = 3
  Commands = {"build", "run"}
SPECIFICATION Spec
INVARIANTS BuildsAnswerEdits RunningIsTrue ServerIsFresh
PROPERTIES EveryEditIsBuilt SignalEndsWatch
CHECK_DEADLOCK FALSE
