CONSTANTS
  MaxCommit = 2
  Requests <- DailyRequests
  References <- DailyReferences
  Environment <- DailyEnvironment
SPECIFICATION Spec
INVARIANT ChangedConstraintIsResolved
