CONSTANTS
  MaxCommit = 2
  Requests <- LockOnlyRequests
  References <- PinnedReferences
  Environment <- DailyEnvironment
SPECIFICATION Spec
INVARIANT PinnedIsInstalled
