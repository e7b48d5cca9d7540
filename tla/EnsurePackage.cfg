CONSTANTS
  MaxCommit = 2
  Requests <- MCRequests
  References <- MCReferences
  Environment <- MCEnvironment
SPECIFICATION Spec
INVARIANTS EnsuredIsLocked Reproducible AskedIsInstalled SkippedOnlyForTheLock
PROPERTIES NoLossWhileOnline LockedCommitIsStable
