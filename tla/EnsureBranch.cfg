CONSTANTS
  MaxCommit = 2
  Requests <- BranchRequests
  References <- BranchReferences
  Environment <- BranchEnvironment
SPECIFICATION Spec
PROPERTY CommandEnds
