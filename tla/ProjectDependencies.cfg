CONSTANTS
  Lib = lib  Fork = fork  Core = core  LibDir = lib_dir  CoreDir = core_dir
  None = none  Torn = torn
  Packages <- MCPackages
  Name <- MCName
  Needs <- MCNeeds
  Broken <- MCBroken
  Manifests <- MCManifests
  Requests <- MCRequests
  MaxVersion = 2
  MaxChanges = 3
SPECIFICATION Spec
INVARIANTS DirectIsLocked LockIsNeeded FailureKeepsProject
PROPERTY DirectIsStable
CHECK_DEADLOCK FALSE
