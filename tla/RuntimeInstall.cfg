CONSTANTS
  Names <- MCNames
  Releases <- MCReleases
  Files <- MCFiles
  Ships <- MCShips
  Named <- MCNamed
  Layouts <- MCLayouts
  MaxFaults = 1
SPECIFICATION Spec
INVARIANTS ReplacementIsReady InstalledIsGenuine FailureHasACause LockIsTrue AllIsRecorded
