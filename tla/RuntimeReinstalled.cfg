CONSTANTS
  Names <- MCNames
  Releases <- MCReleases
  Files <- MCFiles
  Ships <- MCShips
  Named <- MCNamed
  Layouts <- MCLayouts
  MaxFaults = 0
SPECIFICATION Spec
PROPERTIES CompleteIsLeftAlone
