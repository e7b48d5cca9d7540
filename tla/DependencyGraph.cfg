CONSTANTS
  App = app  Lib = lib  Fork = fork  Core = core
  AppRepo = app_repo  LibRepo = lib_repo  CoreRepo = core_repo
  Packages <- MCPackages
  Project = app
  RepoName <- MCRepoName
  Definitions <- MCDefinitions
  Requests <- MCRequests
SPECIFICATION GraphSpec
INVARIANTS OneRevisionPerName OpenedIsCached
PROPERTIES ImplementsClosure OnlyRefreshedCopiesAreLost WalkEnds
