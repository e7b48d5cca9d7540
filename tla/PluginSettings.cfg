CONSTANTS
  Newest = 2
  Includes <- MCIncludes
  Plugins <- MCPlugins
  Settings <- MCSettings
  Ignored <- MCIgnored
  MaxAttempts = 2
  MaxFaults = 1
SPECIFICATION Spec
PROPERTIES IgnoredIsKept
