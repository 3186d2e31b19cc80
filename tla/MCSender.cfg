SPECIFICATION Spec
CONSTANTS
  Settings <- MCSettings
  MaxReferer = 2
  ReadTimeout = 1
INVARIANTS
  RequestWhole
  PathSafe
PROPERTIES
  Resolves
