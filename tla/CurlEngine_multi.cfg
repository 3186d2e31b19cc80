SPECIFICATION Spec
CONSTANTS
  N = 3
  Limit = 2
  Regexp = {1, 3}
  Modes = {"get", "links"}
  BuildFails = {"start"}
INVARIANTS
  OutstandingExact
  OneExtension
PROPERTIES
  ImplementsDownloads
  LoopEnds
