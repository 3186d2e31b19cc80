SPECIFICATION Spec
CONSTANTS
  N = 1
  Limit = 1
  Regexp = {}
  Modes = {"get"}
  BuildFails = {}
INVARIANTS
  GotWhole
