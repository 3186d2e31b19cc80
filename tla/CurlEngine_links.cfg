SPECIFICATION Spec
CONSTANTS
  N = 1
  Limit = 1
  Regexp = {1}
  Modes = {"links"}
  BuildFails = {}
PROPERTIES
  Termination
