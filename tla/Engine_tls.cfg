SPECIFICATION Spec
CONSTANTS
  N = 2
  Limit = 1
  ReadTimeout = 1
  MaxParts = 1
  Regexp = {1}
  Modes = {"get", "links", "head"}
  ReuseSocket = TRUE
  Ssl = TRUE
  OpenFails = {"start", "redirect"}
  TlsFails = {"reset", "html"}
INVARIANTS
  OutstandingExact
  NoAbandon
  SlotForStart
PROPERTIES
  Termination
