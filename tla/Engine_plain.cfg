SPECIFICATION Spec
CONSTANTS
  N = 2
  Limit = 2
  ReadTimeout = 1
  MaxParts = 1
  Regexp = {1}
  Modes = {"get", "links", "head"}
  ReuseSocket = TRUE
  Ssl = FALSE
  OpenFails = {"start", "redirect"}
  TlsFails = {}
INVARIANTS
  TypeOK
  SlotTable
  FreshEvents
  GotExact
  SecondStageGot
  ResetsExact
PROPERTIES
  ImplementsDownloads
