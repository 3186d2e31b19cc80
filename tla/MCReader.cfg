SPECIFICATION Spec
CONSTANTS
  Settings <- MCSettings
  TwoStage = TRUE
  MaxOut = 6
INVARIANTS
  ReadsFit
  GotWhole
  FileIsBody
  NoFalseFailure
  PendingRead
PROPERTIES
  SizedFinishes
