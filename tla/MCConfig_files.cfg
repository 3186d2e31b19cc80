SPECIFICATION Spec
CONSTANTS
  CommandLines <- Lines
  ThreadsSet = FALSE
INVARIANTS
  ReadBack
PROPERTIES
  ListedFinal
