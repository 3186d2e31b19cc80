SPECIFICATION Spec
CONSTANTS
  CommandLines <- TwoWithTemplates
  ThreadsSet = FALSE
INVARIANTS
  NoUndefined
