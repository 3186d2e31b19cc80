SPECIFICATION Spec
CONSTANTS
    N = 3
INVARIANTS
    CountHonest
    AtMostLimit
    ReportLast
PROPERTIES
    Ends
CHECK_DEADLOCK FALSE
