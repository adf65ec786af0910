CONSTANTS
    Binding = {1, 2, 3, 4}
    Goroutine = {g, h}
    Uses <- MCUses
SPECIFICATION Spec
PROPERTIES
    FalseReportNeedsOther
CHECK_DEADLOCK FALSE
