SPECIFICATION FairSpec
CONSTANTS
    a1 = a1
    a2 = a2
    Body <- Attempts
    MaxBackoff = 6
    MaxMarks = 2
    MaxFlushes = 0
PROPERTY ReEvaluated
CHECK_DEADLOCK FALSE
