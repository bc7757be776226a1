SPECIFICATION FairSpec
CONSTANTS
    a1 = a1
    a2 = a2
    Body <- Attempts
    MaxBackoff = 6
    MaxMarks = 3
    MaxFlushes = 2
INVARIANTS OneAttempt NeverForgotten
PROPERTIES RetriesEnd Delivered
CHECK_DEADLOCK FALSE
