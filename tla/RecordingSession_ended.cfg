SPECIFICATION Spec
CONSTANTS
    MaxStarts = 2
    MaxDrains = 2
    MaxRequests = 2
    RepliesInOrder = TRUE
INVARIANT EndedMeansEnded
CHECK_DEADLOCK FALSE
