SPECIFICATION FairSpec
CONSTANTS
    MaxStarts = 2
    MaxDrains = 2
    MaxRequests = 2
    RepliesInOrder = TRUE
INVARIANTS
    BusyHasFlow
    AudioToOwnSocket
    RecordingIsStreamed
PROPERTIES
    LeftByStopOnly
    BusyPhaseResolves
\* The interface waits for the user.
CHECK_DEADLOCK FALSE
