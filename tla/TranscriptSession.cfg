SPECIFICATION FairSpec
CONSTANTS
    MaxChunks = 3
    MaxProbes = 1
    QueueMax = 2
    MaxFaults = 2
    Faults = {"db", "disk", "broker", "provider", "slow", "client"}
INVARIANTS
    WavHasNoGaps
    PersistedInOrder
    TrailingLinesStored
    ParkedOnlyWithoutLines
PROPERTIES
    SettledBeforeFinalization
    EndingSessionEnds
