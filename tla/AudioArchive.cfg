SPECIFICATION FairSpec
CONSTANTS
    Sessions = {s1, s2}
    MaxChunks = 1
    MaxRetries = 1
    MaxCrashes = 1
    FaultSets = {{"disk", "ffmpeg", "crash"},
                 {"ffmpeg", "storage", "db", "broker", "crash", "user"}}
    NoFile = NoFile
    NoObject = NoObject
    s1 = s1
    s2 = s2
INVARIANTS
    KeyMatchesObject
    StoredIsComplete
    NoWavLeftBehind
PROPERTIES
    ArchiveSettles
CHECK_DEADLOCK FALSE
