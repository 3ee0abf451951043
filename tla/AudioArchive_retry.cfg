SPECIFICATION Spec
CONSTANTS
    Sessions = {s1}
    MaxChunks = 2
    MaxRetries = 3
    MaxCrashes = 0
    FaultSets = {{"ffmpeg"}}
    NoFile = NoFile
    NoObject = NoObject
    s1 = s1
INVARIANTS
    RetryFindsSource
CHECK_DEADLOCK FALSE
