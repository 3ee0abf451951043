SPECIFICATION FairSpec
CONSTANTS
    Sessions = {s1, s2}
    MaxSegments = 2
    TooShort = 1
    Tasks = {t1, t2}
    MaxDeliveries = 2
    MaxWorkers = 2
    Faults = {"stt", "db", "llm", "broker", "crash"}
    s1 = s1
    s2 = s2
    t1 = t1
    t2 = t2
INVARIANTS
    ItemsMatchSummary
    StatusMatchesSummary
PROPERTIES
    ImplementsCard
    NeverOlder
    ProcessingResolves
\* The tasks are bounded: in the end all of them have settled.
CHECK_DEADLOCK FALSE
