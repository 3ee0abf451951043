SPECIFICATION FairSpec
CONSTANTS
    Items = {i1, i2}
    MaxWrites = 2
    PatientUser = TRUE
INVARIANTS
    TicksConverge
PROPERTIES
    PreparingEnds
    SummaryAppears
\* The interface waits for the user.
CHECK_DEADLOCK FALSE
