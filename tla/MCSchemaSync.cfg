SPECIFICATION FairSpec
CONSTANTS
    u1 = u1
    u2 = u2
    Runs = {u1, u2}
    Records = {1, 2, 3}
    FirstMarks <- MCMarks
    Settings <- MCSettings
    PageSize = 2
    Resume = {TRUE}
    MaxMark = 4
    MaxFaults = 1
CHECK_DEADLOCK FALSE
INVARIANTS
    TypeOK
    CaughtUp
    StallStopsEarly
    CheckpointCoversWritten
PROPERTIES
    FreshPassIsComplete
    EverythingArrives
