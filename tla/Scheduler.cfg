SPECIFICATION PartSpec
CONSTANTS
    Schedules = {d1, d2}
    Second = d2
    Frequencies = {1, 2}
    StartTimes = {0, 2}
    EndTimes = {0, 2}
    MaxTime = 3
    MaxRuns = 4
    MaxRequests = 2
    MaxFaults = 1
INVARIANTS
    TypeOK
    EditsSurvive
PROPERTIES
    StartsWhatIsDue
    FrequencyKept
    LoopServesDue
CHECK_DEADLOCK FALSE
