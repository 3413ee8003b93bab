SPECIFICATION FairSpec
CONSTANTS
    Schedules = {d1}
    Frequencies = {1}
    StartTimes = {0}
    EndTimes = {2}
    MaxTime = 4
    MaxRuns = 2
    MaxRequests = 0
    MaxFaults = 0
PROPERTIES
    StatusFollowsRun
CHECK_DEADLOCK FALSE
