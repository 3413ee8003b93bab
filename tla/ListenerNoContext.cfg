CONSTANTS
    Listeners = {l1, l2}
    Messages = {a, b}
    MaxBatch = 1
    WithContext = {}
    MaxCount = 2
    MaxFaults = 0
SPECIFICATION Spec
CHECK_DEADLOCK FALSE
PROPERTY AckAlways
