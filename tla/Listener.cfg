SPECIFICATION ListenerSpec
CONSTANTS
    Items = 2
    HookSets = {{"before_each"}, {"before_all"}}
    Stream = s
    Streams = {s}
    Frame <- Frames
    Marked = {}
    HistorySize = 3
    QueueSize = 1
    MaxFrames = 8
    MaxBreaks = 1
    MaxLogs = 1
    ThreadId = t
    RowId = r
    OldRow = o
    None = None

INVARIANTS StateIsTrue
PROPERTY LearnsTheEnd
CHECK_DEADLOCK FALSE
