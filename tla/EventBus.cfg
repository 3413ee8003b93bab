SPECIFICATION FairSpec
CONSTANTS
    Streams = {s1, s2}
    Frame = {plain, finish}
    Marked = {finish}
    HistorySize = 2
    QueueSize = 2
    MaxFrames = 4
INVARIANTS
    TypeOK
    InOrder
    NoSilentLoss
    ReplaysFromTheStart
PROPERTIES
    ClosedIsQuiet
    FinishEndsStreams
    BusIsFeed
CHECK_DEADLOCK FALSE
