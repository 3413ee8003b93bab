SPECIFICATION Spec
CONSTANTS
    None = None
    One = {"a"}
    Two = {"a", "b"}
    Three = {"a", "b", "c"}
    Listeners = {"l1", "l2"}
    Named = {"l1"}
    Outbox <- MCOutbox
    Unreadable = {"b"}
    Receivers = {"r1", "r2"}
    Asked <- MCAsked
    Retry <- MCRetry
INVARIANTS
    ReaderKeepsAccount ExecutedThenDeleted ReceiversAreApart
PROPERTIES
    LoopsServe
CHECK_DEADLOCK FALSE
