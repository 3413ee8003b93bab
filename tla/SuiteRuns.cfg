SPECIFICATION PartSpec
CONSTANTS
    MaxTests = 2
    MaxCommands = 1
    HookSets <- AllHookSets
    Exceptions = {"empty", "text"}
INVARIANTS
    TypeOK
    VerdictMatchesItems
    StoredRowsAreClosed
    HooksBracketTests
    RequestedTestsRun
    EventsMatchStore
    LocalConstantsStayLocal
PROPERTIES
    RunEnds
CHECK_DEADLOCK FALSE
