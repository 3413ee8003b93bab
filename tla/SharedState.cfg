SPECIFICATION Spec
CONSTANTS
    m1 = m1
    m2 = m2
    q1 = q1
    q2 = q2
    t1 = t1
    None = None
    Servers = {m1, m2}
    Endpoints = {"e1", "e2"}
    Queues = {q1, q2}
    Tenants = {t1}
    TenantOf <- OneTenant
    Bindings <- ListsOfQueues
    Faults = {"load", "listener", "log", "write"}
    MaxStarts = 3
    New = "new"
    Runs = {1, 2}
    Tables = {"t"}
    Datasets = {"d", "e"}
    Named <- MCNamed
    Keys = {"a", "b"}
    Commands <- MCCommands
    Lengths <- MCLengths
    MaxCommands = 3
    MaxFaults = 1
    Ids = {"d1", "d2", "d3"}
    PageFaults = TRUE
    MaxVersion = 3
    Loaded <- MCLoaded
    MaxOfHook = 4
    MaxClicks = 6
INVARIANTS
    RegistryFollowsTable TablesAreAsMeant SessionsAreTrue
PROPERTIES
    NothingIsLost StoppedListenersEnd
CHECK_DEADLOCK FALSE
