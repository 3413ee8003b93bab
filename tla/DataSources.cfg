SPECIFICATION Spec
CONSTANTS
    Unused = Unused
    Tables <- MCTables
    ConstantValues <- MCConstantValues
    AllSent <- MCAllSent
    SomeSent <- MCSomeSent
    Bindings <- MCBindings
    Stored <- MCStored
    TypedConditions <- MCTypedConditions
    Rows <- MCRows
    Routes <- MCRoutes
    Requests <- MCRequests
    Values <- MCValues
INVARIANTS
    DataKeepsItsMeaning
PROPERTIES
    EditsStayWhereTheyAre
CHECK_DEADLOCK FALSE
