SPECIFICATION Spec
CONSTANTS
    None = None
    Targets <- MCTargets
    Codes = {"setVariable", "deleteVariable", "sleep", "sendMessageQueue", "saveTable",
             "dropTable", "cleanTable", "exportDataset", "dropDataset", "cleanDataset",
             "receiveQueue", "queryDatabase", "runSuite", "jsonEquals", "jsonEmpty",
             "jsonContains", "jsonArrayEquals", "readApi", "writeApi"}
    AssertNames <- MCAssertNames
    AssertSources <- MCAssertSources
    StoredArrays <- MCStoredArrays
    Asserted <- MCAsserted
    Sources <- MCSources
    Paths <- MCPaths
    Constants <- MCConstants
    OtherSources <- MCFewSources
    OtherPaths <- MCFewPaths
INVARIANTS
    ConstantsAreAsPlanned CommandsDoWhatIsWritten
PROPERTIES
    StepsKeepMeaning
CHECK_DEADLOCK FALSE
