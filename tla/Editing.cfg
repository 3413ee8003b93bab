SPECIFICATION Spec
CONSTANTS
    None = None
    StoreItems <- MCItems
    Suites <- MCSuites
    Elsewhere <- MCElsewhere
    DraftSuites <- MCDraftSuites
    NewCommands <- MCNewCommands
    InHooks <- MCHookCommands
    InTests <- MCTestCommands
    Offers <- MCOffers
INVARIANTS
     DraftIsFaithful FormsKeepTheirCommand
PROPERTIES
    EditsDoWhatTheySay
CHECK_DEADLOCK FALSE
