SPECIFICATION Spec
CONSTANTS
    NPages = 3
    None = None
    Routes <- MCRoutes
    MaxFaults = 1
    MaxWrites = 1
    LeavesMidSwitch = FALSE
INVARIANTS
    Bridge
    MemoryIsCurrent
    SavedUnderItsName
    WindowIsTrue
PROPERTIES
    LoadsRespectJournal
