SPECIFICATION FairSpec
CONSTANTS
    NPages = 3
    None = None
    Routes <- OneRoute
    MaxFaults = 1
    MaxWrites = 1
    LeavesMidSwitch = FALSE
PROPERTIES
    SwitchEnds
    ParkedRefreshEnds
