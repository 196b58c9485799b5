SPECIFICATION Spec
CONSTANTS
    NPages = 3
    None = None
    Routes <- OneRoute
    MaxFaults = 0
    MaxWrites = 1
    LeavesMidSwitch = TRUE
INVARIANTS
    MemoryIsCurrent
