SPECIFICATION FairSpec
CONSTANTS
    N = 1
    None = None
    Bonus = {}
    Milestone = {1}
    RecipeQuest = {}
    KillQuest = {}
    KillTarget = 1
    MaxSessions = 2
    MaxKills = 1
    MaxPackets = 1
    MaxFaults = 1
    DiskFails = TRUE
    Prompt = FALSE
INVARIANTS
    DurableIsOnDisk
PROPERTIES
    NoRollback
    RewardsReturn
    AcceptedReachesDisk
CHECK_DEADLOCK FALSE
