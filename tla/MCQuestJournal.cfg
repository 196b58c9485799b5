SPECIFICATION Spec
CONSTANTS
    N = 2
    None = None
    Bonus = {1}
    Milestone = {2}
    RecipeQuest = {1}
    KillQuest = {2}
    KillTarget = 2
    MaxSessions = 2
    MaxKills = 2
    MaxPackets = 2
    MaxFaults = 1
    DiskFails = FALSE
    Prompt = TRUE
INVARIANTS
    Claims
    OneRewardAhead
    RewardOnce
    SaveBarrier
CHECK_DEADLOCK FALSE
