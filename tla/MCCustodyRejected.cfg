SPECIFICATION FairSpec
CONSTANTS
    None = None
    Txn = {t1, t2}
    Item = {i1}
    Wid = {w1}
    StartGold = 1
    OtherGold = 0
    GoldCap = 1
    ItemCap = 1
    MaxFaults = 1
    LateRequests = FALSE
    OperatorSales = TRUE
PROPERTIES
    RejectionClears
CHECK_DEADLOCK FALSE
