SPECIFICATION OfflineSpec
CONSTANTS
    None = None
    Txn = {t1, t2}
    Item = {i1}
    Wid = {w1}
    StartGold = 1
    OtherGold = 0
    GoldCap = 1
    ItemCap = 1
    MaxFaults = 1
    LateRequests = FALSE
    OperatorSales = FALSE
INVARIANTS
    OpenTicketIsPending
    TakenDepositIsCommittable
PROPERTIES
    ImplementsLedger
    PendingResolves
    OpenTicketEnds
    AppliedPageReturns
CHECK_DEADLOCK FALSE
