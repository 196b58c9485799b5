SPECIFICATION UnmistakenSpec
CONSTANTS
    None = None
    Txn = {t1, t2}
    Item = {i1}
    Wid = {w1}
    StartGold = 1
    OtherGold = 1
    GoldCap = 1
    ItemCap = 1
    MaxFaults = 1
    LateRequests = TRUE
    OperatorSales = FALSE
SYMMETRY Symmetry
INVARIANTS
    ItemInOnePlace
    GoldConserved
    WrittenOnce
    OneOpenTicket
    Accounts
PROPERTIES
    TicketOrder
CHECK_DEADLOCK FALSE
