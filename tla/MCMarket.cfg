SPECIFICATION Spec
CONSTANTS
    ann = ann
    ben = ben
    gem = gem
    None = None
    Open = Open
    Players <- MCPlayers
    Kinds = {gem}
    Kind <- MCKind
    FirstItem <- MCItem
    FirstGold <- MCGold
    Payments <- MCPayments
    Spots = {1}
    Budget = 2
    PassLimit = 1
    MaxListings = 2
    MaxOffers = 2
    MaxPosts = 1
    MaxRev = 3
    MaxTerms = 2
    MaxMoves = 2
INVARIANTS Orderly OneActiveListing AgreementsAreUnique SettledAsAgreed NothingReadyWaits
CHECK_DEADLOCK FALSE
