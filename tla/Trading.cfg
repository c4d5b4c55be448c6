CONSTANTS
    Participants = {1}
    Codes = {"stock"}
    Stocks = {"stock"}
    Symbols = {"stock"}
    Quantities = {1}
    MaxQuantity = 3
    Requests = {r1, r2}
    Certs = {c1}
    CertOwner <- MCOwner
    CertDay <- MCCertDay
    LastDay = 2
    InitialCash = 5
    InitialPrice <- MCPrice
    DrawnPrices = {3}
    RewardCash = 2
    HasLimit = TRUE
    LimitNum = 1
    LimitDen = 2
    QaTools = FALSE
    Batches = {b1}
    Free = Free
SYMMETRY OrderSymmetry
SPECIFICATION Spec
INVARIANTS BooksBalance DailyLimitKept SettledTradesFrozen NoLockCycle
CHECK_DEADLOCK FALSE
PROPERTIES NoTradeOnceDisqualified
