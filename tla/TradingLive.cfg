CONSTANTS
    Participants = {1}
    Codes = {"stock"}
    Stocks = {"stock"}
    Symbols = {"stock", "unlisted"}
    Quantities = {0, 1, 3}
    MaxQuantity = 3
    Requests = {r1}
    Certs = {c1}
    CertOwner <- MCOwner
    CertDay <- MCCertDay
    LastDay = 2
    InitialCash = 5
    InitialPrice <- MCPrice
    DrawnPrices = {3}
    RewardCash = 2
    HasLimit = FALSE
    LimitNum = 1
    LimitDen = 2
    QaTools = FALSE
    Batches = {b1}
    Free = Free
SPECIFICATION FairSpec
INVARIANTS TypeOK
PROPERTIES OrdersEnd BatchesEnd
CHECK_DEADLOCK FALSE
