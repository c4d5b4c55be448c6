CONSTANTS
    Participants = {1}
    Codes = {"stock"}
    Stocks = {"stock"}
    Symbols = {"stock"}
    Quantities = {1, 2}
    MaxQuantity = 9
    Requests = {r1, r2, r3}
    Certs = {c1}
    CertOwner <- MCOwner
    CertDay <- MCCertDay
    LastDay = 2
    InitialCash = 8
    InitialPrice <- MCPrice
    DrawnPrices = {3}
    RewardCash = 3
    HasLimit = TRUE
    LimitNum = 1
    LimitDen = 2
    QaTools = TRUE
SYMMETRY OrderSymmetry
SPECIFICATION Spec
INVARIANTS TypeOK BooksBalance DailyLimitKept SettledTradesFrozen AveragePriceHonest TicketHonest
PROPERTIES PublishedPricesFixed
CHECK_DEADLOCK FALSE
