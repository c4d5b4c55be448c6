CONSTANTS
    Schedulers = {s1}
    Consoles = {c1}
    Removals = {r1}
    LastDay = 3
    MaxLag = 2
    MaxByHand = 1
SPECIFICATION FairSpec
INVARIANTS TypeOK PricesAccounted NewsAsApplied
PROPERTY NothingStaysDue
