---------------------------- MODULE LedgerRules ----------------------------
(***************************************************************************)
(* The rules every transaction that touches a participant's money follows, *)
(* as operators over plain values: which order is filled and which is      *)
(* refused, what a fill does to an account, which rewards are due, and     *)
(* which price a day opens with.  Ledger (one atomic step per transaction) *)
(* and Trading (the transactions with their locks) share them.             *)
(***************************************************************************)
EXTENDS Integers, FiniteSets, FiniteSetsExt

CONSTANTS
    Participants,   \* participant ids; rows are locked in increasing order
    Codes,          \* instruments of the master list (BY_CODE)
    Stocks,         \* the instruments whose trades move their price
    Symbols,        \* codes a client may send, listed or not
    Quantities,     \* quantities a client may send, valid or not
    MaxQuantity,    \* QUANTITY_MAX
    Requests,       \* order ids: one POST /api/me/orders each
    Certs,          \* study certifications
    CertOwner,      \* [Certs -> Participants]
    CertDay,        \* [Certs -> Days], the target date
    LastDay,        \* operating days are 1..LastDay
    InitialCash,    \* INITIAL_CASH
    InitialPrice,   \* [Codes -> Nat \ {0}], prices of the first day
    DrawnPrices,    \* prices a settlement may produce
    RewardCash,     \* reward_cash
    HasLimit,       \* daily_buy_limit_ratio is not None
    LimitNum,       \* daily_buy_limit_ratio = LimitNum / LimitDen
    LimitDen

ASSUME ParticipantsAssumption == Participants \subseteq Nat
ASSUME CodesAssumption ==
    Stocks \subseteq Codes /\ Codes \subseteq Symbols /\ IsFiniteSet(Codes)
ASSUME QuantitiesAssumption == Quantities \subseteq Int /\ MaxQuantity \in Nat \ {0}
ASSUME CertsAssumption ==
    /\ CertOwner \in [Certs -> Participants]
    /\ CertDay \in [Certs -> Nat]
    /\ IsFiniteSet(Certs)
ASSUME MoneyAssumption ==
    /\ InitialCash \in Nat
    /\ InitialPrice \in [Codes -> Nat \ {0}]
    /\ DrawnPrices \subseteq Nat \ {0}
    /\ RewardCash \in Nat
ASSUME DaysAssumption == LastDay \in Nat \ {0}
ASSUME LimitAssumption ==
    /\ HasLimit \in BOOLEAN
    /\ LimitNum \in Nat
    /\ LimitDen \in Nat \ {0}

Days == 1 .. LastDay

\* A participant's cash and, per instrument, quantity and purchase cost.
Account == [cash : Nat, quantity : [Codes -> Nat], cost : [Codes -> Nat]]

OpeningAccount ==
    [cash     |-> InitialCash,
     quantity |-> [c \in Codes |-> 0],
     cost     |-> [c \in Codes |-> 0]]

OrderInput ==
    [participant : Participants, code : Symbols,
     side : {"buy", "sell"}, quantity : Quantities]

RejectReasons ==
    {"DISQUALIFIED", "INVALID_QUANTITY", "UNKNOWN_INSTRUMENT", "MARKET_CLOSED",
     "MARKET_NOT_OPENED", "INSUFFICIENT_CASH", "DAILY_BUY_LIMIT",
     "INSUFFICIENT_HOLDINGS"}

\* A row of the orders table.  "amount" is 0 (NULL) unless it was filled.
OrderRow ==
    [id : Requests, participant : Participants, code : Symbols,
     side : {"buy", "sell"}, quantity : Quantities, amount : Nat, day : Nat,
     outcome : RejectReasons \cup {"FILLED"}]

Row(r, o, day, amount, outcome) ==
    [id |-> r, participant |-> o.participant, code |-> o.code,
     side |-> o.side, quantity |-> o.quantity, amount |-> amount,
     day |-> day, outcome |-> outcome]

\* SUM(amount) of a set of order rows.
Total(rows) == MapThenSumSet(LAMBDA o : o.amount, rows)

\* SUM(quantity) of a set of order rows.
QuantityOf(rows) == MapThenSumSet(LAMBDA o : o.quantity, rows)

Filled(rows) == {o \in rows : o.outcome = "FILLED"}

-----------------------------------------------------------------------------
(* Deciding an order *)

\* The checks that need no lock on the day: their first failure, or "PASS".
LocalVerdict(o, standing, marketOpen) ==
    IF standing = "disqualified" THEN "DISQUALIFIED"
    ELSE IF o.quantity \notin 1 .. MaxQuantity THEN "INVALID_QUANTITY"
    ELSE IF o.code \notin Codes THEN "UNKNOWN_INSTRUMENT"
    ELSE IF ~marketOpen THEN "MARKET_CLOSED"
    ELSE "PASS"

\* The row of market_days as the order finds it once it holds its lock.
DayVerdict(dayState) ==
    IF dayState = "unopened" THEN "MARKET_NOT_OPENED"
    ELSE IF dayState = "settled" THEN "MARKET_CLOSED"
    ELSE "PASS"

Worth(account, prices) ==
    account.cash
      + MapThenSumSet(LAMBDA c : account.quantity[c] * prices[c], Codes)

BoughtOn(rows, p, code, day) ==
    Total({o \in Filled(rows) : /\ o.participant = p
                                /\ o.code = code
                                /\ o.side = "buy"
                                /\ o.day = day})

\* floor(total assets * ratio), exact; no limit when the ratio is None.
OverLimit(spent, worth) == HasLimit /\ spent > (LimitNum * worth) \div LimitDen

\* Mutant: the limit ignores what was bought earlier in the day.
BuyVerdictPerOrder(o, account, prices, bought) ==
    LET cost == prices[o.code] * o.quantity
    IN  IF account.cash < cost THEN "INSUFFICIENT_CASH"
        ELSE IF OverLimit(cost, Worth(account, prices)) THEN "DAILY_BUY_LIMIT"
        ELSE "FILLED"

\* Mutant: the cash is not checked.
BuyVerdictOnCredit(o, account, prices, bought) ==
    IF OverLimit(bought + prices[o.code] * o.quantity, Worth(account, prices))
    THEN "DAILY_BUY_LIMIT"
    ELSE "FILLED"

BuyVerdict(o, account, prices, bought) ==
    LET cost == prices[o.code] * o.quantity
    IN  IF account.cash < cost THEN "INSUFFICIENT_CASH"
        ELSE IF OverLimit(bought + cost, Worth(account, prices))
             THEN "DAILY_BUY_LIMIT"
        ELSE "FILLED"

SellVerdict(o, account) ==
    IF account.quantity[o.code] < o.quantity THEN "INSUFFICIENT_HOLDINGS"
    ELSE "FILLED"

TradeVerdict(o, account, prices, bought) ==
    IF o.side = "buy" THEN BuyVerdict(o, account, prices, bought)
    ELSE SellVerdict(o, account)

-----------------------------------------------------------------------------
(* What a fill and a reward do to an account *)

\* Mutant: a partial sale takes the cost of one share along, not of all it sells.
CostRemovedOfOne(cost, quantity, held) == cost \div held

\* Mutant: the quantities sold and held are swapped.
CostRemovedSwapped(cost, quantity, held) ==
    (2 * cost * held + quantity) \div (2 * quantity)

\* round_half_up(cost * quantity / held, 1)
CostRemoved(cost, quantity, held) ==
    (2 * cost * quantity + held) \div (2 * held)

Buy(account, code, quantity, amount) ==
    [cash     |-> account.cash - amount,
     quantity |-> [account.quantity EXCEPT ![code] = @ + quantity],
     cost     |-> [account.cost EXCEPT ![code] = @ + amount]]

Sell(account, code, quantity, amount) ==
    LET held == account.quantity[code]
    IN  [cash     |-> account.cash + amount,
         quantity |-> [account.quantity EXCEPT ![code] = @ - quantity],
         cost     |-> [account.cost EXCEPT ![code] =
                         IF held = quantity THEN 0
                         ELSE @ - CostRemoved(@, quantity, held)]]

Fill(account, o, amount) ==
    IF o.side = "buy" THEN Buy(account, o.code, o.quantity, amount)
    ELSE Sell(account, o.code, o.quantity, amount)

OwnedBy(certs, p) == {c \in certs : CertOwner[c] = p}

Rewarded(account, certs) ==
    [account EXCEPT !.cash = @ + RewardCash * Cardinality(certs)]

-----------------------------------------------------------------------------
(* Days and prices.  A price of 0 stands for "no row in price_history".     *)

Opened(mday) == {d \in Days : mday[d] # "unopened"}

\* The start price last published before day: the first-day price when there is none.
PublishedBefore(mday, price, day, code) ==
    IF \E e \in Opened(mday) : e < day
    THEN LET last == CHOOSE e \in Opened(mday) :
                        /\ e < day
                        /\ \A f \in Opened(mday) : f < day => f <= e
         IN  price[last][code]
    ELSE InitialPrice[code]

\* A price already written for the day stands; otherwise it is carried over.
OpeningPrices(mday, price, day) ==
    [code \in Codes |-> IF price[day][code] # 0 THEN price[day][code]
                        ELSE PublishedBefore(mday, price, day, code)]

\* The trades a settlement of day aggregates: filled orders in the stocks.
TradedOn(rows, day) ==
    {o \in Filled(rows) : o.day = day /\ o.code \in Stocks}

\* Certifications open_day(day) owes money for, standing aside.
Payable(approved, paid, day) ==
    {c \in approved \ paid : CertDay[c] < day}
=============================================================================
