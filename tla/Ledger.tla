------------------------------- MODULE Ledger -------------------------------
(***************************************************************************)
(* What the database promises a participant: every order, every opening    *)
(* with its reward payments and every settlement happens at one instant,   *)
(* against the rows as they are at that instant.  Nothing here locks; the  *)
(* module Trading shows how row locks and an advisory lock achieve it.     *)
(***************************************************************************)
EXTENDS LedgerRules

CONSTANT QaTools    \* STUDY_INVEST_QA_TOOLS: may a day be settled and the next
                    \* opened in one transaction?

ASSUME QaAssumption == QaTools \in BOOLEAN

VARIABLES
    acct,       \* [Participants -> Account]: participants.cash and holdings
    standing,   \* [Participants -> {"normal", "disqualified"}]
    orders,     \* rows of the orders table
    mday,       \* [Days -> {"unopened", "opened", "settled"}]: market_days
    price,      \* [Days -> [Codes -> Nat]]: price_history, 0 when absent
    log,        \* [Days -> SUBSET OrderRow]: the trades settlement_logs sums up
    approved,   \* certifications an administrator has approved
    paid        \* certifications with rewarded_at set

ledgerVars == <<acct, standing, orders, mday, price, log, approved, paid>>

Init ==
    /\ acct = [p \in Participants |-> OpeningAccount]
    /\ standing = [p \in Participants |-> "normal"]
    /\ orders = {}
    /\ mday = [d \in Days |-> "unopened"]
    /\ price = [d \in Days |-> [c \in Codes |-> 0]]
    /\ log = [d \in Days |-> {}]
    /\ approved = {}
    /\ paid = {}

Unused(r) == \A o \in orders : o.id # r

\* Mutant: settled_at is not looked at.
FillOrderLate(r, o, d) ==
    LET amount == price[d][o.code] * o.quantity
        p == o.participant
    IN  /\ d \in Opened(mday)
        /\ LocalVerdict(o, standing[p], TRUE) = "PASS"
        /\ TradeVerdict(o, acct[p], price[d],
                        BoughtOn(orders, p, o.code, d)) = "FILLED"
        /\ acct' = [acct EXCEPT ![p] = Fill(@, o, amount)]
        /\ orders' = orders \cup {Row(r, o, d, amount, "FILLED")}

FillOrder(r, o, d) ==
    LET amount == price[d][o.code] * o.quantity
        p == o.participant
    IN  /\ mday[d] = "opened"
        /\ \A e \in Opened(mday) : e <= d
        /\ LocalVerdict(o, standing[p], TRUE) = "PASS"
        /\ TradeVerdict(o, acct[p], price[d],
                        BoughtOn(orders, p, o.code, d)) = "FILLED"
        /\ acct' = [acct EXCEPT ![p] = Fill(@, o, amount)]
        /\ orders' = orders \cup {Row(r, o, d, amount, "FILLED")}

\* A refusal names a reason that is true of the rows at that instant.  Two may
\* be out of date when the refusal is recorded, because nothing keeps them
\* true: the day was not opened yet, and the clock was outside market hours.
Justified(o, d, reason) ==
    CASE reason = "DISQUALIFIED" -> standing[o.participant] = "disqualified"
      [] reason = "INVALID_QUANTITY" -> o.quantity \notin 1 .. MaxQuantity
      [] reason = "UNKNOWN_INSTRUMENT" -> o.code \notin Codes
      [] reason \in {"MARKET_CLOSED", "MARKET_NOT_OPENED"} -> TRUE
      [] OTHER ->
            /\ d \in Opened(mday)
            /\ reason = TradeVerdict(o, acct[o.participant], price[d],
                            BoughtOn(orders, o.participant, o.code, d))

RefuseOrder(r, o, d, reason) ==
    /\ Justified(o, d, reason)
    /\ orders' = orders \cup {Row(r, o, d, 0, reason)}
    /\ UNCHANGED acct

PlaceOrder(r) ==
    /\ Unused(r)
    /\ \E o \in OrderInput, d \in 0 .. LastDay + 1 :
          \/ d \in Days /\ FillOrder(r, o, d)
          \/ \E reason \in RejectReasons : RefuseOrder(r, o, d, reason)
    /\ UNCHANGED <<standing, mday, price, log, approved, paid>>

\* Mutant: rewarded_at is not set.
PayRewardsUnmarked(S) ==
    /\ acct' = [p \in Participants |-> Rewarded(acct[p], OwnedBy(S, p))]
    /\ paid' = paid

PayRewards(S) ==
    /\ acct' = [p \in Participants |-> Rewarded(acct[p], OwnedBy(S, p))]
    /\ paid' = paid \cup S

OpenDay(d) ==
    /\ \A e \in Opened(mday) : e < d
    /\ mday' = [mday EXCEPT ![d] = "opened"]
    /\ price' = [price EXCEPT ![d] = OpeningPrices(mday, price, d)]
    /\ \E S \in SUBSET Payable(approved, paid, d) : PayRewards(S)
    /\ UNCHANGED <<standing, orders, log, approved>>

\* Mutant: a day is settled although the next one was opened by carry-over.
SettleDayLate(d) ==
    /\ d + 1 \in Days
    /\ mday[d] = "opened"
    /\ mday' = [mday EXCEPT ![d] = "settled"]
    /\ log' = [log EXCEPT ![d] = TradedOn(orders, d)]
    /\ \E drawn \in [Codes -> DrawnPrices] : price' = [price EXCEPT ![d + 1] = drawn]
    /\ UNCHANGED <<acct, standing, orders, approved, paid>>

\* The day's trades are aggregated and the next day's prices written.
SettleDay(d) ==
    /\ d + 1 \in Days
    /\ mday[d] = "opened"
    /\ mday[d + 1] = "unopened"
    /\ mday' = [mday EXCEPT ![d] = "settled"]
    /\ log' = [log EXCEPT ![d] = TradedOn(orders, d)]
    /\ \E drawn \in [Codes -> DrawnPrices] : price' = [price EXCEPT ![d + 1] = drawn]
    /\ UNCHANGED <<acct, standing, orders, approved, paid>>

\* QA only: SettleDay(d) and OpenDay(d + 1) as one transaction.
AdvanceDay(d) ==
    /\ QaTools
    /\ d + 1 \in Days
    /\ mday[d] = "opened"
    /\ \A e \in Opened(mday) : e <= d
    /\ mday' = [mday EXCEPT ![d] = "settled", ![d + 1] = "opened"]
    /\ log' = [log EXCEPT ![d] = TradedOn(orders, d)]
    /\ \E drawn \in [Codes -> DrawnPrices] : price' = [price EXCEPT ![d + 1] = drawn]
    /\ \E S \in SUBSET Payable(approved, paid, d + 1) : PayRewards(S)
    /\ UNCHANGED <<standing, orders, approved>>

\* An administrator's PATCH of the participant's status.
SetStanding(p, s) ==
    /\ standing' = [standing EXCEPT ![p] = s]
    /\ UNCHANGED <<acct, orders, mday, price, log, approved, paid>>

\* A review that approves a certification.
Approve(c) ==
    /\ approved' = approved \cup {c}
    /\ UNCHANGED <<acct, standing, orders, mday, price, log, paid>>

Next ==
    \/ \E r \in Requests : PlaceOrder(r)
    \/ \E d \in Days : OpenDay(d) \/ SettleDay(d) \/ AdvanceDay(d)
    \/ \E p \in Participants, s \in {"normal", "disqualified"} : SetStanding(p, s)
    \/ \E c \in Certs : Approve(c)

Spec == Init /\ [][Next]_ledgerVars

-----------------------------------------------------------------------------
TypeOK ==
    /\ acct \in [Participants -> Account]
    /\ standing \in [Participants -> {"normal", "disqualified"}]
    /\ orders \subseteq OrderRow
    /\ mday \in [Days -> {"unopened", "opened", "settled"}]
    /\ price \in [Days -> [Codes -> Nat]]
    /\ log \in [Days -> SUBSET OrderRow]
    /\ approved \subseteq Certs
    /\ paid \subseteq Certs

OrdersOf(p, side) ==
    {o \in Filled(orders) : o.participant = p /\ o.side = side}

\* The books balance: a participant's cash is the seed money plus the rewards
\* of his paid certifications minus what his filled purchases cost plus what
\* his filled sales brought, and what he holds of an instrument is what he
\* bought minus what he sold.  Any update lost between two transactions
\* (order and order, order and reward) breaks it for good.
BooksBalance ==
    \A p \in Participants :
        /\ acct[p].cash = InitialCash
                            + RewardCash * Cardinality(OwnedBy(paid, p))
                            - Total(OrdersOf(p, "buy"))
                            + Total(OrdersOf(p, "sell"))
        /\ \A c \in Codes :
              acct[p].quantity[c] =
                QuantityOf({o \in OrdersOf(p, "buy") : o.code = c})
                  - QuantityOf({o \in OrdersOf(p, "sell") : o.code = c})

\* On the day the market is in, what a participant has bought of one instrument
\* stays within the limit computed from what he owns now, however many of his
\* orders were decided side by side.
DailyLimitKept ==
    \A d \in Opened(mday) :
        (\A e \in Opened(mday) : e <= d) =>
            \A p \in Participants, c \in Codes :
                ~OverLimit(BoughtOn(orders, p, c, d), Worth(acct[p], price[d]))

\* The trades a settlement aggregated are exactly the trades of its day, for
\* ever after: no order joins a day once the day is settled.
SettledTradesFrozen ==
    \A d \in Days : mday[d] = "settled" => log[d] = TradedOn(orders, d)

\* The average price a participant is shown for a position lies between the
\* cheapest and the dearest price he paid for it: the rounding of each partial
\* sale moves the purchase cost by at most half a won, and nothing sold out
\* keeps a cost.
AveragePriceHonest ==
    \A p \in Participants, c \in Codes :
        LET held == acct[p].quantity[c]
            cost == acct[p].cost[c]
            mine(side) == {o \in OrdersOf(p, side) : o.code = c}
            sales == Cardinality(mine("sell"))
        IN  /\ held = 0 => cost = 0
            /\ held > 0 =>
                 /\ \E o \in mine("buy") :
                       2 * cost <= 2 * (o.amount \div o.quantity) * held + sales
                 /\ \E o \in mine("buy") :
                       2 * (o.amount \div o.quantity) * held <= 2 * cost + sales

\* The price a day opened with never changes again.
PublishedPricesFixed ==
    [][\A d \in Days : d \in Opened(mday) => price'[d] = price[d]]_ledgerVars
=============================================================================
