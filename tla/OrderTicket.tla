---------------------------- MODULE OrderTicket ----------------------------
(***************************************************************************)
(* The order ticket of the instrument page, as functions of what the       *)
(* server answers in a state of the ledger: which side of an order it      *)
(* offers, up to which quantity, and when the button works.  The decision  *)
(* an order then meets is the one of LedgerRules.                          *)
(***************************************************************************)
EXTENDS Ledger

Lesser(a, b) == IF a <= b THEN a ELSE b
Greater(a, b) == IF a >= b THEN a ELSE b

-----------------------------------------------------------------------------
(* What the server answers *)

EventInfo(today, inHours) ==
    LET opened == today \in Days /\ today \in Opened(mday)
        settled == opened /\ mday[today] = "settled"
    IN  [operating |-> today \in Days,
         today     |-> today,
         isOpen    |-> today \in Days /\ inHours /\ opened /\ ~settled,
         opened    |-> opened,
         settled   |-> settled]

\* The instrument's price: the last one published.
ShownPrice(code) == PublishedBefore(mday, price, LastDay + 1, code)

\* The portfolio: with a limit, what is left of it per instrument.
Portfolio(p, today) ==
    LET prices == [c \in Codes |-> ShownPrice(c)]
        limit == (LimitNum * Worth(acct[p], prices)) \div LimitDen
        spent(c) == IF today \in Opened(mday) THEN BoughtOn(orders, p, c, today) ELSE 0
    IN  [cash      |-> acct[p].cash,
         held      |-> acct[p].quantity,
         remaining |-> [c \in Codes |-> Greater(0, limit - spent(c))]]

-----------------------------------------------------------------------------
(* What the ticket makes of it *)

\* describeMarket, and the one phase in which orders are accepted.
MarketPhase(event) ==
    IF event.today < 1 THEN "before_event"
    ELSE IF event.today > LastDay THEN "after_event"
    ELSE IF ~event.operating THEN "holiday"
    ELSE IF event.isOpen THEN "open"
    ELSE IF ~event.opened THEN "pre_open"
    ELSE IF event.settled THEN "settled"
    ELSE "settling"

CanTrade(event) == MarketPhase(event) = "open"

\* Mutant: what was bought earlier in the day is not taken off the budget.
BuyBudgetCash(view, code) == view.cash

BuyBudget(view, code) ==
    IF HasLimit THEN Lesser(view.cash, view.remaining[code]) ELSE view.cash

MaxOffered(view, code, side) ==
    IF side = "sell" THEN view.held[code]
    ELSE IF ShownPrice(code) > 0 THEN BuyBudget(view, code) \div ShownPrice(code)
    ELSE 0

\* A quantity typed, stepped or left in the field is clamped to what it takes.
ClampInt(n, low, high) ==
    IF high < low THEN low ELSE Lesser(high, Greater(low, n))

\* The field lets nothing outside through, and the ticket clamps again what was
\* entered when more was offered.
QuantityShown(entered, offered) ==
    Lesser(ClampInt(entered, 1, Greater(offered, 1)), Greater(offered, 1))

Blocked(offered) == offered < 1

CanSubmit(p, code, side, event) ==
    /\ ~Blocked(MaxOffered(Portfolio(p, event.today), code, side))
    /\ standing[p] # "disqualified"
    /\ CanTrade(event)

\* The order the button sends.
Submitted(p, code, side, quantity) ==
    [participant |-> p, code |-> code, side |-> side, quantity |-> quantity]

\* What place_order decides of it now.
WouldFill(o, today, inHours) ==
    /\ LocalVerdict(o, standing[o.participant], today \in Days /\ inHours) = "PASS"
    /\ DayVerdict(mday[today]) = "PASS"
    /\ TradeVerdict(o, acct[o.participant], price[today],
                    BoughtOn(orders, o.participant, o.code, today)) = "FILLED"

-----------------------------------------------------------------------------
\* The ticket is honest: on data that is up to date its button works exactly when
\* the server would fill some order, what it then sends is filled, and the
\* quantities it offers are all the server would fill and no other, up to the
\* server's own maximum of one order, which the ticket does not know.  Two
\* implementations of one rule, the ticket's in floating point budgets and the
\* server's in orders and limits, after any sequence of orders, settlements and
\* rewards.
TicketHonest ==
    \A p \in Participants, code \in Codes, side \in {"buy", "sell"},
       today \in Days, inHours \in BOOLEAN :
        (\A e \in Opened(mday) : e <= today) =>
            LET offered == MaxOffered(Portfolio(p, today), code, side)
                fills == {q \in 1 .. MaxQuantity :
                            WouldFill(Submitted(p, code, side, q), today, inHours)}
            IN  IF CanSubmit(p, code, side, EventInfo(today, inHours))
                THEN /\ fills = 1 .. Lesser(offered, MaxQuantity)
                     /\ \A entered \in 1 .. MaxQuantity :
                           QuantityShown(entered, offered) \in fills
                ELSE fills = {}
=============================================================================
