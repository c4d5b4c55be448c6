--------------------------- MODULE LedgerTheorems ---------------------------
(* What the atomic ledger keeps by its rules alone, however it is implemented. *)
EXTENDS OrderTicket, LedgerProofs

\* A reward payment leaves accounts behind and pays certifications only.
LEMMA PayRewardsType ==
    ASSUME TypeOK, NEW S \in SUBSET Certs, PayRewards(S)
    PROVE  acct' \in [Participants -> Account] /\ paid' \subseteq Certs
<1>1. \A p \in Participants : Rewarded(acct[p], OwnedBy(S, p)) \in Account
  BY RewardedKeepsAccount DEF TypeOK, OwnedBy
<1> QED
  BY <1>1 DEF PayRewards, TypeOK

\* An order at one instant keeps the type of what it writes.
LEMMA PlaceOrderType ==
    ASSUME TypeOK, NEW r \in Requests, PlaceOrder(r)
    PROVE  TypeOK'
<1>1. PICK o \in OrderInput, d \in 0 .. LastDay + 1 :
        \/ d \in Days /\ FillOrder(r, o, d)
        \/ \E reason \in RejectReasons : RefuseOrder(r, o, d, reason)
  BY DEF PlaceOrder
<1>2. d \in Nat /\ o.participant \in Participants
  BY <1>1, DaysAssumption DEF OrderInput
<1>3. acct' \in [Participants -> Account] /\ orders' \subseteq OrderRow
  <2>1. CASE d \in Days /\ FillOrder(r, o, d)
    <3> DEFINE p == o.participant
               amount == price[d][o.code] * o.quantity
    <3>1. price[d] \in [Codes -> Nat] /\ acct[p] \in Account
      BY <1>2, <2>1 DEF TypeOK
    <3>2. amount \in Nat /\ Affordable(acct[p], o, amount)
      BY <2>1, <3>1, FilledIsAffordable DEF FillOrder
    <3>3. Fill(acct[p], o, amount) \in Account
      BY <3>1, <3>2, FillKeepsAccount
    <3>4. Row(r, o, d, amount, "FILLED") \in OrderRow
      <4> HIDE DEF amount
      <4> QED BY <1>2, <3>2 DEF Row, OrderRow, OrderInput
    <3>5. /\ acct' = [acct EXCEPT ![p] = Fill(@, o, amount)]
          /\ orders' = orders \cup {Row(r, o, d, amount, "FILLED")}
      BY <2>1 DEF FillOrder
    <3> QED BY <3>3, <3>4, <3>5 DEF TypeOK
  <2>2. ASSUME NEW reason \in RejectReasons, RefuseOrder(r, o, d, reason)
        PROVE  acct' \in [Participants -> Account] /\ orders' \subseteq OrderRow
    <3>1. Row(r, o, d, 0, reason) \in OrderRow
      BY <1>2 DEF Row, OrderRow, OrderInput
    <3> QED BY <2>2, <3>1 DEF RefuseOrder, TypeOK
  <2> QED BY <1>1, <2>1, <2>2
<1> QED
  BY <1>3 DEF PlaceOrder, TypeOK

\* An opening, a settlement and the QA step of both keep the types.
LEMMA DayStepType ==
    ASSUME TypeOK, NEW d \in Days, OpenDay(d) \/ SettleDay(d) \/ AdvanceDay(d)
    PROVE  TypeOK'
<1>1. CASE OpenDay(d)
  <2>1. PICK S \in SUBSET Payable(approved, paid, d) : PayRewards(S)
    BY <1>1 DEF OpenDay
  <2>2. acct' \in [Participants -> Account] /\ paid' \subseteq Certs
    BY <2>1, PayRewardsType DEF Payable, TypeOK
  <2>3. OpeningPrices(mday, price, d) \in [Codes -> Nat]
    BY OpeningPricesType DEF TypeOK
  <2> QED BY <1>1, <2>2, <2>3 DEF OpenDay, TypeOK
<1>2. CASE SettleDay(d)
  <2>1. TradedOn(orders, d) \subseteq OrderRow
    BY DEF TypeOK, TradedOn, Filled
  <2>2. [Codes -> DrawnPrices] \subseteq [Codes -> Nat]
    BY MoneyAssumption
  <2> QED BY <1>2, <2>1, <2>2 DEF SettleDay, TypeOK
<1>3. CASE AdvanceDay(d)
  <2>1. PICK S \in SUBSET Payable(approved, paid, d + 1) : PayRewards(S)
    BY <1>3 DEF AdvanceDay
  <2>2. acct' \in [Participants -> Account] /\ paid' \subseteq Certs
    BY <2>1, PayRewardsType DEF Payable, TypeOK
  <2>3. TradedOn(orders, d) \subseteq OrderRow
    BY DEF TypeOK, TradedOn, Filled
  <2>4. [Codes -> DrawnPrices] \subseteq [Codes -> Nat]
    BY MoneyAssumption
  <2> QED BY <1>3, <2>2, <2>3, <2>4 DEF AdvanceDay, TypeOK
<1> QED
  BY <1>1, <1>2, <1>3

\* The ledger never shows an overdraft, a short position or a negative cost.
THEOREM LedgerTypeCorrect == Spec => []TypeOK
<1>1. Init => TypeOK
  <2>1. OpeningAccount \in Account
    BY MoneyAssumption DEF OpeningAccount, Account
  <2> QED BY <2>1 DEF Init, TypeOK
<1>2. TypeOK /\ [Next]_ledgerVars => TypeOK'
  <2> SUFFICES ASSUME TypeOK, [Next]_ledgerVars PROVE TypeOK'
    OBVIOUS
  <2>1. ASSUME NEW r \in Requests, PlaceOrder(r) PROVE TypeOK'
    BY <2>1, PlaceOrderType
  <2>2. ASSUME NEW d \in Days, OpenDay(d) \/ SettleDay(d) \/ AdvanceDay(d) PROVE TypeOK'
    BY <2>2, DayStepType
  <2>3. ASSUME NEW p \in Participants, NEW s \in {"normal", "disqualified"}, SetStanding(p, s)
        PROVE  TypeOK'
    BY <2>3 DEF SetStanding, TypeOK
  <2>4. ASSUME NEW c \in Certs, Approve(c) PROVE TypeOK'
    BY <2>4 DEF Approve, TypeOK
  <2>5. CASE UNCHANGED ledgerVars
    BY <2>5 DEF ledgerVars, TypeOK
  <2> QED BY <2>1, <2>2, <2>3, <2>4, <2>5 DEF Next
<1> QED
  BY <1>1, <1>2, PTL DEF Spec

\* A price that open_day has published is final: settlements write the price of
\* a day that has not opened, and an opening fills in its own day only.
THEOREM PublishedPricesAreFinal == Spec => PublishedPricesFixed
<1> DEFINE Final == \A d \in Days : d \in Opened(mday) => price'[d] = price[d]
<1>1. ASSUME TypeOK, [Next]_ledgerVars PROVE Final
  <2>1. price \in [Days -> [Codes -> Nat]]
    BY <1>1 DEF TypeOK
  <2>2. ASSUME NEW d \in Days, OpenDay(d) PROVE Final
    BY <2>1, <2>2 DEF OpenDay, Opened, Days
  <2>3. ASSUME NEW d \in Days, SettleDay(d) PROVE Final
    BY <2>1, <2>3 DEF SettleDay, Opened
  <2>4. ASSUME NEW d \in Days, AdvanceDay(d) PROVE Final
    BY <2>1, <2>4 DEF AdvanceDay, Days
  <2>5. CASE UNCHANGED price
    BY <2>5
  <2> QED
    BY <1>1, <2>2, <2>3, <2>4, <2>5
       DEF Next, PlaceOrder, SetStanding, Approve, ledgerVars
<1>2. TypeOK /\ [Next]_ledgerVars => [Final]_ledgerVars
  BY <1>1
<1> QED
  BY <1>2, LedgerTypeCorrect, PTL DEF Spec, PublishedPricesFixed

\* The trades of a day that is settled are those its log sums up: a fill needs a
\* day that is open, and a day is settled once (place_order, settle_day).
THEOREM SettledTradesStayFrozen == Spec => []SettledTradesFrozen
<1> DEFINE Inv == TypeOK /\ SettledTradesFrozen
<1>1. Init => SettledTradesFrozen
  BY DEF Init, SettledTradesFrozen
<1>2. ASSUME TypeOK, SettledTradesFrozen, [Next]_ledgerVars PROVE SettledTradesFrozen'
  <2>0. /\ mday \in [Days -> {"unopened", "opened", "settled"}]
        /\ log \in [Days -> SUBSET OrderRow]
    BY <1>2 DEF TypeOK
  <2>1. ASSUME NEW r \in Requests, PlaceOrder(r) PROVE SettledTradesFrozen'
    <3>1. PICK o \in OrderInput, e \in 0 .. LastDay + 1 :
            \/ e \in Days /\ FillOrder(r, o, e)
            \/ \E reason \in RejectReasons : RefuseOrder(r, o, e, reason)
      BY <2>1 DEF PlaceOrder
    <3>2. ASSUME NEW d \in Days, mday[d] = "settled"
          PROVE  TradedOn(orders', d) = TradedOn(orders, d)
      <4>1. CASE e \in Days /\ FillOrder(r, o, e)
        <5>1. e # d
          BY <3>2, <4>1 DEF FillOrder
        <5>2. PICK amount : orders' = orders \cup {Row(r, o, e, amount, "FILLED")}
          BY <4>1 DEF FillOrder
        <5> QED BY <5>1, <5>2 DEF TradedOn, Filled, Row
      <4>2. ASSUME NEW reason \in RejectReasons, RefuseOrder(r, o, e, reason)
            PROVE  TradedOn(orders', d) = TradedOn(orders, d)
        <5>1. reason # "FILLED"
          BY DEF RejectReasons
        <5> QED BY <4>2, <5>1 DEF RefuseOrder, TradedOn, Filled, Row
      <4> QED BY <3>1, <4>1, <4>2
    <3> QED BY <1>2, <2>1, <3>2 DEF PlaceOrder, SettledTradesFrozen, TradedOn, Filled
  <2>2. ASSUME NEW d \in Days, OpenDay(d) PROVE SettledTradesFrozen'
    <3>1. mday[d] = "unopened"
      BY <2>2 DEF OpenDay, Opened, Days
    <3> QED BY <1>2, <2>0, <2>2, <3>1 DEF OpenDay, SettledTradesFrozen
  <2>3. ASSUME NEW d \in Days, SettleDay(d) PROVE SettledTradesFrozen'
    BY <1>2, <2>0, <2>3 DEF SettleDay, SettledTradesFrozen
  <2>4. ASSUME NEW d \in Days, AdvanceDay(d) PROVE SettledTradesFrozen'
    <3>1. d + 1 # d
      BY DEF Days
    <3> QED BY <1>2, <2>0, <2>4, <3>1 DEF AdvanceDay, SettledTradesFrozen
  <2>5. CASE UNCHANGED <<orders, mday, log>>
    BY <1>2, <2>5 DEF SettledTradesFrozen
  <2> QED
    BY <1>2, <2>1, <2>2, <2>3, <2>4, <2>5 DEF Next, SetStanding, Approve, ledgerVars
<1> QED
  BY <1>1, <1>2, LedgerTypeCorrect, PTL DEF Spec

-----------------------------------------------------------------------------
(* The average price *)

\* The filled orders of one participant in one instrument.
Mine(p, c, side) == {o \in OrdersOf(p, side) : o.code = c}

PositionHonest(p, c) ==
    AverageOf(acct[p].quantity[c], acct[p].cost[c], Mine(p, c, "buy"),
              Cardinality(Mine(p, c, "sell")))

\* There are finitely many orders, and a filled one is of at least one share.
OrdersSound ==
    /\ IsFiniteSet(orders)
    /\ \A o \in Filled(orders) : o.quantity \in Nat \ {0}

\* A new filled order joins the orders of its participant, instrument and side
\* and no others; a refused one joins none.
LEMMA MineAfterFill ==
    ASSUME NEW r \in Requests, Unused(r), NEW o \in OrderInput, NEW d \in Days, NEW amount,
           orders' = orders \cup {Row(r, o, d, amount, "FILLED")},
           NEW p, NEW c, NEW side
    PROVE  IF p = o.participant /\ c = o.code /\ side = o.side
           THEN /\ Mine(p, c, side)' = Mine(p, c, side) \cup {Row(r, o, d, amount, "FILLED")}
                /\ Row(r, o, d, amount, "FILLED") \notin Mine(p, c, side)
           ELSE Mine(p, c, side)' = Mine(p, c, side)
BY DEF Mine, OrdersOf, Filled, Row, Unused

LEMMA MineAfterRefusal ==
    ASSUME NEW r \in Requests, NEW o \in OrderInput, NEW d, NEW reason \in RejectReasons,
           RefuseOrder(r, o, d, reason), NEW p, NEW c, NEW side
    PROVE  Mine(p, c, side)' = Mine(p, c, side)
<1>1. reason # "FILLED"
  BY DEF RejectReasons
<1> QED BY <1>1 DEF Mine, OrdersOf, Filled, Row, RefuseOrder

\* A fill keeps the average price of every position.
LEMMA FillKeepsAverage ==
    ASSUME TypeOK, OrdersSound, NEW r \in Requests, Unused(r), NEW o \in OrderInput,
           NEW d \in Days, FillOrder(r, o, d),
           NEW p \in Participants, NEW c \in Codes, PositionHonest(p, c)
    PROVE  PositionHonest(p, c)'
<1> DEFINE u == price[d][o.code]
           q == o.quantity
           row == Row(r, o, d, u * q, "FILLED")
           held == acct[p].quantity[c]
           cost == acct[p].cost[c]
           buys == Mine(p, c, "buy")
           sells == Mine(p, c, "sell")
<1>1. /\ o.code \in Codes /\ q \in Nat \ {0} /\ u \in Nat /\ u * q \in Nat
      /\ o.participant \in Participants /\ o.side \in {"buy", "sell"}
  <2>1. o.code \in Codes /\ q \in 1 .. MaxQuantity
    BY DEF FillOrder, LocalVerdict
  <2>2. u \in Nat /\ q \in Nat \ {0}
    BY <2>1, QuantitiesAssumption DEF TypeOK
  <2> QED BY <2>1, <2>2, ProductNat DEF OrderInput
<1>2. /\ acct' = [acct EXCEPT ![o.participant] = Fill(@, o, u * q)]
      /\ orders' = orders \cup {row}
  BY DEF FillOrder
<1>3. acct \in [Participants -> Account] /\ held \in Nat /\ cost \in Nat
  BY DEF TypeOK, Account
<1>4. IsFiniteSet(sells) /\ Cardinality(sells) \in Nat
  <2>1. sells \subseteq orders
    BY DEF Mine, OrdersOf, Filled
  <2>2. IsFiniteSet(sells)
    BY <2>1, FS_Subset DEF OrdersSound
  <2> QED BY <2>2, FS_CardinalityType
<1>5. \A b \in buys : b.amount \in Nat /\ b.quantity \in Nat \ {0}
  BY DEF OrdersSound, Mine, OrdersOf, Filled, TypeOK, OrderRow
<1>6. row.amount = u * q /\ row.quantity = q
  BY DEF Row
<1>7. CASE p # o.participant \/ c # o.code
  <2>1. Mine(p, c, "buy")' = buys /\ Mine(p, c, "sell")' = sells
    BY <1>2, <1>7, MineAfterFill
  <2>2. acct'[p].quantity[c] = held /\ acct'[p].cost[c] = cost
    <3>1. CASE p # o.participant
      BY <1>2, <1>3, <3>1
    <3>2. CASE p = o.participant /\ c # o.code
      <4>1. acct'[p] = Fill(acct[p], o, u * q)
        BY <1>2, <1>3, <3>2
      <4>2. acct[p].quantity \in [Codes -> Nat] /\ acct[p].cost \in [Codes -> Nat]
        BY <1>3 DEF Account
      <4> HIDE DEF u, q
      <4> QED BY <3>2, <4>1, <4>2 DEF Fill, Buy, Sell
    <3> QED BY <1>7, <3>1, <3>2
  <2> HIDE DEF held, cost, buys, sells
  <2> QED BY <2>1, <2>2 DEF PositionHonest, held, cost, buys, sells
<1>8. CASE p = o.participant /\ c = o.code
  <2>0. /\ acct'[p] = Fill(acct[p], o, u * q)
        /\ acct[p].quantity \in [Codes -> Nat] /\ acct[p].cost \in [Codes -> Nat]
    BY <1>2, <1>3, <1>8 DEF Account
  <2>1. CASE o.side = "buy"
    <3>1. Mine(p, c, "buy")' = buys \cup {row} /\ Mine(p, c, "sell")' = sells
      BY <1>2, <1>8, <2>1, MineAfterFill
    <3>2. acct'[p].quantity[c] = held + q /\ acct'[p].cost[c] = cost + u * q
      <4> HIDE DEF u
      <4> QED BY <1>8, <2>0, <2>1 DEF Fill, Buy
    <3>3. AverageOf(held, cost, buys, Cardinality(sells))
      BY DEF PositionHonest
    <3>4. AverageOf(held + q, cost + u * q, buys \cup {row}, Cardinality(sells))
      <4> HIDE DEF u, q, row, held, cost, buys, sells
      <4> QED BY <1>1, <1>3, <1>4, <1>5, <1>6, <3>3, BuyKeepsAverage
    <3> HIDE DEF u, q, row, held, cost, buys, sells
    <3> QED BY <3>1, <3>2, <3>4 DEF PositionHonest
  <2>2. CASE o.side = "sell"
    <3>1. Mine(p, c, "buy")' = buys
      BY <1>2, <1>8, <2>2, MineAfterFill
    <3>2. Mine(p, c, "sell")' = sells \cup {row} /\ row \notin sells
      BY <1>2, <1>8, <2>2, MineAfterFill
    <3>3. Cardinality(Mine(p, c, "sell"))' = Cardinality(sells) + 1
      <4>1. Cardinality(sells \cup {row}) = Cardinality(sells) + 1
        BY <1>4, <3>2, FS_AddElement
      <4> QED BY <3>2, <4>1
    <3>4. /\ acct'[p].quantity[c] = held - q
          /\ acct'[p].cost[c] = IF held = q THEN 0 ELSE cost - CostRemoved(cost, q, held)
      <4> HIDE DEF u
      <4> QED BY <1>8, <2>0, <2>2 DEF Fill, Sell
    <3>5. q <= held
      <4>1. TradeVerdict(o, acct[p], price[d], BoughtOn(orders, p, o.code, d)) = "FILLED"
        BY <1>8 DEF FillOrder
      <4>2. ~(acct[p].quantity[o.code] < q)
        BY <2>2, <4>1 DEF TradeVerdict, SellVerdict
      <4> QED BY <1>1, <1>3, <1>8, <4>2
    <3>6. AverageOf(held, cost, buys, Cardinality(sells))
      BY DEF PositionHonest
    <3>7. AverageOf(held - q,
                    IF held = q THEN 0 ELSE cost - CostRemoved(cost, q, held),
                    buys, Cardinality(sells) + 1)
      <4> HIDE DEF u, q, row, held, cost, buys, sells
      <4> QED BY <1>1, <1>3, <1>4, <1>5, <3>5, <3>6, SellKeepsAverage
    <3> HIDE DEF u, q, row, held, cost, buys, sells
    <3> QED BY <3>1, <3>3, <3>4, <3>7 DEF PositionHonest
  <2> QED BY <1>1, <2>1, <2>2
<1> QED BY <1>7, <1>8

\* A reward payment touches neither orders nor positions.
LEMMA RewardKeepsAverage ==
    ASSUME TypeOK, NEW S \in SUBSET Certs, PayRewards(S), UNCHANGED orders,
           NEW p \in Participants, NEW c \in Codes, PositionHonest(p, c)
    PROVE  PositionHonest(p, c)'
<1>1. acct'[p] = Rewarded(acct[p], OwnedBy(S, p)) /\ acct[p] \in Account
  BY DEF PayRewards, TypeOK
<1>2. acct'[p].quantity = acct[p].quantity /\ acct'[p].cost = acct[p].cost
  BY <1>1 DEF Rewarded, Account
<1> QED BY <1>2 DEF PositionHonest, Mine, OrdersOf, Filled

\* The average price shown for a position lies between the cheapest and the
\* dearest price paid for it, to within half a won a sale: partial sales round
\* the purchase cost, and the errors never add up to more (place_order).
THEOREM AveragePricesAreHonest == Spec => []AveragePriceHonest
<1> DEFINE Honest == \A p \in Participants, c \in Codes : PositionHonest(p, c)
           Inv == TypeOK /\ OrdersSound /\ Honest
<1>1. Init => OrdersSound /\ Honest
  <2> SUFFICES ASSUME Init PROVE OrdersSound /\ Honest
    OBVIOUS
  <2>1. OrdersSound
    BY FS_EmptySet DEF Init, OrdersSound, Filled
  <2>2. ASSUME NEW p \in Participants, NEW c \in Codes
        PROVE  acct[p].quantity[c] = 0 /\ acct[p].cost[c] = 0
    BY DEF Init, OpeningAccount
  <2> QED BY <2>1, <2>2 DEF PositionHonest, AverageOf
<1>2. ASSUME TypeOK, OrdersSound, Honest, [Next]_ledgerVars PROVE OrdersSound' /\ Honest'
  <2>1. ASSUME NEW r \in Requests, PlaceOrder(r) PROVE OrdersSound' /\ Honest'
    <3>1. PICK o \in OrderInput, d \in 0 .. LastDay + 1 :
            \/ d \in Days /\ FillOrder(r, o, d)
            \/ \E reason \in RejectReasons : RefuseOrder(r, o, d, reason)
      BY <2>1 DEF PlaceOrder
    <3>2. CASE d \in Days /\ FillOrder(r, o, d)
      <4>1. Honest'
        BY <1>2, <2>1, <3>2, FillKeepsAverage DEF PlaceOrder
      <4>2. PICK amount : orders' = orders \cup {Row(r, o, d, amount, "FILLED")}
        BY <3>2 DEF FillOrder
      <4>3. o.quantity \in Nat \ {0}
        BY <3>2, QuantitiesAssumption DEF FillOrder, LocalVerdict
      <4>4. IsFiniteSet(orders')
        BY <1>2, <4>2, FS_AddElement DEF OrdersSound
      <4> QED BY <1>2, <4>1, <4>2, <4>3, <4>4 DEF OrdersSound, Filled, Row
    <3>3. ASSUME NEW reason \in RejectReasons, RefuseOrder(r, o, d, reason)
          PROVE  OrdersSound' /\ Honest'
      <4>1. orders' = orders \cup {Row(r, o, d, 0, reason)} /\ acct' = acct
        BY <3>3 DEF RefuseOrder
      <4>2. \A p, c, side : Mine(p, c, side)' = Mine(p, c, side)
        BY <3>3, MineAfterRefusal
      <4>3. Honest'
        BY <1>2, <4>1, <4>2 DEF PositionHonest
      <4>4. IsFiniteSet(orders')
        BY <1>2, <4>1, FS_AddElement DEF OrdersSound
      <4>5. reason # "FILLED"
        BY DEF RejectReasons
      <4> QED BY <1>2, <4>1, <4>3, <4>4, <4>5 DEF OrdersSound, Filled, Row
    <3> QED BY <3>1, <3>2, <3>3
  <2>2. ASSUME UNCHANGED orders PROVE OrdersSound'
    BY <1>2, <2>2 DEF OrdersSound, Filled
  <2>3. ASSUME NEW S \in SUBSET Certs, PayRewards(S), UNCHANGED orders
        PROVE  OrdersSound' /\ Honest'
    BY <1>2, <2>2, <2>3, RewardKeepsAverage
  <2>4. ASSUME UNCHANGED <<acct, orders>> PROVE OrdersSound' /\ Honest'
    BY <1>2, <2>2, <2>4 DEF PositionHonest, Mine, OrdersOf, Filled
  <2>5. ASSUME NEW d \in Days, OpenDay(d) PROVE OrdersSound' /\ Honest'
    <3>1. Payable(approved, paid, d) \subseteq Certs
      BY <1>2 DEF Payable, TypeOK
    <3> QED BY <2>3, <2>5, <3>1 DEF OpenDay
  <2>6. ASSUME NEW d \in Days, AdvanceDay(d) PROVE OrdersSound' /\ Honest'
    <3>1. Payable(approved, paid, d + 1) \subseteq Certs
      BY <1>2 DEF Payable, TypeOK
    <3> QED BY <2>3, <2>6, <3>1 DEF AdvanceDay
  <2> QED
    BY <1>2, <2>1, <2>4, <2>5, <2>6 DEF Next, SettleDay, SetStanding, Approve, ledgerVars
<1>3. Honest => AveragePriceHonest
  BY DEF AveragePriceHonest, PositionHonest, AverageOf, Mine
<1> QED
  BY <1>1, <1>2, <1>3, LedgerTypeCorrect, PTL DEF Spec

-----------------------------------------------------------------------------
(* The books and the daily limit *)

Books == BooksSound(acct, orders, mday, price, paid)

\* An order, filled or refused, at one instant.
LEMMA PlaceOrderKeepsBooks ==
    ASSUME TypeOK, Books, NEW r \in Requests, PlaceOrder(r)
    PROVE  Books'
<1>1. PICK o \in OrderInput, d \in 0 .. LastDay + 1 :
        \/ d \in Days /\ FillOrder(r, o, d)
        \/ \E reason \in RejectReasons : RefuseOrder(r, o, d, reason)
  BY DEF PlaceOrder
<1>2. /\ \A x \in orders : x.id # r
      /\ UNCHANGED <<mday, price, paid>>
  BY DEF PlaceOrder, Unused
<1>3. /\ acct \in [Participants -> Account] /\ orders \subseteq OrderRow
      /\ price \in [Days -> [Codes -> Nat]] /\ paid \in SUBSET Certs
  BY DEF TypeOK
<1>4. CASE d \in Days /\ FillOrder(r, o, d)
  <2> DEFINE p == o.participant
             amount == price[d][o.code] * o.quantity
  <2>1. /\ d \in Opened(mday) /\ \A e \in Opened(mday) : e <= d
        /\ LocalVerdict(o, standing[p], TRUE) = "PASS"
        /\ TradeVerdict(o, acct[p], price[d], BoughtOn(orders, p, o.code, d)) = "FILLED"
        /\ acct' = [acct EXCEPT ![p] = Fill(@, o, amount)]
        /\ orders' = orders \cup {Row(r, o, d, amount, "FILLED")}
    BY <1>4 DEF FillOrder, Opened
  <2>2. BooksSound(acct, orders, mday, price, paid)
    BY DEF Books
  <2> HIDE DEF amount
  <2>3. amount = price[d][o.code] * o.quantity
    BY DEF amount
  <2>4. BooksSound([acct EXCEPT ![p] = Fill(@, o, amount)],
                   orders \cup {Row(r, o, d, amount, "FILLED")}, mday, price, paid)
    BY <1>2, <1>3, <2>1, <2>2, <2>3, FillKeepsBooks
  <2> QED BY <1>2, <2>1, <2>4 DEF Books
<1>5. ASSUME NEW reason \in RejectReasons, RefuseOrder(r, o, d, reason)
      PROVE  Books'
  <2>1. acct' = acct /\ orders' = orders \cup {Row(r, o, d, 0, reason)}
    BY <1>5 DEF RefuseOrder
  <2>2. Row(r, o, d, 0, reason).outcome # "FILLED"
    BY DEF Row, RejectReasons
  <2> QED BY <1>2, <2>1, <2>2, RefusalKeepsBooks DEF Books
<1> QED BY <1>1, <1>4, <1>5

\* An opening with its rewards, a settlement, and the QA step of both.
LEMMA DayStepKeepsBooks ==
    ASSUME TypeOK, Books, NEW d \in Days, OpenDay(d) \/ SettleDay(d) \/ AdvanceDay(d)
    PROVE  Books'
<1>1. /\ acct \in [Participants -> Account] /\ orders \subseteq OrderRow
      /\ mday \in [Days -> {"unopened", "opened", "settled"}]
      /\ price \in [Days -> [Codes -> Nat]] /\ paid \in SUBSET Certs /\ approved \subseteq Certs
  BY DEF TypeOK
<1>2. ASSUME NEW n \in Days, \A e \in Opened(mday) : e < n,
             Opened(mday') = Opened(mday) \cup {n}, price'[n] \in [Codes -> Nat],
             NEW S \in SUBSET Payable(approved, paid, n), PayRewards(S), orders' = orders
      PROVE  Books'
  <2>1. S \in SUBSET (Certs \ paid)
    BY <1>1 DEF Payable
  <2>2. BooksSound(acct, orders, mday, price, paid)
    BY DEF Books
  <2>3. BooksSound([p \in Participants |-> Rewarded(acct[p], OwnedBy(S, p))],
                   orders, mday', price', paid \cup S)
    BY <1>1, <1>2, <2>1, <2>2, OpeningKeepsBooks
  <2> QED BY <1>2, <2>3 DEF Books, PayRewards
<1>3. CASE OpenDay(d)
  <2>1. Opened(mday') = Opened(mday) \cup {d}
    BY <1>1, <1>3 DEF OpenDay, Opened
  <2>2. price'[d] \in [Codes -> Nat]
    BY <1>1, <1>3, OpeningPricesType DEF OpenDay
  <2> QED BY <1>2, <1>3, <2>1, <2>2 DEF OpenDay
<1>4. CASE SettleDay(d)
  <2>1. Opened(mday') = Opened(mday)
    BY <1>1, <1>4 DEF SettleDay, Opened
  <2>2. \A e \in Opened(mday) : price'[e] = price[e]
    BY <1>1, <1>4 DEF SettleDay, Opened
  <2> QED BY <1>4, <2>1, <2>2, SettlementKeepsBooks DEF Books, SettleDay
<1>5. CASE AdvanceDay(d)
  <2> DEFINE n == d + 1
  <2>1. n \in Days /\ \A e \in Opened(mday) : e < n
    BY <1>5 DEF AdvanceDay, Opened, Days
  <2>2. Opened(mday') = Opened(mday) \cup {n}
    <3>1. mday' = [mday EXCEPT ![d] = "settled", ![n] = "opened"] /\ mday[d] = "opened"
      BY <1>5 DEF AdvanceDay
    <3>2. d # n
      BY DEF Days
    <3> HIDE DEF n
    <3> QED BY <1>1, <2>1, <3>1, <3>2 DEF Opened
  <2>3. price'[n] \in [Codes -> Nat]
    <3>1. [Codes -> DrawnPrices] \subseteq [Codes -> Nat]
      BY MoneyAssumption
    <3> QED BY <1>1, <1>5, <2>1, <3>1 DEF AdvanceDay
  <2>4. PICK S \in SUBSET Payable(approved, paid, n) : PayRewards(S)
    BY <1>5 DEF AdvanceDay
  <2>5. orders' = orders
    BY <1>5 DEF AdvanceDay
  <2> HIDE DEF n
  <2> QED BY <1>2, <2>1, <2>2, <2>3, <2>4, <2>5
<1> QED BY <1>3, <1>4, <1>5

LEMMA BooksStaySound == Spec => []Books
<1>1. Init => Books
  <2> SUFFICES ASSUME Init PROVE Books
    OBVIOUS
  <2>1. Opened(mday) = {}
    BY DEF Init, Opened
  <2> QED BY <2>1, BooksSoundAtFirst DEF Init, Books
<1>2. TypeOK /\ Books /\ [Next]_ledgerVars => Books'
  <2> SUFFICES ASSUME TypeOK, Books, [Next]_ledgerVars PROVE Books'
    OBVIOUS
  <2>1. ASSUME NEW r \in Requests, PlaceOrder(r) PROVE Books'
    BY <2>1, PlaceOrderKeepsBooks
  <2>2. ASSUME NEW d \in Days, OpenDay(d) \/ SettleDay(d) \/ AdvanceDay(d) PROVE Books'
    BY <2>2, DayStepKeepsBooks
  <2>3. CASE UNCHANGED <<acct, orders, mday, price, paid>>
    BY <2>3 DEF Books
  <2> QED BY <2>1, <2>2, <2>3 DEF Next, SetStanding, Approve, ledgerVars
<1> QED
  BY <1>1, <1>2, LedgerTypeCorrect, PTL DEF Spec

\* No money and no share comes from nowhere or is lost: what a participant owns
\* is the seed money, the rewards of certifications marked as paid, and the
\* filled orders of the table (place_order, pay_rewards).
THEOREM BooksAlwaysBalance == Spec => []BooksBalance
<1>1. Books => BooksBalance
  BY DEF Books, BooksSound, Balanced, SideOf, CodeOf, BooksBalance, OrdersOf
<1> QED
  BY <1>1, BooksStaySound, PTL

\* What is bought of one instrument on a day stays within the limit of what is
\* owned *now*: a fill at the day's price leaves the worth it is measured by as
\* it was, and an opening starts from nothing (daily_buy_limit in place_order).
THEOREM DailyLimitIsKept == Spec => []DailyLimitKept
<1>1. Books => DailyLimitKept
  BY DEF Books, BooksSound, WithinLimits, DailyLimitKept
<1> QED
  BY <1>1, BooksStaySound, PTL

-----------------------------------------------------------------------------
(* The order ticket *)

\* No day opens with an instrument for nothing.
PricesPositive == \A d \in Opened(mday), c \in Codes : price[d][c] > 0

\* A carried over price is one of an earlier day that opened, or the first one.
LEMMA OpeningPricesPositive ==
    ASSUME TypeOK, PricesPositive, NEW d \in Days, NEW c \in Codes
    PROVE  OpeningPrices(mday, price, d)[c] > 0
<1>1. price[d][c] \in Nat
  BY DEF TypeOK
<1>2. PublishedBefore(mday, price, d, c) > 0
  <2>1. CASE \E e \in Opened(mday) : e < d
    <3> DEFINE Earlier == {e \in Opened(mday) : e < d}
               last == CHOOSE e \in Opened(mday) :
                          /\ e < d
                          /\ \A f \in Opened(mday) : f < d => f <= e
    <3>1. Earlier \in SUBSET Days /\ Earlier # {}
      BY <2>1 DEF Opened
    <3>2. \E e \in Earlier : \A f \in Earlier : f <= e
      BY <3>1, LastOf
    <3>3. last \in Opened(mday)
      BY <3>2
    <3>4. PublishedBefore(mday, price, d, c) = price[last][c]
      BY <2>1 DEF PublishedBefore
    <3> HIDE DEF last
    <3> QED BY <3>3, <3>4 DEF PricesPositive
  <2>2. CASE ~ \E e \in Opened(mday) : e < d
    BY <2>2, MoneyAssumption DEF PublishedBefore
  <2> QED BY <2>1, <2>2
<1> QED BY <1>1, <1>2 DEF OpeningPrices

LEMMA PricesStayPositive == Spec => []PricesPositive
<1>1. Init => PricesPositive
  BY DEF Init, Opened, PricesPositive
<1>2. TypeOK /\ PricesPositive /\ [Next]_ledgerVars => PricesPositive'
  <2> SUFFICES ASSUME TypeOK, PricesPositive, [Next]_ledgerVars PROVE PricesPositive'
    OBVIOUS
  <2>0. /\ mday \in [Days -> {"unopened", "opened", "settled"}]
        /\ price \in [Days -> [Codes -> Nat]]
    BY DEF TypeOK
  <2>1. \A drawn \in [Codes -> DrawnPrices] : \A c \in Codes : drawn[c] > 0
    <3>1. \A x \in DrawnPrices : x > 0
      BY MoneyAssumption
    <3>2. \A drawn \in [Codes -> DrawnPrices] : \A c \in Codes : drawn[c] \in DrawnPrices
      OBVIOUS
    <3> QED BY <3>1, <3>2
  <2>2. ASSUME NEW d \in Days, OpenDay(d) PROVE PricesPositive'
    <3>1. \A c \in Codes : OpeningPrices(mday, price, d)[c] > 0
      BY OpeningPricesPositive
    <3>2. /\ mday' = [mday EXCEPT ![d] = "opened"]
          /\ price' = [price EXCEPT ![d] = OpeningPrices(mday, price, d)]
      BY <2>2 DEF OpenDay
    <3> QED BY <2>0, <3>1, <3>2 DEF PricesPositive, Opened
  <2>3. ASSUME NEW d \in Days, SettleDay(d) PROVE PricesPositive'
    BY <2>0, <2>3 DEF SettleDay, PricesPositive, Opened
  <2>4. ASSUME NEW d \in Days, AdvanceDay(d) PROVE PricesPositive'
    BY <2>0, <2>1, <2>4 DEF AdvanceDay, PricesPositive, Opened
  <2>5. CASE UNCHANGED <<mday, price>>
    BY <2>5 DEF PricesPositive, Opened
  <2> QED BY <2>2, <2>3, <2>4, <2>5 DEF Next, PlaceOrder, SetStanding, Approve, ledgerVars
<1> QED
  BY <1>1, <1>2, LedgerTypeCorrect, PTL DEF Spec

\* An order costs no more than a budget exactly when it is of no more shares than
\* the budget buys.
LEMMA SharesForBudget ==
    ASSUME NEW u \in Nat \ {0}, NEW q \in Nat, NEW budget \in Nat
    PROVE  budget \div u \in Nat /\ (u * q <= budget <=> q <= budget \div u)
<1> DEFINE n == budget \div u
<1>1. n \in Nat
  BY QuotientNat
<1>2. u * n <= budget /\ budget < u * (n + 1)
  OBVIOUS
<1> HIDE DEF n
<1>3. u * q \in Nat /\ u * n \in Nat /\ u * (n + 1) \in Nat
  BY <1>1, ProductNat
<1>4. ASSUME q <= n PROVE u * q <= budget
  <2>1. u * q <= u * n
    BY <1>1, <1>4, ProductMonotone
  <2> QED BY <1>2, <1>3, <2>1
<1>5. ASSUME ~(q <= n) PROVE ~(u * q <= budget)
  <2>1. n + 1 <= q /\ n + 1 \in Nat
    BY <1>1, <1>5
  <2>2. u * (n + 1) <= u * q
    BY <2>1, ProductMonotone
  <2> QED BY <1>2, <1>3, <2>2
<1> QED BY <1>1, <1>4, <1>5 DEF n

\* While the day is open the portfolio values at the prices orders are decided by.
LEMMA ShownPriceIsTodays ==
    ASSUME TypeOK, NEW today \in Opened(mday), \A e \in Opened(mday) : e <= today
    PROVE  /\ \A c \in Codes : ShownPrice(c) = price[today][c]
           /\ [c \in Codes |-> ShownPrice(c)] = price[today]
<1>1. today \in Days /\ today < LastDay + 1 /\ \A e \in Opened(mday) : e \in Nat
  BY DaysAssumption DEF Opened, Days
<1> DEFINE last == CHOOSE e \in Opened(mday) :
                      /\ e < LastDay + 1
                      /\ \A f \in Opened(mday) : f < LastDay + 1 => f <= e
<1>2. last \in Opened(mday) /\ \A f \in Opened(mday) : f < LastDay + 1 => f <= last
  <2>1. \E e \in Opened(mday) :
           /\ e < LastDay + 1
           /\ \A f \in Opened(mday) : f < LastDay + 1 => f <= e
    BY <1>1
  <2> QED BY <2>1
<1>3. last = today
  <2> HIDE DEF last
  <2> QED BY <1>1, <1>2
<1>4. \A c \in Codes : ShownPrice(c) = price[last][c]
  BY <1>1 DEF ShownPrice, PublishedBefore
<1> HIDE DEF last
<1>5. price[today] \in [Codes -> Nat]
  BY <1>1 DEF TypeOK
<1> QED BY <1>3, <1>4, <1>5

\* The heart of it: on an open day the orders the server fills are those of no
\* more shares than the ticket offers.
LEMMA OfferedIsFilled ==
    ASSUME TypeOK, IsFiniteSet(orders), PricesPositive,
           NEW p \in Participants, NEW code \in Codes, NEW side \in {"buy", "sell"},
           NEW today \in Days, mday[today] = "opened", \A e \in Opened(mday) : e <= today,
           standing[p] # "disqualified", NEW q \in 1 .. MaxQuantity
    PROVE  /\ MaxOffered(Portfolio(p, today), code, side) \in Nat
           /\ WouldFill(Submitted(p, code, side, q), today, TRUE)
                <=> q <= MaxOffered(Portfolio(p, today), code, side)
<1> DEFINE o == Submitted(p, code, side, q)
           a == acct[p]
           u == price[today][code]
           spent == BoughtOn(orders, p, code, today)
           worth == Worth(a, price[today])
           limit == (LimitNum * worth) \div LimitDen
           view == Portfolio(p, today)
           offered == MaxOffered(view, code, side)
<1>0. today \in Opened(mday)
  BY DEF Opened
<1>1. /\ a \in Account /\ a.cash \in Nat /\ a.quantity[code] \in Nat
      /\ price[today] \in [Codes -> Nat] /\ u \in Nat \ {0} /\ q \in Nat \ {0}
  <2>1. u > 0
    BY <1>0 DEF PricesPositive
  <2> QED BY <2>1, QuantitiesAssumption DEF TypeOK, Account
<1>2. /\ o.participant = p /\ o.code = code /\ o.side = side /\ o.quantity = q
  BY DEF Submitted
<1>3. LocalVerdict(o, standing[p], TRUE) = "PASS" /\ DayVerdict(mday[today]) = "PASS"
  BY <1>2 DEF LocalVerdict, DayVerdict
<1> HIDE DEF o
<1>4. WouldFill(o, today, TRUE) <=> TradeVerdict(o, a, price[today], spent) = "FILLED"
  BY <1>2, <1>3 DEF WouldFill
<1>5. /\ ShownPrice(code) = u
      /\ view.cash = a.cash /\ view.held = a.quantity
      /\ view.remaining[code] = Greater(0, limit - spent)
  BY <1>0, ShownPriceIsTodays DEF Portfolio
<1>6. CASE side = "sell"
  <2>1. TradeVerdict(o, a, price[today], spent) = "FILLED" <=> ~(a.quantity[code] < q)
    BY <1>2, <1>6 DEF TradeVerdict, SellVerdict
  <2>2. offered = a.quantity[code]
    BY <1>5, <1>6 DEF MaxOffered
  <2>3. ~(a.quantity[code] < q) <=> q <= a.quantity[code]
    BY <1>1
  <2> QED BY <1>1, <1>4, <2>1, <2>2, <2>3 DEF o
<1>7. CASE side = "buy"
  <2> DEFINE budget == BuyBudget(view, code)
  <2>1. worth \in Nat /\ limit \in Nat
    BY <1>1, WorthIsSum, NothingWithinLimit
  <2>2. spent \in Nat
    <3> DEFINE mine == {x \in Filled(orders) : /\ x.participant = p
                                               /\ x.code = code
                                               /\ x.side = "buy"
                                               /\ x.day = today}
    <3>1. IsFiniteSet(mine)
      BY FS_Subset DEF Filled
    <3>2. \A x \in mine : x.amount \in Nat
      BY DEF Filled, TypeOK, OrderRow
    <3>3. spent = Total(mine)
      BY DEF BoughtOn
    <3> HIDE DEF mine
    <3> QED BY <3>1, <3>2, <3>3, TotalNat
  <2>3. u * q \in Nat \ {0}
    <3>1. u * 1 <= u * q
      BY <1>1, ProductMonotone
    <3> QED BY <1>1, <3>1
  <2>4. TradeVerdict(o, a, price[today], spent) = "FILLED"
          <=> ~(a.cash < u * q) /\ ~(HasLimit /\ spent + u * q > limit)
    <3> HIDE DEF spent
    <3> QED BY <1>2, <1>7 DEF TradeVerdict, BuyVerdict, OverLimit
  <2>5. budget = IF HasLimit THEN Lesser(a.cash, Greater(0, limit - spent)) ELSE a.cash
    BY <1>5 DEF BuyBudget
  <2>6. offered = budget \div u
    BY <1>1, <1>5, <1>7 DEF MaxOffered
  <2> HIDE DEF limit, spent, budget, u, view, offered
  <2>7. budget \in Nat
    BY <1>1, <2>1, <2>2, <2>5, LimitAssumption DEF Lesser, Greater
  <2>8. ~(a.cash < u * q) /\ ~(HasLimit /\ spent + u * q > limit) <=> u * q <= budget
    BY <1>1, <2>1, <2>2, <2>3, <2>5, LimitAssumption DEF Lesser, Greater
  <2>9. offered \in Nat /\ (u * q <= budget <=> q <= offered)
    BY <1>1, <2>6, <2>7, SharesForBudget
  <2> QED BY <1>4, <2>4, <2>8, <2>9 DEF o, view, offered
<1> QED BY <1>6, <1>7

\* The button of the order ticket works exactly when the server would fill some
\* order of the kind, and what it sends is filled (OrderPanel.tsx, place_order).
THEOREM TicketsAreHonest == Spec => []TicketHonest
<1>1. ASSUME TypeOK, Books, PricesPositive PROVE TicketHonest
  <2> SUFFICES ASSUME NEW p \in Participants, NEW code \in Codes, NEW side \in {"buy", "sell"},
                      NEW today \in Days, NEW inHours \in BOOLEAN,
                      \A e \in Opened(mday) : e <= today
               PROVE  LET offered == MaxOffered(Portfolio(p, today), code, side)
                          fills == {q \in 1 .. MaxQuantity :
                                      WouldFill(Submitted(p, code, side, q), today, inHours)}
                      IN  IF CanSubmit(p, code, side, EventInfo(today, inHours))
                          THEN /\ fills = 1 .. Lesser(offered, MaxQuantity)
                               /\ \A entered \in 1 .. MaxQuantity :
                                     QuantityShown(entered, offered) \in fills
                          ELSE fills = {}
    BY DEF TicketHonest
  <2> DEFINE offered == MaxOffered(Portfolio(p, today), code, side)
             fills == {q \in 1 .. MaxQuantity :
                         WouldFill(Submitted(p, code, side, q), today, inHours)}
             usable == standing[p] # "disqualified" /\ inHours /\ mday[today] = "opened"
  <2>0. IsFiniteSet(orders) /\ MaxQuantity \in Nat \ {0}
    BY <1>1, QuantitiesAssumption DEF Books, BooksSound
  <2>1. CanSubmit(p, code, side, EventInfo(today, inHours)) <=> usable /\ ~(offered < 1)
    <3> DEFINE event == EventInfo(today, inHours)
    <3>1. /\ event.today = today /\ event.operating
          /\ event.isOpen <=> inHours /\ mday[today] = "opened"
          /\ event.opened <=> mday[today] # "unopened"
      <4>1. mday[today] \in {"unopened", "opened", "settled"}
        BY <1>1 DEF TypeOK
      <4> QED BY <4>1 DEF EventInfo, Opened
    <3>2. ~(today < 1) /\ ~(today > LastDay)
      BY DaysAssumption DEF Days
    <3> HIDE DEF event
    <3>3. CanTrade(event) <=> event.isOpen
      BY <3>1, <3>2 DEF CanTrade, MarketPhase
    <3> QED BY <3>1, <3>3 DEF CanSubmit, Blocked, event
  <2>2. CASE ~usable
    <3>1. fills = {}
      <4> SUFFICES ASSUME NEW q \in 1 .. MaxQuantity,
                          WouldFill(Submitted(p, code, side, q), today, inHours)
                   PROVE  FALSE
        OBVIOUS
      <4>1. standing[p] # "disqualified" /\ inHours /\ mday[today] = "opened"
        <5>1. mday[today] \in {"unopened", "opened", "settled"}
          BY <1>1 DEF TypeOK
        <5>2. Submitted(p, code, side, q).participant = p
          BY DEF Submitted
        <5> QED BY <5>1, <5>2 DEF WouldFill, LocalVerdict, DayVerdict
      <4> QED BY <2>2, <4>1
    <3> HIDE DEF offered, fills
    <3>2. ~CanSubmit(p, code, side, EventInfo(today, inHours))
      BY <2>1, <2>2
    <3> QED BY <3>1, <3>2 DEF offered, fills
  <2>3. CASE usable
    <3>1. \A q \in 1 .. MaxQuantity :
             /\ offered \in Nat
             /\ WouldFill(Submitted(p, code, side, q), today, inHours) <=> q <= offered
      <4>1. inHours = TRUE
        BY <2>3
      <4> QED BY <1>1, <2>0, <2>3, <4>1, OfferedIsFilled
    <3>2. fills = {q \in 1 .. MaxQuantity : q <= offered}
      BY <3>1
    <3> HIDE DEF fills, offered
    <3>3. CASE offered < 1
      <4>1. fills = {}
        BY <2>0, <3>1, <3>2, <3>3
      <4>2. ~CanSubmit(p, code, side, EventInfo(today, inHours))
        BY <2>1, <3>3
      <4> QED BY <4>1, <4>2 DEF offered, fills
    <3>4. CASE ~(offered < 1)
      <4>1. 1 \in 1 .. MaxQuantity
        BY <2>0, <3>4
      <4>2. offered \in Nat \ {0}
        BY <3>1, <3>4, <4>1
      <4>3. fills = 1 .. Lesser(offered, MaxQuantity)
        BY <2>0, <3>2, <4>2 DEF Lesser
      <4>4. ASSUME NEW entered \in 1 .. MaxQuantity
            PROVE  QuantityShown(entered, offered) \in fills
        BY <2>0, <3>2, <4>2 DEF QuantityShown, ClampInt, Greater, Lesser
      <4>5. CanSubmit(p, code, side, EventInfo(today, inHours))
        BY <2>1, <2>3, <3>4
      <4> QED BY <4>3, <4>4, <4>5 DEF offered, fills
    <3> QED BY <3>3, <3>4
  <2> QED BY <2>2, <2>3
<1> QED
  BY <1>1, LedgerTypeCorrect, BooksStaySound, PricesStayPositive, PTL
=============================================================================
