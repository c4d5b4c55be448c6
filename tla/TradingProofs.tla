--------------------------- MODULE TradingProofs ---------------------------
(***************************************************************************)
(* The theorems about Trading: every step of an order, of a batch, of the  *)
(* clock and of the administrator keeps the invariant IndInv; the          *)
(* properties that follow from it; the refinement of the ledger; and the   *)
(* sums of the ledger, along its steps.                                    *)
(***************************************************************************)
EXTENDS Trading, LedgerProofs, TLAPS

-----------------------------------------------------------------------------
(* Every step of an order keeps the inductive invariant. *)

\* The rules Ledger reads through its own copy of LedgerRules are the rules
\* Trading reads.
LEMMA SameRules ==
    /\ L!Days = Days
    /\ L!Account = Account
    /\ L!OpeningAccount = OpeningAccount
    /\ L!OrderInput = OrderInput
    /\ L!OrderRow = OrderRow
    /\ \A rows, d : L!TradedOn(rows, d) = TradedOn(rows, d)
<1>1. L!Days = Days
  BY DEF L!Days, Days
<1>2. L!Account = Account
  BY DEF L!Account, Account
<1>3. L!OpeningAccount = OpeningAccount
  BY DEF L!OpeningAccount, OpeningAccount
<1>4. L!OrderInput = OrderInput
  BY DEF L!OrderInput, OrderInput
<1>5. L!OrderRow = OrderRow
  BY DEF L!OrderRow, OrderRow, L!RejectReasons, RejectReasons
<1>6. \A rows, d : L!TradedOn(rows, d) = TradedOn(rows, d)
  BY DEF L!TradedOn, TradedOn, L!Filled, Filled
<1> QED
  BY <1>1, <1>2, <1>3, <1>4, <1>5, <1>6

\* An empty market satisfies the inductive invariant.
LEMMA InitIndInv == Init => IndInv
<1> SUFFICES ASSUME Init PROVE IndInv
  OBVIOUS
<1> USE DEF Init, L!Init
<1>1. TypeOK
  <2>1. OpeningAccount \in Account
    BY MoneyAssumption DEF OpeningAccount, Account
  <2>2. L!TypeOK
    BY <2>1, SameRules DEF L!TypeOK
  <2> QED
    BY <2>1, <2>2 DEF TypeOK, NoWage, Running, BatchRunning
<1>2. RowsLocked
  BY LockAssumption DEF RowsLocked, Running, RowHeld, Filling
<1>3. DaysShared /\ DaysExclusive
  BY SameRules DEF DaysShared, DaysExclusive, Filling
<1>4. /\ OrdersJudged /\ RefusalsJustified /\ TalliesComplete
      /\ WagesRight /\ IdsFresh
  BY DEF OrdersJudged, RefusalsJustified, TalliesComplete, WagesRight, IdsFresh, Settles
<1>5. BatchesAlone /\ CallsClear /\ SettlingValid /\ OpeningValid
  BY QaAssumption, LockAssumption
     DEF BatchesAlone, PastBatchLock, CallsClear, SettlingValid, OpeningValid, Settles, BatchRunning
<1>6. MarketMovesOn
  BY SameRules DEF MarketMovesOn, Running
<1>7. SettledTradesFrozen
  BY DEF SettledTradesFrozen, L!SettledTradesFrozen
<1> QED
  BY <1>1, <1>2, <1>3, <1>4, <1>5, <1>6, <1>7 DEF IndInv

\* Taking a request in touches nothing another transaction relies on.
LEMMA SubmitKeeps ==
    ASSUME IndInv, NEW r \in Requests, Submit(r)
    PROVE  IndInv'
<1> USE DEF IndInv, Submit, ledger, locks, batchTx
<1>1. PICK o \in OrderInput :
        /\ phase[r] = "new"
        /\ asked' = [asked EXCEPT ![r] = o]
        /\ askedAt' = [askedAt EXCEPT ![r] = clock]
        /\ phase' = [phase EXCEPT ![r] = "waitRow"]
  OBVIOUS
<1>2. TypeOK'
  BY <1>1 DEF TypeOK, L!TypeOK, Running
<1>3. RowsLocked'
  BY <1>1, LockAssumption DEF RowsLocked, TypeOK, Running, RowHeld, Filling, RowRead, StandingRead
<1>4. DaysShared' /\ DaysExclusive'
  BY <1>1 DEF DaysShared, DaysExclusive, TypeOK, Filling
<1>5. OrdersJudged' /\ RefusalsJustified'
  <2>1. \A x \in Requests : phase'[x] = "commit" =>
          phase[x] = "commit" /\ asked'[x] = asked[x] /\ askedAt'[x] = askedAt[x]
    BY <1>1 DEF TypeOK
  <2>2. OrdersJudged'
    BY <2>1 DEF OrdersJudged
  <2>3. RefusalsJustified'
    BY <2>1, ZenonT(40) DEF RefusalsJustified, StandingRead
  <2> QED BY <2>2, <2>3
<1>6. BatchesAlone' /\ CallsClear' /\ SettlingValid' /\ OpeningValid'
  BY <1>1 DEF BatchesAlone, PastBatchLock, CallsClear, SettlingValid, OpeningValid,
         Settles, HasRound
<1>7. TalliesComplete' /\ WagesRight'
  BY <1>1 DEF TalliesComplete, WagesRight, Settles
<1>8. MarketMovesOn'
  BY <1>1 DEF MarketMovesOn, TypeOK
<1>9. IdsFresh'
  BY <1>1 DEF IdsFresh, TypeOK
<1>10. SettledTradesFrozen'
  BY <1>1 DEF SettledTradesFrozen, L!SettledTradesFrozen
<1> QED
  BY <1>2, <1>3, <1>4, <1>5, <1>6, <1>7, <1>8, <1>9, <1>10

\* An order that gets its row lock reads the row and is the only one to hold it.
LEMMA LockParticipantKeeps ==
    ASSUME IndInv, NEW r \in Requests, LockParticipant(r)
    PROVE  IndInv'
<1> DEFINE o == asked[r]
           p == o.participant
           verdict == LocalVerdict(o, StandingRead(r), MarketOpen(askedAt[r]))
<1>0. /\ phase[r] = "waitRow"
      /\ rowLock[p] = Free
      /\ rowLock' = [rowLock EXCEPT ![p] = r]
      /\ seen' = [seen EXCEPT ![r] = RowRead(r)]
      /\ \/ /\ verdict = "PASS"
            /\ phase' = [phase EXCEPT ![r] = "waitDay"]
            /\ staged' = staged
         \/ /\ verdict # "PASS"
            /\ staged' = [staged EXCEPT ![r] = Row(r, o, TradeDay(askedAt[r]), 0, verdict)]
            /\ phase' = [phase EXCEPT ![r] = "commit"]
      /\ UNCHANGED <<acct, standing, orders, mday, price, log, approved, paid>>
      /\ UNCHANGED <<clock, dayShare, dayLock, batchLock, asked, askedAt>>
      /\ UNCHANGED <<step, hasty, calledAt, settling, opening, tally, due, paying, wage>>
  BY DEF LockParticipant, RowFree, batchTx, ledger, Stage
<1>i. /\ TypeOK /\ RowsLocked /\ DaysShared /\ DaysExclusive /\ OrdersJudged
      /\ RefusalsJustified /\ BatchesAlone /\ CallsClear /\ SettlingValid /\ OpeningValid
      /\ TalliesComplete /\ WagesRight /\ MarketMovesOn /\ IdsFresh
      /\ SettledTradesFrozen
  BY DEF IndInv
<1>1. o \in OrderInput /\ p \in Participants
  BY <1>0, <1>i DEF RowsLocked, Running, OrderInput
<1>2. RowRead(r) \in Account
  BY <1>1, <1>i, SameRules DEF TypeOK, L!TypeOK, RowRead
<1>3. verdict # "PASS" =>
        /\ verdict # "FILLED"
        /\ Row(r, o, TradeDay(askedAt[r]), 0, verdict) \in OrderRow
  BY <1>1, <1>i DEF LocalVerdict, Row, OrderRow, OrderInput, RejectReasons, TypeOK, TradeDay,
              DateOf, Days
<1>4. verdict # "PASS" => staged'[r] \in OrderRow /\ staged'[r].outcome # "FILLED"
  BY <1>0, <1>i, <1>3 DEF TypeOK, Row
<1>5. \A x \in Requests : x # r =>
        phase'[x] = phase[x] /\ staged'[x] = staged[x] /\ seen'[x] = seen[x]
  BY <1>0, <1>i DEF TypeOK
<1>6. \/ phase'[r] = "waitDay" /\ verdict = "PASS"
      \/ phase'[r] = "commit" /\ staged'[r].outcome # "FILLED" /\ staged'[r] \in OrderRow
  BY <1>0, <1>i, <1>4 DEF TypeOK
<1>7. TypeOK'
  <2>1. staged' \in [Requests -> OrderRow \cup {NoOrder}]
    BY <1>0, <1>i, <1>3 DEF TypeOK
  <2>2. seen' \in [Requests -> Account]
    BY <1>0, <1>i, <1>2 DEF TypeOK
  <2>3. phase' \in [Requests -> Running \cup {"new", "done", "failed"}]
    BY <1>0, <1>i DEF TypeOK, Running
  <2>4. rowLock' \in [Participants -> Requests \cup Batches \cup {Free}]
    BY <1>0, <1>i DEF TypeOK
  <2>5. L!TypeOK'
    BY <1>0, <1>i DEF TypeOK, L!TypeOK
  <2> QED
    BY <1>0, <1>i, <2>1, <2>2, <2>3, <2>4, <2>5 DEF TypeOK
<1>8. RowsLocked'
  BY <1>0, <1>i, <1>1, <1>5, <1>6, LockAssumption
     DEF RowsLocked, TypeOK, Running, RowHeld, Filling, RowRead, StandingRead
<1>9. DaysShared' /\ DaysExclusive'
  <2>1. DaysShared'
    BY <1>0, <1>i, <1>5, <1>6 DEF DaysShared, Filling
  <2>2. \A x \in Requests : phase[x] \in {"decide", "commit"} => phase'[x] = phase[x]
    BY <1>0, <1>5
  <2>3. DaysExclusive'
    <3> SUFFICES ASSUME NEW d \in Days
                 PROVE  /\ dayShare[d] # {} => dayLock[d] = Free /\ mday[d] # "unopened"
                        /\ \A x \in dayShare[d] : phase'[x] \in {"decide", "commit"}
                        /\ dayLock[d] # Free =>
                             /\ settling[dayLock[d]] = d
                             /\ step[dayLock[d]] \in {"tally", "pick", "pay", "commit"}
      BY <1>0 DEF DaysExclusive
    <3>1. dayShare[d] \subseteq Requests
      BY <1>i DEF TypeOK
    <3> QED BY <1>i, <2>2, <3>1 DEF DaysExclusive
  <2> QED BY <2>1, <2>3
<1>10. OrdersJudged' /\ RefusalsJustified'
  <2>1. OrdersJudged'
    BY <1>0, <1>i, <1>5, <1>6 DEF OrdersJudged, TypeOK
  <2>2. ASSUME NEW x \in Requests, x # r, phase'[x] = "commit"
        PROVE  phase[x] = "commit" /\ staged'[x] = staged[x] /\ seen'[x] = seen[x]
    BY <1>5, <2>2
  <2>3. ASSUME phase'[r] = "commit"
        PROVE  /\ staged'[r] = Row(r, o, TradeDay(askedAt[r]), 0, verdict)
               /\ verdict \in {"MARKET_CLOSED", LocalVerdict(o, StandingRead(r), TRUE)}
    <3>1. staged'[r] = Row(r, o, TradeDay(askedAt[r]), 0, verdict)
      BY <1>0, <1>6, <1>i, <2>3 DEF TypeOK
    <3> QED BY <3>1 DEF LocalVerdict
  <2>4. ASSUME phase'[r] = "commit" PROVE staged'[r].outcome = verdict
    BY <2>3, <2>4 DEF Row
  <2>5. UNCHANGED <<asked, askedAt, standing, dayShare, mday, price, orders>>
    BY <1>0
  <2> SUFFICES ASSUME NEW x \in Requests, phase'[x] = "commit", staged'[x].outcome # "FILLED"
               PROVE  LET d == TradeDay(askedAt[x])
                          outcome == staged'[x].outcome
                      IN  /\ staged'[x] = Row(x, asked[x], d, 0, outcome)
                          /\ \/ outcome \in {"MARKET_CLOSED", "MARKET_NOT_OPENED"}
                             \/ outcome = LocalVerdict(asked[x], StandingRead(x), TRUE)
                             \/ /\ d \in Days
                                /\ x \in dayShare[d]
                                /\ mday[d] = "opened"
                                /\ outcome = TradeVerdict(asked[x], seen'[x], price[d],
                                       BoughtOn(orders, asked[x].participant, asked[x].code, d))
    BY <2>1, <2>5 DEF RefusalsJustified, StandingRead
  <2> HIDE DEF verdict
  <2>6. CASE x = r
    BY <2>3, <2>4, <2>6
  <2>7. CASE x # r
    BY <1>i, <2>2, <2>7 DEF RefusalsJustified
  <2> QED BY <2>6, <2>7
<1>11. BatchesAlone' /\ CallsClear' /\ SettlingValid' /\ OpeningValid'
  BY <1>0, <1>i DEF BatchesAlone, PastBatchLock, CallsClear, SettlingValid, OpeningValid,
         Settles, HasRound
<1>12. TalliesComplete' /\ SettledTradesFrozen'
  BY <1>0, <1>i DEF TalliesComplete, Settles, SettledTradesFrozen, L!SettledTradesFrozen
<1>13. WagesRight'
  BY <1>0, <1>i, LockAssumption DEF WagesRight, TypeOK
<1>14. MarketMovesOn'
  BY <1>0, <1>i, <1>5, <1>6 DEF MarketMovesOn, TypeOK, Running
<1>15. IdsFresh'
  BY <1>0, <1>i, SameRules DEF IdsFresh, TypeOK, L!TypeOK, OrderRow
<1> QED
  BY <1>7, <1>8, <1>9, <1>10, <1>11, <1>12, <1>13, <1>14, <1>15 DEF IndInv
\* An order that gets its share of the day keeps the day from being settled.
LEMMA LockDaySharedKeeps ==
    ASSUME IndInv, NEW r \in Requests, LockDayShared(r)
    PROVE  IndInv'
<1> DEFINE o == asked[r]
           day == TradeDay(askedAt[r])
           verdict == DayVerdict(mday[day])
<1>i. /\ TypeOK /\ RowsLocked /\ DaysShared /\ DaysExclusive /\ OrdersJudged
      /\ RefusalsJustified
      /\ BatchesAlone /\ CallsClear /\ SettlingValid /\ OpeningValid
      /\ TalliesComplete /\ WagesRight /\ MarketMovesOn
      /\ IdsFresh /\ SettledTradesFrozen
  BY DEF IndInv
<1>0. /\ phase[r] = "waitDay"
      /\ DayReadable(day)
      /\ dayShare' = SharedWith(day, r)
      /\ \/ /\ verdict = "PASS"
            /\ phase' = [phase EXCEPT ![r] = "decide"]
            /\ staged' = staged
         \/ /\ verdict # "PASS"
            /\ staged' = [staged EXCEPT ![r] = Row(r, o, day, 0, verdict)]
            /\ phase' = [phase EXCEPT ![r] = "commit"]
  BY DEF LockDayShared, Stage
<1>u. /\ UNCHANGED <<acct, standing, orders, mday, price, log, approved, paid>>
      /\ UNCHANGED <<clock, rowLock, dayLock, batchLock, asked, askedAt, seen>>
      /\ UNCHANGED <<step, hasty, calledAt, settling, opening, tally, due, paying, wage>>
  BY DEF LockDayShared, batchTx, ledger
<1>1. /\ o \in OrderInput
      /\ rowLock[o.participant] = r
      /\ LocalVerdict(o, StandingRead(r), MarketOpen(askedAt[r])) = "PASS"
  BY <1>0, <1>i DEF RowsLocked, Running, RowHeld
<1>2. day \in Days
  BY <1>1 DEF LocalVerdict, MarketOpen, TradeDay
<1>3. verdict # "PASS" =>
        verdict # "FILLED" /\ Row(r, o, day, 0, verdict) \in OrderRow
  BY <1>1, <1>2 DEF DayVerdict, Row, OrderRow, OrderInput, RejectReasons, Days
<1>4. \A x \in Requests : x # r => phase'[x] = phase[x] /\ staged'[x] = staged[x]
  BY <1>0, <1>i DEF TypeOK
<1>5. \/ phase'[r] = "decide" /\ verdict = "PASS"
      \/ phase'[r] = "commit" /\ staged'[r].outcome # "FILLED" /\ staged'[r] \in OrderRow
  <2>1. verdict # "PASS" => staged'[r] = Row(r, o, day, 0, verdict)
    BY <1>0, <1>i DEF TypeOK
  <2> QED
    BY <1>0, <1>i, <1>3, <2>1 DEF TypeOK, Row
<1>6. /\ dayShare' \in [Days -> SUBSET Requests]
      /\ \A d \in Days : d # day => dayShare'[d] = dayShare[d]
      /\ dayShare'[day] = IF mday[day] = "unopened" THEN dayShare[day]
                          ELSE dayShare[day] \cup {r}
      /\ mday[day] # "unopened" => dayLock[day] = Free
  BY <1>0, <1>2, <1>i DEF TypeOK, SharedWith, DayReadable
<1>7. TypeOK'
  <2>1. staged' \in [Requests -> OrderRow \cup {NoOrder}]
    BY <1>0, <1>3, <1>i DEF TypeOK
  <2>2. phase' \in [Requests -> Running \cup {"new", "done", "failed"}]
    BY <1>0, <1>i DEF TypeOK, Running
  <2>3. L!TypeOK'
    BY <1>u, <1>i DEF TypeOK, L!TypeOK
  <2> QED
    BY <1>u, <1>i, <1>6, <2>1, <2>2, <2>3 DEF TypeOK
<1>8. RowsLocked'
  <2>1. \A x \in Requests : RowHeld(x)' => RowHeld(x)
    BY <1>0, <1>4 DEF RowHeld
  <2>2. \A x \in Requests : RowHeld(x) => RowHeld(x)'
    BY <1>0, <1>4, <1>5 DEF RowHeld
  <2>3. \A x \in Requests : (phase[x] = "waitDay" \/ Filling(x))' => phase[x] = "waitDay" \/ Filling(x)
    BY <1>0, <1>4 DEF Filling
  <2> QED
    BY <1>u, <1>1, <1>4, <1>5, <1>i, <2>1, <2>2, <2>3, LockAssumption
       DEF RowsLocked, Running, RowRead, StandingRead
<1>9. DaysShared'
  <2>1. ASSUME verdict = "PASS" PROVE mday[day] = "opened"
    BY <2>1, <1>2, <1>i, SameRules DEF DayVerdict, TypeOK, L!TypeOK
  <2>2. phase'[r] = "decide" => mday[day] = "opened" /\ r \in dayShare'[day]
    BY <1>5, <1>6, <2>1
  <2>3. \A x \in Requests : x # r => (Filling(x)' <=> Filling(x))
    BY <1>4 DEF Filling
  <2>4. \A d \in Days : dayShare[d] \subseteq dayShare'[d]
    BY <1>6
  <2>5. Filling(r)' => phase'[r] = "decide"
    BY <1>5 DEF Filling
  <2> QED
    BY <1>u, <1>i, <1>2, <2>2, <2>3, <2>4, <2>5 DEF DaysShared
<1>10. DaysExclusive'
  <2> SUFFICES ASSUME NEW d \in Days
               PROVE  /\ dayShare'[d] # {} => dayLock[d] = Free /\ mday[d] # "unopened"
                      /\ \A x \in dayShare'[d] : phase'[x] \in {"decide", "commit"}
                      /\ dayLock[d] # Free =>
                           /\ settling[dayLock[d]] = d
                           /\ step[dayLock[d]] \in {"tally", "pick", "pay", "commit"}
    BY <1>u DEF DaysExclusive
  <2>1. dayShare[d] \subseteq Requests
    BY <1>i DEF TypeOK
  <2> QED BY <1>i, <1>4, <1>5, <1>6, <2>1 DEF DaysExclusive
<1>11. OrdersJudged' /\ RefusalsJustified'
  <2>1. OrdersJudged'
    BY <1>u, <1>i, <1>4, <1>5 DEF OrdersJudged
  <2>2. ASSUME phase'[r] = "commit"
        PROVE  /\ staged'[r] = Row(r, o, day, 0, verdict)
               /\ verdict \in {"MARKET_CLOSED", "MARKET_NOT_OPENED"}
    <3>1. staged'[r] = Row(r, o, day, 0, verdict) /\ verdict # "PASS"
      BY <1>0, <1>5, <1>i, <2>2 DEF TypeOK
    <3> QED BY <3>1 DEF DayVerdict
  <2>3. ASSUME phase'[r] = "commit" PROVE staged'[r].outcome = verdict
    BY <2>2, <2>3 DEF Row
  <2> HIDE DEF verdict
  <2>4. \A d \in Days : dayShare[d] \subseteq dayShare'[d]
    BY <1>6
  <2> QED
    BY <1>u, <1>4, <1>i, <2>1, <2>2, <2>3, <2>4 DEF RefusalsJustified, StandingRead
<1>12. BatchesAlone' /\ CallsClear' /\ SettlingValid' /\ OpeningValid'
  BY <1>u, <1>i DEF BatchesAlone, PastBatchLock, CallsClear, SettlingValid, OpeningValid,
         Settles, HasRound
<1>13. TalliesComplete' /\ SettledTradesFrozen'
  BY <1>u, <1>i DEF TalliesComplete, Settles, SettledTradesFrozen, L!SettledTradesFrozen
<1>14. WagesRight'
  BY <1>u, <1>i DEF WagesRight
<1>15. MarketMovesOn'
  BY <1>0, <1>u, <1>i, <1>4, <1>5 DEF MarketMovesOn, Running
<1>16. IdsFresh'
  BY <1>0, <1>u, <1>i, <1>4, SameRules DEF IdsFresh, TypeOK, L!TypeOK, OrderRow
<1> QED
  BY <1>7, <1>8, <1>9, <1>10, <1>11, <1>12, <1>13, <1>14, <1>15, <1>16 DEF IndInv

\* An order judged between its locks and its commit is judged by current rows.
LEMMA DecideKeeps ==
    ASSUME IndInv, NEW r \in Requests, Decide(r)
    PROVE  IndInv'
<1> DEFINE o == asked[r]
           day == TradeDay(askedAt[r])
           bought == BoughtOn(orders, o.participant, o.code, day)
           verdict == TradeVerdict(o, seen[r], price[day], bought)
           amount == IF verdict = "FILLED" THEN price[day][o.code] * o.quantity ELSE 0
<1>i. /\ TypeOK /\ RowsLocked /\ DaysShared /\ DaysExclusive /\ OrdersJudged
      /\ RefusalsJustified
      /\ BatchesAlone /\ CallsClear /\ SettlingValid /\ OpeningValid
      /\ TalliesComplete /\ WagesRight /\ MarketMovesOn
      /\ IdsFresh /\ SettledTradesFrozen
  BY DEF IndInv
<1>0. /\ phase[r] = "decide"
      /\ staged' = [staged EXCEPT ![r] = Row(r, o, day, amount, verdict)]
      /\ phase' = [phase EXCEPT ![r] = "commit"]
  BY DEF Decide, Stage
<1>u. /\ UNCHANGED <<acct, standing, orders, mday, price, log, approved, paid>>
      /\ UNCHANGED <<clock, rowLock, dayShare, dayLock, batchLock, asked, askedAt, seen>>
      /\ UNCHANGED <<step, hasty, calledAt, settling, opening, tally, due, paying, wage>>
  BY DEF Decide, batchTx, ledger, locks
<1>1. /\ o \in OrderInput
      /\ LocalVerdict(o, StandingRead(r), MarketOpen(askedAt[r])) = "PASS"
  BY <1>0, <1>i DEF RowsLocked, Running, Filling
<1>2. day \in Days
  BY <1>1 DEF LocalVerdict, MarketOpen, TradeDay
<1>3. o.code \in Codes /\ o.quantity \in Nat
  BY <1>1, QuantitiesAssumption DEF LocalVerdict
<1>4. amount \in Nat
  <2>1. price[day][o.code] \in Nat
    BY <1>2, <1>3, <1>i, SameRules DEF TypeOK, L!TypeOK
  <2> QED BY <1>3, <2>1, ProductNat
<1>5. verdict \in RejectReasons \cup {"FILLED"}
  BY DEF TradeVerdict, BuyVerdict, SellVerdict, RejectReasons
<1>6. Row(r, o, day, amount, verdict) \in OrderRow
  <2> HIDE DEF verdict, amount, o, day
  <2>1. o \in OrderInput /\ day \in Nat /\ amount \in Nat
    BY <1>1, <1>2, <1>4 DEF Days
  <2> QED BY <1>5, <2>1 DEF Row, OrderRow, OrderInput
<1>7. staged'[r] = Row(r, o, day, amount, verdict) /\ phase'[r] = "commit"
  BY <1>0, <1>i DEF TypeOK
<1>8. \A x \in Requests : x # r => phase'[x] = phase[x] /\ staged'[x] = staged[x]
  BY <1>0, <1>i DEF TypeOK
<1> HIDE DEF verdict, amount, bought
<1>9. TypeOK'
  <2>1. staged' \in [Requests -> OrderRow \cup {NoOrder}]
    BY <1>0, <1>6, <1>i DEF TypeOK
  <2>2. phase' \in [Requests -> Running \cup {"new", "done", "failed"}]
    BY <1>0, <1>i DEF TypeOK, Running
  <2>3. L!TypeOK'
    BY <1>u, <1>i DEF TypeOK, L!TypeOK
  <2> QED
    BY <1>u, <1>i, <2>1, <2>2, <2>3 DEF TypeOK
<1>10. RowsLocked'
  <2>1. \A x \in Requests : RowHeld(x)' <=> RowHeld(x)
    BY <1>0, <1>7, <1>8 DEF RowHeld
  <2>2. \A x \in Requests : (phase[x] = "waitDay" \/ Filling(x))' => phase[x] = "waitDay" \/ Filling(x)
    BY <1>0, <1>8 DEF Filling
  <2> QED
    BY <1>0, <1>u, <1>6, <1>7, <1>8, <1>i, <2>1, <2>2 DEF RowsLocked, Running, RowRead, StandingRead
<1>11. DaysShared'
  BY <1>0, <1>u, <1>i, <1>8 DEF DaysShared, Filling
<1>12. DaysExclusive'
  <2>1. \A d \in Days : \A x \in dayShare[d] : phase'[x] \in {"decide", "commit"}
    BY <1>7, <1>8, <1>i DEF DaysExclusive, TypeOK
  <2> QED
    BY <1>u, <1>i, <2>1 DEF DaysExclusive
<1>13. OrdersJudged'
  <2>1. verdict = "FILLED" => staged'[r] = Row(r, o, day, price[day][o.code] * o.quantity, "FILLED")
    BY <1>7 DEF amount
  <2>2. staged'[r].outcome = verdict
    BY <1>7 DEF Row
  <2> QED
    BY <1>u, <1>i, <1>8, <2>1, <2>2 DEF OrdersJudged, verdict, bought
<1>19. RefusalsJustified'
  <2>1. verdict # "FILLED" => staged'[r] = Row(r, o, day, 0, verdict)
    BY <1>7 DEF amount
  <2>2. staged'[r].outcome = verdict
    BY <1>7 DEF Row
  <2>3. r \in dayShare[day] /\ mday[day] = "opened"
    BY <1>0, <1>i DEF DaysShared, Filling
  <2> QED
    BY <1>u, <1>i, <1>2, <1>8, <2>1, <2>2, <2>3
       DEF RefusalsJustified, StandingRead, verdict, bought
<1>14. BatchesAlone' /\ CallsClear' /\ SettlingValid' /\ OpeningValid'
  BY <1>u, <1>i DEF BatchesAlone, PastBatchLock, CallsClear, SettlingValid, OpeningValid,
         Settles, HasRound
<1>15. TalliesComplete' /\ SettledTradesFrozen'
  BY <1>u, <1>i DEF TalliesComplete, Settles, SettledTradesFrozen, L!SettledTradesFrozen
<1>16. WagesRight'
  BY <1>u, <1>i DEF WagesRight
<1>17. MarketMovesOn'
  BY <1>0, <1>u, <1>i, <1>7, <1>8 DEF MarketMovesOn, Running
<1>18. IdsFresh'
  BY <1>0, <1>u, <1>i, <1>8, SameRules DEF IdsFresh, TypeOK, L!TypeOK, OrderRow
<1> QED
  BY <1>9, <1>10, <1>11, <1>12, <1>13, <1>14, <1>15, <1>16, <1>17, <1>18,
     <1>19 DEF IndInv
\* When an order ends it gives up its locks, and the others keep what they rely
\* on, provided that it changed only the rows it had locked.
LEMMA EndOrderKeeps ==
    ASSUME IndInv, NEW r \in Requests, NEW out \in {"done", "failed"},
           phase[r] \in Running, EndOrder(r, out),
           UNCHANGED <<standing, mday, price, log, approved, paid>>,
           acct' \in [Participants -> Account],
           orders' \subseteq OrderRow,
           \A p \in Participants : rowLock[p] # r => acct'[p] = acct[p],
           \A p \in Participants : rowLock[p] # r =>
              \A c, d : BoughtOn(orders', p, c, d) = BoughtOn(orders, p, c, d)
    PROVE  /\ TypeOK' /\ RowsLocked' /\ DaysShared' /\ DaysExclusive'
           /\ OrdersJudged' /\ RefusalsJustified'
           /\ BatchesAlone' /\ CallsClear' /\ SettlingValid'
      /\ OpeningValid' /\ WagesRight' /\ MarketMovesOn'
<1>i. /\ TypeOK /\ RowsLocked /\ DaysShared /\ DaysExclusive /\ OrdersJudged
      /\ RefusalsJustified
      /\ BatchesAlone /\ CallsClear /\ SettlingValid /\ OpeningValid
      /\ WagesRight /\ MarketMovesOn
  BY DEF IndInv
<1>u. /\ UNCHANGED <<standing, mday, price, log, approved, paid>>
      /\ UNCHANGED <<clock, dayLock, batchLock>>
      /\ UNCHANGED <<step, hasty, calledAt, settling, opening, tally, due, paying, wage>>
  BY DEF EndOrder, batchTx
<1>1. /\ phase'[r] = out
      /\ \A x \in Requests : x # r =>
            /\ phase'[x] = phase[x] /\ asked'[x] = asked[x] /\ askedAt'[x] = askedAt[x]
            /\ seen'[x] = seen[x] /\ staged'[x] = staged[x]
  BY <1>i DEF EndOrder, TypeOK
<1>2. /\ \A p \in Participants : rowLock'[p] = IF rowLock[p] = r THEN Free ELSE rowLock[p]
      /\ \A d \in Days : dayShare'[d] = dayShare[d] \ {r}
  BY DEF EndOrder
<1>3. \A x \in Requests : phase'[x] \in Running => x # r
  BY <1>1 DEF Running
<1>4. \A x \in Requests : RowHeld(x)' => x # r /\ RowHeld(x)
  BY <1>1 DEF RowHeld
<1>5. \A x \in Requests : Filling(x)' => x # r /\ Filling(x)
  BY <1>1 DEF Filling
<1>6. \A x \in Requests : RowHeld(x) =>
        asked[x].participant \in Participants /\ rowLock[asked[x].participant] = x
  BY <1>i DEF RowsLocked, RowHeld, Running, OrderInput
<1>7. TypeOK'
  <2>1. L!TypeOK'
    BY <1>u, <1>i, SameRules DEF TypeOK, L!TypeOK
  <2>2. phase' \in [Requests -> Running \cup {"new", "done", "failed"}]
    BY <1>i DEF EndOrder, TypeOK
  <2>3. /\ asked' \in [Requests -> OrderInput \cup {NoOrder}]
        /\ askedAt' \in [Requests -> Nat]
        /\ staged' \in [Requests -> OrderRow \cup {NoOrder}]
    BY <1>i DEF EndOrder, TypeOK
  <2>4. seen' \in [Requests -> Account]
    <3>1. OpeningAccount \in Account
      BY MoneyAssumption DEF OpeningAccount, Account
    <3> QED BY <3>1, <1>i DEF EndOrder, TypeOK
  <2>5. rowLock' \in [Participants -> Requests \cup Batches \cup {Free}]
    BY <1>i DEF EndOrder, TypeOK
  <2>6. dayShare' \in [Days -> SUBSET Requests]
    BY <1>i DEF EndOrder, TypeOK
  <2> QED
    BY <1>u, <1>i, <2>1, <2>2, <2>3, <2>4, <2>5, <2>6 DEF TypeOK
<1>8. RowsLocked'
  <2>1. ASSUME NEW x \in Requests
        PROVE  /\ phase'[x] \in Running => asked'[x] \in OrderInput
               /\ phase'[x] = "commit" => staged'[x] \in OrderRow
               /\ (phase[x] = "waitDay" \/ Filling(x))' =>
                     LocalVerdict(asked'[x], StandingRead(x)', MarketOpen(askedAt'[x])) = "PASS"
    BY <1>1, <1>3, <1>5, <1>i, <1>u DEF RowsLocked, StandingRead, Running
  <2>2. ASSUME NEW x \in Requests, RowHeld(x)'
        PROVE  rowLock'[asked'[x].participant] = x /\ seen'[x] = RowRead(x)'
    BY <2>2, <1>1, <1>2, <1>4, <1>6, <1>i DEF RowsLocked, RowRead
  <2>3. ASSUME NEW p \in Participants, rowLock'[p] \in Requests
        PROVE  RowHeld(rowLock[p])' /\ rowLock'[p] = rowLock[p]
               /\ asked'[rowLock[p]].participant = p
    <3>1. rowLock'[p] = rowLock[p] /\ rowLock[p] # r
      BY <1>2, <2>3, LockAssumption
    <3>2. RowHeld(rowLock[p]) /\ asked[rowLock[p]].participant = p
      BY <2>3, <3>1, <1>i DEF RowsLocked
    <3> QED BY <2>3, <3>1, <3>2, <1>1 DEF RowHeld
  <2>4. ASSUME NEW p \in Participants, rowLock'[p] \in Batches
        PROVE  step'[rowLock'[p]] = "pay"
    BY <2>4, <1>2, <1>i, <1>u, LockAssumption DEF RowsLocked
  <2> QED
    BY <2>1, <2>2, <2>3, <2>4 DEF RowsLocked
<1>9. DaysShared'
  BY <1>1, <1>2, <1>5, <1>i, <1>u DEF DaysShared
<1>10. DaysExclusive'
  <2>1. \A d \in Days : \A x \in dayShare'[d] : phase'[x] \in {"decide", "commit"}
    BY <1>1, <1>2, <1>i DEF DaysExclusive, TypeOK
  <2> QED
    BY <1>2, <1>u, <1>i, <2>1 DEF DaysExclusive
<1>11. OrdersJudged'
  <2> SUFFICES ASSUME NEW x \in Requests, phase'[x] = "commit", staged'[x].outcome = "FILLED"
               PROVE  LET o == asked'[x]
                          d == TradeDay(askedAt'[x])
                      IN  /\ staged'[x] = Row(x, o, d, price'[d][o.code] * o.quantity, "FILLED")
                          /\ TradeVerdict(o, seen'[x], price'[d],
                                  BoughtOn(orders', o.participant, o.code, d)) = "FILLED"
    BY DEF OrdersJudged
  <2>1. x # r
    BY <1>3 DEF Running
  <2>2. /\ asked[x].participant \in Participants
        /\ rowLock[asked[x].participant] # r
    BY <1>1, <1>6, <2>1 DEF RowHeld
  <2> QED
    BY <1>1, <1>i, <1>u, <2>1, <2>2 DEF OrdersJudged
<1>15. RefusalsJustified'
  <2> SUFFICES ASSUME NEW x \in Requests, phase'[x] = "commit", staged'[x].outcome # "FILLED"
               PROVE  LET o == asked'[x]
                          d == TradeDay(askedAt'[x])
                          outcome == staged'[x].outcome
                      IN  /\ staged'[x] = Row(x, o, d, 0, outcome)
                          /\ \/ outcome \in {"MARKET_CLOSED", "MARKET_NOT_OPENED"}
                             \/ outcome = LocalVerdict(o, standing[o.participant], TRUE)
                             \/ /\ d \in Days
                                /\ x \in dayShare'[d]
                                /\ mday[d] = "opened"
                                /\ outcome = TradeVerdict(o, seen'[x], price[d],
                                               BoughtOn(orders', o.participant, o.code, d))
    BY <1>u DEF RefusalsJustified, StandingRead
  <2>1. x # r
    BY <1>3 DEF Running
  <2>2. /\ asked[x].participant \in Participants
        /\ rowLock[asked[x].participant] # r
    BY <1>1, <1>6, <2>1 DEF RowHeld
  <2>3. \A d \in Days : x \in dayShare[d] => x \in dayShare'[d]
    BY <1>2, <2>1
  <2>4. /\ phase[x] = "commit" /\ staged[x].outcome # "FILLED"
        /\ asked'[x] = asked[x] /\ askedAt'[x] = askedAt[x]
        /\ seen'[x] = seen[x] /\ staged'[x] = staged[x]
    BY <1>1, <2>1
  <2> DEFINE o == asked[x]
             d == TradeDay(askedAt[x])
             outcome == staged[x].outcome
  <2>5. BoughtOn(orders', o.participant, o.code, d) = BoughtOn(orders, o.participant, o.code, d)
    BY <2>2
  <2>6. /\ staged[x] = Row(x, o, d, 0, outcome)
        /\ \/ outcome \in {"MARKET_CLOSED", "MARKET_NOT_OPENED"}
           \/ outcome = LocalVerdict(o, standing[o.participant], TRUE)
           \/ /\ d \in Days
              /\ x \in dayShare[d]
              /\ mday[d] = "opened"
              /\ outcome = TradeVerdict(o, seen[x], price[d],
                             BoughtOn(orders, o.participant, o.code, d))
    BY <1>i, <2>4 DEF RefusalsJustified, StandingRead
  <2>7. asked'[x] = o /\ TradeDay(askedAt'[x]) = d /\ staged'[x].outcome = outcome
    BY <2>4
  <2>8. d \in Days /\ x \in dayShare[d] => x \in dayShare'[d]
    BY <2>3
  <2> HIDE DEF o, d, outcome
  <2> QED
    BY <2>4, <2>5, <2>6, <2>7, <2>8
<1>12. BatchesAlone' /\ CallsClear' /\ SettlingValid' /\ OpeningValid'
  BY <1>u, <1>i DEF BatchesAlone, PastBatchLock, CallsClear, SettlingValid, OpeningValid,
         Settles, HasRound
<1>13. WagesRight'
  <2>1. \A b \in Batches : \A p \in Participants :
          (rowLock'[p] = b <=> rowLock[p] = b) /\ (rowLock[p] = b => acct'[p] = acct[p])
    BY <1>2, LockAssumption
  <2> SUFFICES ASSUME NEW b \in Batches
               PROVE  /\ step[b] # "pay" => paying[b] = {}
                      /\ step[b] = "pay" =>
                            due[b] \cup paying[b] \subseteq Payable(approved, paid, opening[b])
                      /\ step[b] = "pay" =>
                            \A p \in Participants :
                               IF rowLock'[p] = b
                               THEN /\ wage[b][p] = Rewarded(acct'[p], OwnedBy(paying[b], p)).cash
                                    /\ OwnedBy(due[b], p) = {}
                               ELSE OwnedBy(paying[b], p) = {}
    BY <1>u DEF WagesRight
  <2>2. ASSUME NEW p \in Participants, step[b] = "pay"
        PROVE  IF rowLock[p] = b
               THEN /\ wage[b][p] = Rewarded(acct[p], OwnedBy(paying[b], p)).cash
                    /\ OwnedBy(due[b], p) = {}
               ELSE OwnedBy(paying[b], p) = {}
    BY <1>i, <2>2 DEF WagesRight
  <2>3. /\ step[b] # "pay" => paying[b] = {}
        /\ step[b] = "pay" => due[b] \cup paying[b] \subseteq Payable(approved, paid, opening[b])
    BY <1>i DEF WagesRight
  <2> QED
    BY <2>1, <2>2, <2>3
<1>14. MarketMovesOn'
  BY <1>1, <1>3, <1>u, <1>i DEF MarketMovesOn
<1> QED
  BY <1>7, <1>8, <1>9, <1>10, <1>11, <1>12, <1>13, <1>14, <1>15

\* An order that fails before its commit leaves no trace.
LEMMA AbortOrderKeeps ==
    ASSUME IndInv, NEW r \in Requests, AbortOrder(r)
    PROVE  IndInv'
<1>i. /\ TypeOK /\ TalliesComplete /\ IdsFresh /\ SettledTradesFrozen
  BY DEF IndInv
<1>u. /\ UNCHANGED <<acct, standing, orders, mday, price, log, approved, paid>>
      /\ UNCHANGED <<step, settling, tally>>
  BY DEF AbortOrder, EndOrder, ledger, batchTx
<1>1. phase[r] \in Running /\ EndOrder(r, "failed")
  BY DEF AbortOrder
<1>2. acct \in [Participants -> Account] /\ orders \subseteq OrderRow
  BY <1>i, SameRules DEF TypeOK, L!TypeOK
<1>3. /\ TypeOK' /\ RowsLocked' /\ DaysShared' /\ DaysExclusive'
      /\ OrdersJudged' /\ RefusalsJustified'
           /\ BatchesAlone' /\ CallsClear' /\ SettlingValid'
      /\ OpeningValid' /\ WagesRight' /\ MarketMovesOn'
  BY <1>u, <1>1, <1>2, EndOrderKeeps
<1>4. TalliesComplete' /\ SettledTradesFrozen'
  BY <1>u, <1>i DEF TalliesComplete, Settles, SettledTradesFrozen, L!SettledTradesFrozen
<1>5. IdsFresh'
  <2>1. \A o \in orders : o.id \in Requests /\ phase[o.id] = "done"
    BY <1>i, <1>2 DEF IdsFresh, OrderRow
  <2> QED
    BY <1>u, <1>1, <1>i, <2>1 DEF IdsFresh, EndOrder, TypeOK, Running
<1> QED
  BY <1>3, <1>4, <1>5 DEF IndInv
\* An order that commits changes its own participant and adds one row, which no
\* settlement under way has counted past.
LEMMA CommitOrderKeeps ==
    ASSUME IndInv, NEW r \in Requests, CommitOrder(r)
    PROVE  IndInv'
<1> DEFINE o == asked[r]
           day == TradeDay(askedAt[r])
           s == staged[r]
<1>i. /\ TypeOK /\ RowsLocked /\ DaysShared /\ DaysExclusive /\ OrdersJudged
      /\ RefusalsJustified
      /\ TalliesComplete /\ IdsFresh /\ SettledTradesFrozen
  BY DEF IndInv
<1>0. /\ phase[r] = "commit"
      /\ orders' = orders \cup {s}
      /\ acct' = IF s.outcome = "FILLED"
                 THEN [acct EXCEPT ![o.participant] = Fill(seen[r], o, s.amount)]
                 ELSE acct
      /\ EndOrder(r, "done")
  BY DEF CommitOrder
<1>u. /\ UNCHANGED <<standing, mday, price, log, approved, paid>>
      /\ UNCHANGED <<step, settling, tally>>
  BY DEF CommitOrder, EndOrder, batchTx
<1>1. /\ s \in OrderRow
      /\ o \in OrderInput
      /\ o.participant \in Participants
      /\ rowLock[o.participant] = r
      /\ seen[r] = acct[o.participant]
  BY <1>0, <1>i DEF RowsLocked, RowHeld, Running, OrderInput, RowRead
<1>2. ASSUME s.outcome = "FILLED"
      PROVE  /\ s = Row(r, o, day, price[day][o.code] * o.quantity, "FILLED")
             /\ TradeVerdict(o, seen[r], price[day],
                     BoughtOn(orders, o.participant, o.code, day)) = "FILLED"
             /\ LocalVerdict(o, StandingRead(r), MarketOpen(askedAt[r])) = "PASS"
             /\ day \in Days /\ r \in dayShare[day] /\ mday[day] = "opened"
  <2>1. LocalVerdict(o, StandingRead(r), MarketOpen(askedAt[r])) = "PASS"
    BY <1>0, <1>2, <1>i DEF RowsLocked, Filling
  <2>2. day \in Days /\ r \in dayShare[day] /\ mday[day] = "opened"
    BY <1>0, <1>2, <1>i DEF DaysShared, Filling
  <2> QED BY <1>0, <1>2, <1>i, <2>1, <2>2 DEF OrdersJudged
<1>3. /\ acct \in [Participants -> Account]
      /\ orders \subseteq OrderRow
      /\ price \in [Days -> [Codes -> Nat]]
      /\ seen[r] \in Account
  BY <1>i, SameRules DEF TypeOK, L!TypeOK
<1>4. s.outcome = "FILLED" => s.participant = o.participant /\ s.day = day /\ s.id = r
  BY <1>2 DEF Row
<1>4a. s.id = r
  <2>1. s.outcome # "FILLED" => s = Row(r, o, day, 0, s.outcome)
    BY <1>0, <1>i DEF RefusalsJustified
  <2>2. Row(r, o, day, 0, s.outcome).id = r
    BY DEF Row
  <2> QED BY <1>4, <2>1, <2>2
<1>5. acct' \in [Participants -> Account]
  <2>1. ASSUME s.outcome = "FILLED" PROVE Fill(seen[r], o, s.amount) \in Account
    <3>1. s.amount = price[day][o.code] * o.quantity
      BY <1>2, <2>1 DEF Row
    <3>2. price[day] \in [Codes -> Nat]
      BY <1>2, <1>3, <2>1
    <3>3. s.amount \in Nat /\ Affordable(seen[r], o, s.amount)
      BY <1>1, <1>2, <1>3, <2>1, <3>1, <3>2, FilledIsAffordable
    <3> QED BY <1>1, <1>3, <3>3, FillKeepsAccount
  <2> QED BY <1>0, <1>3, <2>1
<1>6. orders' \subseteq OrderRow
  BY <1>0, <1>1, <1>3
<1>7. \A p \in Participants : rowLock[p] # r => acct'[p] = acct[p]
  BY <1>0, <1>1, <1>3
<1>8. \A p \in Participants : rowLock[p] # r =>
        \A c, d : BoughtOn(orders', p, c, d) = BoughtOn(orders, p, c, d)
  <2> SUFFICES ASSUME NEW p \in Participants, rowLock[p] # r, NEW c, NEW d
               PROVE  BoughtOn(orders', p, c, d) = BoughtOn(orders, p, c, d)
    OBVIOUS
  <2>1. s.outcome = "FILLED" => s.participant # p
    BY <1>1, <1>4
  <2>2. {x \in Filled(orders') : /\ x.participant = p /\ x.code = c
                                 /\ x.side = "buy" /\ x.day = d}
        = {x \in Filled(orders) : /\ x.participant = p /\ x.code = c
                                  /\ x.side = "buy" /\ x.day = d}
    BY <1>0, <2>1 DEF Filled
  <2> QED BY <2>2 DEF BoughtOn
<1>9. /\ TypeOK' /\ RowsLocked' /\ DaysShared' /\ DaysExclusive'
      /\ OrdersJudged' /\ RefusalsJustified'
           /\ BatchesAlone' /\ CallsClear' /\ SettlingValid'
      /\ OpeningValid' /\ WagesRight' /\ MarketMovesOn'
  <2>1. phase[r] \in Running
    BY <1>0 DEF Running
  <2> QED BY <1>0, <1>u, <1>5, <1>6, <1>7, <1>8, <2>1, EndOrderKeeps
<1>10. \A d \in Days : mday[d] = "settled" \/ dayLock[d] # Free =>
         TradedOn(orders', d) = TradedOn(orders, d)
  <2> SUFFICES ASSUME NEW d \in Days, mday[d] = "settled" \/ dayLock[d] # Free
               PROVE  TradedOn(orders', d) = TradedOn(orders, d)
    OBVIOUS
  <2>1. s.outcome = "FILLED" => s.day # d
    BY <1>2, <1>4, <1>i DEF DaysExclusive
  <2> QED BY <1>0, <2>1 DEF TradedOn, Filled
<1>11. TalliesComplete'
  <2> SUFFICES ASSUME NEW b \in Batches, Settles(b), step[b] # "tally"
               PROVE  tally[b] = TradedOn(orders', settling[b])
    BY <1>u DEF TalliesComplete, Settles
  <2>1. settling[b] \in Days /\ dayLock[settling[b]] = b
    BY DEF IndInv, SettlingValid
  <2>2. dayLock[settling[b]] # Free
    BY <2>1, LockAssumption
  <2> QED BY <1>10, <1>i, <2>1, <2>2 DEF TalliesComplete
<1>12. SettledTradesFrozen'
  BY <1>u, <1>10, <1>i, SameRules DEF SettledTradesFrozen, L!SettledTradesFrozen
<1>13. IdsFresh'
  <2>1. \A x \in orders : x.id \in Requests /\ phase[x.id] = "done"
    BY <1>i, <1>3 DEF IdsFresh, OrderRow
  <2> QED
    BY <1>0, <1>i, <1>4a, <2>1 DEF IdsFresh, EndOrder, TypeOK
<1> QED
  BY <1>9, <1>11, <1>12, <1>13 DEF IndInv

-----------------------------------------------------------------------------
(* Every step of a batch keeps it. *)

\* A batch step that commits nothing leaves what the orders rely on.
LEMMA LedgerUntouched ==
    ASSUME IndInv, UNCHANGED <<ledger, clock, orderTx, dayShare>>
    PROVE  /\ DaysShared' /\ OrdersJudged' /\ RefusalsJustified'
           /\ IdsFresh' /\ SettledTradesFrozen' /\ L!TypeOK'
<1>i. /\ TypeOK /\ DaysShared /\ OrdersJudged /\ RefusalsJustified
      /\ IdsFresh /\ SettledTradesFrozen
  BY DEF IndInv
<1>u. /\ UNCHANGED <<acct, standing, orders, mday, price, log, approved, paid>>
      /\ UNCHANGED <<phase, asked, askedAt, seen, staged, dayShare>>
  BY DEF ledger, orderTx
<1>1. DaysShared'
  BY <1>u, <1>i DEF DaysShared, Filling
<1>2. OrdersJudged'
  BY <1>u, <1>i DEF OrdersJudged
<1>3. RefusalsJustified'
  BY <1>u, <1>i DEF RefusalsJustified, StandingRead
<1>4. IdsFresh' /\ SettledTradesFrozen' /\ L!TypeOK'
  BY <1>u, <1>i DEF IdsFresh, SettledTradesFrozen, L!SettledTradesFrozen, TypeOK, L!TypeOK
<1> QED
  BY <1>1, <1>2, <1>3, <1>4

\* A day has opened when its row of market_days exists.
LEMMA OpenedIsOpened ==
    ASSUME IndInv, NEW d \in Days
    PROVE  /\ mday[d] \in {"unopened", "opened", "settled"}
           /\ d \in Opened(mday) <=> mday[d] # "unopened"
  BY SameRules DEF IndInv, TypeOK, L!TypeOK, Opened

\* latest_opened_day is the last opened day, or 0 when none is.
LEMMA LatestOpenedIsLast ==
    /\ LatestOpened = 0 \/ LatestOpened \in Opened(mday)
    /\ \A e \in Opened(mday) : LatestOpened # 0 /\ e <= LatestOpened
<1>1. CASE Opened(mday) = {}
  BY <1>1 DEF LatestOpened
<1>2. CASE Opened(mday) # {}
  <2>1. \E d \in Opened(mday) : \A e \in Opened(mday) : e <= d
    BY <1>2, LastOf DEF Opened
  <2>2. LatestOpened = CHOOSE d \in Opened(mday) : \A e \in Opened(mday) : e <= d
    BY <1>2 DEF LatestOpened
  <2>3. LatestOpened \in Opened(mday) /\ \A e \in Opened(mday) : e <= LatestOpened
    BY <2>1, <2>2
  <2>4. LatestOpened # 0
    BY <2>3 DEF Opened, Days
  <2> QED BY <2>3, <2>4
<1> QED BY <1>1, <1>2

\* A batch that is called holds nothing yet.
LEMMA CallBatchKeeps ==
    ASSUME IndInv, NEW b \in Batches, CallBatch(b)
    PROVE  IndInv'
<1>i. /\ TypeOK /\ RowsLocked /\ DaysExclusive /\ BatchesAlone /\ CallsClear
      /\ SettlingValid /\ OpeningValid /\ TalliesComplete /\ WagesRight /\ MarketMovesOn
  BY DEF IndInv
<1>0. /\ step[b] = "idle"
      /\ step' = [step EXCEPT ![b] = "waitBatch"]
      /\ calledAt' = [calledAt EXCEPT ![b] = clock]
      /\ settling' \in [Batches -> Nat] /\ opening' \in [Batches -> Nat]
      /\ hasty' \in [Batches -> BOOLEAN]
      /\ \A x \in Batches : x # b =>
            settling'[x] = settling[x] /\ opening'[x] = opening[x] /\ hasty'[x] = hasty[x]
      /\ settling'[b] = 0 \/ opening'[b] = 0
      /\ hasty'[b] => QaTools /\ settling'[b] = 0 /\ opening'[b] = 0
  <2>1. /\ settling \in [Batches -> Nat] /\ opening \in [Batches -> Nat]
        /\ hasty \in [Batches -> BOOLEAN]
    BY <1>i DEF TypeOK
  <2>2. step[b] = "idle" /\ settling[b] = 0 /\ opening[b] = 0 /\ ~hasty[b]
    BY <1>i DEF CallBatch, CallsClear
  <2>3. CASE \E d \in Days : opening' = [opening EXCEPT ![b] = d] /\ UNCHANGED <<settling, hasty>>
    BY <2>1, <2>2, <2>3 DEF CallBatch, Days
  <2>4. CASE \E d \in Days : settling' = [settling EXCEPT ![b] = d] /\ UNCHANGED <<opening, hasty>>
    BY <2>1, <2>2, <2>4 DEF CallBatch, Days
  <2>5. CASE QaTools /\ hasty' = [hasty EXCEPT ![b] = TRUE] /\ UNCHANGED <<settling, opening>>
    BY <2>1, <2>2, <2>5 DEF CallBatch
  <2> QED BY <2>3, <2>4, <2>5 DEF CallBatch
<1>u. /\ UNCHANGED <<acct, standing, orders, mday, price, log, approved, paid>>
      /\ UNCHANGED <<clock, rowLock, dayShare, dayLock, batchLock>>
      /\ UNCHANGED <<phase, asked, askedAt, seen, staged, tally, due, paying, wage>>
  BY DEF CallBatch, ledger, locks, orderTx
<1>1. step'[b] = "waitBatch" /\ \A x \in Batches : x # b => step'[x] = step[x]
  BY <1>0, <1>i DEF TypeOK
<1>2. /\ DaysShared' /\ OrdersJudged' /\ RefusalsJustified'
      /\ IdsFresh' /\ SettledTradesFrozen' /\ L!TypeOK'
  BY <1>u, LedgerUntouched DEF ledger, orderTx
<1>3. TypeOK'
  BY <1>0, <1>u, <1>2, <1>i DEF TypeOK, BatchRunning
<1>4. RowsLocked'
  <2>1. \A p \in Participants : rowLock[p] \in Batches => step'[rowLock[p]] = "pay"
    BY <1>0, <1>1, <1>i DEF RowsLocked
  <2> QED
    BY <1>u, <1>i, <2>1 DEF RowsLocked, RowHeld, Filling, RowRead, StandingRead
<1>5. DaysExclusive'
  <2>1. \A d \in Days : dayLock[d] # Free => dayLock[d] \in Batches /\ dayLock[d] # b
    <3>1. dayLock \in [Days -> Batches \cup {Free}]
      BY <1>i DEF TypeOK
    <3>2. \A d \in Days : dayLock[d] # Free => step[dayLock[d]] # "idle"
      BY <1>i DEF DaysExclusive
    <3> QED BY <1>0, <3>1, <3>2
  <2> QED
    BY <1>0, <1>1, <1>u, <1>i, <2>1 DEF DaysExclusive
<1>6. BatchesAlone' /\ CallsClear'
  <2>1. \A x \in Batches : PastBatchLock(x)' <=> PastBatchLock(x)
    BY <1>0, <1>1 DEF PastBatchLock, BatchRunning
  <2>2. BatchesAlone'
    BY <1>u, <1>i, <2>1 DEF BatchesAlone
  <2>3. CallsClear'
    BY <1>0, <1>1, <1>u, <1>i DEF CallsClear
  <2> QED BY <2>2, <2>3
<1>7. SettlingValid'
  BY <1>0, <1>1, <1>u, <1>i DEF SettlingValid, Settles, HasRound
<1>8. OpeningValid'
  BY <1>0, <1>1, <1>u, <1>i DEF OpeningValid
<1>9. TalliesComplete'
  BY <1>0, <1>1, <1>u, <1>i DEF TalliesComplete, Settles
<1>10. WagesRight'
  BY <1>0, <1>1, <1>u, <1>i DEF WagesRight
<1>11. MarketMovesOn'
  BY <1>0, <1>1, <1>u, <1>i DEF MarketMovesOn, TypeOK
<1> QED
  BY <1>2, <1>3, <1>4, <1>5, <1>6, <1>7, <1>8, <1>9, <1>10, <1>11 DEF IndInv
\* The batch that gets the advisory lock is alone with market_days: the days it
\* finds under the lock stay the right ones.
LEMMA EnterBatchKeeps ==
    ASSUME IndInv, NEW b \in Batches, EnterBatch(b)
    PROVE  IndInv'
<1>i. /\ TypeOK /\ RowsLocked /\ DaysExclusive /\ BatchesAlone /\ CallsClear
      /\ SettlingValid /\ OpeningValid /\ TalliesComplete /\ WagesRight /\ MarketMovesOn
  BY DEF IndInv
<1>0. /\ step[b] = "waitBatch"
      /\ batchLock = Free /\ batchLock' = b
      /\ EntryAccepted(b)
      /\ settling' = [settling EXCEPT ![b] = DayToSettle(b)]
      /\ opening' = [opening EXCEPT ![b] = DayToOpen(b)]
      /\ step' = [step EXCEPT ![b] = IF DayToSettle(b) # 0 THEN "waitDay" ELSE "pick"]
  BY DEF EnterBatch, BatchFree
<1>u. /\ UNCHANGED <<acct, standing, orders, mday, price, log, approved, paid>>
      /\ UNCHANGED <<clock, rowLock, dayShare, dayLock>>
      /\ UNCHANGED <<phase, asked, askedAt, seen, staged>>
      /\ UNCHANGED <<hasty, calledAt, tally, due, paying, wage>>
  BY DEF EnterBatch, ledger, orderTx
<1>1. /\ settling'[b] = DayToSettle(b) /\ opening'[b] = DayToOpen(b)
      /\ step'[b] = IF DayToSettle(b) # 0 THEN "waitDay" ELSE "pick"
      /\ \A x \in Batches : x # b =>
            settling'[x] = settling[x] /\ opening'[x] = opening[x] /\ step'[x] = step[x]
  BY <1>0, <1>i DEF TypeOK
<1>2. \A x \in Batches : ~PastBatchLock(x) /\ (x # b => ~PastBatchLock(x)')
  <2>1. \A x \in Batches : ~PastBatchLock(x)
    BY <1>0, <1>i, LockAssumption DEF BatchesAlone
  <2> QED BY <1>1, <2>1 DEF PastBatchLock
<1>3. /\ DaysShared' /\ OrdersJudged' /\ RefusalsJustified'
      /\ IdsFresh' /\ SettledTradesFrozen' /\ L!TypeOK'
  BY <1>u, LedgerUntouched DEF ledger, orderTx
<1>4. /\ LatestOpened = 0 \/ (LatestOpened \in Days /\ mday[LatestOpened] # "unopened")
      /\ \A e \in Opened(mday) : e <= LatestOpened
  BY LatestOpenedIsLast DEF Opened
<1>5. /\ settling[b] \in Nat /\ opening[b] \in Nat /\ hasty[b] \in BOOLEAN
      /\ settling[b] = 0 \/ opening[b] = 0
      /\ hasty[b] => settling[b] = 0 /\ opening[b] = 0
  BY <1>0, <1>i DEF TypeOK, CallsClear
<1>6. DayToSettle(b) \in Nat /\ DayToOpen(b) \in Nat
  BY <1>4, <1>5 DEF DayToSettle, DayToOpen, Days
<1>7. DayToSettle(b) # 0 =>
        /\ DayToSettle(b) \in Days /\ HasRound(DayToSettle(b))
        /\ DayToOpen(b) # 0 =>
              /\ hasty[b]
              /\ DayToOpen(b) = DayToSettle(b) + 1
              /\ \A e \in Opened(mday) : e <= DayToSettle(b)
  <2> SUFFICES ASSUME DayToSettle(b) # 0
               PROVE  /\ DayToSettle(b) \in Days /\ HasRound(DayToSettle(b))
                      /\ DayToOpen(b) # 0 =>
                            /\ hasty[b]
                            /\ DayToOpen(b) = DayToSettle(b) + 1
                            /\ \A e \in Opened(mday) : e <= DayToSettle(b)
    OBVIOUS
  <2>1. HasRound(DayToSettle(b))
    BY <1>0 DEF EntryAccepted
  <2>2. DayToSettle(b) \in Days
    BY <1>6, <2>1, DaysAssumption DEF HasRound, Days
  <2>3. hasty[b] => DayToSettle(b) = LatestOpened /\ DayToOpen(b) = LatestOpened + 1
    BY <1>5 DEF DayToSettle, DayToOpen
  <2>4. ~hasty[b] => DayToSettle(b) = settling[b] /\ DayToOpen(b) = opening[b]
    BY DEF DayToSettle, DayToOpen
  <2> QED BY <1>4, <1>5, <2>1, <2>2, <2>3, <2>4
<1>8. DayToSettle(b) = 0 =>
        /\ DayToOpen(b) \in Days
        /\ \A e \in Opened(mday) : e < DayToOpen(b)
        /\ hasty[b] \/ DateOf(calledAt[b]) >= DayToOpen(b)
  BY <1>0 DEF EntryAccepted, Openable
<1>9. ASSUME DayToSettle(b) = 0, NEW d \in Days, mday[d] = "opened"
      PROVE  clock >= 3 * d
  <2>1. d \in Opened(mday) /\ d \in Nat
    BY <1>9 DEF Opened, Days
  <2>2. CASE hasty[b]
    <3>1. LatestOpened \in Days /\ mday[LatestOpened] # "unopened" /\ d <= LatestOpened
      BY <1>4, <2>1 DEF Days
    <3>2. mday[LatestOpened] # "opened"
      BY <1>9, <2>2, <3>1 DEF DayToSettle, Days
    <3>3. d < LatestOpened
      BY <1>9, <3>1, <3>2 DEF Days
    <3> QED BY <1>9, <1>i, <3>1, <3>3 DEF MarketMovesOn
  <2>3. CASE ~hasty[b]
    <3>1. d < DayToOpen(b) /\ DateOf(calledAt[b]) >= DayToOpen(b) /\ DayToOpen(b) \in Nat
      BY <1>6, <1>8, <1>9, <2>1, <2>3
    <3>2. calledAt[b] \in Nat /\ clock \in Nat /\ calledAt[b] <= clock
      BY <1>0, <1>i DEF TypeOK, MarketMovesOn
    <3>3. calledAt[b] \div 3 + 1 > d
      BY <3>1, <3>2, <2>1 DEF DateOf
    <3> QED BY <2>1, <3>2, <3>3
  <2> QED BY <2>2, <2>3
<1>10. TypeOK'
  <2>1. /\ settling' \in [Batches -> Nat] /\ opening' \in [Batches -> Nat]
        /\ step' \in [Batches -> BatchRunning \cup {"idle"}]
    BY <1>0, <1>6, <1>i DEF TypeOK, BatchRunning
  <2> QED
    BY <1>0, <1>u, <1>3, <1>i, <2>1 DEF TypeOK
<1>11. RowsLocked'
  <2>1. \A p \in Participants : rowLock[p] \in Batches => step'[rowLock[p]] = "pay"
    BY <1>0, <1>1, <1>i DEF RowsLocked
  <2> QED
    BY <1>u, <1>i, <2>1 DEF RowsLocked, RowHeld, Filling, RowRead, StandingRead
<1>12. \A d \in Days : dayLock[d] = Free
  BY <1>2, <1>i DEF DaysExclusive, TypeOK, PastBatchLock, BatchRunning
<1>13. DaysExclusive'
  BY <1>12, <1>u, <1>i DEF DaysExclusive
<1>14. BatchesAlone' /\ CallsClear'
  <2>1. PastBatchLock(b)'
    BY <1>1 DEF PastBatchLock, BatchRunning
  <2>2. BatchesAlone'
    BY <1>0, <1>2, <2>1 DEF BatchesAlone
  <2>3. CallsClear'
    BY <1>0, <1>1, <1>2, <1>u, <1>i DEF CallsClear
  <2> QED BY <2>2, <2>3
<1>15. SettlingValid'
  <2> SUFFICES ASSUME NEW x \in Batches
               PROVE  /\ step'[x] \in {"waitDay", "tally", "commit"} => settling'[x] # 0
                      /\ (step[x] = "waitDay" \/ Settles(x))' =>
                            settling'[x] \in Days /\ HasRound(settling'[x])
                      /\ ~Settles(x)'
    BY DEF SettlingValid
  <2>1. CASE x = b
    BY <1>1, <1>7, <2>1 DEF Settles
  <2>2. CASE x # b
    BY <1>2, <2>2 DEF Settles, PastBatchLock, BatchRunning
  <2> QED BY <2>1, <2>2
<1>16. OpeningValid'
  <2> SUFFICES ASSUME NEW x \in Batches
               PROVE  /\ step'[x] # "commit"
                      /\ step'[x] \in {"waitDay", "tally", "pick", "pay"}
                           /\ settling'[x] # 0 /\ opening'[x] # 0 =>
                              /\ hasty[x]
                              /\ opening'[x] = settling'[x] + 1
                              /\ \A e \in Opened(mday) : e <= settling'[x]
                      /\ step'[x] \in {"pick", "pay"} =>
                            /\ opening'[x] \in Days
                            /\ \A e \in Opened(mday) : e < opening'[x]
                            /\ settling'[x] = 0 =>
                                  \A d \in Days : mday[d] = "opened" => clock >= 3 * d
    BY <1>u DEF OpeningValid
  <2>1. CASE x = b
    BY <1>1, <1>7, <1>8, <1>9, <2>1
  <2>2. CASE x # b
    BY <1>2, <2>2 DEF PastBatchLock, BatchRunning
  <2> QED BY <2>1, <2>2
<1>17. TalliesComplete'
  BY <1>1, <1>2 DEF TalliesComplete, Settles, PastBatchLock, BatchRunning
<1>18. WagesRight'
  <2>1. \A x \in Batches : step'[x] # "pay" /\ step[x] # "pay"
    BY <1>0, <1>1, <1>2 DEF PastBatchLock, BatchRunning
  <2> QED BY <1>u, <1>i, <2>1 DEF WagesRight
<1>19. MarketMovesOn'
  BY <1>0, <1>1, <1>u, <1>i DEF MarketMovesOn
<1> QED
  BY <1>3, <1>10, <1>11, <1>13, <1>14, <1>15, <1>16, <1>17, <1>18, <1>19 DEF IndInv
\* While a batch is past the advisory lock, all others wait at it or are idle.
LEMMA OthersOutside ==
    ASSUME IndInv, NEW b \in Batches, PastBatchLock(b)
    PROVE  /\ batchLock = b
           /\ \A x \in Batches : x # b => step[x] \in {"idle", "waitBatch"}
  BY DEF IndInv, BatchesAlone, PastBatchLock, TypeOK, BatchRunning

\* The steps under the advisory lock that lock no row and end nothing.
LEMMA BatchStepKeeps ==
    ASSUME IndInv, NEW b \in Batches, PastBatchLock(b), NEW to \in BatchRunning \ {"waitBatch"},
           step[b] # "pay",
           step' = [step EXCEPT ![b] = to],
           UNCHANGED <<ledger, clock, orderTx, rowLock, dayShare, batchLock>>,
           UNCHANGED <<hasty, calledAt, settling, opening, paying, wage>>
    PROVE  /\ TypeOK' = (dayLock \in [Days -> Batches \cup {Free}]
                         /\ tally \in [Batches -> SUBSET OrderRow]
                         /\ due \in [Batches -> SUBSET Certs])'
           /\ RowsLocked' /\ DaysShared' /\ OrdersJudged' /\ RefusalsJustified'
           /\ BatchesAlone' /\ CallsClear' /\ MarketMovesOn' /\ IdsFresh' /\ SettledTradesFrozen'
           /\ step'[b] = to
           /\ \A x \in Batches : x # b => step'[x] \in {"idle", "waitBatch"}
<1>i. /\ TypeOK /\ RowsLocked /\ DaysExclusive /\ BatchesAlone /\ CallsClear
      /\ SettlingValid /\ OpeningValid /\ TalliesComplete /\ WagesRight /\ MarketMovesOn
  BY DEF IndInv
<1>u. /\ UNCHANGED <<acct, standing, orders, mday, price, log, approved, paid>>
      /\ UNCHANGED <<phase, asked, askedAt, seen, staged>>
  BY DEF ledger, orderTx
<1>1. step'[b] = to /\ \A x \in Batches : x # b => step'[x] = step[x]
  BY <1>i DEF TypeOK
<1>2. /\ batchLock = b
      /\ \A x \in Batches : x # b => step[x] \in {"idle", "waitBatch"}
  BY OthersOutside
<1>3. /\ DaysShared' /\ OrdersJudged' /\ RefusalsJustified'
      /\ IdsFresh' /\ SettledTradesFrozen' /\ L!TypeOK'
  BY LedgerUntouched
<1>4. step' \in [Batches -> BatchRunning \cup {"idle"}]
  BY <1>i DEF TypeOK
<1>5. TypeOK' = (dayLock \in [Days -> Batches \cup {Free}]
                /\ tally \in [Batches -> SUBSET OrderRow]
                /\ due \in [Batches -> SUBSET Certs])'
  BY <1>3, <1>4, <1>u, <1>i DEF TypeOK
<1>6. RowsLocked'
  <2>1. \A p \in Participants : rowLock[p] \in Batches => step'[rowLock[p]] = "pay"
    BY <1>1, <1>i DEF RowsLocked
  <2> QED
    BY <1>u, <1>i, <2>1 DEF RowsLocked, RowHeld, Filling, RowRead, StandingRead
<1>7. BatchesAlone' /\ CallsClear'
  BY <1>1, <1>2, <1>i DEF BatchesAlone, CallsClear, PastBatchLock, BatchRunning
<1>8. MarketMovesOn'
  BY <1>1, <1>u, <1>i DEF MarketMovesOn, PastBatchLock, BatchRunning
<1> QED
  BY <1>1, <1>2, <1>3, <1>5, <1>6, <1>7, <1>8

\* A settlement gets its day when no order shares it.
LEMMA LockDayExclusiveKeeps ==
    ASSUME IndInv, NEW b \in Batches, LockDayExclusive(b)
    PROVE  IndInv'
<1>i. /\ TypeOK /\ RowsLocked /\ DaysExclusive /\ BatchesAlone /\ CallsClear
      /\ SettlingValid /\ OpeningValid /\ TalliesComplete /\ WagesRight /\ MarketMovesOn
  BY DEF IndInv
<1> DEFINE d == settling[b]
<1>0. /\ step[b] = "waitDay" /\ dayShare[d] = {} /\ dayLock[d] = Free
      /\ mday[d] = "opened" /\ mday[d + 1] = "unopened"
      /\ dayLock' = [dayLock EXCEPT ![d] = b]
      /\ step' = [step EXCEPT ![b] = "tally"]
  BY DEF LockDayExclusive, DayExclusive, NoOrderOn, Settleable
<1>u. /\ UNCHANGED <<ledger, clock, orderTx, rowLock, dayShare, batchLock>>
      /\ UNCHANGED <<mday, hasty, calledAt, settling, opening, tally, due, paying, wage>>
  BY DEF LockDayExclusive, ledger
<1>1. d \in Days /\ HasRound(d) /\ d # 0
  BY <1>0, <1>i DEF SettlingValid
<1>2. PastBatchLock(b) /\ "tally" \in BatchRunning \ {"waitBatch"}
  BY <1>0 DEF PastBatchLock, BatchRunning
<1>3. /\ TypeOK' = (dayLock \in [Days -> Batches \cup {Free}]
                    /\ tally \in [Batches -> SUBSET OrderRow]
                    /\ due \in [Batches -> SUBSET Certs])'
      /\ RowsLocked' /\ DaysShared' /\ OrdersJudged' /\ RefusalsJustified'
      /\ BatchesAlone' /\ CallsClear' /\ MarketMovesOn' /\ IdsFresh' /\ SettledTradesFrozen'
      /\ step'[b] = "tally"
      /\ \A x \in Batches : x # b => step'[x] \in {"idle", "waitBatch"}
  BY <1>0, <1>u, <1>2, BatchStepKeeps
<1>4. TypeOK'
  BY <1>0, <1>u, <1>3, <1>i DEF TypeOK
<1>5. /\ dayLock'[d] = b
      /\ \A e \in Days : e # d => dayLock'[e] = dayLock[e]
  BY <1>0, <1>1, <1>i DEF TypeOK
<1>6. \A e \in Days : dayLock[e] = Free
  <2>1. \A x \in Batches : step[x] \notin {"tally", "pick", "pay", "commit"}
    BY <1>0, <1>2, OthersOutside
  <2> QED BY <2>1, <1>i DEF DaysExclusive, TypeOK
<1>7. DaysExclusive'
  BY <1>0, <1>u, <1>3, <1>5, <1>6, <1>i, LockAssumption DEF DaysExclusive, orderTx
<1>8. SettlingValid'
  BY <1>0, <1>u, <1>1, <1>3, <1>5 DEF SettlingValid, Settles, HasRound
<1>9. OpeningValid'
  BY <1>0, <1>u, <1>1, <1>3, <1>i DEF OpeningValid
<1>10. TalliesComplete'
  BY <1>3 DEF TalliesComplete, Settles
<1>11. WagesRight'
  <2>1. \A x \in Batches : step[x] # "pay" /\ step'[x] # "pay"
    BY <1>0, <1>2, <1>3, OthersOutside
  <2> QED BY <2>1, <1>u, <1>i DEF WagesRight
<1> QED
  BY <1>3, <1>4, <1>7, <1>8, <1>9, <1>10, <1>11 DEF IndInv

\* A settlement aggregates while its day is locked.
LEMMA TallyKeeps ==
    ASSUME IndInv, NEW b \in Batches, Tally(b)
    PROVE  IndInv'
<1>i. /\ TypeOK /\ RowsLocked /\ DaysExclusive /\ BatchesAlone /\ CallsClear
      /\ SettlingValid /\ OpeningValid /\ TalliesComplete /\ WagesRight /\ MarketMovesOn
  BY DEF IndInv
<1> DEFINE d == settling[b]
           to == IF opening[b] # 0 THEN "pick" ELSE "commit"
<1>0. /\ step[b] = "tally"
      /\ tally' = [tally EXCEPT ![b] = TradedOn(orders, d)]
      /\ step' = [step EXCEPT ![b] = to]
  BY DEF Tally
<1>u. /\ UNCHANGED <<ledger, clock, orderTx, rowLock, dayShare, batchLock>>
      /\ UNCHANGED <<orders, mday, dayLock, hasty, calledAt, settling, opening>>
      /\ UNCHANGED <<due, paying, wage, phase>>
  BY DEF Tally, ledger, locks, orderTx
<1>1. /\ d \in Days /\ HasRound(d) /\ d # 0
      /\ dayLock[d] = b /\ mday[d] = "opened" /\ mday[d + 1] = "unopened"
  BY <1>0, <1>i DEF SettlingValid, Settles
<1>2. PastBatchLock(b) /\ to \in BatchRunning \ {"waitBatch"}
  BY <1>0 DEF PastBatchLock, BatchRunning
<1>3. /\ TypeOK' = (dayLock \in [Days -> Batches \cup {Free}]
                    /\ tally \in [Batches -> SUBSET OrderRow]
                    /\ due \in [Batches -> SUBSET Certs])'
      /\ RowsLocked' /\ DaysShared' /\ OrdersJudged' /\ RefusalsJustified'
      /\ BatchesAlone' /\ CallsClear' /\ MarketMovesOn' /\ IdsFresh' /\ SettledTradesFrozen'
      /\ step'[b] = to
      /\ \A x \in Batches : x # b => step'[x] \in {"idle", "waitBatch"}
  <2> HIDE DEF to
  <2> QED BY <1>0, <1>u, <1>2, BatchStepKeeps
<1>4. TypeOK'
  <2>1. TradedOn(orders, d) \subseteq OrderRow
    BY <1>i, SameRules DEF TypeOK, L!TypeOK, TradedOn, Filled
  <2> QED BY <1>0, <1>u, <1>3, <1>i, <2>1 DEF TypeOK
<1>5. DaysExclusive'
  <2>1. \A e \in Days : dayLock[e] # Free => dayLock[e] = b
    <3>1. \A x \in Batches : step[x] \in {"tally", "pick", "pay", "commit"} => x = b
      BY <1>2, OthersOutside
    <3> QED BY <3>1, <1>i DEF DaysExclusive, TypeOK
  <2>2. step'[b] \in {"tally", "pick", "pay", "commit"}
    BY <1>3
  <2> QED BY <1>u, <1>i, <2>1, <2>2 DEF DaysExclusive
<1>6. SettlingValid'
  BY <1>0, <1>u, <1>1, <1>3 DEF SettlingValid, Settles, HasRound
<1>7. OpeningValid'
  <2>1. opening[b] # 0 =>
          /\ hasty[b] /\ opening[b] = d + 1
          /\ \A e \in Opened(mday) : e <= d
    BY <1>0, <1>1, <1>i DEF OpeningValid
  <2>2. opening[b] # 0 => opening[b] \in Days /\ \A e \in Opened(mday) : e < opening[b]
    BY <1>1, <2>1 DEF HasRound, Opened, Days
  <2> SUFFICES ASSUME NEW x \in Batches
               PROVE  /\ step'[x] = "commit" => opening[x] = 0
                      /\ step'[x] \in {"waitDay", "tally", "pick", "pay"}
                           /\ settling[x] # 0 /\ opening[x] # 0 =>
                              /\ hasty[x]
                              /\ opening[x] = settling[x] + 1
                              /\ \A e \in Opened(mday) : e <= settling[x]
                      /\ step'[x] \in {"pick", "pay"} =>
                            /\ opening[x] \in Days
                            /\ \A e \in Opened(mday) : e < opening[x]
                            /\ settling[x] = 0 =>
                                  \A dd \in Days : mday[dd] = "opened" => clock >= 3 * dd
    BY <1>u DEF OpeningValid
  <2>3. CASE x = b
    BY <1>1, <1>3, <2>1, <2>2, <2>3
  <2>4. CASE x # b
    BY <1>3, <2>4
  <2> QED BY <2>3, <2>4
<1>8. TalliesComplete'
  <2>1. tally'[b] = TradedOn(orders, d)
    BY <1>0, <1>i DEF TypeOK
  <2> QED BY <1>u, <1>3, <2>1 DEF TalliesComplete, Settles
<1>9. WagesRight'
  <2>1. \A x \in Batches : step[x] # "pay" /\ step'[x] # "pay"
    BY <1>0, <1>2, <1>3, OthersOutside
  <2> QED BY <2>1, <1>u, <1>i DEF WagesRight
<1> QED
  BY <1>3, <1>4, <1>5, <1>6, <1>7, <1>8, <1>9 DEF IndInv
\* What pay_rewards selects is owed and not yet paid.
LEMMA PickRewardsKeeps ==
    ASSUME IndInv, NEW b \in Batches, PickRewards(b)
    PROVE  IndInv'
<1>i. /\ TypeOK /\ RowsLocked /\ DaysExclusive /\ BatchesAlone /\ CallsClear
      /\ SettlingValid /\ OpeningValid /\ TalliesComplete /\ WagesRight /\ MarketMovesOn
  BY DEF IndInv
<1> DEFINE owed == {c \in Payable(approved, paid, opening[b]) :
                      standing[CertOwner[c]] # "disqualified"}
<1>0. /\ step[b] = "pick"
      /\ due' = [due EXCEPT ![b] = owed]
      /\ step' = [step EXCEPT ![b] = "pay"]
  BY DEF PickRewards
<1>u. /\ UNCHANGED <<ledger, clock, orderTx, rowLock, dayShare, batchLock>>
      /\ UNCHANGED <<acct, approved, paid, orders, mday, dayLock, hasty, calledAt, settling>>
      /\ UNCHANGED <<opening, tally, paying, wage, phase>>
  BY DEF PickRewards, ledger, locks, orderTx
<1>2. PastBatchLock(b) /\ "pay" \in BatchRunning \ {"waitBatch"}
  BY <1>0 DEF PastBatchLock, BatchRunning
<1>3. /\ TypeOK' = (dayLock \in [Days -> Batches \cup {Free}]
                    /\ tally \in [Batches -> SUBSET OrderRow]
                    /\ due \in [Batches -> SUBSET Certs])'
      /\ RowsLocked' /\ DaysShared' /\ OrdersJudged' /\ RefusalsJustified'
      /\ BatchesAlone' /\ CallsClear' /\ MarketMovesOn' /\ IdsFresh' /\ SettledTradesFrozen'
      /\ step'[b] = "pay"
      /\ \A x \in Batches : x # b => step'[x] \in {"idle", "waitBatch"}
  BY <1>0, <1>u, <1>2, BatchStepKeeps
<1>4. owed \subseteq Payable(approved, paid, opening[b]) /\ owed \subseteq Certs
  BY <1>i, SameRules DEF TypeOK, L!TypeOK, Payable
<1> HIDE DEF owed
<1>5. TypeOK'
  BY <1>0, <1>u, <1>3, <1>4, <1>i DEF TypeOK
<1>6. DaysExclusive'
  <2>1. \A e \in Days : dayLock[e] # Free => dayLock[e] = b
    <3>1. \A x \in Batches : step[x] \in {"tally", "pick", "pay", "commit"} => x = b
      BY <1>2, OthersOutside
    <3> QED BY <3>1, <1>i DEF DaysExclusive, TypeOK
  <2> QED BY <1>u, <1>3, <1>i, <2>1 DEF DaysExclusive
<1>7. SettlingValid'
  BY <1>0, <1>u, <1>3, <1>i DEF SettlingValid, Settles, HasRound
<1>8. OpeningValid'
  BY <1>0, <1>u, <1>3, <1>i DEF OpeningValid
<1>9. TalliesComplete'
  BY <1>0, <1>u, <1>3, <1>i DEF TalliesComplete, Settles
<1>10. WagesRight'
  <2>1. due'[b] = owed /\ paying[b] = {}
    BY <1>0, <1>4, <1>i DEF TypeOK, WagesRight
  <2>2. \A p \in Participants : rowLock[p] # b /\ OwnedBy(paying[b], p) = {}
    BY <1>0, <1>i, <2>1 DEF RowsLocked, OwnedBy
  <2>3. \A x \in Batches : x # b => paying[x] = {} /\ step'[x] # "pay"
    BY <1>2, <1>3, <1>i, OthersOutside DEF WagesRight
  <2> QED
    BY <1>3, <1>4, <1>u, <2>1, <2>2, <2>3 DEF WagesRight
<1> QED
  BY <1>3, <1>5, <1>6, <1>7, <1>8, <1>9, <1>10 DEF IndInv

\* A reward is computed from the cash read under the row lock, once for all of
\* the participant's certifications.
LEMMA PayParticipantKeeps ==
    ASSUME IndInv, NEW b \in Batches, PayParticipant(b)
    PROVE  IndInv'
<1>i. /\ TypeOK /\ RowsLocked /\ DaysExclusive /\ BatchesAlone /\ CallsClear
      /\ SettlingValid /\ OpeningValid /\ TalliesComplete /\ WagesRight /\ MarketMovesOn
  BY DEF IndInv
<1>s. PICK p \in Participants :
        /\ step[b] = "pay"
        /\ RowFree(p)
        /\ rowLock' = [rowLock EXCEPT ![p] = b]
        /\ wage' = [wage EXCEPT ![b][p] = Rewarded(acct[p], OwnedBy(due[b], p)).cash]
        /\ due' = [due EXCEPT ![b] = @ \ OwnedBy(due[b], p)]
        /\ paying' = [paying EXCEPT ![b] = @ \cup OwnedBy(due[b], p)]
  BY DEF PayParticipant
<1> DEFINE mine == OwnedBy(due[b], p)
<1>u. /\ UNCHANGED <<ledger, clock, orderTx, dayShare>>
      /\ UNCHANGED <<acct, standing, orders, mday, price, log, approved, paid>>
      /\ UNCHANGED <<phase, asked, askedAt, seen, staged, dayLock, batchLock>>
      /\ UNCHANGED <<step, hasty, calledAt, settling, opening, tally>>
  BY DEF PayParticipant, ledger, orderTx
<1>1. /\ rowLock[p] = Free /\ rowLock'[p] = b
      /\ \A q \in Participants : q # p => rowLock'[q] = rowLock[q]
  BY <1>s, <1>i DEF TypeOK, RowFree
<1>2. /\ DaysShared' /\ OrdersJudged' /\ RefusalsJustified'
      /\ IdsFresh' /\ SettledTradesFrozen' /\ L!TypeOK'
  BY <1>u, LedgerUntouched
<1>3. /\ mine \subseteq due[b] /\ due[b] \subseteq Certs /\ paying[b] \subseteq Certs
      /\ acct[p] \in Account
  BY <1>i, SameRules DEF TypeOK, L!TypeOK, OwnedBy
<1>4. Rewarded(acct[p], mine).cash \in Nat
  BY <1>3, RewardedKeepsAccount
<1> HIDE DEF mine
<1>5. TypeOK'
  <2>1. wage' \in [Batches -> [Participants -> Nat]]
    BY <1>s, <1>4, <1>i DEF TypeOK, mine
  <2>2. due' \in [Batches -> SUBSET Certs] /\ paying' \in [Batches -> SUBSET Certs]
    BY <1>s, <1>3, <1>i DEF TypeOK, mine
  <2>3. rowLock' \in [Participants -> Requests \cup Batches \cup {Free}]
    BY <1>s, <1>i DEF TypeOK
  <2> QED BY <1>u, <1>2, <1>i, <2>1, <2>2, <2>3 DEF TypeOK
<1>6. RowsLocked'
  <2>1. \A x \in Requests : RowHeld(x) => asked[x].participant \in Participants
    BY <1>i DEF RowsLocked, RowHeld, Running, OrderInput
  <2>2. \A x \in Requests : RowHeld(x) => rowLock'[asked[x].participant] = x
    BY <1>1, <1>i, <2>1, LockAssumption DEF RowsLocked
  <2>3. \A q \in Participants : rowLock'[q] \in Requests =>
          RowHeld(rowLock'[q]) /\ asked[rowLock'[q]].participant = q
    BY <1>1, <1>i, LockAssumption DEF RowsLocked
  <2>4. \A q \in Participants : rowLock'[q] \in Batches => step[rowLock'[q]] = "pay"
    BY <1>1, <1>s, <1>i DEF RowsLocked
  <2> QED
    BY <1>u, <1>i, <2>2, <2>3, <2>4 DEF RowsLocked, RowHeld, Filling, RowRead, StandingRead
<1>7. DaysExclusive' /\ BatchesAlone' /\ CallsClear'
  BY <1>u, <1>i DEF DaysExclusive, BatchesAlone, CallsClear, PastBatchLock
<1>8. SettlingValid' /\ OpeningValid' /\ TalliesComplete'
  BY <1>u, <1>i DEF SettlingValid, OpeningValid, TalliesComplete, Settles, HasRound
<1>9. WagesRight'
  <2>1. /\ due'[b] = due[b] \ mine /\ paying'[b] = paying[b] \cup mine
        /\ wage'[b][p] = Rewarded(acct[p], mine).cash
        /\ \A q \in Participants : q # p => wage'[b][q] = wage[b][q]
    BY <1>s, <1>i DEF TypeOK, mine
  <2>2. OwnedBy(paying[b], p) = {}
    BY <1>1, <1>s, <1>i, LockAssumption DEF WagesRight
  <2>3. OwnedBy(paying'[b], p) = mine /\ OwnedBy(due'[b], p) = {}
    BY <2>1, <2>2 DEF OwnedBy, mine
  <2>4. \A q \in Participants : q # p =>
          OwnedBy(paying'[b], q) = OwnedBy(paying[b], q) /\ OwnedBy(due'[b], q) = OwnedBy(due[b], q)
    BY <2>1 DEF OwnedBy, mine
  <2>5. due'[b] \cup paying'[b] \subseteq due[b] \cup paying[b]
    BY <1>3, <2>1
  <2>6. \A q \in Participants :
          IF rowLock'[q] = b
          THEN /\ wage'[b][q] = Rewarded(acct[q], OwnedBy(paying'[b], q)).cash
               /\ OwnedBy(due'[b], q) = {}
          ELSE OwnedBy(paying'[b], q) = {}
    <3> TAKE q \in Participants
    <3>1. CASE q = p
      BY <1>1, <2>1, <2>3, <3>1
    <3>2. CASE q # p
      <4>1. IF rowLock[q] = b
            THEN /\ wage[b][q] = Rewarded(acct[q], OwnedBy(paying[b], q)).cash
                 /\ OwnedBy(due[b], q) = {}
            ELSE OwnedBy(paying[b], q) = {}
        BY <1>s, <1>i DEF WagesRight
      <4> QED BY <1>1, <2>1, <2>4, <3>2, <4>1
    <3> QED BY <3>1, <3>2
  <2>7. \A x \in Batches : x # b => paying'[x] = {} /\ step[x] # "pay"
    <3>1. \A x \in Batches : x # b => step[x] # "pay"
      BY <1>s, OthersOutside DEF PastBatchLock, BatchRunning
    <3> QED BY <1>s, <3>1, <1>i DEF WagesRight, TypeOK
  <2>8. due[b] \cup paying[b] \subseteq Payable(approved, paid, opening[b])
    BY <1>s, <1>i DEF WagesRight
  <2> QED BY <1>s, <1>u, <2>5, <2>6, <2>7, <2>8 DEF WagesRight
<1>10. MarketMovesOn'
  BY <1>u, <1>i DEF MarketMovesOn
<1> QED
  BY <1>2, <1>5, <1>6, <1>7, <1>8, <1>9, <1>10 DEF IndInv
\* What every way to end a batch has in common: the rows it changed were its own.
LEMMA EndBatchKeeps ==
    ASSUME IndInv, NEW b \in Batches, step[b] \in BatchRunning, EndBatch(b),
           PastBatchLock(b) \/ UNCHANGED ledger,
           UNCHANGED <<standing, orders, approved>>,
           L!TypeOK',
           \A p \in Participants : rowLock[p] # b => acct'[p] = acct[p],
           \A d \in Days : dayShare[d] # {} => mday'[d] = mday[d] /\ price'[d] = price[d],
           \A d, e \in Days :
              d < e /\ mday'[d] = "opened" /\ mday'[e] # "unopened" => clock >= 3 * d
    PROVE  /\ TypeOK' /\ RowsLocked' /\ DaysShared' /\ DaysExclusive' /\ OrdersJudged'
           /\ RefusalsJustified' /\ BatchesAlone' /\ CallsClear' /\ SettlingValid'
           /\ OpeningValid' /\ TalliesComplete' /\ WagesRight' /\ MarketMovesOn' /\ IdsFresh'
<1>i. /\ TypeOK /\ RowsLocked /\ DaysShared /\ DaysExclusive /\ OrdersJudged
      /\ RefusalsJustified /\ BatchesAlone /\ CallsClear /\ SettlingValid /\ OpeningValid
      /\ TalliesComplete /\ WagesRight /\ MarketMovesOn /\ IdsFresh
  BY DEF IndInv
<1>u. /\ UNCHANGED <<standing, orders, approved, clock, dayShare>>
      /\ UNCHANGED <<phase, asked, askedAt, seen, staged>>
  BY DEF EndBatch, orderTx
<1>1. /\ step'[b] = "idle" /\ ~hasty'[b] /\ settling'[b] = 0 /\ opening'[b] = 0
      /\ calledAt'[b] = 0 /\ paying'[b] = {} /\ due'[b] = {}
  BY <1>i DEF EndBatch, TypeOK
<1>2. ASSUME NEW x \in Batches, x # b
      PROVE  /\ step'[x] = step[x] /\ hasty'[x] = hasty[x] /\ settling'[x] = settling[x]
             /\ opening'[x] = opening[x] /\ calledAt'[x] = calledAt[x]
             /\ tally'[x] = tally[x] /\ due'[x] = due[x] /\ paying'[x] = paying[x]
             /\ wage'[x] = wage[x]
  BY <1>2, <1>i DEF EndBatch, TypeOK
<1>3. /\ batchLock' = IF batchLock = b THEN Free ELSE batchLock
      /\ \A d \in Days : dayLock'[d] = IF dayLock[d] = b THEN Free ELSE dayLock[d]
      /\ \A p \in Participants : rowLock'[p] = IF rowLock[p] = b THEN Free ELSE rowLock[p]
  BY DEF EndBatch
<1>4. TypeOK'
  <2>1. /\ step' \in [Batches -> BatchRunning \cup {"idle"}]
        /\ hasty' \in [Batches -> BOOLEAN] /\ calledAt' \in [Batches -> Nat]
        /\ settling' \in [Batches -> Nat] /\ opening' \in [Batches -> Nat]
    BY <1>i DEF EndBatch, TypeOK
  <2>2. /\ tally' \in [Batches -> SUBSET OrderRow]
        /\ due' \in [Batches -> SUBSET Certs] /\ paying' \in [Batches -> SUBSET Certs]
    BY <1>i DEF EndBatch, TypeOK
  <2>3. wage' \in [Batches -> [Participants -> Nat]]
    BY <1>i DEF EndBatch, TypeOK, NoWage
  <2>4. /\ rowLock' \in [Participants -> Requests \cup Batches \cup {Free}]
        /\ dayLock' \in [Days -> Batches \cup {Free}]
        /\ batchLock' \in Batches \cup {Free}
    BY <1>i DEF EndBatch, TypeOK
  <2> QED BY <1>u, <1>i, <2>1, <2>2, <2>3, <2>4 DEF TypeOK
<1>5. \A r \in Requests : RowHeld(r) =>
        /\ asked[r].participant \in Participants
        /\ rowLock[asked[r].participant] = r
        /\ rowLock'[asked[r].participant] = r
        /\ acct'[asked[r].participant] = acct[asked[r].participant]
  <2> SUFFICES ASSUME NEW r \in Requests, RowHeld(r)
               PROVE  /\ asked[r].participant \in Participants
                      /\ rowLock[asked[r].participant] = r
                      /\ rowLock'[asked[r].participant] = r
                      /\ acct'[asked[r].participant] = acct[asked[r].participant]
    OBVIOUS
  <2>1. asked[r].participant \in Participants /\ rowLock[asked[r].participant] = r
    BY <1>i DEF RowsLocked, RowHeld, Running, OrderInput
  <2>2. r # b
    BY LockAssumption
  <2> QED BY <1>3, <2>1, <2>2
<1>6. RowsLocked'
  <2>1. \A r \in Requests : RowHeld(r) =>
          rowLock'[asked[r].participant] = r /\ seen[r] = acct'[asked[r].participant]
    BY <1>5, <1>i DEF RowsLocked, RowRead
  <2>2. \A p \in Participants : rowLock'[p] \in Requests =>
          RowHeld(rowLock'[p]) /\ asked[rowLock'[p]].participant = p
    BY <1>3, <1>i, LockAssumption DEF RowsLocked
  <2>3. \A p \in Participants : rowLock'[p] \in Batches => step'[rowLock'[p]] = "pay"
    BY <1>2, <1>3, <1>i, LockAssumption DEF RowsLocked
  <2> QED
    BY <1>u, <1>i, <2>1, <2>2, <2>3 DEF RowsLocked, RowHeld, Filling, RowRead, StandingRead
<1>7. \A r \in Requests : \A d \in Days : r \in dayShare[d] /\ mday[d] = "opened" =>
        mday'[d] = "opened" /\ price'[d] = price[d]
  OBVIOUS
<1>8. DaysShared'
  BY <1>7, <1>u, <1>i DEF DaysShared, Filling
<1>9. DaysExclusive'
  <2> SUFFICES ASSUME NEW d \in Days
               PROVE  /\ dayShare[d] # {} => dayLock'[d] = Free /\ mday'[d] # "unopened"
                      /\ \A r \in dayShare[d] : phase[r] \in {"decide", "commit"}
                      /\ dayLock'[d] # Free =>
                            /\ settling'[dayLock'[d]] = d
                            /\ step'[dayLock'[d]] \in {"tally", "pick", "pay", "commit"}
    BY <1>u DEF DaysExclusive
  <2>1. dayLock[d] \in Batches \cup {Free}
    BY <1>i DEF TypeOK
  <2>2. dayShare[d] # {} => dayLock'[d] = Free /\ mday'[d] # "unopened"
    BY <1>3, <1>i DEF DaysExclusive
  <2>3. dayLock'[d] # Free => dayLock'[d] = dayLock[d] /\ dayLock[d] # b
    BY <1>3
  <2> QED BY <1>2, <1>i, <2>1, <2>2, <2>3 DEF DaysExclusive
<1>10. OrdersJudged'
  <2> SUFFICES ASSUME NEW r \in Requests, phase[r] = "commit", staged[r].outcome = "FILLED"
               PROVE  LET o == asked[r]
                          d == TradeDay(askedAt[r])
                      IN  /\ staged[r] = Row(r, o, d, price'[d][o.code] * o.quantity, "FILLED")
                          /\ TradeVerdict(o, seen[r], price'[d],
                                  BoughtOn(orders, o.participant, o.code, d)) = "FILLED"
    BY <1>u DEF OrdersJudged
  <2>1. price'[TradeDay(askedAt[r])] = price[TradeDay(askedAt[r])]
    BY <1>7, <1>i DEF DaysShared, Filling
  <2> QED BY <1>i, <2>1 DEF OrdersJudged
<1>11. RefusalsJustified'
  <2> SUFFICES ASSUME NEW r \in Requests, phase[r] = "commit", staged[r].outcome # "FILLED"
               PROVE  LET o == asked[r]
                          d == TradeDay(askedAt[r])
                          outcome == staged[r].outcome
                      IN  /\ staged[r] = Row(r, o, d, 0, outcome)
                          /\ \/ outcome \in {"MARKET_CLOSED", "MARKET_NOT_OPENED"}
                             \/ outcome = LocalVerdict(o, standing[o.participant], TRUE)
                             \/ /\ d \in Days
                                /\ r \in dayShare[d]
                                /\ mday'[d] = "opened"
                                /\ outcome = TradeVerdict(o, seen[r], price'[d],
                                               BoughtOn(orders, o.participant, o.code, d))
    BY <1>u DEF RefusalsJustified, StandingRead
  <2> DEFINE d == TradeDay(askedAt[r])
  <2>1. d \in Days /\ r \in dayShare[d] /\ mday[d] = "opened" =>
          mday'[d] = "opened" /\ price'[d] = price[d]
    BY <1>7
  <2> HIDE DEF d
  <2> QED BY <1>i, <2>1 DEF RefusalsJustified, StandingRead, d
<1>12. BatchesAlone' /\ CallsClear'
  <2>1. \A x \in Batches : PastBatchLock(x)' <=> x # b /\ PastBatchLock(x)
    BY <1>1, <1>2 DEF PastBatchLock, BatchRunning
  <2>2. BatchesAlone'
    BY <1>3, <1>i, <2>1, LockAssumption DEF BatchesAlone
  <2>3. CallsClear'
    BY <1>1, <1>2, <1>i DEF CallsClear
  <2> QED BY <2>2, <2>3
<1>13. MarketMovesOn'
  BY <1>1, <1>2, <1>u, <1>i DEF MarketMovesOn
<1>14. IdsFresh'
  BY <1>u, <1>i DEF IdsFresh
<1>15. SettlingValid' /\ OpeningValid' /\ TalliesComplete' /\ WagesRight'
  <2>1. CASE PastBatchLock(b)
    <3>1. \A x \in Batches : step'[x] \in {"idle", "waitBatch"}
      BY <1>1, <1>2, <2>1, OthersOutside
    <3>2. \A x \in Batches : paying'[x] = {}
      <4>1. \A x \in Batches : x # b => step[x] # "pay"
        BY <2>1, OthersOutside
      <4> QED BY <1>1, <1>2, <1>i, <4>1 DEF WagesRight
    <3> QED BY <3>1, <3>2 DEF SettlingValid, OpeningValid, TalliesComplete, WagesRight, Settles
  <2>2. CASE UNCHANGED ledger
    <3>1. UNCHANGED <<acct, orders, mday, price, log, approved, paid>>
      BY <2>2 DEF ledger
    <3>2. SettlingValid'
      <4> SUFFICES ASSUME NEW x \in Batches
                   PROVE  /\ step'[x] \in {"waitDay", "tally", "commit"} => settling'[x] # 0
                          /\ (step[x] = "waitDay" \/ Settles(x))' =>
                                settling'[x] \in Days /\ HasRound(settling'[x])
                          /\ Settles(x)' => /\ dayLock'[settling'[x]] = x
                                            /\ mday'[settling'[x]] = "opened"
                                            /\ mday'[settling'[x] + 1] = "unopened"
        BY DEF SettlingValid
      <4>1. CASE x = b
        BY <1>1, <4>1 DEF Settles
      <4>2. CASE x # b
        <5>1. Settles(x)' <=> Settles(x)
          BY <1>2, <4>2 DEF Settles
        <5> QED BY <1>2, <1>3, <1>i, <3>1, <4>2, <5>1 DEF SettlingValid
      <4> QED BY <4>1, <4>2
    <3>3. OpeningValid'
      BY <1>1, <1>2, <1>u, <1>i, <3>1 DEF OpeningValid
    <3>4. TalliesComplete'
      <4>1. \A x \in Batches : Settles(x)' => x # b /\ Settles(x)
        BY <1>1, <1>2 DEF Settles
      <4> QED BY <1>2, <1>i, <3>1, <4>1 DEF TalliesComplete
    <3>5. WagesRight'
      <4>1. \A x \in Batches : x # b =>
              \A p \in Participants : rowLock'[p] = x <=> rowLock[p] = x
        BY <1>3, LockAssumption
      <4>2. ASSUME NEW x \in Batches
            PROVE  /\ step'[x] # "pay" => paying'[x] = {}
                   /\ step'[x] = "pay" =>
                         due'[x] \cup paying'[x] \subseteq Payable(approved, paid, opening'[x])
                   /\ step'[x] = "pay" =>
                         \A p \in Participants :
                            IF rowLock'[p] = x
                            THEN /\ wage'[x][p] = Rewarded(acct[p], OwnedBy(paying'[x], p)).cash
                                 /\ OwnedBy(due'[x], p) = {}
                            ELSE OwnedBy(paying'[x], p) = {}
        <5>1. CASE x = b
          BY <1>1, <5>1
        <5>2. CASE x # b
          <6>1. /\ step[x] # "pay" => paying[x] = {}
                /\ step[x] = "pay" =>
                      due[x] \cup paying[x] \subseteq Payable(approved, paid, opening[x])
            BY <1>i DEF WagesRight
          <6>2. ASSUME step[x] = "pay", NEW p \in Participants
                PROVE  IF rowLock[p] = x
                       THEN /\ wage[x][p] = Rewarded(acct[p], OwnedBy(paying[x], p)).cash
                            /\ OwnedBy(due[x], p) = {}
                       ELSE OwnedBy(paying[x], p) = {}
            BY <1>i, <6>2 DEF WagesRight
          <6>3. \A p \in Participants : rowLock'[p] = x <=> rowLock[p] = x
            BY <4>1, <5>2
          <6> QED BY <1>2, <5>2, <6>1, <6>2, <6>3
        <5> QED BY <5>1, <5>2
      <4> QED BY <3>1, <4>2 DEF WagesRight
    <3> QED BY <3>2, <3>3, <3>4, <3>5
  <2> QED BY <2>1, <2>2
<1> QED
  BY <1>4, <1>6, <1>8, <1>9, <1>10, <1>11, <1>12, <1>13, <1>14, <1>15
\* A batch that ends without a commit leaves no trace.
LEMMA EndUnchangedKeeps ==
    ASSUME IndInv, NEW b \in Batches, step[b] \in BatchRunning, EndBatch(b), UNCHANGED ledger
    PROVE  IndInv'
<1>i. TypeOK /\ MarketMovesOn /\ SettledTradesFrozen
  BY DEF IndInv
<1>u. UNCHANGED <<acct, standing, orders, mday, price, log, approved, paid>>
  BY DEF ledger
<1>1. L!TypeOK'
  BY <1>u, <1>i DEF TypeOK, L!TypeOK
<1>2. SettledTradesFrozen'
  BY <1>u, <1>i DEF SettledTradesFrozen, L!SettledTradesFrozen
<1>3. \A d, e \in Days :
        d < e /\ mday'[d] = "opened" /\ mday'[e] # "unopened" => clock >= 3 * d
  BY <1>u, <1>i DEF MarketMovesOn
<1> QED
  BY <1>u, <1>1, <1>2, <1>3, EndBatchKeeps DEF IndInv

\* A refused batch, one that failed and one that found the lock taken leave no
\* trace.
LEMMA RefuseOrAbortKeeps ==
    ASSUME IndInv, NEW b \in Batches, RefuseBatch(b) \/ AbortBatch(b)
    PROVE  IndInv'
<1>1. step[b] \in BatchRunning /\ EndBatch(b) /\ UNCHANGED ledger
  BY DEF RefuseBatch, AbortBatch, BatchRunning
<1> QED BY <1>1, EndUnchangedKeeps

\* What a batch writes into participants is accounts, and those of the rows it
\* locked only.
LEMMA WagesPaidType ==
    ASSUME IndInv, NEW b \in Batches
    PROVE  /\ WagesPaid(b) \in [Participants -> Account]
           /\ \A p \in Participants : rowLock[p] # b => WagesPaid(b)[p] = acct[p]
<1>1. acct \in [Participants -> Account] /\ wage \in [Batches -> [Participants -> Nat]]
  BY SameRules DEF IndInv, TypeOK, L!TypeOK
<1>2. ASSUME NEW p \in Participants
      PROVE  WagesPaid(b)[p] \in Account /\ (rowLock[p] # b => WagesPaid(b)[p] = acct[p])
  BY <1>1 DEF WagesPaid, Account
<1>3. WagesPaid(b) = [p \in Participants |-> WagesPaid(b)[p]]
  BY DEF WagesPaid
<1> QED BY <1>2, <1>3

\* A settlement closes its day with the trades it aggregated and prices the next.
LEMMA CommitSettleKeeps ==
    ASSUME IndInv, NEW b \in Batches, CommitSettle(b)
    PROVE  IndInv'
<1>i. /\ TypeOK /\ DaysExclusive /\ SettlingValid /\ OpeningValid /\ TalliesComplete
      /\ WagesRight /\ MarketMovesOn /\ SettledTradesFrozen
  BY DEF IndInv
<1> DEFINE d == settling[b]
<1>0. PICK drawn \in [Codes -> DrawnPrices] :
        /\ step[b] = "commit"
        /\ mday' = [mday EXCEPT ![d] = "settled"]
        /\ log' = [log EXCEPT ![d] = tally[b]]
        /\ price' = [price EXCEPT ![d + 1] = drawn]
        /\ EndBatch(b)
        /\ UNCHANGED <<acct, standing, orders, approved, paid>>
  BY DEF CommitSettle
<1>1. /\ d \in Days /\ d + 1 \in Days
      /\ dayLock[d] = b /\ mday[d] = "opened" /\ mday[d + 1] = "unopened"
      /\ tally[b] = TradedOn(orders, d)
  BY <1>0, <1>i DEF SettlingValid, Settles, HasRound, TalliesComplete
<1>2. PastBatchLock(b) /\ step[b] \in BatchRunning
  BY <1>0 DEF PastBatchLock, BatchRunning
<1>3. /\ mday \in [Days -> {"unopened", "opened", "settled"}]
      /\ price \in [Days -> [Codes -> Nat]] /\ log \in [Days -> SUBSET OrderRow]
      /\ tally[b] \in SUBSET OrderRow
  BY <1>i, SameRules DEF TypeOK, L!TypeOK
<1>4. L!TypeOK'
  <2>1. drawn \in [Codes -> Nat]
    BY MoneyAssumption
  <2>2. /\ mday' \in [Days -> {"unopened", "opened", "settled"}]
        /\ price' \in [Days -> [Codes -> Nat]] /\ log' \in [Days -> SUBSET OrderRow]
    BY <1>0, <1>3, <2>1
  <2> QED BY <1>0, <1>i, <2>2, SameRules DEF TypeOK, L!TypeOK
<1>5. \A e \in Days : dayShare[e] # {} => mday'[e] = mday[e] /\ price'[e] = price[e]
  <2>1. \A e \in Days : dayShare[e] # {} => e # d /\ e # d + 1
    BY <1>1, <1>i, LockAssumption DEF DaysExclusive
  <2> QED BY <1>0, <1>3, <2>1
<1>6. \A e \in Days : mday'[e] = IF e = d THEN "settled" ELSE mday[e]
  BY <1>0, <1>3
<1>7. \A e, f \in Days :
        e < f /\ mday'[e] = "opened" /\ mday'[f] # "unopened" => clock >= 3 * e
  BY <1>1, <1>6, <1>i DEF MarketMovesOn
<1>8. SettledTradesFrozen'
  <2>1. \A e \in Days : log'[e] = IF e = d THEN TradedOn(orders, d) ELSE log[e]
    BY <1>0, <1>1, <1>3
  <2> QED BY <1>0, <1>6, <1>i, <2>1, SameRules DEF SettledTradesFrozen, L!SettledTradesFrozen
<1> QED
  BY <1>0, <1>2, <1>4, <1>5, <1>7, <1>8, EndBatchKeeps DEF IndInv

\* An opening adds the latest day of the market and pays what it owes.
LEMMA CommitOpenKeeps ==
    ASSUME IndInv, NEW b \in Batches, CommitOpen(b)
    PROVE  IndInv'
<1>i. /\ TypeOK /\ DaysExclusive /\ SettlingValid /\ OpeningValid /\ TalliesComplete
      /\ WagesRight /\ MarketMovesOn /\ SettledTradesFrozen
  BY DEF IndInv
<1> DEFINE d == opening[b]
<1>0. /\ step[b] = "pay"
      /\ settling[b] = 0
      /\ mday' = [mday EXCEPT ![d] = "opened"]
      /\ price' = [price EXCEPT ![d] = OpeningPrices(mday, price, d)]
      /\ acct' = WagesPaid(b)
      /\ paid' = paid \cup paying[b]
      /\ EndBatch(b)
      /\ UNCHANGED <<standing, orders, log, approved>>
  BY DEF CommitOpen, RewardsStaged
<1>1. /\ d \in Days
      /\ \A e \in Opened(mday) : e < d
      /\ \A e \in Days : mday[e] = "opened" => clock >= 3 * e
  BY <1>0, <1>i DEF OpeningValid
<1>2. PastBatchLock(b) /\ step[b] \in BatchRunning
  BY <1>0 DEF PastBatchLock, BatchRunning
<1>3. /\ mday \in [Days -> {"unopened", "opened", "settled"}]
      /\ price \in [Days -> [Codes -> Nat]] /\ paying[b] \subseteq Certs /\ paid \subseteq Certs
  BY <1>i, SameRules DEF TypeOK, L!TypeOK
<1>4. WagesPaid(b) \in [Participants -> Account]
      /\ \A p \in Participants : rowLock[p] # b => WagesPaid(b)[p] = acct[p]
  BY WagesPaidType
<1>5. mday[d] = "unopened"
  BY <1>1 DEF Opened, Days
<1>6. L!TypeOK'
  <2>1. /\ mday' \in [Days -> {"unopened", "opened", "settled"}]
        /\ price' \in [Days -> [Codes -> Nat]]
    BY <1>0, <1>1, <1>3, OpeningPricesType
  <2> QED BY <1>0, <1>3, <1>4, <1>i, <2>1, SameRules DEF TypeOK, L!TypeOK
<1>7. \A e \in Days : e # d => mday'[e] = mday[e] /\ price'[e] = price[e]
  BY <1>0, <1>3
<1>8. \A e \in Days : dayShare[e] # {} => mday'[e] = mday[e] /\ price'[e] = price[e]
  BY <1>5, <1>7, <1>i DEF DaysExclusive
<1>9. \A e, f \in Days :
        e < f /\ mday'[e] = "opened" /\ mday'[f] # "unopened" => clock >= 3 * e
  <2> SUFFICES ASSUME NEW e \in Days, NEW f \in Days, e < f, mday'[e] = "opened",
                      mday'[f] # "unopened"
               PROVE  clock >= 3 * e
    OBVIOUS
  <2>1. e # d
    <3>1. ASSUME e = d PROVE f \in Opened(mday)
      BY <1>7, <3>1 DEF Opened, Days
    <3> QED BY <1>1, <3>1 DEF Days
  <2> QED BY <1>1, <1>7, <2>1
<1>10. SettledTradesFrozen'
  <2>1. \A e \in Days : mday'[e] = "settled" => mday[e] = "settled"
    BY <1>0, <1>3
  <2> QED BY <1>0, <1>i, <2>1, SameRules DEF SettledTradesFrozen, L!SettledTradesFrozen
<1> QED
  BY <1>0, <1>2, <1>4, <1>6, <1>8, <1>9, <1>10, EndBatchKeeps DEF IndInv

\* The QA transaction closes a day, opens the next one and pays, at once.
LEMMA CommitAdvanceKeeps ==
    ASSUME IndInv, NEW b \in Batches, CommitAdvance(b)
    PROVE  IndInv'
<1>i. /\ TypeOK /\ DaysExclusive /\ SettlingValid /\ OpeningValid /\ TalliesComplete
      /\ WagesRight /\ MarketMovesOn /\ SettledTradesFrozen
  BY DEF IndInv
<1> DEFINE d == settling[b]
<1>0. PICK drawn \in [Codes -> DrawnPrices] :
        /\ step[b] = "pay"
        /\ d # 0
        /\ mday' = [mday EXCEPT ![d] = "settled", ![d + 1] = "opened"]
        /\ log' = [log EXCEPT ![d] = tally[b]]
        /\ price' = [price EXCEPT ![d + 1] = drawn]
        /\ acct' = WagesPaid(b)
        /\ paid' = paid \cup paying[b]
        /\ EndBatch(b)
        /\ UNCHANGED <<standing, orders, approved>>
  BY DEF CommitAdvance, RewardsStaged
<1>1. /\ d \in Days /\ d + 1 \in Days
      /\ dayLock[d] = b /\ mday[d] = "opened" /\ mday[d + 1] = "unopened"
      /\ tally[b] = TradedOn(orders, d)
  BY <1>0, <1>i DEF SettlingValid, Settles, HasRound, TalliesComplete
<1>2. PastBatchLock(b) /\ step[b] \in BatchRunning
  BY <1>0 DEF PastBatchLock, BatchRunning
<1>3. /\ mday \in [Days -> {"unopened", "opened", "settled"}]
      /\ price \in [Days -> [Codes -> Nat]] /\ log \in [Days -> SUBSET OrderRow]
      /\ tally[b] \in SUBSET OrderRow /\ paying[b] \subseteq Certs /\ paid \subseteq Certs
  BY <1>i, SameRules DEF TypeOK, L!TypeOK
<1>4. WagesPaid(b) \in [Participants -> Account]
      /\ \A p \in Participants : rowLock[p] # b => WagesPaid(b)[p] = acct[p]
  BY WagesPaidType
<1>5. L!TypeOK'
  <2>1. drawn \in [Codes -> Nat]
    BY MoneyAssumption
  <2>2. /\ mday' \in [Days -> {"unopened", "opened", "settled"}]
        /\ price' \in [Days -> [Codes -> Nat]] /\ log' \in [Days -> SUBSET OrderRow]
    BY <1>0, <1>3, <2>1
  <2> QED BY <1>0, <1>3, <1>4, <1>i, <2>2, SameRules DEF TypeOK, L!TypeOK
<1>6. \A e \in Days : mday'[e] = IF e = d + 1 THEN "opened"
                                ELSE IF e = d THEN "settled" ELSE mday[e]
  BY <1>0, <1>1, <1>3
<1>7. \A e \in Days : dayShare[e] # {} => mday'[e] = mday[e] /\ price'[e] = price[e]
  <2>1. \A e \in Days : dayShare[e] # {} => e # d /\ e # d + 1
    BY <1>1, <1>i, LockAssumption DEF DaysExclusive
  <2> QED BY <1>0, <1>3, <1>6, <2>1
<1>8. \A e, f \in Days :
        e < f /\ mday'[e] = "opened" /\ mday'[f] # "unopened" => clock >= 3 * e
  <2> SUFFICES ASSUME NEW e \in Days, NEW f \in Days, e < f, mday'[e] = "opened",
                      mday'[f] # "unopened"
               PROVE  clock >= 3 * e
    OBVIOUS
  <2>1. opening[b] \in Days /\ (\A x \in Opened(mday) : x < opening[b]) /\ opening[b] = d + 1
    <3>1. opening[b] \in Days /\ \A x \in Opened(mday) : x < opening[b]
      BY <1>0, <1>i DEF OpeningValid
    <3>2. opening[b] # 0
      BY <3>1 DEF Days
    <3> QED BY <1>0, <1>i, <3>1, <3>2 DEF OpeningValid
  <2>2. \A x \in Days : mday[x] # "unopened" => x <= d
    BY <1>1, <2>1 DEF Opened, Days
  <2>3. e # d /\ e # d + 1
    BY <1>1, <1>6, <2>2 DEF Days
  <2>4. e < d /\ mday[e] = "opened"
    BY <1>1, <1>6, <2>2, <2>3 DEF Days
  <2> QED BY <1>1, <1>i, <2>4 DEF MarketMovesOn
<1>9. SettledTradesFrozen'
  <2>1. \A e \in Days : log'[e] = IF e = d THEN TradedOn(orders, d) ELSE log[e]
    BY <1>0, <1>1, <1>3
  <2>2. \A e \in Days : mday'[e] = "settled" => e = d \/ mday[e] = "settled"
    BY <1>6
  <2> QED BY <1>0, <1>i, <2>1, <2>2, SameRules DEF SettledTradesFrozen, L!SettledTradesFrozen
<1> QED
  BY <1>0, <1>2, <1>4, <1>5, <1>7, <1>8, <1>9, EndBatchKeeps DEF IndInv

-----------------------------------------------------------------------------
(* So do the clock and the administrator. *)

\* No order is older than a third of a day when the clock moves.
LEMMA TickKeeps ==
    ASSUME IndInv, Tick
    PROVE  IndInv'
<1>i. /\ TypeOK /\ RowsLocked /\ DaysExclusive /\ BatchesAlone /\ CallsClear
      /\ DaysShared /\ OrdersJudged /\ RefusalsJustified
      /\ SettlingValid /\ OpeningValid /\ TalliesComplete /\ WagesRight /\ MarketMovesOn
      /\ IdsFresh /\ SettledTradesFrozen
  BY DEF IndInv
<1>0. /\ \A r \in Requests : phase[r] \in Running => askedAt[r] = clock
      /\ clock' = clock + 1 /\ clock \in Nat
  BY <1>i DEF Tick, TypeOK
<1>u. /\ UNCHANGED <<acct, standing, orders, mday, price, log, approved, paid>>
      /\ UNCHANGED <<rowLock, dayShare, dayLock, batchLock>>
      /\ UNCHANGED <<phase, asked, askedAt, seen, staged>>
      /\ UNCHANGED <<step, hasty, calledAt, settling, opening, tally, due, paying, wage>>
  BY DEF Tick, ledger, locks, orderTx, batchTx
<1>1. TypeOK'
  BY <1>0, <1>u, <1>i DEF TypeOK, L!TypeOK
<1>2. RowsLocked' /\ DaysShared' /\ DaysExclusive'
  BY <1>u, <1>i DEF RowsLocked, DaysShared, DaysExclusive, RowHeld, Filling, RowRead, StandingRead
<1>3. OrdersJudged' /\ RefusalsJustified'
  BY <1>u, <1>i DEF OrdersJudged, RefusalsJustified, StandingRead
<1>4. BatchesAlone' /\ CallsClear' /\ SettlingValid'
  BY <1>u, <1>i DEF BatchesAlone, CallsClear, SettlingValid, PastBatchLock, Settles, HasRound
<1>5. OpeningValid'
  BY <1>0, <1>u, <1>i DEF OpeningValid, Days
<1>6. TalliesComplete' /\ WagesRight' /\ IdsFresh' /\ SettledTradesFrozen'
  BY <1>u, <1>i DEF TalliesComplete, WagesRight, IdsFresh, Settles, SettledTradesFrozen,
                    L!SettledTradesFrozen
<1>7. MarketMovesOn'
  BY <1>0, <1>u, <1>i DEF MarketMovesOn, TypeOK, Days
<1> QED
  BY <1>1, <1>2, <1>3, <1>4, <1>5, <1>6, <1>7 DEF IndInv

\* A change of standing waits for the orders that hold the participant.
LEMMA SetStandingKeeps ==
    ASSUME IndInv, NEW p \in Participants, NEW s \in {"normal", "disqualified"}, SetStanding(p, s)
    PROVE  IndInv'
<1>i. /\ TypeOK /\ RowsLocked /\ DaysExclusive /\ BatchesAlone /\ CallsClear
      /\ DaysShared /\ OrdersJudged /\ RefusalsJustified
      /\ SettlingValid /\ OpeningValid /\ TalliesComplete /\ WagesRight /\ MarketMovesOn
      /\ IdsFresh /\ SettledTradesFrozen
  BY DEF IndInv
<1>0. rowLock[p] = Free /\ standing' = [standing EXCEPT ![p] = s]
  BY DEF SetStanding, RowFree
<1>u. /\ UNCHANGED <<acct, orders, mday, price, log, approved, paid, clock>>
      /\ UNCHANGED <<rowLock, dayShare, dayLock, batchLock>>
      /\ UNCHANGED <<phase, asked, askedAt, seen, staged>>
      /\ UNCHANGED <<step, hasty, calledAt, settling, opening, tally, due, paying, wage>>
  BY DEF SetStanding, locks, orderTx, batchTx
<1>1. TypeOK'
  BY <1>0, <1>u, <1>i DEF TypeOK, L!TypeOK
<1>2. \A r \in Requests : RowHeld(r) => StandingRead(r)' = StandingRead(r)
  <2> SUFFICES ASSUME NEW r \in Requests, RowHeld(r)
               PROVE  standing'[asked[r].participant] = standing[asked[r].participant]
    BY <1>u DEF StandingRead
  <2>1. asked[r].participant \in Participants /\ asked[r].participant # p
    BY <1>0, <1>i, LockAssumption DEF RowsLocked, RowHeld, Running, OrderInput
  <2> QED BY <1>0, <2>1, <1>i DEF TypeOK, L!TypeOK
<1>3. \A r \in Requests : phase[r] = "waitDay" \/ Filling(r) => RowHeld(r)
  BY DEF Filling, RowHeld
<1>4. RowsLocked'
  BY <1>2, <1>3, <1>u, <1>i DEF RowsLocked, RowHeld, Filling, RowRead
<1>5. DaysShared' /\ DaysExclusive' /\ OrdersJudged'
  BY <1>u, <1>i DEF DaysShared, DaysExclusive, OrdersJudged, Filling
<1>6. RefusalsJustified'
  BY <1>2, <1>u, <1>i DEF RefusalsJustified, RowHeld
<1>7. BatchesAlone' /\ CallsClear' /\ SettlingValid' /\ OpeningValid'
  BY <1>u, <1>i DEF BatchesAlone, CallsClear, SettlingValid, OpeningValid, PastBatchLock,
                    Settles, HasRound
<1>8. TalliesComplete' /\ WagesRight' /\ IdsFresh' /\ SettledTradesFrozen' /\ MarketMovesOn'
  BY <1>u, <1>i DEF TalliesComplete, WagesRight, IdsFresh, Settles, SettledTradesFrozen,
                    L!SettledTradesFrozen, MarketMovesOn
<1> QED
  BY <1>1, <1>4, <1>5, <1>6, <1>7, <1>8 DEF IndInv

\* An approval adds to what is owed and takes nothing away.
LEMMA ApproveKeeps ==
    ASSUME IndInv, NEW c \in Certs, Approve(c)
    PROVE  IndInv'
<1>i. /\ TypeOK /\ RowsLocked /\ DaysExclusive /\ BatchesAlone /\ CallsClear
      /\ DaysShared /\ OrdersJudged /\ RefusalsJustified
      /\ SettlingValid /\ OpeningValid /\ TalliesComplete /\ WagesRight /\ MarketMovesOn
      /\ IdsFresh /\ SettledTradesFrozen
  BY DEF IndInv
<1>0. approved' = approved \cup {c}
  BY DEF Approve
<1>u. /\ UNCHANGED <<acct, standing, orders, mday, price, log, paid, clock>>
      /\ UNCHANGED <<rowLock, dayShare, dayLock, batchLock>>
      /\ UNCHANGED <<phase, asked, askedAt, seen, staged>>
      /\ UNCHANGED <<step, hasty, calledAt, settling, opening, tally, due, paying, wage>>
  BY DEF Approve, locks, orderTx, batchTx
<1>1. TypeOK'
  BY <1>0, <1>u, <1>i DEF TypeOK, L!TypeOK
<1>2. RowsLocked' /\ DaysShared' /\ DaysExclusive'
  BY <1>u, <1>i DEF RowsLocked, DaysShared, DaysExclusive, RowHeld, Filling, RowRead, StandingRead
<1>3. OrdersJudged' /\ RefusalsJustified'
  BY <1>u, <1>i DEF OrdersJudged, RefusalsJustified, StandingRead
<1>4. BatchesAlone' /\ CallsClear' /\ SettlingValid' /\ OpeningValid'
  BY <1>u, <1>i DEF BatchesAlone, CallsClear, SettlingValid, OpeningValid, PastBatchLock,
                    Settles, HasRound
<1>5. WagesRight'
  <2>1. \A d : Payable(approved, paid, d) \subseteq Payable(approved', paid, d)
    BY <1>0 DEF Payable
  <2> QED BY <1>u, <1>i, <2>1 DEF WagesRight
<1>6. TalliesComplete' /\ IdsFresh' /\ SettledTradesFrozen' /\ MarketMovesOn'
  BY <1>u, <1>i DEF TalliesComplete, IdsFresh, Settles, SettledTradesFrozen,
                    L!SettledTradesFrozen, MarketMovesOn
<1> QED
  BY <1>1, <1>2, <1>3, <1>4, <1>5, <1>6 DEF IndInv

\* Nothing happens to the invariant when nothing happens.
LEMMA StutterKeeps ==
    ASSUME IndInv, UNCHANGED vars
    PROVE  IndInv'
<1>u. /\ UNCHANGED <<acct, standing, orders, mday, price, log, approved, paid, clock>>
      /\ UNCHANGED <<rowLock, dayShare, dayLock, batchLock>>
      /\ UNCHANGED <<phase, asked, askedAt, seen, staged>>
      /\ UNCHANGED <<step, hasty, calledAt, settling, opening, tally, due, paying, wage>>
  BY DEF vars, ledger, locks, orderTx, batchTx
<1>1. TypeOK'
  BY <1>u DEF IndInv, TypeOK, L!TypeOK
<1>2. RowsLocked' /\ DaysShared' /\ DaysExclusive'
  BY <1>u DEF IndInv, RowsLocked, DaysShared, DaysExclusive, RowHeld, Filling, RowRead, StandingRead
<1>3. OrdersJudged' /\ RefusalsJustified'
  BY <1>u DEF IndInv, OrdersJudged, RefusalsJustified, StandingRead
<1>4. BatchesAlone' /\ CallsClear' /\ SettlingValid' /\ OpeningValid'
  BY <1>u DEF IndInv, BatchesAlone, CallsClear, SettlingValid, OpeningValid, PastBatchLock,
              Settles, HasRound
<1>5. TalliesComplete' /\ WagesRight' /\ IdsFresh' /\ SettledTradesFrozen' /\ MarketMovesOn'
  BY <1>u DEF IndInv, TalliesComplete, WagesRight, IdsFresh, Settles, SettledTradesFrozen,
              L!SettledTradesFrozen, MarketMovesOn
<1> QED
  BY <1>1, <1>2, <1>3, <1>4, <1>5 DEF IndInv

\* Every step of the system keeps the inductive invariant.
LEMMA StepKeeps == IndInv /\ [Next]_vars => IndInv'
<1> SUFFICES ASSUME IndInv, [Next]_vars PROVE IndInv'
  OBVIOUS
<1>1. CASE Tick
  BY <1>1, TickKeeps
<1>2. ASSUME NEW r \in Requests, OrderNext(r) PROVE IndInv'
  BY <1>2, SubmitKeeps, LockParticipantKeeps, LockDaySharedKeeps, DecideKeeps,
     CommitOrderKeeps, AbortOrderKeeps DEF OrderNext
<1>3. ASSUME NEW b \in Batches, BatchNext(b) PROVE IndInv'
  BY <1>3, CallBatchKeeps, EnterBatchKeeps, LockDayExclusiveKeeps, TallyKeeps,
     PickRewardsKeeps, PayParticipantKeeps, CommitOpenKeeps, CommitSettleKeeps,
     CommitAdvanceKeeps, RefuseOrAbortKeeps DEF BatchNext
<1>4. CASE \E p \in Participants, s \in {"normal", "disqualified"} : SetStanding(p, s)
  BY <1>4, SetStandingKeeps
<1>5. CASE \E c \in Certs : Approve(c)
  BY <1>5, ApproveKeeps
<1>6. CASE UNCHANGED vars
  BY <1>6, StutterKeeps
<1> QED
  BY <1>1, <1>2, <1>3, <1>4, <1>5, <1>6 DEF Next

\* The inductive invariant holds throughout, for any number of participants,
\* requests, batches, days and instruments.
THEOREM Invariance == Spec => []IndInv
<1>1. Init => IndInv
  BY InitIndInv
<1>2. IndInv /\ [Next]_vars => IndInv'
  BY StepKeeps
<1> QED
  BY <1>1, <1>2, PTL DEF Spec

\* Every variable keeps its type; above all no account ever shows negative cash,
\* a negative holding or a negative purchase cost (trading.place_order).
THEOREM TypeCorrect == Spec => []TypeOK
<1>1. IndInv => TypeOK
  BY DEF IndInv
<1> QED
  BY <1>1, Invariance, PTL

\* settle_day never misses a trade: the trades it aggregated are those of the day,
\* also for the orders that were in flight when it started.
THEOREM SettlementsComplete == Spec => []SettledTradesFrozen
<1>1. IndInv => SettledTradesFrozen
  BY DEF IndInv
<1> QED
  BY <1>1, Invariance, PTL
-----------------------------------------------------------------------------
\* The orders table grows by committed orders only.
LEMMA OnlyCommitsInsert ==
    ASSUME [Next]_vars, ~ \E r \in Requests : CommitOrder(r)
    PROVE  UNCHANGED orders
<1>1. CASE Tick
  BY <1>1 DEF Tick, ledger
<1>2. ASSUME NEW r \in Requests, OrderNext(r) PROVE UNCHANGED orders
  BY <1>2 DEF OrderNext, Submit, LockParticipant, LockDayShared, Decide, AbortOrder, ledger
<1>3. ASSUME NEW b \in Batches, BatchNext(b) PROVE UNCHANGED orders
  BY <1>3 DEF BatchNext, CallBatch, EnterBatch, LockDayExclusive, Tally, PickRewards,
              PayParticipant, CommitOpen, CommitSettle, CommitAdvance, RefuseBatch,
              AbortBatch, ledger
<1>4. CASE \E p \in Participants, s \in {"normal", "disqualified"} : SetStanding(p, s)
  BY <1>4 DEF SetStanding
<1>5. CASE \E c \in Certs : Approve(c)
  BY <1>5 DEF Approve
<1>6. CASE UNCHANGED vars
  BY <1>6 DEF vars, ledger
<1> QED
  BY <1>1, <1>2, <1>3, <1>4, <1>5, <1>6 DEF Next

\* Once patch_participant has committed a disqualification, no order of the
\* participant is filled, not even one that was in flight.
THEOREM DisqualifiedDoNotTrade == Spec => NoTradeOnceDisqualified
<1> DEFINE Kept == \A p \in Participants :
                     standing[p] = "disqualified" =>
                       {o \in Filled(orders') : o.participant = p}
                         = {o \in Filled(orders) : o.participant = p}
<1>1. ASSUME IndInv, [Next]_vars PROVE Kept
  <2>1. CASE ~ \E r \in Requests : CommitOrder(r)
    BY <1>1, <2>1, OnlyCommitsInsert
  <2>2. ASSUME NEW r \in Requests, CommitOrder(r) PROVE Kept
    <3>1. phase[r] = "commit" /\ orders' = orders \cup {staged[r]}
      BY <2>2 DEF CommitOrder
    <3>2. staged[r].outcome = "FILLED" => standing[asked[r].participant] # "disqualified"
      <4>1. staged[r].outcome = "FILLED" =>
              LocalVerdict(asked[r], StandingRead(r), MarketOpen(askedAt[r])) = "PASS"
        BY <1>1, <3>1 DEF IndInv, RowsLocked, Filling
      <4> QED BY <4>1 DEF LocalVerdict, StandingRead
    <3>3. staged[r].outcome = "FILLED" => staged[r].participant = asked[r].participant
      <4>1. staged[r].outcome = "FILLED" =>
              staged[r] = Row(r, asked[r], TradeDay(askedAt[r]),
                              price[TradeDay(askedAt[r])][asked[r].code] * asked[r].quantity,
                              "FILLED")
        BY <1>1, <3>1 DEF IndInv, OrdersJudged
      <4> QED BY <4>1 DEF Row
    <3> QED BY <3>1, <3>2, <3>3 DEF Filled
  <2> QED BY <2>1, <2>2
<1>2. IndInv /\ [Next]_vars => [Kept]_vars
  BY <1>1
<1> QED
  BY <1>2, Invariance, PTL DEF Spec, NoTradeOnceDisqualified

-----------------------------------------------------------------------------
\* In a state of the invariant nobody waits in a circle: an order that holds a
\* day waits for nobody, a settlement waits for such orders only, a reward
\* payment for orders that do not wait for it, and so on up to the batch lock.
LEMMA LockOrder == ~QaTools /\ IndInv => NoLockCycle
<1> SUFFICES ASSUME ~QaTools, IndInv,
                    NEW S \in SUBSET Transactions, S # {},
                    \A x \in S : \E y \in S : WaitsFor(x, y)
             PROVE  FALSE
  BY DEF NoLockCycle
<1>i. /\ TypeOK /\ RowsLocked /\ DaysShared /\ DaysExclusive /\ BatchesAlone /\ CallsClear
      /\ SettlingValid /\ OpeningValid
  BY DEF IndInv
<1>a. \A x \in Batches : x \notin Requests /\ x # Free
  BY LockAssumption
<1>b. \A x \in Requests : x \notin Batches /\ x # Free
  BY LockAssumption
<1>1. \A x \in S : \/ x \in Requests /\ phase[x] \in {"waitRow", "waitDay"}
                   \/ x \in Batches /\ step[x] \in {"waitBatch", "waitDay", "pay"}
  BY DEF WaitsFor, Transactions
<1>2. \A x \in S \cap Requests : phase[x] # "waitDay"
  <2> SUFFICES ASSUME NEW x \in S \cap Requests, phase[x] = "waitDay" PROVE FALSE
    OBVIOUS
  <2> DEFINE d == TradeDay(askedAt[x])
  <2>1. d \in Days
    BY <1>i DEF RowsLocked, LocalVerdict, MarketOpen, TradeDay
  <2>2. PICK y \in S : dayLock[d] = y
    BY <1>a, <1>b DEF WaitsFor
  <2>3. y \in Batches /\ step[y] \in {"tally", "pick", "pay", "commit"} /\ settling[y] = d
    BY <1>1, <1>a, <1>b, <1>i, <2>1, <2>2 DEF DaysExclusive, TypeOK
  <2>4. step[y] = "pay"
    BY <1>1, <1>a, <2>3
  <2>5. settling[y] # 0
    BY <2>1, <2>3 DEF Days
  <2>6. opening[y] \in Days /\ opening[y] # 0
    BY <1>i, <2>3, <2>4 DEF OpeningValid, Days
  <2>7. hasty[y]
    BY <1>i, <2>3, <2>4, <2>5, <2>6 DEF OpeningValid
  <2> QED BY <1>i, <2>3, <2>7 DEF CallsClear
<1>3. \A x \in S \cap Batches : step[x] # "waitDay"
  <2> SUFFICES ASSUME NEW x \in S \cap Batches, step[x] = "waitDay" PROVE FALSE
    OBVIOUS
  <2>1. settling[x] \in Days
    BY <1>i DEF SettlingValid
  <2>2. PICK y \in S : y \in dayShare[settling[x]] \cup {dayLock[settling[x]]}
    BY <1>a, <1>b DEF WaitsFor
  <2>3. CASE y \in dayShare[settling[x]]
    <3>1. y \in Requests /\ phase[y] \in {"decide", "commit"}
      BY <1>i, <2>1, <2>3 DEF TypeOK, DaysExclusive
    <3> QED BY <1>1, <1>b, <3>1
  <2>4. CASE y = dayLock[settling[x]]
    <3>1. y \in Batches /\ step[y] \in {"tally", "pick", "pay", "commit"}
      BY <1>1, <1>a, <1>b, <1>i, <2>1, <2>4 DEF DaysExclusive, TypeOK
    <3>2. PastBatchLock(x) /\ PastBatchLock(y)
      BY <3>1 DEF PastBatchLock, BatchRunning
    <3>3. x = y
      BY <1>i, <3>1, <3>2 DEF BatchesAlone
    <3> QED BY <3>1, <3>3
  <2> QED BY <2>2, <2>3, <2>4
<1>4. \A x \in S \cap Batches : step[x] # "pay"
  <2> SUFFICES ASSUME NEW x \in S \cap Batches, step[x] = "pay" PROVE FALSE
    OBVIOUS
  <2>1. PICK y \in S, c \in due[x] : rowLock[CertOwner[c]] = y
    BY <1>a, <1>b DEF WaitsFor
  <2>2. CertOwner[c] \in Participants
    BY <1>i, <2>1, CertsAssumption DEF TypeOK
  <2>3. CASE y \in Requests
    <3>1. RowHeld(y)
      BY <1>i, <2>1, <2>2, <2>3 DEF RowsLocked
    <3> QED BY <1>1, <1>2, <1>b, <2>3, <3>1 DEF RowHeld
  <2>4. CASE y \in Batches
    <3>1. y # x
      <4>1. OwnedBy(due[x], CertOwner[c]) # {}
        BY <2>1 DEF OwnedBy
      <4> QED BY <2>1, <2>2, <4>1 DEF IndInv, WagesRight
    <3>2. step[y] = "pay"
      BY <1>i, <2>1, <2>2, <2>4 DEF RowsLocked
    <3>3. PastBatchLock(x) /\ PastBatchLock(y)
      BY <3>2 DEF PastBatchLock, BatchRunning
    <3> QED BY <1>i, <2>4, <3>1, <3>3 DEF BatchesAlone
  <2> QED BY <2>3, <2>4 DEF Transactions
<1>5. \A x \in S \cap Requests : phase[x] # "waitRow"
  <2> SUFFICES ASSUME NEW x \in S \cap Requests, phase[x] = "waitRow" PROVE FALSE
    OBVIOUS
  <2>1. asked[x].participant \in Participants
    BY <1>i DEF RowsLocked, Running, OrderInput
  <2>2. PICK y \in S : rowLock[asked[x].participant] = y
    BY <1>a, <1>b DEF WaitsFor
  <2>3. CASE y \in Requests
    <3>1. RowHeld(y)
      BY <1>i, <2>1, <2>2, <2>3 DEF RowsLocked
    <3> QED BY <1>1, <1>2, <1>b, <2>3, <3>1 DEF RowHeld
  <2>4. CASE y \in Batches
    BY <1>4, <1>i, <2>1, <2>2, <2>4 DEF RowsLocked
  <2> QED BY <2>3, <2>4 DEF Transactions
<1>6. \A x \in S : x \in Batches /\ step[x] = "waitBatch"
  BY <1>1, <1>2, <1>3, <1>4, <1>5
<1>7. PICK x \in S : TRUE
  OBVIOUS
<1>8. PICK y \in S : batchLock = y
  BY <1>6, <1>a, <1>b DEF WaitsFor
<1> QED
  BY <1>6, <1>8, <1>i DEF BatchesAlone, PastBatchLock

\* Without the QA tools the lock order of place_order, open_day and settle_day
\* excludes deadlock, whatever transactions run side by side.
THEOREM LocksNeverCycle == ASSUME ~QaTools PROVE Spec => []NoLockCycle
<1>1. IndInv => NoLockCycle
  BY LockOrder
<1> QED
  BY <1>1, Invariance, PTL

-----------------------------------------------------------------------------
(* The refinement: every step of Trading is a step of Ledger, or none. *)

\* Ledger adds up as Trading does.
LEMMA SameSums ==
    /\ \A rows : L!Total(rows) = Total(rows)
    /\ \A rows : L!QuantityOf(rows) = QuantityOf(rows)
    /\ \A rows : L!Filled(rows) = Filled(rows)
    /\ \A a, prices : L!Worth(a, prices) = Worth(a, prices)
    /\ \A spent, worth : L!OverLimit(spent, worth) = OverLimit(spent, worth)
<1>1. ASSUME NEW rows PROVE L!Total(rows) = Total(rows)
  BY DEF L!Total, Total, L!MapThenSumSet, MapThenSumSet, L!MapThenFoldSet, MapThenFoldSet
<1>2. ASSUME NEW rows PROVE L!QuantityOf(rows) = QuantityOf(rows)
  BY DEF L!QuantityOf, QuantityOf, L!MapThenSumSet, MapThenSumSet, L!MapThenFoldSet,
         MapThenFoldSet
<1>3. \A rows : L!Filled(rows) = Filled(rows)
  BY DEF L!Filled, Filled
<1>4. ASSUME NEW a, NEW prices PROVE L!Worth(a, prices) = Worth(a, prices)
  BY DEF L!Worth, Worth, L!MapThenSumSet, MapThenSumSet, L!MapThenFoldSet, MapThenFoldSet
<1>5. \A spent, worth : L!OverLimit(spent, worth) = OverLimit(spent, worth)
  BY DEF L!OverLimit, OverLimit
<1> QED BY <1>1, <1>2, <1>3, <1>4, <1>5

\* Ledger and Trading judge orders alike.
LEMMA SameVerdicts ==
    /\ \A o, s, m : L!LocalVerdict(o, s, m) = LocalVerdict(o, s, m)
    /\ \A rows, p, c, d : L!BoughtOn(rows, p, c, d) = BoughtOn(rows, p, c, d)
    /\ \A o, a, prices, n : L!TradeVerdict(o, a, prices, n) = TradeVerdict(o, a, prices, n)
<1>1. \A o, s, m : L!LocalVerdict(o, s, m) = LocalVerdict(o, s, m)
  BY DEF L!LocalVerdict, LocalVerdict
<1>2. \A rows, p, c, d : L!BoughtOn(rows, p, c, d) = BoughtOn(rows, p, c, d)
  BY SameSums DEF L!BoughtOn, BoughtOn
<1>3. \A o, a, prices, n : L!TradeVerdict(o, a, prices, n) = TradeVerdict(o, a, prices, n)
  BY SameSums DEF L!TradeVerdict, TradeVerdict, L!BuyVerdict, BuyVerdict,
                  L!SellVerdict, SellVerdict
<1> QED
  BY <1>1, <1>2, <1>3

\* Ledger and Trading fill, open and reward alike.
LEMMA SameEffects ==
    /\ \A a, o, n : L!Fill(a, o, n) = Fill(a, o, n)
    /\ \A r, o, d, n, v : L!Row(r, o, d, n, v) = Row(r, o, d, n, v)
    /\ \A m : L!Opened(m) = Opened(m)
    /\ \A m, p, d : L!OpeningPrices(m, p, d) = OpeningPrices(m, p, d)
    /\ \A a, p, d : L!Payable(a, p, d) = Payable(a, p, d)
    /\ \A S, p : L!OwnedBy(S, p) = OwnedBy(S, p)
    /\ \A a, S : L!Rewarded(a, S) = Rewarded(a, S)
<1>1. \A a, o, n : L!Fill(a, o, n) = Fill(a, o, n)
  BY DEF L!Fill, Fill, L!Buy, Buy, L!Sell, Sell, L!CostRemoved, CostRemoved
<1>2. \A r, o, d, n, v : L!Row(r, o, d, n, v) = Row(r, o, d, n, v)
  BY DEF L!Row, Row
<1>3. \A m : L!Opened(m) = Opened(m)
  BY SameRules DEF L!Opened, Opened
<1>4. \A m, p, d, c : L!PublishedBefore(m, p, d, c) = PublishedBefore(m, p, d, c)
  BY DEF L!PublishedBefore, PublishedBefore, L!Opened, Opened, L!Days, Days
<1>5. \A m, p, d : L!OpeningPrices(m, p, d) = OpeningPrices(m, p, d)
  BY <1>4 DEF L!OpeningPrices, OpeningPrices
<1>6. /\ \A a, p, d : L!Payable(a, p, d) = Payable(a, p, d)
      /\ \A S, p : L!OwnedBy(S, p) = OwnedBy(S, p)
  BY DEF L!Payable, Payable, L!OwnedBy, OwnedBy
<1>7. \A a, S : L!Rewarded(a, S) = Rewarded(a, S)
  BY DEF L!Rewarded, Rewarded, L!Cardinality, Cardinality
<1> QED
  BY <1>1, <1>2, <1>3, <1>5, <1>6, <1>7

\* The commit of a filled order is the atomic order of the ledger.
LEMMA FilledAtOnce ==
    ASSUME IndInv, NEW r \in Requests, CommitOrder(r), staged[r].outcome = "FILLED"
    PROVE  L!Next
<1> DEFINE o == asked[r]
           d == TradeDay(askedAt[r])
           p == o.participant
           amount == price[d][o.code] * o.quantity
<1>i. /\ TypeOK /\ RowsLocked /\ DaysShared /\ OrdersJudged /\ MarketMovesOn /\ IdsFresh
  BY DEF IndInv
<1>0. /\ phase[r] = "commit"
      /\ orders' = orders \cup {staged[r]}
      /\ acct' = [acct EXCEPT ![p] = Fill(seen[r], o, staged[r].amount)]
      /\ UNCHANGED <<standing, mday, price, log, approved, paid>>
  BY DEF CommitOrder
<1>1. /\ o \in OrderInput /\ p \in Participants /\ seen[r] = acct[p]
      /\ LocalVerdict(o, standing[p], MarketOpen(askedAt[r])) = "PASS"
  BY <1>0, <1>i DEF RowsLocked, RowHeld, Filling, Running, OrderInput, RowRead, StandingRead
<1>2. d \in Days /\ mday[d] = "opened"
  BY <1>0, <1>i DEF DaysShared, Filling
<1>3. /\ staged[r] = Row(r, o, d, amount, "FILLED")
      /\ TradeVerdict(o, acct[p], price[d], BoughtOn(orders, p, o.code, d)) = "FILLED"
  BY <1>0, <1>1, <1>i DEF OrdersJudged
<1>4. staged[r].amount = amount
  BY <1>3 DEF Row
<1>5. \A e \in Opened(mday) : e <= d
  <2>1. clock < 3 * d
    <3>1. askedAt[r] \in Nat /\ clock \in Nat /\ clock <= askedAt[r] + 1
      BY <1>0, <1>i DEF TypeOK, MarketMovesOn, Running
    <3>2. MarketOpen(askedAt[r])
      BY <1>1 DEF LocalVerdict
    <3>3. d = askedAt[r] \div 3 + 1 /\ askedAt[r] % 3 = 1
      BY <3>2 DEF MarketOpen, TradeDay, DateOf
    <3>4. askedAt[r] = 3 * d - 2
      BY <3>1, <3>3
    <3> QED BY <3>1, <3>4, <1>2 DEF Days
  <2>2. \A e \in Days : d < e => mday[e] = "unopened"
    BY <1>2, <1>i, <2>1 DEF MarketMovesOn, TypeOK, Days
  <2> QED BY <1>2, <2>2 DEF Opened, Days
<1>6. LocalVerdict(o, standing[p], TRUE) = "PASS"
  BY <1>1 DEF LocalVerdict
<1>7. acct' = [acct EXCEPT ![p] = Fill(@, o, amount)]
  BY <1>0, <1>1, <1>4
<1>8. \A x \in orders : x.id # r
  BY <1>0, <1>i DEF IdsFresh
<1>9. L!FillOrder(r, o, d)
  BY <1>0, <1>2, <1>3, <1>5, <1>6, <1>7, SameVerdicts, SameEffects DEF L!FillOrder
<1>10. d \in 0 .. LastDay + 1 /\ o \in L!OrderInput /\ d \in L!Days
  BY <1>1, <1>2, SameRules, DaysAssumption DEF Days
<1> HIDE DEF o, d
<1>11. L!PlaceOrder(r)
  BY <1>0, <1>8, <1>9, <1>10 DEF L!PlaceOrder, L!Unused
<1> QED
  BY <1>11 DEF L!Next

\* The commit of a refused order is an atomic refusal with a true reason.
LEMMA RefusedAtOnce ==
    ASSUME IndInv, NEW r \in Requests, CommitOrder(r), staged[r].outcome # "FILLED"
    PROVE  L!Next
<1> DEFINE o == asked[r]
           d == TradeDay(askedAt[r])
           p == o.participant
           reason == staged[r].outcome
<1>i. /\ TypeOK /\ RowsLocked /\ RefusalsJustified /\ IdsFresh
  BY DEF IndInv
<1>0. /\ phase[r] = "commit"
      /\ orders' = orders \cup {staged[r]}
      /\ UNCHANGED <<acct, standing, mday, price, log, approved, paid>>
  BY DEF CommitOrder
<1>1. /\ o \in OrderInput /\ seen[r] = acct[p] /\ staged[r] \in OrderRow
  BY <1>0, <1>i DEF RowsLocked, RowHeld, Running, RowRead
<1>2. reason \in RejectReasons
  BY <1>1 DEF OrderRow
<1>3. /\ staged[r] = Row(r, o, d, 0, reason)
      /\ \/ reason \in {"MARKET_CLOSED", "MARKET_NOT_OPENED"}
         \/ reason = LocalVerdict(o, standing[p], TRUE)
         \/ /\ d \in Days /\ mday[d] = "opened"
            /\ reason = TradeVerdict(o, acct[p], price[d], BoughtOn(orders, p, o.code, d))
  BY <1>0, <1>1, <1>i DEF RefusalsJustified, StandingRead
<1>4. d \in 0 .. LastDay + 1
  BY DaysAssumption DEF TradeDay, Days
<1>5. L!Justified(o, d, reason)
  <2>1. CASE reason \in {"MARKET_CLOSED", "MARKET_NOT_OPENED"}
    BY <2>1 DEF L!Justified
  <2>2. CASE reason = LocalVerdict(o, standing[p], TRUE)
    <3>1. \/ reason = "DISQUALIFIED" /\ standing[p] = "disqualified"
          \/ reason = "INVALID_QUANTITY" /\ o.quantity \notin 1 .. MaxQuantity
          \/ reason = "UNKNOWN_INSTRUMENT" /\ o.code \notin Codes
      BY <1>2, <2>2 DEF LocalVerdict, RejectReasons
    <3> HIDE DEF o, d, reason
    <3>2. CASE reason = "DISQUALIFIED" /\ standing[p] = "disqualified"
      BY <3>2 DEF L!Justified
    <3>3. CASE reason = "INVALID_QUANTITY" /\ o.quantity \notin 1 .. MaxQuantity
      BY <3>3 DEF L!Justified
    <3>4. CASE reason = "UNKNOWN_INSTRUMENT" /\ o.code \notin Codes
      BY <3>4 DEF L!Justified
    <3> QED BY <3>1, <3>2, <3>3, <3>4
  <2>3. CASE /\ d \in Days /\ mday[d] = "opened"
             /\ reason = TradeVerdict(o, acct[p], price[d], BoughtOn(orders, p, o.code, d))
    <3>1. reason \in {"INSUFFICIENT_CASH", "DAILY_BUY_LIMIT", "INSUFFICIENT_HOLDINGS"}
      BY <2>3 DEF TradeVerdict, BuyVerdict, SellVerdict
    <3>2. d \in L!Opened(mday)
      BY <2>3, SameEffects DEF Opened
    <3>3. reason = L!TradeVerdict(o, acct[p], price[d], L!BoughtOn(orders, p, o.code, d))
      BY <2>3, SameVerdicts
    <3> HIDE DEF o, d, reason
    <3> QED BY <3>1, <3>2, <3>3 DEF L!Justified, p
  <2> QED BY <1>3, <2>1, <2>2, <2>3
<1>6. \A x \in orders : x.id # r
  BY <1>0, <1>i DEF IdsFresh
<1> HIDE DEF o, d, reason
<1>7. L!RefuseOrder(r, o, d, reason)
  BY <1>0, <1>3, <1>5, SameEffects DEF L!RefuseOrder
<1>8. o \in L!OrderInput /\ reason \in L!RejectReasons
  BY <1>1, <1>2, SameRules DEF L!RejectReasons, RejectReasons
<1>9. L!PlaceOrder(r)
  BY <1>0, <1>4, <1>6, <1>7, <1>8 DEF L!PlaceOrder, L!Unused
<1> QED
  BY <1>9 DEF L!Next

\* What a finished reward payment writes is what the ledger pays at once.
LEMMA WagesAreRewards ==
    ASSUME IndInv, NEW b \in Batches, step[b] = "pay", due[b] = {}
    PROVE  WagesPaid(b) = [p \in Participants |-> Rewarded(acct[p], OwnedBy(paying[b], p))]
<1>i. TypeOK /\ WagesRight
  BY DEF IndInv
<1> SUFFICES ASSUME NEW p \in Participants
             PROVE  (IF rowLock[p] = b THEN [acct[p] EXCEPT !.cash = wage[b][p]] ELSE acct[p])
                      = Rewarded(acct[p], OwnedBy(paying[b], p))
  BY DEF WagesPaid
<1>1. acct[p] \in Account /\ OwnedBy(paying[b], p) \in SUBSET Certs
  BY <1>i, SameRules DEF TypeOK, L!TypeOK, OwnedBy
<1>2. CASE rowLock[p] = b
  <2>1. wage[b][p] = Rewarded(acct[p], OwnedBy(paying[b], p)).cash
    BY <1>2, <1>i DEF WagesRight
  <2> QED BY <1>1, <1>2, <2>1, RewardedKeepsAccount
<1>3. CASE rowLock[p] # b
  <2>1. OwnedBy(paying[b], p) = {}
    BY <1>3, <1>i DEF WagesRight
  <2>2. RewardCash * Cardinality({}) = 0
    BY FS_EmptySet, MoneyAssumption
  <2>3. Rewarded(acct[p], {}) = acct[p]
    BY <1>1, <2>2 DEF Rewarded, Account
  <2> QED BY <1>3, <2>1, <2>3
<1> QED
  BY <1>2, <1>3

\* The commit of an opening is the atomic opening of the ledger.
LEMMA OpenedAtOnce ==
    ASSUME IndInv, NEW b \in Batches, CommitOpen(b)
    PROVE  L!Next
<1> DEFINE d == opening[b]
<1>0. /\ step[b] = "pay" /\ due[b] = {}
      /\ mday' = [mday EXCEPT ![d] = "opened"]
      /\ price' = [price EXCEPT ![d] = OpeningPrices(mday, price, d)]
      /\ acct' = WagesPaid(b)
      /\ paid' = paid \cup paying[b]
      /\ UNCHANGED <<standing, orders, log, approved>>
  BY DEF CommitOpen, RewardsStaged
<1>1. d \in Days /\ \A e \in Opened(mday) : e < d
  BY <1>0 DEF IndInv, OpeningValid
<1>2. paying[b] \in SUBSET Payable(approved, paid, d)
  BY <1>0 DEF IndInv, WagesRight
<1>3. L!PayRewards(paying[b])
  BY <1>0, WagesAreRewards, SameEffects DEF L!PayRewards
<1>4. L!OpenDay(d)
  BY <1>0, <1>1, <1>2, <1>3, SameEffects DEF L!OpenDay
<1> QED
  BY <1>1, <1>4, SameRules DEF L!Next

\* The commit of a settlement is the atomic settlement of the ledger.
LEMMA SettledAtOnce ==
    ASSUME IndInv, NEW b \in Batches, CommitSettle(b)
    PROVE  L!Next
<1> DEFINE d == settling[b]
<1>0. /\ step[b] = "commit"
      /\ mday' = [mday EXCEPT ![d] = "settled"]
      /\ log' = [log EXCEPT ![d] = tally[b]]
      /\ \E drawn \in [Codes -> DrawnPrices] : price' = [price EXCEPT ![d + 1] = drawn]
      /\ UNCHANGED <<acct, standing, orders, approved, paid>>
  BY DEF CommitSettle
<1>1. /\ d \in Days /\ d + 1 \in Days /\ mday[d] = "opened" /\ mday[d + 1] = "unopened"
      /\ tally[b] = TradedOn(orders, d)
  BY <1>0 DEF IndInv, SettlingValid, Settles, HasRound, TalliesComplete
<1>2. L!SettleDay(d)
  BY <1>0, <1>1, SameRules DEF L!SettleDay
<1> QED
  BY <1>1, <1>2, SameRules DEF L!Next

\* The commit of advance_price is the atomic step of the ledger.
LEMMA AdvancedAtOnce ==
    ASSUME IndInv, NEW b \in Batches, CommitAdvance(b)
    PROVE  L!Next
<1> DEFINE d == settling[b]
<1>0. /\ step[b] = "pay" /\ due[b] = {} /\ d # 0
      /\ mday' = [mday EXCEPT ![d] = "settled", ![d + 1] = "opened"]
      /\ log' = [log EXCEPT ![d] = tally[b]]
      /\ \E drawn \in [Codes -> DrawnPrices] : price' = [price EXCEPT ![d + 1] = drawn]
      /\ acct' = WagesPaid(b)
      /\ paid' = paid \cup paying[b]
      /\ UNCHANGED <<standing, orders, approved>>
  BY DEF CommitAdvance, RewardsStaged
<1>1. /\ d \in Days /\ d + 1 \in Days /\ mday[d] = "opened"
      /\ tally[b] = TradedOn(orders, d)
  BY <1>0 DEF IndInv, SettlingValid, Settles, HasRound, TalliesComplete
<1>2. opening[b] # 0
  BY <1>0 DEF IndInv, OpeningValid, Days
<1>3. QaTools /\ opening[b] = d + 1 /\ \A e \in Opened(mday) : e <= d
  BY <1>0, <1>2 DEF IndInv, OpeningValid, CallsClear
<1>4. paying[b] \in SUBSET Payable(approved, paid, d + 1)
  BY <1>0, <1>3 DEF IndInv, WagesRight
<1>5. L!PayRewards(paying[b])
  BY <1>0, WagesAreRewards, SameEffects DEF L!PayRewards
<1>6. L!AdvanceDay(d)
  BY <1>0, <1>1, <1>3, <1>4, <1>5, SameEffects, SameRules DEF L!AdvanceDay
<1> QED
  BY <1>1, <1>6, SameRules DEF L!Next

\* Every step is a step of the ledger or leaves the committed rows alone.
LEMMA StepIsLedgerStep ==
    ASSUME IndInv, [Next]_vars
    PROVE  [L!Next]_(L!ledgerVars)
<1>1. ASSUME UNCHANGED ledger PROVE [L!Next]_(L!ledgerVars)
  BY <1>1 DEF ledger, L!ledgerVars
<1>2. CASE Tick \/ UNCHANGED vars
  BY <1>1, <1>2 DEF Tick, vars
<1>3. ASSUME NEW r \in Requests, OrderNext(r) PROVE [L!Next]_(L!ledgerVars)
  <2>1. CASE CommitOrder(r)
    BY <2>1, FilledAtOnce, RefusedAtOnce
  <2>2. CASE ~CommitOrder(r)
    BY <1>1, <1>3, <2>2 DEF OrderNext, Submit, LockParticipant, LockDayShared, Decide, AbortOrder
  <2> QED BY <2>1, <2>2
<1>4. ASSUME NEW b \in Batches, BatchNext(b) PROVE [L!Next]_(L!ledgerVars)
  <2>1. CASE CommitOpen(b) \/ CommitSettle(b) \/ CommitAdvance(b)
    BY <2>1, OpenedAtOnce, SettledAtOnce, AdvancedAtOnce
  <2>2. CASE ~(CommitOpen(b) \/ CommitSettle(b) \/ CommitAdvance(b))
    BY <1>1, <1>4, <2>2 DEF BatchNext, CallBatch, EnterBatch, LockDayExclusive, Tally,
                            PickRewards, PayParticipant, RefuseBatch, AbortBatch
  <2> QED BY <2>1, <2>2
<1>5. ASSUME NEW p \in Participants, NEW s \in {"normal", "disqualified"}, SetStanding(p, s)
      PROVE  [L!Next]_(L!ledgerVars)
  <2>1. L!SetStanding(p, s)
    BY <1>5 DEF SetStanding, L!SetStanding
  <2> QED BY <2>1 DEF L!Next
<1>6. ASSUME NEW c \in Certs, Approve(c) PROVE [L!Next]_(L!ledgerVars)
  <2>1. L!Approve(c)
    BY <1>6 DEF Approve, L!Approve
  <2> QED BY <2>1 DEF L!Next
<1> QED
  BY <1>2, <1>3, <1>4, <1>5, <1>6 DEF Next

\* The transactions with their row locks, shared day locks and advisory lock
\* implement the ledger in which every order, opening and settlement is atomic.
THEOREM TradingRefinesLedger == Spec => RefinesLedger
<1>1. Init => L!Init
  BY DEF Init
<1>2. IndInv /\ [Next]_vars => [L!Next]_(L!ledgerVars)
  BY StepIsLedgerStep
<1> QED
  BY <1>1, <1>2, Invariance, PTL DEF Spec, L!Spec, RefinesLedger

-----------------------------------------------------------------------------
(* The books and the daily limit, step by step of the ledger *)

Books == BooksSound(acct, orders, mday, price, paid)

\* An order of the ledger, filled or refused.
LEMMA LedgerOrderKeepsBooks ==
    ASSUME TypeOK, Books, NEW r \in Requests, L!PlaceOrder(r)
    PROVE  Books'
<1>1. PICK o \in OrderInput, d \in 0 .. LastDay + 1 :
        \/ d \in Days /\ L!FillOrder(r, o, d)
        \/ \E reason \in RejectReasons : L!RefuseOrder(r, o, d, reason)
  BY SameRules DEF L!PlaceOrder, L!RejectReasons, RejectReasons
<1>2. /\ \A x \in orders : x.id # r
      /\ UNCHANGED <<mday, price, paid>>
  BY DEF L!PlaceOrder, L!Unused
<1>3. /\ acct \in [Participants -> Account] /\ orders \subseteq OrderRow
      /\ price \in [Days -> [Codes -> Nat]] /\ paid \in SUBSET Certs
  BY SameRules DEF TypeOK, L!TypeOK
<1>4. CASE d \in Days /\ L!FillOrder(r, o, d)
  <2> DEFINE p == o.participant
             amount == price[d][o.code] * o.quantity
  <2>1. /\ d \in Opened(mday) /\ \A e \in Opened(mday) : e <= d
        /\ LocalVerdict(o, standing[p], TRUE) = "PASS"
        /\ TradeVerdict(o, acct[p], price[d], BoughtOn(orders, p, o.code, d)) = "FILLED"
        /\ acct' = [acct EXCEPT ![p] = Fill(@, o, amount)]
        /\ orders' = orders \cup {Row(r, o, d, amount, "FILLED")}
    BY <1>4, SameVerdicts, SameEffects DEF L!FillOrder, Opened
  <2>2. BooksSound(acct, orders, mday, price, paid)
    BY DEF Books
  <2> HIDE DEF amount
  <2>3. amount = price[d][o.code] * o.quantity
    BY DEF amount
  <2>4. BooksSound([acct EXCEPT ![p] = Fill(@, o, amount)],
                   orders \cup {Row(r, o, d, amount, "FILLED")}, mday, price, paid)
    BY <1>2, <1>3, <2>1, <2>2, <2>3, FillKeepsBooks
  <2> QED BY <1>2, <2>1, <2>4 DEF Books
<1>5. ASSUME NEW reason \in RejectReasons, L!RefuseOrder(r, o, d, reason)
      PROVE  Books'
  <2>1. acct' = acct /\ orders' = orders \cup {Row(r, o, d, 0, reason)}
    BY <1>5, SameEffects DEF L!RefuseOrder
  <2>2. Row(r, o, d, 0, reason).outcome # "FILLED"
    BY DEF Row, RejectReasons
  <2> QED BY <1>2, <2>1, <2>2, RefusalKeepsBooks DEF Books
<1> QED BY <1>1, <1>4, <1>5

\* An opening of the ledger, a settlement, and the QA step of both.
LEMMA LedgerDayStepKeepsBooks ==
    ASSUME TypeOK, Books, NEW d \in Days, L!OpenDay(d) \/ L!SettleDay(d) \/ L!AdvanceDay(d)
    PROVE  Books'
<1>1. /\ acct \in [Participants -> Account] /\ orders \subseteq OrderRow
      /\ mday \in [Days -> {"unopened", "opened", "settled"}]
      /\ price \in [Days -> [Codes -> Nat]] /\ paid \in SUBSET Certs /\ approved \subseteq Certs
  BY SameRules DEF TypeOK, L!TypeOK
<1>2. ASSUME NEW n \in Days, \A e \in Opened(mday) : e < n,
             Opened(mday') = Opened(mday) \cup {n}, price'[n] \in [Codes -> Nat],
             NEW S \in SUBSET Payable(approved, paid, n), L!PayRewards(S), orders' = orders
      PROVE  Books'
  <2>1. S \in SUBSET (Certs \ paid)
    BY <1>1 DEF Payable
  <2>2. BooksSound(acct, orders, mday, price, paid)
    BY DEF Books
  <2>3. BooksSound([p \in Participants |-> Rewarded(acct[p], OwnedBy(S, p))],
                   orders, mday', price', paid \cup S)
    BY <1>1, <1>2, <2>1, <2>2, OpeningKeepsBooks
  <2> QED BY <1>2, <2>3, SameEffects DEF Books, L!PayRewards
<1>3. CASE L!OpenDay(d)
  <2>1. Opened(mday') = Opened(mday) \cup {d}
    BY <1>1, <1>3 DEF L!OpenDay, Opened
  <2>2. price'[d] \in [Codes -> Nat]
    BY <1>1, <1>3, OpeningPricesType, SameEffects DEF L!OpenDay
  <2>3. PICK S \in SUBSET Payable(approved, paid, d) : L!PayRewards(S)
    BY <1>3, SameEffects DEF L!OpenDay
  <2>4. orders' = orders /\ \A e \in Opened(mday) : e < d
    BY <1>3, SameEffects DEF L!OpenDay
  <2> QED BY <1>2, <2>1, <2>2, <2>3, <2>4
<1>4. CASE L!SettleDay(d)
  <2>1. Opened(mday') = Opened(mday)
    BY <1>1, <1>4 DEF L!SettleDay, Opened
  <2>2. \A e \in Opened(mday) : price'[e] = price[e]
    BY <1>1, <1>4 DEF L!SettleDay, Opened
  <2> QED BY <1>4, <2>1, <2>2, SettlementKeepsBooks DEF Books, L!SettleDay
<1>5. CASE L!AdvanceDay(d)
  <2> DEFINE n == d + 1
  <2>1. n \in Days /\ \A e \in Opened(mday) : e < n
    BY <1>5, SameEffects, SameRules DEF L!AdvanceDay, Opened, Days
  <2>2. Opened(mday') = Opened(mday) \cup {n}
    <3>1. mday' = [mday EXCEPT ![d] = "settled", ![n] = "opened"] /\ mday[d] = "opened"
      BY <1>5 DEF L!AdvanceDay
    <3>2. d # n
      BY DEF Days
    <3> HIDE DEF n
    <3> QED BY <1>1, <2>1, <3>1, <3>2 DEF Opened
  <2>3. price'[n] \in [Codes -> Nat]
    <3>1. [Codes -> DrawnPrices] \subseteq [Codes -> Nat]
      BY MoneyAssumption
    <3> QED BY <1>1, <1>5, <2>1, <3>1 DEF L!AdvanceDay
  <2>4. PICK S \in SUBSET Payable(approved, paid, n) : L!PayRewards(S)
    BY <1>5, SameEffects DEF L!AdvanceDay
  <2>5. orders' = orders
    BY <1>5 DEF L!AdvanceDay
  <2> HIDE DEF n
  <2> QED BY <1>2, <2>1, <2>2, <2>3, <2>4, <2>5
<1> QED BY <1>3, <1>4, <1>5

\* Every step is one of the ledger, so the books stay sound.
LEMMA BooksStaySound == Spec => []Books
<1>1. Init => Books
  <2> SUFFICES ASSUME Init PROVE Books
    OBVIOUS
  <2>1. Opened(mday) = {}
    BY SameRules DEF Init, L!Init, Opened
  <2> QED BY <2>1, BooksSoundAtFirst, SameRules DEF Init, L!Init, Books
<1>2. IndInv /\ Books /\ [Next]_vars => Books'
  <2> SUFFICES ASSUME IndInv, Books, [Next]_vars PROVE Books'
    OBVIOUS
  <2>0. TypeOK /\ [L!Next]_(L!ledgerVars)
    BY StepIsLedgerStep DEF IndInv
  <2>1. ASSUME NEW r \in Requests, L!PlaceOrder(r) PROVE Books'
    BY <2>0, <2>1, LedgerOrderKeepsBooks
  <2>2. ASSUME NEW d \in Days, L!OpenDay(d) \/ L!SettleDay(d) \/ L!AdvanceDay(d) PROVE Books'
    BY <2>0, <2>2, LedgerDayStepKeepsBooks
  <2>3. CASE UNCHANGED <<acct, orders, mday, price, paid>>
    BY <2>3 DEF Books
  <2>4. L!Days = Days
    BY SameRules
  <2> QED BY <2>0, <2>1, <2>2, <2>3, <2>4 DEF L!Next, L!SetStanding, L!Approve, L!ledgerVars
<1> QED
  BY <1>1, <1>2, Invariance, PTL DEF Spec

\* No update of an account is lost between the transactions: with their row locks
\* every participant's cash and holdings are what his committed orders and paid
\* certifications add up to (place_order, pay_rewards).
THEOREM BooksAlwaysBalance == Spec => []BooksBalance
<1>0. \A p, side : L!OrdersOf(p, side) = SideOf(orders, p, side)
  BY SameSums DEF L!OrdersOf, SideOf
<1>1. Books => BooksBalance
  <2> SUFFICES ASSUME Books, NEW p \in Participants
               PROVE  /\ acct[p].cash = InitialCash
                                          + RewardCash * L!Cardinality(L!OwnedBy(paid, p))
                                          - L!Total(L!OrdersOf(p, "buy"))
                                          + L!Total(L!OrdersOf(p, "sell"))
                      /\ \A c \in Codes :
                            acct[p].quantity[c] =
                              L!QuantityOf({o \in L!OrdersOf(p, "buy") : o.code = c})
                                - L!QuantityOf({o \in L!OrdersOf(p, "sell") : o.code = c})
    BY DEF BooksBalance, L!BooksBalance
  <2>1. Balanced(acct[p], orders, paid, p)
    BY DEF Books, BooksSound
  <2>2. L!Cardinality(OwnedBy(paid, p)) = Cardinality(OwnedBy(paid, p))
    BY DEF L!Cardinality, Cardinality
  <2> QED BY <1>0, <2>1, <2>2, SameSums, SameEffects DEF Balanced, CodeOf
<1> QED
  BY <1>1, BooksStaySound, PTL

\* Orders of one participant that are decided side by side do not pass the daily
\* limit together: each is judged under his row lock (daily_buy_limit).
THEOREM DailyLimitIsKept == Spec => []DailyLimitKept
<1>1. Books => DailyLimitKept
  BY SameSums, SameEffects, SameVerdicts
     DEF Books, BooksSound, WithinLimits, DailyLimitKept, L!DailyLimitKept
<1> QED
  BY <1>1, BooksStaySound, PTL
=============================================================================
