------------------------------ MODULE Trading ------------------------------
(***************************************************************************)
(* Orders, openings and settlements as the PostgreSQL transactions they    *)
(* are, at READ COMMITTED: each step below is one statement that reads,    *)
(* locks or commits.  What a transaction writes stays in its session until *)
(* it commits (staged, wage, due, tally), and its locks fall with it.      *)
(*                                                                         *)
(*   rowLock    SELECT ... FOR UPDATE of a participant and his holdings    *)
(*   dayShare   SELECT ... FOR SHARE of a market_days row, by orders       *)
(*   dayLock    SELECT ... FOR UPDATE of a market_days row, by settlement  *)
(*   batchLock  pg_advisory_xact_lock(BATCH_LOCK_KEY)                      *)
(***************************************************************************)
EXTENDS LedgerRules

CONSTANTS
    QaTools,    \* STUDY_INVEST_QA_TOOLS
    Batches,    \* sessions of the batch pool: scheduler ticks, admin calls
    Free        \* nobody holds the lock

ASSUME QaAssumption == QaTools \in BOOLEAN
ASSUME LockAssumption ==
    /\ Free \notin Requests \cup Batches
    /\ Requests \cap Batches = {}

VARIABLES
    acct, standing, orders, mday, price, log, approved, paid,   \* committed rows
    clock,                                  \* the application clock
    rowLock, dayShare, dayLock, batchLock,  \* locks
    phase, asked, askedAt, seen, staged,    \* one order transaction per request
    step, hasty, calledAt, settling, opening,   \* one batch transaction per
    tally, due, paying, wage                    \*   session

ledger == <<acct, standing, orders, mday, price, log, approved, paid>>
locks == <<rowLock, dayShare, dayLock, batchLock>>
orderTx == <<phase, asked, askedAt, seen, staged>>
batchTx == <<step, hasty, calledAt, settling, opening, tally, due, paying, wage>>
vars == <<ledger, clock, locks, orderTx, batchTx>>

L == INSTANCE Ledger WITH acct <- acct, standing <- standing, orders <- orders,
                         mday <- mday, price <- price, log <- log,
                         approved <- approved, paid <- paid

-----------------------------------------------------------------------------
(* The clock counts thirds of a day: before 09:00, market hours [09:00,     *)
(* 18:00), and from 18:00 on.  The day after the event has a first third.   *)

DateOf(t) == t \div 3 + 1
MarketOpen(t) == DateOf(t) \in Days /\ t % 3 = 1
TradeDay(t) == IF DateOf(t) \in Days THEN DateOf(t) ELSE 0
ClosingOf(d) == 3 * d - 1       \* 18:00 of day d

LatestOpened ==
    IF Opened(mday) = {} THEN 0
    ELSE CHOOSE d \in Opened(mday) : \A e \in Opened(mday) : e <= d

NoOrder == [participant |-> 0]
NoWage == [p \in Participants |-> 0]
Running == {"waitRow", "waitDay", "decide", "commit"}
BatchRunning == {"waitBatch", "waitDay", "tally", "pick", "pay", "commit"}

Init ==
    /\ L!Init
    /\ clock = 0
    /\ rowLock = [p \in Participants |-> Free]
    /\ dayShare = [d \in Days |-> {}]
    /\ dayLock = [d \in Days |-> Free]
    /\ batchLock = Free
    /\ phase = [r \in Requests |-> "new"]
    /\ asked = [r \in Requests |-> NoOrder]
    /\ askedAt = [r \in Requests |-> 0]
    /\ seen = [r \in Requests |-> OpeningAccount]
    /\ staged = [r \in Requests |-> NoOrder]
    /\ step = [b \in Batches |-> "idle"]
    /\ hasty = [b \in Batches |-> FALSE]
    /\ calledAt = [b \in Batches |-> 0]
    /\ settling = [b \in Batches |-> 0]
    /\ opening = [b \in Batches |-> 0]
    /\ tally = [b \in Batches |-> {}]
    /\ due = [b \in Batches |-> {}]
    /\ paying = [b \in Batches |-> {}]
    /\ wage = [b \in Batches |-> NoWage]

\* No transaction lasts longer than a third of a day.
Tick ==
    /\ clock < 3 * LastDay
    /\ \A r \in Requests : phase[r] \in Running => askedAt[r] = clock
    /\ \A b \in Batches : step[b] # "idle" => calledAt[b] = clock
    /\ clock' = clock + 1
    /\ UNCHANGED <<ledger, locks, orderTx, batchTx>>

-----------------------------------------------------------------------------
(* POST /api/me/orders *)

\* The request has passed its dependencies; "now" is fixed from here on.
Submit(r) ==
    /\ phase[r] = "new"
    /\ \E o \in OrderInput : asked' = [asked EXCEPT ![r] = o]
    /\ askedAt' = [askedAt EXCEPT ![r] = clock]
    /\ phase' = [phase EXCEPT ![r] = "waitRow"]
    /\ UNCHANGED <<ledger, clock, locks, seen, staged, batchTx>>

\* The session now holds row, the order to insert, and goes on to commit it.
Stage(r, amount, outcome) ==
    /\ staged' = [staged EXCEPT ![r] =
                    Row(r, asked[r], TradeDay(askedAt[r]), amount, outcome)]
    /\ phase' = [phase EXCEPT ![r] = "commit"]

\* Mutant: the participant is read without FOR UPDATE, which waits for nobody.
RowNeverWaitedFor(p) == TRUE

RowFree(p) == rowLock[p] = Free

\* What the order is judged by: the row as it is once it is locked.
RowRead(r) == acct[asked[r].participant]
StandingRead(r) == standing[asked[r].participant]

\* Mutant: the row is read again but not locked.
ReadParticipant(r) ==
    LET p == asked[r].participant
        verdict == LocalVerdict(asked[r], StandingRead(r), MarketOpen(askedAt[r]))
    IN  /\ phase[r] = "waitRow"
        /\ RowFree(p)
        /\ seen' = [seen EXCEPT ![r] = RowRead(r)]
        /\ \/ /\ verdict = "PASS"
              /\ phase' = [phase EXCEPT ![r] = "waitDay"]
              /\ UNCHANGED staged
           \/ verdict # "PASS" /\ Stage(r, 0, verdict)
        /\ UNCHANGED <<ledger, clock, locks, asked, askedAt, batchTx>>

LockParticipant(r) ==
    LET p == asked[r].participant
        verdict == LocalVerdict(asked[r], StandingRead(r), MarketOpen(askedAt[r]))
    IN  /\ phase[r] = "waitRow"
        /\ RowFree(p)
        /\ rowLock' = [rowLock EXCEPT ![p] = r]
        /\ seen' = [seen EXCEPT ![r] = RowRead(r)]
        /\ \/ /\ verdict = "PASS"
              /\ phase' = [phase EXCEPT ![r] = "waitDay"]
              /\ UNCHANGED staged
           \/ verdict # "PASS" /\ Stage(r, 0, verdict)
        /\ UNCHANGED <<ledger, clock, dayShare, dayLock, batchLock,
                       asked, askedAt, batchTx>>

\* FOR SHARE waits for a settlement of the day; a row not there is no wait.
DayReadable(d) == mday[d] = "unopened" \/ dayLock[d] = Free

\* Mutant: the day is read without FOR SHARE.
SharedWithNobody(d, r) == dayShare

SharedWith(d, r) ==
    IF mday[d] = "unopened" THEN dayShare
    ELSE [dayShare EXCEPT ![d] = @ \cup {r}]

LockDayShared(r) ==
    LET d == TradeDay(askedAt[r])
        verdict == DayVerdict(mday[d])
    IN  /\ phase[r] = "waitDay"
        /\ DayReadable(d)
        /\ dayShare' = SharedWith(d, r)
        /\ \/ /\ verdict = "PASS"
              /\ phase' = [phase EXCEPT ![r] = "decide"]
              /\ UNCHANGED staged
           \/ verdict # "PASS" /\ Stage(r, 0, verdict)
        /\ UNCHANGED <<ledger, clock, rowLock, dayLock, batchLock,
                       asked, askedAt, seen, batchTx>>

\* prices_on, bought_today and the funds or holdings check.
Decide(r) ==
    LET o == asked[r]
        d == TradeDay(askedAt[r])
        verdict == TradeVerdict(o, seen[r], price[d],
                                BoughtOn(orders, o.participant, o.code, d))
        amount == IF verdict = "FILLED" THEN price[d][o.code] * o.quantity ELSE 0
    IN  /\ phase[r] = "decide"
        /\ Stage(r, amount, verdict)
        /\ UNCHANGED <<ledger, clock, locks, asked, askedAt, seen, batchTx>>

\* Mutant: an order's session is left open and keeps sharing its day.
EndOrderSharing(r, outcome) ==
    /\ phase' = [phase EXCEPT ![r] = outcome]
    /\ rowLock' = [p \in Participants |-> IF rowLock[p] = r THEN Free ELSE rowLock[p]]
    /\ asked' = [asked EXCEPT ![r] = NoOrder]
    /\ askedAt' = [askedAt EXCEPT ![r] = 0]
    /\ seen' = [seen EXCEPT ![r] = OpeningAccount]
    /\ staged' = [staged EXCEPT ![r] = NoOrder]
    /\ UNCHANGED <<clock, dayShare, dayLock, batchLock, batchTx>>

\* The session closes: its locks fall and what it had read or staged is gone.
EndOrder(r, outcome) ==
    /\ phase' = [phase EXCEPT ![r] = outcome]
    /\ rowLock' = [p \in Participants |-> IF rowLock[p] = r THEN Free ELSE rowLock[p]]
    /\ dayShare' = [d \in Days |-> dayShare[d] \ {r}]
    /\ asked' = [asked EXCEPT ![r] = NoOrder]
    /\ askedAt' = [askedAt EXCEPT ![r] = 0]
    /\ seen' = [seen EXCEPT ![r] = OpeningAccount]
    /\ staged' = [staged EXCEPT ![r] = NoOrder]
    /\ UNCHANGED <<clock, dayLock, batchLock, batchTx>>

\* The fill is computed from what the session read, and written as values.
CommitOrder(r) ==
    /\ phase[r] = "commit"
    /\ orders' = orders \cup {staged[r]}
    /\ acct' = IF staged[r].outcome = "FILLED"
               THEN [acct EXCEPT ![asked[r].participant] =
                        Fill(seen[r], asked[r], staged[r].amount)]
               ELSE acct
    /\ EndOrder(r, "done")
    /\ UNCHANGED <<standing, mday, price, log, approved, paid>>

\* Any exception, timeout or crash before the commit rolls back.
AbortOrder(r) ==
    /\ phase[r] \in Running
    /\ EndOrder(r, "failed")
    /\ UNCHANGED ledger

-----------------------------------------------------------------------------
(* Batches: POST /api/admin/batch/open and /settle, the steps of run_due,   *)
(* and the QA tool that settles and opens in one transaction.               *)

CallBatch(b) ==
    /\ step[b] = "idle"
    /\ \/ \E d \in Days : /\ opening' = [opening EXCEPT ![b] = d]
                          /\ UNCHANGED <<settling, hasty>>
       \/ \E d \in Days : /\ settling' = [settling EXCEPT ![b] = d]
                          /\ UNCHANGED <<opening, hasty>>
       \/ /\ QaTools
          /\ hasty' = [hasty EXCEPT ![b] = TRUE]
          /\ UNCHANGED <<settling, opening>>
    /\ calledAt' = [calledAt EXCEPT ![b] = clock]
    /\ step' = [step EXCEPT ![b] = "waitBatch"]
    /\ UNCHANGED <<ledger, clock, locks, orderTx, tally, due, paying, wage>>

\* Mutant: batches do not take the advisory lock.
BatchNeverWaitedFor == TRUE

BatchFree == batchLock = Free

\* The days a batch is for, 0 for none: advance_price finds them under the lock.
DayToSettle(b) ==
    IF hasty[b] /\ LatestOpened # 0
    THEN IF mday[LatestOpened] = "opened" THEN LatestOpened ELSE 0
    ELSE settling[b]

\* Mutant: run_due settles a day and opens the next in one transaction.
DayToOpenAtOnce(b) ==
    IF hasty[b] THEN LatestOpened + 1
    ELSE IF settling[b] # 0 THEN settling[b] + 1
    ELSE opening[b]

DayToOpen(b) == IF hasty[b] THEN LatestOpened + 1 ELSE opening[b]

\* round_of: the last day has no day its settlement could take effect on.
HasRound(d) == d + 1 \in Days

Openable(d, hurried, at) ==
    /\ d \in Days
    /\ hurried \/ DateOf(at) >= d
    /\ \A e \in Opened(mday) : e < d

EntryAccepted(b) ==
    IF DayToSettle(b) # 0 THEN HasRound(DayToSettle(b))
    ELSE Openable(DayToOpen(b), hasty[b], calledAt[b])

EnterBatch(b) ==
    /\ step[b] = "waitBatch"
    /\ BatchFree
    /\ EntryAccepted(b)
    /\ batchLock' = b
    /\ settling' = [settling EXCEPT ![b] = DayToSettle(b)]
    /\ opening' = [opening EXCEPT ![b] = DayToOpen(b)]
    /\ step' = [step EXCEPT ![b] = IF DayToSettle(b) # 0 THEN "waitDay" ELSE "pick"]
    /\ UNCHANGED <<ledger, clock, rowLock, dayShare, dayLock, orderTx,
                   hasty, calledAt, tally, due, paying, wage>>

\* FOR UPDATE waits for every order in flight on the day.
NoOrderOn(d) == dayShare[d] = {}
DayExclusive(d) == dayLock[d] = Free /\ NoOrderOn(d)

Settleable(d, hurried, at) ==
    /\ mday[d] = "opened"
    /\ hurried \/ at >= ClosingOf(d)
    /\ mday[d + 1] = "unopened"

LockDayExclusive(b) ==
    LET d == settling[b]
    IN  /\ step[b] = "waitDay"
        /\ DayExclusive(d)
        /\ Settleable(d, hasty[b], calledAt[b])
        /\ dayLock' = [dayLock EXCEPT ![d] = b]
        /\ step' = [step EXCEPT ![b] = "tally"]
        /\ UNCHANGED <<ledger, clock, rowLock, dayShare, batchLock, orderTx,
                       hasty, calledAt, settling, opening, tally, due, paying, wage>>

Tally(b) ==
    /\ step[b] = "tally"
    /\ tally' = [tally EXCEPT ![b] = TradedOn(orders, settling[b])]
    /\ step' = [step EXCEPT ![b] = IF opening[b] # 0 THEN "pick" ELSE "commit"]
    /\ UNCHANGED <<ledger, clock, locks, orderTx, hasty, calledAt, settling,
                   opening, due, paying, wage>>

\* pay_rewards selects the certifications it owes before it locks anybody.
PickRewards(b) ==
    /\ step[b] = "pick"
    /\ due' = [due EXCEPT ![b] = {c \in Payable(approved, paid, opening[b]) :
                                    standing[CertOwner[c]] # "disqualified"}]
    /\ step' = [step EXCEPT ![b] = "pay"]
    /\ UNCHANGED <<ledger, clock, locks, orderTx, hasty, calledAt, settling,
                   opening, tally, paying, wage>>

\* Participants are locked in increasing order, re-read, and credited for all
\* of their certifications (the lock is re-entrant).
PayParticipant(b) ==
    \E p \in Participants :
        LET mine == OwnedBy(due[b], p)
        IN  /\ step[b] = "pay"
            /\ mine # {}
            /\ \A c \in due[b] : p <= CertOwner[c]
            /\ RowFree(p)
            /\ rowLock' = [rowLock EXCEPT ![p] = b]
            /\ wage' = [wage EXCEPT ![b][p] = Rewarded(acct[p], mine).cash]
            /\ due' = [due EXCEPT ![b] = @ \ mine]
            /\ paying' = [paying EXCEPT ![b] = @ \cup mine]
            /\ UNCHANGED <<ledger, clock, dayShare, dayLock, batchLock, orderTx,
                           step, hasty, calledAt, settling, opening, tally>>

\* Mutant: a batch's session is left open and keeps the day it settled locked.
EndBatchLocking(b) ==
    /\ step' = [step EXCEPT ![b] = "idle"]
    /\ batchLock' = IF batchLock = b THEN Free ELSE batchLock
    /\ rowLock' = [p \in Participants |-> IF rowLock[p] = b THEN Free ELSE rowLock[p]]
    /\ hasty' = [hasty EXCEPT ![b] = FALSE]
    /\ calledAt' = [calledAt EXCEPT ![b] = 0]
    /\ settling' = [settling EXCEPT ![b] = 0]
    /\ opening' = [opening EXCEPT ![b] = 0]
    /\ tally' = [tally EXCEPT ![b] = {}]
    /\ due' = [due EXCEPT ![b] = {}]
    /\ paying' = [paying EXCEPT ![b] = {}]
    /\ wage' = [wage EXCEPT ![b] = NoWage]
    /\ UNCHANGED <<clock, dayShare, dayLock, orderTx>>

EndBatch(b) ==
    /\ step' = [step EXCEPT ![b] = "idle"]
    /\ batchLock' = IF batchLock = b THEN Free ELSE batchLock
    /\ dayLock' = [d \in Days |-> IF dayLock[d] = b THEN Free ELSE dayLock[d]]
    /\ rowLock' = [p \in Participants |-> IF rowLock[p] = b THEN Free ELSE rowLock[p]]
    /\ hasty' = [hasty EXCEPT ![b] = FALSE]
    /\ calledAt' = [calledAt EXCEPT ![b] = 0]
    /\ settling' = [settling EXCEPT ![b] = 0]
    /\ opening' = [opening EXCEPT ![b] = 0]
    /\ tally' = [tally EXCEPT ![b] = {}]
    /\ due' = [due EXCEPT ![b] = {}]
    /\ paying' = [paying EXCEPT ![b] = {}]
    /\ wage' = [wage EXCEPT ![b] = NoWage]
    /\ UNCHANGED <<clock, dayShare, orderTx>>

\* UPDATE participants SET cash = the value computed under the row lock.
WagesPaid(b) ==
    [p \in Participants |->
        IF rowLock[p] = b THEN [acct[p] EXCEPT !.cash = wage[b][p]] ELSE acct[p]]

RewardsStaged(b) == step[b] = "pay" /\ due[b] = {}

CommitOpen(b) ==
    LET d == opening[b]
    IN  /\ RewardsStaged(b)
        /\ settling[b] = 0
        /\ mday' = [mday EXCEPT ![d] = "opened"]
        /\ price' = [price EXCEPT ![d] = OpeningPrices(mday, price, d)]
        /\ acct' = WagesPaid(b)
        /\ paid' = paid \cup paying[b]
        /\ EndBatch(b)
        /\ UNCHANGED <<standing, orders, log, approved>>

CommitSettle(b) ==
    LET d == settling[b]
    IN  /\ step[b] = "commit"
        /\ mday' = [mday EXCEPT ![d] = "settled"]
        /\ log' = [log EXCEPT ![d] = tally[b]]
        /\ \E drawn \in [Codes -> DrawnPrices] :
              price' = [price EXCEPT ![d + 1] = drawn]
        /\ EndBatch(b)
        /\ UNCHANGED <<acct, standing, orders, approved, paid>>

CommitAdvance(b) ==
    LET d == settling[b]
    IN  /\ RewardsStaged(b)
        /\ d # 0
        /\ mday' = [mday EXCEPT ![d] = "settled", ![d + 1] = "opened"]
        /\ log' = [log EXCEPT ![d] = tally[b]]
        /\ \E drawn \in [Codes -> DrawnPrices] :
              price' = [price EXCEPT ![d + 1] = drawn]
        /\ acct' = WagesPaid(b)
        /\ paid' = paid \cup paying[b]
        /\ EndBatch(b)
        /\ UNCHANGED <<standing, orders, approved>>

\* A DomainError: the batch finds at a lock that there is nothing to do.
RefuseBatch(b) ==
    /\ \/ step[b] = "waitBatch" /\ BatchFree /\ ~EntryAccepted(b)
       \/ /\ step[b] = "waitDay"
          /\ mday[settling[b]] = "unopened" \/ DayExclusive(settling[b])
          /\ ~Settleable(settling[b], hasty[b], calledAt[b])
    /\ EndBatch(b)
    /\ UNCHANGED ledger

\* A failure or a crash before the commit, and a scheduler's try-lock that
\* finds another batch running.
AbortBatch(b) ==
    /\ step[b] \in BatchRunning
    /\ EndBatch(b)
    /\ UNCHANGED ledger

-----------------------------------------------------------------------------
(* Writers of single rows in transactions of their own.                     *)

\* PATCH /api/admin/participants: an UPDATE, which waits for the row lock.
SetStanding(p, s) ==
    /\ RowFree(p)
    /\ standing' = [standing EXCEPT ![p] = s]
    /\ UNCHANGED <<acct, orders, mday, price, log, approved, paid, clock, locks,
                   orderTx, batchTx>>

Approve(c) ==
    /\ approved' = approved \cup {c}
    /\ UNCHANGED <<acct, standing, orders, mday, price, log, paid, clock, locks,
                   orderTx, batchTx>>

OrderNext(r) ==
    \/ Submit(r)
    \/ LockParticipant(r)
    \/ LockDayShared(r)
    \/ Decide(r)
    \/ CommitOrder(r)
    \/ AbortOrder(r)

BatchNext(b) ==
    \/ CallBatch(b)
    \/ EnterBatch(b)
    \/ LockDayExclusive(b)
    \/ Tally(b)
    \/ PickRewards(b)
    \/ PayParticipant(b)
    \/ CommitOpen(b)
    \/ CommitSettle(b)
    \/ CommitAdvance(b)
    \/ RefuseBatch(b)
    \/ AbortBatch(b)

Next ==
    \/ Tick
    \/ \E r \in Requests : OrderNext(r)
    \/ \E b \in Batches : BatchNext(b)
    \/ \E p \in Participants, s \in {"normal", "disqualified"} : SetStanding(p, s)
    \/ \E c \in Certs : Approve(c)

Spec == Init /\ [][Next]_vars

-----------------------------------------------------------------------------
TypeOK ==
    /\ L!TypeOK
    /\ clock \in Nat
    /\ rowLock \in [Participants -> Requests \cup Batches \cup {Free}]
    /\ dayShare \in [Days -> SUBSET Requests]
    /\ dayLock \in [Days -> Batches \cup {Free}]
    /\ batchLock \in Batches \cup {Free}
    /\ phase \in [Requests -> Running \cup {"new", "done", "failed"}]
    /\ asked \in [Requests -> OrderInput \cup {NoOrder}]
    /\ askedAt \in [Requests -> Nat]
    /\ seen \in [Requests -> Account]
    /\ staged \in [Requests -> OrderRow \cup {NoOrder}]
    /\ step \in [Batches -> BatchRunning \cup {"idle"}]
    /\ hasty \in [Batches -> BOOLEAN]
    /\ calledAt \in [Batches -> Nat]
    /\ settling \in [Batches -> Nat]
    /\ opening \in [Batches -> Nat]
    /\ tally \in [Batches -> SUBSET OrderRow]
    /\ due \in [Batches -> SUBSET Certs]
    /\ paying \in [Batches -> SUBSET Certs]
    /\ wage \in [Batches -> [Participants -> Nat]]

\* Committed rows follow the atomic ledger: to whoever reads the database each
\* order, opening and settlement took place in one step, and each order was
\* judged by the rows as they were at that step.
RefinesLedger == L!Spec

\* See Ledger: no update of an account is lost between concurrent orders and
\* reward payments.
BooksBalance == L!BooksBalance

\* See Ledger: orders decided side by side do not pass the limit together.
DailyLimitKept == L!DailyLimitKept

\* See Ledger: no order slips into a day past the settlement's aggregation.
SettledTradesFrozen == L!SettledTradesFrozen

\* A disqualification that is committed before an order's fill stops it, also
\* when the order was already in flight: nobody trades once disqualified.
NoTradeOnceDisqualified ==
    [][\A p \in Participants :
          standing[p] = "disqualified" =>
            {o \in Filled(orders') : o.participant = p}
              = {o \in Filled(orders) : o.participant = p}]_vars

Transactions == Requests \cup Batches

\* Transaction x cannot go on before y ends.
WaitsFor(x, y) ==
    \/ /\ x \in Requests
       /\ phase[x] = "waitRow"
       /\ rowLock[asked[x].participant] = y
    \/ /\ x \in Requests
       /\ phase[x] = "waitDay"
       /\ mday[TradeDay(askedAt[x])] # "unopened"
       /\ dayLock[TradeDay(askedAt[x])] = y
    \/ /\ x \in Batches
       /\ step[x] = "waitBatch"
       /\ batchLock = y
    \/ /\ x \in Batches
       /\ step[x] = "waitDay"
       /\ mday[settling[x]] # "unopened"
       /\ y \in dayShare[settling[x]] \cup {dayLock[settling[x]]}
    \/ /\ x \in Batches
       /\ step[x] = "pay"
       /\ \E c \in due[x] : /\ \A e \in due[x] : CertOwner[c] <= CertOwner[e]
                            /\ rowLock[CertOwner[c]] = y

\* The lock order is fixed (participant before day, batch lock before both), so
\* no group of transactions ever waits for one another in a circle.
NoLockCycle ==
    \A S \in (SUBSET Transactions) \ {{}} :
        \E x \in S : \A y \in S : ~WaitsFor(x, y)

-----------------------------------------------------------------------------
(* PostgreSQL queues lock waiters, so a lock that comes free again and again *)
(* is granted: strong fairness.  Submitting, calling and failing are not     *)
(* owed to anybody.                                                          *)

OrderProgress(r) ==
    LockParticipant(r) \/ LockDayShared(r) \/ Decide(r) \/ CommitOrder(r)

BatchProgress(b) ==
    \/ EnterBatch(b) \/ LockDayExclusive(b) \/ Tally(b) \/ PickRewards(b)
    \/ PayParticipant(b) \/ CommitOpen(b) \/ CommitSettle(b) \/ CommitAdvance(b)
    \/ RefuseBatch(b)

Fairness ==
    /\ \A r \in Requests : SF_vars(OrderProgress(r))
    /\ \A b \in Batches : SF_vars(BatchProgress(b))

FairSpec == Spec /\ Fairness

\* Every order that was submitted gets an answer, a row or an error, whatever
\* settlements, openings and other orders run beside it: nobody starves at a lock.
OrdersEnd == \A r \in Requests : phase[r] \in Running ~> phase[r] \in {"done", "failed"}

\* Every batch that was called ends, so the market cannot stay stuck between
\* two days because orders keep coming in.
BatchesEnd == \A b \in Batches : step[b] # "idle" ~> step[b] = "idle"

-----------------------------------------------------------------------------
(* The inductive invariant: what each transaction may rely on while it holds *)
(* its locks.  TradingProofs shows that every step keeps it.                 *)

RowHeld(r) == phase[r] \in {"waitDay", "decide", "commit"}
Filling(r) ==
    phase[r] = "decide" \/ (phase[r] = "commit" /\ staged[r].outcome = "FILLED")

\* An order between its row lock and its end is alone with the row it read.
RowsLocked ==
    /\ \A r \in Requests :
          /\ phase[r] \in Running => asked[r] \in OrderInput
          /\ phase[r] = "commit" => staged[r] \in OrderRow
          /\ RowHeld(r) => /\ rowLock[asked[r].participant] = r
                           /\ seen[r] = RowRead(r)
          /\ phase[r] = "waitDay" \/ Filling(r) =>
                LocalVerdict(asked[r], StandingRead(r), MarketOpen(askedAt[r])) = "PASS"
    /\ \A p \in Participants :
          /\ rowLock[p] \in Requests => /\ RowHeld(rowLock[p])
                                        /\ asked[rowLock[p]].participant = p
          /\ rowLock[p] \in Batches => step[rowLock[p]] = "pay"

\* An order about to be filled shares its day, which cannot be settled then.
DaysShared ==
    \A r \in Requests :
        Filling(r) => LET d == TradeDay(askedAt[r])
                      IN  d \in Days /\ r \in dayShare[d] /\ mday[d] = "opened"

DaysExclusive ==
    \A d \in Days :
        /\ dayShare[d] # {} => dayLock[d] = Free /\ mday[d] # "unopened"
        /\ \A r \in dayShare[d] : phase[r] \in {"decide", "commit"}
        /\ dayLock[d] # Free =>
              /\ settling[dayLock[d]] = d
              /\ step[dayLock[d]] \in {"tally", "pick", "pay", "commit"}

\* A filled order in its session is the one the atomic ledger would insert now.
OrdersJudged ==
    \A r \in Requests :
        phase[r] = "commit" /\ staged[r].outcome = "FILLED" =>
            LET o == asked[r]
                d == TradeDay(askedAt[r])
            IN  /\ staged[r] = Row(r, o, d, price[d][o.code] * o.quantity, "FILLED")
                /\ TradeVerdict(o, seen[r], price[d],
                        BoughtOn(orders, o.participant, o.code, d)) = "FILLED"

\* A refused order in its session names a reason that is still true, or one of
\* the two that nothing keeps true (see Ledger).
RefusalsJustified ==
    \A r \in Requests :
        phase[r] = "commit" /\ staged[r].outcome # "FILLED" =>
            LET o == asked[r]
                d == TradeDay(askedAt[r])
                outcome == staged[r].outcome
            IN  /\ staged[r] = Row(r, o, d, 0, outcome)
                /\ \/ outcome \in {"MARKET_CLOSED", "MARKET_NOT_OPENED"}
                   \/ outcome = LocalVerdict(o, StandingRead(r), TRUE)
                   \/ /\ d \in Days
                      /\ r \in dayShare[d]
                      /\ mday[d] = "opened"
                      /\ outcome = TradeVerdict(o, seen[r], price[d],
                                      BoughtOn(orders, o.participant, o.code, d))

Settles(b) ==
    step[b] \in {"tally", "commit"} \/ (step[b] \in {"pick", "pay"} /\ settling[b] # 0)

PastBatchLock(b) == step[b] \in BatchRunning \ {"waitBatch"}

\* The batch past the advisory lock is alone.
BatchesAlone == \A b \in Batches : PastBatchLock(b) <=> batchLock = b

\* What a batch was called for: nothing yet, one day, or (QA) "the next one".
CallsClear ==
    \A b \in Batches :
        /\ hasty[b] => QaTools
        /\ step[b] = "idle" => ~hasty[b] /\ settling[b] = 0 /\ opening[b] = 0
        /\ step[b] = "waitBatch" => settling[b] = 0 \/ opening[b] = 0
        /\ step[b] = "waitBatch" /\ hasty[b] => settling[b] = 0 /\ opening[b] = 0

\* The guards of a settlement stay true until it commits.
SettlingValid ==
    \A b \in Batches :
        /\ step[b] \in {"waitDay", "tally", "commit"} => settling[b] # 0
        /\ step[b] = "waitDay" \/ Settles(b) =>
              settling[b] \in Days /\ HasRound(settling[b])
        /\ Settles(b) => /\ dayLock[settling[b]] = b
                         /\ mday[settling[b]] = "opened"
                         /\ mday[settling[b] + 1] = "unopened"

\* The guards of an opening stay true until it commits.
OpeningValid ==
    \A b \in Batches :
        /\ step[b] = "commit" => opening[b] = 0
        /\ step[b] \in {"waitDay", "tally", "pick", "pay"}
             /\ settling[b] # 0 /\ opening[b] # 0 =>
                /\ hasty[b]
                /\ opening[b] = settling[b] + 1
                /\ \A e \in Opened(mday) : e <= settling[b]
        /\ step[b] \in {"pick", "pay"} =>
              /\ opening[b] \in Days
              /\ \A e \in Opened(mday) : e < opening[b]
              /\ settling[b] = 0 => \A d \in Days : mday[d] = "opened" => clock >= 3 * d

\* What a settlement has aggregated stays complete until it commits.
TalliesComplete ==
    \A b \in Batches :
        Settles(b) /\ step[b] # "tally" => tally[b] = TradedOn(orders, settling[b])

\* What a reward payment has computed stays right until it commits.
WagesRight ==
    \A b \in Batches :
        /\ step[b] # "pay" => paying[b] = {}
        /\ step[b] = "pay" =>
              due[b] \cup paying[b] \subseteq Payable(approved, paid, opening[b])
        /\ step[b] = "pay" =>
              \A p \in Participants :
                 IF rowLock[p] = b
                 THEN /\ wage[b][p] = Rewarded(acct[p], OwnedBy(paying[b], p)).cash
                      /\ OwnedBy(due[b], p) = {}
                 ELSE OwnedBy(paying[b], p) = {}

\* Orders are recent, so that none is filled on a day the market has left.
MarketMovesOn ==
    /\ \A r \in Requests :
          phase[r] \in Running => askedAt[r] <= clock /\ clock <= askedAt[r] + 1
    /\ \A b \in Batches : step[b] # "idle" => calledAt[b] <= clock
    /\ \A d, e \in Days : d < e /\ mday[d] = "opened" /\ mday[e] # "unopened" =>
            clock >= 3 * d

\* An order id is in the table once its request is done, and only then.
IdsFresh == \A o \in orders : phase[o.id] = "done"

IndInv ==
    /\ TypeOK
    /\ RowsLocked
    /\ DaysShared
    /\ DaysExclusive
    /\ OrdersJudged
    /\ RefusalsJustified
    /\ BatchesAlone
    /\ CallsClear
    /\ SettlingValid
    /\ OpeningValid
    /\ TalliesComplete
    /\ WagesRight
    /\ MarketMovesOn
    /\ IdsFresh
    /\ SettledTradesFrozen
=============================================================================
