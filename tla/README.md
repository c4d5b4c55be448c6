# A verification of study-invest

study-invest is the server and web page of a mock-investment event: participants trade four
stocks and a coin at one price per day, orders are filled at once at the day's price, the day's
trades move the next day's price, and a photo of one's studies earns cash. The backend is Python
(FastAPI, SQLAlchemy) on PostgreSQL; the page is React. This directory holds TLA+ modules of the
program's core, TLC runs on small instances and TLAPS proofs for all instances. Paths below are
relative to `src/backend/src/study_invest/` unless they start with `src/`.

## 1. Inventory

| Component | State it keeps | Operations | Correct when |
|---|---|---|---|
| Trading (`services/trading.py`, `services/common.py`) | participants' cash, holdings (quantity, cost), orders | `place_order` under `lock_participant` and a shared `lock_market_day` | books balance, buy limit holds for the sum of the day's orders, no trade after 18:00's settlement, none by the disqualified |
| Market (`services/market.py`) | market_days, price_history, settlement_logs | `open_day`, `settle_day`, `run_due`, `set_manual_price`, QA `advance_price`, `qa_next_step` | days open in order and once, a published price is final, a settlement sums the whole day, manual prices win, every due batch is eventually run or carried over |
| Certification (`services/certification.py`) | certifications, image files | `submit`, `review`, `pay_rewards`, `purge_images` | one live certification per day, paid once, a rejected one never paid, photos and rows agree whatever a purge meets |
| News (`services/news.py`) | news_items | `create_random_news`, `set_manual_news`, `delete_news` | what is published is what the settlement applied |
| Accounts (`services/auth.py`) | participants' identity, password, sessions | `register`, `login`, `reset_password`, `verify_email`, `set_verified` | one account per mail and student id, no session of an old password, a verified mail does not change |
| Email codes (`services/email_verification.py`, `api/email_codes.py`) | email_verifications | `request_code`, `consume_code`, `purge` | limits hold under concurrency, a code is used once, attempts are counted |
| Notifications (`services/notifications.py`) | notifications, read marks | `create`, `update`, `remove`, `mark_read` | no mark of a deleted notification, marks and resets do not mix |
| Parameters (`params.py`, `common.params_lock`) | rows of event parameters | form, trading switch | no update lost |
| Formulas (`pricing.py`, `money.py`, `services/ranking.py`) | none | price moves, clamps, rounding, ranks | agree with their definition at the boundaries |
| Sessions and pools (`db.py`, `api/deps.py`, `api/app.py`) | connections, threads, transactions | open, release, close, time out | every request ends its transaction, nobody starves |
| Clock and calendar (`clock.py`, `event_calendar.py`) | clock offset | `is_market_open`, `round_of`, `jump_to` | batches and orders agree on the day |
| Page, session (`src/frontend/src/auth`, `api/client.ts`, `lib/storage.ts`) | token, status, profile, retry timer | login, logout, 401 reports, retries | the name shown belongs to the token sent, an old 401 never ends a newer session, an ended session is noticed |
| Page, data (`src/frontend/src/api/useApi.ts`, `useRefetchOnOpen.ts`, the four data pages) | last answer per query | fetch, poll, refetch after an order, a read mark, an opening | nothing of another participant or instrument is shown, nothing goes back, an opening and one's own order are followed |
| Page, forms (`src/frontend/src/pages`, `components`, `lib/turnstile.tsx`) | fields, steps, captcha token, dialogs | order ticket, registration, verification, reset, login, upload, review, console | the ticket offers exactly what the server fills, a captcha token is sent once, a click on a form that waits sends nothing |

How they interact. A request passes dependencies (token, participant, trading switch), each of which
ends its transaction, and then runs one service call in a new transaction that the route commits.
Services meet only in the database, at READ COMMITTED: an order and a reward on the participant's
row, an order and a settlement on the day's row, all batches on one advisory lock. The scheduler
(`api/app.py`) calls `run_due`, which runs up to three transactions: settle yesterday, open today,
settle today. Administrators call the same functions over HTTP.

What is hard. Interleaving of statements of several transactions (lost updates, checks made on old
values, lock circles, starvation); the boundary at 18:00; batches run twice, late or only partly;
crashes between transactions and between a file and its row; answers that arrive out of order in the
page. PROJECT.json lists each hazard at its line with the properties that cover it, or why none does.

## 2. Plan, and what is done

The money comes first, since every other part ends in it; then what decides the prices it is counted
in; then what becomes of people and photos; then the page.

| Part | Modules | State |
|---|---|---|
| Rules, atomic ledger, locked transactions | LedgerRules, Ledger, Trading | modelled, checked, proved, refinement proved |
| Order ticket against the rules | OrderTicket | modelled, checked on every state of the ledger, proved |
| Batches, prices by hand, news, scheduler | Market | modelled, checked, safety proved, liveness checked |
| Certifications, photos, rewards, purge | Certification | modelled, checked, proved |
| Accounts, codes, captcha, their forms | Enrolment | modelled, checked, proved |
| Session of the page | WebSession | modelled, checked; types proved, safety proved for one tab, liveness checked |
| Data of the page | PageData | modelled, checked, proved |
| Price formulas, ranking, pools, notification removal, parameter forms | none | not modelled, see section 7 |

Which module composes which. Trading extends LedgerRules and refines Ledger (`RefinesLedger`, an
`INSTANCE`); OrderTicket extends Ledger, so that the page's arithmetic is compared with the server's rules
in every reachable state of the accounts. Market, Certification, Enrolment, WebSession and PageData share
no variables with each other in the program except through rows that the others treat as given: Market
leaves to Trading what an opening does to accounts, Certification leaves to Trading what a reward does to
cash, Enrolment's sessions are WebSession's `live`, PageData's `edits` count the orders Trading commits.
They are separate modules because a product of their states shows nothing that the parts do not.

## 3. The modules

**LedgerRules** has no state: the verdicts of an order (`LocalVerdict`, `DayVerdict`, `TradeVerdict`),
what a fill and a reward do to an account, which certifications are due, the price a day opens with.
Its constants are the program's (`INITIAL_CASH`, the buy limit as a fraction, `QUANTITY_MAX`) and the
inputs a client may send, valid or not.

**Ledger** is what the database promises: each order (`PlaceOrder`), opening with its rewards
(`OpenDay`), settlement (`SettleDay`) and QA step (`AdvanceDay`) in one step, against the rows as they
are at that step. It has no clock. A refusal must name a reason that is true at that step
(`Justified`); only `MARKET_NOT_OPENED` and `MARKET_CLOSED` may be stale, because no lock keeps them true.

**Trading** runs the same operations as transactions.

| State | Code |
|---|---|
| `acct`, `standing`, `orders`, `mday`, `price`, `log`, `approved`, `paid` | committed rows of participants + holdings, orders, market_days, price_history, settlement_logs, certifications |
| `rowLock` | `lock_participant`: FOR UPDATE on the participant and his holdings |
| `dayShare`, `dayLock` | `lock_market_day`: FOR SHARE by orders, FOR UPDATE by a settlement |
| `batchLock` | `batch_lock`: the transaction's advisory lock |
| `phase`, `asked`, `askedAt`, `seen`, `staged` | one order request: where it is, its body, its `now`, the participant it re-read, the row it will insert |
| `step`, `calledAt`, `settling`, `opening`, `hasty`, `tally`, `due`, `paying`, `wage` | one batch session: where it is, its `now`, its days, the trades it summed, the certifications it selected and has credited |
| `clock` | the application clock, in thirds of a day: before 09:00, [09:00, 18:00), from 18:00 |

`Submit`, `LockParticipant`, `LockDayShared`, `Decide`, `CommitOrder` follow `place_order` statement by
statement; `AbortOrder` is any exception, timeout or crash. `CallBatch` to `CommitOpen`, `CommitSettle`
or `CommitAdvance` follow `open_day`, `settle_day` and `advance_price`; `RefuseBatch` is a DomainError
and `AbortBatch` a failure or the scheduler's try-lock that fails. A fill is computed from `seen`, not
from the committed row, and rewards from the cash read under the lock, so an update can be lost if a
lock is missing; the mutants in PROJECT.json remove the locks one at a time.

Choices a reader should know:

- A step is one statement. Inside a session, a read of a row the session has locked sees the committed
  value; PostgreSQL at READ COMMITTED gives each statement a fresh snapshot, which is what `Decide` and
  `Tally` read.
- A request the dependencies turn away (401, 403 while only verified participants may trade) is one
  that was never submitted.
- The settlement log holds the set of trades that were summed, since its sums are functions of that
  set. The prices a settlement produces are any values of `DrawnPrices` (positive, as the minimum
  prices guarantee); the formulas are left to their own module.
- In Trading the only writer of a future day's price is a settlement. Manual prices are in Market.
- The parameters do not change during a run.
- `Tick` lets no transaction last longer than a third of a day: `askedAt` and `calledAt` may lag the
  clock by one. The shortest third is nine hours and PostgreSQL connections are cut long before. This
  is what rules out an order filled on a day that is neither settled nor the latest.
- Approval of a certification is one step (`Approve`); a PATCH of the status is an UPDATE that waits
  for the row lock (`SetStanding`).

**OrderTicket** has no state of its own: `EventInfo` and `Portfolio` are what the server answers in a state
of the ledger, `MarketPhase`, `BuyBudget`, `MaxOffered`, `QuantityShown`, `CanSubmit` and `Submitted` what
`OrderPanel.tsx`, `lib/market.ts` and `NumberField.tsx` make of it. The answer is of one moment: torn reads
and stale data are PageData's subject.

**Market** is the day's machinery: `run_due` and its steps, openings and settlements by hand, prices by hand
and the news.

| State | Code |
|---|---|
| `time` | three phases a day: before 09:00, until 18:00, after it |
| `mday`, `book`, `news`, `log`, `audit` | market_days, price_history, news_items, settlement_logs, the audit log of prices set by hand |
| `alive` | the process that runs the scheduler and serves the console |
| `job` | per scheduler, console and row button (`Removals`): the call under way, the lock it holds, its step, its day and its `now` |
| `tab`, `reading`, `seen` | the tab an open console shows, the news list the server is putting together for it, the list it shows (`NewsTab.tsx`) |

`Wake` is the scheduler's loop, `Proceed` the next transaction of a job: `TryStep` takes the batch lock or
finds nothing to do and moves on, `CommitStep` and `FailStep` end what holds it. `Click`, `Serve` (`Lock`,
`Commit` or `Reject`) are the forms of the console, `ClickRemove` the button of a row, which is never dead:
each click sends a request of its own, also beside a form that is saving. `ListNews`, `ReadPriced` and
`ShowNews` are the news list: `list_news` reads the items, then, latest day first and each in statements of its
own at READ COMMITTED, whether the price is decided (`is_priced`), and the answer is shown later. `Crash` and
`Restart` are the process. A price is known by where it came from (`Initial`, `Settled(d)`, `Entered(d)`), not by its amount, so that `PricesAccounted` can
say which of them a day must have. One stock stands for all, since every batch treats each of them alike.

**Certification** follows, transaction by transaction, `submit` (the page's `Poll`, `PickFile`, `RemoveFile`
and `Upload`, then `InsertUpload` and `CommitUpload` or `RollbackUpload`), `review` (`Pick`, `Close` and
`SendReview`, which reads without a lock, then `CommitReview`), the opening that pays (`StartOpening`,
`CommitOpening`), the purge of photos, after the event or forced before its end (`StartPurge`, `ListPhotos`,
`DeletePhoto` one by one, `CommitPurge`, or `PurgeDies`), and `Crash` of the server. The purge is a command, a
process of its own: it takes no lock, lists the directory after it has selected its rows, and so meets photos
that an upload under way has written.

| State | Code |
|---|---|
| `rows`, `nextId` | study_certifications and its sequence, which a rollback does not give back |
| `files` | the upload directory; the file is written inside the transaction and removed when it rolls back |
| `opened`, `opening` | days opened with rewards to pay; the opening under way and the rows it selected |
| `forced`, `purge` | a purge was forced; the purge under way: the rows it selected, the photos it has yet to delete |
| `strays` | photos a purge deleted without a row to say so: beneath an upload, or before it died (history) |
| `upload`, `page` | per open certification page: the POST under way; the form it shows and the chosen photo |
| `review`, `modal` | per review tab: the PATCH under way; the row in the dialog |
| `crashed` | the server or the purge died with a transaction open (once) |

The partial unique index is the guard of the insert: it waits for an uncommitted row of the same day and
refuses the second one. The order in which a commit and the file system change is the code's, so that a
crash in between leaves what it leaves.

**Enrolment** is becoming a participant and staying one. A request passes the captcha widget (stage
`token`), the wire (`sent`), what its route reads before it waits for a lock (`arrived`: the clock, the session,
the account), the first half of its transaction (`checked`: what it read and locked) and the second (`mailing`
or `answered`: what it committed). The locks are read off the stages: the advisory lock on codes is held by a
code request that is `checked`, the row lock on a code by any other. A request that finds the latest code
locked waits for that row (`WaitForRow`), also when a newer code is sent meanwhile, and looks at it as it is
once it has it. `CommitVerify` writes what differs from the row read on arrival, so an address that was
registered then is not written again.

| State | Code |
|---|---|
| `accounts`, `codes`, `sessions` | participants, email_verifications, auth_sessions |
| `inbox` | codes that reached their mailbox; `Reader` says who reads it |
| `form` | per person: the page, its fields, the countdown and spinner of `useCodeRequest`, the widget's token |
| `wire` | requests, with whether their page and their hook are still mounted |
| `now` | the clock that code requests and codes go by |
| `scenario`, `clicks`, `tokens` | what a behaviour starts with and its bounds on clicks, captcha tokens and clock ticks |

A password is the person who chose it and its version; a person may know an old one. `guesses`, `uses` and
`provenBy` record what really happened, for the properties; the code has only `attempts` and `used`.

**WebSession** is AuthContext over `client.ts` and `storage.ts`. Each request on the wire is handled by the
server at some later moment and answered at another; an answer may be lost after the server acted.
`stored` is localStorage, `memory` its fallback, `live` the server's sessions. The counter `session` of
AuthProvider is only compared, so a request carries the comparison (`current`). `page` knows which pages are
guarded (`Guarded`) and which ask again and again with the token (`Polling`: the market page for notifications,
`MarketPage.tsx:20-23`, the certification page for its status, `CertificationPage.tsx:76`); every other page asks
once, or when the person does something. A login goes back to the guarded page it was asked for on.

**PageData** is `useApi`, `useRefetchOnOpen` and what the four data pages ask for, poll, and refetch. `tick`
and `edits` are the server (days opened, changes of each participant's own rows), `entry` the hooks' last
results, `wire` their requests.

**MC modules** give the constants their values. **LedgerProofs, LedgerTheorems, TradingProofs, MarketProofs,
CertificationProofs, EnrolmentProofs, WebSessionProofs, PageDataProofs** hold the proofs.

## 4. Runs

| Run | Bounds | Shows | Distinct states |
|---|---|---|---|
| `ledger` | 1 participant, 1 stock, quantities 1 and 2, 3 orders, 2 days, 1 certification | the rules, the books, and the ticket in every state of them | about 850 000 |
| `trading` | 1 participant, 2 orders, 1 batch, 2 days, 1 certification | the locks keep them true between statements; no lock circle without QA tools | about 570 000 |
| `trading_batches` | 1 order, 2 batches, QA tools on | `Trading` implements `Ledger` | about 540 000 |
| `trading_live` | 1 order, 1 batch, quantities 0 (invalid), 1 and 3 (too dear), an unlisted code, no buy limit | every order and every batch ends | about 210 000 |
| `trading_qa` | 1 order, 1 batch, QA tools on | *violated*: the QA step breaks the lock order | |
| `market` | 1 process, 1 console that stays on its tab, 1 removal beside it, 3 days, late by 2 phases at most, 1 price by hand | prices and news are accounted for; nothing stays due | 710 332 |
| `news_carried` | as `market` | *violated*: a carried-over day shows news | |
| `certification` | 2 devices of 1 participant, 2 review tabs, 2 days and the time after them, 2 certifications, 1 crash, 1 forced purge on day 2, others after the event | a day counts and pays once; photos are accounted for | 3 919 940 |
| `enrolment` | 2 persons, 2 mailboxes, 1 student id, 7 scenarios of 2 to 5 clicks and 1 or 2 clock ticks, 1 attempt, 2 codes per window | codes, passwords, mailboxes and captcha tokens | 2 341 245 |
| `web_session` | 1 tab, 2 accounts, 2 logins, 2 requests on the wire | the tab shows whose token it sends; endings are noticed where the page polls | 183 162 |
| `page_data` | 2 participants, 2 instruments, 1 opening, 1 change each, 2 requests and one set of queries at a time | what is shown is right, never goes back, follows openings and one's own orders | 310 052 |
| `page_stale` | as `page_data` | *violated*: an instrument page keeps the old price | |

### Why the bounds are enough to meet the cases

*Ledger and Trading.* Two orders of one participant are what a lost update, a limit passed together and a
row queue need; a third adds sequences, which `ledger` has. Different participants share nothing but days
and batches, and the locks on those are met by one order and one batch. Two batches are what the advisory
lock is for. Two days have an opening with a reward (day 2 pays day 1's certification), a settlement that
takes effect, a carry-over (day 2 opened without it) and a last day that has no settlement. The cash (5 or
8, at prices 2 and 3) is small enough that INSUFFICIENT_CASH, the limit and the holdings check all refuse
some orders.

*Market.* Three days have a first one at the initial price, one in the middle that can be settled, skipped
or set by hand before and after its settlement, and a last one that has none. A job may be `MaxLag` = 2
phases behind the time it goes by, which carries a batch past the next opening or past midnight. One price
by hand (`MaxByHand`) meets every order of it against the batches; the prices of two days do not affect
each other. A console shows the batches or the news: one that is turned from one to the other is one closed and
another opened. With one removal slot a removal is under way beside each save, settlement and list.

*Certification.* Two devices and two certifications are what the index, the wait for an uncommitted row and the
rollback of the loser need; two administrators are what the unlocked review needs. In two days a photo is
submitted before and after the cutoff and approved before, during and after its opening. A purge may be forced
in one half day (`ForcedAt`: the morning of day 2), in which uploads of that day and late ones of the evening
before are under way, rows of both days are there to be selected, and the opening pays; after the event it may
run any number of times. No upload or review outlives the half day after the one it began in, and no request
of the half day before is still under way at an opening: requests end in seconds and half a day is nine hours.
Openings with nothing to pay are left out. One crash, of the server or of the purge, since after a restart
nothing of the crashed transactions is left but their files.

*Enrolment.* `MCScenarios` starts the stories that share pages: two registrations with codes, one that goes
on asking for codes, two without codes; the captcha with a second page to leave to; a reset against logins with
old and new passwords; two resets that wait for one code while a new one is sent; an account whose address is
somebody else's and is to be verified. One student id makes both persons compete for it, two mailboxes let each
person ask for codes of the other's. With one attempt the limit is reached by the first wrong code, and with two
codes per window by the third request, which the story with two ticks has; cooldown and validity (1 and 2 ticks)
run out in different ticks. The clicks bound what persons do; the widget, the mail, losses and waiting for locks
come on top.

*WebSession and PageData.* Two tokens are an old session and a new one; two requests of the old one may
overlap those of the new. In PageData a behaviour follows one of six sets of queries (`Views`), chosen so
that queries that influence each other (the event that triggers refetches, the order that does) are in one
set; a query outside the set changes nothing of those in it. Each set has the opening, a change of one's
own rows and another login.

Persons, orders, batches, devices and review tabs are interchangeable, so runs without liveness use
symmetry where they fit. Trading, Certification, Enrolment, WebSession, PageData stop at the end of the
event, after the last click or login, so deadlock is not checked there; in Market something is always
enabled, and it is checked.

### What the properties say

- `TypeOK` (each module): every variable keeps its type; in the ledger no cash, quantity or cost becomes
  negative.
- `BooksBalance`: cash = seed + rewards paid - purchases + sales, and each holding = bought - sold, at
  every commit.
- `DailyLimitKept`: on the current day, what was bought of an instrument is within the limit computed
  from what the participant owns *now*.
- `SettledTradesFrozen`: what a settlement summed is what its day traded, for ever after.
- `NoTradeOnceDisqualified`: no fill commits after the disqualification did.
- `AveragePriceHonest`: the average price shown lies between the cheapest and the dearest purchase, up
  to half a won per sale.
- `PublishedPricesFixed`: a published price never changes, also after a carry-over.
- `TicketHonest`: on fresh data the button of the ticket works exactly when the server would fill some
  order, and the quantities it offers are all that would be filled and no other, up to the server's own
  `QUANTITY_MAX` (10^9), which the ticket does not know.
- `RefinesLedger`: the committed rows move only by the ledger's steps.
- `NoLockCycle`: no group of transactions waits for one another.
- `OrdersEnd`, `BatchesEnd`: what was started ends.
- `PricesAccounted`: a published price is the one set by hand if there was one, before or after the
  settlement; else the settlement's if it ran; else the last published one, or the initial one; and the
  change shown with it is the change from the last published price.
- `NewsAsApplied`: news that moved a price is never rewritten. Nothing is listed as applied while it may still
  be rewritten, and an item read when its price was decided is listed as applied and is what is published, also
  on a list that is out of date or was read while batches and administrators wrote. (An item read before that
  is the torn read of section 5; `decided` in a row of the list is history that tells the two apart.)
- `NothingStaysDue`: see fairness.
- `OneRewardPerDay`: a day never has two certifications that count, nor two that were paid.
- `PhotosAccounted`: every file belongs to a row, or to an upload or a purge under way, unless a process died;
  a row that offers a photo has it, unless a purge deleted it beneath the upload (`strays`) or died half-way; and
  until the event is over every row's photo is there and offered, unless a purge was forced.
- `SessionsOfThisPassword`: a reset ends every login with an older password, also one whose password was
  checked before the reset and whose token is made after it.
- `CodesHold`: nobody gets more wrong guesses at a mail than allowed, though each is an error that would
  roll its own count back, and a code serves one request.
- `MailboxSpared`: cooldown and number of codes per mailbox hold whoever asks from whatever page.
- `MailboxProven`: an address verified by mail is read by who verified it; no two accounts share an
  address or a student id.
- `TokenSentOnce`: a captcha token goes out with one request.
- `ProfileMatchesToken`, `StatusFollowsToken`, `NewerSessionSurvives`: what the page shows of the session
  belongs to the token that requests go out with, and a 401 to an older token never ends the newer session.
- `EndedSessionNoticed`, `ProfileArrives`: a session ended elsewhere is noticed by a tab that stays on a page
  that polls; a missing profile comes.
- `NothingForeignShown`, `NeverOlder`, `OpeningSeenIsFollowed`, `OwnOrderShown`: no inbox of another
  participant and no history of another instrument is rendered; prices and portfolio never go back;
  an opening the page saw and an order it was told of are in what it shows.

### Fairness, and why the code justifies it

*Trading* (`FairSpec`). Each order's and each batch's next statement is strongly fair. A running session
is driven by its thread, and PostgreSQL queues the waiters of a row or advisory lock, so a lock that
comes free again and again is granted. Nothing else is fair: nobody has to submit an order, call a
batch, disqualify, approve, or let the clock run, and nothing has to fail.

*Market* (`FairSpec`). Weak fairness of `Restart` (the container is restarted), of the scheduler's `Wake`
and `Proceed` (its loop sleeps and runs, whatever the last call raised) and of a console's `Proceed` and
`Serve`. Neither success nor time is assumed: `NothingStaysDue` says that *if* from some moment the process
stays up and administrators leave the batches alone, and openings do not fail for ever, then an opening
that is due is made though the settlement before it may fail every time; and if no step fails for ever, no
settlement stays due.

*WebSession* (`FairSpec`). Strong fairness of the profile's retry timer and of `Poll`, that is, of the requests
of the two pages that poll with the token; a page in the foreground runs its timers, and a hidden tab, whose
polls pause, asks on its return (`useApi.ts`). No other page asks by itself: a tab left on the portfolio, the
ranking or an instrument need not find out that its session ended, and nothing is said of it. Weak fairness of handling and answering, and strong fairness of answers that
are not failures: connections fail any number of times, but not every time. Nobody has to log in or out.

## 5. Findings

1. `services/certification.py:230` says the lock order is fixed and the same as for orders. It is among
   participants, but `advance_price` (`services/market.py:393-396`, QA tools only) settles and opens in one
   transaction, so it locks participants while it holds the day FOR UPDATE. An order holds its participant
   and waits for that day FOR SHARE. `trading_qa` finds the circle; PostgreSQL's deadlock detector ends it
   by aborting one of the two, and the ledger is still implemented (`trading_batches` has the QA tools
   on), but one caller gets a 503. With the tools off there is no circle, for any number of transactions
   (`LocksNeverCycle`).
2. `src/frontend/src/pages/Instrument/InstrumentPage.tsx:54` says a page left open fetches price, chart and
   holdings again when a new day opens. `useRefetchOnOpen.ts:23` refetches only when it has seen the
   event before the opening. If the instruments were answered before 09:00 and the event after, the first
   state it sees is the opened one; instruments are not polled on this page, so it shows yesterday's price
   beside an open market (`page_stale`). Orders are filled at the true price.
3. `src/docs/spec/04-trading.md:28` says a carried-over day has no news. The rollback of a failed settlement
   takes back its random news; news written by hand beforehand stays, and is published and listed as
   applied with a price it never moved (`news_carried`, `services/news.py:69`).

Met while modelling, and not counted as findings because nothing in the repository says otherwise: a
certification can be paid and then rejected by a review that read it before (`services/certification.py:187`);
an approval for the day before the last, made after the last opening, is never paid though the page's
reward text names the next operating day (`CertificationPage.tsx:63-67`); two uploads of the same photo that
overlap are both left unflagged as duplicates (`services/certification.py:136`); an upload that a purge meets
between its file and its commit, a forced one or one after the event, commits a row that offers a photo which is
gone (`services/certification.py:277`; `strays`); the news list may show as applied an item that was rewritten or
removed between the read of the items and that of the settlement, though `src/docs/dev/api.md:344` says that
`applied` is already reflected in the price (`api/routes_admin.py:303`; the next fetch of the list is right); a
logout that is answered late ends the session of a login made in between (`AuthContext.tsx:149`); a verification
that is under way while another of the same account commits can leave the other's address, verified all the same
(`CommitVerify`, in the proof only: no scenario reaches it); the portfolio and the certificates are asked for
with no dependency on the participant, so that of a switch of accounts without leaving the page `useApi.ts:44-46`
would not be true (`NothingForeignShown` is of the inbox and the history, which have one); `ReviewModal`'s
success closes whichever dialog is open by then.

## 6. Proofs

All theorems hold for every value of the constants allowed by the named assumptions: any finite sets of
certifications and of listed instruments (the master list of the code is a table), any sets of participants,
orders, batches, positive prices, days, devices, administrators, persons, mailboxes, scenarios, tabs,
accounts and queries. The assumptions say no more than the code does: an initial price is positive,
`QUANTITY_MAX` is at least 1, one login is possible, and there is an instrument to look at. TLC evaluates
them in every run of the module. Every safety invariant and every action property that a run checks is
stated by a theorem; the three of WebSession that say whose session is shown carry one hypothesis more
(below).

### Trading and the ledger

`TradingProofs!Invariance` proves `Spec => []IndInv`. The type invariant alone is not inductive:
cash stays non-negative only because the value an order was judged by is still the committed value when
it commits. `IndInv` says what a transaction may rely on:

- `RowsLocked`: an order past its first lock holds the row, and what it read is still committed; the
  owner of every row lock is an order in the middle or a batch that pays.
- `DaysShared`, `DaysExclusive`: an order about to be filled shares its day, the day is open, and a
  settlement excludes all orders of the day.
- `OrdersJudged`, `RefusalsJustified`: a staged fill is the one the ledger would make now; a staged
  refusal names a reason that is true now.
- `BatchesAlone`, `CallsClear`, `SettlingValid`, `OpeningValid`: the batch past the advisory lock is
  alone, and the guards it checked on entry remain true until it commits.
- `TalliesComplete`, `WagesRight`: what it summed or credited is still right when it commits.
- `MarketMovesOn`, `IdsFresh`: orders are recent, order ids are new.
- `SettledTradesFrozen` itself.

TradingProofs has one lemma per action and group of conjuncts that the action can disturb, first for orders,
then for batches, and combines them. From the invariant follow:

- `TypeCorrect`, `SettlementsComplete`, `DisqualifiedDoNotTrade`;
- `LocksNeverCycle`: assume a non-empty set of transactions each waiting for another of the set. A batch
  that pays waits for an order holding a row, which waits for a day held by a settlement, which by
  `BatchesAlone` is the same batch, and without QA tools no batch both settles and pays;
- `TradingRefinesLedger`: the initial states agree, each commit satisfies the ledger's action by
  `OrdersJudged`, `RefusalsJustified`, `SettlingValid`, `OpeningValid` and `WagesRight`, and every other
  step leaves the ledger's variables alone. Trading sees the ledger through an instance; the lemmas
  `SameRules`, `SameVerdicts` and `SameEffects` show that the instance's operators are Trading's own.

LedgerTheorems proves for the atomic ledger `LedgerTypeCorrect`, `PublishedPricesAreFinal`,
`SettledTradesStayFrozen` and `AveragePricesAreHonest`. The last is an argument about rounding. `AverageOf`
says for one position that the cost kept is at least `low * held` and at most `high * held` for any bounds
`low`, `high` of the purchase prices, each up to half a won per sale: a purchase adds between `low * q` and
`high * q` (`BuyKeepsAverage`), a sale removes its share rounded half up, which is off by half a won at most
(`CostRemovedNear`, `SellKeepsAverage`), and a position sold out starts over. LedgerProofs has these lemmas
and the facts about the rules: a fill and a reward keep an account an account, a sale never removes more
cost than there is, the last opened day before a day exists.

### Books, limit and ticket

`BooksBalance` and `DailyLimitKept` speak of sums over sets of orders and instruments. The sums of the
modules are folds, and nothing in the library says what such a fold returns, so LedgerProofs starts with
that: over a finite set the function inside the fold exists (`AccumulatorExists`), two of them agree
(`AccumulatorsAgree`), and elements may be taken in any order (`AccumulatorTakesAny`). Hence `SumEmpty`,
`SumAdd`, `SumType`, and for orders `TotalAdd` and `QuantityAdd`: a new row adds its amount. The induction
over finite sets that this needs is `SubsetInduction`, stated of a set of subsets and reduced by `LeastNat`
to a least counterexample, because the library's induction theorems take an operator, which the provers
cannot instantiate.

`BooksSound` is the inductive invariant of both properties:

- finitely many orders, so that the sums above apply to them;
- the filled ones are of opened days, so that an opening starts from a day without purchases
  (`BoughtNothing`);
- `Balanced`: the account is the seed money, the rewards and the fills. A fill changes the account and the
  sums alike (`FillBalances`), another's fill neither (`OthersBalance`), a reward the cash and the number
  of paid certifications (`RewardBalances`);
- `WithinLimits`. The limit is a fraction of what is owned *now*, so the hazard is a purchase that
  lowers the very limit that earlier purchases were judged by. It does not: at the day's price a fill
  exchanges cash for shares of equal worth (`FillKeepsWorth`), and rewards are paid by an opening, before
  anything is bought on its day.

LedgerTheorems draws from it `BooksAlwaysBalance` and `DailyLimitIsKept` of the atomic ledger. In
TradingProofs the invariant is carried along the refinement: each step of Trading is a step of the ledger
or leaves the rows alone, and `SameSums` shows that the sums the ledger's instance computes are Trading's.
So the two theorems of the same names in TradingProofs say that no interleaving loses an update or passes
the limit.

`TicketsAreHonest` compares two computations. The page divides its budget by the price and takes the
smaller of what cash and limit allow; the server multiplies and compares. `SharesForBudget` is the division
lemma between them, which needs a positive price: `PricesStayPositive` proves that of every day.
`OfferedIsFilled` then says for each quantity that it is within the page's maximum exactly when the
server's verdict is to fill it.

### Market

`MarketInductive` proves `Spec => []IndInv` with `IndInv` = `TypeOK`, `JobsForDays` (a job
under way is for a day of the event, and holds the batch lock only for a day that is due), `NewsDecided` (a
written log has its settlement before it, and what a list has read as decided, while it is put together and
when it is shown, can no longer be written),
`RecordsDecided` (the record of every day, published or not, says where its price is from) and
`PricesAccounted`.
`PricesAccounted` alone is not inductive: an opening publishes a record that was made earlier, so the
record must be right before it is published. From it: `MarketTypeCorrect`, `MarketPricesAccounted`,
`MarketNewsAsApplied`.

### Certification

`CertificationInductive` adds to the types `IdsKept` (an uncommitted row has an id of its own, and the rows
reviewers, openings and the purge have read exist), `IndexKept` (the unique index over committed and
uncommitted rows), `UploadsTimely` (a day gets no row any more once the next one has begun), `OneWaits` (of
the rows of a past day, one at most can still be approved by a request of this half day), `ChosenAlone` (a
row paid or selected by an opening is the only one of its day that counts, and stays so) and `PhotosKept`
(`PhotosAccounted`; an uncommitted row has its photo unless a purge has deleted it, which happens only after the
event or when forced; and a purge that has listed the directory will delete every photo its rows still have). From it: `CertificationTypeCorrect`,
`DaysAreRewardedOnce`, `PhotosAreAccountedFor`.

### Enrolment

`EnrolmentInductive` says that what the first step of a transaction found is true until the second:

- `Checked` = `Read` and `Found`. What a request read on arrival refers to rows that exist and to a clock
  that has been (`Read`); of the address of an account to be verified, it is the one the request proves, or has
  become one that its verifier proved (`AddressRead`, kept by `AddressesProven`). A code request that holds the
  advisory lock still finds its mailbox spared, a request that holds a code's row still finds it unused, and its
  sender reads that mailbox (`Found`);
- `LockedOnce`: each lock has one holder, so no other request can spoil that; `ServerStep` is the lemma
  that a step of one request leaves what the others found alone;
- `FormsRefer`, `RequestsRefer`, `Readable`: a code in a field or a request was read in a mailbox of its
  person, or is wrong;
- `CodesCounted`: attempts counted are guesses made, and a code is used as often as it says;
- `TokensHeld`: a captcha token is in one form or one request, and one request of a person waits at most.

From it: `EnrolmentTypeCorrect`, `SessionsAreOfThisPassword`, `CodesAlwaysHold`, `MailboxesAreSpared`,
`MailboxesAreProven`, `TokensAreSentOnce`. The scenarios may be any that satisfy `ScenarioAssumption`: the
table at the start has no shared address or student id, and who is verified by mail reads that mail.

### Session of the page

`TypesHold` is proved for any number of tabs, logins and requests. Whose session is shown is proved of one
tab (`OneTab`): the tabs of a browser share the stored token and not the state, so a logout or login in
one of them changes the token of the other, whose page goes on showing the old name, and whose current
request, refused, then ends the newer session (`clear` in `AuthContext.tsx:82-85` compares its own tab's
counter only, and nothing listens to the storage of another tab). Without the hypothesis the three
properties would be false. The inductive invariant is `Session`:

- `AnswersSound`: a request that is still *current*, as AuthProvider's counter decides, was sent with the
  token that is stored now. This is what the counter is for: each change of the token in the tab makes
  every earlier request outdated (`OutdatedIsSound`), so that a late profile or a late 401 is compared with
  the newer session and dropped. A login is never answered by a 401 to its token, and a successful one
  carries a token;
- `TabSound`: the copy in memory outlives no stored token, `status` is anonymous exactly when there is no
  token, and a profile that is shown belongs to the owner of the token.

From it: `StatusIsTheTokens`, `ProfileIsTheTokens` and, as an action property, `NewerSessionIsKept`.

### Data of the page

PageDataProofs proves all five theorems from one invariant, `Inv`, with no hypothesis on the number of
participants, instruments, days, queries or requests:

- `Typed`, `PostsSound`, `OnePost`: a participant posts one thing at a time, and a post that waits for the
  server still has its edit to make;
- `EntriesSound` and `QueriesSound`: an answer, on the wire or kept, says whose it is in the dependencies
  it was asked with, is not newer than the server, and a request is *current* only with the dependencies of
  this render. `NothingForeignIsShown` follows: what the hook shows must have the current dependencies, and
  those of an inbox and a history name the participant and the instrument;
- `InOrder` (in `QueriesSound`) with `OneCurrent`: a current answer is not older than what is shown, and a
  query has one current request at most, so `NothingGoesBack` holds although answers overtake one another;
- `OpeningPursued` and `OrderPursued`: for every followed query of a page that saw the day open, and for
  the portfolio after an order was answered, the hook already has a late enough answer, or an error, or a
  current request that the server has yet to answer or has answered late enough. `Quiet` takes the last
  case away, which is what `OpeningIsFollowed` and `OwnOrderIsShown` say. Neither is inductive by itself:
  each speaks of the moment the answers are in, and the danger lies in those still on the wire.

TLC checked `Session` and `Inv` on the bounds of their runs before they were proved.

### Only model-checked

The liveness properties `OrdersEnd`, `BatchesEnd`, `NothingStaysDue`, `EndedSessionNoticed` and
`ProfileArrives`: fairness speaks of ENABLED, which is out of the prover's reach. The three runs that expect
a violation refute their properties, so there is nothing to prove of them.

## 7. Not modelled

- The amounts of the price formulas (`pricing.py`): powers and random draws of real numbers. Market knows a
  price by its origin, Ledger draws the amount from a set of positive prices. Ranking (`services/ranking.py`)
  is a pure function of a sorted list.
- That a late logout (`AuthContext.tsx:149`) should spare a newer session: the step is in WebSession and does
  what the code does, and no property forbids it, because nothing in the repository promises otherwise.
- `qa_next_step`: commits and then moves the clock. A clock that jumps makes every bound on lateness
  meaningless, and the endpoint exists on QA servers only. For the same reason the scaled and offset
  clocks, with which the scheduler's sleep (`api/app.py:71`) may end early, late or never: the fairness of `Wake`
  assumes that it ends.
- Notifications created, changed and removed against read marks; PageData has the page's side of read marks.
- Updates of event parameters: `params_lock` serialises them and the later form wins by design; the
  parameters are constants of the models. The switch for verified participants only is a dependency that
  turns a request away before it begins, and is not in OrderTicket.
- Connection pools, thread counts and pool timeouts, which belong to the libraries.
- A portfolio read while it changes: each statement of it sees its own moment; nothing stored is computed
  from it. The ranking page likewise.
- Two tabs of one browser share localStorage (`AuthContext.tsx:80-84`, `149`). WebSession's `Tabs` allows it
  and `TypesHold` covers it, but no run has two (the state of two tabs with two tokens is beyond the time of
  a run), and what the page shows is stated and proved of one tab.
- Deleting an account, changing a nickname, the administrator's own login, uploads' file formats and
  thumbnails.
- In the page: charts, indicators and layout; `useApi.setData`'s, `useObjectUrl`'s and `KeyGate`'s loading
  flags; formatting.
- Request size limits, logging, SMTP, the simulator, command line, configuration and migrations: input and
  output, or nothing concurrent in them.
