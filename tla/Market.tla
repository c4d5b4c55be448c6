------------------------------- MODULE Market -------------------------------
(***************************************************************************)
(* The two daily batches (services/market.py) and the news they apply      *)
(* (services/news.py), as processes that compete for the batch lock: the   *)
(* scheduler of api/app.py runs what is due, while administrators open,    *)
(* settle, set a price or write news by hand from the console of           *)
(* pages/Admin.  Trading has what a batch does to the ledger; here it is   *)
(* what becomes of the prices.  A price is known by where it came from,    *)
(* and one stock stands for all of them.                                   *)
(***************************************************************************)
EXTENDS Integers, FiniteSets

CONSTANTS
    Schedulers,     \* processes that run the scheduler
    Consoles,       \* open consoles of administrators
    Removals,       \* requests of the row buttons that may be under way at once
    LastDay,        \* operating days are 1..LastDay
    MaxLag,         \* bound: phases a process may be late for the time it goes by
    MaxByHand       \* bound: days that get a price by hand

ASSUME MarketAssumption ==
    /\ LastDay \in Nat \ {0}
    /\ MaxLag \in Nat /\ MaxByHand \in Nat
    /\ Schedulers \cap Consoles = {}
    /\ Removals \cap (Schedulers \cup Consoles) = {}

Days == 1 .. LastDay
Requests == Consoles \cup Removals
Workers == Schedulers \cup Requests

VARIABLES
    time,       \* three phases a day: before 09:00, until 18:00, after it
    mday,       \* [Days -> "none", "open" or "settled"]: market_days
    book,       \* [Days -> PriceRecord]: price_history
    news,       \* [Days -> the news of the day]: news_items
    log,        \* [Days -> the news its settlement applied, or "unsettled"]
    audit,      \* days the audit log has a price set by hand for
    alive,      \* the process of the scheduler and of the requests runs
    job,        \* [Workers -> what it does for each]
    tab,        \* [Consoles -> the tab it shows]
    reading,    \* [Consoles -> the news list the server puts together for it]
    seen        \* [Consoles -> the news list the console shows]

market == <<mday, book, news, log, audit>>
lists == <<tab, reading, seen>>
vars == <<time, market, alive, job, lists>>

Today(t) == t \div 3 + 1
Phase(t) == t % 3
Close(d) == 3 * (d - 1) + 2

\* The day's settlement moves a price only if there is a day to move it for.
HasRound(d) == d \in Days /\ d # LastDay

Written == {"manual", "rewritten"}      \* two texts an administrator may save
Items == {"none", "random"} \cup Written

\* What a console shows: batches and prices, or news.  One that is turned from
\* one to the other is one closed and another opened.
Tabs == {"batches", "news"}

NoPrice == [made |-> "none", for |-> 0]
Initial == [made |-> "initial", for |-> 0]
Settled(d) == [made |-> "settlement", for |-> d]
Entered(d) == [made |-> "manual", for |-> d]
Prices ==
    {NoPrice, Initial} \cup {Settled(d) : d \in Days} \cup {Entered(d) : d \in Days}

Sources == {"none", "initial", "carry_over", "settlement", "manual"}
PriceRecord == [price : Prices, base : Prices, source : Sources]
NoRecord == [price |-> NoPrice, base |-> NoPrice, source |-> "none"]

-----------------------------------------------------------------------------
(* The batches *)

Published == {d \in Days : mday[d] # "none"}
Earlier(d) == {e \in Published : e < d}
LastOf(S) == CHOOSE d \in S : \A e \in S : e <= d

\* The base of a change is the last price that was published.
PublishedPriceBefore(d) ==
    IF Earlier(d) = {} THEN NoPrice ELSE book[LastOf(Earlier(d))].price

CanOpen(d, now) ==
    /\ d <= Today(now)
    /\ mday[d] = "none"
    /\ \A e \in Published : e < d

\* Mutant: a record that is there already keeps the base it was written with.
AtOpeningKept(d) ==
    LET before == PublishedPriceBefore(d)
    IN  IF book[d] # NoRecord THEN book[d]
        ELSE IF before = NoPrice
             THEN [price |-> Initial, base |-> NoPrice, source |-> "initial"]
        ELSE [price |-> before, base |-> before, source |-> "carry_over"]

AtOpening(d) ==
    LET before == PublishedPriceBefore(d)
    IN  IF book[d] # NoRecord THEN [book[d] EXCEPT !.base = before]
        ELSE IF before = NoPrice
             THEN [price |-> Initial, base |-> NoPrice, source |-> "initial"]
        ELSE [price |-> before, base |-> before, source |-> "carry_over"]

OpenDay(d, now) ==
    /\ CanOpen(d, now)
    /\ mday' = [mday EXCEPT ![d] = "open"]
    /\ book' = [book EXCEPT ![d] = AtOpening(d)]
    /\ UNCHANGED <<news, log, audit>>

CanSettle(d, now) ==
    /\ HasRound(d)
    /\ mday[d] = "open"
    /\ now >= Close(d)
    /\ mday[d + 1] = "none"

\* Random news come only to a day without any, and only if a settlement follows
\* it; none may be drawn for this stock.
NewsFor(e) ==
    IF news[e] = "none" /\ HasRound(e) THEN {"none", "random"} ELSE {news[e]}

\* A price set by hand outlives the settlement.
AtSettlement(d) ==
    IF book[d + 1].source = "manual" THEN book[d + 1]
    ELSE [price |-> Settled(d + 1), base |-> book[d].price, source |-> "settlement"]

SettleDay(d, now) ==
    /\ CanSettle(d, now)
    /\ \E item \in NewsFor(d + 1) :
          /\ news' = [news EXCEPT ![d + 1] = item]
          /\ log' = [log EXCEPT ![d + 1] = item]
    /\ mday' = [mday EXCEPT ![d] = "settled"]
    /\ book' = [book EXCEPT ![d + 1] = AtSettlement(d)]
    /\ UNCHANGED audit

-----------------------------------------------------------------------------
(* What administrators write *)

\* Mutant: only an opened day counts as priced.
PricedWhenOpened(d) == mday[d] # "none"

\* The price of the day is decided: it is published, or the settlement before ran.
Priced(d) == mday[d] # "none" \/ (d > 1 /\ mday[d - 1] = "settled")

NewsAllowed(d) == HasRound(d) /\ d > 1 /\ ~Priced(d)

SetManualNews(d) ==
    /\ NewsAllowed(d)
    /\ \E item \in Written : news' = [news EXCEPT ![d] = item]
    /\ UNCHANGED <<mday, book, log, audit>>

DeleteNews(d) ==
    /\ news[d] # "none" /\ NewsAllowed(d)
    /\ news' = [news EXCEPT ![d] = "none"]
    /\ UNCHANGED <<mday, book, log, audit>>

SetManualPrice(d) ==
    /\ mday[d] = "none"
    /\ Cardinality(audit \cup {d}) <= MaxByHand
    /\ book' = [book EXCEPT ![d] =
                  [price |-> Entered(d), base |-> PublishedPriceBefore(d),
                   source |-> "manual"]]
    /\ audit' = audit \cup {d}
    /\ UNCHANGED <<mday, news, log>>

-----------------------------------------------------------------------------
(* Running what is due, step by step *)

Idle == [stage |-> "idle", what |-> "nothing", day |-> 0, step |-> 0, now |-> 0]

\* Every transaction on the market takes the batch lock and has it to its end.
Busy == \E w \in Workers : job[w].stage = "locked"

\* 1: the settlement of yesterday, 2: the opening, 3: the settlement of today.
DueDay(step, now) == IF step = 1 THEN Today(now) - 1 ELSE Today(now)

Due(step, now) ==
    LET d == DueDay(step, now)
    IN  CASE step = 1 -> /\ HasRound(d)
                         /\ mday[d] = "open" /\ mday[d + 1] = "none"
          [] step = 2 -> /\ d \in Days /\ Phase(now) >= 1
                         /\ mday[d] = "none" /\ \A e \in Published : e < d
          [] step = 3 -> /\ HasRound(d) /\ Phase(now) = 2
                         /\ mday[d] = "open"

RunDue(w) ==
    [stage |-> "asked", what |-> "run_due", day |-> 0, step |-> 1, now |-> time]

\* The scheduler wakes at its interval and right after 09:00 and 18:00.  What
\* time it was when it woke is what the whole run goes by.
Wake(s) ==
    /\ alive /\ job[s] = Idle
    /\ job' = [job EXCEPT ![s] = RunDue(s)]
    /\ UNCHANGED <<time, market, alive, lists>>

\* Mutant: the plan has no end.
NextStepBeyond(w) == [job[w] EXCEPT !.stage = "asked", !.step = @ + 1]

NextStep(w) ==
    IF job[w].step = 3 THEN Idle
    ELSE [job[w] EXCEPT !.stage = "asked", !.step = @ + 1]

\* The lock is tried, not waited for: whoever has it is doing the work.
TryStep(w) ==
    LET j == job[w]
    IN  /\ j.stage = "asked" /\ j.what = "run_due"
        /\ \/ Busy /\ job' = [job EXCEPT ![w] = Idle]
           \/ ~Busy /\ Due(j.step, j.now)
              /\ job' = [job EXCEPT ![w].stage = "locked"]
           \/ ~Busy /\ ~Due(j.step, j.now)
              /\ job' = [job EXCEPT ![w] = NextStep(w)]
        /\ UNCHANGED <<time, market, alive, lists>>

CommitStep(w) ==
    LET j == job[w]
        d == DueDay(j.step, j.now)
    IN  /\ j.stage = "locked" /\ j.what = "run_due"
        /\ \/ j.step = 2 /\ OpenDay(d, j.now)
           \/ j.step # 2 /\ SettleDay(d, j.now)
        /\ job' = [job EXCEPT ![w] = NextStep(w)]
        /\ UNCHANGED <<time, alive, lists>>

\* Mutant: any failure ends the run.
AfterFailureStops(w) == Idle

\* The settlement of yesterday may fail and the day opens all the same; after
\* any other failure the rest waits for the next run.
AfterFailure(w) == IF job[w].step = 1 THEN NextStep(w) ELSE Idle

FailStep(w) ==
    /\ job[w].stage = "locked" /\ job[w].what = "run_due"
    /\ job' = [job EXCEPT ![w] = AfterFailure(w)]
    /\ UNCHANGED <<time, market, alive, lists>>

-----------------------------------------------------------------------------
(* The console *)

\* A confirmed click on the batch tab.  While it runs the button is dead.
ClickBatch(c, what, d) ==
    /\ alive /\ tab[c] = "batches" /\ job[c] = Idle
    /\ job' = [job EXCEPT ![c] =
                 IF what = "run_due" THEN RunDue(c)
                 ELSE [stage |-> "asked", what |-> what, day |-> d, step |-> 0,
                       now |-> time]]
    /\ UNCHANGED <<time, market, alive, lists>>

\* A form or a row of the console sends its request; until the answer it is
\* saving and its button is dead.
Sent(what, d) == [stage |-> "asked", what |-> what, day |-> d, step |-> 0, now |-> 0]

SubmitPrice(c, d) ==
    /\ alive /\ tab[c] = "batches" /\ job[c] = Idle
    /\ job' = [job EXCEPT ![c] = Sent("price", d)]
    /\ UNCHANGED <<time, market, alive, lists>>

\* The form of the news tab offers the days and stocks there are.
SubmitNews(c, d) ==
    /\ alive /\ tab[c] = "news" /\ job[c] = Idle
    /\ job' = [job EXCEPT ![c] = Sent("news", d)]
    /\ UNCHANGED <<time, market, alive, lists>>

\* Only an item the list shows as waiting has the button.  Each click sends a
\* request of its own, also beside a form that is saving.
ClickRemove(r, c, d) ==
    /\ alive /\ job[r] = Idle
    /\ seen[c][d].item # "none" /\ ~seen[c][d].applied
    /\ job' = [job EXCEPT ![r] = Sent("remove", d)]
    /\ UNCHANGED <<time, market, alive, lists>>

\* `decided` is history: the price was decided when the items were read.
Unread == [item |-> "none", applied |-> FALSE, decided |-> FALSE]
Row == [item : Items, applied : BOOLEAN, decided : BOOLEAN]
NoList == [open |-> FALSE, rows |-> [d \in Days |-> Unread], left |-> {}]

\* The list is asked for when the tab opens and after a save or a removal; an
\* answer to an earlier request is dropped.  The items are read first ...
ListNews(c) ==
    /\ alive /\ tab[c] = "news"
    /\ reading' = [reading EXCEPT ![c] =
                     [open |-> TRUE,
                      rows |-> [d \in Days |-> [Unread EXCEPT !.item = news[d],
                                     !.decided = news[d] # "none" /\ Priced(d)]],
                      left |-> {d \in Days : news[d] # "none"}]]
    /\ UNCHANGED <<time, market, alive, job, tab, seen>>

\* ... then, latest day first, each in statements of its own, whether its price
\* is decided (what is decided stays so: reading two rows for it is like one) ...
ReadPriced(c) ==
    LET d == LastOf(reading[c].left)
    IN  /\ reading[c].left # {}
        /\ reading' = [reading EXCEPT ![c].rows[d].applied = Priced(d),
                                     ![c].left = @ \ {d}]
        /\ UNCHANGED <<time, market, alive, job, tab, seen>>

\* ... and the answer is shown at some later moment.
ShowNews(c) ==
    /\ reading[c].open /\ reading[c].left = {}
    /\ seen' = [seen EXCEPT ![c] = reading[c].rows]
    /\ reading' = [reading EXCEPT ![c] = NoList]
    /\ UNCHANGED <<time, market, alive, job, tab>>

\* Requests of the console wait for the lock.
Lock(c) ==
    /\ job[c].stage = "asked" /\ job[c].what # "run_due"
    /\ ~Busy
    /\ job' = [job EXCEPT ![c].stage = "locked"]
    /\ UNCHANGED <<time, market, alive, lists>>

Commit(c) ==
    LET j == job[c]
    IN  /\ j.stage = "locked"
        /\ \/ j.what = "open" /\ OpenDay(j.day, j.now)
           \/ j.what = "settle" /\ SettleDay(j.day, j.now)
           \/ j.what = "price" /\ SetManualPrice(j.day)
           \/ j.what = "news" /\ SetManualNews(j.day)
           \/ j.what = "remove" /\ DeleteNews(j.day)
        /\ job' = [job EXCEPT ![c] = Idle]
        /\ UNCHANGED <<time, alive, lists>>

\* A request the rules refuse, or one that breaks, is rolled back.
Reject(c) ==
    /\ job[c].stage = "locked" /\ job[c].what # "run_due"
    /\ job' = [job EXCEPT ![c] = Idle]
    /\ UNCHANGED <<time, market, alive, lists>>

\* The process dies with every transaction it has open, and is started again.
Crash ==
    /\ alive
    /\ alive' = FALSE
    /\ job' = [w \in Workers |-> Idle]
    /\ reading' = [c \in Consoles |-> NoList]
    /\ UNCHANGED <<time, market, tab, seen>>

Restart ==
    /\ ~alive
    /\ alive' = TRUE
    /\ UNCHANGED <<time, market, job, lists>>

Timed(j) == j.what \in {"run_due", "open", "settle"}

Tick ==
    /\ time < 3 * LastDay
    /\ \A w \in Workers : Timed(job[w]) => time - job[w].now < MaxLag
    /\ time' = time + 1
    /\ UNCHANGED <<market, alive, job, lists>>

Init ==
    /\ time = 0
    /\ mday = [d \in Days |-> "none"]
    /\ book = [d \in Days |-> NoRecord]
    /\ news = [d \in Days |-> "none"]
    /\ log = [d \in Days |-> "unsettled"]
    /\ audit = {}
    /\ alive = TRUE
    /\ job = [w \in Workers |-> Idle]
    /\ tab \in [Consoles -> Tabs]
    /\ reading = [c \in Consoles |-> NoList]
    /\ seen = [c \in Consoles |-> NoList.rows]

\* A request that is refused now and whatever happens before it has the lock is
\* not worth a step: nothing that these ask for ever becomes true again.
MayOpen(d) == CanOpen(d, time)
MaySettle(d) ==
    HasRound(d) /\ time >= Close(d) /\ mday[d] # "settled" /\ mday[d + 1] = "none"

Click(c) ==
    \/ ClickBatch(c, "run_due", 0)
    \/ \E d \in Days :
          \/ MayOpen(d) /\ ClickBatch(c, "open", d)
          \/ MaySettle(d) /\ ClickBatch(c, "settle", d)
          \/ mday[d] = "none" /\ Cardinality(audit \cup {d}) <= MaxByHand
             /\ SubmitPrice(c, d)
          \/ NewsAllowed(d) /\ SubmitNews(c, d)

\* What a worker's process does by itself once it has begun.
Proceed(w) == TryStep(w) \/ CommitStep(w) \/ FailStep(w)
Serve(c) == Lock(c) \/ Commit(c) \/ Reject(c)
AnswerList(c) == ListNews(c) \/ ReadPriced(c) \/ ShowNews(c)

Next ==
    \/ \E s \in Schedulers : Wake(s)
    \/ \E w \in Workers : Proceed(w)
    \/ \E c \in Consoles : Click(c) \/ AnswerList(c)
    \/ \E r \in Removals, c \in Consoles, d \in Days : ClickRemove(r, c, d)
    \/ \E r \in Requests : Serve(r)
    \/ Crash \/ Restart
    \/ Tick

Spec == Init /\ [][Next]_vars

\* A dead process is started again, the scheduler wakes again and again, and the
\* server ends what it has begun.
Fairness ==
    /\ WF_vars(Restart)
    /\ \A s \in Schedulers : WF_vars(Wake(s)) /\ WF_vars(Proceed(s))
    /\ \A c \in Consoles : WF_vars(Proceed(c))
    /\ \A r \in Requests : WF_vars(Serve(r))

FairSpec == Spec /\ Fairness
-----------------------------------------------------------------------------
\* The records, logs and jobs have their types.
TypeOK ==
    /\ time \in 0 .. 3 * LastDay
    /\ mday \in [Days -> {"none", "open", "settled"}]
    /\ book \in [Days -> PriceRecord]
    /\ news \in [Days -> Items]
    /\ log \in [Days -> Items \cup {"unsettled"}]
    /\ audit \subseteq Days /\ alive \in BOOLEAN
    /\ job \in [Workers ->
                  [stage : {"idle", "asked", "locked"},
                   what : {"nothing", "run_due", "open", "settle", "price", "news", "remove"},
                   day : 0 .. LastDay, step : 0 .. 3, now : 0 .. 3 * LastDay]]
    /\ tab \in [Consoles -> Tabs]
    /\ reading \in [Consoles -> [open : BOOLEAN, rows : [Days -> Row], left : SUBSET Days]]
    /\ seen \in [Consoles -> [Days -> Row]]

\* Every published price is accounted for: the one set by hand if there was one,
\* before the settlement or after it; else the one of the settlement if it ran;
\* else the last published price, or the initial one.  And the change shown with
\* it is the change from the last price that was published, in whatever order
\* prices were entered, days were settled or skipped, and batches failed.
PricesAccounted ==
    \A d \in Published :
        LET before == PublishedPriceBefore(d)
        IN  /\ book[d].base = before
            /\ book[d].price =
                  IF d \in audit THEN Entered(d)
                  ELSE IF log[d] # "unsettled" THEN Settled(d)
                  ELSE IF before # NoPrice THEN before
                  ELSE Initial

\* Once a settlement has moved a price by the news of a day, that news stays what
\* it was, whatever write was under way.  And a console is never behind that:
\* nothing is listed as applied while it may still be rewritten, and a list whose
\* items were read when the price of a day was decided goes on showing what is
\* published.  (One whose items were read before may list as applied an item that
\* was rewritten or removed in between: list_news reads in several statements.)
NewsAsApplied ==
    /\ \A d \in Days : log[d] # "unsettled" => news[d] = log[d]
    /\ \A c \in Consoles, d \in Days :
          LET row == seen[c][d]
          IN  /\ row.applied => Priced(d)
              /\ row.decided => row.applied /\ row.item = news[d]

\* On a day that was opened without the settlement before, with the price carried
\* over, there is no news.
CarriedDayHasNoNews ==
    \A d \in Published : log[d] = "unsettled" => news[d] = "none"

Quiet == alive /\ \A r \in Requests : job[r] = Idle
OpeningFails == \E w \in Workers : FailStep(w) /\ job[w].step = 2
StepFails == \E w \in Workers : FailStep(w)

\* Nothing stays due: if in the end the process stays up and administrators leave
\* the batches alone, and openings do not fail for ever, an opening that is due is
\* made, though the settlement before it may fail every time; and if settlements
\* do not fail for ever either, no settlement stays due.
NothingStaysDue ==
    /\ (<>[]Quiet /\ <>[][~OpeningFails]_vars) => []<>~Due(2, time)
    /\ (<>[]Quiet /\ <>[][~StepFails]_vars) => []<>~(Due(1, time) \/ Due(3, time))
=============================================================================
