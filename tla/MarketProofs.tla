---------------------------- MODULE MarketProofs ----------------------------
(* What the batches and the console keep, for any number of processes, days *)
(* and prices by hand: published prices stay accounted for, and news that    *)
(* moved a price stays what it was.                                          *)
EXTENDS Market, WellFoundedInduction, TLAPS

-----------------------------------------------------------------------------
(* Facts about days *)

Less == {ss \in Nat \X Nat : ss[1] < ss[2]}

\* Of a set of days that is not empty one is the last.
LEMMA LastExists ==
    ASSUME NEW S \in SUBSET Days, S # {}
    PROVE  LastOf(S) \in S
<1> DEFINE Gaps == {LastDay - d : d \in S}
<1>1. \A d \in S : d \in Nat /\ d <= LastDay
  BY MarketAssumption DEF Days
<1>2. Gaps \in SUBSET Nat /\ Gaps # {}
  BY <1>1, MarketAssumption
<1>3. IsWellFoundedOn(Less, Nat)
  BY NatLessThanWellFounded DEF OpToRel, Less
<1>4. PICK g \in Gaps : \A h \in Gaps : <<h, g>> \notin Less
  <2> HIDE DEF Gaps
  <2> QED BY <1>2, <1>3, WFMin
<1>5. PICK d \in S : g = LastDay - d
  BY <1>4
<1>6. \A e \in S : LastDay - d <= LastDay - e
  <2> SUFFICES ASSUME NEW e \in S PROVE LastDay - d <= LastDay - e
    OBVIOUS
  <2>1. <<LastDay - e, g>> \notin Less
    BY <1>4
  <2>2. LastDay - e \in Nat /\ LastDay - d \in Nat
    BY <1>1, MarketAssumption
  <2> QED BY <2>1, <2>2, <1>5 DEF Less
<1>7. \A e \in S : e <= d
  BY <1>1, <1>6, MarketAssumption
<1> QED BY <1>7 DEF LastOf

\* Today is a day of the event or a later one.
LEMMA TodayNat ==
    ASSUME NEW t \in Nat
    PROVE  Today(t) \in Nat \ {0}
BY DEF Today

\* The days a settlement moves a price from, and to.
LEMMA RoundDays ==
    ASSUME NEW d, HasRound(d)
    PROVE  d \in Days /\ d + 1 \in Days
BY MarketAssumption DEF HasRound, Days

-----------------------------------------------------------------------------
(* The inductive invariant *)

\* A job under way is for a day of the event: a request of the console carries
\* one, and the plan takes the lock only for a day that is due.
JobsForDays ==
    \A w \in Workers :
        /\ (job[w].stage # "idle" /\ job[w].what = "run_due") => job[w].step # 0
        /\ (job[w].stage # "idle" /\ job[w].what # "run_due") => job[w].day \in Days
        /\ (job[w].stage = "locked" /\ job[w].what = "run_due")
             => DueDay(job[w].step, job[w].now) \in Days

\* What a row of a list says of a day is decided: one marked as applied can no
\* longer be written, one read when that was so shows what is published.
RowSound(row, d) ==
    /\ row.applied => Priced(d)
    /\ row.decided => Priced(d) /\ row.item = news[d]

\* The rows of a list that is being put together: what is decided is marked as
\* applied once it was asked for.
ListSound(list) ==
    \A d \in Days : /\ RowSound(list.rows[d], d)
                    /\ list.rows[d].decided /\ d \notin list.left => list.rows[d].applied

\* A day whose log is written has its settlement before it, and lists are sound,
\* those that are shown and those under way.
NewsDecided ==
    /\ \A d \in Days :
          log[d] # "unsettled" => d > 1 /\ mday[d - 1] = "settled" /\ news[d] = log[d]
    /\ \A c \in Consoles : ListSound(reading[c])
    /\ \A c \in Consoles, d \in Days :
          RowSound(seen[c][d], d) /\ (seen[c][d].decided => seen[c][d].applied)

\* The record of every day, published or not, says where its price is from.
RecordsDecided ==
    \A d \in Days :
        IF d \in audit THEN book[d].source = "manual" /\ book[d].price = Entered(d)
        ELSE /\ book[d].source # "manual"
             /\ log[d] # "unsettled" => book[d].price = Settled(d)
             /\ (log[d] = "unsettled" /\ mday[d] = "none") => book[d] = NoRecord

IndInv == TypeOK /\ JobsForDays /\ NewsDecided /\ RecordsDecided /\ PricesAccounted

ListRecord == [open : BOOLEAN, rows : [Days -> Row], left : SUBSET Days]

\* No list is a list without rows.
LEMMA NoListType ==
    /\ NoList \in ListRecord /\ NoList.rows \in [Days -> Row] /\ ListSound(NoList)
    /\ \A d \in Days : ~NoList.rows[d].applied /\ ~NoList.rows[d].decided
<1>1. Unread \in Row /\ ~Unread.applied /\ ~Unread.decided
  BY DEF Unread, Row, Items
<1>2. NoList \in ListRecord /\ NoList.rows = [d \in Days |-> Unread]
  BY <1>1 DEF NoList, ListRecord
<1> QED BY <1>1, <1>2 DEF ListRecord, ListSound, RowSound

LEMMA IndInvInit == Init => IndInv
<1> SUFFICES ASSUME Init PROVE IndInv
  OBVIOUS
<1>1. TypeOK
  <2>1. NoRecord \in PriceRecord
    BY DEF NoRecord, PriceRecord, Prices, Sources
  <2>2. Idle \in [stage : {"idle", "asked", "locked"},
                  what : {"nothing", "run_due", "open", "settle", "price", "news", "remove"},
                  day : 0 .. LastDay, step : 0 .. 3, now : 0 .. 3 * LastDay]
    BY MarketAssumption DEF Idle
  <2>3. 0 \in 0 .. 3 * LastDay
    BY MarketAssumption
  <2>4. NoList \in ListRecord /\ NoList.rows \in [Days -> Row]
    BY NoListType
  <2> QED BY <2>1, <2>2, <2>3, <2>4 DEF Init, TypeOK, Items, ListRecord
<1>2. JobsForDays
  BY DEF Init, JobsForDays, Idle
<1>3. NewsDecided
  BY NoListType DEF Init, NewsDecided, RowSound
<1>4. RecordsDecided
  BY DEF Init, RecordsDecided, NoRecord
<1>5. PricesAccounted
  BY DEF Init, PricesAccounted, Published
<1> QED BY <1>1, <1>2, <1>3, <1>4, <1>5 DEF IndInv

-----------------------------------------------------------------------------
(* Every step is one on the market, one of a console's list, or neither *)

\* What a step may do to the market.
MarketStep ==
    \/ \E d \in Days, now \in Nat : OpenDay(d, now) \/ SettleDay(d, now)
    \/ \E d \in Days : SetManualPrice(d) \/ SetManualNews(d) \/ DeleteNews(d)

LEMMA StepKinds ==
    ASSUME IndInv, [Next]_vars
    PROVE  \/ MarketStep /\ UNCHANGED lists
           \/ UNCHANGED <<market, lists>>
           \/ Crash
           \/ \E c \in Consoles : AnswerList(c)
<1> USE DEF IndInv
<1>1. CASE \E s \in Schedulers : Wake(s)
  BY <1>1 DEF Wake
<1>2. ASSUME NEW w \in Workers, Proceed(w)
      PROVE  (MarketStep \/ UNCHANGED market) /\ UNCHANGED lists
  <2>1. CASE TryStep(w)
    BY <2>1 DEF TryStep
  <2>2. CASE CommitStep(w)
    <3> DEFINE d == DueDay(job[w].step, job[w].now)
    <3>1. d \in Days /\ job[w].now \in Nat
      BY <2>2, MarketAssumption DEF CommitStep, JobsForDays, TypeOK
    <3>2. OpenDay(d, job[w].now) \/ SettleDay(d, job[w].now)
      BY <2>2 DEF CommitStep
    <3> HIDE DEF d
    <3> QED BY <2>2, <3>1, <3>2 DEF CommitStep, MarketStep
  <2>3. CASE FailStep(w)
    BY <2>3 DEF FailStep
  <2> QED BY <1>2, <2>1, <2>2, <2>3 DEF Proceed
<1>3. ASSUME NEW c \in Consoles, Click(c) PROVE UNCHANGED <<market, lists>>
  BY <1>3 DEF Click, ClickBatch, SubmitPrice, SubmitNews
<1>7. CASE \E r \in Removals, c \in Consoles, d \in Days : ClickRemove(r, c, d)
  BY <1>7 DEF ClickRemove
<1>4. ASSUME NEW c \in Requests, Serve(c)
      PROVE  (MarketStep \/ UNCHANGED market) /\ UNCHANGED lists
  <2>1. CASE Lock(c)
    BY <2>1 DEF Lock
  <2>2. CASE Commit(c)
    <3>1. job[c].day \in Days /\ job[c].now \in Nat
      BY <2>2, MarketAssumption DEF Commit, JobsForDays, TypeOK, Workers
    <3> QED BY <2>2, <3>1 DEF Commit, MarketStep
  <2>3. CASE Reject(c)
    BY <2>3 DEF Reject
  <2> QED BY <1>4, <2>1, <2>2, <2>3 DEF Serve
<1>5. CASE Restart \/ Tick
  BY <1>5 DEF Restart, Tick
<1>6. CASE UNCHANGED vars
  BY <1>6 DEF vars, lists
<1> QED
  BY <1>1, <1>2, <1>3, <1>4, <1>5, <1>6, <1>7 DEF Next

-----------------------------------------------------------------------------
(* The jobs *)

JobRecord ==
    [stage : {"idle", "asked", "locked"},
     what : {"nothing", "run_due", "open", "settle", "price", "news", "remove"},
     day : 0 .. LastDay, step : 0 .. 3, now : 0 .. 3 * LastDay]

\* What JobsForDays asks of one job.
ForDays(j) ==
    /\ (j.stage # "idle" /\ j.what = "run_due") => j.step # 0
    /\ (j.stage # "idle" /\ j.what # "run_due") => j.day \in Days
    /\ (j.stage = "locked" /\ j.what = "run_due") => DueDay(j.step, j.now) \in Days

GoodJob(j) == j \in JobRecord /\ ForDays(j)

\* A worker's next job is one again.
LEMMA JobStep ==
    ASSUME IndInv, [Next]_vars
    PROVE  job' \in [Workers -> JobRecord] /\ \A w \in Workers : ForDays(job'[w])
<1> USE DEF IndInv
<1>0. /\ job \in [Workers -> JobRecord] /\ \A w \in Workers : GoodJob(job[w])
      /\ time \in 0 .. 3 * LastDay
  BY DEF TypeOK, JobsForDays, ForDays, GoodJob, JobRecord
<1>a. SUFFICES \/ UNCHANGED job
               \/ \E w \in Workers, j \in JobRecord :
                     ForDays(j) /\ job' = [job EXCEPT ![w] = j]
               \/ job' = [w \in Workers |-> Idle]
  <2>1. GoodJob(Idle)
    BY MarketAssumption DEF GoodJob, JobRecord, ForDays, Idle
  <2> QED BY <1>0, <2>1 DEF GoodJob
<1>i. GoodJob(Idle)
  BY MarketAssumption DEF GoodJob, JobRecord, ForDays, Idle
<1>r. ASSUME NEW w \in Workers PROVE GoodJob(RunDue(w))
  BY <1>0, MarketAssumption DEF RunDue, GoodJob, JobRecord, ForDays
<1>n. ASSUME NEW w \in Workers, job[w].stage # "idle", job[w].what = "run_due"
      PROVE  GoodJob(NextStep(w))
  <2>1. CASE job[w].step = 3
    BY <2>1, <1>i DEF NextStep
  <2>2. CASE job[w].step # 3
    <3>1. job[w].step + 1 \in 0 .. 3
      BY <1>0, <2>2 DEF JobRecord
    <3>2. NextStep(w).step # 0
      BY <1>0, <2>2, <3>1 DEF NextStep, JobRecord
    <3>3. NextStep(w).stage = "asked" /\ NextStep(w).what = "run_due"
      BY <1>0, <1>n, <2>2 DEF NextStep, JobRecord
    <3>4. NextStep(w) \in JobRecord
      BY <1>0, <1>n, <2>2, <3>1 DEF NextStep, JobRecord
    <3> QED BY <3>2, <3>3, <3>4 DEF GoodJob, ForDays
  <2> QED BY <2>1, <2>2
<1>1. ASSUME NEW s \in Schedulers, Wake(s)
      PROVE  \E w \in Workers, j \in JobRecord : ForDays(j) /\ job' = [job EXCEPT ![w] = j]
  <2>1. s \in Workers /\ job' = [job EXCEPT ![s] = RunDue(s)]
    BY <1>1 DEF Wake, Workers
  <2> QED BY <2>1, <1>r DEF GoodJob
<1>2. ASSUME NEW w \in Workers, Proceed(w)
      PROVE  \E j \in JobRecord : ForDays(j) /\ job' = [job EXCEPT ![w] = j]
  <2>1. CASE TryStep(w)
    <3>1. job[w].stage = "asked" /\ job[w].what = "run_due"
      BY <2>1 DEF TryStep
    <3>2. CASE job' = [job EXCEPT ![w] = Idle]
      BY <3>2, <1>i DEF GoodJob
    <3>3. CASE Due(job[w].step, job[w].now) /\ job' = [job EXCEPT ![w].stage = "locked"]
      <4> DEFINE j == [job[w] EXCEPT !.stage = "locked"]
      <4>1. job[w].step = 1 \/ job[w].step = 2 \/ job[w].step = 3 \/ job[w].step = 0
        BY <1>0 DEF JobRecord
      <4>2. job[w].step # 0
        BY <1>0, <3>1 DEF GoodJob, ForDays
      <4>3. DueDay(job[w].step, job[w].now) \in Days
        BY <3>3, <4>1, <4>2 DEF Due, HasRound
      <4>4. GoodJob(j)
        BY <1>0, <3>1, <4>3 DEF GoodJob, JobRecord, ForDays
      <4>5. job' = [job EXCEPT ![w] = j]
        BY <3>3
      <4> QED BY <4>4, <4>5 DEF GoodJob
    <3>4. CASE job' = [job EXCEPT ![w] = NextStep(w)]
      BY <3>1, <3>4, <1>n DEF GoodJob
    <3> QED BY <2>1, <3>2, <3>3, <3>4 DEF TryStep
  <2>2. CASE CommitStep(w)
    BY <2>2, <1>n DEF CommitStep, GoodJob
  <2>3. CASE FailStep(w)
    BY <2>3, <1>n, <1>i DEF FailStep, AfterFailure, GoodJob
  <2> QED BY <1>2, <2>1, <2>2, <2>3 DEF Proceed
<1>3. ASSUME NEW c \in Consoles, Click(c)
      PROVE  \E w \in Workers, j \in JobRecord : ForDays(j) /\ job' = [job EXCEPT ![w] = j]
  <2>0. c \in Workers
    BY DEF Workers, Requests
  <2>d. \A d \in Days : d \in 0 .. LastDay
    BY MarketAssumption DEF Days
  <2>1. CASE ClickBatch(c, "run_due", 0)
    BY <2>0, <2>1, <1>r DEF ClickBatch, GoodJob
  <2>2. ASSUME NEW d \in Days, ClickBatch(c, "open", d) \/ ClickBatch(c, "settle", d)
        PROVE  \E j \in JobRecord : ForDays(j) /\ job' = [job EXCEPT ![c] = j]
    <3> DEFINE J(what) == [stage |-> "asked", what |-> what, day |-> d, step |-> 0, now |-> time]
    <3>1. GoodJob(J("open")) /\ GoodJob(J("settle"))
      BY <1>0, <2>d DEF GoodJob, JobRecord, ForDays
    <3>2. job' = [job EXCEPT ![c] = J("open")] \/ job' = [job EXCEPT ![c] = J("settle")]
      BY <2>2 DEF ClickBatch
    <3> HIDE DEF J
    <3> QED BY <3>1, <3>2 DEF GoodJob
  <2>3. ASSUME NEW d \in Days, SubmitPrice(c, d) \/ SubmitNews(c, d)
        PROVE  \E j \in JobRecord : ForDays(j) /\ job' = [job EXCEPT ![c] = j]
    <3>1. GoodJob(Sent("price", d)) /\ GoodJob(Sent("news", d))
      BY <2>d, MarketAssumption DEF GoodJob, JobRecord, ForDays, Sent
    <3>2. \/ job' = [job EXCEPT ![c] = Sent("price", d)]
          \/ job' = [job EXCEPT ![c] = Sent("news", d)]
      BY <2>3 DEF SubmitPrice, SubmitNews
    <3> QED BY <3>1, <3>2 DEF GoodJob
  <2> QED BY <1>3, <2>0, <2>1, <2>2, <2>3 DEF Click
<1>8. ASSUME NEW r \in Removals, NEW c \in Consoles, NEW d \in Days, ClickRemove(r, c, d)
      PROVE  \E w \in Workers, j \in JobRecord : ForDays(j) /\ job' = [job EXCEPT ![w] = j]
  <2>1. d \in 0 .. LastDay /\ r \in Workers
    BY MarketAssumption DEF Days, Workers, Requests
  <2>2. GoodJob(Sent("remove", d))
    BY <2>1, MarketAssumption DEF GoodJob, JobRecord, ForDays, Sent
  <2> QED BY <1>8, <2>1, <2>2 DEF ClickRemove, GoodJob
<1>4. ASSUME NEW c \in Requests, Serve(c)
      PROVE  \E w \in Workers, j \in JobRecord : ForDays(j) /\ job' = [job EXCEPT ![w] = j]
  <2>0. c \in Workers
    BY DEF Workers
  <2>1. CASE Lock(c)
    <3> DEFINE j == [job[c] EXCEPT !.stage = "locked"]
    <3>1. GoodJob(j)
      BY <1>0, <2>0, <2>1 DEF Lock, GoodJob, JobRecord, ForDays
    <3>2. job' = [job EXCEPT ![c] = j]
      BY <2>1 DEF Lock
    <3> QED BY <2>0, <3>1, <3>2 DEF GoodJob
  <2>2. CASE Commit(c) \/ Reject(c)
    BY <2>0, <2>2, <1>i DEF Commit, Reject, GoodJob
  <2> QED BY <1>4, <2>1, <2>2 DEF Serve
<1>5. ASSUME NEW c \in Consoles, AnswerList(c) PROVE UNCHANGED job
  BY <1>5 DEF AnswerList, ListNews, ReadPriced, ShowNews
<1>6. CASE Crash
  BY <1>6 DEF Crash
<1>7. CASE Restart \/ Tick \/ UNCHANGED vars
  BY <1>7 DEF Restart, Tick, vars
<1> QED
  BY <1>1, <1>2, <1>3, <1>4, <1>5, <1>6, <1>7, <1>8 DEF Next

-----------------------------------------------------------------------------
(* The types *)

LEMMA RecordTypes ==
    ASSUME IndInv, NEW d \in Days
    PROVE  /\ PublishedPriceBefore(d) \in Prices
           /\ AtOpening(d) \in PriceRecord
           /\ d + 1 \in Days => AtSettlement(d) \in PriceRecord
<1>0. book \in [Days -> PriceRecord]
  BY DEF IndInv, TypeOK
<1>1. PublishedPriceBefore(d) \in Prices
  <2>1. CASE Earlier(d) = {}
    BY <2>1 DEF PublishedPriceBefore, Prices
  <2>2. CASE Earlier(d) # {}
    <3>1. LastOf(Earlier(d)) \in Days
      BY <2>2, LastExists DEF Earlier, Published
    <3> QED BY <1>0, <2>2, <3>1 DEF PublishedPriceBefore, PriceRecord
  <2> QED BY <2>1, <2>2
<1>2. AtOpening(d) \in PriceRecord
  BY <1>0, <1>1 DEF AtOpening, PriceRecord, Sources, Prices
<1>3. ASSUME d + 1 \in Days PROVE AtSettlement(d) \in PriceRecord
  <2>1. Settled(d + 1) \in Prices
    BY <1>3 DEF Prices
  <2> QED BY <1>0, <1>3, <2>1 DEF AtSettlement, PriceRecord, Sources
<1> QED BY <1>1, <1>2, <1>3

\* A step on the market keeps the types of what it writes.
LEMMA MarketStepType ==
    ASSUME IndInv, MarketStep
    PROVE  /\ mday' \in [Days -> {"none", "open", "settled"}]
           /\ book' \in [Days -> PriceRecord]
           /\ news' \in [Days -> Items]
           /\ log' \in [Days -> Items \cup {"unsettled"}]
           /\ audit' \subseteq Days
<1>0. /\ mday \in [Days -> {"none", "open", "settled"}]
      /\ book \in [Days -> PriceRecord]
      /\ news \in [Days -> Items]
      /\ log \in [Days -> Items \cup {"unsettled"}]
      /\ audit \subseteq Days
  BY DEF IndInv, TypeOK
<1>1. ASSUME NEW d \in Days, NEW now \in Nat, OpenDay(d, now)
      PROVE  mday' \in [Days -> {"none", "open", "settled"}] /\ book' \in [Days -> PriceRecord]
  <2>1. AtOpening(d) \in PriceRecord
    BY RecordTypes
  <2> QED BY <1>0, <1>1, <2>1 DEF OpenDay
<1>2. ASSUME NEW d \in Days, NEW now \in Nat, SettleDay(d, now)
      PROVE  /\ mday' \in [Days -> {"none", "open", "settled"}]
             /\ book' \in [Days -> PriceRecord]
             /\ news' \in [Days -> Items]
             /\ log' \in [Days -> Items \cup {"unsettled"}]
  <2>1. d + 1 \in Days
    BY <1>2, RoundDays DEF SettleDay, CanSettle
  <2>2. AtSettlement(d) \in PriceRecord
    BY <2>1, RecordTypes
  <2>3. NewsFor(d + 1) \subseteq Items
    BY <1>0, <2>1 DEF NewsFor, Items
  <2> QED BY <1>0, <1>2, <2>1, <2>2, <2>3 DEF SettleDay
<1>3. ASSUME NEW d \in Days, SetManualPrice(d)
      PROVE  book' \in [Days -> PriceRecord] /\ audit' \subseteq Days
  <2>1. [price |-> Entered(d), base |-> PublishedPriceBefore(d), source |-> "manual"]
            \in PriceRecord
    BY RecordTypes DEF PriceRecord, Prices, Sources
  <2> QED BY <1>0, <1>3, <2>1 DEF SetManualPrice
<1>4. ASSUME NEW d \in Days, SetManualNews(d) \/ DeleteNews(d)
      PROVE  news' \in [Days -> Items]
  BY <1>0, <1>4 DEF SetManualNews, DeleteNews, Items
<1> QED
  BY <1>0, <1>1, <1>2, <1>3, <1>4
  DEF MarketStep, OpenDay, SettleDay, SetManualPrice, SetManualNews, DeleteNews

\* Lists are no part of the market.
LEMMA ListsApart ==
    ASSUME Crash \/ \E c \in Consoles : AnswerList(c)
    PROVE  UNCHANGED <<market, tab>>
BY DEF Crash, AnswerList, ListNews, ReadPriced, ShowNews

\* The last of the days that are left to ask about is one of them.
LEMMA LeftDay ==
    ASSUME IndInv, NEW c \in Consoles, reading[c].left # {}
    PROVE  LastOf(reading[c].left) \in reading[c].left /\ reading[c].left \subseteq Days
<1>1. reading[c].left \in SUBSET Days
  BY DEF IndInv, TypeOK
<1> QED BY <1>1, LastExists

\* What a list holds after each of its steps.
LEMMA ListSteps ==
    ASSUME IndInv, NEW c \in Consoles
    PROVE  /\ ListNews(c) =>
                /\ reading'[c] \in ListRecord
                /\ \A d \in Days :
                      /\ reading'[c].rows[d].item = news[d]
                      /\ ~reading'[c].rows[d].applied
                      /\ reading'[c].rows[d].decided <=> news[d] # "none" /\ Priced(d)
                      /\ d \in reading'[c].left <=> news[d] # "none"
           /\ ReadPriced(c) =>
                /\ reading'[c] \in ListRecord
                /\ LET e == LastOf(reading[c].left)
                   IN  /\ reading'[c].left = reading[c].left \ {e}
                       /\ reading'[c].rows[e].item = reading[c].rows[e].item
                       /\ reading'[c].rows[e].decided = reading[c].rows[e].decided
                       /\ reading'[c].rows[e].applied = Priced(e)
                       /\ \A d \in Days \ {e} : reading'[c].rows[d] = reading[c].rows[d]
<1>0. /\ reading \in [Consoles -> ListRecord] /\ news \in [Days -> Items]
      /\ reading[c] \in ListRecord
  BY DEF IndInv, TypeOK, ListRecord
<1>1. ASSUME ListNews(c)
      PROVE  /\ reading'[c] \in ListRecord
             /\ \A d \in Days :
                   /\ reading'[c].rows[d].item = news[d]
                   /\ ~reading'[c].rows[d].applied
                   /\ reading'[c].rows[d].decided <=> news[d] # "none" /\ Priced(d)
                   /\ d \in reading'[c].left <=> news[d] # "none"
  <2> DEFINE row(d) == [Unread EXCEPT !.item = news[d],
                                      !.decided = news[d] # "none" /\ Priced(d)]
  <2>1. reading'[c] = [open |-> TRUE, rows |-> [d \in Days |-> row(d)],
                       left |-> {d \in Days : news[d] # "none"}]
    BY <1>0, <1>1 DEF ListNews
  <2>2. ASSUME NEW d \in Days
        PROVE  /\ row(d) \in Row /\ row(d).item = news[d] /\ ~row(d).applied
               /\ row(d).decided <=> news[d] # "none" /\ Priced(d)
    BY <1>0 DEF Unread, Row, Priced
  <2> HIDE DEF row
  <2> QED BY <2>1, <2>2 DEF ListRecord
<1>2. ASSUME ReadPriced(c)
      PROVE  /\ reading'[c] \in ListRecord
             /\ LET e == LastOf(reading[c].left)
                IN  /\ reading'[c].left = reading[c].left \ {e}
                    /\ reading'[c].rows[e].item = reading[c].rows[e].item
                    /\ reading'[c].rows[e].decided = reading[c].rows[e].decided
                    /\ reading'[c].rows[e].applied = Priced(e)
                    /\ \A d \in Days \ {e} : reading'[c].rows[d] = reading[c].rows[d]
  <2> DEFINE e == LastOf(reading[c].left)
  <2> DEFINE old == reading[c].rows[e]
  <2>1. e \in Days /\ reading[c].rows \in [Days -> Row] /\ reading[c].left \in SUBSET Days
    BY <1>0, <1>2, LeftDay DEF ReadPriced, ListRecord
  <2>2. old \in Row
    BY <2>1
  <2>3. reading'[c] = [reading[c] EXCEPT !.rows[e].applied = Priced(e), !.left = @ \ {e}]
    BY <1>0, <1>2 DEF ReadPriced
  <2>4. Priced(e) \in BOOLEAN
    BY DEF Priced
  <2> HIDE DEF e
  <2>5. [old EXCEPT !.applied = Priced(e)] \in Row
    BY <2>2, <2>4 DEF Row
  <2>6. reading'[c].rows = [reading[c].rows EXCEPT ![e] = [old EXCEPT !.applied = Priced(e)]]
    BY <1>0, <2>3 DEF ListRecord
  <2>7. reading'[c].left = reading[c].left \ {e} /\ reading'[c].open = reading[c].open
    BY <1>0, <2>3 DEF ListRecord
  <2>8. reading'[c] = [open |-> reading[c].open,
                       rows |-> [reading[c].rows EXCEPT ![e] = [old EXCEPT !.applied = Priced(e)]],
                       left |-> reading[c].left \ {e}]
    BY <1>0, <2>3 DEF ListRecord
  <2>9. reading'[c] \in ListRecord
    BY <1>0, <2>1, <2>5, <2>8 DEF ListRecord
  <2> QED BY <2>1, <2>2, <2>4, <2>6, <2>7, <2>9 DEF e, Row
<1> QED BY <1>1, <1>2

\* Every step keeps the types of the lists.
LEMMA ListType ==
    ASSUME IndInv, [Next]_vars
    PROVE  /\ tab' \in [Consoles -> Tabs] /\ reading' \in [Consoles -> ListRecord]
           /\ seen' \in [Consoles -> [Days -> Row]]
<1>0. /\ tab \in [Consoles -> Tabs] /\ reading \in [Consoles -> ListRecord]
      /\ seen \in [Consoles -> [Days -> Row]]
  BY DEF IndInv, TypeOK, ListRecord
<1>1. CASE UNCHANGED lists
  BY <1>0, <1>1 DEF lists
<1>2. CASE Crash
  BY <1>0, <1>2, NoListType DEF Crash
<1>3. ASSUME NEW c \in Consoles, ListNews(c) \/ ReadPriced(c)
      PROVE  reading' \in [Consoles -> ListRecord] /\ UNCHANGED <<tab, seen>>
  <2>1. reading'[c] \in ListRecord
    BY <1>3, ListSteps
  <2>2. PICK x : reading' = [reading EXCEPT ![c] = x]
    BY <1>3 DEF ListNews, ReadPriced
  <2>3. UNCHANGED <<tab, seen>>
    BY <1>3 DEF ListNews, ReadPriced
  <2> QED BY <1>0, <2>1, <2>2, <2>3
<1>4. ASSUME NEW c \in Consoles, ShowNews(c)
      PROVE  /\ reading' \in [Consoles -> ListRecord] /\ seen' \in [Consoles -> [Days -> Row]]
             /\ UNCHANGED tab
  <2>1. reading[c].rows \in [Days -> Row]
    BY <1>0 DEF ListRecord
  <2> QED BY <1>0, <1>4, <2>1, NoListType DEF ShowNews
<1> QED BY <1>0, <1>1, <1>2, <1>3, <1>4, StepKinds DEF AnswerList

\* Every step keeps the types.
LEMMA TypeStep ==
    ASSUME IndInv, [Next]_vars
    PROVE  TypeOK'
<1>0. TypeOK
  BY DEF IndInv
<1>1. job' \in [Workers -> JobRecord]
  BY JobStep
<1>2. time' \in 0 .. 3 * LastDay /\ alive' \in BOOLEAN
  <2>1. CASE Tick
    BY <1>0, <2>1, MarketAssumption DEF Tick, TypeOK
  <2>2. CASE UNCHANGED time
    <3>1. alive' \in BOOLEAN
      BY <1>0, <2>2
      DEF Next, vars, TypeOK, Wake, Proceed, TryStep, CommitStep, FailStep, Click,
          ClickBatch, SubmitPrice, SubmitNews, ClickRemove, Serve, Lock, Commit, Reject,
          AnswerList, ListNews, ReadPriced, ShowNews, Crash, Restart, Tick
    <3> QED BY <1>0, <2>2, <3>1 DEF TypeOK
  <2>3. Tick \/ UNCHANGED time
    BY DEF Next, vars, Wake, Proceed, TryStep, CommitStep, FailStep, Click,
           ClickBatch, SubmitPrice, SubmitNews, ClickRemove, Serve, Lock, Commit, Reject,
           AnswerList, ListNews, ReadPriced, ShowNews, Crash, Restart
  <2> QED BY <2>1, <2>2, <2>3
<1>3. /\ mday' \in [Days -> {"none", "open", "settled"}]
      /\ book' \in [Days -> PriceRecord]
      /\ news' \in [Days -> Items]
      /\ log' \in [Days -> Items \cup {"unsettled"}]
      /\ audit' \subseteq Days
  <2>1. CASE MarketStep
    BY <2>1, MarketStepType
  <2>2. CASE UNCHANGED market
    BY <1>0, <2>2 DEF market, TypeOK
  <2>3. UNCHANGED market \/ MarketStep
    BY StepKinds, ListsApart
  <2> QED BY <2>1, <2>2, <2>3
<1>4. /\ tab' \in [Consoles -> Tabs] /\ reading' \in [Consoles -> ListRecord]
      /\ seen' \in [Consoles -> [Days -> Row]]
  BY ListType
<1> QED BY <1>1, <1>2, <1>3, <1>4 DEF TypeOK, JobRecord, ListRecord

\* ... and every job that is under way for a day of the event.
LEMMA JobsStep ==
    ASSUME IndInv, [Next]_vars
    PROVE  JobsForDays'
BY JobStep DEF JobsForDays, ForDays, DueDay

-----------------------------------------------------------------------------
(* News *)

\* A decided day stays decided: what is published stays so, and so does what
\* is settled.
LEMMA DecidedStays ==
    ASSUME IndInv, MarketStep \/ UNCHANGED market
    PROVE  /\ \A d \in Days : mday[d] # "none" => mday'[d] # "none"
           /\ \A d \in Days : mday[d] = "settled" => mday'[d] = "settled"
           /\ \A d \in Days : Priced(d) => Priced(d)'
<1>0. mday \in [Days -> {"none", "open", "settled"}]
  BY DEF IndInv, TypeOK
<1>1. \A d \in Days : mday[d] # "none" => mday'[d] # "none"
  BY <1>0 DEF MarketStep, OpenDay, SettleDay, SetManualPrice, SetManualNews, DeleteNews, market
<1>2. \A d \in Days : mday[d] = "settled" => mday'[d] = "settled"
  BY <1>0
  DEF MarketStep, OpenDay, CanOpen, SettleDay, SetManualPrice, SetManualNews, DeleteNews, market
<1>3. \A d \in Days : d > 1 => d - 1 \in Days
  BY MarketAssumption DEF Days
<1> QED BY <1>1, <1>2, <1>3 DEF Priced

\* The news of a decided day is what it was, as far as it was any or was applied.
LEMMA DecidedNewsStays ==
    ASSUME IndInv, MarketStep \/ UNCHANGED market
    PROVE  /\ \A d \in Days : Priced(d) => news'[d] = news[d]
           /\ \A d \in Days : log[d] # "unsettled" => news'[d] = news[d] /\ log'[d] = log[d]
<1>0. /\ mday \in [Days -> {"none", "open", "settled"}]
      /\ news \in [Days -> Items] /\ log \in [Days -> Items \cup {"unsettled"}]
      /\ \A d \in Days : log[d] # "unsettled" => Priced(d) /\ mday[d - 1] = "settled"
  BY DEF IndInv, TypeOK, NewsDecided, Priced
<1>1. CASE UNCHANGED market
  BY <1>1 DEF market
<1>2. ASSUME NEW e \in Days, NEW now \in Nat, OpenDay(e, now) PROVE UNCHANGED <<news, log>>
  BY <1>2 DEF OpenDay
<1>3. ASSUME NEW e \in Days, NEW now \in Nat, SettleDay(e, now)
      PROVE  /\ \A d \in Days : Priced(d) => news'[d] = news[d]
             /\ \A d \in Days : log[d] # "unsettled" => news'[d] = news[d] /\ log'[d] = log[d]
  <2>1. e + 1 \in Days /\ (e + 1) - 1 = e
    BY <1>3, RoundDays DEF SettleDay, CanSettle, Days
  <2>2. log[e + 1] = "unsettled"
    BY <1>0, <1>3, <2>1 DEF SettleDay, CanSettle
  <2>3. PICK item \in NewsFor(e + 1) :
            /\ news' = [news EXCEPT ![e + 1] = item]
            /\ log' = [log EXCEPT ![e + 1] = item]
    BY <1>3 DEF SettleDay
  <2>4. ~Priced(e + 1)
    BY <1>0, <1>3, <2>1 DEF SettleDay, CanSettle, Priced
  <2> QED BY <1>0, <2>1, <2>2, <2>3, <2>4
<1>4. ASSUME NEW e \in Days, SetManualPrice(e) PROVE UNCHANGED <<news, log>>
  BY <1>4 DEF SetManualPrice
<1>5. ASSUME NEW e \in Days, SetManualNews(e) \/ DeleteNews(e)
      PROVE  ~Priced(e) /\ log' = log /\ \A d \in Days : d # e => news'[d] = news[d]
  BY <1>0, <1>5 DEF SetManualNews, DeleteNews, NewsAllowed
<1> QED BY <1>0, <1>1, <1>2, <1>3, <1>4, <1>5 DEF MarketStep

\* Whatever the step, what is decided stays decided, with its news.
LEMMA DecidedAsBefore ==
    ASSUME IndInv, [Next]_vars
    PROVE  \A d \in Days : Priced(d) => Priced(d)' /\ news'[d] = news[d]
<1>1. MarketStep \/ UNCHANGED market
  BY StepKinds, ListsApart
<1> QED BY <1>1, DecidedStays, DecidedNewsStays

\* A step that leaves a list alone leaves it sound, and so does each of its own:
\* the items are read all at once, and each is then asked for in its turn.
LEMMA ListsKept ==
    ASSUME IndInv, [Next]_vars, NEW b \in Consoles
    PROVE  ListSound(reading[b])'
<1>0. /\ ListSound(reading[b]) /\ reading \in [Consoles -> ListRecord]
      /\ \A d \in Days : Priced(d) => Priced(d)' /\ news'[d] = news[d]
  BY DecidedAsBefore DEF IndInv, NewsDecided, TypeOK, ListRecord
<1>1. CASE reading'[b] = reading[b]
  BY <1>0, <1>1 DEF ListSound, RowSound
<1>2. CASE reading'[b] = NoList
  BY <1>2, NoListType DEF ListSound, RowSound
<1>3. CASE ListNews(b)
  <2>1. UNCHANGED market
    BY <1>3 DEF ListNews
  <2>2. \A d \in Days :
            /\ reading'[b].rows[d].item = news[d]
            /\ ~reading'[b].rows[d].applied
            /\ reading'[b].rows[d].decided <=> news[d] # "none" /\ Priced(d)
            /\ d \in reading'[b].left <=> news[d] # "none"
    BY <1>3, ListSteps
  <2>3. \A d \in Days : news'[d] = news[d]
    BY <2>1 DEF market
  <2> QED BY <1>0, <2>2, <2>3 DEF ListSound, RowSound
<1>4. CASE ReadPriced(b)
  <2> DEFINE e == LastOf(reading[b].left)
  <2>1. /\ reading'[b].left = reading[b].left \ {e}
        /\ reading'[b].rows[e].item = reading[b].rows[e].item
        /\ reading'[b].rows[e].decided = reading[b].rows[e].decided
        /\ reading'[b].rows[e].applied = Priced(e)
        /\ \A d \in Days \ {e} : reading'[b].rows[d] = reading[b].rows[d]
    BY <1>4, ListSteps
  <2> HIDE DEF e
  <2> SUFFICES ASSUME NEW d \in Days
               PROVE  /\ RowSound(reading[b].rows[d], d)'
                      /\ reading'[b].rows[d].decided /\ d \notin reading'[b].left
                            => reading'[b].rows[d].applied
    BY DEF ListSound, RowSound
  <2>2. CASE d = e
    <3>1. /\ reading'[b].rows[d].item = reading[b].rows[d].item
          /\ reading'[b].rows[d].decided = reading[b].rows[d].decided
          /\ reading'[b].rows[d].applied = Priced(d)
      BY <2>1, <2>2
    <3>2. reading[b].rows[d].decided => Priced(d) /\ reading[b].rows[d].item = news[d]
      BY <1>0 DEF ListSound, RowSound
    <3>3. Priced(d) => Priced(d)' /\ news'[d] = news[d]
      BY <1>0
    <3> QED BY <3>1, <3>2, <3>3 DEF RowSound
  <2>3. CASE d # e
    BY <1>0, <2>1, <2>3 DEF ListSound, RowSound
  <2> QED BY <2>2, <2>3
<1>5. \/ reading'[b] = reading[b] \/ reading'[b] = NoList
      \/ ListNews(b) \/ ReadPriced(b)
  BY <1>0, StepKinds DEF lists, Crash, AnswerList, ListNews, ReadPriced, ShowNews
<1> QED BY <1>1, <1>2, <1>3, <1>4, <1>5

\* A list that is shown has asked for every item, and stays as sound as it was.
LEMMA ListsShown ==
    ASSUME IndInv, [Next]_vars, NEW b \in Consoles, NEW d \in Days
    PROVE  RowSound(seen[b][d], d)' /\ (seen'[b][d].decided => seen'[b][d].applied)
<1>0. /\ ListSound(reading[b]) /\ seen \in [Consoles -> [Days -> Row]]
      /\ RowSound(seen[b][d], d) /\ (seen[b][d].decided => seen[b][d].applied)
      /\ Priced(d) => Priced(d)' /\ news'[d] = news[d]
  BY DecidedAsBefore DEF IndInv, NewsDecided, TypeOK
<1>1. CASE seen'[b] = seen[b]
  BY <1>0, <1>1 DEF RowSound
<1>2. CASE ShowNews(b)
  <2>1. seen'[b] = reading[b].rows /\ d \notin reading[b].left
    BY <1>0, <1>2 DEF ShowNews
  <2> QED BY <1>0, <2>1 DEF ListSound, RowSound
<1>3. seen'[b] = seen[b] \/ ShowNews(b)
  BY <1>0, StepKinds DEF lists, Crash, AnswerList, ListNews, ReadPriced, ShowNews
<1> QED BY <1>1, <1>2, <1>3

\* Every step leaves decided news alone, and a list that is asked for shows what
\* is decided then.
LEMMA NewsStep ==
    ASSUME IndInv, [Next]_vars
    PROVE  NewsDecided'
<1>0. TypeOK /\ NewsDecided
  BY DEF IndInv
<1>k. MarketStep \/ UNCHANGED market
  BY StepKinds, ListsApart
<1>1. ASSUME NEW d \in Days, log'[d] # "unsettled"
      PROVE  d > 1 /\ mday'[d - 1] = "settled" /\ news'[d] = log'[d]
  <2>1. CASE log[d] # "unsettled"
    <3>1. d > 1 /\ d - 1 \in Days /\ mday[d - 1] = "settled" /\ news[d] = log[d]
      BY <1>0, <2>1, MarketAssumption DEF NewsDecided, Days
    <3> QED BY <1>k, <2>1, <3>1, DecidedStays, DecidedNewsStays
  <2>2. CASE log[d] = "unsettled"
    <3>1. PICK e \in Days, now \in Nat : SettleDay(e, now)
      BY <1>1, <1>k, <2>2
      DEF MarketStep, OpenDay, SetManualPrice, SetManualNews, DeleteNews, market
    <3>2. e + 1 \in Days /\ (e + 1) - 1 = e /\ e + 1 > 1
      BY <3>1, RoundDays, MarketAssumption DEF SettleDay, CanSettle, Days
    <3>3. PICK item \in NewsFor(e + 1) :
              /\ news' = [news EXCEPT ![e + 1] = item]
              /\ log' = [log EXCEPT ![e + 1] = item]
      BY <3>1 DEF SettleDay
    <3>4. d = e + 1
      BY <1>0, <1>1, <2>2, <3>2, <3>3 DEF TypeOK
    <3>5. mday'[e] = "settled"
      BY <1>0, <3>1 DEF SettleDay, TypeOK
    <3> QED BY <1>0, <3>2, <3>3, <3>4, <3>5 DEF TypeOK
  <2> QED BY <2>1, <2>2
<1>3. \A c \in Consoles : ListSound(reading[c])'
  BY ListsKept
<1>4. \A c \in Consoles, d \in Days :
          RowSound(seen[c][d], d)' /\ (seen'[c][d].decided => seen'[c][d].applied)
  BY ListsShown
<1> QED BY <1>1, <1>3, <1>4 DEF NewsDecided

-----------------------------------------------------------------------------
(* Prices *)

\* The record of a published day keeps its price, origin and base, and its log
\* and its price by hand do not change any more.
LEMMA PublishedStays ==
    ASSUME IndInv, MarketStep \/ UNCHANGED market, NEW d \in Days, mday[d] # "none"
    PROVE  /\ book'[d] = book[d] /\ log'[d] = log[d]
           /\ d \in audit' <=> d \in audit
<1>0. TypeOK
  BY DEF IndInv
<1>1. CASE UNCHANGED market
  BY <1>1 DEF market
<1>2. ASSUME NEW e \in Days, NEW now \in Nat, OpenDay(e, now)
      PROVE  book'[d] = book[d] /\ UNCHANGED <<log, audit>>
  <2>1. e # d
    BY <1>2 DEF OpenDay, CanOpen
  <2> QED BY <1>0, <1>2, <2>1 DEF OpenDay, TypeOK
<1>3. ASSUME NEW e \in Days, NEW now \in Nat, SettleDay(e, now)
      PROVE  book'[d] = book[d] /\ log'[d] = log[d] /\ UNCHANGED audit
  <2>1. e + 1 # d
    BY <1>3 DEF SettleDay, CanSettle
  <2> QED BY <1>0, <1>3, <2>1 DEF SettleDay, TypeOK
<1>4. ASSUME NEW e \in Days, SetManualPrice(e)
      PROVE  book'[d] = book[d] /\ log' = log /\ (d \in audit' <=> d \in audit)
  <2>1. e # d
    BY <1>4 DEF SetManualPrice
  <2> QED BY <1>0, <1>4, <2>1 DEF SetManualPrice, TypeOK
<1>5. ASSUME NEW e \in Days, SetManualNews(e) \/ DeleteNews(e)
      PROVE  UNCHANGED <<book, log, audit>>
  BY <1>5 DEF SetManualNews, DeleteNews
<1> QED BY <1>1, <1>2, <1>3, <1>4, <1>5 DEF MarketStep

\* A day is published after all days that are, so the days before one that is
\* published never change, nor does the price its change is counted from.
LEMMA BeforeStays ==
    ASSUME IndInv, MarketStep \/ UNCHANGED market, NEW d \in Days, mday'[d] # "none"
    PROVE  PublishedPriceBefore(d)' = PublishedPriceBefore(d)
<1>0. mday \in [Days -> {"none", "open", "settled"}]
  BY DEF IndInv, TypeOK
<1>1. Earlier(d)' = Earlier(d)
  <2>1. \A e \in Days : mday[e] # "none" => mday'[e] # "none"
    BY DecidedStays
  <2>2. ASSUME NEW e \in Days, e < d, mday'[e] # "none" PROVE mday[e] # "none"
    <3>1. ASSUME NEW b \in Days, NEW now \in Nat, OpenDay(b, now) PROVE mday[e] # "none"
      <4>1. mday' = [mday EXCEPT ![b] = "open"] /\ \A f \in Published : f < b
        BY <3>1 DEF OpenDay, CanOpen
      <4>2. CASE mday[d] # "none"
        <5>1. d < b
          BY <4>1, <4>2 DEF Published
        <5>2. e # b
          BY <2>2, <5>1 DEF Days
        <5> QED BY <1>0, <2>2, <4>1, <5>2
      <4>3. CASE mday[d] = "none"
        <5>1. b = d
          BY <1>0, <4>1, <4>3
        <5>2. e # b
          BY <2>2, <5>1 DEF Days
        <5> QED BY <1>0, <2>2, <4>1, <5>2
      <4> QED BY <4>2, <4>3
    <3>2. ASSUME NEW b \in Days, NEW now \in Nat, SettleDay(b, now) PROVE mday[e] # "none"
      BY <1>0, <2>2, <3>2 DEF SettleDay, CanSettle
    <3>3. CASE UNCHANGED mday
      BY <2>2, <3>3
    <3> QED BY <3>1, <3>2, <3>3
            DEF MarketStep, SetManualPrice, SetManualNews, DeleteNews, market
  <2> QED BY <2>1, <2>2 DEF Earlier, Published
<1>2. CASE Earlier(d) = {}
  BY <1>1, <1>2 DEF PublishedPriceBefore
<1>3. CASE Earlier(d) # {}
  <2> DEFINE last == LastOf(Earlier(d))
  <2>1. last \in Earlier(d)
    BY <1>3, LastExists DEF Earlier, Published
  <2>2. last \in Days /\ mday[last] # "none"
    BY <2>1 DEF Earlier, Published
  <2>3. book'[last] = book[last]
    BY <2>2, PublishedStays
  <2>4. LastOf(Earlier(d))' = last
    BY <1>1 DEF LastOf
  <2> QED BY <1>1, <1>3, <2>3, <2>4 DEF PublishedPriceBefore
<1> QED BY <1>2, <1>3

\* Every step leaves every record with the origin of its price.
LEMMA RecordsStep ==
    ASSUME IndInv, [Next]_vars
    PROVE  RecordsDecided'
<1>0. TypeOK /\ RecordsDecided
  BY DEF IndInv
<1>k. MarketStep \/ UNCHANGED market
  BY StepKinds, ListsApart
<1>1. CASE UNCHANGED market
  BY <1>0, <1>1 DEF market, RecordsDecided
<1>2. ASSUME NEW e \in Days, NEW now \in Nat, OpenDay(e, now) PROVE RecordsDecided'
  <2>1. /\ book' = [book EXCEPT ![e] = AtOpening(e)]
        /\ mday[e] = "none" /\ mday' = [mday EXCEPT ![e] = "open"]
        /\ UNCHANGED <<log, audit>>
    BY <1>2 DEF OpenDay, CanOpen
  <2>2. CASE book[e] = NoRecord
    <3>1. e \notin audit
      BY <1>0, <2>2 DEF RecordsDecided, NoRecord
    <3>2. log[e] = "unsettled"
      <4>1. book[e].price.made = "none" /\ Settled(e).made = "settlement"
        BY <2>2 DEF NoRecord, NoPrice, Settled
      <4>2. book[e].price # Settled(e)
        BY <4>1
      <4> QED BY <1>0, <3>1, <4>2 DEF RecordsDecided
    <3>3. AtOpening(e).source # "manual"
      BY <2>2 DEF AtOpening
    <3> QED BY <1>0, <2>1, <3>1, <3>2, <3>3 DEF RecordsDecided, TypeOK
  <2>3. CASE book[e] # NoRecord
    <3>1. AtOpening(e) = [book[e] EXCEPT !.base = PublishedPriceBefore(e)]
      BY <2>3 DEF AtOpening
    <3>2. AtOpening(e).price = book[e].price /\ AtOpening(e).source = book[e].source
      BY <1>0, <3>1 DEF TypeOK, PriceRecord
    <3> QED BY <1>0, <2>1, <3>2 DEF RecordsDecided, TypeOK
  <2> QED BY <2>2, <2>3
<1>3. ASSUME NEW e \in Days, NEW now \in Nat, SettleDay(e, now) PROVE RecordsDecided'
  <2>1. e + 1 \in Days
    BY <1>3, RoundDays DEF SettleDay, CanSettle
  <2>2. PICK item \in NewsFor(e + 1) : log' = [log EXCEPT ![e + 1] = item]
    BY <1>3 DEF SettleDay
  <2>3. item # "unsettled"
    BY <1>0, <2>1, <2>2 DEF NewsFor, TypeOK, Items, Written
  <2>4. /\ book' = [book EXCEPT ![e + 1] = AtSettlement(e)]
        /\ mday[e] # "none" /\ mday' = [mday EXCEPT ![e] = "settled"]
        /\ UNCHANGED audit
    BY <1>3 DEF SettleDay, CanSettle
  <2>5. CASE e + 1 \in audit
    <3>1. AtSettlement(e) = book[e + 1]
      BY <1>0, <2>1, <2>5 DEF RecordsDecided, AtSettlement
    <3> QED BY <1>0, <2>1, <2>2, <2>4, <2>5, <3>1 DEF RecordsDecided, TypeOK
  <2>6. CASE e + 1 \notin audit
    <3>1. AtSettlement(e).price = Settled(e + 1) /\ AtSettlement(e).source = "settlement"
      BY <1>0, <2>1, <2>6 DEF RecordsDecided, AtSettlement
    <3> QED BY <1>0, <2>1, <2>2, <2>3, <2>4, <2>6, <3>1 DEF RecordsDecided, TypeOK
  <2> QED BY <2>5, <2>6
<1>4. ASSUME NEW e \in Days, SetManualPrice(e) PROVE RecordsDecided'
  BY <1>0, <1>4 DEF SetManualPrice, RecordsDecided, TypeOK
<1>5. ASSUME NEW e \in Days, SetManualNews(e) \/ DeleteNews(e) PROVE RecordsDecided'
  BY <1>0, <1>5 DEF SetManualNews, DeleteNews, RecordsDecided
<1> QED BY <1>k, <1>1, <1>2, <1>3, <1>4, <1>5 DEF MarketStep

\* Every step leaves every published price accounted for: an opening publishes
\* one that is, and what is published keeps its record and the days before it.
LEMMA PricesStep ==
    ASSUME IndInv, [Next]_vars
    PROVE  PricesAccounted'
<1>0. TypeOK /\ RecordsDecided /\ PricesAccounted
  BY DEF IndInv
<1>k. MarketStep \/ UNCHANGED market
  BY StepKinds, ListsApart
<1> SUFFICES ASSUME NEW d \in Days, mday'[d] # "none"
             PROVE  LET before == PublishedPriceBefore(d)'
                    IN  /\ book'[d].base = before
                        /\ book'[d].price =
                              IF d \in audit' THEN Entered(d)
                              ELSE IF log'[d] # "unsettled" THEN Settled(d)
                              ELSE IF before # NoPrice THEN before
                              ELSE Initial
  BY DEF PricesAccounted, Published, Entered, Settled, NoPrice, Initial
<1> DEFINE before == PublishedPriceBefore(d)
<1>b. PublishedPriceBefore(d)' = before
  BY <1>k, BeforeStays
<1>1. CASE mday[d] # "none"
  <2>1. /\ book'[d] = book[d] /\ log'[d] = log[d]
        /\ d \in audit' <=> d \in audit
    BY <1>k, <1>1, PublishedStays
  <2>2. /\ book[d].base = before
        /\ book[d].price =
              IF d \in audit THEN Entered(d)
              ELSE IF log[d] # "unsettled" THEN Settled(d)
              ELSE IF before # NoPrice THEN before
              ELSE Initial
    BY <1>0, <1>1 DEF PricesAccounted, Published
  <2> HIDE DEF before
  <2> QED BY <1>b, <2>1, <2>2
<1>2. CASE mday[d] = "none"
  <2>1. PICK now \in Nat : OpenDay(d, now)
    BY <1>0, <1>k, <1>2, ZenonT(40)
    DEF MarketStep, OpenDay, SettleDay, CanSettle, SetManualPrice, SetManualNews,
        DeleteNews, market, TypeOK
  <2>2. book'[d] = AtOpening(d) /\ UNCHANGED <<log, audit>>
    BY <1>0, <2>1 DEF OpenDay, TypeOK
  <2>3. CASE book[d] = NoRecord
    <3>1. d \notin audit
      BY <1>0, <2>3 DEF RecordsDecided, NoRecord
    <3>2. log[d] = "unsettled"
      <4>1. book[d].price.made = "none" /\ Settled(d).made = "settlement"
        BY <2>3 DEF NoRecord, NoPrice, Settled
      <4>2. book[d].price # Settled(d)
        BY <4>1
      <4> QED BY <1>0, <3>1, <4>2 DEF RecordsDecided
    <3>3. CASE before = NoPrice
      <4>1. AtOpening(d) = [price |-> Initial, base |-> NoPrice, source |-> "initial"]
        BY <2>3, <3>3 DEF AtOpening
      <4> HIDE DEF before
      <4> QED BY <1>b, <2>2, <3>1, <3>2, <3>3, <4>1
    <3>4. CASE before # NoPrice
      <4>1. AtOpening(d) = [price |-> before, base |-> before, source |-> "carry_over"]
        BY <2>3, <3>4 DEF AtOpening
      <4> HIDE DEF before
      <4> QED BY <1>b, <2>2, <3>1, <3>2, <3>4, <4>1
    <3> QED BY <3>3, <3>4
  <2>4. CASE book[d] # NoRecord
    <3>1. AtOpening(d) = [book[d] EXCEPT !.base = before]
      BY <2>4 DEF AtOpening
    <3>2. AtOpening(d).base = before /\ AtOpening(d).price = book[d].price
      BY <1>0, <3>1 DEF TypeOK, PriceRecord
    <3>3. d \in audit \/ log[d] # "unsettled"
      BY <1>0, <1>2, <2>4 DEF RecordsDecided
    <3>4. book[d].price = IF d \in audit THEN Entered(d) ELSE Settled(d)
      BY <1>0, <3>3 DEF RecordsDecided
    <3> HIDE DEF before
    <3> QED BY <1>b, <2>2, <3>2, <3>3, <3>4
  <2> QED BY <2>3, <2>4
<1> QED BY <1>1, <1>2

-----------------------------------------------------------------------------
(* The theorems *)

\* The invariant is inductive and holds of every behaviour: records, news and
\* jobs are decided day by day, whatever runs beside each other, fails or dies
\* (run_due, settle_day, open_day in services/market.py; services/news.py).
THEOREM MarketInductive == Spec => []IndInv
<1>1. Init => IndInv
  BY IndInvInit
<1>2. IndInv /\ [Next]_vars => IndInv'
  <2> SUFFICES ASSUME IndInv, [Next]_vars PROVE IndInv'
    OBVIOUS
  <2> QED BY TypeStep, JobsStep, NewsStep, RecordsStep, PricesStep DEF IndInv
<1> QED BY <1>1, <1>2, PTL DEF Spec

\* Every variable of the market, its workers and its consoles keeps its type.
THEOREM MarketTypeCorrect == Spec => []TypeOK
<1>1. IndInv => TypeOK
  BY DEF IndInv
<1> QED BY <1>1, MarketInductive, PTL

\* Every published price is the one entered by hand, the settlement's, the last
\* published one or the initial one, in this order, and its change is counted
\* from the last published one (open_day, settle_day and set_manual_price).
THEOREM MarketPricesAccounted == Spec => []PricesAccounted
<1>1. IndInv => PricesAccounted
  BY DEF IndInv
<1> QED BY <1>1, MarketInductive, PTL

\* News a settlement applied stays as it is, no console lists as applied what may
\* still be rewritten, and a list read when the price was decided goes on showing
\* what is published (set_manual_news, delete_news, create_random_news, list_news).
THEOREM MarketNewsAsApplied == Spec => []NewsAsApplied
<1>1. IndInv => NewsAsApplied
  BY DEF IndInv, NewsDecided, RowSound, NewsAsApplied
<1> QED BY <1>1, MarketInductive, PTL
=============================================================================
