--------------------------- MODULE PageDataProofs ---------------------------
(***************************************************************************)
(* The data a page shows, for any accounts, instruments, days, queries and *)
(* requests on the wire.                                                   *)
(***************************************************************************)
EXTENDS PageData, TLAPS

-----------------------------------------------------------------------------
(* Types *)

Whos == Accounts \cup {Nobody}

\* The dependency lists there are.
Dependencies ==
    {Deps(p, q, a, c) : p \in Pages, q \in Queries, a \in Whos, c \in Codes} \cup {<<"none">>, <<>>}

Request == [query : Queries \cup Posts, deps : Dependencies, who : Whos, code : Codes,
            current : BOOLEAN, answer : Answers]
Entry == [deps : Dependencies, data : Answers, error : BOOLEAN]

ServerTyped == tick \in 0 .. 2 * LastDay /\ edits \in [Accounts -> 0 .. MaxEdits]
RouteTyped == watched \in Views /\ who \in Whos /\ page \in Pages /\ code \in Codes
SeenTyped == seen \in Unknown .. LastDay /\ first \in Unknown .. LastDay
EntryTyped == entry \in [Queries -> Entry]
WireTyped == wire \subseteq Request

Typed ==
    /\ ServerTyped /\ RouteTyped /\ SeenTyped /\ EntryTyped /\ WireTyped
    /\ acked \in 0 .. MaxEdits

LEMMA TypedIsTypeOK == Typed => TypeOK
BY DEF Typed, TypeOK, ServerTyped, RouteTyped, SeenTyped, EntryTyped, WireTyped, Request, Entry, Whos

LEMMA RequestParts ==
    ASSUME NEW r \in Request
    PROVE  /\ r.query \in Queries \cup Posts /\ r.deps \in Dependencies /\ r.who \in Whos
           /\ r.code \in Codes /\ r.current \in BOOLEAN /\ r.answer \in Answers
BY DEF Request

LEMMA AnswersParts ==
    ASSUME NEW d \in Answers
    PROVE  /\ d.who \in Whos /\ d.code \in Codes \cup {NoCode} /\ d.day \in Unknown .. LastDay
           /\ d.edits \in 0 .. MaxEdits /\ d.day \in Int /\ d.edits \in Int
<1>1. /\ d.who \in Whos /\ d.code \in Codes \cup {NoCode} /\ d.day \in Unknown .. LastDay
      /\ d.edits \in 0 .. MaxEdits
  BY DEF Answers, Whos
<1>2. d.day \in Int
  BY <1>1, BoundAssumption DEF Unknown
<1>3. d.edits \in Int
  BY <1>1, BoundAssumption
<1> QED BY <1>1, <1>2, <1>3

LEMMA NoDataParts ==
    /\ NoData \in Answers
    /\ NoData.who = Nobody /\ NoData.day = Unknown /\ NoData.edits = 0 /\ NoData.code = NoCode
BY BoundAssumption DEF NoData, Answers, Unknown

LEMMA NoEntryParts ==
    NoEntry \in Entry /\ NoEntry.data = NoData /\ NoEntry.error = FALSE
<1>1. <<"none">> \in Dependencies /\ FALSE \in BOOLEAN
  BY DEF Dependencies
<1> QED BY <1>1, NoDataParts DEF NoEntry, Entry

LEMMA DepsType ==
    ASSUME NEW p \in Pages, NEW q \in Queries, NEW a \in Whos, NEW c \in Codes
    PROVE  Deps(p, q, a, c) \in Dependencies
BY DEF Dependencies

\* Two dependency lists that name the instrument, and the participant.
LEMMA DepsOf ==
    ASSUME NEW p, NEW a, NEW c
    PROVE  /\ Deps(p, "history", a, c) = <<c>>
           /\ Deps(p, "notifications", a, c) = <<Status(a), a>>
           /\ Deps(p, "orders", a, c) = <<>>
BY DEF Deps

\* What is asked on a page is one of the queries.
LEMMA OnPageQueries ==
    ASSUME NEW p
    PROVE  /\ \A a : OnOpen(p, a) \subseteq OnPage(p)
           /\ Polled(p) \subseteq OnPage(p)
BY DEF OnOpen, Polled

LEMMA PageQueries ==
    ASSUME NEW p \in Pages
    PROVE  OnPage(p) \subseteq Queries
BY DEF OnPage, Pages, Queries, MarketQueries, InstrumentQueries, PortfolioQueries, RankingQueries

\* The days an answer can speak of.
LEMMA DayParts ==
    ASSUME ServerTyped
    PROVE  /\ LatestOpened \in 0 .. LastDay /\ LatestOpened \in Nat
           /\ Opened => Today = LatestOpened
           /\ tick \in Nat
BY BoundAssumption DEF ServerTyped, LatestOpened, Opened, Today

\* Own changes of an account; nobody has none.
EditsOf(a) == IF a = Nobody THEN 0 ELSE edits[a]

\* The data says nothing the server does not know yet.
Truthful(data) == data.day <= LatestOpened /\ data.edits <= EditsOf(data.who)

LEMMA AnswerParts ==
    ASSUME ServerTyped, NEW q \in Queries, NEW a \in Whos, NEW c \in Codes
    PROVE  /\ Answer(q, a, c) \in Answers
           /\ Answer(q, a, c).day \in Nat /\ Answer(q, a, c) # NoData
           /\ Truthful(Answer(q, a, c))
           /\ q \in {"instruments", "history", "portfolio", "news"} =>
                 Answer(q, a, c).day = LatestOpened
           /\ q \in {"portfolio", "notifications"} =>
                 Answer(q, a, c).who = a /\ Answer(q, a, c).edits = EditsOf(a)
           /\ q = "history" => Answer(q, a, c).code = c
           /\ q = "notifications" => Answer(q, a, c).day = 0
<1> DEFINE A == Answer(q, a, c)
<1> DEFINE w == IF q \in Personal \cup {"ranking"} THEN a ELSE Nobody
<1> DEFINE e == IF q \in Personal /\ a # Nobody THEN edits[a] ELSE 0
<1> DEFINE d == CASE q = "event" -> IF Opened THEN Today ELSE NotOpened
                  [] q \in {"certs", "notifications"} -> 0
                  [] OTHER -> LatestOpened
<1> DEFINE i == IF q = "history" THEN c ELSE NoCode
<1>1. A = [who |-> w, code |-> i, day |-> d, edits |-> e]
  BY DEF Answer
<1>2. d \in Nat /\ d \in 0 .. LatestOpened /\ d \in Unknown .. LastDay
  <2>1. d \in {0, LatestOpened}
    BY DayParts DEF NotOpened
  <2> HIDE DEF d
  <2> QED BY <2>1, DayParts, BoundAssumption DEF Unknown
<1>3. e \in 0 .. MaxEdits /\ e <= EditsOf(w) /\ w \in Whos
  BY BoundAssumption DEF ServerTyped, EditsOf, Whos
<1>4. q \in {"instruments", "history", "portfolio", "news"} => d = LatestOpened
  OBVIOUS
<1>5. q \in {"portfolio", "notifications"} => w = a /\ e = EditsOf(a)
  BY DEF Personal, EditsOf
<1>6. q = "notifications" => d = 0
  OBVIOUS
<1>7. i \in Codes \cup {NoCode} /\ (q = "history" => i = c)
  OBVIOUS
<1> HIDE DEF w, e, d, i, A
<1>8. A \in Answers /\ A.day = d /\ A.who = w /\ A.edits = e /\ A.code = i
  BY <1>1, <1>2, <1>3, <1>7 DEF Answers, Whos
<1>9. A # NoData
  <2>1. NoData.day = -1
    BY NoDataParts DEF Unknown
  <2>2. d \in Nat /\ A.day = d
    BY <1>2, <1>8
  <2> QED BY <2>1, <2>2
<1>10. Truthful(A)
  BY <1>2, <1>3, <1>8 DEF Truthful
<1> QED BY <1>2, <1>4, <1>5, <1>6, <1>7, <1>8, <1>9, <1>10 DEF A
-----------------------------------------------------------------------------
(* The inductive invariant *)

Ordered == {"instruments", "history", "portfolio", "news"}
Followed == {"instruments", "history", "portfolio"}

\* A read mark stays on its page and instrument, an order on its page; while
\* one is not served there is still an edit left for it.
PostSound(r) ==
    r.query \in Posts =>
       /\ r.who \in Accounts
       /\ r.query = "mark" => page = "market" /\ r.code = code
       /\ r.query = "fill" => page = "instrument"
       /\ r.current = TRUE /\ r.deps = <<>>
       /\ Pending(r) => edits[r.who] < MaxEdits
       /\ ~Pending(r) => /\ r.answer.who = r.who /\ r.answer.edits <= edits[r.who]
                         /\ r.answer.day = 0

PostsSound == \A r \in wire : PostSound(r)

\* The person posts one thing at a time.
OnePost ==
    \A r, s \in wire :
        r.query \in Posts /\ s.query \in Posts /\ Pending(r) /\ Pending(s) /\ r.who = s.who => r = s

\* The inbox and the history say whose they are in their dependencies.
Addressed(q, deps, data) ==
    data # NoData => /\ q = "notifications" => deps = <<Status(data.who), data.who>>
                     /\ q = "history" => deps = <<data.code>>

NotOlder(new, old) == new.day >= old.day /\ (new.who = old.who => new.edits >= old.edits)

\* Only a request with the dependencies of this render is current, and its
\* answer is not older than what is shown.
QuerySound(r) ==
    r.query \in Queries =>
       /\ r.current => r.query \in OnPage(page) /\ r.deps = Deps(page, r.query, who, code)
       /\ r.query = "notifications" => r.deps = <<Status(r.who), r.who>>
       /\ r.query = "history" => r.deps = <<r.code>>
       /\ Addressed(r.query, r.deps, r.answer)
       /\ Truthful(r.answer)

InOrder(r) ==
    r.query \in Ordered /\ r.current /\ ~Pending(r) => NotOlder(r.answer, entry[r.query].data)

QueriesSound == \A r \in wire : QuerySound(r) /\ InOrder(r)

EntrySound(q) == Addressed(q, entry[q].deps, entry[q].data) /\ Truthful(entry[q].data)
EntriesSound == \A q \in Queries : EntrySound(q)

OneCurrent ==
    \A r, s \in wire : r.current /\ s.current /\ r.query = s.query /\ r.query \in Queries => r = s

\* The hook has such a result or an error, or waits for one.
Awaited(q, wanted) ==
    /\ \A r \in wire : r.current /\ r.query = q /\ ~Pending(r) => r.answer \in wanted
    /\ \/ \E r \in wire : r.current /\ r.query = q
       \/ entry[q].error
       \/ Current(q) /\ entry[q].data \in wanted

Since(day) == {d \in Answers : d.day >= day}
After(n) == {d \in Answers : d.edits >= n}

OpeningPursued ==
    /\ seen <= LatestOpened
    /\ first = Unknown <=> seen = Unknown
    /\ seen > 0 /\ seen # first =>
          \A q \in OnPage(page) \cap Followed : Enabled(q, who) => Awaited(q, Since(seen))

OrderPursued ==
    /\ acked <= EditsOf(who)
    /\ acked > 0 => page = "instrument"
    /\ acked > 0 /\ "portfolio" \in watched =>
          /\ \A r \in wire : r.current /\ r.query = "portfolio" => r.who = who
          /\ Awaited("portfolio", After(acked))

Inv ==
    /\ Typed /\ PostsSound /\ OnePost /\ QueriesSound /\ EntriesSound /\ OneCurrent
    /\ OpeningPursued /\ OrderPursued

\* What the parts say of the page that is shown.
LEMMA InvIsShown == Inv => NothingForeignShown /\ OpeningSeenIsFollowed /\ OwnOrderShown
<1> SUFFICES ASSUME Inv PROVE NothingForeignShown /\ OpeningSeenIsFollowed /\ OwnOrderShown
  OBVIOUS
<1>1. NothingForeignShown
  <2>1. ASSUME Data("notifications") # NoData PROVE Data("notifications").who = who
    <3>1. /\ Data("notifications") = entry["notifications"].data
          /\ entry["notifications"].deps = <<Status(who), who>>
      BY <2>1, DepsOf DEF Data, Current
    <3>2. Addressed("notifications", entry["notifications"].deps, entry["notifications"].data)
      BY DEF Inv, EntriesSound, EntrySound, Queries
    <3> QED BY <2>1, <3>1, <3>2 DEF Addressed
  <2>2. ASSUME Data("history") # NoData PROVE Data("history").code = code
    <3>1. Data("history") = entry["history"].data /\ entry["history"].deps = <<code>>
      BY <2>2, DepsOf DEF Data, Current
    <3>2. Addressed("history", entry["history"].deps, entry["history"].data)
      BY DEF Inv, EntriesSound, EntrySound, Queries
    <3> QED BY <2>2, <3>1, <3>2 DEF Addressed
  <2> QED BY <2>1, <2>2 DEF NothingForeignShown
<1>2. OpeningSeenIsFollowed
  <2> SUFFICES ASSUME Quiet, seen > 0, seen # first, NEW q \in OnPage(page) \cap Followed,
                      Enabled(q, who)
               PROVE  entry[q].error \/ Data(q).day >= seen
    BY DEF OpeningSeenIsFollowed, Followed
  <2>1. Awaited(q, Since(seen))
    BY DEF Inv, OpeningPursued
  <2> QED BY <2>1 DEF Awaited, Quiet, Since, Data
<1>3. OwnOrderShown
  <2> SUFFICES ASSUME Quiet, "portfolio" \in watched
               PROVE  entry["portfolio"].error \/ Data("portfolio").edits >= acked
    BY DEF OwnOrderShown
  <2>1. acked \in Nat
    BY BoundAssumption DEF Inv, Typed
  <2>2. CASE acked > 0
    <3>1. Awaited("portfolio", After(acked))
      BY <2>2 DEF Inv, OrderPursued
    <3> QED BY <3>1 DEF Awaited, Quiet, After, Data
  <2>3. CASE acked = 0
    <3>1. Data("portfolio") \in Answers
      BY NoDataParts DEF Inv, Typed, EntryTyped, Entry, Data, Queries
    <3>2. Data("portfolio").edits \in 0 .. MaxEdits
      BY <3>1, AnswersParts
    <3> QED BY <2>3, <3>2, BoundAssumption
  <2> QED BY <2>1, <2>2, <2>3
<1> QED BY <1>1, <1>2, <1>3

-----------------------------------------------------------------------------
(* Requests that are announced and asked *)

\* What is left of a request once the queries qs are announced.
Left(x, r, qs) ==
    /\ x.query = r.query /\ x.deps = r.deps /\ x.who = r.who /\ x.code = r.code
    /\ x.answer = r.answer /\ x.current = (r.current /\ r.query \notin qs)
    /\ r.query \notin qs => x = r

\* What is asked by a render.
Fresh(x, q, p, a, c) ==
    /\ x = Asked(p, q, a, c)
    /\ x.query = q /\ x.deps = Deps(p, q, a, c) /\ x.who = a /\ x.code = c
    /\ x.current = TRUE /\ x.answer = NoData /\ Pending(x)

LEMMA AnnouncedParts ==
    ASSUME NEW qs, NEW requests \in SUBSET Request, NEW x \in Announced(qs, requests)
    PROVE  x \in Request /\ \E r \in requests : Left(x, r, qs)
<1>1. PICK r \in requests : x = [r EXCEPT !.current = @ /\ r.query \notin qs]
  BY DEF Announced
<1>2. r \in Request /\ (r.current /\ r.query \notin qs) \in BOOLEAN
  OBVIOUS
<1>3. /\ x \in Request /\ x.query = r.query /\ x.deps = r.deps /\ x.who = r.who
      /\ x.code = r.code /\ x.answer = r.answer
      /\ x.current = (r.current /\ r.query \notin qs)
  BY <1>1, <1>2 DEF Request
<1>4. ASSUME r.query \notin qs PROVE x = r
  BY <1>1, <1>2, <1>4 DEF Request
<1> QED BY <1>3, <1>4 DEF Left

\* A request that is not announced again stays as it is.
LEMMA NotAnnounced ==
    ASSUME NEW qs, NEW requests \in SUBSET Request, NEW r \in requests, r.query \notin qs
    PROVE  r \in Announced(qs, requests)
<1>1. [r EXCEPT !.current = @ /\ r.query \notin qs] = r
  BY DEF Request
<1> QED BY <1>1 DEF Announced

LEMMA AnnouncedNone ==
    ASSUME NEW requests \in SUBSET Request
    PROVE  Announced({}, requests) = requests
<1>1. ASSUME NEW x \in Announced({}, requests) PROVE x \in requests
  <2>1. PICK r \in requests : Left(x, r, {})
    BY <1>1, AnnouncedParts
  <2> QED BY <2>1 DEF Left
<1>2. ASSUME NEW r \in requests PROVE r \in Announced({}, requests)
  BY <1>2, NotAnnounced
<1> QED BY <1>1, <1>2

LEMMA AskedParts ==
    ASSUME NEW p \in Pages, NEW q \in Queries, NEW a \in Whos, NEW c \in Codes
    PROVE  Asked(p, q, a, c) \in Request /\ Fresh(Asked(p, q, a, c), q, p, a, c)
BY DepsType, NoDataParts DEF Asked, Request, Pending, Fresh
-----------------------------------------------------------------------------
(* What a step of the page does to the wire and to the results *)

\* The requests of rest stay, those of the queries in dropped are stale, and
\* those in qs are asked for the next render.
Asking(rest, dropped, qs) ==
    /\ UNCHANGED <<tick, edits, watched>>
    /\ page' \in Pages /\ who' \in Whos /\ code' \in Codes
    /\ rest \subseteq wire /\ qs \subseteq dropped /\ dropped \subseteq Queries
    /\ qs \subseteq OnPage(page)'
    /\ wire' = Announced(dropped, rest) \cup Runs(qs, page', who', code')
    /\ rest # {} => page' = page
    /\ \A r \in rest : r.query = "mark" => code' = code
    /\ \A r \in rest : r.current /\ r.query \in Queries \ dropped =>
          Deps(page', r.query, who', code') = Deps(page, r.query, who, code)

\* A result is forgotten, kept, or that of a current request; read marks set the inbox.
Accepting(q, rest) ==
    \/ entry'[q].data = NoData
    \/ entry'[q].data = entry[q].data /\ entry'[q].deps = entry[q].deps
    \/ \E x \in wire \ rest : /\ x.query = q /\ x.current /\ ~Pending(x)
                              /\ entry'[q].data = x.answer /\ entry'[q].deps = x.deps
    \/ /\ q = "notifications"
       /\ Addressed(q, entry'[q].deps, entry'[q].data) /\ Truthful(entry'[q].data)

\* Every request on the wire afterwards was there before or has just been asked.
LEMMA AskingParts ==
    ASSUME Inv, NEW rest, NEW dropped, NEW qs, Asking(rest, dropped, qs), NEW x \in wire'
    PROVE  /\ x \in Request
           /\ \/ \E r \in rest : Left(x, r, dropped)
              \/ \E q \in qs : Fresh(x, q, page', who', code')
<1>1. rest \in SUBSET Request /\ qs \subseteq Queries
  BY DEF Inv, Typed, WireTyped, Asking
<1>2. CASE x \in Announced(dropped, rest)
  BY <1>1, <1>2, AnnouncedParts
<1>3. CASE x \in Runs(qs, page', who', code')
  <2>1. PICK q \in qs : x = Asked(page', q, who', code')
    BY <1>3 DEF Runs
  <2>2. page' \in Pages /\ who' \in Whos /\ code' \in Codes
    BY DEF Asking
  <2> QED BY <1>1, <2>1, <2>2, AskedParts
<1> QED BY <1>2, <1>3 DEF Asking

LEMMA AskingKeepsPosts ==
    ASSUME Inv, NEW rest, NEW dropped, NEW qs, Asking(rest, dropped, qs)
    PROVE  PostsSound' /\ OnePost' /\ WireTyped'
<1>1. \A q \in Queries : q \notin Posts
  BY DEF Queries, Posts
<1>2. qs \subseteq Queries /\ rest \subseteq wire /\ dropped \subseteq Queries
  BY DEF Asking
<1>3. ASSUME NEW x \in wire', x.query \in Posts PROVE x \in rest
  <2>1. CASE \E r \in rest : Left(x, r, dropped)
    BY <1>1, <1>2, <1>3, <2>1 DEF Left
  <2>2. CASE \E q \in qs : Fresh(x, q, page', who', code')
    BY <1>1, <1>2, <1>3, <2>2 DEF Fresh
  <2> QED BY <2>1, <2>2, AskingParts
<1>4. WireTyped'
  BY AskingParts DEF WireTyped
<1>5. OnePost'
  BY <1>2, <1>3 DEF Inv, OnePost, Pending
<1>6. ASSUME NEW x \in wire' PROVE PostSound(x)'
  <2> SUFFICES ASSUME x.query \in Posts PROVE PostSound(x)'
    BY DEF PostSound
  <2>1. x \in rest /\ PostSound(x)
    BY <1>2, <1>3 DEF Inv, PostsSound
  <2>2. page' = page /\ UNCHANGED edits /\ (x.query = "mark" => code' = code)
    BY <2>1 DEF Asking
  <2> QED BY <2>1, <2>2 DEF PostSound, Pending
<1> QED BY <1>4, <1>5, <1>6 DEF PostsSound

LEMMA AskingKeepsQueries ==
    ASSUME Inv, NEW rest, NEW dropped, NEW qs, Asking(rest, dropped, qs),
           \A q \in Queries : Accepting(q, rest)
    PROVE  QueriesSound' /\ OneCurrent'
<1>1. /\ qs \subseteq Queries /\ rest \subseteq wire /\ qs \subseteq dropped /\ Ordered \subseteq Queries
      /\ UNCHANGED <<tick, edits, watched>>
  BY DEF Asking, Ordered, Queries
<1>a. ASSUME NEW x \in wire', x.current, x.query \notin dropped PROVE x \in rest
  <2>1. CASE \E q \in qs : Fresh(x, q, page', who', code')
    BY <1>1, <1>a, <2>1 DEF Fresh
  <2>2. CASE \E r \in rest : Left(x, r, dropped)
    BY <1>a, <2>2 DEF Left
  <2> QED BY <2>1, <2>2, AskingParts
<1>b. ASSUME NEW x \in wire', x.current, x.query \in dropped
      PROVE  x = Asked(page', x.query, who', code') /\ Pending(x)
  <2>1. CASE \E q \in qs : Fresh(x, q, page', who', code')
    BY <2>1 DEF Fresh
  <2>2. CASE \E r \in rest : Left(x, r, dropped)
    BY <1>b, <2>2 DEF Left
  <2> QED BY <2>1, <2>2, AskingParts
<1>2. OneCurrent'
  <2> SUFFICES ASSUME NEW x \in wire', NEW y \in wire', x.current, y.current, x.query = y.query,
                      x.query \in Queries
               PROVE  x = y
    BY DEF OneCurrent
  <2>1. CASE x.query \in dropped
    BY <1>b, <2>1
  <2>2. CASE x.query \notin dropped
    <3>1. x \in rest /\ y \in rest
      BY <1>a, <2>2
    <3> QED BY <1>1, <3>1 DEF Inv, OneCurrent
  <2> QED BY <2>1, <2>2
<1>3. ASSUME NEW x \in wire' PROVE QuerySound(x)'
  <2> SUFFICES ASSUME x.query \in Queries PROVE QuerySound(x)'
    BY DEF QuerySound
  <2>1. ASSUME NEW q \in qs, Fresh(x, q, page', who', code')
        PROVE  QuerySound(x)'
    <3>0. x.query = q /\ x.deps = Deps(page', q, who', code') /\ x.who = who' /\ x.code = code'
          /\ x.answer = NoData
      BY <2>1 DEF Fresh
    <3>1. q \in OnPage(page)'
      BY DEF Asking
    <3>2. q = "notifications" => x.deps = <<Status(x.who), x.who>>
      BY <3>0, DepsOf
    <3>3. q = "history" => x.deps = <<x.code>>
      BY <3>0, DepsOf
    <3>4. Truthful(NoData)'
      <4>1. LatestOpened' = LatestOpened
        BY <1>1 DEF LatestOpened
      <4>2. LatestOpened \in Nat
        BY DayParts DEF Inv, Typed
      <4>3. (EditsOf(Nobody))' = 0
        BY DEF EditsOf
      <4>4. NoData.day = -1 /\ NoData.who = Nobody /\ NoData.edits = 0
        BY NoDataParts DEF Unknown
      <4> QED BY <4>1, <4>2, <4>3, <4>4 DEF Truthful, EditsOf
    <3> QED BY <3>0, <3>1, <3>2, <3>3, <3>4 DEF QuerySound, Addressed
  <2>2. ASSUME NEW r \in rest, Left(x, r, dropped)
        PROVE  QuerySound(x)'
    <3>0. /\ x.query = r.query /\ x.deps = r.deps /\ x.who = r.who /\ x.code = r.code
          /\ x.answer = r.answer /\ x.current = (r.current /\ r.query \notin dropped)
      BY <2>2 DEF Left
    <3>1. QuerySound(r)
      BY <1>1 DEF Inv, QueriesSound
    <3>2. Truthful(r.answer)' = Truthful(r.answer)
      BY <1>1 DEF Truthful, EditsOf, LatestOpened
    <3>3. x.current => x.query \in OnPage(page)' /\ x.deps = Deps(page', x.query, who', code')
      <4> SUFFICES ASSUME x.current PROVE x.query \in OnPage(page)' /\ x.deps = Deps(page', x.query, who', code')
        OBVIOUS
      <4>1. page' = page /\ OnPage(page)' = OnPage(page)
        BY <1>1 DEF Asking, OnPage
      <4>2. Deps(page', r.query, who', code') = Deps(page, r.query, who, code)
        BY <3>0 DEF Asking
      <4> QED BY <3>0, <3>1, <4>1, <4>2 DEF QuerySound
    <3> QED BY <3>0, <3>1, <3>2, <3>3 DEF QuerySound
  <2> QED BY <2>1, <2>2, AskingParts
<1>4. ASSUME NEW x \in wire' PROVE InOrder(x)'
  <2> SUFFICES ASSUME x.query \in Ordered, x.current, ~Pending(x)
               PROVE  NotOlder(x.answer, entry'[x.query].data)
    BY DEF InOrder, Pending, NotOlder
  <2>1. x \in rest /\ x \in wire /\ x \in Request
    BY <1>1, <1>a, <1>b, AskingParts
  <2>2. NotOlder(x.answer, entry[x.query].data)
    BY <2>1 DEF Inv, QueriesSound, InOrder
  <2>3. CASE entry'[x.query].data = NoData
    <3>1. x.answer \in Answers
      BY <2>1, RequestParts
    <3>2. x.answer.day \in Int /\ x.answer.day >= -1 /\ x.answer.edits >= 0 /\ x.answer.edits \in Int
      BY <3>1, AnswersParts, BoundAssumption DEF Unknown
    <3>3. NoData.day = -1 /\ NoData.edits = 0
      BY NoDataParts DEF Unknown
    <3> QED BY <2>3, <3>2, <3>3 DEF NotOlder
  <2>4. CASE entry'[x.query].data = entry[x.query].data
    BY <2>2, <2>4
  <2>5. ASSUME NEW y \in wire \ rest, y.query = x.query, y.current PROVE FALSE
    BY <1>1, <2>1, <2>5 DEF Inv, OneCurrent
  <2>6. x.query # "notifications" /\ x.query \in Queries
    BY <1>1 DEF Ordered
  <2> QED BY <2>3, <2>4, <2>5, <2>6 DEF Accepting
<1> QED BY <1>2, <1>3, <1>4 DEF QueriesSound

LEMMA AcceptingKeepsEntries ==
    ASSUME Inv, UNCHANGED <<tick, edits>>, NEW rest, NEW q \in Queries, Accepting(q, rest)
    PROVE  EntrySound(q)'
<1>1. \A d : Truthful(d)' = Truthful(d)
  BY DEF Truthful, EditsOf, LatestOpened
<1>2. EntrySound(q)
  BY DEF Inv, EntriesSound
<1>3. Truthful(NoData)
  <2>1. LatestOpened \in Nat
    BY DayParts DEF Inv, Typed
  <2>2. NoData.day = -1 /\ NoData.who = Nobody /\ NoData.edits = 0
    BY NoDataParts DEF Unknown
  <2> QED BY <2>1, <2>2 DEF Truthful, EditsOf
<1>4. ASSUME NEW x \in wire, x.query = q
      PROVE  Addressed(q, x.deps, x.answer) /\ Truthful(x.answer)
  BY <1>4 DEF Inv, QueriesSound, QuerySound
<1>5. Addressed(q, entry'[q].deps, entry'[q].data) /\ Truthful(entry'[q].data)
  <2>1. CASE entry'[q].data = NoData
    BY <1>3, <2>1 DEF Addressed
  <2>2. CASE entry'[q].data = entry[q].data /\ entry'[q].deps = entry[q].deps
    BY <1>2, <2>2 DEF EntrySound
  <2> QED BY <1>4, <2>1, <2>2 DEF Accepting
<1> QED BY <1>1, <1>5 DEF EntrySound, Truthful, EditsOf, LatestOpened
-----------------------------------------------------------------------------
(* Results that are waited for *)

\* A query is asked again; or its result stays, is received, or fails.
Pursuing(q, rest, dropped, qs) ==
    \/ q \in qs
    \/ /\ q \notin dropped /\ Enabled(q, who)
       /\ Deps(page', q, who', code') = Deps(page, q, who, code)
       /\ \/ entry'[q] = entry[q] /\ \A r \in wire \ rest : r.query # q \/ ~r.current
          \/ \E x \in wire : /\ x.query = q /\ x.current /\ ~Pending(x)
                            /\ entry'[q] = [deps |-> x.deps, data |-> x.answer, error |-> FALSE]
          \/ entry'[q].error = TRUE

LEMMA PursuedIsAwaited ==
    ASSUME Inv, NEW rest, NEW dropped, NEW qs, Asking(rest, dropped, qs), page' = page,
           NEW q \in OnPage(page), q \in Queries, Pursuing(q, rest, dropped, qs), Enabled(q, who'),
           NEW wanted, q \in qs \/ Awaited(q, wanted)
    PROVE  Awaited(q, wanted)'
<1>1. CASE q \in qs
  <2>1. Asked(page', q, who', code') \in wire' /\ q \in dropped
    BY <1>1 DEF Asking, Runs
  <2>2. Fresh(Asked(page', q, who', code'), q, page', who', code')
    BY AskedParts DEF Asking
  <2>3. ASSUME NEW x \in wire', x.current, x.query = q PROVE Pending(x)
    <3>1. CASE \E z \in qs : Fresh(x, z, page', who', code')
      BY <3>1 DEF Fresh
    <3>2. CASE \E r \in rest : Left(x, r, dropped)
      BY <2>1, <2>3, <3>2 DEF Left
    <3> QED BY <3>1, <3>2, AskingParts
  <2> QED BY <2>1, <2>2, <2>3 DEF Fresh, Awaited, Pending
<1>2. CASE q \notin qs
  <2>1. /\ q \notin dropped /\ Enabled(q, who) /\ Awaited(q, wanted)
        /\ Deps(page', q, who', code') = Deps(page, q, who, code)
    BY <1>2 DEF Pursuing
  <2>2. ASSUME NEW x \in wire', x.current, x.query = q PROVE x \in wire
    <3>1. CASE \E z \in qs : Fresh(x, z, page', who', code')
      BY <1>2, <2>2, <3>1 DEF Fresh
    <3>2. CASE \E r \in rest : Left(x, r, dropped)
      BY <2>1, <2>2, <3>2 DEF Left, Asking
    <3> QED BY <3>1, <3>2, AskingParts
  <2>3. \A x \in wire' : x.current /\ x.query = q /\ ~Pending(x) => x.answer \in wanted
    BY <2>1, <2>2 DEF Awaited
  <2>4. OnPage(page)' = OnPage(page)
    BY DEF Asking, OnPage
  <2>5. CASE entry'[q] = entry[q] /\ \A r \in wire \ rest : r.query # q \/ ~r.current
    <3>1. ASSUME NEW r \in wire, r.current, r.query = q PROVE r \in wire'
      <4>1. r \in rest /\ rest \in SUBSET Request
        BY <2>5, <3>1 DEF Asking, Inv, Typed, WireTyped
      <4> QED BY <2>1, <3>1, <4>1, NotAnnounced DEF Asking
    <3>2. Current(q) => Current(q)'
      BY <2>1, <2>4, <2>5 DEF Current
    <3> QED BY <2>1, <2>3, <2>5, <3>1, <3>2 DEF Awaited, Pending
  <2>6. ASSUME NEW x \in wire, x.query = q, x.current, ~Pending(x),
               entry'[q] = [deps |-> x.deps, data |-> x.answer, error |-> FALSE]
        PROVE  Awaited(q, wanted)'
    <3>1. x.deps = Deps(page, q, who, code) /\ x.answer \in wanted
      BY <2>1, <2>6 DEF Inv, QueriesSound, QuerySound, Awaited
    <3>2. entry'[q] # NoEntry
      BY <2>6, NoEntryParts DEF Pending
    <3>3. Current(q)' /\ entry'[q].data \in wanted
      BY <2>1, <2>4, <2>6, <3>1, <3>2 DEF Current
    <3> QED BY <2>3, <3>3 DEF Awaited, Pending
  <2>7. CASE entry'[q].error = TRUE
    BY <2>3, <2>7 DEF Awaited, Pending
  <2> QED BY <1>2, <2>5, <2>6, <2>7 DEF Pursuing
<1> QED BY <1>1, <1>2

LEMMA OpeningStays ==
    ASSUME Inv, NEW rest, NEW dropped, NEW qs, Asking(rest, dropped, qs), page' = page,
           UNCHANGED <<seen, first>>,
           \A q \in OnPage(page) \cap Followed : Enabled(q, who') => Pursuing(q, rest, dropped, qs)
    PROVE  OpeningPursued'
<1>1. LatestOpened' = LatestOpened /\ OnPage(page)' = OnPage(page)
  BY DEF Asking, LatestOpened, OnPage
<1>2. PICK s : s = seen
  OBVIOUS
<1>3. ASSUME s > 0, s # first, NEW q \in OnPage(page) \cap Followed, Enabled(q, who')
      PROVE  Awaited(q, Since(s))'
  <2>1. Pursuing(q, rest, dropped, qs) /\ q \in Queries
    BY <1>3 DEF Followed, Queries
  <2>2. q \in qs \/ Awaited(q, Since(s))
    BY <1>2, <1>3, <2>1 DEF Pursuing, Inv, OpeningPursued
  <2> QED BY <1>3, <2>1, <2>2, PursuedIsAwaited
<1>4. seen' = s /\ first' = first
  BY <1>2
<1> QED BY <1>1, <1>2, <1>3, <1>4 DEF Inv, OpeningPursued, Since

LEMMA OrderStays ==
    ASSUME Inv, NEW rest, NEW dropped, NEW qs, Asking(rest, dropped, qs), page' = page,
           UNCHANGED <<who, acked>>,
           "portfolio" \in OnPage(page) /\ Enabled("portfolio", who') =>
              Pursuing("portfolio", rest, dropped, qs)
    PROVE  OrderPursued'
<1>1. EditsOf(who)' = EditsOf(who) /\ watched' = watched
  BY DEF Asking, EditsOf
<1>2. PICK n : n = acked
  OBVIOUS
<1>3. ASSUME n > 0, "portfolio" \in watched
      PROVE  /\ Awaited("portfolio", After(n))'
             /\ \A x \in wire' : x.current /\ x.query = "portfolio" => x.who = who
  <2>1. /\ page = "instrument" /\ Awaited("portfolio", After(n)) /\ who # Nobody
        /\ \A r \in wire : r.current /\ r.query = "portfolio" => r.who = who
    <3>1. acked > 0 /\ acked <= EditsOf(who) /\ acked \in Nat
      BY <1>2, <1>3, BoundAssumption DEF Inv, OrderPursued, Typed
    <3>2. who # Nobody
      BY <3>1 DEF EditsOf
    <3> QED BY <1>2, <1>3, <3>1, <3>2 DEF Inv, OrderPursued
  <2>2. "portfolio" \in OnPage(page) /\ "portfolio" \in Queries /\ Enabled("portfolio", who')
    BY <1>3, <2>1 DEF OnPage, InstrumentQueries, Queries, Enabled
  <2>3. Awaited("portfolio", After(n))'
    BY <2>1, <2>2, PursuedIsAwaited
  <2>4. ASSUME NEW x \in wire', x.current, x.query = "portfolio" PROVE x.who = who
    <3>1. CASE \E z \in qs : Fresh(x, z, page', who', code')
      BY <3>1 DEF Fresh
    <3>2. CASE \E r \in rest : Left(x, r, dropped)
      BY <2>1, <2>4, <3>2 DEF Left, Asking
    <3> QED BY <3>1, <3>2, AskingParts
  <2> QED BY <2>3, <2>4
<1>4. acked' = n /\ who' = who
  BY <1>2
<1> QED BY <1>1, <1>2, <1>3, <1>4 DEF Inv, OrderPursued, After
-----------------------------------------------------------------------------
(* One lemma for each kind of step *)

\* The parts that only the wire and the results decide.
LEMMA AskingKeeps ==
    ASSUME Inv, NEW rest, NEW dropped, NEW qs, Asking(rest, dropped, qs),
           \A q \in Queries : Accepting(q, rest),
           EntryTyped', SeenTyped', acked' \in 0 .. MaxEdits, OpeningPursued', OrderPursued'
    PROVE  Inv'
<1>1. UNCHANGED <<tick, edits, watched>> /\ page' \in Pages /\ who' \in Whos /\ code' \in Codes
  BY DEF Asking
<1>2. PostsSound' /\ OnePost' /\ WireTyped'
  BY AskingKeepsPosts
<1>3. QueriesSound' /\ OneCurrent'
  BY AskingKeepsQueries
<1>4. \A q \in Queries : EntrySound(q)'
  BY <1>1, AcceptingKeepsEntries
<1>5. Typed'
  BY <1>1, <1>2 DEF Inv, Typed, ServerTyped, RouteTyped
<1> QED BY <1>2, <1>3, <1>4, <1>5 DEF Inv, EntriesSound

LEMMA NoEntriesTyped == [q \in Queries |-> NoEntry] \in [Queries -> Entry]
BY NoEntryParts

LEMMA MountKeeps ==
    ASSUME Inv, NEW p \in Pages, NEW a \in Whos, Mount(p, a), who' = a, acked' = 0,
           UNCHANGED <<tick, edits, watched, code>>
    PROVE  Inv'
<1> DEFINE qs == {q \in OnPage(p) : Enabled(q, a)}
<1>1. /\ page' = p /\ entry' = [q \in Queries |-> NoEntry] /\ wire' = Runs(qs, p, a, code)
      /\ seen' = Unknown /\ first' = Unknown
  BY DEF Mount
<1>2. qs \subseteq Queries /\ qs \subseteq OnPage(page)'
  BY <1>1, PageQueries DEF OnPage
<1>3. code \in Codes
  BY DEF Inv, Typed, RouteTyped
<1> HIDE DEF qs
<1>4. Announced(qs, {}) = {}
  BY DEF Announced
<1>5. Asking({}, qs, qs)
  BY <1>1, <1>2, <1>3, <1>4 DEF Asking
<1>6. \A q \in Queries : Accepting(q, {})
  BY <1>1, NoEntryParts DEF Accepting
<1>7. EntryTyped' /\ SeenTyped' /\ acked' \in 0 .. MaxEdits
  BY <1>1, NoEntriesTyped, BoundAssumption DEF EntryTyped, SeenTyped, Unknown
<1>8. OpeningPursued'
  <2>1. LatestOpened' = LatestOpened /\ LatestOpened \in Nat
    BY DayParts DEF LatestOpened, Inv, Typed
  <2> QED BY <1>1, <2>1 DEF OpeningPursued, Unknown
<1>9. OrderPursued'
  <2>1. EditsOf(who)' \in Nat
    BY BoundAssumption DEF EditsOf, Inv, Typed, ServerTyped, Whos
  <2> QED BY <2>1 DEF OrderPursued
<1> QED BY <1>5, <1>6, <1>7, <1>8, <1>9, AskingKeeps

LEMMA RerenderKeeps ==
    ASSUME Inv, NEW a \in Whos, NEW c \in Codes, Rerender(a, c), who' = a, code' = c,
           UNCHANGED <<tick, edits, watched>>, c = code \/ page = "instrument",
           acked' = 0 \/ (a = who /\ acked' = acked)
    PROVE  Inv'
<1> DEFINE off == {q \in OnPage(page) : ~Enabled(q, a)}
<1> DEFINE changed == {q \in OnPage(page) \ off :
                         ~Enabled(q, who) \/ Deps(page, q, a, c) # Deps(page, q, who, code)}
<1> DEFINE dropped == off \cup changed
<1>1. /\ entry' = [q \in Queries |-> IF q \in off THEN NoEntry ELSE entry[q]]
      /\ wire' = Announced(dropped, wire) \cup Runs(changed, page, a, c)
      /\ UNCHANGED <<page, seen, first>>
  BY DEF Rerender
<1>2. page \in Pages /\ EntryTyped /\ SeenTyped /\ acked \in 0 .. MaxEdits
  BY DEF Inv, Typed, RouteTyped
<1>3. dropped \subseteq Queries /\ changed \subseteq OnPage(page)'
  BY <1>1, <1>2, PageQueries DEF OnPage
<1>4. ASSUME NEW q \in OnPage(page) \ dropped
      PROVE  /\ Enabled(q, a) /\ Enabled(q, who) /\ Deps(page, q, a, c) = Deps(page, q, who, code)
             /\ entry'[q] = entry[q]
  <2>1. q \in Queries /\ q \notin off
    BY <1>2, <1>4, PageQueries
  <2>2. entry'[q] = entry[q]
    BY <1>1, <2>1
  <2> QED BY <1>4, <2>2
<1>5. ASSUME NEW q \in OnPage(page), Enabled(q, a) PROVE q \notin off
  BY <1>5
<1>6. \A q \in Queries : entry'[q] = NoEntry \/ entry'[q] = entry[q]
  BY <1>1
<1>7. EntryTyped'
  <2>1. \A q \in Queries : (IF q \in off THEN NoEntry ELSE entry[q]) \in Entry
    BY <1>2, NoEntryParts DEF EntryTyped
  <2> QED BY <1>1, <2>1 DEF EntryTyped
<1>8. changed \subseteq dropped /\ \A q \in dropped : q \in off \/ q \in changed
  OBVIOUS
<1> HIDE DEF off, changed, dropped
<1>9. Asking(wire, dropped, changed)
  <2>1. ASSUME NEW r \in wire, r.current, r.query \in Queries \ dropped
        PROVE  Deps(page', r.query, who', code') = Deps(page, r.query, who, code)
    <3>1. r.query \in OnPage(page)
      BY <2>1 DEF Inv, QueriesSound, QuerySound
    <3> QED BY <1>1, <1>4, <2>1, <3>1
  <2>2. \A r \in wire : r.query = "mark" => code' = code
    BY DEF Inv, PostsSound, PostSound, Posts
  <2> QED BY <1>1, <1>2, <1>3, <1>8, <2>1, <2>2 DEF Asking
<1>10. \A q \in Queries : Accepting(q, wire)
  BY <1>6, NoEntryParts DEF Accepting
<1>11. ASSUME NEW q \in OnPage(page), Enabled(q, a) PROVE Pursuing(q, wire, dropped, changed)
  BY <1>1, <1>4, <1>5, <1>8, <1>11 DEF Pursuing
<1>12. OpeningPursued'
  BY <1>1, <1>9, <1>11, OpeningStays
<1>13. OrderPursued'
  <2>1. CASE acked' = 0
    <3>1. EditsOf(who)' \in Nat
      BY BoundAssumption DEF EditsOf, Inv, Typed, ServerTyped, Whos
    <3> QED BY <2>1, <3>1 DEF OrderPursued
  <2>2. CASE a = who /\ acked' = acked
    BY <1>1, <1>9, <1>11, <2>2, OrderStays
  <2> QED BY <2>1, <2>2
<1>14. SeenTyped' /\ acked' \in 0 .. MaxEdits
  BY <1>1, <1>2, BoundAssumption DEF SeenTyped
<1> QED BY <1>7, <1>9, <1>10, <1>12, <1>13, <1>14, AskingKeeps
\* run() on the page that stays, and an answer that leaves the wire.
LEMMA RunAsks ==
    ASSUME Inv, NEW rest \in SUBSET wire, NEW qs \in SUBSET OnPage(page), Run(qs, rest),
           UNCHANGED <<tick, edits, watched, who, page, code>>
    PROVE  Asking(rest, qs, qs)
<1>1. page \in Pages /\ who \in Whos /\ code \in Codes /\ OnPage(page)' = OnPage(page)
  BY DEF Inv, Typed, RouteTyped, OnPage
<1>2. qs \subseteq Queries
  BY <1>1, PageQueries
<1> QED BY <1>1, <1>2 DEF Asking, Run

LEMMA LeavingAsks ==
    ASSUME Inv, NEW rest \in SUBSET wire, wire' = rest,
           UNCHANGED <<tick, edits, watched, who, page, code>>
    PROVE  Asking(rest, {}, {})
<1>1. page \in Pages /\ who \in Whos /\ code \in Codes /\ rest \in SUBSET Request
  BY DEF Inv, Typed, RouteTyped, WireTyped
<1>2. Announced({}, rest) = rest /\ Runs({}, page', who', code') = {}
  BY <1>1, AnnouncedNone DEF Runs
<1> QED BY <1>1, <1>2 DEF Asking

\* Steps that change no result and let an answer go that is none of a current request.
LEMMA SameResults ==
    ASSUME Inv, NEW rest, NEW dropped, NEW qs, Asking(rest, dropped, qs), qs = dropped,
           UNCHANGED <<entry, seen, first, who, page, code, acked>>,
           \A r \in wire \ rest : r.query \notin Queries \/ ~r.current
    PROVE  Inv'
<1>1. \A q \in Queries : Accepting(q, rest)
  BY DEF Accepting
<1>2. EntryTyped' /\ SeenTyped' /\ acked' \in 0 .. MaxEdits
  BY DEF Inv, Typed, EntryTyped, SeenTyped
<1>3. ASSUME NEW q \in Queries, Enabled(q, who') PROVE Pursuing(q, rest, dropped, qs)
  BY <1>3 DEF Pursuing
<1>4. OpeningPursued'
  BY <1>3, OpeningStays DEF Followed, Queries
<1>5. OrderPursued'
  BY <1>3, OrderStays DEF Queries
<1> QED BY <1>1, <1>2, <1>4, <1>5, AskingKeeps

LEMMA PollKeeps ==
    ASSUME Inv, NEW q \in Queries, Poll(q)
    PROVE  Inv'
<1>1. {q} \in SUBSET OnPage(page) /\ wire \in SUBSET wire
  BY OnPageQueries DEF Poll
<1>2. Asking(wire, {q}, {q})
  BY <1>1, RunAsks DEF Poll, server
<1> QED BY <1>2, SameResults DEF Poll

LEMMA FailKeeps ==
    ASSUME Inv, NEW r \in wire, Fail(r)
    PROVE  Inv'
<1> DEFINE rest == wire \ {r}
<1>1. wire' = rest /\ UNCHANGED <<tick, edits, watched, who, page, code, seen, first, acked>>
  BY DEF Fail, server
<1>2. Asking(rest, {}, {})
  BY <1>1, LeavingAsks
<1>3. CASE ~(r.current /\ r.query \in Queries)
  <2>1. UNCHANGED entry
    BY <1>3 DEF Fail, Failed
  <2> QED BY <1>1, <1>2, <1>3, <2>1, SameResults
<1>4. CASE r.current /\ r.query \in Queries
  <2> DEFINE e == entry[r.query]
  <2> DEFINE data == IF e # NoEntry /\ e.deps = r.deps THEN e.data ELSE NoData
  <2>1. entry' = [entry EXCEPT ![r.query] = [deps |-> r.deps, error |-> TRUE, data |-> data]]
    BY <1>4 DEF Fail, Failed
  <2>2. e \in Entry /\ r \in Request /\ EntryTyped
    BY <1>4 DEF Inv, Typed, EntryTyped, WireTyped
  <2>3. data = NoData \/ (data = e.data /\ e.deps = r.deps)
    OBVIOUS
  <2>4. data \in Answers /\ r.deps \in Dependencies
    BY <2>2, NoDataParts, RequestParts DEF Entry
  <2> HIDE DEF data
  <2>5. /\ entry'[r.query].data = data /\ entry'[r.query].deps = r.deps
        /\ entry'[r.query].error = TRUE
        /\ \A q \in Queries : q # r.query => entry'[q] = entry[q]
    BY <1>4, <2>1, <2>2 DEF EntryTyped
  <2>6. \A q \in Queries : Accepting(q, rest)
    BY <2>3, <2>5 DEF Accepting
  <2>7. EntryTyped'
    BY <1>4, <2>1, <2>2, <2>4 DEF EntryTyped, Entry
  <2>8. SeenTyped' /\ acked' \in 0 .. MaxEdits
    BY <1>1 DEF Inv, Typed, SeenTyped
  <2>9. ASSUME NEW q \in Queries, Enabled(q, who') PROVE Pursuing(q, rest, {}, {})
    BY <1>1, <2>5, <2>9 DEF Pursuing
  <2>10. OpeningPursued'
    BY <1>1, <1>2, <2>9, OpeningStays DEF Followed, Queries
  <2>11. OrderPursued'
    BY <1>1, <1>2, <2>9, OrderStays DEF Queries
  <2> QED BY <1>2, <2>6, <2>7, <2>8, <2>10, <2>11, AskingKeeps
<1> QED BY <1>3, <1>4

LEMMA ReceiveFillKeeps ==
    ASSUME Inv, NEW r \in wire, ReceiveFill(r)
    PROVE  Inv'
<1> DEFINE rest == wire \ {r}
<1> DEFINE qs == AskedAfterFill \cap OnPage(page)
<1>1. /\ Run(qs, rest) /\ UNCHANGED <<tick, edits, watched, who, page, code, entry, seen, first>>
      /\ ~Pending(r) /\ r.query = "fill" /\ acked' = IF r.who = who THEN r.answer.edits ELSE acked
  BY DEF ReceiveFill, server
<1>2. Asking(rest, qs, qs)
  BY <1>1, RunAsks
<1>3. r.query \in Posts /\ r.query \notin Queries
  BY <1>1 DEF Posts, Queries
<1>4. /\ page = "instrument" /\ r.who \in Accounts /\ r.answer.edits <= edits[r.who]
      /\ r \in Request /\ r.answer.edits \in 0 .. MaxEdits
  BY <1>1, <1>3, RequestParts, AnswersParts DEF Inv, PostsSound, PostSound, Typed, WireTyped
<1> HIDE DEF qs
<1>5. CASE r.who # who
  <2>1. acked' = acked
    BY <1>1, <1>5
  <2> QED BY <1>1, <1>2, <1>3, <2>1, SameResults
<1>6. CASE r.who = who
  <2>1. \A q \in Queries : Accepting(q, rest)
    BY <1>1 DEF Accepting
  <2>2. EntryTyped' /\ SeenTyped' /\ acked' \in 0 .. MaxEdits
    BY <1>1, <1>4, <1>6 DEF Inv, Typed, EntryTyped, SeenTyped
  <2>3. ASSUME NEW q \in Queries, Enabled(q, who') PROVE Pursuing(q, rest, qs, qs)
    BY <1>1, <1>3, <2>3 DEF Pursuing
  <2>4. OpeningPursued'
    BY <1>1, <1>2, <2>3, OpeningStays DEF Followed, Queries
  <2>5. OrderPursued'
    <3>1. PICK n : n = acked'
      OBVIOUS
    <3>2. EditsOf(who)' = edits[who] /\ n <= edits[who]
      BY <1>1, <1>4, <1>6, <3>1, BoundAssumption DEF EditsOf
    <3>3. ASSUME "portfolio" \in watched
          PROVE  /\ Awaited("portfolio", After(n))'
                 /\ \A x \in wire' : x.current /\ x.query = "portfolio" => x.who = who
      <4>1. "portfolio" \in OnPage(page) /\ "portfolio" \in Queries /\ "portfolio" \in qs
        BY <1>4, <3>3 DEF OnPage, InstrumentQueries, Queries, AskedAfterFill, qs
      <4>2. Enabled("portfolio", who') /\ Pursuing("portfolio", rest, qs, qs)
        BY <1>1, <1>4, <1>6, <4>1, BoundAssumption DEF Enabled, Pursuing
      <4>3. Awaited("portfolio", After(n))'
        BY <1>1, <1>2, <4>1, <4>2, PursuedIsAwaited
      <4>4. ASSUME NEW x \in wire', x.current, x.query = "portfolio" PROVE x.who = who
        <5>1. CASE \E z \in qs : Fresh(x, z, page', who', code')
          BY <1>1, <5>1 DEF Fresh
        <5>2. CASE \E z \in rest : Left(x, z, qs)
          BY <4>1, <4>4, <5>2 DEF Left
        <5> QED BY <1>2, <5>1, <5>2, AskingParts
      <4> QED BY <4>3, <4>4
    <3> QED BY <1>1, <1>4, <3>1, <3>2, <3>3 DEF OrderPursued
  <2> QED BY <1>2, <2>1, <2>2, <2>4, <2>5, AskingKeeps
<1> QED BY <1>5, <1>6

LEMMA ReceiveMarkKeeps ==
    ASSUME Inv, NEW r \in wire, ReceiveMark(r)
    PROVE  Inv'
<1> DEFINE rest == wire \ {r}
<1>1. /\ wire' = rest /\ UNCHANGED <<tick, edits, watched, who, page, code, seen, first, acked>>
      /\ ~Pending(r) /\ r.query = "mark"
      /\ entry' = IF r.who # who THEN entry ELSE SetData("notifications", r.answer)
  BY DEF ReceiveMark, server
<1>2. Asking(rest, {}, {})
  BY <1>1, LeavingAsks
<1>3. r.query \in Posts /\ r.query \notin Queries
  BY <1>1 DEF Posts, Queries
<1>4. CASE r.who # who
  <2>1. UNCHANGED entry
    BY <1>1, <1>4
  <2> QED BY <1>1, <1>2, <1>3, <2>1, SameResults
<1>5. CASE r.who = who
  <2> DEFINE q0 == "notifications"
  <2>1. entry' = [entry EXCEPT ![q0] = [deps |-> Deps(page, q0, who, code), data |-> r.answer, error |-> FALSE]]
    BY <1>1, <1>5 DEF SetData
  <2>2. /\ r.who \in Accounts /\ r.answer.who = r.who /\ r.answer.edits <= edits[r.who]
        /\ r.answer.day = 0 /\ r.answer \in Answers
    BY <1>1, <1>3, RequestParts DEF Inv, PostsSound, PostSound, Typed, WireTyped
  <2>3. Deps(page, q0, who, code) = <<Status(who), who>> /\ Deps(page, q0, who, code) \in Dependencies
    BY DepsOf, DepsType DEF Inv, Typed, RouteTyped, Queries
  <2>4. EntryTyped /\ q0 \in Queries
    BY DEF Inv, Typed, Queries
  <2>5. /\ entry'[q0].data = r.answer /\ entry'[q0].deps = <<Status(who), who>>
        /\ \A q \in Queries : q # q0 => entry'[q] = entry[q]
    BY <2>1, <2>3, <2>4 DEF EntryTyped
  <2>6. EntryTyped'
    BY <2>1, <2>2, <2>3, <2>4 DEF EntryTyped, Entry
  <2>7. Truthful(r.answer)
    <3>1. LatestOpened \in Nat
      BY DayParts DEF Inv, Typed
    <3>2. r.answer.who # Nobody
      BY <2>2, BoundAssumption
    <3> QED BY <2>2, <3>1, <3>2 DEF Truthful, EditsOf
  <2>8. \A q \in Queries : Accepting(q, rest)
    <3>1. Accepting(q0, rest)
      BY <1>5, <2>2, <2>5, <2>7 DEF Accepting, Addressed
    <3>2. ASSUME NEW q \in Queries, q # q0 PROVE Accepting(q, rest)
      BY <2>5, <3>2 DEF Accepting
    <3> QED BY <3>1, <3>2
  <2>9. SeenTyped' /\ acked' \in 0 .. MaxEdits
    BY <1>1 DEF Inv, Typed, SeenTyped
  <2>10. ASSUME NEW q \in Queries \ {q0}, Enabled(q, who') PROVE Pursuing(q, rest, {}, {})
    BY <1>1, <1>3, <2>5, <2>10 DEF Pursuing
  <2>11. OpeningPursued'
    BY <1>1, <1>2, <2>10, OpeningStays DEF Followed, Queries
  <2>12. OrderPursued'
    BY <1>1, <1>2, <2>10, OrderStays DEF Queries
  <2> QED BY <1>2, <2>6, <2>8, <2>9, <2>11, <2>12, AskingKeeps
<1> QED BY <1>4, <1>5
\* A result that is accepted, whether or not its page then asks for more.
LEMMA ResultKeeps ==
    ASSUME Inv, NEW r \in wire, r.current, ~Pending(r), r.query \in Queries,
           NEW qs, Asking(wire \ {r}, qs, qs), UNCHANGED <<who, page, code, acked>>,
           entry' = [entry EXCEPT ![r.query] =
                       [deps |-> r.deps, data |-> r.answer, error |-> FALSE]]
    PROVE  /\ \A q \in Queries : Accepting(q, wire \ {r})
           /\ \A q \in Queries : Enabled(q, who) => Pursuing(q, wire \ {r}, qs, qs)
           /\ EntryTyped' /\ acked' \in 0 .. MaxEdits /\ OrderPursued'
<1> DEFINE rest == wire \ {r}
<1>1. EntryTyped /\ r \in Request /\ r.deps \in Dependencies /\ r.answer \in Answers
  BY RequestParts DEF Inv, Typed, WireTyped
<1>2. /\ entry'[r.query] = [deps |-> r.deps, data |-> r.answer, error |-> FALSE]
      /\ \A q \in Queries : q # r.query => entry'[q] = entry[q]
  BY <1>1 DEF EntryTyped
<1>3. EntryTyped'
  BY <1>1 DEF EntryTyped, Entry
<1>4. ASSUME NEW q \in Queries PROVE Accepting(q, rest)
  BY <1>2 DEF Accepting
<1>5. ASSUME NEW q \in Queries, Enabled(q, who) PROVE Pursuing(q, rest, qs, qs)
  BY <1>2, <1>5 DEF Pursuing
<1>6. OrderPursued'
  BY <1>5, OrderStays DEF Queries
<1> QED BY <1>3, <1>4, <1>5, <1>6 DEF Inv, Typed

LEMMA ReceiveKeeps ==
    ASSUME Inv, NEW r \in wire, Receive(r)
    PROVE  Inv'
<1> DEFINE rest == wire \ {r}
<1> DEFINE day == IF r.query = "event" THEN r.answer.day ELSE Unknown
<1>1. /\ ~Pending(r) /\ r.query \in Queries
      /\ UNCHANGED <<tick, edits, watched, who, page, code, acked>>
  BY DEF Receive, server
<1>2. CASE ~r.current
  <2>1. wire' = rest /\ UNCHANGED <<entry, seen, first>>
    BY <1>2 DEF Receive
  <2>2. Asking(rest, {}, {})
    BY <1>1, <2>1, LeavingAsks
  <2> QED BY <1>1, <1>2, <2>1, <2>2, SameResults
<1>3. CASE r.current
  <2>1. /\ entry' = [entry EXCEPT ![r.query] =
                        [deps |-> r.deps, data |-> r.answer, error |-> FALSE]]
        /\ SeeDay(day, rest)
    BY <1>3 DEF Receive
  <2>2. SeenTyped /\ r.answer \in Answers /\ r.answer.day \in Unknown .. LastDay
    BY RequestParts, AnswersParts DEF Inv, Typed, WireTyped
  <2>3. day \in Unknown .. LastDay /\ day <= LatestOpened
    <3>1. Truthful(r.answer)
      BY <1>1 DEF Inv, QueriesSound, QuerySound
    <3>2. LatestOpened \in Nat /\ LastDay \in Nat
      BY DayParts, BoundAssumption DEF Inv, Typed
    <3> QED BY <2>2, <3>1, <3>2 DEF Truthful, Unknown
  <2> HIDE DEF day
  <2>4. CASE day = Unknown \/ page \notin {"instrument", "portfolio"}
    <3>1. wire' = rest /\ UNCHANGED <<seen, first>>
      BY <2>1, <2>4 DEF SeeDay
    <3>2. Asking(rest, {}, {})
      BY <1>1, <3>1, LeavingAsks
    <3>3. /\ \A q \in Queries : Accepting(q, rest)
          /\ \A q \in Queries : Enabled(q, who) => Pursuing(q, rest, {}, {})
          /\ EntryTyped' /\ acked' \in 0 .. MaxEdits /\ OrderPursued'
      BY <1>1, <1>3, <2>1, <3>2, ResultKeeps
    <3>4. OpeningPursued'
      BY <1>1, <3>1, <3>2, <3>3, OpeningStays DEF Followed, Queries
    <3>5. SeenTyped'
      BY <2>2, <3>1 DEF SeenTyped
    <3> QED BY <3>2, <3>3, <3>4, <3>5, AskingKeeps
  <2>5. CASE day # Unknown /\ page \in {"instrument", "portfolio"}
    <3> DEFINE qs == IF seen # Unknown /\ day # NotOpened /\ day # seen THEN OnOpen(page, who) ELSE {}
    <3>1. seen' = day /\ first' = (IF first = Unknown THEN day ELSE first) /\ Run(qs, rest)
      BY <2>1, <2>5 DEF SeeDay
    <3>2. qs \in SUBSET OnPage(page) /\ qs \subseteq Queries
      <4>1. OnOpen(page, who) \subseteq OnPage(page)
        BY OnPageQueries
      <4>2. OnPage(page) \subseteq Queries
        BY PageQueries DEF Inv, Typed, RouteTyped
      <4> QED BY <4>1, <4>2
    <3>3. seen # Unknown /\ day # NotOpened /\ day # seen => qs = OnOpen(page, who)
      OBVIOUS
    <3> HIDE DEF qs
    <3>4. Asking(rest, qs, qs)
      BY <1>1, <3>1, <3>2, RunAsks
    <3>5. /\ \A q \in Queries : Accepting(q, rest)
          /\ \A q \in Queries : Enabled(q, who) => Pursuing(q, rest, qs, qs)
          /\ EntryTyped' /\ acked' \in 0 .. MaxEdits /\ OrderPursued'
      BY <1>1, <1>3, <2>1, <3>4, ResultKeeps
    <3>6. SeenTyped'
      BY <2>2, <2>3, <3>1 DEF SeenTyped
    <3>7. OpeningPursued'
      <4>1. LatestOpened' = LatestOpened /\ (first = Unknown <=> seen = Unknown)
        BY <1>1 DEF LatestOpened, Inv, OpeningPursued
      <4>2. seen' <= LatestOpened' /\ (first' = Unknown <=> seen' = Unknown)
        BY <2>3, <2>5, <3>1, <4>1
      <4>3. CASE day = seen
        <5>1. UNCHANGED <<seen, first>>
          BY <2>5, <3>1, <4>1, <4>3
        <5> QED BY <1>1, <3>4, <3>5, <5>1, OpeningStays DEF Followed, Queries
      <4>4. ASSUME day # seen, day > 0, day # first', NEW q \in OnPage(page) \cap Followed,
                   Enabled(q, who)
            PROVE  q \in qs
        <5>1. seen # Unknown /\ day # NotOpened
          BY <3>1, <4>1, <4>4 DEF NotOpened
        <5>2. qs = OnOpen(page, who)
          BY <3>3, <4>4, <5>1
        <5>3. CASE page = "instrument"
          BY <4>4, <5>2, <5>3 DEF OnOpen, Followed, Enabled, Personal
        <5>4. CASE page = "portfolio"
          BY <4>4, <5>2, <5>4 DEF OnOpen, OnPage, PortfolioQueries, Followed
        <5> QED BY <2>5, <5>3, <5>4
      <4>5. CASE day # seen
        <5>1. PICK s : s = day
          OBVIOUS
        <5>2. ASSUME s > 0, s # first', NEW q \in OnPage(page) \cap Followed, Enabled(q, who')
              PROVE  Awaited(q, Since(s))'
          <6>1. q \in qs /\ q \in Queries
            BY <1>1, <3>2, <4>4, <4>5, <5>1, <5>2
          <6>2. Pursuing(q, rest, qs, qs)
            BY <6>1 DEF Pursuing
          <6> QED BY <1>1, <3>4, <5>2, <6>1, <6>2, PursuedIsAwaited
        <5>3. OnPage(page)' = OnPage(page) /\ seen' = s /\ page' = page
          BY <1>1, <3>1, <5>1 DEF OnPage
        <5> QED BY <4>2, <5>2, <5>3 DEF OpeningPursued
      <4> QED BY <4>3, <4>5
    <3> QED BY <3>4, <3>5, <3>6, <3>7, AskingKeeps
  <2> QED BY <2>4, <2>5
<1>4. r.current \in BOOLEAN
  BY RequestParts DEF Inv, Typed, WireTyped
<1> QED BY <1>2, <1>3, <1>4
-----------------------------------------------------------------------------
(* The server *)

\* The clock and the edits only grow.
Grows ==
    /\ ServerTyped' /\ tick' >= tick
    /\ \A a \in Accounts : edits'[a] >= edits[a]

Shown == <<watched, who, page, code, entry, seen, first, acked>>

LEMMA LaterIsNoLess ==
    ASSUME Inv, Grows
    PROVE  /\ LatestOpened' >= LatestOpened /\ LatestOpened \in Nat /\ LatestOpened' \in Nat
           /\ \A a \in Whos : /\ EditsOf(a)' >= EditsOf(a)
                             /\ EditsOf(a) \in Nat /\ EditsOf(a)' \in Nat
<1>1. LatestOpened' >= LatestOpened /\ LatestOpened \in Nat /\ LatestOpened' \in Nat
  <2>1. tick \in Nat /\ tick' \in Nat /\ tick' >= tick
    BY BoundAssumption DEF Grows, ServerTyped, Inv, Typed
  <2>2. ASSUME NEW m \in Nat, NEW n \in Nat, n >= m
        PROVE  /\ (n + 1) \div 2 >= (m + 1) \div 2
               /\ (m + 1) \div 2 \in Nat /\ (n + 1) \div 2 \in Nat
    BY <2>2
  <2>3. LatestOpened = (tick + 1) \div 2 /\ LatestOpened' = (tick' + 1) \div 2
    BY DEF LatestOpened
  <2> QED BY <2>1, <2>2, <2>3
<1>2. ASSUME NEW a \in Whos
      PROVE  EditsOf(a)' >= EditsOf(a) /\ EditsOf(a) \in Nat /\ EditsOf(a)' \in Nat
  BY BoundAssumption DEF Grows, ServerTyped, EditsOf, Inv, Typed, Whos
<1> QED BY <1>1, <1>2

LEMMA TruthStays ==
    ASSUME Inv, Grows, NEW d \in Answers, Truthful(d)
    PROVE  Truthful(d)'
<1>1. d.who \in Whos /\ d.day \in Int /\ d.edits \in Int
  BY AnswersParts
<1>2. d.day <= LatestOpened'
  <2>1. LatestOpened' >= LatestOpened /\ LatestOpened \in Nat /\ LatestOpened' \in Nat
    BY LaterIsNoLess
  <2> QED BY <1>1, <2>1 DEF Truthful
<1>3. d.edits <= EditsOf(d.who)'
  <2>1. EditsOf(d.who)' >= EditsOf(d.who) /\ EditsOf(d.who) \in Nat /\ EditsOf(d.who)' \in Nat
    BY <1>1, LaterIsNoLess
  <2> QED BY <1>1, <2>1 DEF Truthful
<1> QED BY <1>2, <1>3 DEF Truthful

\* What the hooks hold and ask for stays when only the server or the posts move.
LEMMA QueriesStay ==
    ASSUME Inv, Grows, UNCHANGED Shown,
           \A x \in wire' : x.query \in Queries => x \in wire,
           \A x \in wire : x.query \in Queries => x \in wire'
    PROVE  QueriesSound' /\ EntriesSound' /\ OneCurrent' /\ OpeningPursued' /\ OrderPursued'
<1>1. UNCHANGED <<watched, who, page, code, entry, seen, first, acked>> /\ OnPage(page)' = OnPage(page)
  BY DEF Shown, OnPage
<1>2. ASSUME NEW x \in wire' PROVE QuerySound(x)' /\ InOrder(x)'
  <2>1. CASE x.query \notin Queries
    BY <2>1 DEF QuerySound, InOrder, Ordered, Queries
  <2>2. CASE x.query \in Queries
    <3>1. x \in wire /\ QuerySound(x) /\ InOrder(x) /\ x.answer \in Answers
      BY <2>2, RequestParts DEF Inv, QueriesSound, Typed, WireTyped
    <3>2. Truthful(x.answer)'
      BY <2>2, <3>1, TruthStays DEF QuerySound
    <3> QED BY <1>1, <3>1, <3>2 DEF QuerySound, InOrder, Pending
  <2> QED BY <2>1, <2>2
<1>3. ASSUME NEW q \in Queries PROVE EntrySound(q)'
  <2>1. EntrySound(q) /\ entry[q].data \in Answers
    BY DEF Inv, EntriesSound, Typed, EntryTyped, Entry
  <2>2. Truthful(entry[q].data)'
    BY <1>1, <2>1, TruthStays DEF EntrySound, Truthful, EditsOf
  <2> QED BY <1>1, <2>1, <2>2 DEF EntrySound
<1>4. OneCurrent'
  BY DEF Inv, OneCurrent
<1>5. ASSUME NEW q \in Queries, NEW wanted, Awaited(q, wanted) PROVE Awaited(q, wanted)'
  <2>1. Current(q)' = Current(q)
    BY <1>1 DEF Current
  <2> QED BY <1>1, <1>5, <2>1 DEF Awaited, Pending
<1>6. OpeningPursued'
  <2>1. PICK s : s = seen
    OBVIOUS
  <2>2. seen \in Int /\ seen' <= LatestOpened'
    <3>1. seen \in Int /\ seen <= LatestOpened
      BY BoundAssumption DEF Inv, Typed, SeenTyped, OpeningPursued, Unknown
    <3> QED BY <1>1, <3>1, LaterIsNoLess
  <2>3. ASSUME s > 0, s # first, NEW q \in OnPage(page) \cap Followed, Enabled(q, who)
        PROVE  Awaited(q, Since(s))'
    BY <1>5, <2>1, <2>3 DEF Inv, OpeningPursued, Followed, Queries
  <2> QED BY <1>1, <2>1, <2>2, <2>3 DEF Inv, OpeningPursued
<1>7. OrderPursued'
  <2>1. PICK n : n = acked
    OBVIOUS
  <2>2. acked' <= EditsOf(who)'
    <3>1. acked \in Int /\ acked <= EditsOf(who) /\ who \in Whos
      BY BoundAssumption DEF Inv, Typed, RouteTyped, OrderPursued
    <3>2. EditsOf(who)' >= EditsOf(who) /\ EditsOf(who) \in Nat /\ EditsOf(who)' \in Nat
      BY <1>1, <3>1, LaterIsNoLess DEF EditsOf
    <3> QED BY <1>1, <3>1, <3>2
  <2>3. ASSUME n > 0, "portfolio" \in watched PROVE Awaited("portfolio", After(n))'
    BY <1>5, <2>1, <2>3 DEF Inv, OrderPursued, Queries
  <2>4. \A x \in wire' : x.query = "portfolio" => x \in wire
    BY DEF Queries
  <2> QED BY <1>1, <2>1, <2>2, <2>3, <2>4 DEF Inv, OrderPursued
<1> QED BY <1>2, <1>3, <1>4, <1>6, <1>7 DEF QueriesSound, EntriesSound

LEMMA AdvanceKeeps ==
    ASSUME Inv, Advance
    PROVE  Inv'
<1>1. UNCHANGED <<edits, Shown, wire>> /\ tick' = tick + 1
  BY DEF Advance, Shown
<1>2. Grows
  BY <1>1, BoundAssumption DEF Advance, Grows, ServerTyped, Inv, Typed
<1>3. QueriesSound' /\ EntriesSound' /\ OneCurrent' /\ OpeningPursued' /\ OrderPursued'
  BY <1>1, <1>2, QueriesStay
<1>4. Typed'
  BY <1>1, <1>2 DEF Grows, Shown, Inv, Typed, RouteTyped, SeenTyped, EntryTyped, WireTyped
<1>5. PostsSound' /\ OnePost'
  BY <1>1 DEF Shown, Inv, PostsSound, PostSound, OnePost, Pending
<1> QED BY <1>3, <1>4, <1>5 DEF Inv

LEMMA PostKeeps ==
    ASSUME Inv, NEW kind \in Posts, Post(kind)
    PROVE  Inv'
<1>0. PICK m : m = [Asked(page, "orders", who, code) EXCEPT !.query = kind]
  OBVIOUS
<1>1. /\ wire' = wire \cup {m} /\ UNCHANGED <<tick, edits, Shown>>
      /\ who # Nobody /\ edits[who] < MaxEdits /\ \A r \in wire : r.query # "fill"
      /\ kind = "fill" => page = "instrument"
      /\ kind = "mark" => page = "market"
  BY <1>0 DEF Post, Shown, server, MayOrder, MayMark, Posts
<1>2. page \in Pages /\ who \in Whos /\ code \in Codes /\ wire \subseteq Request
  BY DEF Inv, Typed, RouteTyped, WireTyped
<1>3. /\ m \in Request /\ m.query = kind /\ m.deps = <<>> /\ m.who = who /\ m.code = code
      /\ m.current = TRUE /\ m.answer = NoData
  <2>1. Asked(page, "orders", who, code) \in Request
        /\ Fresh(Asked(page, "orders", who, code), "orders", page, who, code)
    BY <1>2, AskedParts DEF Queries
  <2> QED BY <1>0, <2>1, DepsOf DEF Fresh, Request
<1>4. m.query \notin Queries /\ m.query \in Posts /\ who \in Accounts
  BY <1>1, <1>2, <1>3 DEF Queries, Posts, Whos
<1>5. Grows
  BY <1>1, BoundAssumption DEF Grows, ServerTyped, Inv, Typed
<1>6. QueriesSound' /\ EntriesSound' /\ OneCurrent' /\ OpeningPursued' /\ OrderPursued'
  BY <1>1, <1>4, <1>5, QueriesStay
<1>7. Typed'
  BY <1>1, <1>3 DEF Shown, Inv, Typed, ServerTyped, RouteTyped, SeenTyped, EntryTyped, WireTyped
<1>8. PostSound(m)'
  BY <1>1, <1>3, <1>4 DEF PostSound, Shown, Pending
<1>9. PostsSound'
  <2>1. ASSUME NEW r \in wire PROVE PostSound(r)'
    BY <1>1, <2>1 DEF Shown, Inv, PostsSound, PostSound, Pending
  <2> QED BY <1>1, <1>8, <2>1 DEF PostsSound
<1>10. OnePost'
  <2>1. ASSUME NEW r \in wire, r.query \in Posts, Pending(r), r.who = who PROVE r = m
    <3>1. PostSound(r) /\ r \in Request
      BY <1>2 DEF Inv, PostsSound
    <3>2. r.query = "mark" /\ kind = "mark"
      BY <1>1, <2>1, <3>1 DEF Posts, PostSound
    <3>3. r.deps = <<>> /\ r.code = code /\ r.current = TRUE /\ r.answer = NoData
      BY <2>1, <3>1, <3>2 DEF PostSound, Pending
    <3> QED BY <1>3, <2>1, <3>1, <3>2, <3>3 DEF Request
  <2> QED BY <1>1, <1>3, <2>1 DEF Inv, OnePost, Pending
<1> QED BY <1>6, <1>7, <1>9, <1>10 DEF Inv

LEMMA ServePostKeeps ==
    ASSUME Inv, NEW r \in wire, ServePost(r)
    PROVE  Inv'
<1>a. PICK b : b = Answer("notifications", r.who, r.code)
  OBVIOUS
<1>b. PICK a : a = [b EXCEPT !.edits = @ + 1]
  OBVIOUS
<1>c. PICK m : m = [r EXCEPT !.answer = a]
  OBVIOUS
<1>1. /\ Pending(r) /\ r.query \in Posts /\ edits' = [edits EXCEPT ![r.who] = @ + 1]
      /\ wire' = (wire \ {r}) \cup {m} /\ UNCHANGED <<tick, Shown>>
  BY <1>a, <1>b, <1>c DEF ServePost, Shown
<1>2. /\ r \in Request /\ r.who \in Accounts /\ r.code \in Codes /\ edits[r.who] < MaxEdits
      /\ PostSound(r) /\ r.who \in Whos
  BY <1>1, RequestParts DEF Inv, PostsSound, PostSound, Typed, WireTyped, Whos
<1>3. edits \in [Accounts -> 0 .. MaxEdits] /\ MaxEdits \in Nat
  BY BoundAssumption DEF Inv, Typed, ServerTyped
<1>4. /\ a \in Answers /\ a.who = r.who /\ a.day = 0 /\ a.edits = edits[r.who] + 1
      /\ a # NoData
  <2>1. /\ b \in Answers /\ b.who = r.who /\ b.day = 0 /\ b.edits = edits[r.who]
    <3>1. EditsOf(r.who) = edits[r.who]
      BY <1>2, BoundAssumption DEF EditsOf
    <3> QED BY <1>a, <1>2, <3>1, AnswerParts DEF Inv, Typed, Queries
  <2>3. b.edits + 1 \in 0 .. MaxEdits
    BY <1>2, <1>3, <2>1
  <2>4. a \in Answers /\ a.who = r.who /\ a.day = 0 /\ a.edits = edits[r.who] + 1
    BY <1>b, <2>1, <2>3 DEF Answers
  <2>5. NoData.day = -1
    BY NoDataParts DEF Unknown
  <2> QED BY <2>4, <2>5
<1>5. /\ m \in Request /\ m.query = r.query /\ m.deps = r.deps /\ m.who = r.who
      /\ m.code = r.code /\ m.current = r.current /\ m.answer = a
  BY <1>c, <1>2, <1>4 DEF Request
<1>6. /\ edits' \in [Accounts -> 0 .. MaxEdits] /\ edits'[r.who] = edits[r.who] + 1
      /\ \A z \in Accounts : z # r.who => edits'[z] = edits[z]
  BY <1>1, <1>2, <1>3
<1>7. Grows
  <2>1. \A z \in Accounts : edits'[z] >= edits[z]
    BY <1>2, <1>3, <1>6
  <2>2. tick' >= tick /\ tick' \in 0 .. 2 * LastDay
    BY <1>1, BoundAssumption DEF Inv, Typed, ServerTyped
  <2> QED BY <1>6, <2>1, <2>2 DEF Grows, ServerTyped
<1>8. QueriesSound' /\ EntriesSound' /\ OneCurrent' /\ OpeningPursued' /\ OrderPursued'
  <2>1. r.query \notin Queries
    BY <1>1 DEF Posts, Queries
  <2> QED BY <1>1, <1>5, <1>7, <2>1, QueriesStay
<1>9. Typed'
  BY <1>1, <1>5, <1>7 DEF Grows, Shown, Inv, Typed, RouteTyped, SeenTyped, EntryTyped, WireTyped
<1>10. ~Pending(m)
  BY <1>4, <1>5 DEF Pending
<1>11. PostSound(m)'
  <2>1. a.edits <= edits'[r.who]
    BY <1>2, <1>3, <1>4, <1>6
  <2> QED BY <1>1, <1>2, <1>4, <1>5, <1>6, <1>10, <2>1 DEF PostSound, Shown, Pending
<1>12. ASSUME NEW z \in wire, z # r PROVE PostSound(z)'
  <2> SUFFICES ASSUME z.query \in Posts PROVE PostSound(z)'
    BY DEF PostSound
  <2>1. PostSound(z) /\ z.who \in Accounts
    BY DEF Inv, PostsSound, PostSound
  <2>2. CASE Pending(z)
    <3>1. z.who # r.who
      BY <1>1, <1>12, <2>2 DEF Inv, OnePost
    <3> QED BY <1>1, <1>6, <2>1, <2>2, <3>1 DEF PostSound, Shown, Pending
  <2>3. CASE ~Pending(z)
    <3>1. z.answer.edits \in Int /\ z.answer.edits <= edits[z.who]
      BY <2>1, <2>3, RequestParts, AnswersParts DEF PostSound, Inv, Typed, WireTyped
    <3>2. edits'[z.who] >= edits[z.who] /\ edits[z.who] \in Int /\ edits'[z.who] \in Int
      BY <1>2, <1>3, <1>6, <2>1
    <3>3. z.answer.edits <= edits'[z.who]
      BY <3>1, <3>2
    <3> QED BY <1>1, <2>1, <2>3, <3>3 DEF PostSound, Shown, Pending
  <2> QED BY <2>2, <2>3
<1>13. PostsSound'
  BY <1>1, <1>11, <1>12 DEF PostsSound
<1>14. OnePost'
  BY <1>1, <1>10 DEF Inv, OnePost, Pending
<1> QED BY <1>8, <1>9, <1>13, <1>14 DEF Inv
LEMMA ServeKeeps ==
    ASSUME Inv, NEW r \in wire, Serve(r)
    PROVE  Inv'
<1>a. PICK a : a = Answer(r.query, r.who, r.code)
  OBVIOUS
<1>b. PICK m : m = [r EXCEPT !.answer = a]
  OBVIOUS
<1>1. /\ Pending(r) /\ r.query \in Queries /\ UNCHANGED <<tick, edits, Shown>>
      /\ wire' = (wire \ {r}) \cup {m}
  BY <1>a, <1>b DEF Serve, Shown, server
<1>2. /\ r \in Request /\ QuerySound(r) /\ r.who \in Whos /\ r.code \in Codes
      /\ r.query \notin Posts
  BY <1>1, RequestParts DEF Inv, QueriesSound, Typed, WireTyped, Queries, Posts
<1>3. /\ a \in Answers /\ a # NoData /\ Truthful(a)
      /\ r.query \in Ordered => a.day = LatestOpened
      /\ r.query \in {"portfolio", "notifications"} => a.who = r.who /\ a.edits = EditsOf(r.who)
      /\ r.query = "history" => a.code = r.code
  BY <1>a, <1>1, <1>2, AnswerParts DEF Inv, Typed, Ordered
<1>4. /\ m \in Request /\ m.query = r.query /\ m.deps = r.deps /\ m.who = r.who
      /\ m.code = r.code /\ m.current = r.current /\ m.answer = a /\ ~Pending(m)
  BY <1>b, <1>2, <1>3 DEF Request, Pending
<1>5. /\ UNCHANGED <<watched, who, page, code, entry, seen, first, acked>>
      /\ OnPage(page)' = OnPage(page) /\ LatestOpened' = LatestOpened
      /\ \A z : EditsOf(z)' = EditsOf(z)
      /\ \A d : Truthful(d)' = Truthful(d)
  BY <1>1 DEF Shown, OnPage, LatestOpened, EditsOf, Truthful
<1>6. Typed'
  BY <1>1, <1>4 DEF Shown, Inv, Typed, ServerTyped, RouteTyped, SeenTyped, EntryTyped, WireTyped
<1>7. PostsSound' /\ OnePost'
  <2>1. \A x \in wire' : x.query \in Posts => x \in wire
    BY <1>1, <1>2, <1>4
  <2>2. \A x \in wire : PostSound(x)
    BY DEF Inv, PostsSound
  <2>3. ASSUME NEW x \in wire' PROVE PostSound(x)'
    BY <1>1, <1>5, <2>1, <2>2 DEF PostSound, Pending
  <2>4. OnePost'
    BY <2>1 DEF Inv, OnePost, Pending
  <2> QED BY <2>3, <2>4 DEF PostsSound
<1>8. InOrder(m)'
  <2> SUFFICES ASSUME r.query \in Ordered PROVE NotOlder(a, entry[r.query].data)
    BY <1>4, <1>5 DEF InOrder, Pending, NotOlder
  <2> DEFINE d == entry[r.query].data
  <2>1. d \in Answers /\ Truthful(d)
    BY <1>1 DEF Inv, Typed, EntryTyped, Entry, EntriesSound, EntrySound
  <2>2. d.day \in Int /\ d.edits \in Int /\ d.day <= LatestOpened /\ d.edits <= EditsOf(d.who)
    BY <2>1, AnswersParts DEF Truthful
  <2> HIDE DEF d
  <2>3. a.day >= d.day
    BY <1>3, <2>2, DayParts DEF Inv, Typed
  <2>4. ASSUME a.who = d.who PROVE a.edits >= d.edits
    <3>1. CASE r.query = "portfolio"
      <4>1. a.edits = EditsOf(d.who) /\ EditsOf(d.who) \in Int
        BY <1>2, <1>3, <2>4, <3>1, BoundAssumption DEF EditsOf, Inv, Typed, ServerTyped, Whos
      <4> QED BY <2>2, <4>1
    <3>2. CASE r.query # "portfolio"
      <4>1. d.who = Nobody
        BY <1>a, <2>4, <3>2 DEF Answer, Ordered, Personal
      <4>2. EditsOf(d.who) = 0 /\ a.edits \in Int /\ a.edits >= 0
        BY <1>3, <4>1, AnswersParts, BoundAssumption DEF EditsOf
      <4> QED BY <2>2, <4>2
    <3> QED BY <3>1, <3>2
  <2> QED BY <2>3, <2>4 DEF NotOlder, d
<1>9. QuerySound(m)'
  BY <1>2, <1>3, <1>4, <1>5 DEF QuerySound, Addressed
<1>10. QueriesSound'
  <2>1. ASSUME NEW x \in wire PROVE QuerySound(x)' /\ InOrder(x)'
    <3>1. QuerySound(x) /\ InOrder(x)
      BY DEF Inv, QueriesSound
    <3> QED BY <1>5, <3>1 DEF QuerySound, InOrder, Pending
  <2> QED BY <1>1, <1>8, <1>9, <2>1 DEF QueriesSound
<1>11. EntriesSound'
  BY <1>5 DEF Inv, EntriesSound, EntrySound
<1>12. OneCurrent'
  BY <1>1, <1>4 DEF Inv, OneCurrent
<1>13. ASSUME NEW q \in Queries, NEW wanted, Awaited(q, wanted),
              r.query = q /\ r.current => a \in wanted
       PROVE  Awaited(q, wanted)'
  <2>1. Current(q)' = Current(q)
    BY <1>5 DEF Current
  <2>2. \A x \in wire' : x.current /\ x.query = q /\ ~Pending(x) => x.answer \in wanted
    BY <1>1, <1>4, <1>13 DEF Awaited
  <2>3. (\E x \in wire : x.current /\ x.query = q) => \E x \in wire' : x.current /\ x.query = q
    BY <1>1, <1>4
  <2> QED BY <1>5, <1>13, <2>1, <2>2, <2>3 DEF Awaited, Pending
<1>14. OpeningPursued'
  <2>1. PICK s : s = seen
    OBVIOUS
  <2>2. ASSUME s > 0, s # first, NEW q \in OnPage(page) \cap Followed, Enabled(q, who)
        PROVE  Awaited(q, Since(s))'
    <3>1. q \in Queries /\ q \in Ordered
      BY DEF Followed, Queries, Ordered
    <3>2. r.query = q => a \in Since(s)
      <4>1. s <= LatestOpened /\ s \in Int /\ LatestOpened \in Int
        BY <2>1, DayParts, BoundAssumption DEF Inv, OpeningPursued, Typed, SeenTyped, Unknown
      <4> QED BY <1>3, <3>1, <4>1 DEF Since
    <3> QED BY <1>13, <2>1, <2>2, <3>1, <3>2 DEF Inv, OpeningPursued
  <2> QED BY <1>5, <2>1, <2>2 DEF Inv, OpeningPursued
<1>15. OrderPursued'
  <2>1. PICK n : n = acked
    OBVIOUS
  <2>2. ASSUME n > 0, "portfolio" \in watched
        PROVE  /\ Awaited("portfolio", After(n))'
               /\ \A x \in wire' : x.current /\ x.query = "portfolio" => x.who = who
    <3>1. /\ Awaited("portfolio", After(n)) /\ "portfolio" \in Queries
          /\ \A x \in wire : x.current /\ x.query = "portfolio" => x.who = who
      BY <2>1, <2>2 DEF Inv, OrderPursued, Queries
    <3>2. r.query = "portfolio" /\ r.current => a \in After(n)
      <4>1. n <= EditsOf(who)
        BY <2>1 DEF Inv, OrderPursued
      <4> QED BY <1>3, <3>1, <4>1 DEF After
    <3>3. Awaited("portfolio", After(n))'
      BY <1>13, <3>1, <3>2
    <3> QED BY <1>1, <1>4, <3>1, <3>3
  <2> QED BY <1>5, <2>1, <2>2 DEF Inv, OrderPursued
<1> QED BY <1>6, <1>7, <1>10, <1>11, <1>12, <1>14, <1>15 DEF Inv

-----------------------------------------------------------------------------
LEMMA InvAtFirst == Init => Inv
<1> SUFFICES ASSUME Init PROVE Inv
  OBVIOUS
<1>1. /\ tick = 0 /\ edits = [a \in Accounts |-> 0] /\ watched \in Views /\ who = Nobody
      /\ page = "other" /\ code = (CHOOSE c \in Codes : TRUE)
      /\ entry = [q \in Queries |-> NoEntry] /\ wire = {}
      /\ seen = -1 /\ first = -1 /\ acked = 0
  BY DEF Init, Unknown
<1>2. code \in Codes
  BY <1>1, BoundAssumption
<1>3. ServerTyped /\ SeenTyped /\ acked \in 0 .. MaxEdits
  BY <1>1, BoundAssumption DEF ServerTyped, SeenTyped, Unknown
<1>4. RouteTyped /\ WireTyped
  BY <1>1, <1>2 DEF RouteTyped, WireTyped, Whos, Pages
<1>5. EntryTyped
  BY <1>1, NoEntriesTyped DEF EntryTyped
<1>6. LatestOpened \in Nat
  BY <1>3, DayParts
<1>7. EntriesSound
  <2>1. Truthful(NoData)
    <3>1. NoData.day = -1 /\ NoData.who = Nobody /\ NoData.edits = 0
      BY NoDataParts DEF Unknown
    <3> QED BY <1>6, <3>1 DEF Truthful, EditsOf
  <2>2. \A q \in Queries : entry[q].data = NoData
    BY <1>1, NoEntryParts
  <2> QED BY <2>1, <2>2 DEF EntriesSound, EntrySound, Addressed
<1>8. OpeningPursued
  BY <1>1, <1>6 DEF OpeningPursued, Unknown
<1>9. OrderPursued
  BY <1>1 DEF OrderPursued, EditsOf
<1> QED BY <1>1, <1>3, <1>4, <1>5, <1>7, <1>8, <1>9
         DEF Inv, Typed, PostsSound, OnePost, QueriesSound, OneCurrent

LEMMA InvStep == Inv /\ [Next]_vars => Inv'
<1> SUFFICES ASSUME Inv, [Next]_vars PROVE Inv'
  OBVIOUS
<1>0. page \in Pages /\ who \in Whos /\ code \in Codes
  BY DEF Inv, Typed, RouteTyped
<1>1. CASE UNCHANGED vars
  <2>1. Grows
    BY <1>1, BoundAssumption DEF vars, server, Grows, ServerTyped, Inv, Typed
  <2>2. UNCHANGED <<tick, edits, Shown, wire>>
    BY <1>1 DEF vars, server, Shown
  <2>3. QueriesSound' /\ EntriesSound' /\ OneCurrent' /\ OpeningPursued' /\ OrderPursued'
    BY <2>1, <2>2, QueriesStay
  <2>4. Typed'
    BY <2>1, <2>2 DEF Grows, Shown, Inv, Typed, RouteTyped, SeenTyped, EntryTyped, WireTyped
  <2>5. PostsSound' /\ OnePost'
    BY <2>2 DEF Shown, Inv, PostsSound, PostSound, OnePost, Pending
  <2> QED BY <2>3, <2>4, <2>5 DEF Inv
<1>2. ASSUME NEW p \in Pages, Visit(p) PROVE Inv'
  BY <1>0, <1>2, MountKeeps DEF Visit, server
<1>3. ASSUME NEW c \in Codes, Follow(c) PROVE Inv'
  BY <1>0, <1>3, RerenderKeeps DEF Follow, server
<1>4. ASSUME NEW a \in Accounts, NEW to \in {"market", "portfolio"}, Login(a, to) PROVE Inv'
  <2>1. a \in Whos /\ to \in Pages
    BY DEF Whos, Pages
  <2>2. who' = a /\ acked' = 0 /\ UNCHANGED <<tick, edits, watched, code>>
    BY <1>4 DEF Login, server
  <2>3. CASE to = page
    BY <1>0, <1>4, <2>1, <2>2, <2>3, RerenderKeeps DEF Login
  <2>4. CASE to # page
    BY <1>4, <2>1, <2>2, <2>4, MountKeeps DEF Login
  <2> QED BY <2>3, <2>4
<1>5. CASE Logout
  <2>1. Nobody \in Whos /\ "other" \in Pages
    BY DEF Whos, Pages
  <2>2. who' = Nobody /\ acked' = 0 /\ UNCHANGED <<tick, edits, watched, code>>
    BY <1>5 DEF Logout, server
  <2>3. CASE page # "portfolio"
    BY <1>0, <1>5, <2>1, <2>2, <2>3, RerenderKeeps DEF Logout
  <2>4. CASE page = "portfolio"
    BY <1>5, <2>1, <2>2, <2>4, MountKeeps DEF Logout
  <2> QED BY <2>3, <2>4
<1>6. ASSUME NEW q \in Queries, Poll(q) PROVE Inv'
  BY <1>6, PollKeeps
<1>7. ASSUME NEW kind \in Posts, Post(kind) PROVE Inv'
  BY <1>7, PostKeeps
<1>8. ASSUME NEW r \in wire,
             Serve(r) \/ ServePost(r) \/ Receive(r) \/ Fail(r) \/ ReceiveFill(r) \/ ReceiveMark(r)
      PROVE  Inv'
  BY <1>8, ServeKeeps, ServePostKeeps, ReceiveKeeps, FailKeeps, ReceiveFillKeeps, ReceiveMarkKeeps
<1>9. CASE Advance
  BY <1>9, AdvanceKeeps
<1> QED BY <1>1, <1>2, <1>3, <1>4, <1>5, <1>6, <1>7, <1>8, <1>9 DEF Next

LEMMA InvHolds == Spec => []Inv
BY InvAtFirst, InvStep, PTL DEF Spec

\* Every variable keeps its type: a post that is on its way has its edit left.
THEOREM TypesHold == Spec => []TypeOK
BY InvHolds, TypedIsTypeOK, PTL DEF Inv

\* Whatever is on the wire, an inbox shown is the participant's and a price
\* history the instrument's.
THEOREM NothingForeignIsShown == Spec => []NothingForeignShown
BY InvHolds, InvIsShown, PTL

\* With the answers in, a page that saw a day open shows it, or an error.
THEOREM OpeningIsFollowed == Spec => []OpeningSeenIsFollowed
BY InvHolds, InvIsShown, PTL

\* With the answers in, the balance of the order panel has the answered order.
THEOREM OwnOrderIsShown == Spec => []OwnOrderShown
BY InvHolds, InvIsShown, PTL
\* What a step may do to a result.
LEMMA NothingOlder ==
    ASSUME Inv, [Next]_vars, NEW q \in Ordered
    PROVE  entry'[q].data = NoData \/ NotOlder(entry'[q].data, entry[q].data)
<1>1. /\ EntryTyped /\ q \in Queries /\ entry[q].data \in Answers /\ q # "notifications"
  BY DEF Inv, Typed, EntryTyped, Entry, Ordered, Queries
<1>2. NotOlder(entry[q].data, entry[q].data)
  BY <1>1, AnswersParts DEF NotOlder
<1>3. ASSUME entry'[q] = entry[q] \/ entry'[q] = NoEntry
      PROVE  entry'[q].data = NoData \/ NotOlder(entry'[q].data, entry[q].data)
  BY <1>2, <1>3, NoEntryParts
<1>4. ASSUME NEW p, NEW a, Mount(p, a) PROVE entry'[q] = NoEntry
  BY <1>1, <1>4 DEF Mount
<1>5. ASSUME NEW a, NEW c, Rerender(a, c) PROVE entry'[q] = entry[q] \/ entry'[q] = NoEntry
  BY <1>1, <1>5 DEF Rerender
<1>6. CASE \E p \in Pages : Visit(p)
  BY <1>3, <1>4, <1>6 DEF Visit
<1>7. CASE \E c \in Codes : Follow(c)
  BY <1>3, <1>5, <1>7 DEF Follow
<1>8. CASE Logout \/ \E a \in Accounts, to \in {"market", "portfolio"} : Login(a, to)
  BY <1>3, <1>4, <1>5, <1>8 DEF Login, Logout
<1>9. CASE UNCHANGED entry
  BY <1>2, <1>9
<1>10. ASSUME NEW r \in wire, Receive(r)
       PROVE  entry'[q].data = NoData \/ NotOlder(entry'[q].data, entry[q].data)
  <2>1. CASE r.current /\ r.query = q
    <3>1. entry' = [entry EXCEPT ![q] = [deps |-> r.deps, data |-> r.answer, error |-> FALSE]]
      BY <1>10, <2>1 DEF Receive
    <3>2. entry'[q].data = r.answer
      BY <1>1, <3>1 DEF EntryTyped
    <3>3. InOrder(r) /\ ~Pending(r)
      BY <1>10 DEF Receive, Inv, QueriesSound
    <3> QED BY <2>1, <3>2, <3>3 DEF InOrder
  <2>2. CASE ~(r.current /\ r.query = q)
    <3>1. entry'[q] = entry[q]
      BY <1>1, <1>10, <2>2 DEF Receive, EntryTyped
    <3> QED BY <1>3, <3>1
  <2> QED BY <2>1, <2>2
<1>11. ASSUME NEW r \in wire, Fail(r)
       PROVE  entry'[q].data = NoData \/ NotOlder(entry'[q].data, entry[q].data)
  <2>1. entry'[q].data = NoData \/ entry'[q].data = entry[q].data
    BY <1>1, <1>11 DEF Fail, Failed, EntryTyped
  <2> QED BY <1>2, <2>1
<1>12. ASSUME NEW r \in wire, ReceiveMark(r) PROVE entry'[q] = entry[q]
  BY <1>1, <1>12 DEF ReceiveMark, SetData, EntryTyped
<1>13. CASE \/ UNCHANGED vars \/ Advance
            \/ \E z \in Queries : Poll(z)
            \/ \E kind \in Posts : Post(kind)
            \/ \E r \in wire : Serve(r) \/ ServePost(r) \/ ReceiveFill(r)
  BY <1>9, <1>13 DEF vars, Advance, Poll, Post, Serve, ServePost, ReceiveFill
<1> QED BY <1>3, <1>6, <1>7, <1>8, <1>10, <1>11, <1>12, <1>13 DEF Next

\* Prices and a participant's portfolio never go back to an older state,
\* whatever order the answers come in.
THEOREM NothingGoesBack == Spec => NeverOlder
<1> DEFINE Kept ==
      \A q \in {"instruments", "history", "portfolio", "news"} :
          (/\ Data(q) # NoData /\ Data(q)' # NoData
           /\ Data(q)'.who = Data(q).who /\ page' = page /\ code' = code)
             => Data(q)'.day >= Data(q).day /\ Data(q)'.edits >= Data(q).edits
<1>1. Inv /\ [Next]_vars => [Kept]_vars
  <2> SUFFICES ASSUME Inv, [Next]_vars, NEW q \in Ordered, Data(q) # NoData, Data(q)' # NoData,
                      Data(q)'.who = Data(q).who
               PROVE  Data(q)'.day >= Data(q).day /\ Data(q)'.edits >= Data(q).edits
    BY DEF Ordered
  <2>1. Data(q) = entry[q].data /\ Data(q)' = entry'[q].data
    BY DEF Data
  <2>2. NotOlder(entry'[q].data, entry[q].data)
    BY <2>1, NothingOlder
  <2> QED BY <2>1, <2>2 DEF NotOlder
<1>2. Spec => [][Next]_vars
  BY PTL DEF Spec
<1>3. Spec => [][Kept]_vars
  BY <1>1, <1>2, InvHolds, PTL
<1> QED BY <1>3 DEF NeverOlder

=============================================================================
