------------------------------ MODULE PageData ------------------------------
(***************************************************************************)
(* The data a page shows: the useApi hook, useRefetchOnOpen, and the       *)
(* queries of the market, instrument, portfolio and ranking pages, over    *)
(* one server whose prices change when a day opens and whose participants' *)
(* rows change with every order and every read mark.                       *)
(*                                                                         *)
(* The state updates of an answer and the render and effects after them    *)
(* are one step, as they are in React; the wire is in between.  A request  *)
(* of useApi carries its number and the hook the latest one; they are only *)
(* compared, so a request here carries the comparison: `current` is TRUE   *)
(* until the hook makes or announces a newer one.                          *)
(***************************************************************************)
EXTENDS Integers, FiniteSets, TLC

CONSTANTS
    Accounts, Nobody,
    Codes,
    LastDay,        \* bound: days of the event
    MaxEdits,       \* bound: orders and read marks of one account
    MaxWire,        \* bound: requests on the wire when the person or a timer adds one
    Views           \* bound: sets of queries, of which a behaviour follows one

ASSUME BoundAssumption ==
    /\ LastDay \in Nat /\ MaxEdits \in Nat /\ MaxWire \in Nat
    /\ Nobody \notin Accounts /\ Codes # {}

VARIABLES
    tick,               \* server: 2(d-1) is day d before its opening, 2d-1 after it
    edits,              \* server: changes of each account's own rows
    watched,            \* the queries this behaviour follows
    who, page, code,    \* the participant logged in, the route and its :code
    entry,              \* useApi, per query: its last result
    wire,               \* requests of the mounted page
    seen, first,        \* useRefetchOnOpen: last day seen; the first one (for the properties)
    acked               \* own changes the page was told of (for the properties)

server == <<tick, edits>>
vars == <<server, watched, who, page, code, entry, wire, seen, first, acked>>

Unknown == -1       \* undefined: the event is not loaded yet
NotOpened == 0      \* null: today is not opened yet

Queries == {"event", "instruments", "history", "portfolio", "orders", "news",
            "certs", "notifications", "ranking"}
Posts == {"fill", "mark"}   \* OrderPanel.submit, MarketPage.readNotifications
Pages == {"market", "instrument", "portfolio", "ranking", "other"}

-----------------------------------------------------------------------------
(* What each page asks for *)

MarketQueries == {"event", "instruments", "news", "certs", "notifications"}
InstrumentQueries == {"instruments", "history", "event", "portfolio"}
PortfolioQueries == {"portfolio", "orders", "instruments", "event"}
RankingQueries == {"ranking"}

OnPage(p) == watched \cap
    CASE p = "market" -> MarketQueries
      [] p = "instrument" -> InstrumentQueries
      [] p = "portfolio" -> PortfolioQueries
      [] p = "ranking" -> RankingQueries
      [] p = "other" -> {}

Polled(p) == OnPage(p) \cap
    CASE p = "market" -> {"event", "instruments", "news", "notifications"}
      [] p \in {"instrument", "portfolio"} -> {"event"}
      [] p = "ranking" -> {"ranking"}
      [] p = "other" -> {}

\* Mutant: the holdings are not asked for again.
OnOpenPricesOnly(p, a) == OnPage(p) \cap
    CASE p \in {"instrument", "portfolio"} -> {"instruments", "history"}
      [] OTHER -> {}

\* What the page asks again when it sees a new day opened.
OnOpen(p, a) == OnPage(p) \cap
    CASE p = "instrument" -> {"instruments", "history"}
                               \cup (IF a = Nobody THEN {} ELSE {"portfolio"})
      [] p = "portfolio" -> {"portfolio", "instruments"}
      [] OTHER -> {}

Personal == {"portfolio", "orders", "certs", "notifications"}
Status(a) == IF a = Nobody THEN "anonymous" ELSE "authenticated"
Enabled(q, a) == q \in Personal => a # Nobody

\* The dependency list of a query.
Deps(p, q, a, c) ==
    CASE q = "history" -> <<c>>
      [] q = "notifications" -> <<Status(a), a>>
      [] q \in {"portfolio", "certs"} /\ p # "portfolio" -> <<Status(a)>>
      [] q = "ranking" -> <<Status(a)>>
      [] OTHER -> <<>>

-----------------------------------------------------------------------------
(* The server's answers *)

\* Mutant: today is the day that opens next.
TodayEarly == (tick + 1) \div 2 + 1
Today == tick \div 2 + 1
Opened == tick % 2 = 1
LatestOpened == (tick + 1) \div 2

NoCode == "none"    \* of the answers that are of no one instrument

NoData == [who |-> Nobody, code |-> NoCode, day |-> Unknown, edits |-> 0]

\* What an answer says: whose rows, of which instrument, how old.
Answer(q, a, c) ==
    [who |-> IF q \in Personal \cup {"ranking"} THEN a ELSE Nobody,
     code |-> IF q = "history" THEN c ELSE NoCode,
     day |-> CASE q = "event" -> IF Opened THEN Today ELSE NotOpened
               [] q \in {"certs", "notifications"} -> 0
               [] OTHER -> LatestOpened,
     edits |-> IF q \in Personal /\ a # Nobody THEN edits[a] ELSE 0]

-----------------------------------------------------------------------------
(* useApi *)

NoEntry == [deps |-> <<"none">>, data |-> NoData, error |-> FALSE]

\* run(): the deps and the fetcher's arguments of this render.
Asked(p, q, a, c) ==
    [query |-> q, deps |-> Deps(p, q, a, c), who |-> a, code |-> c,
     current |-> TRUE, answer |-> NoData]
Runs(qs, p, a, c) == {Asked(p, q, a, c) : q \in qs}

\* Mutant: requests are not numbered.
AnnouncedNever(qs, requests) == requests

\* ++requestId: answers to earlier requests of these queries are stale.
Announced(qs, requests) ==
    {[r EXCEPT !.current = @ /\ r.query \notin qs] : r \in requests}

Run(qs, requests) == wire' = Announced(qs, requests) \cup Runs(qs, page, who, code)

\* Mutant: a result is exposed whatever it was asked for.
CurrentOfAnyDeps(q) ==
    /\ q \in OnPage(page) /\ Enabled(q, who)
    /\ entry[q] # NoEntry

\* The result a render exposes: only one of the current dependencies.
Current(q) ==
    /\ q \in OnPage(page) /\ Enabled(q, who)
    /\ entry[q] # NoEntry /\ entry[q].deps = Deps(page, q, who, code)
Data(q) == IF Current(q) THEN entry[q].data ELSE NoData
Loading(q) == q \in OnPage(page) /\ Enabled(q, who) /\ ~Current(q)

\* A new participant or :code: queries whose deps changed run again, those
\* no longer enabled forget their result.
Rerender(a, c) ==
    LET off == {q \in OnPage(page) : ~Enabled(q, a)}
        changed == {q \in OnPage(page) \ off :
                      ~Enabled(q, who) \/ Deps(page, q, a, c) # Deps(page, q, who, code)}
    IN  /\ entry' = [q \in Queries |-> IF q \in off THEN NoEntry ELSE entry[q]]
        /\ wire' = Announced(off \cup changed, wire) \cup Runs(changed, page, a, c)
        /\ UNCHANGED <<page, seen, first>>

\* A page is mounted: new hooks, nothing shown, every enabled query runs.
\* Answers to the hooks of the page before change nothing.
Mount(p, a) ==
    /\ page' = p
    /\ entry' = [q \in Queries |-> NoEntry]
    /\ wire' = Runs({q \in OnPage(p) : Enabled(q, a)}, p, a, code)
    /\ seen' = Unknown /\ first' = Unknown

Idle == Cardinality(wire) < MaxWire

-----------------------------------------------------------------------------
(* What the person and the timers do *)

Visit(p) ==     \* RequireAuth guards the portfolio
    /\ p # page /\ (p = "portfolio" => who # Nobody)
    /\ Mount(p, who)
    /\ acked' = 0
    /\ UNCHANGED <<server, watched, who, code>>

Follow(c) ==    \* from one instrument to another: the same page, another :code
    /\ page = "instrument" /\ c # code /\ Idle
    /\ "history" \in watched        \* nothing else depends on it
    /\ code' = c
    /\ Rerender(who, c)
    /\ UNCHANGED <<server, watched, who, acked>>

Poll(q) ==
    /\ q \in Polled(page) /\ Enabled(q, who) /\ Idle
    /\ Run({q}, wire)
    /\ UNCHANGED <<server, watched, who, page, code, entry, seen, first, acked>>

\* A login or a password reset is answered: the page goes where it was bound,
\* which may be the page the person went to meanwhile.  Another participant
\* may have been logged in until now.
Login(a, to) ==
    /\ a # who
    /\ who' = a
    /\ IF to = page THEN Rerender(a, code) ELSE Mount(to, a)
    /\ acked' = 0
    /\ UNCHANGED <<server, watched, code>>

Logout ==
    /\ who # Nobody
    /\ who' = Nobody
    /\ IF page = "portfolio" THEN Mount("other", Nobody) ELSE Rerender(Nobody, code)
    /\ acked' = 0
    /\ UNCHANGED <<server, watched, code>>

\* The card lists the inbox once it is loaded: unfolding an unread notification
\* marks it read, and so does the button for all of them.
MayMark == page = "market" /\ Data("notifications") # NoData

\* The order form takes the place of a login button, of an error and of the bones
\* of a page once the portfolio is there.
MayOrder == page = "instrument" /\ Data("portfolio") # NoData

\* An order (the button waits for its answer) or a read mark.
Post(kind) ==
    /\ who # Nobody /\ edits[who] < MaxEdits /\ Idle
    /\ \/ kind = "fill" /\ MayOrder
       \/ kind = "mark" /\ MayMark
    /\ \A r \in wire : r.query # "fill"
    /\ wire' = wire \cup {[Asked(page, "orders", who, code) EXCEPT !.query = kind]}
    /\ UNCHANGED <<server, watched, who, page, code, entry, seen, first, acked>>

-----------------------------------------------------------------------------
(* Requests are handled, answers arrive *)

Pending(r) == r.answer = NoData

Serve(r) ==
    /\ Pending(r) /\ r.query \in Queries
    /\ wire' = (wire \ {r}) \cup {[r EXCEPT !.answer = Answer(r.query, r.who, r.code)]}
    /\ UNCHANGED <<server, watched, who, page, code, entry, seen, first, acked>>

\* The order is filled, the marks are made: the answer has the new state.
ServePost(r) ==
    /\ Pending(r) /\ r.query \in Posts
    /\ edits' = [edits EXCEPT ![r.who] = @ + 1]
    /\ wire' = (wire \ {r}) \cup
          {[r EXCEPT !.answer = [Answer("notifications", r.who, r.code) EXCEPT !.edits = @ + 1]]}
    /\ UNCHANGED <<tick, watched, who, page, code, entry, seen, first, acked>>

\* useRefetchOnOpen, in the effect after the event changed.
SeeDay(day, rest) ==
    IF day = Unknown \/ page \notin {"instrument", "portfolio"}
    THEN wire' = rest /\ UNCHANGED <<seen, first>>
    ELSE /\ seen' = day
         /\ first' = IF first = Unknown THEN day ELSE first
         /\ Run(IF seen # Unknown /\ day # NotOpened /\ day # seen
                THEN OnOpen(page, who) ELSE {}, rest)

\* An answer counts if no newer request of its query was made.
Receive(r) ==
    /\ ~Pending(r) /\ r.query \in Queries
    /\ IF r.current
       THEN /\ entry' = [entry EXCEPT ![r.query] =
                           [deps |-> r.deps, data |-> r.answer, error |-> FALSE]]
            /\ SeeDay(IF r.query = "event" THEN r.answer.day ELSE Unknown, wire \ {r})
       ELSE wire' = wire \ {r} /\ UNCHANGED <<entry, seen, first>>
    /\ UNCHANGED <<server, watched, who, page, code, acked>>

\* No connection or a 5xx: what was loaded for the same deps stays beside the error.
Failed(r) ==
    IF r.current /\ r.query \in Queries
    THEN entry' = [entry EXCEPT ![r.query] =
            [deps |-> r.deps, error |-> TRUE,
             data |-> IF @ # NoEntry /\ @.deps = r.deps THEN @.data ELSE NoData]]
    ELSE UNCHANGED entry

Fail(r) ==
    /\ wire' = wire \ {r}
    /\ Failed(r)
    /\ UNCHANGED <<server, watched, who, page, code, seen, first, acked>>

\* Mutant: the portfolio is left to the next opening.
AskedAfterFillEvent == {"event"}
AskedAfterFill == {"portfolio", "event"}

\* onFilled asks the portfolio and the event again.
ReceiveFill(r) ==
    /\ ~Pending(r) /\ r.query = "fill"
    /\ Run(AskedAfterFill \cap OnPage(page), wire \ {r})
    /\ acked' = IF r.who = who THEN r.answer.edits ELSE acked
    /\ UNCHANGED <<server, watched, who, page, code, entry, seen, first>>

\* setData(): a result of the current deps, without a request.
SetData(q, data) ==
    [entry EXCEPT ![q] =
        [deps |-> Deps(page, q, who, code), data |-> data, error |-> FALSE]]

\* setData, unless another participant came.
ReceiveMark(r) ==
    /\ ~Pending(r) /\ r.query = "mark"
    /\ wire' = wire \ {r}
    /\ entry' = IF r.who # who THEN entry
                ELSE SetData("notifications", r.answer)
    /\ UNCHANGED <<server, watched, who, page, code, seen, first, acked>>

\* The clock passes an opening or midnight.
Advance ==
    /\ tick < 2 * LastDay - 1
    /\ tick' = tick + 1
    /\ UNCHANGED <<edits, watched, who, page, code, entry, wire, seen, first, acked>>

-----------------------------------------------------------------------------
Init ==
    /\ tick = 0
    /\ edits = [a \in Accounts |-> 0]
    /\ watched \in Views
    /\ who = Nobody /\ page = "other" /\ code = CHOOSE c \in Codes : TRUE
    /\ entry = [q \in Queries |-> NoEntry]
    /\ wire = {}
    /\ seen = Unknown /\ first = Unknown /\ acked = 0

Next ==
    \/ \E p \in {q \in Pages : q = "other" \/ OnPage(q) # {}} : Visit(p)
    \/ \E c \in Codes : Follow(c)
    \/ \E a \in Accounts, to \in {"market", "portfolio"} : Login(a, to)
    \/ Logout
    \/ \E q \in Queries : Poll(q)
    \/ \E kind \in Posts : Post(kind)
    \/ \E r \in wire : Serve(r) \/ ServePost(r) \/ Receive(r) \/ Fail(r)
                         \/ ReceiveFill(r) \/ ReceiveMark(r)
    \/ Advance

Spec == Init /\ [][Next]_vars

\* Participants differ in name only.
Symmetry == Permutations(Accounts)

-----------------------------------------------------------------------------
(* Properties *)

Answers == [who : Accounts \cup {Nobody}, code : Codes \cup {NoCode},
            day : Unknown .. LastDay, edits : 0 .. MaxEdits]

\* Every variable keeps its type.
TypeOK ==
    /\ tick \in 0 .. 2 * LastDay
    /\ edits \in [Accounts -> 0 .. MaxEdits]
    /\ watched \in Views
    /\ who \in Accounts \cup {Nobody} /\ page \in Pages /\ code \in Codes
    /\ \A q \in Queries : entry[q].data \in Answers /\ entry[q].error \in BOOLEAN
    /\ \A r \in wire : r.query \in Queries \cup Posts /\ r.answer \in Answers
    /\ seen \in Unknown .. LastDay /\ first \in Unknown .. LastDay
    /\ acked \in 0 .. MaxEdits

\* The inbox and the history shown are those of the participant and of the
\* instrument of this very render (useApi.ts:44-46, MarketPage.tsx:27-28):
\* answers to earlier ones are still on the wire, read marks among them.
NothingForeignShown ==
    /\ Data("notifications") # NoData => Data("notifications").who = who
    /\ Data("history") # NoData => Data("history").code = code

\* While the page and the instrument stay, prices and a participant's
\* portfolio never go back to an older state (useApi.ts:42).
NeverOlder ==
    [][\A q \in {"instruments", "history", "portfolio", "news"} :
          (/\ Data(q) # NoData /\ Data(q)' # NoData
           /\ Data(q)'.who = Data(q).who /\ page' = page /\ code' = code)
             => Data(q)'.day >= Data(q).day /\ Data(q)'.edits >= Data(q).edits]_vars

\* Every hook has the answer to its latest request.
Quiet == \A r \in wire : ~r.current

\* A page that saw a day open (useRefetchOnOpen.ts:13-16) shows that day's
\* prices and holdings once the answers are in, or an error.
OpeningSeenIsFollowed ==
    (Quiet /\ seen > 0 /\ seen # first)
       => \A q \in OnPage(page) \cap {"instruments", "history", "portfolio"} :
              Enabled(q, who) => entry[q].error \/ Data(q).day >= seen

\* An order that was answered is part of the balance the panel trades with
\* once the answers are in, though polls and openings overlap with it.
OwnOrderShown ==
    (Quiet /\ page = "instrument" /\ who # Nobody /\ "portfolio" \in watched)
       => entry["portfolio"].error \/ Data("portfolio").edits >= acked

\* A page that shows a day as opened shows that day's prices once the
\* answers are in (InstrumentPage.tsx:54).
PriceOfTheOpenDay ==
    (Quiet /\ page = "instrument" /\ Data("event").day > 0 /\ "instruments" \in watched)
       => entry["instruments"].error \/ Data("instruments").day >= Data("event").day
=============================================================================
