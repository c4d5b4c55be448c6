----------------------------- MODULE WebSession -----------------------------
(***************************************************************************)
(* The login session as the page sees it: AuthContext.tsx over client.ts   *)
(* and storage.ts, the pages that start and guard a session, and the       *)
(* server's auth_sessions rows.  One browser with one or several tabs that *)
(* share localStorage.  Every request is a message on the wire: handled by *)
(* the server once, at some later moment, and answered to its tab at       *)
(* another; the answer may get lost after the server acted.                *)
(*                                                                         *)
(* A token is the number of the login that issued it.  The counter         *)
(* `session` of AuthProvider is only ever compared with the value a        *)
(* request was sent under, so each request carries that comparison:        *)
(* `current` is TRUE until its tab starts or clears a session.  Likewise    *)
(* `form` is TRUE until the form that sent it is left.                     *)
(***************************************************************************)
EXTENDS Naturals, FiniteSets, Sequences

CONSTANTS
    Tabs,
    Accounts,
    Nobody,         \* no participant
    MaxTokens,      \* bound: logins the server grants
    MaxWire         \* bound: requests on the wire

ASSUME BoundAssumption ==
    /\ MaxTokens \in Nat \ {0} /\ MaxWire \in Nat
    /\ Nobody \notin Accounts

VARIABLES
    issued,     \* account of each token ever issued
    live,       \* tokens with a row in auth_sessions
    stored,     \* localStorage 'sie.token', shared by the tabs
    memory,     \* memoryToken of storage.ts, one per tab
    status, profile, timer,     \* AuthProvider: status, participant, retry.timer
    page, submitting,           \* the route a tab shows, the form's button
    wire

browser == <<stored, memory, status, profile, timer, page, submitting>>
vars == <<issued, live, browser, wire>>

None == 0
Tokens == 1 .. MaxTokens
Polling == {"market", "certification"}      \* ask again and again with the token
Guarded == {"certification", "protected"}    \* behind RequireAuth
Pages == {"login", "reset", "public"} \cup Polling \cup Guarded
Kinds == {"me", "data", "login", "reset", "verify", "logout"}
Starts == {"login", "reset"}    \* answers that carry a new token
Results == {"pending", "ok", "rejected", "failed"}

Request == [tab : Tabs, kind : Kinds, cred : Tokens \cup {None}, current : BOOLEAN, form : BOOLEAN,
            who : Accounts \cup {Nobody}, result : Results, token : Tokens \cup {None}]

Owner(token) == IF token = None THEN Nobody ELSE issued[token]

-----------------------------------------------------------------------------
(* storage.ts and client.ts *)

\* tokenStore.get: localStorage, else what this tab set itself.
Token(t) == IF stored # None THEN stored ELSE memory[t]

\* credentialFor: the token, except where the call sends none.
Credential(t, kind) == IF kind \in Starts THEN None ELSE Token(t)

\* Mutant: the counter is not advanced.
OutdatedNever(t, requests) == requests

\* Answers for a tab whose session counter moved on.
Outdated(t, requests) ==
    {[r EXCEPT !.current = @ /\ r.tab # t] : r \in requests}

\* Answers for a tab that went to another page.
Unmounted(t, requests) ==
    {[r EXCEPT !.form = @ /\ r.tab # t] : r \in requests}

Message(t, kind, who) ==
    [tab |-> t, kind |-> kind, cred |-> Credential(t, kind), current |-> TRUE,
     form |-> kind \in Starts, who |-> who, result |-> "pending", token |-> None]

Send(t, kind, who) ==
    /\ Cardinality(wire) < MaxWire
    /\ Message(t, kind, who) \notin wire
    /\ wire' = wire \cup {Message(t, kind, who)}

\* The page re-renders at once: RequireAuth and the forms redirect.
Landing(p, st, busy) ==
    IF p \in Guarded /\ st = "anonymous" THEN "login"
    ELSE IF p = "login" /\ st = "authenticated" /\ ~busy THEN "market"
    ELSE p

Landed(t, st, busy) == page' = [page EXCEPT ![t] = Landing(@, st, busy)]

-----------------------------------------------------------------------------
\* A page is opened, with or without the token of an earlier visit, which
\* may have ended meanwhile: a fresh AuthProvider whose first effect is
\* refresh().  A reload is an opening too: answers to the old page find nobody.
Init ==
    /\ \/ issued = <<>> /\ stored = None
       \/ \E a \in Accounts : issued = <<a>> /\ stored = 1
    /\ live \in SUBSET ({stored} \ {None})
    /\ memory = [t \in Tabs |-> None]
    /\ status = [t \in Tabs |-> IF stored = None THEN "anonymous" ELSE "loading"]
    /\ profile = [t \in Tabs |-> Nobody]
    /\ timer = [t \in Tabs |-> FALSE]
    /\ page \in [Tabs -> Pages \ Starts]
    /\ \A t \in Tabs : page[t] = Landing(page[t], status[t], FALSE)
    /\ submitting = [t \in Tabs |-> FALSE]
    /\ wire = IF stored = None THEN {} ELSE {Message(t, "me", Nobody) : t \in Tabs}

(* AuthProvider *)

\* Mutant: clear() leaves the token in the storage.
ClearKeepingToken(t, requests) ==
    /\ status' = [status EXCEPT ![t] = "anonymous"]
    /\ profile' = [profile EXCEPT ![t] = Nobody]
    /\ timer' = [timer EXCEPT ![t] = FALSE]
    /\ wire' = Outdated(t, requests)
    /\ UNCHANGED <<stored, memory>>

\* clear(): this session is over, whatever is still on the wire.
Clear(t, requests) ==
    /\ stored' = None
    /\ memory' = [memory EXCEPT ![t] = None]
    /\ status' = [status EXCEPT ![t] = "anonymous"]
    /\ profile' = [profile EXCEPT ![t] = Nobody]
    /\ timer' = [timer EXCEPT ![t] = FALSE]
    /\ wire' = Outdated(t, requests)

\* The session of the page shown ends, and the page stays or goes to the login.
EndSession(t, requests) ==
    /\ Clear(t, requests)
    /\ Landed(t, "anonymous", submitting[t])

\* startSession(): the answer's token and participant.
StartSession(t, token, requests) ==
    /\ stored' = token
    /\ memory' = [memory EXCEPT ![t] = token]
    /\ status' = [status EXCEPT ![t] = "authenticated"]
    /\ profile' = [profile EXCEPT ![t] = Owner(token)]
    /\ timer' = [timer EXCEPT ![t] = FALSE]
    /\ wire' = Outdated(t, requests)

KeepSession == UNCHANGED <<stored, memory, status, profile, timer>>

\* The retry timer fires: refresh() again, with the token of that moment.
RetryProfile(t) ==
    /\ timer[t]
    /\ IF Token(t) = None
       THEN EndSession(t, wire)
       ELSE /\ Send(t, "me", Nobody)
            /\ timer' = [timer EXCEPT ![t] = FALSE]
            /\ UNCHANGED <<stored, memory, status, profile, page>>
    /\ UNCHANGED <<issued, live, submitting>>

-----------------------------------------------------------------------------
(* What the person does *)

Visit(t, p) ==
    /\ page[t] # p
    /\ page' = [page EXCEPT ![t] = Landing(p, status[t], FALSE)]
    /\ submitting' = [submitting EXCEPT ![t] = FALSE]
    /\ wire' = Unmounted(t, wire)
    /\ UNCHANGED <<issued, live, stored, memory, status, profile, timer>>

\* LoginPage and RegisterPage, ResetPasswordPage: the button waits for the answer.
SubmitForm(t, kind, a) ==
    /\ page[t] = kind
    /\ ~submitting[t]
    /\ Send(t, kind, a)
    /\ submitting' = [submitting EXCEPT ![t] = TRUE]
    /\ KeepSession
    /\ UNCHANGED <<issued, live, page>>

ClickLogout(t) ==
    /\ status[t] = "authenticated"
    /\ Send(t, "logout", Nobody)
    /\ UNCHANGED <<issued, live, browser>>

SubmitCode(t) ==    \* VerifyEmailPage, behind RequireAuth
    /\ page[t] = "protected" /\ status[t] = "authenticated"
    /\ Send(t, "verify", Nobody)
    /\ UNCHANGED <<issued, live, browser>>

\* Pages load their data while the tab is logged in.  (The ranking also asks
\* without a token; it is never refused, so the session has no part in it.)
AskData(t) ==
    /\ status[t] = "authenticated" /\ page[t] \notin Starts
    /\ Send(t, "data", Nobody)
    /\ UNCHANGED <<issued, live, browser>>

\* Notifications and the certification status are asked for by a timer; all
\* else is asked for once, or when the person does something.
Poll(t) == page[t] \in Polling /\ AskData(t)

-----------------------------------------------------------------------------
(* The server *)

Answered(r, result, token) ==
    wire' = (wire \ {r}) \cup {[r EXCEPT !.result = result, !.token = token]}

\* Mutant: the row of the token is not kept.
IssueNothing(a) == UNCHANGED issued

\* issue_token
Issue(a) == issued' = Append(issued, a)

\* INVALID_CREDENTIALS or a wrong code: no credential was sent, so none ends.
Refused(r) ==
    /\ Answered(r, "failed", None)
    /\ UNCHANGED <<issued, live>>

ServeLogin(r) ==
    /\ r.kind = "login"
    /\ \/ /\ Len(issued) < MaxTokens
          /\ Issue(r.who)
          /\ live' = live \cup {Len(issued) + 1}
          /\ Answered(r, "ok", Len(issued) + 1)
       \/ Refused(r)

\* reset_password: every session of the account goes, then one is issued.
ServeReset(r) ==
    /\ r.kind = "reset"
    /\ \/ /\ Len(issued) < MaxTokens
          /\ Issue(r.who)
          /\ live' = {k \in live : issued[k] # r.who} \cup {Len(issued) + 1}
          /\ Answered(r, "ok", Len(issued) + 1)
       \/ Refused(r)

\* current_participant
ServeRead(r) ==
    /\ r.kind \in {"me", "data", "verify"}
    /\ Answered(r, IF r.cred \in live THEN "ok" ELSE "rejected", None)
    /\ UNCHANGED <<issued, live>>

ServeLogout(r) ==
    /\ r.kind = "logout"
    /\ live' = live \ {r.cred}
    /\ Answered(r, "ok", None)
    /\ UNCHANGED issued

Serve(r) ==
    /\ r.result = "pending"
    /\ \/ ServeLogin(r) \/ ServeReset(r) \/ ServeRead(r) \/ ServeLogout(r)
    /\ UNCHANGED <<browser>>

\* A 5xx, no connection, or an answer lost after the server acted.
Fail(r) ==
    /\ r.result # "failed"
    /\ Answered(r, "failed", None)
    /\ UNCHANGED <<issued, live, browser>>

\* The password is reset from another device.
Revoke(a) ==
    /\ \E k \in live : issued[k] = a
    /\ live' = {k \in live : issued[k] # a}
    /\ UNCHANGED <<issued, browser, wire>>

-----------------------------------------------------------------------------
(* Answers reach their tab *)

\* Mutant: every 401 ends the session.
ReportedAlways(r) == r.result = "rejected" /\ r.cred # None
\* Mutant: no 401 is reported to AuthContext.
ReportedNever(r) == FALSE
\* Mutant: a profile that could not be loaded is not asked for again.
NoRetry(t) == UNCHANGED timer

\* The retry timer of AuthContext is set.
RetryLater(t) == timer' = [timer EXCEPT ![t] = TRUE]

\* request(): a 401 is reported to AuthContext only if the credential that
\* was refused is still the one in use, and only for 'participant' calls.
Reported(r) ==
    /\ r.result = "rejected"
    /\ r.cred # None
    /\ r.cred = Credential(r.tab, r.kind)

ReceiveProfile(r) ==
    LET rest == wire \ {r} IN
    /\ r.kind = "me"
    /\ CASE Reported(r) -> EndSession(r.tab, rest)
         [] ~Reported(r) /\ ~r.current -> KeepSession /\ wire' = rest /\ UNCHANGED page
         [] r.current /\ r.result = "ok" ->
              /\ profile' = [profile EXCEPT ![r.tab] = Owner(r.cred)]
              /\ status' = [status EXCEPT ![r.tab] = "authenticated"]
              /\ Landed(r.tab, "authenticated", submitting[r.tab])
              /\ wire' = rest
              /\ UNCHANGED <<stored, memory, timer>>
         [] r.current /\ r.result = "rejected" /\ ~Reported(r) -> EndSession(r.tab, rest)
         [] r.current /\ r.result = "failed" ->
              /\ status' = [status EXCEPT ![r.tab] = "authenticated"]
              /\ RetryLater(r.tab)
              /\ Landed(r.tab, "authenticated", submitting[r.tab])
              /\ wire' = rest
              /\ UNCHANGED <<stored, memory, profile>>
    /\ UNCHANGED submitting

ReceiveData(r) ==
    LET rest == wire \ {r} IN
    /\ r.kind = "data"
    /\ IF Reported(r) THEN EndSession(r.tab, rest) ELSE KeepSession /\ wire' = rest /\ UNCHANGED page
    /\ UNCHANGED submitting

\* A login goes on to the guarded page it was asked for on, or to the market.
Destinations(kind) == {"market"} \cup (IF kind = "login" THEN Guarded ELSE {})

\* login, register, resetPassword: then the page goes where it was bound.
ReceiveStart(r) ==
    LET rest == wire \ {r} IN
    /\ r.kind \in Starts
    /\ IF r.result = "ok"
       THEN /\ StartSession(r.tab, r.token, Unmounted(r.tab, rest))
            /\ \E p \in Destinations(r.kind) : page' = [page EXCEPT ![r.tab] = p]
            /\ submitting' = [submitting EXCEPT ![r.tab] = FALSE]
       ELSE /\ KeepSession /\ wire' = rest /\ UNCHANGED page
            /\ submitting' = [submitting EXCEPT ![r.tab] = @ /\ ~r.form]

ReceiveVerified(r) ==
    LET rest == wire \ {r} IN
    /\ r.kind = "verify"
    /\ IF Reported(r) THEN EndSession(r.tab, rest)
       ELSE /\ profile' = IF r.result = "ok" /\ r.current
                          THEN [profile EXCEPT ![r.tab] = Owner(r.cred)] ELSE profile
            /\ wire' = rest
            /\ UNCHANGED <<stored, memory, status, timer, page>>
    /\ UNCHANGED submitting

\* logout() clears whatever came of the request, and the market is shown.
ReceiveLogout(r) ==
    /\ r.kind = "logout"
    /\ Clear(r.tab, Unmounted(r.tab, wire \ {r}))
    /\ page' = [page EXCEPT ![r.tab] = "market"]
    /\ submitting' = [submitting EXCEPT ![r.tab] = FALSE]

Receive(r) ==
    /\ r.result # "pending"
    /\ \/ ReceiveProfile(r) \/ ReceiveData(r) \/ ReceiveStart(r)
       \/ ReceiveVerified(r) \/ ReceiveLogout(r)
    /\ UNCHANGED <<issued, live>>

-----------------------------------------------------------------------------
Next ==
    \/ \E t \in Tabs :
          \/ RetryProfile(t) \/ ClickLogout(t) \/ SubmitCode(t) \/ AskData(t)
          \/ \E p \in Pages : Visit(t, p)
          \/ \E kind \in Starts, a \in Accounts : SubmitForm(t, kind, a)
    \/ \E r \in wire : Serve(r) \/ Fail(r) \/ Receive(r)
    \/ \E a \in Accounts : Revoke(a)

Spec == Init /\ [][Next]_vars

\* Requests of a kind with a given answer reach their tab.
Delivered(kind, results) ==
    \E r \in wire : r.kind = kind /\ r.result \in results /\ Receive(r)
Handled(kind) == \E r \in wire : r.kind = kind /\ Serve(r)

\* A page that polls is in the foreground, timers fire, answers arrive;
\* connections may fail any number of times, but not every time.
FairSpec ==
    /\ Spec
    /\ \A t \in Tabs : SF_vars(RetryProfile(t)) /\ SF_vars(Poll(t))
    /\ \A kind \in {"me", "data"} : WF_vars(Handled(kind) \/ Delivered(kind, Results))
    /\ WF_vars(\E kind \in Kinds \ {"me", "data"} : Handled(kind) \/ Delivered(kind, Results))
    /\ \A kind \in {"me", "data"} :
          SF_vars(Handled(kind)) /\ SF_vars(Delivered(kind, {"ok", "rejected"}))

-----------------------------------------------------------------------------
(* Properties *)

\* Every variable keeps its type.
TypeOK ==
    /\ issued \in Seq(Accounts) /\ Len(issued) <= MaxTokens
    /\ live \subseteq 1 .. Len(issued)
    /\ stored \in 0 .. Len(issued)
    /\ memory \in [Tabs -> 0 .. Len(issued)]
    /\ status \in [Tabs -> {"loading", "authenticated", "anonymous"}]
    /\ profile \in [Tabs -> Accounts \cup {Nobody}]
    /\ timer \in [Tabs -> BOOLEAN]
    /\ page \in [Tabs -> Pages]
    /\ submitting \in [Tabs -> BOOLEAN]
    /\ wire \subseteq Request
    /\ \A r \in wire : r.cred <= Len(issued) /\ r.token <= Len(issued)

\* The name in the header belongs to the token that requests go out with,
\* whatever answers of earlier sessions are still to come (AuthContext.tsx:56).
ProfileMatchesToken ==
    \A t \in Tabs : profile[t] # Nobody => Owner(Token(t)) = profile[t]

\* The token alone decides whether a tab is logged in (AuthContext.tsx:14-17).
StatusFollowsToken ==
    \A t \in Tabs : status[t] = "anonymous" <=> Token(t) = None

\* A 401 to a request sent with an older token never ends the newer session
\* (client.ts:42-45).
NewerSessionSurvives ==
    [][\A r \in wire :
          r.result = "rejected" /\ r.cred # Credential(r.tab, r.kind) /\ Receive(r)
             => stored' = stored]_vars

\* A tab whose session was ended elsewhere finds out, if it stays on a page
\* that polls (MarketPage.tsx:20-23, CertificationPage.tsx:76).
EndedSessionNoticed ==
    \A t \in Tabs :
        (page[t] \in Polling /\ Token(t) # None /\ Token(t) \notin live)
            ~> (page[t] \notin Polling \/ Token(t) = None \/ Token(t) \in live)

\* A logged-in tab that could not load its profile gets it in the end, or is
\* logged out (AuthContext.tsx:86-90).
ProfileArrives ==
    \A t \in Tabs : (status[t] # "anonymous" /\ profile[t] = Nobody)
                       ~> (status[t] = "anonymous" \/ profile[t] # Nobody)
=============================================================================
