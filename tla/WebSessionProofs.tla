-------------------------- MODULE WebSessionProofs --------------------------
(***************************************************************************)
(* The login session, for any number of accounts, logins and requests.     *)
(* What a variable holds needs no more; whose session a tab shows is       *)
(* proved of one tab, because tabs that share localStorage can change the  *)
(* token under each other's feet.                                          *)
(***************************************************************************)
EXTENDS WebSession, SequenceTheorems, TLAPS

-----------------------------------------------------------------------------
(* The requests on the wire *)

\* Messages carry tokens issued so far, and a form names its account.
Known(requests, n) ==
    /\ requests \subseteq Request
    /\ \A r \in requests : /\ r.cred <= n /\ r.token <= n
                           /\ r.kind \in Starts => r.who \in Accounts

\* What TypeOK says of the browser, given how many tokens there are.
BrowserOK(n) ==
    /\ stored \in 0 .. n
    /\ memory \in [Tabs -> 0 .. n]
    /\ status \in [Tabs -> {"loading", "authenticated", "anonymous"}]
    /\ profile \in [Tabs -> Accounts \cup {Nobody}]
    /\ timer \in [Tabs -> BOOLEAN]
    /\ page \in [Tabs -> Pages]
    /\ submitting \in [Tabs -> BOOLEAN]

ServerOK ==
    /\ issued \in Seq(Accounts) /\ Len(issued) <= MaxTokens
    /\ live \subseteq 1 .. Len(issued)

\* The type invariant with the one fact it needs to be inductive.
Typed == ServerOK /\ BrowserOK(Len(issued)) /\ Known(wire, Len(issued))

LEMMA TypedIsTypeOK == Typed => TypeOK
BY DEF Typed, TypeOK, ServerOK, BrowserOK, Known

LEMMA RequestParts ==
    ASSUME NEW r \in Request
    PROVE  /\ r.tab \in Tabs /\ r.kind \in Kinds /\ r.cred \in Tokens \cup {None}
           /\ r.current \in BOOLEAN /\ r.form \in BOOLEAN /\ r.who \in Accounts \cup {Nobody}
           /\ r.result \in Results /\ r.token \in Tokens \cup {None}
           /\ r.cred \in Nat /\ r.token \in Nat
BY DEF Request, Tokens, None

LEMMA OutdatedIsKnown ==
    ASSUME NEW t \in Tabs, NEW requests, NEW n, Known(requests, n)
    PROVE  Known(Outdated(t, requests), n) /\ Known(Unmounted(t, requests), n)
<1>1. ASSUME NEW r \in requests
      PROVE  /\ [r EXCEPT !.current = @ /\ r.tab # t] \in Request
             /\ [r EXCEPT !.form = @ /\ r.tab # t] \in Request
             /\ [r EXCEPT !.current = @ /\ r.tab # t].cred = r.cred
             /\ [r EXCEPT !.current = @ /\ r.tab # t].token = r.token
             /\ [r EXCEPT !.form = @ /\ r.tab # t].cred = r.cred
             /\ [r EXCEPT !.form = @ /\ r.tab # t].token = r.token
             /\ [r EXCEPT !.current = @ /\ r.tab # t].kind = r.kind
             /\ [r EXCEPT !.current = @ /\ r.tab # t].who = r.who
             /\ [r EXCEPT !.form = @ /\ r.tab # t].kind = r.kind
             /\ [r EXCEPT !.form = @ /\ r.tab # t].who = r.who
  <2>1. r \in Request
    BY DEF Known
  <2>2. (r.current /\ r.tab # t) \in BOOLEAN /\ (r.form /\ r.tab # t) \in BOOLEAN
    OBVIOUS
  <2> QED BY <2>1, <2>2 DEF Request
<1>2. ASSUME NEW x \in Outdated(t, requests)
      PROVE  x \in Request /\ x.cred <= n /\ x.token <= n /\ (x.kind \in Starts => x.who \in Accounts)
  <2>1. PICK r \in requests : x = [r EXCEPT !.current = @ /\ r.tab # t]
    BY DEF Outdated
  <2>2. r.cred <= n /\ r.token <= n /\ (r.kind \in Starts => r.who \in Accounts)
    BY DEF Known
  <2> QED BY <1>1, <2>1, <2>2
<1>3. ASSUME NEW x \in Unmounted(t, requests)
      PROVE  x \in Request /\ x.cred <= n /\ x.token <= n /\ (x.kind \in Starts => x.who \in Accounts)
  <2>1. PICK r \in requests : x = [r EXCEPT !.form = @ /\ r.tab # t]
    BY DEF Unmounted
  <2>2. r.cred <= n /\ r.token <= n /\ (r.kind \in Starts => r.who \in Accounts)
    BY DEF Known
  <2> QED BY <1>1, <2>1, <2>2
<1>4. Known(Outdated(t, requests), n)
  BY <1>2 DEF Known
<1>5. Known(Unmounted(t, requests), n)
  BY <1>3 DEF Known
<1> QED BY <1>4, <1>5

\* Every message carries a token known when it is sent.
LEMMA MessageIsKnown ==
    ASSUME Typed, NEW t \in Tabs, NEW kind \in Kinds, NEW who \in Accounts \cup {Nobody}
    PROVE  /\ Message(t, kind, who) \in Request
           /\ Message(t, kind, who).cred <= Len(issued)
           /\ Message(t, kind, who).token <= Len(issued)
           /\ Message(t, kind, who).kind = kind /\ Message(t, kind, who).who = who
<1>1. Len(issued) \in Nat /\ Len(issued) <= MaxTokens /\ MaxTokens \in Nat
  BY BoundAssumption, LenProperties DEF Typed, ServerOK
<1>2. Credential(t, kind) \in 0 .. Len(issued)
  BY <1>1 DEF Typed, BrowserOK, Credential, Token, None
<1>3. Credential(t, kind) \in Tokens \cup {None}
  BY <1>1, <1>2 DEF Tokens, None
<1>4. (kind \in Starts) \in BOOLEAN
  OBVIOUS
<1>5. Message(t, kind, who) \in Request
  BY <1>3, <1>4 DEF Message, Request, Results
<1> QED BY <1>1, <1>2, <1>5 DEF Message, None

LEMMA AnswerIsKnown ==
    ASSUME Typed, NEW r \in wire, NEW result \in Results, NEW n \in Nat,
           Len(issued) <= n, n <= MaxTokens, NEW token \in 0 .. n, Answered(r, result, token)
    PROVE  Known(wire', n)
<1>1. /\ r \in Request /\ Len(issued) \in Nat
      /\ \A x \in wire : x \in Request /\ x.cred <= Len(issued) /\ x.token <= Len(issued)
  BY LenProperties DEF Typed, ServerOK, Known
<1>2. \A x \in Request : x.cred \in Nat /\ x.token \in Nat
  BY RequestParts
<1>3. \A x \in wire : x \in Request /\ x.cred <= n /\ x.token <= n
  BY <1>1, <1>2
<1>4. token \in Tokens \cup {None}
  BY BoundAssumption DEF Tokens, None
<1> DEFINE answer == [r EXCEPT !.result = result, !.token = token]
<1>5. /\ answer \in Request /\ answer.cred = r.cred /\ answer.token = token
      /\ answer.kind = r.kind /\ answer.who = r.who
  BY <1>1, <1>4 DEF Request
<1>6. wire' = (wire \ {r}) \cup {answer}
  BY DEF Answered
<1> HIDE DEF answer
<1>7. \A x \in wire : x.kind \in Starts => x.who \in Accounts
  BY DEF Typed, Known
<1> QED BY <1>3, <1>5, <1>6, <1>7 DEF Known

-----------------------------------------------------------------------------
(* Types *)

LEMMA LandingType ==
    ASSUME NEW p \in Pages, NEW st, NEW busy
    PROVE  Landing(p, st, busy) \in Pages
BY DEF Landing, Pages, Polling, Guarded

\* The owner of a token is an account, or nobody.
LEMMA OwnerType ==
    ASSUME ServerOK, NEW token \in 0 .. Len(issued)
    PROVE  Owner(token) \in Accounts \cup {Nobody}
<1>1. CASE token = None
  BY <1>1 DEF Owner
<1>2. CASE token # None
  <2>1. token \in 1 .. Len(issued)
    BY <1>2, LenProperties DEF ServerOK, None
  <2>2. issued[token] \in Accounts
    BY <2>1, ElementOfSeq DEF ServerOK
  <2> QED BY <1>2, <2>2 DEF Owner
<1> QED BY <1>1, <1>2

LEMMA ClearType ==
    ASSUME BrowserOK(Len(issued)), ServerOK, NEW t \in Tabs, NEW requests,
           Known(requests, Len(issued)), Clear(t, requests),
           page' \in [Tabs -> Pages], submitting' \in [Tabs -> BOOLEAN], UNCHANGED issued
    PROVE  BrowserOK(Len(issued))' /\ Known(wire', Len(issued))
<1>1. Known(wire', Len(issued))
  BY OutdatedIsKnown DEF Clear
<1>2. /\ stored' = None /\ memory' = [memory EXCEPT ![t] = None]
      /\ status' = [status EXCEPT ![t] = "anonymous"]
      /\ profile' = [profile EXCEPT ![t] = Nobody]
      /\ timer' = [timer EXCEPT ![t] = FALSE]
  BY DEF Clear
<1>3. None \in 0 .. Len(issued)
  BY LenProperties DEF None, ServerOK
<1> QED BY <1>1, <1>2, <1>3 DEF BrowserOK

LEMMA EndSessionType ==
    ASSUME BrowserOK(Len(issued)), ServerOK, NEW t \in Tabs, NEW requests,
           Known(requests, Len(issued)), EndSession(t, requests), UNCHANGED <<issued, submitting>>
    PROVE  BrowserOK(Len(issued))' /\ Known(wire', Len(issued))
<1>1. page' \in [Tabs -> Pages]
  BY LandingType DEF BrowserOK, EndSession, Landed
<1>2. submitting' \in [Tabs -> BOOLEAN]
  BY DEF BrowserOK
<1> QED BY <1>1, <1>2, ClearType DEF EndSession

LEMMA PersonType ==
    ASSUME Typed, NEW t \in Tabs,
           \/ RetryProfile(t) \/ ClickLogout(t) \/ SubmitCode(t) \/ AskData(t)
           \/ \E p \in Pages : Visit(t, p)
           \/ \E kind \in Starts, a \in Accounts : SubmitForm(t, kind, a)
    PROVE  Typed'
<1>1. ServerOK /\ BrowserOK(Len(issued)) /\ Known(wire, Len(issued))
  BY DEF Typed
<1>2. UNCHANGED <<issued, live>>
  BY DEF RetryProfile, ClickLogout, SubmitCode, AskData, Visit, SubmitForm
<1>3. ServerOK'
  BY <1>1, <1>2 DEF ServerOK
<1>4. ASSUME NEW kind \in Kinds, NEW who \in Accounts \cup {Nobody}, Send(t, kind, who),
             kind \in Starts => who \in Accounts
      PROVE  Known(wire', Len(issued))
  BY <1>1, <1>4, MessageIsKnown DEF Send, Known
<1>5. ASSUME NEW kind \in Kinds, NEW who \in Accounts \cup {Nobody}, Send(t, kind, who),
             kind \notin Starts, UNCHANGED browser
      PROVE  Typed'
  BY <1>1, <1>2, <1>3, <1>4, <1>5 DEF Typed, browser, BrowserOK
<1>6. CASE RetryProfile(t)
  <2>1. CASE Token(t) = None
    <3>1. EndSession(t, wire) /\ UNCHANGED <<issued, submitting>>
      BY <1>6, <2>1 DEF RetryProfile
    <3> QED BY <1>1, <1>2, <1>3, <3>1, EndSessionType DEF Typed
  <2>2. CASE Token(t) # None
    <3>1. Send(t, "me", Nobody) /\ UNCHANGED <<stored, memory, status, profile, page, submitting>>
      BY <1>6, <2>2 DEF RetryProfile
    <3>2. Known(wire', Len(issued))
      BY <1>4, <3>1 DEF Kinds, Starts
    <3>3. timer' = [timer EXCEPT ![t] = FALSE]
      BY <1>6, <2>2 DEF RetryProfile
    <3> QED BY <1>1, <1>2, <1>3, <3>1, <3>2, <3>3 DEF Typed, BrowserOK
  <2> QED BY <2>1, <2>2
<1>7. CASE ClickLogout(t) \/ SubmitCode(t) \/ AskData(t)
  BY <1>5, <1>7 DEF ClickLogout, SubmitCode, AskData, Kinds, Starts
<1>8. ASSUME NEW p \in Pages, Visit(t, p) PROVE Typed'
  <2>1. Known(wire', Len(issued))
    BY <1>1, <1>8, OutdatedIsKnown DEF Visit
  <2>2. /\ page' = [page EXCEPT ![t] = Landing(p, status[t], FALSE)]
        /\ submitting' = [submitting EXCEPT ![t] = FALSE]
        /\ UNCHANGED <<stored, memory, status, profile, timer>>
    BY <1>8 DEF Visit
  <2>3. Landing(p, status[t], FALSE) \in Pages
    BY LandingType
  <2> QED BY <1>1, <1>2, <1>3, <2>1, <2>2, <2>3 DEF Typed, BrowserOK
<1>9. ASSUME NEW kind \in Starts, NEW a \in Accounts, SubmitForm(t, kind, a) PROVE Typed'
  <2>1. Known(wire', Len(issued))
    BY <1>4, <1>9 DEF SubmitForm, Starts, Kinds
  <2>2. /\ submitting' = [submitting EXCEPT ![t] = TRUE]
        /\ UNCHANGED <<stored, memory, status, profile, timer, page>>
    BY <1>9 DEF SubmitForm, KeepSession
  <2> QED BY <1>1, <1>2, <1>3, <2>1, <2>2 DEF Typed, BrowserOK
<1> QED BY <1>6, <1>7, <1>8, <1>9

LEMMA ServerType ==
    ASSUME Typed, NEW r \in wire, Serve(r) \/ Fail(r)
    PROVE  Typed'
<1>1. ServerOK /\ BrowserOK(Len(issued)) /\ Known(wire, Len(issued))
  BY DEF Typed
<1>2. UNCHANGED browser
  BY DEF Serve, Fail
<1>3. /\ r \in Request /\ r.who \in Accounts \cup {Nobody} /\ Len(issued) \in Nat
      /\ issued \in Seq(Accounts) /\ MaxTokens \in Nat
      /\ r.kind \in Starts => r.who \in Accounts
  BY <1>1, RequestParts, LenProperties, BoundAssumption DEF Known, ServerOK
<1>4. ASSUME NEW result \in Results, Answered(r, result, None), UNCHANGED issued,
             live' \subseteq live
      PROVE  Typed'
  <2>1. Known(wire', Len(issued))
    BY <1>1, <1>3, <1>4, AnswerIsKnown DEF ServerOK, None
  <2> QED BY <1>1, <1>2, <1>4, <2>1 DEF Typed, ServerOK, BrowserOK, browser
<1>5. ASSUME r.kind \in Starts, Len(issued) < MaxTokens, Issue(r.who),
             live' \subseteq live \cup {Len(issued) + 1}, Answered(r, "ok", Len(issued) + 1)
      PROVE  Typed'
  <2>1. issued' \in Seq(Accounts) /\ Len(issued') = Len(issued) + 1
    BY <1>3, <1>5, AppendProperties DEF Issue
  <2>2. Known(wire', Len(issued) + 1)
    BY <1>3, <1>5, AnswerIsKnown DEF Results
  <2>3. ServerOK'
    BY <1>1, <1>3, <1>5, <2>1 DEF ServerOK
  <2>4. BrowserOK(Len(issued))'
    BY <1>1, <1>2, <1>3, <2>1 DEF BrowserOK, browser
  <2> QED BY <2>1, <2>2, <2>3, <2>4 DEF Typed
<1>6. CASE Fail(r)
  BY <1>4, <1>6 DEF Fail, Results
<1>7. CASE Serve(r)
  <2>1. CASE ServeRead(r)
    BY <1>4, <2>1 DEF ServeRead, Results
  <2>2. CASE ServeLogout(r)
    BY <1>4, <2>2 DEF ServeLogout, Results
  <2>3. CASE Refused(r)
    BY <1>4, <2>3 DEF Refused, Results
  <2>4. CASE (ServeLogin(r) \/ ServeReset(r)) /\ ~Refused(r)
    BY <1>5, <2>4 DEF ServeLogin, ServeReset, Starts
  <2> QED BY <1>7, <2>1, <2>2, <2>3, <2>4 DEF Serve, ServeLogin, ServeReset
<1> QED BY <1>6, <1>7

LEMMA SmallerIsKnown ==
    ASSUME NEW requests, NEW n, Known(requests, n), NEW fewer, fewer \subseteq requests
    PROVE  Known(fewer, n)
BY DEF Known

LEMMA AnsweredTabType ==
    ASSUME Typed, NEW r \in wire, Receive(r)
    PROVE  Typed'
<1> DEFINE rest == wire \ {r}
<1> DEFINE t == r.tab
<1>1. ServerOK /\ BrowserOK(Len(issued)) /\ Known(wire, Len(issued))
  BY DEF Typed
<1>2. UNCHANGED <<issued, live>>
  BY DEF Receive
<1>3. ServerOK'
  BY <1>1, <1>2 DEF ServerOK
<1>4. Known(rest, Len(issued))
  BY <1>1, SmallerIsKnown
<1>5. r \in Request /\ t \in Tabs /\ Len(issued) \in Nat
      /\ r.cred \in Nat /\ r.cred <= Len(issued) /\ r.token \in Nat /\ r.token <= Len(issued)
  BY <1>1, RequestParts, LenProperties DEF Known, ServerOK
<1>6. /\ Owner(r.cred) \in Accounts \cup {Nobody}
      /\ Owner(r.token) \in Accounts \cup {Nobody}
  BY <1>1, <1>5, OwnerType
<1>7. ASSUME EndSession(t, rest), UNCHANGED submitting PROVE Typed'
  <2>1. BrowserOK(Len(issued))' /\ Known(wire', Len(issued))
    BY <1>1, <1>2, <1>4, <1>5, <1>7, EndSessionType
  <2> QED BY <1>2, <1>3, <2>1 DEF Typed
<1>8. ASSUME KeepSession, wire' = rest, UNCHANGED page, submitting' \in [Tabs -> BOOLEAN]
      PROVE  Typed'
  BY <1>1, <1>2, <1>3, <1>4, <1>8 DEF Typed, KeepSession, BrowserOK
<1>9. submitting \in [Tabs -> BOOLEAN]
  BY <1>1 DEF BrowserOK
<1>10. CASE ReceiveProfile(r)
  <2>1. UNCHANGED submitting
    BY <1>10 DEF ReceiveProfile
  <2>2. ASSUME Landed(t, "authenticated", submitting[t]) PROVE page' \in [Tabs -> Pages]
    BY <1>1, <2>2, LandingType DEF Landed, BrowserOK
  <2>3. CASE Reported(r)
    <3>1. r.result = "rejected"
      BY <2>3 DEF Reported
    <3>2. EndSession(t, rest)
      BY <1>10, <2>3, <3>1 DEF ReceiveProfile
    <3> QED BY <1>7, <2>1, <3>2
  <2>4. CASE ~Reported(r) /\ ~r.current
    BY <1>8, <1>9, <1>10, <2>1, <2>4 DEF ReceiveProfile
  <2>5. CASE ~Reported(r) /\ r.current /\ r.result = "ok"
    <3>1. /\ profile' = [profile EXCEPT ![t] = Owner(r.cred)]
          /\ status' = [status EXCEPT ![t] = "authenticated"]
          /\ Landed(t, "authenticated", submitting[t])
          /\ wire' = rest
          /\ UNCHANGED <<stored, memory, timer>>
      BY <1>10, <2>5 DEF ReceiveProfile
    <3> QED BY <1>1, <1>2, <1>3, <1>4, <1>5, <1>6, <2>1, <2>2, <3>1 DEF Typed, BrowserOK
  <2>6. CASE ~Reported(r) /\ r.current /\ r.result = "rejected"
    <3>1. EndSession(t, rest)
      BY <1>10, <2>6 DEF ReceiveProfile
    <3> QED BY <1>7, <2>1, <3>1
  <2>7. CASE ~Reported(r) /\ r.current /\ r.result = "failed"
    <3>1. /\ status' = [status EXCEPT ![t] = "authenticated"]
          /\ RetryLater(t)
          /\ Landed(t, "authenticated", submitting[t])
          /\ wire' = rest
          /\ UNCHANGED <<stored, memory, profile>>
      BY <1>10, <2>7 DEF ReceiveProfile
    <3>2. timer' \in [Tabs -> BOOLEAN]
      BY <1>1, <3>1 DEF RetryLater, BrowserOK
    <3> QED BY <1>1, <1>2, <1>3, <1>4, <1>5, <2>1, <2>2, <3>1, <3>2 DEF Typed, BrowserOK
  <2>8. r.current \in BOOLEAN /\ r.result \in {"ok", "rejected", "failed"}
    BY <1>5, RequestParts DEF Receive, Results
  <2> QED BY <2>3, <2>4, <2>5, <2>6, <2>7, <2>8
<1>11. CASE ReceiveData(r)
  BY <1>7, <1>8, <1>9, <1>11 DEF ReceiveData
<1>12. CASE ReceiveStart(r)
  <2>1. CASE r.result = "ok"
    <3>1. /\ StartSession(t, r.token, Unmounted(t, rest))
          /\ \E p \in Destinations(r.kind) : page' = [page EXCEPT ![t] = p]
          /\ submitting' = [submitting EXCEPT ![t] = FALSE]
      BY <1>12, <2>1 DEF ReceiveStart
    <3>2. Known(wire', Len(issued))
      BY <1>4, <1>5, <3>1, OutdatedIsKnown DEF StartSession
    <3>3. r.token \in 0 .. Len(issued) /\ Destinations(r.kind) \subseteq Pages
      BY <1>5 DEF Destinations, Pages, Polling, Guarded
    <3>4. page' \in [Tabs -> Pages]
      BY <1>1, <3>1, <3>3 DEF BrowserOK
    <3> QED BY <1>1, <1>2, <1>3, <1>5, <1>6, <3>1, <3>2, <3>3, <3>4 DEF Typed, BrowserOK, StartSession
  <2>2. CASE r.result # "ok"
    <3>1. submitting' = [submitting EXCEPT ![t] = @ /\ ~r.form]
      BY <1>12, <2>2 DEF ReceiveStart
    <3>2. submitting' \in [Tabs -> BOOLEAN]
      BY <1>9, <3>1
    <3> QED BY <1>8, <1>12, <2>2, <3>2 DEF ReceiveStart
  <2> QED BY <2>1, <2>2
<1>13. CASE ReceiveVerified(r)
  <2>1. CASE Reported(r)
    BY <1>7, <1>13, <2>1 DEF ReceiveVerified
  <2>2. CASE ~Reported(r)
    <3>1. /\ profile' = IF r.result = "ok" /\ r.current
                          THEN [profile EXCEPT ![t] = Owner(r.cred)] ELSE profile
          /\ wire' = rest
          /\ UNCHANGED <<stored, memory, status, timer, page, submitting>>
      BY <1>13, <2>2 DEF ReceiveVerified
    <3> QED BY <1>1, <1>2, <1>3, <1>4, <1>5, <1>6, <3>1 DEF Typed, BrowserOK
  <2> QED BY <2>1, <2>2
<1>14. CASE ReceiveLogout(r)
  <2>1. Clear(t, Unmounted(t, rest)) /\ Known(Unmounted(t, rest), Len(issued))
    BY <1>4, <1>5, <1>14, OutdatedIsKnown DEF ReceiveLogout
  <2>2. page' \in [Tabs -> Pages] /\ submitting' \in [Tabs -> BOOLEAN]
    BY <1>1, <1>14 DEF ReceiveLogout, BrowserOK, Pages, Polling
  <2>3. BrowserOK(Len(issued))' /\ Known(wire', Len(issued))
    BY <1>1, <1>2, <1>5, <2>1, <2>2, ClearType
  <2> QED BY <1>2, <1>3, <2>3 DEF Typed
<1> QED BY <1>10, <1>11, <1>12, <1>13, <1>14 DEF Receive

LEMMA TypedAtFirst == Init => Typed
<1> SUFFICES ASSUME Init PROVE Typed
  OBVIOUS
<1>1. /\ issued \in Seq(Accounts) /\ Len(issued) <= MaxTokens /\ stored \in 0 .. Len(issued)
      /\ Len(issued) \in Nat
  <2>1. CASE issued = <<>> /\ stored = None
    <3>1. issued \in Seq(Accounts) /\ Len(issued) = 0
      BY <2>1
    <3> QED BY <2>1, <3>1, BoundAssumption DEF None
  <2>2. ASSUME NEW a \in Accounts, issued = <<a>>, stored = 1
        PROVE  /\ issued \in Seq(Accounts) /\ Len(issued) = 1 /\ stored \in 0 .. 1
    BY <2>2
  <2>3. \/ issued = <<>> /\ stored = None
        \/ \E a \in Accounts : issued = <<a>> /\ stored = 1
    BY DEF Init
  <2>4. MaxTokens \in Nat /\ 1 <= MaxTokens
    BY BoundAssumption
  <2>5. ASSUME NEW a \in Accounts, issued = <<a>>, stored = 1
        PROVE  /\ issued \in Seq(Accounts) /\ Len(issued) <= MaxTokens /\ stored \in 0 .. Len(issued)
               /\ Len(issued) \in Nat
    BY <2>2, <2>4, <2>5
  <2> QED BY <2>1, <2>3, <2>5
<1>2. live \subseteq 1 .. Len(issued)
  BY <1>1 DEF Init, None
<1>3. BrowserOK(Len(issued))
  <2>1. /\ memory = [t \in Tabs |-> None]
        /\ status = [t \in Tabs |-> IF stored = None THEN "anonymous" ELSE "loading"]
        /\ profile = [t \in Tabs |-> Nobody]
        /\ timer = [t \in Tabs |-> FALSE]
        /\ page \in [Tabs -> Pages \ Starts]
        /\ submitting = [t \in Tabs |-> FALSE]
    BY DEF Init
  <2>2. page \in [Tabs -> Pages]
    BY <2>1 DEF Pages
  <2> QED BY <1>1, <2>1, <2>2 DEF BrowserOK, None
<1>4. Known(wire, Len(issued))
  <2>1. ASSUME NEW t \in Tabs
        PROVE  /\ Message(t, "me", Nobody) \in Request
               /\ Message(t, "me", Nobody).cred <= Len(issued)
               /\ Message(t, "me", Nobody).token <= Len(issued)
               /\ Message(t, "me", Nobody).kind \notin Starts
    <3>1. Credential(t, "me") = stored
      BY <1>3 DEF Credential, Token, Starts, Init, None
    <3>2. stored \in Tokens \cup {None} /\ 0 \in Tokens \cup {None}
      BY <1>1, BoundAssumption DEF Tokens, None
    <3> QED BY <1>1, <3>1, <3>2 DEF Message, Request, Kinds, Starts, Results, None
  <2>2. wire = {} \/ wire = {Message(t, "me", Nobody) : t \in Tabs}
    BY DEF Init
  <2> QED BY <2>1, <2>2 DEF Known
<1> QED BY <1>1, <1>2, <1>3, <1>4 DEF Typed, ServerOK

LEMMA TypedStep == Typed /\ [Next]_vars => Typed'
<1> SUFFICES ASSUME Typed, [Next]_vars PROVE Typed'
  OBVIOUS
<1>1. CASE UNCHANGED vars
  BY <1>1 DEF Typed, ServerOK, BrowserOK, Known, vars, browser
<1>2. ASSUME NEW a \in Accounts, Revoke(a) PROVE Typed'
  BY <1>2 DEF Revoke, Typed, ServerOK, BrowserOK, Known, browser
<1> QED BY <1>1, <1>2, PersonType, ServerType, AnsweredTabType DEF Next

\* Every variable keeps its type: no token is used that was not issued.
THEOREM TypesHold == Spec => []TypeOK
<1>1. Spec => []Typed
  BY TypedAtFirst, TypedStep, PTL DEF Spec
<1> QED BY <1>1, TypedIsTypeOK, PTL
-----------------------------------------------------------------------------
(* Whose session a tab shows *)

\* The browser has one tab (or none): localStorage has one reader and writer.
OneTab == \A t, u \in Tabs : t = u

\* What an answer on the wire may be, and which token a current one was sent with.
SoundRequest(r, token) ==
    /\ r.kind \in Starts => /\ r.result # "rejected"
                            /\ r.result = "ok" => r.token # None
    /\ r.kind = "logout" => r.result # "rejected"
    /\ r.kind \notin Starts => /\ r.cred # None
                               /\ r.current => r.cred = token

AnswersSound == \A r \in wire : SoundRequest(r, stored)

\* The tab's own copy of the token outlives no other, and what it shows is the token's.
TabSound ==
    \A t \in Tabs : /\ stored = None => memory[t] = None
                    /\ status[t] = "anonymous" <=> stored = None
                    /\ profile[t] # Nobody => Owner(stored) = profile[t]

\* Inductive: the two invariants, and why no answer can break them.
Session == OneTab /\ Typed /\ AnswersSound /\ TabSound

LEMMA TokenIsStored ==
    ASSUME TabSound, NEW t \in Tabs
    PROVE  Token(t) = stored
BY DEF TabSound, Token

LEMMA SessionIsShown == Session => StatusFollowsToken /\ ProfileMatchesToken
BY TokenIsStored DEF Session, TabSound, StatusFollowsToken, ProfileMatchesToken

\* In one tab, a step of the session leaves no request current.
LEMMA OutdatedIsSound ==
    ASSUME OneTab, NEW t \in Tabs, NEW requests \in SUBSET Request, NEW old, NEW new,
           \A r \in requests : SoundRequest(r, old)
    PROVE  \A x \in Outdated(t, requests) : SoundRequest(x, new)
<1> SUFFICES ASSUME NEW x \in Outdated(t, requests) PROVE SoundRequest(x, new)
  OBVIOUS
<1>1. PICK r \in requests : x = [r EXCEPT !.current = @ /\ r.tab # t]
  BY DEF Outdated
<1>2. r \in Request /\ r.tab = t
  BY RequestParts DEF OneTab
<1>3. /\ x.kind = r.kind /\ x.result = r.result /\ x.token = r.token /\ x.cred = r.cred
      /\ x.current = FALSE
  BY <1>1, <1>2 DEF Request
<1>4. SoundRequest(r, old)
  OBVIOUS
<1> QED BY <1>3, <1>4 DEF SoundRequest

LEMMA UnmountedIsSound ==
    ASSUME NEW t \in Tabs, NEW requests \in SUBSET Request, NEW token,
           \A r \in requests : SoundRequest(r, token)
    PROVE  /\ \A x \in Unmounted(t, requests) : SoundRequest(x, token)
           /\ Unmounted(t, requests) \in SUBSET Request
<1>1. ASSUME NEW x \in Unmounted(t, requests)
      PROVE  SoundRequest(x, token) /\ x \in Request
  <2>1. PICK r \in requests : x = [r EXCEPT !.form = @ /\ r.tab # t]
    BY <1>1 DEF Unmounted
  <2>2. r \in Request /\ (r.form /\ r.tab # t) \in BOOLEAN
    OBVIOUS
  <2>3. /\ x.kind = r.kind /\ x.result = r.result /\ x.token = r.token /\ x.cred = r.cred
        /\ x.current = r.current /\ x \in Request
    BY <2>1, <2>2 DEF Request
  <2>4. SoundRequest(r, token)
    OBVIOUS
  <2> QED BY <2>3, <2>4 DEF SoundRequest
<1> QED BY <1>1

LEMMA ClearIsSound ==
    ASSUME Session, NEW t \in Tabs, NEW requests \in SUBSET Request, Clear(t, requests),
           \A r \in requests : SoundRequest(r, stored)
    PROVE  AnswersSound' /\ TabSound'
<1>1. OneTab /\ requests \in SUBSET Request /\ \A r \in requests : SoundRequest(r, stored)
  BY DEF Session
<1>2. wire' = Outdated(t, requests)
  BY DEF Clear
<1>3. \A x \in wire' : SoundRequest(x, stored')
  BY <1>1, <1>2, OutdatedIsSound
<1>4. /\ memory \in [Tabs -> 0 .. Len(issued)] /\ profile \in [Tabs -> Accounts \cup {Nobody}]
      /\ status \in [Tabs -> {"loading", "authenticated", "anonymous"}]
  BY DEF Session, Typed, BrowserOK
<1>5. TabSound'
  BY <1>1, <1>4 DEF Clear, TabSound, OneTab
<1> QED BY <1>3, <1>5 DEF AnswersSound

\* A new request is current and goes out with the token of the moment.
LEMMA SentIsSound ==
    ASSUME Session, NEW t \in Tabs, NEW kind \in Kinds, NEW who \in Accounts \cup {Nobody},
           Send(t, kind, who), kind \in Starts \/ stored # None, UNCHANGED stored
    PROVE  AnswersSound'
<1>1. Token(t) = stored
  BY TokenIsStored DEF Session
<1>2. SoundRequest(Message(t, kind, who), stored)
  BY <1>1 DEF SoundRequest, Message, Credential
<1> QED BY <1>2 DEF Send, AnswersSound, Session

LEMMA PersonKeepsSession ==
    ASSUME Session, NEW t \in Tabs,
           \/ RetryProfile(t) \/ ClickLogout(t) \/ SubmitCode(t) \/ AskData(t)
           \/ \E p \in Pages : Visit(t, p)
           \/ \E kind \in Starts, a \in Accounts : SubmitForm(t, kind, a)
    PROVE  AnswersSound' /\ TabSound'
<1>1. AnswersSound /\ TabSound /\ Token(t) = stored
  BY TokenIsStored DEF Session
<1>2. UNCHANGED issued
  BY DEF RetryProfile, ClickLogout, SubmitCode, AskData, Visit, SubmitForm
<1>3. ASSUME UNCHANGED <<stored, memory, status, profile>> PROVE TabSound'
  BY <1>1, <1>2, <1>3 DEF TabSound, Owner
<1>4. CASE RetryProfile(t)
  <2>1. CASE Token(t) = None
    <3>1. Clear(t, wire) /\ wire \in SUBSET Request /\ \A r \in wire : SoundRequest(r, stored)
      BY <1>4, <2>1 DEF RetryProfile, EndSession, Session, Typed, Known, AnswersSound
    <3> QED BY <3>1, ClearIsSound
  <2>2. CASE Token(t) # None
    <3>1. Send(t, "me", Nobody) /\ UNCHANGED <<stored, memory, status, profile>>
      BY <1>4, <2>2 DEF RetryProfile
    <3>2. AnswersSound'
      BY <1>1, <2>2, <3>1, SentIsSound DEF Kinds
    <3> QED BY <1>3, <3>1, <3>2
  <2> QED BY <2>1, <2>2
<1>5. CASE ClickLogout(t) \/ SubmitCode(t) \/ AskData(t)
  <2>1. status[t] = "authenticated" /\ UNCHANGED browser
    BY <1>5 DEF ClickLogout, SubmitCode, AskData
  <2>2. stored # None
    BY <1>1, <2>1 DEF TabSound
  <2>3. PICK kind \in {"logout", "verify", "data"} : Send(t, kind, Nobody)
    BY <1>5 DEF ClickLogout, SubmitCode, AskData
  <2>4. AnswersSound'
    BY <2>1, <2>2, <2>3, SentIsSound DEF browser, Kinds
  <2> QED BY <1>3, <2>1, <2>4 DEF browser
<1>6. ASSUME NEW p \in Pages, Visit(t, p) PROVE AnswersSound' /\ TabSound'
  <2>1. wire \in SUBSET Request /\ \A r \in wire : SoundRequest(r, stored)
    BY DEF Session, Typed, Known, AnswersSound
  <2>2. wire' = Unmounted(t, wire) /\ UNCHANGED <<stored, memory, status, profile>>
    BY <1>6 DEF Visit
  <2>3. AnswersSound'
    BY <2>1, <2>2, UnmountedIsSound DEF AnswersSound
  <2> QED BY <1>3, <2>2, <2>3
<1>7. ASSUME NEW kind \in Starts, NEW a \in Accounts, SubmitForm(t, kind, a)
      PROVE  AnswersSound' /\ TabSound'
  <2>1. Send(t, kind, a) /\ UNCHANGED <<stored, memory, status, profile>>
    BY <1>7 DEF SubmitForm, KeepSession
  <2>2. AnswersSound'
    BY <2>1, SentIsSound DEF Kinds, Starts
  <2> QED BY <1>3, <2>1, <2>2
<1> QED BY <1>4, <1>5, <1>6, <1>7

LEMMA ServerKeepsSession ==
    ASSUME Session, NEW r \in wire, Serve(r) \/ Fail(r)
    PROVE  AnswersSound' /\ TabSound'
<1>1. UNCHANGED browser
  BY DEF Serve, Fail
<1>2. /\ r \in Request /\ SoundRequest(r, stored) /\ \A x \in wire : SoundRequest(x, stored)
      /\ Len(issued) \in Nat /\ issued \in Seq(Accounts) /\ stored \in 0 .. Len(issued)
  BY LenProperties DEF Session, AnswersSound, Typed, Known, ServerOK, BrowserOK
<1>3. ASSUME NEW result \in Results, NEW token \in Nat, Answered(r, result, token),
             r.kind \in Starts => result # "rejected" /\ (result = "ok" => token # None),
             r.kind = "logout" => result # "rejected"
      PROVE  AnswersSound'
  <2> DEFINE answer == [r EXCEPT !.result = result, !.token = token]
  <2>1. /\ answer.kind = r.kind /\ answer.result = result /\ answer.token = token
        /\ answer.cred = r.cred /\ answer.current = r.current
    BY <1>2 DEF Request
  <2>2. wire' = (wire \ {r}) \cup {answer}
    BY <1>3 DEF Answered
  <2> HIDE DEF answer
  <2>3. SoundRequest(answer, stored)
    BY <1>2, <1>3, <2>1 DEF SoundRequest
  <2> QED BY <1>1, <1>2, <2>2, <2>3 DEF AnswersSound, browser
<1>4. AnswersSound'
  <2>1. CASE Fail(r)
    BY <1>3, <2>1 DEF Fail, Results, None
  <2>2. CASE ServeRead(r)
    BY <1>3, <2>2 DEF ServeRead, Results, Starts, None
  <2>3. CASE ServeLogout(r)
    BY <1>3, <2>3 DEF ServeLogout, Results, Starts, None
  <2>4. CASE Refused(r)
    BY <1>3, <2>4 DEF Refused, Results, None
  <2>5. CASE (ServeLogin(r) \/ ServeReset(r)) /\ ~Refused(r)
    <3>1. Answered(r, "ok", Len(issued) + 1) /\ r.kind # "logout"
      BY <2>5 DEF ServeLogin, ServeReset
    <3>2. Len(issued) + 1 \in Nat /\ Len(issued) + 1 # None
      BY <1>2 DEF None
    <3> QED BY <1>3, <3>1, <3>2 DEF Results
  <2> QED BY <2>1, <2>2, <2>3, <2>4, <2>5 DEF Serve, ServeLogin, ServeReset
\* The tokens issued before keep their accounts.
<1>5. Owner(stored)' = Owner(stored)
  <2>1. CASE UNCHANGED issued
    BY <1>1, <2>1 DEF Owner, browser
  <2>2. CASE r.kind \in Starts /\ Issue(r.who)
    <3>1. r.who \in Accounts
      BY <2>2 DEF Session, Typed, Known
    <3>2. \A i \in 1 .. Len(issued) : issued'[i] = issued[i]
      BY <1>2, <2>2, <3>1, AppendProperties DEF Issue
    <3>3. stored # None => stored \in 1 .. Len(issued)
      BY <1>2 DEF None
    <3> QED BY <1>1, <3>2, <3>3 DEF Owner, browser
  <2> QED BY <2>1, <2>2 DEF Serve, Fail, ServeLogin, ServeReset, ServeRead, ServeLogout, Refused, Starts
<1> QED BY <1>1, <1>4, <1>5 DEF TabSound, Session, browser

LEMMA AnsweredTabKeepsSession ==
    ASSUME Session, NEW r \in wire, Receive(r)
    PROVE  AnswersSound' /\ TabSound'
<1> DEFINE rest == wire \ {r}
<1> DEFINE t == r.tab
<1>1. /\ OneTab /\ TabSound /\ r \in Request /\ t \in Tabs /\ rest \in SUBSET Request
      /\ SoundRequest(r, stored) /\ \A x \in rest : SoundRequest(x, stored)
  BY RequestParts DEF Session, AnswersSound, Typed, Known
<1>2. UNCHANGED issued
  BY DEF Receive
<1>3. /\ memory \in [Tabs -> 0 .. Len(issued)] /\ profile \in [Tabs -> Accounts \cup {Nobody}]
      /\ status \in [Tabs -> {"loading", "authenticated", "anonymous"}]
  BY DEF Session, Typed, BrowserOK
<1>4. ASSUME Clear(t, rest) PROVE AnswersSound' /\ TabSound'
  BY <1>1, <1>4, ClearIsSound
<1>5. ASSUME wire' = rest, UNCHANGED stored PROVE AnswersSound'
  BY <1>1, <1>5 DEF AnswersSound
<1>6. ASSUME UNCHANGED <<stored, memory, status, profile>> PROVE TabSound'
  BY <1>1, <1>2, <1>6 DEF TabSound, Owner
<1>7. CASE ReceiveProfile(r)
  <2>1. r.cred # None /\ (r.current => r.cred = stored)
    BY <1>1, <1>7 DEF ReceiveProfile, SoundRequest, Starts
  <2>2. CASE Reported(r)
    <3>1. r.result = "rejected"
      BY <2>2 DEF Reported
    <3>2. Clear(t, rest)
      BY <1>7, <2>2, <3>1 DEF ReceiveProfile, EndSession
    <3> QED BY <1>4, <3>2
  <2>3. CASE ~Reported(r) /\ ~r.current
    <3>1. KeepSession /\ wire' = rest
      BY <1>7, <2>3 DEF ReceiveProfile
    <3> QED BY <1>5, <1>6, <3>1 DEF KeepSession
  <2>4. CASE ~Reported(r) /\ r.current /\ r.result = "ok"
    <3>1. /\ profile' = [profile EXCEPT ![t] = Owner(r.cred)]
          /\ status' = [status EXCEPT ![t] = "authenticated"]
          /\ wire' = rest
          /\ UNCHANGED <<stored, memory>>
      BY <1>7, <2>4 DEF ReceiveProfile
    <3>2. TabSound'
      BY <1>1, <1>2, <1>3, <2>1, <2>4, <3>1 DEF TabSound, Owner, OneTab
    <3> QED BY <1>5, <3>1, <3>2
  <2>5. CASE ~Reported(r) /\ r.current /\ r.result = "rejected"
    <3>1. Clear(t, rest)
      BY <1>7, <2>5 DEF ReceiveProfile, EndSession
    <3> QED BY <1>4, <3>1
  <2>6. CASE ~Reported(r) /\ r.current /\ r.result = "failed"
    <3>1. /\ status' = [status EXCEPT ![t] = "authenticated"]
          /\ wire' = rest
          /\ UNCHANGED <<stored, memory, profile>>
      BY <1>7, <2>6 DEF ReceiveProfile
    <3>2. TabSound'
      BY <1>1, <1>2, <1>3, <2>1, <2>6, <3>1 DEF TabSound, Owner, OneTab
    <3> QED BY <1>5, <3>1, <3>2
  <2>7. r.current \in BOOLEAN /\ r.result \in {"ok", "rejected", "failed"}
    BY <1>1, RequestParts DEF Receive, Results
  <2> QED BY <2>2, <2>3, <2>4, <2>5, <2>6, <2>7
<1>8. CASE ReceiveData(r)
  BY <1>4, <1>5, <1>6, <1>8 DEF ReceiveData, KeepSession, EndSession
<1>9. CASE ReceiveStart(r)
  <2>1. CASE r.result = "ok"
    <3>1. StartSession(t, r.token, Unmounted(t, rest)) /\ r.token # None
      BY <1>1, <1>9, <2>1 DEF ReceiveStart, SoundRequest
    <3>2. /\ Unmounted(t, rest) \in SUBSET Request
          /\ \A x \in Unmounted(t, rest) : SoundRequest(x, stored)
      BY <1>1, UnmountedIsSound
    <3>3. \A x \in Outdated(t, Unmounted(t, rest)) : SoundRequest(x, r.token)
      BY <1>1, <3>2, OutdatedIsSound
    <3>4. AnswersSound'
      BY <3>1, <3>3 DEF StartSession, AnswersSound
    <3>5. TabSound'
      BY <1>1, <1>2, <1>3, <3>1 DEF StartSession, TabSound, OneTab, Owner
    <3> QED BY <3>4, <3>5
  <2>2. CASE r.result # "ok"
    BY <1>5, <1>6, <1>9, <2>2 DEF ReceiveStart, KeepSession
  <2> QED BY <2>1, <2>2
<1>10. CASE ReceiveVerified(r)
  <2>1. CASE Reported(r)
    BY <1>4, <1>10, <2>1 DEF ReceiveVerified, EndSession
  <2>2. CASE ~Reported(r)
    <3>1. /\ profile' = IF r.result = "ok" /\ r.current
                          THEN [profile EXCEPT ![t] = Owner(r.cred)] ELSE profile
          /\ wire' = rest
          /\ UNCHANGED <<stored, memory, status>>
      BY <1>10, <2>2 DEF ReceiveVerified
    <3>2. r.current => r.cred = stored
      BY <1>1, <1>10 DEF ReceiveVerified, SoundRequest, Starts
    <3>3. TabSound'
      BY <1>1, <1>2, <1>3, <3>1, <3>2 DEF TabSound, Owner, OneTab
    <3> QED BY <1>5, <3>1, <3>3
  <2> QED BY <2>1, <2>2
<1>11. CASE ReceiveLogout(r)
  <2>1. /\ Unmounted(t, rest) \in SUBSET Request
        /\ \A x \in Unmounted(t, rest) : SoundRequest(x, stored)
    BY <1>1, UnmountedIsSound
  <2> QED BY <1>1, <1>11, <2>1, ClearIsSound DEF ReceiveLogout
<1> QED BY <1>7, <1>8, <1>9, <1>10, <1>11 DEF Receive

LEMMA SessionAtFirst == OneTab /\ Init => Session
<1> SUFFICES ASSUME OneTab, Init PROVE AnswersSound /\ TabSound
  BY TypedAtFirst DEF Session
<1>1. TabSound
  BY DEF Init, TabSound
<1>2. ASSUME NEW t \in Tabs, stored # None
      PROVE  SoundRequest(Message(t, "me", Nobody), stored)
  BY <1>2 DEF Message, SoundRequest, Credential, Token, Starts
<1> QED BY <1>1, <1>2 DEF Init, AnswersSound

LEMMA SessionStep == Session /\ [Next]_vars => Session'
<1> SUFFICES ASSUME Session, [Next]_vars PROVE AnswersSound' /\ TabSound'
  BY TypedStep DEF Session, OneTab
<1>1. CASE UNCHANGED vars
  BY <1>1 DEF Session, AnswersSound, TabSound, Owner, vars, browser
<1>2. ASSUME NEW a \in Accounts, Revoke(a) PROVE AnswersSound' /\ TabSound'
  BY <1>2 DEF Revoke, Session, AnswersSound, TabSound, Owner, browser
<1> QED BY <1>1, <1>2, PersonKeepsSession, ServerKeepsSession, AnsweredTabKeepsSession DEF Next

LEMMA SessionHolds == OneTab /\ Spec => []Session
<1>1. OneTab /\ Init => Session
  BY SessionAtFirst
<1>2. Session /\ [Next]_vars => Session'
  BY SessionStep
<1> QED BY <1>1, <1>2, PTL DEF Spec

\* In one tab the token decides whether the page is logged in, after any
\* number of logins, logouts, resets, lost answers and late ones.
THEOREM StatusIsTheTokens == OneTab /\ Spec => []StatusFollowsToken
BY SessionHolds, SessionIsShown, PTL

\* In one tab the name shown is the one the token was issued to, although an
\* answer to an earlier session may arrive after the next one has started.
THEOREM ProfileIsTheTokens == OneTab /\ Spec => []ProfileMatchesToken
BY SessionHolds, SessionIsShown, PTL

\* In one tab a refusal of an older token never ends the newer session.
THEOREM NewerSessionIsKept == OneTab /\ Spec => NewerSessionSurvives
<1> DEFINE Kept == \A r \in wire :
                      r.result = "rejected" /\ r.cred # Credential(r.tab, r.kind) /\ Receive(r)
                        => stored' = stored
<1>1. Session /\ [Next]_vars => [Kept]_vars
  <2> SUFFICES ASSUME Session, NEW r \in wire, r.result = "rejected",
                      r.cred # Credential(r.tab, r.kind), Receive(r)
               PROVE  stored' = stored
    OBVIOUS
  <2>1. ~Reported(r)
    BY DEF Reported
  <2>2. SoundRequest(r, stored) /\ r \in Request /\ r.tab \in Tabs /\ r.current \in BOOLEAN
    BY RequestParts DEF Session, AnswersSound, Typed, Known
  <2>3. Token(r.tab) = stored
    BY <2>2, TokenIsStored DEF Session
  <2>4. r.kind \notin Starts /\ r.kind # "logout"
    BY <2>2 DEF SoundRequest
  <2>5. ~r.current
    BY <2>2, <2>3, <2>4 DEF SoundRequest, Credential
  <2>6. CASE ReceiveProfile(r)
    <3>1. KeepSession
      BY <2>1, <2>5, <2>6 DEF ReceiveProfile
    <3> QED BY <3>1 DEF KeepSession
  <2>7. CASE ReceiveData(r) \/ ReceiveVerified(r)
    BY <2>1, <2>7 DEF ReceiveData, ReceiveVerified, KeepSession
  <2> QED BY <2>4, <2>6, <2>7 DEF Receive, ReceiveStart, ReceiveLogout
<1>2. Spec => [][Next]_vars
  BY PTL DEF Spec
<1>3. OneTab /\ Spec => [][Kept]_vars
  BY <1>1, <1>2, SessionHolds, PTL
<1> QED BY <1>3 DEF NewerSessionSurvives

=============================================================================
