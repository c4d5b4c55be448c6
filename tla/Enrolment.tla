----------------------------- MODULE Enrolment -----------------------------
(***************************************************************************)
(* Becoming a participant and staying one: the registration, verification, *)
(* password reset and login pages with their mailed codes and captcha, and *)
(* the transactions of auth.py and email_verification.py behind them.      *)
(*                                                                         *)
(* A request passes through the captcha widget (stage "token"), the wire   *)
(* ("sent"), what its route reads before it waits for a lock ("arrived":   *)
(* the clock, the session, the account), and one or two steps of its       *)
(* transaction: what it reads and locks ("checked") and what it commits    *)
(* ("mailing", "answered").  Locks are held from "checked" to the commit,  *)
(* so they are read off the stages.                                        *)
(*                                                                         *)
(* A code is the number of its row in email_verifications; a person knows  *)
(* those that reached a mailbox of theirs and can always try a wrong one.  *)
(***************************************************************************)
EXTENDS Integers, Sequences, FiniteSets

CONSTANTS
    Persons,
    Mailboxes,          \* canonical school addresses
    Reader,             \* the person who reads each mailbox
    StudentIds,
    MaxAttempts,        \* MAX_ATTEMPTS
    MaxCodesPerEmail,   \* MAX_CODES_PER_EMAIL
    DailyLimit,         \* settings.mail_daily_limit
    Cooldown, Ttl, Window,  \* RESEND_COOLDOWN, CODE_TTL, WINDOW in clock ticks
    Scenarios           \* bound: what a behaviour starts with, the pages it visits, its clicks
                        \* and its clock ticks

ASSUME CodeAssumption ==
    /\ Reader \in [Mailboxes -> Persons]
    /\ {MaxAttempts, MaxCodesPerEmail, DailyLimit, Cooldown, Ttl, Window} \subseteq Nat
    /\ Cooldown <= Window

None == 0           \* no account, an empty code field, no captcha token, no row
Wrong == -1         \* a code that was never sent
Untyped == "untyped"

\* A participant; pws has who chose each password, provenBy who entered the code.
Row == [mail : Mailboxes, sid : StudentIds, via : {"none", "email", "admin"},
        pws : Seq(Persons), provenBy : Persons \cup {None}]

\* What the table holds before a behaviour begins: nobody shares an address or a
\* student id, and who verified an address by mail reads it.
ASSUME ScenarioAssumption ==
    \A s \in Scenarios :
        /\ s.clicks \in Nat /\ s.ticks \in Nat
        /\ s.accounts \in Seq(Row)
        /\ \A a \in DOMAIN s.accounts :
              /\ Len(s.accounts[a].pws) = 1
              /\ s.accounts[a].via = "email" =>
                    s.accounts[a].provenBy = Reader[s.accounts[a].mail]
              /\ \A b \in DOMAIN s.accounts \ {a} :
                    /\ s.accounts[a].mail # s.accounts[b].mail
                    /\ s.accounts[a].sid # s.accounts[b].sid
        /\ s.me \in [Persons -> 0 .. Len(s.accounts)]
        /\ s.start \in [Persons -> {"home", "register", "verify", "reset", "login"}]
        /\ s.pages \subseteq {"home", "register", "verify", "reset", "login"}

VARIABLES
    scenario, now,
    accounts,       \* rows of participants
    codes,          \* rows of email_verifications
    sessions,       \* rows of auth_sessions
    inbox,          \* codes that reached their mailbox
    form,           \* per person: the page and its state
    wire,           \* requests under way
    clicks, tokens  \* bounds: clicks so far; captcha tokens handed out

rows == <<accounts, codes, sessions>>
vars == <<scenario, now, rows, inbox, form, wire, clicks, tokens>>

\* useState of a mounted page, and of useCodeRequest.
Fresh(page, me) ==
    [page |-> page, me |-> me, step |-> "code", typed |-> Untyped, code |-> None, other |-> FALSE,
     loaded |-> FALSE, submitting |-> FALSE, token |-> None, failed |-> FALSE,
     resend |-> FALSE, sending |-> FALSE]

\* A new useCodeRequest on the page.
Unrequested(f) == [f EXCEPT !.resend = FALSE, !.sending = FALSE]

-----------------------------------------------------------------------------
(* Pages: routes and fields *)

Known(p) == {k \in inbox : Reader[codes[k].mail] = p}
RequireCode(p) == form[p].loaded /\ scenario.verification
SiteKey(p) == form[p].loaded /\ scenario.captcha
Waits(r, p) == r.person = p /\ r.stage = "token"
Waiting(p) == \E r \in wire : Waits(r, p)

\* Requests whose page, or whose useCodeRequest, is gone.
Unmounted(p, requests) ==
    {[r EXCEPT !.mounted = @ /\ r.person # p, !.hook = @ /\ r.person # p] :
        r \in {w \in requests : ~Waits(w, p)}}
Unhooked(p, requests) == {[r EXCEPT !.hook = @ /\ r.person # p] : r \in requests}

Visit(p, page) ==
    /\ page \in scenario.pages /\ page # form[p].page
    /\ page \in {"register", "login"} => form[p].me = None
    /\ page = "verify" => form[p].me # None
    /\ clicks < scenario.clicks /\ clicks' = clicks + 1
    /\ form' = [form EXCEPT ![p] = Fresh(page, @.me)]
    /\ wire' = Unmounted(p, wire)
    /\ UNCHANGED <<scenario, now, rows, inbox, tokens>>

LoadEvent(p) ==
    /\ ~form[p].loaded /\ (scenario.captcha \/ scenario.verification)
    /\ form[p].page \in {"register", "reset", "login"}
    /\ form' = [form EXCEPT ![p].loaded = TRUE]
    /\ UNCHANGED <<scenario, now, rows, inbox, wire, clicks, tokens>>

\* The fields are filled in before a click; `resend` is the countdown of the
\* "send again" button, which another address starts over, and another
\* student id does not.
Typable(p) ==
    CASE form[p].page = "register" \/ (form[p].page = "verify" /\ form[p].other) -> Mailboxes
      [] form[p].page \in {"reset", "login"} /\ form[p].step = "code" -> StudentIds
      [] OTHER -> {form[p].typed}
Retyped(p, x) == form[p].page # "reset" /\ x # form[p].typed

\* Another address while a code for the last one is asked for.
TypeAddress(p, x) ==
    /\ form[p].sending /\ x \in Typable(p) \ {form[p].typed}
    /\ form' = [form EXCEPT ![p].typed = x, ![p].resend = @ /\ ~Retyped(p, x)]
    /\ UNCHANGED <<scenario, now, rows, inbox, wire, clicks, tokens>>

\* VerifyEmailPage: the registered address or another one.
ToggleAddress(p) ==
    /\ form[p].page = "verify"
    /\ clicks < scenario.clicks /\ clicks' = clicks + 1
    /\ form' = [form EXCEPT ![p] = Unrequested([form[p] EXCEPT !.other = ~@, !.code = None])]
    /\ wire' = Unhooked(p, wire)
    /\ UNCHANGED <<scenario, now, rows, inbox, tokens>>

\* ResetPasswordPage: from the start.
Restart(p) ==
    /\ form[p].page = "reset" /\ form[p].step = "password" /\ ~form[p].submitting
    /\ form' = [form EXCEPT ![p].code = None, ![p].step = "code"]
    /\ UNCHANGED <<scenario, now, rows, inbox, wire, clicks, tokens>>

-----------------------------------------------------------------------------
(* Clicks and the captcha widget *)

Guarded(p, kind) ==     \* await turnstile.take()
    /\ SiteKey(p)
    /\ kind \in {"register", "login"} \/ (kind = "code" /\ form[p].page # "verify")

\* The code sent along: register only with a code field.
Sent(p, kind, k) == IF kind = "register" /\ ~RequireCode(p) THEN None ELSE k

\* A request with what is typed in the fields: address or student id x, code k.
Request(p, kind, x, k) ==
    [person |-> p, kind |-> kind, page |-> form[p].page, me |-> form[p].me,
     address |-> IF form[p].page = "verify" /\ ~form[p].other THEN Untyped ELSE x,
     code |-> Sent(p, kind, k), sid |-> Untyped, ver |-> None,
     mail |-> Untyped, acct |-> None, row |-> None, at |-> 0,
     token |-> IF Guarded(p, kind) THEN form[p].token ELSE None,
     stage |-> IF Guarded(p, kind) /\ form[p].token = None THEN "token" ELSE "sent",
     hook |-> TRUE, mounted |-> TRUE, result |-> "none"]

\* take() rejects at once after a failure; a token is given away once.
Post(r, x, k) ==
    LET p == r.person IN
    /\ clicks < scenario.clicks
    /\ clicks' = clicks + 1
    /\ ~(r.stage = "token" /\ form[p].failed)
    /\ wire' = wire \cup {r}
    /\ form' = [form EXCEPT ![p] =
          [form[p] EXCEPT !.sending = @ \/ r.kind = "code", !.submitting = @ \/ r.kind # "code",
                          !.resend = @ /\ ~Retyped(p, x), !.typed = x,
                          !.code = IF r.kind = "check" THEN k ELSE @,
                          !.token = IF Guarded(p, r.kind) THEN None ELSE @]]
    /\ UNCHANGED <<scenario, now, rows, inbox, tokens>>

\* CodeSteps: the button is not disabled and shows no spinner.
SendFree(p, x) == ~form[p].sending /\ (form[p].resend => Retyped(p, x)) /\ ~Waiting(p)

\* The "send code" button: CodeSender, SchoolEmailFields.requestCode.
ClickCode(p, x) ==
    /\ \/ form[p].page = "register" /\ RequireCode(p)
       \/ form[p].page = "verify"
       \/ form[p].page = "reset" /\ form[p].step = "code"
    /\ x \in Typable(p) /\ SendFree(p, x)
    /\ Post(Request(p, "code", x, None), x, None)

SubmitKind(p) ==
    CASE form[p].page = "reset" -> IF form[p].step = "code" THEN "check" ELSE "reset"
      [] OTHER -> form[p].page

\* Mutant: the submit button is not disabled while a code request waits for the captcha.
SubmitFreeWhileWaiting(p) == ~form[p].submitting
SubmitFree(p) == ~form[p].submitting /\ (form[p].page \in {"register", "login"} => ~Waiting(p))

\* validateRegister, validateResetCode, VerifyEmailPage's onSubmit: a code is
\* there where one is needed.
Codes(p, kind) ==
    CASE kind = "register" -> IF RequireCode(p) THEN Known(p) \cup {Wrong} ELSE {None}
      [] kind \in {"verify", "check"} -> Known(p) \cup {Wrong}
      [] kind = "reset" -> {form[p].code}
      [] OTHER -> {None}

\* ProfileFields: of what passes profileErrors, the student id counts.
Profiles == StudentIds

\* Versions of the password of this student id that the person has chosen.
Chosen(p, sid) ==
    UNION {{v \in DOMAIN accounts[a].pws : accounts[a].pws[v] = p} :
              a \in {b \in DOMAIN accounts : accounts[b].sid = sid}}

ClickSubmit(p, x, k) ==
    LET kind == SubmitKind(p)
        r == Request(p, kind, x, k)
    IN  /\ form[p].page # "home" /\ SubmitFree(p)
        /\ x \in Typable(p) /\ k \in Codes(p, kind)
        /\ \/ kind = "register" /\ \E sid \in Profiles : Post([r EXCEPT !.sid = sid], x, k)
           \/ kind = "login" /\ \E v \in Chosen(p, x) : Post([r EXCEPT !.ver = v], x, k)
           \/ kind \in {"verify", "check", "reset"} /\ Post(r, x, k)

\* The widget is on the page, and rendered.
HasWidget(p) == SiteKey(p) /\ form[p].page \in {"register", "reset", "login"} /\ form[p].step = "code"

\* Requests that wait get the token, all of them; else it is kept.
WidgetToken(p) ==
    /\ HasWidget(p) /\ form[p].token = None
    /\ tokens < scenario.clicks
    /\ tokens' = tokens + 1
    /\ form' = [form EXCEPT ![p].failed = FALSE, ![p].token = IF Waiting(p) THEN None ELSE tokens + 1]
    /\ wire' = {IF Waits(r, p) THEN [r EXCEPT !.stage = "sent", !.token = tokens + 1] ELSE r : r \in wire}
    /\ UNCHANGED <<scenario, now, rows, inbox, clicks>>

WidgetExpired(p) ==
    /\ form[p].token # None
    /\ form' = [form EXCEPT ![p].token = None]
    /\ UNCHANGED <<scenario, now, rows, inbox, wire, clicks, tokens>>

\* The widget cannot be loaded or fails: those that wait are not sent.
WidgetError(p) ==
    /\ HasWidget(p) /\ ~form[p].failed
    /\ form' = [form EXCEPT ![p].token = None, ![p].failed = TRUE,
                  ![p].sending = @ /\ \A r \in wire : Waits(r, p) => r.kind # "code" \/ ~r.hook,
                  ![p].submitting = @ /\ \A r \in wire : Waits(r, p) => r.kind = "code"]
    /\ wire' = {r \in wire : ~Waits(r, p)}
    /\ UNCHANGED <<scenario, now, rows, inbox, clicks, tokens>>

-----------------------------------------------------------------------------
(* Codes at the server *)

\* The answer on its way; nothing else of the request counts any more.
Answered(r, result, acct) ==
    [r EXCEPT !.stage = "answered", !.result = result, !.acct = acct, !.address = Untyped,
              !.code = None, !.sid = Untyped, !.ver = None, !.mail = Untyped, !.row = None,
              !.at = 0, !.token = None]
Answer(r, result) == wire' = (wire \ {r}) \cup {Answered(r, result, r.acct)}
Hold(r, mail, acct, row) ==
    wire' = (wire \ {r}) \cup
        {[r EXCEPT !.stage = "checked", !.mail = mail, !.acct = acct, !.row = row]}

RowWith(field, x) ==    \* the participant with this mail, or with this student id
    CHOOSE a \in 0 .. Len(accounts) :
        IF \E b \in DOMAIN accounts : accounts[b][field] = x
        THEN a # None /\ accounts[a][field] = x ELSE a = None

Recent(r, column, x) == {k \in DOMAIN codes : codes[k][column] = x /\ codes[k].at > r.at - Window}

\* _check_recent, at the time the request read the clock.
TooSoon(r, column, x) ==
    \/ \E k \in Recent(r, column, x) : r.at - codes[k].at < Cooldown
    \/ Cardinality(Recent(r, column, x)) >= MaxCodesPerEmail

\* Mutant: pg_advisory_xact_lock is not taken.
CodeLockIgnored == TRUE
CodeLockFree == \A r \in wire : r.kind = "code" => r.stage # "checked"

Authenticated(r) == [acct |-> r.me, ver |-> Len(accounts[r.me].pws), person |-> r.person] \in sessions

\* The account of a request, by its session or by the student id it names;
\* and the address its code goes or went to.
Account(r) ==
    CASE r.page = "reset" -> RowWith("sid", r.address)
      [] r.page = "verify" -> r.me
      [] OTHER -> None
AskedMail(r) ==
    IF r.page = "reset" \/ (r.page = "verify" /\ r.address = Untyped)
    THEN IF Account(r) = None THEN Untyped ELSE accounts[Account(r)].mail
    ELSE r.address
Requester(r) == IF r.page = "verify" THEN r.me ELSE None
Purpose(r) == IF r.page = "reset" THEN "reset" ELSE "verify"

\* The routes before request_code and consume_code: the clock, the session and
\* the account as they are now, whenever the lock comes.  Of an account's
\* address the request keeps what will differ from the row it has read.
Arrived(r) ==
    LET mail == AskedMail(r)
    IN  [r EXCEPT !.stage = "arrived", !.at = now, !.mail = mail, !.acct = Account(r),
                  !.address = IF r.kind = "verify" /\ mail # accounts[r.me].mail THEN mail ELSE Untyped]

Arrive(r) ==
    /\ r.stage = "sent"
    /\ r.kind \in {"code", "verify", "check", "reset"} \/ (r.kind = "register" /\ r.code # None)
    /\ IF r.page = "verify" /\ ~Authenticated(r) THEN Answer(r, "rejected")
       ELSE IF AskedMail(r) = Untyped \/ (r.page = "verify" /\ accounts[r.me].via = "email")
       THEN Answer(r, "refused")
       ELSE wire' = (wire \ {r}) \cup {Arrived(r)}
    /\ UNCHANGED <<scenario, now, rows, inbox, form, clicks, tokens>>

\* request_code up to its INSERT.
Issuable(r) ==
    LET owner == RowWith("mail", r.mail)
    IN  /\ IF r.page = "reset" THEN owner # None
           ELSE owner \in {None, Requester(r)} \/ accounts[owner].via = "none"
        /\ ~TooSoon(r, "mail", r.mail)
        /\ Requester(r) # None => ~TooSoon(r, "by", Requester(r))
        /\ Cardinality({k \in DOMAIN codes : codes[k].at > r.at - Window}) < DailyLimit

CheckCodeRequest(r) ==
    /\ r.kind = "code" /\ r.stage = "arrived" /\ CodeLockFree
    /\ IF Issuable(r) THEN Hold(r, r.mail, Requester(r), None) ELSE Answer(r, "refused")
    /\ UNCHANGED <<scenario, now, rows, inbox, form, clicks, tokens>>

\* The row is committed, and the lock released, before the mail is sent.
IssueCode(r) ==
    /\ r.kind = "code" /\ r.stage = "checked"
    /\ codes' = Append(codes, [mail |-> r.mail, purpose |-> Purpose(r),
                               by |-> r.acct, at |-> r.at, attempts |-> 0, used |-> FALSE,
                               guesses |-> 0, uses |-> 0])
    /\ wire' = (wire \ {r}) \cup {[Answered(r, "none", None) EXCEPT !.stage = "mailing", !.row = Len(codes) + 1]}
    /\ UNCHANGED <<scenario, now, accounts, sessions, inbox, form, clicks, tokens>>

\* The mail may arrive though sending failed, and get lost though it did not.
SendMail(r) ==
    /\ r.stage = "mailing"
    /\ \E result \in {"ok", "refused"} : Answer(r, result)
    /\ \E arrived \in {{}, {r.row}} : inbox' = inbox \cup arrived
    /\ UNCHANGED <<scenario, now, rows, form, clicks, tokens>>

-----------------------------------------------------------------------------
(* Submitted forms at the server *)

\* FOR UPDATE on the latest code of the address.
Latest(mail) == CHOOSE k \in 0 .. Len(codes) :
    /\ k # None => codes[k].mail = mail
    /\ \A j \in DOMAIN codes : codes[j].mail = mail => j <= k
RowFree(k) == \A r \in wire : ~(r.stage = "checked" /\ r.kind # "code" /\ r.row = k)

\* A locked row is waited for: the one that was the latest when the wait began.
Picked(r) == IF r.row = None THEN Latest(r.mail) ELSE r.row
WaitForRow(r) ==
    /\ r.kind # "code" /\ r.stage = "arrived" /\ r.row = None
    /\ Picked(r) # None /\ ~RowFree(Picked(r))
    /\ wire' = (wire \ {r}) \cup {[r EXCEPT !.row = Picked(r)]}
    /\ UNCHANGED <<scenario, now, rows, inbox, form, clicks, tokens>>

\* Mutant: the number of attempts is not looked at.
UsableForever(r, k) ==
    /\ k # None
    /\ codes[k].purpose = Purpose(r) /\ ~codes[k].used
    /\ codes[k].at + Ttl > r.at

\* The row as it is now that it is locked.
Usable(r, k) ==
    /\ k # None
    /\ codes[k].purpose = Purpose(r) /\ ~codes[k].used
    /\ codes[k].at + Ttl > r.at
    /\ codes[k].attempts < MaxAttempts

\* Mutant: the error answer rolls the count back.
MissedRolledBack(row) == [row EXCEPT !.guesses = @ + 1]
\* A wrong code: the route commits the count before it answers.  `guesses`
\* is what really happened, for the properties.
Missed(row) == [row EXCEPT !.attempts = @ + 1, !.guesses = @ + 1]

\* consume_code, and what follows with the right one.
Consume(r, then) ==
    LET k == Picked(r) IN
    /\ r.stage = "arrived"
    /\ k # None => RowFree(k)
    /\ IF Usable(r, k) /\ r.code = k THEN then /\ UNCHANGED codes
       ELSE /\ Answer(r, "code")
            /\ codes' = IF Usable(r, k) THEN [codes EXCEPT ![k] = Missed(@)] ELSE codes

Free(mail, sid, self) ==    \* ensure_email_free, ensure_student_id_free; the unique constraints
    \A a \in DOMAIN accounts \ {self} : accounts[a].mail # mail /\ accounts[a].sid # sid

\* With a code, and without.
CheckRegister(r) ==
    LET Unique(mail, k) == IF Free(mail, r.sid, None) THEN Hold(r, mail, None, k) ELSE Answer(r, "refused")
    IN  /\ r.kind = "register"
        /\ \/ Consume(r, Unique(r.mail, Picked(r)))
           \/ /\ r.stage = "sent" /\ r.code = None
              /\ IF scenario.verification THEN Answer(r, "code") ELSE Unique(r.address, None)
              /\ UNCHANGED codes

CheckVerify(r) ==
    LET Unique == IF Free(r.mail, Untyped, r.me) THEN Hold(r, r.mail, r.me, Picked(r))
                  ELSE Answer(r, "refused")
    IN  r.kind = "verify" /\ Consume(r, Unique)

\* The code is only confirmed, not used.
CheckResetCode(r) == r.kind = "check" /\ Consume(r, Answer(r, "ok"))

CheckReset(r) == r.kind = "reset" /\ Consume(r, Hold(r, r.mail, r.acct, Picked(r)))

\* login: the slow password check, on the row as it is.
CheckLogin(r) ==
    LET a == RowWith("sid", r.address)
    IN  /\ r.kind = "login" /\ r.stage = "sent"
        /\ IF a # None /\ Len(accounts[a].pws) = r.ver THEN Hold(r, Untyped, a, None) ELSE Answer(r, "refused")
        /\ UNCHANGED codes

Check(r) ==
    /\ CheckRegister(r) \/ CheckVerify(r) \/ CheckResetCode(r) \/ CheckReset(r) \/ CheckLogin(r)
    /\ UNCHANGED <<scenario, now, accounts, sessions, inbox, form, clicks, tokens>>

Use(k) == codes' = IF k = None THEN codes ELSE [codes EXCEPT ![k].used = TRUE, ![k].uses = @ + 1]

Token(acct, ver, p) == [acct |-> acct, ver |-> ver, person |-> p]

CommitRegister(r) ==
    /\ r.kind = "register"
    /\ IF Free(r.mail, r.sid, None)
       THEN /\ accounts' = Append(accounts,
                  [mail |-> r.mail, sid |-> r.sid, via |-> IF r.row = None THEN "none" ELSE "email",
                   pws |-> <<r.person>>, provenBy |-> r.person])
            /\ Use(r.row)
            /\ sessions' = sessions \cup {Token(Len(accounts) + 1, 1, r.person)}
            /\ wire' = (wire \ {r}) \cup {Answered(r, "ok", Len(accounts) + 1)}
       ELSE Answer(r, "refused") /\ UNCHANGED rows

\* Mutant: the address that was proven is not stored.
CommitVerifyKeepingMail(r) ==
    /\ r.kind = "verify"
    /\ accounts' = [accounts EXCEPT ![r.me].via = "email", ![r.me].provenBy = r.person]
    /\ Use(r.row)
    /\ Answer(r, "ok")
    /\ UNCHANGED sessions

\* The UPDATE writes what differs from the row read on arrival: a registered
\* address is left alone, though it may be another one by now.
CommitVerify(r) ==
    LET mail == IF r.address = Untyped THEN accounts[r.me].mail ELSE r.address
    IN  /\ r.kind = "verify"
        /\ IF r.address = Untyped \/ Free(mail, Untyped, r.me)
           THEN /\ accounts' = [accounts EXCEPT ![r.me].mail = mail, ![r.me].via = "email",
                                   ![r.me].provenBy = IF mail = r.mail THEN r.person ELSE @]
                /\ Use(r.row)
                /\ Answer(r, "ok")
           ELSE Answer(r, "refused") /\ UNCHANGED <<accounts, codes>>
        /\ UNCHANGED sessions

\* reset_password: UPDATE, DELETE of every session, a new one.
CommitReset(r) ==
    /\ r.kind = "reset"
    /\ accounts' = [accounts EXCEPT ![r.acct].pws = Append(@, r.person)]
    /\ sessions' = {s \in sessions : s.acct # r.acct}
                     \cup {Token(r.acct, Len(accounts[r.acct].pws) + 1, r.person)}
    /\ Use(r.row)
    /\ Answer(r, "ok")

\* Mutant: the password hash is not compared with the locked row.
CommitLoginUnchecked(r) ==
    /\ r.kind = "login"
    /\ sessions' = sessions \cup {Token(r.acct, r.ver, r.person)} /\ Answer(r, "ok")
    /\ UNCHANGED <<accounts, codes>>

\* The row is read again FOR SHARE: only the same password hash gets a token.
CommitLogin(r) ==
    /\ r.kind = "login"
    /\ IF Len(accounts[r.acct].pws) = r.ver
       THEN sessions' = sessions \cup {Token(r.acct, r.ver, r.person)} /\ Answer(r, "ok")
       ELSE Answer(r, "refused") /\ UNCHANGED sessions
    /\ UNCHANGED <<accounts, codes>>

Commit(r) ==
    /\ r.stage = "checked"
    /\ CommitRegister(r) \/ CommitVerify(r) \/ CommitReset(r) \/ CommitLogin(r)
    /\ UNCHANGED <<scenario, now, inbox, form, clicks, tokens>>

\* The administrator verifies a participant, or takes it back.
SetVerified(a) ==
    /\ clicks < scenario.clicks /\ clicks' = clicks + 1
    /\ accounts' = [accounts EXCEPT ![a].via = IF @ = "none" THEN "admin" ELSE "none"]
    /\ UNCHANGED <<scenario, now, codes, sessions, inbox, form, wire, tokens>>

\* No connection, a timeout: the request or its answer is lost.
Lose(r) ==
    /\ r.stage = "sent" \/ (r.stage = "answered" /\ r.result # "refused")
    /\ Answer(r, "refused")
    /\ UNCHANGED <<scenario, now, rows, inbox, form, clicks, tokens>>

-----------------------------------------------------------------------------
(* Answers at the page *)

\* The page empties the code field, whoever asked.
EmptiesCode(r) == r.mounted /\ r.result = "ok"

\* useCodeRequest.run
ReceiveCode(r) ==
    /\ r.kind = "code"
    /\ form' = [form EXCEPT ![r.person] =
          [form[r.person] EXCEPT !.sending = @ /\ ~r.hook,
                                 !.resend = @ \/ (r.hook /\ r.result = "ok"),
                                 !.code = IF EmptiesCode(r) THEN None ELSE @]]
    /\ wire' = wire \ {r}

\* The person's page changes: what it waited for is dropped, what is under
\* way is answered to nobody.
Leave(p, page, me, r) ==
    /\ form' = [form EXCEPT ![p] = Fresh(page, me)]
    /\ wire' = Unmounted(p, wire \ {r})

\* register, resetPassword, login: logged in, then away from the page.  A
\* verified address leads away too, and logs nobody in.
ReceiveDone(r) ==
    /\ r.result = "ok" /\ r.kind \in {"register", "reset", "login", "verify"}
    /\ Leave(r.person, "home", IF r.kind = "verify" THEN form[r.person].me ELSE r.acct, r)

ReceiveConfirmed(r) ==      \* the second step of ResetPasswordPage, without CodeSender
    /\ r.result = "ok" /\ r.kind = "check"
    /\ form' = IF ~r.mounted THEN form
               ELSE [form EXCEPT ![r.person] =
                       Unrequested([form[r.person] EXCEPT !.step = "password", !.submitting = FALSE, !.token = None])]
    /\ wire' = IF r.mounted THEN Unhooked(r.person, {w \in wire \ {r} : ~Waits(w, r.person)})
               ELSE wire \ {r}

\* A 401 ends the session of the page that is still logged in as before.
ReceiveRejected(r) ==
    /\ r.result = "rejected" /\ form[r.person].me = r.me
    /\ Leave(r.person, "login", None, r)

ReceiveError(r) ==
    /\ r.kind # "code" /\ r.result # "ok"
    /\ r.result = "rejected" => form[r.person].me # r.me
    /\ form' = IF ~r.mounted THEN form
               ELSE [form EXCEPT ![r.person] =
                       [form[r.person] EXCEPT
                            !.submitting = FALSE,
                            !.step = IF r.kind = "reset" /\ r.result = "code" THEN "code" ELSE @,
                            !.code = IF r.kind = "reset" /\ r.result = "code" THEN None ELSE @]]
    /\ wire' = wire \ {r}

Receive(r) ==
    /\ r.stage = "answered"
    /\ \/ ReceiveCode(r) /\ r.result # "rejected"
       \/ ReceiveDone(r) \/ ReceiveConfirmed(r) \/ ReceiveRejected(r) \/ ReceiveError(r)
    /\ UNCHANGED <<scenario, now, rows, inbox, clicks, tokens>>

Tick ==
    /\ now < scenario.ticks
    /\ now' = now + 1
    /\ form' = [p \in Persons |-> [form[p] EXCEPT !.resend = FALSE]]  \* the countdown ran out
    /\ UNCHANGED <<scenario, rows, inbox, wire, clicks, tokens>>

-----------------------------------------------------------------------------
Init ==
    /\ scenario \in Scenarios
    /\ now = 0
    /\ accounts = scenario.accounts
    /\ codes = <<>> /\ inbox = {}
    /\ form = [p \in Persons |-> Fresh(scenario.start[p], scenario.me[p])]
    /\ sessions = {Token(scenario.me[p], 1, p) : p \in {q \in Persons : scenario.me[q] # None}}
    /\ wire = {}
    /\ clicks = 0 /\ tokens = 0

Next ==
    \/ \E p \in Persons :
          \/ \E page \in scenario.pages : Visit(p, page)
          \/ \E x \in Mailboxes \cup StudentIds \cup {Untyped} :
                \/ TypeAddress(p, x) \/ ClickCode(p, x)
                \/ \E k \in {Wrong, None} \cup DOMAIN codes : ClickSubmit(p, x, k)
          \/ LoadEvent(p) \/ ToggleAddress(p) \/ Restart(p)
          \/ WidgetToken(p) \/ WidgetExpired(p) \/ WidgetError(p)
    \/ \E r \in wire :
          Arrive(r) \/ WaitForRow(r) \/ CheckCodeRequest(r) \/ IssueCode(r) \/ SendMail(r)
            \/ Check(r) \/ Commit(r)
            \/ Lose(r) \/ Receive(r)
    \/ \E a \in DOMAIN accounts : SetVerified(a)
    \/ Tick

Spec == Init /\ [][Next]_vars

-----------------------------------------------------------------------------
(* Properties *)

\* Every variable keeps its type.
TypeOK ==
    /\ scenario \in Scenarios /\ now \in 0 .. scenario.ticks
    /\ \A a \in DOMAIN accounts : accounts[a] \in Row
    /\ \A k \in DOMAIN codes : codes[k].mail \in Mailboxes /\ codes[k].attempts \in 0 .. MaxAttempts
    /\ \A s \in sessions : s.acct \in DOMAIN accounts
    /\ inbox \subseteq DOMAIN codes
    /\ \A p \in Persons : form[p].me \in 0 .. Len(accounts) /\ form[p].code \in Wrong .. Len(codes)
    /\ clicks \in 0 .. scenario.clicks /\ tokens \in 0 .. scenario.clicks

\* A reset ends every login with an older password, also one whose password
\* was checked before the reset and whose token is made after it
\* (auth.py:316-318).
SessionsOfThisPassword == \A s \in sessions : s.ver = Len(accounts[s.acct].pws)

\* Nobody tries more than MAX_ATTEMPTS wrong codes against one mail, though
\* every wrong one is an error that rolls its transaction back
\* (email_codes.py:24-25), and a code serves one request only, whichever run
\* side by side.
CodesHold == \A k \in DOMAIN codes : codes[k].guesses <= MaxAttempts /\ codes[k].uses <= 1

\* One mailbox gets a code per cooldown and MAX_CODES_PER_EMAIL per window at
\* most, whatever requests run at once and pages are reloaded
\* (email_verification.py:140-142).
MailboxSpared ==
    \A k \in DOMAIN codes :
        LET before == {j \in 1 .. k - 1 : codes[j].mail = codes[k].mail}
        IN  /\ \A j \in before : codes[k].at - codes[j].at >= Cooldown
            /\ Cardinality({j \in before : codes[j].at > codes[k].at - Window}) < MaxCodesPerEmail

\* An account verified by mail was verified by the reader of the mail that it
\* has now, and nobody else has that mail or student id.
MailboxProven ==
    \A a \in DOMAIN accounts :
        /\ accounts[a].via = "email" => accounts[a].provenBy = Reader[accounts[a].mail]
        /\ \A b \in DOMAIN accounts \ {a} :
              accounts[b].mail # accounts[a].mail /\ accounts[b].sid # accounts[a].sid

\* A captcha token is good for one request: no two of a page carry the same
\* (turnstile.tsx:59).
TokenSentOnce ==
    \A r, s \in wire : (r # s /\ r.token # None) => r.token # s.token
=============================================================================
