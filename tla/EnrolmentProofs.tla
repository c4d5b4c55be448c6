--------------------------- MODULE EnrolmentProofs ---------------------------
(* What registrations, verifications, resets and logins keep, for any number *)
(* of persons, mailboxes, codes, clicks and scenarios: the locks and         *)
(* constraints of the server and the one token of the captcha widget.        *)
EXTENDS Enrolment, FiniteSetTheorems, SequenceTheorems, WellFoundedInduction, TLAPS

-----------------------------------------------------------------------------
(* The inductive invariant *)

Texts == Mailboxes \cup StudentIds \cup {Untyped}
PageNames == {"home", "register", "verify", "reset", "login"}
Kinds == {"code", "register", "verify", "check", "reset", "login"}
Stages == {"token", "sent", "arrived", "checked", "mailing", "answered"}

CodeRow ==
    [mail : Mailboxes, purpose : {"verify", "reset"}, by : Nat, at : Nat,
     attempts : Nat, used : BOOLEAN, guesses : Nat, uses : Nat]
Session == [acct : Nat, ver : Nat, person : Persons]
FormRecord ==
    [page : PageNames, me : Nat, step : {"code", "password"}, typed : Texts, code : Int,
     other : BOOLEAN, loaded : BOOLEAN, submitting : BOOLEAN, token : Nat,
     failed : BOOLEAN, resend : BOOLEAN, sending : BOOLEAN]
RequestRecord ==
    [person : Persons, kind : Kinds, page : PageNames, me : Nat, address : Texts,
     code : Int, sid : StudentIds \cup {Untyped}, ver : Nat,
     mail : Mailboxes \cup {Untyped}, acct : Nat, row : Nat, at : Nat, token : Nat,
     stage : Stages, hook : BOOLEAN, mounted : BOOLEAN,
     result : {"none", "ok", "refused", "rejected", "code"}]

StateTypes ==
    /\ scenario \in Scenarios /\ now \in 0 .. scenario.ticks
    /\ accounts \in Seq(Row)
    /\ codes \in Seq(CodeRow)
    /\ sessions \subseteq Session
    /\ inbox \subseteq DOMAIN codes
    /\ form \in [Persons -> FormRecord]
    /\ wire \subseteq RequestRecord
    /\ clicks \in 0 .. scenario.clicks /\ tokens \in 0 .. scenario.clicks

\* A code that a person enters was read in a mailbox of that person, or is wrong.
Readable(k, p) ==
    /\ k \in Wrong .. Len(codes)
    /\ k > 0 => Reader[codes[k].mail] = p

FormsRefer ==
    \A p \in Persons : form[p].me <= Len(accounts) /\ Readable(form[p].code, p)

RequestsRefer ==
    \A r \in wire :
        /\ r.me <= Len(accounts) /\ r.acct <= Len(accounts) /\ r.row <= Len(codes)
        /\ r.stage = "mailing" => r.row # None
        /\ Readable(r.code, r.person)

\* What a form sends has the fields of its kind.
Filled(r) ==
    r.stage \in {"token", "sent"} =>
        /\ r.row = None
        /\ r.kind = "register" =>
              r.page = "register" /\ r.address \in Mailboxes /\ r.sid \in StudentIds
        /\ r.kind = "verify" => r.page = "verify" /\ r.address \in Mailboxes \cup {Untyped}
        /\ r.kind \in {"check", "reset"} => r.page = "reset"
        /\ r.kind = "code" =>
              \/ r.page = "register" /\ r.address \in Mailboxes
              \/ r.page = "verify" /\ r.address \in Mailboxes \cup {Untyped}
              \/ r.page = "reset"

\* Codes of one mailbox, before the one of this moment.
Spared(mail, at) ==
    LET before == {j \in DOMAIN codes : codes[j].mail = mail}
    IN  /\ \A j \in before : at - codes[j].at >= Cooldown
        /\ Cardinality({j \in before : codes[j].at > at - Window}) < MaxCodesPerEmail

\* A verification leaves the address that it read: it is the one proven, or
\* whoever changed it since had proven the other.
AddressRead(r) ==
    /\ r.address \in {Untyped, r.mail}
    /\ r.address = Untyped =>
          \/ accounts[r.me].mail = r.mail
          \/ accounts[r.me].provenBy = Reader[accounts[r.me].mail]

\* What a request read on arrival.
Read(r) ==
    r.stage = "arrived" =>
        /\ r.mail \in Mailboxes /\ r.at <= now
        /\ r.row # None => codes[r.row].mail = r.mail
        /\ r.kind = "register" => r.sid \in StudentIds
        /\ r.kind = "verify" => r.me # None /\ AddressRead(r)
        /\ r.kind = "reset" => r.acct # None

\* What the first step of a transaction found is true until the second.
Found(r) ==
    r.stage = "checked" =>
        /\ r.kind = "code" => r.mail \in Mailboxes /\ r.at <= now /\ Spared(r.mail, r.at)
        /\ r.kind # "code" /\ r.row # None => ~codes[r.row].used
        /\ r.kind = "register" =>
              /\ r.mail \in Mailboxes /\ r.sid \in StudentIds
              /\ r.row # None => Reader[r.mail] = r.person
        /\ r.kind = "verify" =>
              /\ r.me # None /\ r.mail \in Mailboxes /\ Reader[r.mail] = r.person
              /\ AddressRead(r)
        /\ r.kind \in {"reset", "login"} => r.acct # None

Checked(r) == Read(r) /\ Found(r)

\* A lock has one holder.
Holds(r, k) == r.stage = "checked" /\ r.kind # "code" /\ r.row = k
LockedOnce ==
    /\ \A r, s \in wire :
          (/\ r.stage = "checked" /\ r.kind = "code"
           /\ s.stage = "checked" /\ s.kind = "code") => r = s
    /\ \A k \in DOMAIN codes : \A r, s \in wire : Holds(r, k) /\ Holds(s, k) => r = s

CodesCounted ==
    \A k \in DOMAIN codes :
        /\ codes[k].at <= now
        /\ codes[k].guesses = codes[k].attempts /\ codes[k].attempts <= MaxAttempts
        /\ codes[k].uses = IF codes[k].used THEN 1 ELSE 0

\* A token is in the hands of one form or of one request, and one request at
\* most of a person waits for the next.
TokensHeld ==
    /\ \A p \in Persons : form[p].token <= tokens
    /\ \A p, q \in Persons : form[p].token = form[q].token => form[p].token = None \/ p = q
    /\ \A r \in wire :
          /\ r.token <= tokens
          /\ r.stage = "token" => r.token = None
          /\ \A p \in Persons : r.token = form[p].token => r.token = None
    /\ \A p \in Persons : \A r, s \in wire : Waits(r, p) /\ Waits(s, p) => r = s
    /\ TokenSentOnce

IndInv ==
    /\ StateTypes
    /\ FormsRefer /\ RequestsRefer
    /\ \A r \in wire : Filled(r) /\ Checked(r)
    /\ LockedOnce /\ CodesCounted /\ TokensHeld
    /\ \A s \in sessions : s.acct \in DOMAIN accounts
    /\ SessionsOfThisPassword /\ MailboxSpared /\ MailboxProven

-----------------------------------------------------------------------------
(* Facts about the rows and the records *)

LEMMA Numbers ==
    /\ Cooldown \in Nat /\ Ttl \in Nat /\ Window \in Nat
    /\ MaxAttempts \in Nat /\ MaxCodesPerEmail \in Nat /\ DailyLimit \in Nat
    /\ Cooldown <= Window
BY CodeAssumption

LEMMA Rows ==
    ASSUME StateTypes
    PROVE  /\ Len(accounts) \in Nat /\ DOMAIN accounts = 1 .. Len(accounts)
           /\ \A a \in 1 .. Len(accounts) : accounts[a] \in Row
           /\ Len(codes) \in Nat /\ DOMAIN codes = 1 .. Len(codes)
           /\ \A k \in 1 .. Len(codes) : codes[k] \in CodeRow
           /\ now \in Nat /\ clicks \in Nat /\ tokens \in Nat
           /\ scenario.clicks \in Nat /\ scenario.ticks \in Nat
<1>1. Len(accounts) \in Nat /\ DOMAIN accounts = 1 .. Len(accounts)
  BY LenProperties DEF StateTypes
<1>2. \A a \in 1 .. Len(accounts) : accounts[a] \in Row
  BY ElementOfSeq DEF StateTypes
<1>3. Len(codes) \in Nat /\ DOMAIN codes = 1 .. Len(codes)
  BY LenProperties DEF StateTypes
<1>4. \A k \in 1 .. Len(codes) : codes[k] \in CodeRow
  BY ElementOfSeq DEF StateTypes
<1> QED BY <1>1, <1>2, <1>3, <1>4, Numbers, ScenarioAssumption DEF StateTypes

LEMMA Appended ==
    ASSUME NEW S, NEW s \in Seq(S), NEW e \in S
    PROVE  /\ Append(s, e) \in Seq(S)
           /\ Len(Append(s, e)) = Len(s) + 1
           /\ \A i \in 1 .. Len(s) : Append(s, e)[i] = s[i]
           /\ Append(s, e)[Len(s) + 1] = e
BY AppendProperties

\* A change of one row keeps the table a table.
LEMMA Replaced ==
    ASSUME NEW S, NEW s \in Seq(S), NEW i, NEW e \in S
    PROVE  /\ [s EXCEPT ![i] = e] \in Seq(S)
           /\ Len([s EXCEPT ![i] = e]) = Len(s)
           /\ \A j \in 1 .. Len(s) : [s EXCEPT ![i] = e][j] = IF j = i THEN e ELSE s[j]
<1>1. Len(s) \in Nat /\ DOMAIN s = 1 .. Len(s)
  BY LenProperties
<1>2. CASE i \in 1 .. Len(s)
  BY <1>1, <1>2, ExceptSeq
<1>3. CASE i \notin 1 .. Len(s)
  <2>1. [s EXCEPT ![i] = e] = s
    BY <1>1, <1>3
  <2> QED BY <1>1, <1>3, <2>1
<1> QED BY <1>2, <1>3

Less == {ss \in Nat \X Nat : ss[1] < ss[2]}

\* A table that has codes of a mailbox has a last one.
LEMMA LatestIsOfMailbox ==
    ASSUME StateTypes, NEW mail
    PROVE  /\ Latest(mail) \in 0 .. Len(codes)
           /\ Latest(mail) # None => codes[Latest(mail)].mail = mail
<1> DEFINE Of == {k \in 1 .. Len(codes) : codes[k].mail = mail}
           Gaps == {Len(codes) - k : k \in Of}
<1>1. CASE Of = {}
  <2>1. \A j \in DOMAIN codes : codes[j].mail # mail
    BY <1>1, Rows
  <2>2. /\ None \in 0 .. Len(codes)
        /\ \A j \in DOMAIN codes : codes[j].mail = mail => j <= None
    BY <2>1, Rows DEF None
  <2> QED BY <2>1, <2>2, Rows DEF Latest, None
<1>2. CASE Of # {}
  <2>1. Gaps \in SUBSET Nat /\ Gaps # {}
    BY <1>2, Rows
  <2>2. IsWellFoundedOn(Less, Nat)
    BY NatLessThanWellFounded DEF OpToRel, Less
  <2>3. PICK g \in Gaps : \A h \in Gaps : <<h, g>> \notin Less
    <3> HIDE DEF Gaps
    <3> QED BY <2>1, <2>2, WFMin
  <2>4. PICK k \in Of : g = Len(codes) - k
    BY <2>3
  <2>5. \A j \in Of : j <= k
    <3> SUFFICES ASSUME NEW j \in Of PROVE j <= k
      OBVIOUS
    <3>1. <<Len(codes) - j, g>> \notin Less
      BY <2>3
    <3>2. Len(codes) - j \in Nat /\ Len(codes) - k \in Nat
      BY Rows
    <3> QED BY <2>4, <3>1, <3>2, Rows DEF Less
  <2>6. \A j \in DOMAIN codes : codes[j].mail = mail => j <= k
    BY <2>5, Rows
  <2>7. k \in 0 .. Len(codes) /\ codes[k].mail = mail
    BY Rows
  <2> QED BY <2>6, <2>7 DEF Latest
<1> QED BY <1>1, <1>2

LEMMA RowWithIsRow ==
    ASSUME StateTypes, NEW field, NEW x
    PROVE  RowWith(field, x) \in 0 .. Len(accounts)
<1>1. CASE \E b \in DOMAIN accounts : accounts[b][field] = x
  <2>1. PICK b \in DOMAIN accounts : accounts[b][field] = x
    BY <1>1
  <2>2. b \in 0 .. Len(accounts) /\ b # None
    BY Rows DEF None
  <2> QED BY <1>1, <2>1, <2>2 DEF RowWith
<1>2. CASE ~\E b \in DOMAIN accounts : accounts[b][field] = x
  <2>1. None \in 0 .. Len(accounts)
    BY Rows DEF None
  <2> QED BY <1>2, <2>1 DEF RowWith
<1> QED BY <1>1, <1>2

LEMMA AnsweredRecord ==
    ASSUME NEW r \in RequestRecord, NEW acct \in Nat,
           NEW result \in {"none", "ok", "refused", "rejected", "code"}
    PROVE  LET q == Answered(r, result, acct) IN
           /\ q \in RequestRecord
           /\ q.stage = "answered" /\ q.token = None /\ q.code = None /\ q.row = None
           /\ q.acct = acct /\ q.me = r.me /\ q.person = r.person /\ q.kind = r.kind
<1>1. Untyped \in Texts /\ Untyped \in StudentIds \cup {Untyped} /\ Untyped \in Mailboxes \cup {Untyped}
  BY DEF Texts
<1>2. None \in Nat /\ None \in Int
  BY DEF None
<1>3. "answered" \in Stages
  BY DEF Stages
<1>4. Answered(r, result, acct) \in RequestRecord
  BY <1>1, <1>2, <1>3 DEF Answered, RequestRecord
<1> QED BY <1>4 DEF Answered, RequestRecord

\* What Hold makes of a request.
Holding(r, mail, acct, row) ==
    [r EXCEPT !.stage = "checked", !.mail = mail, !.acct = acct, !.row = row]

-----------------------------------------------------------------------------
(* Steps that leave the tables alone *)

\* r is s, but for what its page has become.
Same(r, s) ==
    /\ r.stage = s.stage /\ r.kind = s.kind /\ r.person = s.person /\ r.page = s.page
    /\ r.me = s.me /\ r.address = s.address /\ r.code = s.code /\ r.sid = s.sid
    /\ r.mail = s.mail /\ r.acct = s.acct /\ r.row = s.row /\ r.at = s.at
    /\ r.token = s.token

\* Requests are dropped, or go on without their page.
Thinned ==
    \A r1, r2 \in wire' : \E s1, s2 \in wire :
        Same(r1, s1) /\ Same(r2, s2) /\ (s1 = s2 => r1 = r2)

LEMMA SubsetThins ==
    ASSUME StateTypes, wire' \subseteq wire
    PROVE  wire' \subseteq RequestRecord /\ Thinned
BY DEF StateTypes, Thinned, Same

LEMMA UnmountedThins ==
    ASSUME StateTypes, NEW W \in SUBSET wire, NEW p, wire' = Unmounted(p, W)
    PROVE  wire' \subseteq RequestRecord /\ Thinned
<1> DEFINE f(r) == [r EXCEPT !.mounted = @ /\ r.person # p, !.hook = @ /\ r.person # p]
<1>1. \A r \in wire : f(r) \in RequestRecord /\ Same(f(r), r)
  BY ZenonT(40) DEF StateTypes, RequestRecord, Same
<1>2. \A q \in wire' : \E r \in wire : q = f(r)
  BY DEF Unmounted
<1> HIDE DEF f
<1> QED BY <1>1, <1>2 DEF Thinned

LEMMA UnhookedThins ==
    ASSUME StateTypes, NEW W \in SUBSET wire, NEW p, wire' = Unhooked(p, W)
    PROVE  wire' \subseteq RequestRecord /\ Thinned
<1> DEFINE f(r) == [r EXCEPT !.hook = @ /\ r.person # p]
<1>1. \A r \in wire : f(r) \in RequestRecord /\ Same(f(r), r)
  BY ZenonT(40) DEF StateTypes, RequestRecord, Same
<1>2. \A q \in wire' : \E r \in wire : q = f(r)
  BY DEF Unhooked
<1> HIDE DEF f
<1> QED BY <1>1, <1>2 DEF Thinned

\* The token of r is that of s, or r has none.
TokenOf(r, s) ==
    /\ r.token \in {None, s.token}
    /\ r.stage = "token" => s.stage = "token" /\ r.person = s.person /\ r.token = s.token

LEMMA TokensKept ==
    ASSUME TokensHeld, tokens' = tokens, tokens \in Nat,
           \A p \in Persons : form'[p].token \in {form[p].token, None},
           \A r1, r2 \in wire' : \E s1, s2 \in wire :
               TokenOf(r1, s1) /\ TokenOf(r2, s2) /\ (s1 = s2 => r1 = r2)
    PROVE  TokensHeld'
<1>1. \A p \in Persons : form'[p].token <= tokens'
  BY DEF TokensHeld, None
<1>2. \A p, q \in Persons :
         form'[p].token = form'[q].token => form'[p].token = None \/ p = q
  BY DEF TokensHeld
<1>3. ASSUME NEW r \in wire'
      PROVE  /\ r.token <= tokens'
             /\ r.stage = "token" => r.token = None
             /\ \A p \in Persons : r.token = form'[p].token => r.token = None
  <2>1. PICK s \in wire : TokenOf(r, s)
    OBVIOUS
  <2>2. /\ s.token <= tokens
        /\ s.stage = "token" => s.token = None
        /\ \A p \in Persons : s.token = form[p].token => s.token = None
    BY DEF TokensHeld
  <2> QED BY <2>1, <2>2 DEF TokenOf, None
<1>4. ASSUME NEW p \in Persons, NEW r1 \in wire', NEW r2 \in wire', Waits(r1, p), Waits(r2, p)
      PROVE  r1 = r2
  <2>1. PICK s1, s2 \in wire : TokenOf(r1, s1) /\ TokenOf(r2, s2) /\ (s1 = s2 => r1 = r2)
    OBVIOUS
  <2>2. Waits(s1, p) /\ Waits(s2, p)
    BY <1>4, <2>1 DEF TokenOf, Waits
  <2> QED BY <2>1, <2>2 DEF TokensHeld
<1>5. ASSUME NEW r1 \in wire', NEW r2 \in wire', r1 # r2, r1.token # None
      PROVE  r1.token # r2.token
  <2>1. PICK s1, s2 \in wire : TokenOf(r1, s1) /\ TokenOf(r2, s2) /\ (s1 = s2 => r1 = r2)
    OBVIOUS
  <2>2. s1 # s2 /\ s1.token = r1.token
    BY <1>5, <2>1 DEF TokenOf
  <2>3. s1.token # s2.token
    BY <1>5, <2>2 DEF TokensHeld, TokenSentOnce
  <2> QED BY <1>5, <2>1, <2>2, <2>3 DEF TokenOf
<1>6. TokenSentOnce'
  BY <1>5 DEF TokenSentOnce
<1> QED BY <1>1, <1>2, <1>3, <1>4, <1>6 DEF TokensHeld, Waits

\* Whatever the clock does, what is in the tables stays good.
LEMMA TablesKept ==
    ASSUME IndInv, UNCHANGED <<accounts, codes, sessions>>, now' \in Nat, now <= now'
    PROVE  /\ CodesCounted'
           /\ (\A s \in sessions : s.acct \in DOMAIN accounts)'
           /\ SessionsOfThisPassword' /\ MailboxSpared' /\ MailboxProven'
<1>1. StateTypes
  BY DEF IndInv
<1>2. CodesCounted'
  <2>1. \A k \in DOMAIN codes : codes[k].at \in Nat /\ codes[k].at <= now
    BY <1>1, Rows DEF IndInv, CodesCounted, CodeRow
  <2>2. \A k \in DOMAIN codes : codes[k].at <= now'
    BY <1>1, <2>1, Rows
  <2> QED BY <2>2 DEF IndInv, CodesCounted
<1> QED BY <1>2, ZenonT(40) DEF IndInv, SessionsOfThisPassword, MailboxSpared, MailboxProven

LEMMA ViewKeeps ==
    ASSUME IndInv, UNCHANGED <<scenario, accounts, codes, sessions, inbox>>,
           now' \in 0 .. scenario.ticks, now <= now',
           form' \in [Persons -> FormRecord],
           \A p \in Persons :
               /\ form'[p].me <= Len(accounts)
               /\ form'[p].code \in {form[p].code, None}
               /\ form'[p].token \in {form[p].token, None},
           wire' \subseteq RequestRecord, Thinned,
           clicks' \in 0 .. scenario.clicks, tokens' = tokens
    PROVE  IndInv'
<1>1. StateTypes
  BY DEF IndInv
<1>2. StateTypes'
  BY <1>1 DEF StateTypes
<1>3. \A k, p : Readable(k, p)' <=> Readable(k, p)
  BY DEF Readable
<1>4. FormsRefer'
  BY <1>1, <1>3, Rows DEF IndInv, FormsRefer, Readable, None, Wrong
<1>5. ASSUME NEW r \in wire'
      PROVE  /\ r.me <= Len(accounts) /\ r.acct <= Len(accounts) /\ r.row <= Len(codes)
             /\ r.stage = "mailing" => r.row # None
             /\ Readable(r.code, r.person)
             /\ Filled(r)
             /\ Checked(r)'
  <2>1. PICK s \in wire : Same(r, s)
    BY DEF Thinned
  <2>2. Filled(r)
    BY <2>1 DEF IndInv, Filled, Same
  <2>3. Checked(s)
    BY DEF IndInv
  <2>4. \A m, a : Spared(m, a)' <=> Spared(m, a)
    BY DEF Spared
  <2>5. r.stage = "checked" /\ r.kind = "code" =>
          r.mail \in Mailboxes /\ r.at <= now' /\ Spared(r.mail, r.at)
    <3>1. r.at \in Nat
      BY DEF RequestRecord
    <3> QED BY <1>1, <2>1, <2>3, <3>1, Rows, Numbers DEF Checked, Found, Same
  <2>6. Read(r)'
    <3>1. r.at \in Nat /\ (r.at <= now => r.at <= now')
      BY <1>1, Rows DEF RequestRecord
    <3> QED BY <2>1, <2>3, <3>1 DEF Checked, Read, AddressRead, Same
  <2>7. Found(r)'
    BY <2>1, <2>3, <2>4, <2>5 DEF Checked, Found, AddressRead, Same
  <2> QED BY <2>1, <2>2, <2>6, <2>7 DEF IndInv, RequestsRefer, Same, Checked
<1>6. RequestsRefer'
  BY <1>3, <1>5 DEF RequestsRefer
<1>7. LockedOnce'
  <2>1. ASSUME NEW r1 \in wire', NEW r2 \in wire'
        PROVE  \E s1, s2 \in wire : Same(r1, s1) /\ Same(r2, s2) /\ (s1 = s2 => r1 = r2)
    BY DEF Thinned
  <2> QED BY <2>1 DEF IndInv, LockedOnce, Holds, Same
<1>8. TokensHeld'
  <2>1. \A r1, r2 \in wire' : \E s1, s2 \in wire :
            TokenOf(r1, s1) /\ TokenOf(r2, s2) /\ (s1 = s2 => r1 = r2)
    BY DEF Thinned, Same, TokenOf
  <2> QED BY <1>1, <2>1, TokensKept, Rows DEF IndInv
<1>9. \A r \in wire' : Filled(r)' /\ Checked(r)'
  BY <1>5 DEF Filled
<1>10. now' \in Nat
  BY <1>1, Rows
<1> QED BY <1>2, <1>4, <1>6, <1>7, <1>8, <1>9, <1>10, TablesKept DEF IndInv

-----------------------------------------------------------------------------
(* What persons do at their pages *)

\* The form of one person changes, to a record with the same or less in hand.
LEMMA OneForm ==
    ASSUME StateTypes, FormsRefer, NEW p \in Persons, NEW f \in FormRecord,
           f.me <= Len(accounts), f.code \in {form[p].code, None},
           f.token \in {form[p].token, None},
           form' = [form EXCEPT ![p] = f]
    PROVE  /\ form' \in [Persons -> FormRecord]
           /\ \A q \in Persons :
                 /\ form'[q].me <= Len(accounts)
                 /\ form'[q].code \in {form[q].code, None}
                 /\ form'[q].token \in {form[q].token, None}
BY DEF StateTypes, FormsRefer

LEMMA FreshForm ==
    ASSUME NEW page \in PageNames, NEW me \in Nat
    PROVE  /\ Fresh(page, me) \in FormRecord
           /\ Fresh(page, me).me = me /\ Fresh(page, me).code = None
           /\ Fresh(page, me).token = None /\ Fresh(page, me).page = page
<1>1. Untyped \in Texts /\ None \in Nat /\ None \in Int
  BY DEF Texts, None
<1> QED BY <1>1 DEF Fresh, FormRecord

LEMMA UnrequestedForm ==
    ASSUME NEW f \in FormRecord
    PROVE  /\ Unrequested(f) \in FormRecord
           /\ Unrequested(f).me = f.me /\ Unrequested(f).code = f.code
           /\ Unrequested(f).token = f.token
BY DEF Unrequested, FormRecord

LEMMA VisitKeeps ==
    ASSUME IndInv, NEW p \in Persons, NEW page, Visit(p, page)
    PROVE  IndInv'
<1>1. StateTypes /\ FormsRefer
  BY DEF IndInv
<1>2. page \in PageNames
  BY <1>1, ScenarioAssumption DEF Visit, StateTypes, PageNames
<1>3. form[p] \in FormRecord /\ form[p].me \in Nat /\ form[p].me <= Len(accounts)
  BY <1>1 DEF StateTypes, FormRecord, FormsRefer
<1>4. form' = [form EXCEPT ![p] = Fresh(page, form[p].me)]
  BY DEF Visit
<1>5. wire' \subseteq RequestRecord /\ Thinned
  BY <1>1, UnmountedThins DEF Visit
<1>6. clicks' \in 0 .. scenario.clicks
  BY <1>1, Rows DEF Visit
<1>7. /\ form' \in [Persons -> FormRecord]
      /\ \A q \in Persons :
            /\ form'[q].me <= Len(accounts)
            /\ form'[q].code \in {form[q].code, None}
            /\ form'[q].token \in {form[q].token, None}
  <2> DEFINE f == Fresh(page, form[p].me)
  <2>1. f \in FormRecord /\ f.me = form[p].me /\ f.code = None /\ f.token = None
    BY <1>2, <1>3, FreshForm
  <2>2. form' = [form EXCEPT ![p] = f]
    BY <1>4
  <2> HIDE DEF f
  <2> QED BY <1>1, <1>3, <2>1, <2>2, OneForm
<1>8. UNCHANGED <<scenario, now, accounts, codes, sessions, inbox, tokens>>
  BY DEF Visit, rows
<1>9. now \in 0 .. scenario.ticks /\ now \in Nat
  BY <1>1, Rows DEF StateTypes
<1> QED BY <1>5, <1>6, <1>7, <1>8, <1>9, ViewKeeps

\* A form record with the same or less in hand.
Lesser(f, p) ==
    /\ f \in FormRecord /\ f.me = form[p].me
    /\ f.code \in {form[p].code, None} /\ f.token \in {form[p].token, None}

LEMMA FormChanges ==
    ASSUME StateTypes, NEW p \in Persons
    PROVE  /\ Lesser([form[p] EXCEPT !.loaded = TRUE], p)
           /\ Lesser([form[p] EXCEPT !.token = None], p)
           /\ Lesser([form[p] EXCEPT !.code = None, !.step = "code"], p)
           /\ Lesser([form[p] EXCEPT !.other = ~@, !.code = None], p)
           /\ Lesser([form[p] EXCEPT !.resend = FALSE], p)
           /\ Lesser([form[p] EXCEPT !.step = "password", !.submitting = FALSE, !.token = None], p)
<1>1. None \in Nat /\ None \in Int
  BY DEF None
<1>2. form[p] \in FormRecord
  BY DEF StateTypes
<1>3. Lesser([form[p] EXCEPT !.loaded = TRUE], p)
  BY <1>1, <1>2 DEF FormRecord, Lesser
<1>4. Lesser([form[p] EXCEPT !.token = None], p)
  BY <1>1, <1>2 DEF FormRecord, Lesser
<1>5. Lesser([form[p] EXCEPT !.code = None, !.step = "code"], p)
  BY <1>1, <1>2 DEF FormRecord, Lesser
<1>6. Lesser([form[p] EXCEPT !.other = ~@, !.code = None], p)
  BY <1>1, <1>2 DEF FormRecord, Lesser
<1>7. Lesser([form[p] EXCEPT !.resend = FALSE], p)
  BY <1>1, <1>2 DEF FormRecord, Lesser
<1>8. Lesser([form[p] EXCEPT !.step = "password", !.submitting = FALSE, !.token = None], p)
  BY <1>1, <1>2 DEF FormRecord, Lesser
<1> QED BY <1>3, <1>4, <1>5, <1>6, <1>7, <1>8

LEMMA LoadEventKeeps ==
    ASSUME IndInv, NEW p \in Persons, LoadEvent(p) \/ WidgetExpired(p) \/ Restart(p)
    PROVE  IndInv'
<1>1. StateTypes /\ FormsRefer
  BY DEF IndInv
<1>2. PICK f \in {[form[p] EXCEPT !.loaded = TRUE], [form[p] EXCEPT !.token = None],
                  [form[p] EXCEPT !.code = None, !.step = "code"]} :
         form' = [form EXCEPT ![p] = f]
  BY <1>1 DEF LoadEvent, WidgetExpired, Restart, StateTypes
<1>3. Lesser(f, p)
  BY <1>1, <1>2, FormChanges
<1>4. f \in FormRecord /\ f.me = form[p].me /\ f.code \in {form[p].code, None}
      /\ f.token \in {form[p].token, None}
  BY <1>3 DEF Lesser
<1>5. wire' \subseteq RequestRecord /\ Thinned
  BY <1>1, SubsetThins DEF LoadEvent, WidgetExpired, Restart
<1>6. /\ form' \in [Persons -> FormRecord]
      /\ \A q \in Persons :
            /\ form'[q].me <= Len(accounts)
            /\ form'[q].code \in {form[q].code, None}
            /\ form'[q].token \in {form[q].token, None}
  BY <1>1, <1>2, <1>4, OneForm DEF FormsRefer
<1> QED BY <1>1, <1>5, <1>6, ViewKeeps, Rows
        DEF LoadEvent, WidgetExpired, Restart, StateTypes, rows

LEMMA TypeAddressKeeps ==
    ASSUME IndInv, NEW p \in Persons, NEW x \in Mailboxes \cup StudentIds \cup {Untyped},
           TypeAddress(p, x)
    PROVE  IndInv'
<1>1. StateTypes /\ FormsRefer
  BY DEF IndInv
<1> DEFINE f == [form[p] EXCEPT !.typed = x, !.resend = @ /\ ~Retyped(p, x)]
<1>2. form[p] \in FormRecord /\ form \in [Persons -> FormRecord]
  BY <1>1 DEF StateTypes
<1>3. f \in FormRecord /\ f.me = form[p].me /\ f.code = form[p].code /\ f.token = form[p].token
  BY <1>2 DEF FormRecord, Texts
<1>4. form' = [form EXCEPT ![p] = f]
  BY <1>2 DEF TypeAddress, FormRecord
<1>5. wire' \subseteq RequestRecord /\ Thinned
  BY <1>1, SubsetThins DEF TypeAddress
<1> HIDE DEF f
<1>6. /\ form' \in [Persons -> FormRecord]
      /\ \A q \in Persons :
            /\ form'[q].me <= Len(accounts)
            /\ form'[q].code \in {form[q].code, None}
            /\ form'[q].token \in {form[q].token, None}
  BY <1>1, <1>3, <1>4, OneForm DEF FormsRefer
<1> QED BY <1>1, <1>5, <1>6, ViewKeeps, Rows DEF TypeAddress, StateTypes, rows

LEMMA ToggleAddressKeeps ==
    ASSUME IndInv, NEW p \in Persons, ToggleAddress(p)
    PROVE  IndInv'
<1>1. StateTypes /\ FormsRefer
  BY DEF IndInv
<1> DEFINE f == [form[p] EXCEPT !.other = ~@, !.code = None]
<1>2. f \in FormRecord /\ f.me = form[p].me /\ f.code \in {form[p].code, None}
      /\ f.token \in {form[p].token, None}
  BY <1>1, FormChanges DEF Lesser
<1>3. form' = [form EXCEPT ![p] = Unrequested(f)]
  BY DEF ToggleAddress
<1>4. wire' \subseteq RequestRecord /\ Thinned
  BY <1>1, UnhookedThins DEF ToggleAddress
<1>5. clicks' \in 0 .. scenario.clicks
  BY <1>1, Rows DEF ToggleAddress
<1> HIDE DEF f
<1>6. /\ form' \in [Persons -> FormRecord]
      /\ \A q \in Persons :
            /\ form'[q].me <= Len(accounts)
            /\ form'[q].code \in {form[q].code, None}
            /\ form'[q].token \in {form[q].token, None}
  BY <1>1, <1>2, <1>3, UnrequestedForm, OneForm DEF FormsRefer
<1> QED BY <1>1, <1>4, <1>5, <1>6, ViewKeeps, Rows DEF ToggleAddress, StateTypes, rows

LEMMA WidgetErrorKeeps ==
    ASSUME IndInv, NEW p \in Persons, WidgetError(p)
    PROVE  IndInv'
<1>1. StateTypes /\ FormsRefer
  BY DEF IndInv
<1>2. PICK a, b \in BOOLEAN :
         form' = [form EXCEPT ![p] = [@ EXCEPT !.token = None, !.failed = TRUE,
                                               !.sending = a, !.submitting = b]]
  <2>1. form[p] \in FormRecord /\ form \in [Persons -> FormRecord]
    BY <1>1 DEF StateTypes
  <2>2. /\ form[p].sending \in BOOLEAN /\ form[p].submitting \in BOOLEAN
    BY <2>1 DEF FormRecord
  <2> DEFINE sending == form[p].sending
                          /\ \A r \in wire : Waits(r, p) => r.kind # "code" \/ ~r.hook
             submitting == form[p].submitting
                          /\ \A r \in wire : Waits(r, p) => r.kind = "code"
  <2>3. form' = [form EXCEPT ![p] = [@ EXCEPT !.token = None, !.failed = TRUE,
                                               !.sending = sending, !.submitting = submitting]]
    BY <2>1 DEF WidgetError, FormRecord
  <2>4. sending \in BOOLEAN /\ submitting \in BOOLEAN
    BY <2>2
  <2> QED BY <2>3, <2>4
<1> DEFINE f == [form[p] EXCEPT !.token = None, !.failed = TRUE, !.sending = a, !.submitting = b]
<1>3. None \in Nat
  BY DEF None
<1>4. f \in FormRecord /\ f.me = form[p].me /\ f.code = form[p].code /\ f.token = None
  BY <1>1, <1>3, ZenonT(40) DEF StateTypes, FormRecord
<1>5. form' = [form EXCEPT ![p] = f]
  BY <1>2
<1>6. wire' \subseteq RequestRecord /\ Thinned
  BY <1>1, SubsetThins DEF WidgetError
<1> HIDE DEF f
<1>7. /\ form' \in [Persons -> FormRecord]
      /\ \A q \in Persons :
            /\ form'[q].me <= Len(accounts)
            /\ form'[q].code \in {form[q].code, None}
            /\ form'[q].token \in {form[q].token, None}
  BY <1>1, <1>4, <1>5, OneForm DEF FormsRefer
<1>8. UNCHANGED <<scenario, now, accounts, codes, sessions, inbox, clicks, tokens>>
  BY DEF WidgetError, rows
<1>9. now \in 0 .. scenario.ticks /\ now \in Nat /\ clicks \in 0 .. scenario.clicks
  BY <1>1, Rows DEF StateTypes
<1> QED BY <1>6, <1>7, <1>8, <1>9, ViewKeeps

LEMMA TickKeeps ==
    ASSUME IndInv, Tick
    PROVE  IndInv'
<1>1. StateTypes /\ FormsRefer
  BY DEF IndInv
<1>2. \A p \in Persons : form'[p] = [form[p] EXCEPT !.resend = FALSE]
  BY DEF Tick
<1>3. form' \in [Persons -> FormRecord]
  BY <1>1, <1>2, FormChanges DEF Tick, Lesser
<1>4. \A p \in Persons :
         form'[p].me = form[p].me /\ form'[p].code = form[p].code /\ form'[p].token = form[p].token
  BY <1>1, <1>2, ZenonT(40) DEF StateTypes, FormRecord
<1>5. now' \in 0 .. scenario.ticks /\ now <= now'
  BY <1>1, Rows, Numbers DEF Tick, StateTypes
<1>6. wire' \subseteq RequestRecord /\ Thinned
  BY <1>1, SubsetThins DEF Tick
<1> QED BY <1>1, <1>3, <1>4, <1>5, <1>6, ViewKeeps DEF Tick, StateTypes, rows, FormsRefer

-----------------------------------------------------------------------------
(* Clicks and the captcha widget *)

\* A request as a click makes it.
Posted(r, p) ==
    /\ r \in RequestRecord /\ r.person = p /\ r.me = form[p].me
    /\ r.acct = None /\ r.row = None
    /\ Readable(r.code, p) /\ Filled(r)
    /\ r.token = IF Guarded(p, r.kind) THEN form[p].token ELSE None
    /\ r.stage = IF Guarded(p, r.kind) /\ form[p].token = None THEN "token" ELSE "sent"
    /\ r.stage = "token" => ~Waiting(p)

LEMMA RequestFields ==
    ASSUME StateTypes, NEW p \in Persons, NEW kind \in Kinds, NEW x \in Texts, NEW k \in Int
    PROVE  LET r == Request(p, kind, x, k) IN
           /\ r \in RequestRecord
           /\ r.person = p /\ r.kind = kind /\ r.page = form[p].page /\ r.me = form[p].me
           /\ r.acct = None /\ r.row = None /\ r.code \in {None, k}
           /\ r.address = IF form[p].page = "verify" /\ ~form[p].other THEN Untyped ELSE x
           /\ r.token = IF Guarded(p, kind) THEN form[p].token ELSE None
           /\ r.stage = IF Guarded(p, kind) /\ form[p].token = None THEN "token" ELSE "sent"
<1>1. form[p] \in FormRecord
  BY DEF StateTypes
<1>2. Untyped \in Texts /\ Untyped \in StudentIds \cup {Untyped} /\ Untyped \in Mailboxes \cup {Untyped}
  BY DEF Texts
<1>3. None \in Nat /\ None \in Int /\ Sent(p, kind, k) \in {None, k}
  BY DEF None, Sent
<1>4. form[p].page \in PageNames /\ form[p].me \in Nat /\ form[p].token \in Nat
  BY <1>1 DEF FormRecord
<1>5. (IF form[p].page = "verify" /\ ~form[p].other THEN Untyped ELSE x) \in Texts
  BY <1>2
<1>6. (IF Guarded(p, kind) THEN form[p].token ELSE None) \in Nat
  BY <1>3, <1>4
<1>7. (IF Guarded(p, kind) /\ form[p].token = None THEN "token" ELSE "sent") \in Stages
  BY DEF Stages
<1>8. Request(p, kind, x, k) \in RequestRecord
  BY <1>2, <1>3, <1>4, <1>5, <1>6, <1>7 DEF Request, RequestRecord
<1> QED BY <1>3, <1>8 DEF Request

LEMMA PostKeeps ==
    ASSUME IndInv, NEW p \in Persons, NEW r, NEW x \in Texts, NEW k \in Int,
           Posted(r, p), Readable(k, p), Post(r, x, k)
    PROVE  IndInv'
<1>1. StateTypes /\ FormsRefer /\ TokensHeld
  BY DEF IndInv
<1>2. /\ clicks' = clicks + 1 /\ clicks < scenario.clicks
      /\ wire' = wire \cup {r}
      /\ UNCHANGED <<scenario, now, accounts, codes, sessions, inbox, tokens>>
  BY DEF Post, rows
<1>3. form[p] \in FormRecord /\ form \in [Persons -> FormRecord]
  BY <1>1 DEF StateTypes
<1>4. PICK f \in FormRecord :
         /\ form' = [form EXCEPT ![p] = f]
         /\ f.me = form[p].me /\ f.code \in {form[p].code, k}
         /\ f.token = IF Guarded(p, r.kind) THEN None ELSE form[p].token
  <2>1. None \in Nat
    BY DEF None
  <2> DEFINE sending == form[p].sending \/ r.kind = "code"
             submitting == form[p].submitting \/ r.kind # "code"
             resend == form[p].resend /\ ~Retyped(p, x)
             code == IF r.kind = "check" THEN k ELSE form[p].code
             token == IF Guarded(p, r.kind) THEN None ELSE form[p].token
  <2>2. sending \in BOOLEAN /\ submitting \in BOOLEAN /\ resend \in BOOLEAN
    BY <1>3 DEF FormRecord
  <2>3. code \in Int /\ code \in {form[p].code, k} /\ token \in Nat
    BY <1>3, <2>1 DEF FormRecord
  <2>4. form' = [form EXCEPT ![p] =
                   [form[p] EXCEPT !.sending = sending, !.submitting = submitting,
                                   !.resend = resend, !.typed = x, !.code = code,
                                   !.token = token]]
    BY <1>3 DEF Post, Posted, FormRecord
  <2> HIDE DEF sending, submitting, resend, code
  <2> DEFINE f == [form[p] EXCEPT !.sending = sending, !.submitting = submitting,
                                  !.resend = resend, !.typed = x, !.code = code,
                                  !.token = token]
  <2>5. f \in FormRecord /\ f.me = form[p].me /\ f.code = code /\ f.token = token
    BY <1>3, <2>2, <2>3, ZenonT(40) DEF FormRecord
  <2> QED BY <2>3, <2>4, <2>5
<1>5. /\ form' \in [Persons -> FormRecord] /\ form'[p] = f
      /\ \A q \in Persons \ {p} : form'[q] = form[q]
  BY <1>3, <1>4
<1>6. StateTypes'
  BY <1>1, <1>2, <1>5, Rows DEF StateTypes, Posted
<1>7. \A j, q : Readable(j, q)' <=> Readable(j, q)
  BY <1>2 DEF Readable
<1>8. FormsRefer'
  BY <1>1, <1>2, <1>4, <1>5, <1>7 DEF FormsRefer
<1>9. RequestsRefer'
  <2>1. /\ r.me <= Len(accounts) /\ r.acct <= Len(accounts) /\ r.row <= Len(codes)
        /\ r.stage = "mailing" => r.row # None
        /\ Readable(r.code, r.person)
    BY <1>1, Rows DEF Posted, FormsRefer, None
  <2> QED BY <1>2, <1>7, <2>1 DEF IndInv, RequestsRefer
<1>10. \A s \in wire' : (Filled(s) /\ Checked(s))'
  <2>1. r.stage # "checked" /\ Filled(r)
    BY DEF Posted
  <2>2. \A s \in wire : Filled(s) /\ Checked(s)
    BY DEF IndInv
  <2>3. \A m, a : Spared(m, a)' <=> Spared(m, a)
    BY <1>2 DEF Spared
  <2>4. \A t \in wire : Checked(t)'
    BY <1>2, <2>2, <2>3 DEF Checked, Read, Found, AddressRead
  <2>5. r.stage \in {"token", "sent"}
    BY DEF Posted
  <2>6. Checked(r)'
    BY <2>5 DEF Checked, Read, Found
  <2> QED BY <1>2, <2>1, <2>2, <2>4, <2>6 DEF Filled
<1>11. LockedOnce'
  <2>1. r.stage # "checked"
    BY DEF Posted
  <2> QED BY <1>2, <2>1 DEF IndInv, LockedOnce, Holds
<1>12. TokensHeld'
  <2>1. \A q \in Persons : form'[q].token \in {form[q].token, None}
    BY <1>4, <1>5
  <2>2. \A q \in Persons : form[q].token <= tokens /\ form[q].token \in Nat
    BY <1>1 DEF TokensHeld, StateTypes, FormRecord
  <2>3. \A q \in Persons : form'[q].token <= tokens'
    BY <1>1, <1>2, <2>1, <2>2, Rows DEF None
  <2>4. \A q1, q2 \in Persons :
           form'[q1].token = form'[q2].token => form'[q1].token = None \/ q1 = q2
    BY <1>1, <2>1 DEF TokensHeld
  <2>5. /\ r.token <= tokens
        /\ r.stage = "token" => r.token = None
        /\ r.token # None => r.token = form[p].token /\ form'[p].token = None
    BY <1>1, <1>4, <1>5, <2>2, Rows DEF Posted, None
  <2>6. \A q \in Persons : r.token = form'[q].token => r.token = None
    BY <1>1, <1>5, <2>1, <2>5 DEF TokensHeld
  <2>7. \A s \in wire : /\ s.token <= tokens
                        /\ s.stage = "token" => s.token = None
                        /\ \A q \in Persons : s.token = form'[q].token => s.token = None
    BY <1>1, <2>1 DEF TokensHeld
  <2>8. \A s \in wire : r.token # None => s.token # r.token
    BY <1>1, <2>5 DEF TokensHeld
  <2>9. \A q \in Persons, s \in wire : Waits(r, q) => ~Waits(s, q)
    BY DEF Posted, Waits, Waiting
  <2>10. TokenSentOnce'
    BY <1>1, <1>2, <2>8 DEF TokensHeld, TokenSentOnce
  <2>11. \A q \in Persons : \A s, t \in wire' : Waits(s, q) /\ Waits(t, q) => s = t
    BY <1>1, <1>2, <2>9 DEF TokensHeld
  <2> QED BY <1>2, <2>3, <2>4, <2>5, <2>6, <2>7, <2>10, <2>11 DEF TokensHeld, Waits
<1>13. now \in Nat
  BY <1>1, Rows
<1> QED BY <1>2, <1>6, <1>8, <1>9, <1>10, <1>11, <1>12, <1>13, TablesKept DEF IndInv

LEMMA ClickCodeKeeps ==
    ASSUME IndInv, NEW p \in Persons, NEW x \in Texts, ClickCode(p, x)
    PROVE  IndInv'
<1>1. StateTypes
  BY DEF IndInv
<1> DEFINE r == Request(p, "code", x, None)
<1>2. None \in Int /\ "code" \in Kinds /\ Readable(None, p)
  BY <1>1, Rows DEF None, Kinds, Readable, Wrong
<1>3. /\ r \in RequestRecord
      /\ r.person = p /\ r.kind = "code" /\ r.page = form[p].page /\ r.me = form[p].me
      /\ r.acct = None /\ r.row = None /\ r.code = None
      /\ r.address = IF form[p].page = "verify" /\ ~form[p].other THEN Untyped ELSE x
      /\ r.token = IF Guarded(p, "code") THEN form[p].token ELSE None
      /\ r.stage = IF Guarded(p, "code") /\ form[p].token = None THEN "token" ELSE "sent"
  BY <1>1, <1>2, RequestFields
<1>4. Post(r, x, None) /\ ~Waiting(p)
  BY DEF ClickCode, SendFree
<1> HIDE DEF r
<1>5. Filled(r)
  BY <1>3 DEF ClickCode, Typable, Filled
<1>6. Posted(r, p)
  BY <1>2, <1>3, <1>4, <1>5 DEF Posted
<1> QED BY <1>2, <1>4, <1>6, PostKeeps

LEMMA CodesReadable ==
    ASSUME IndInv, NEW p \in Persons, NEW kind, NEW k \in Codes(p, kind)
    PROVE  Readable(k, p) /\ k \in Int
<1>1. StateTypes
  BY DEF IndInv
<1>2. CASE k \in {Wrong, None}
  BY <1>1, <1>2, Rows DEF Readable, Wrong, None
<1>3. CASE k \in Known(p)
  <2>1. k \in 1 .. Len(codes) /\ Reader[codes[k].mail] = p
    BY <1>1, <1>3, Rows DEF Known, StateTypes
  <2> QED BY <1>1, <2>1, Rows DEF Readable, Wrong
<1>4. CASE k = form[p].code
  <2>1. form[p] \in FormRecord
    BY <1>1 DEF StateTypes
  <2> QED BY <1>4, <2>1 DEF IndInv, FormsRefer, FormRecord
<1> QED BY <1>2, <1>3, <1>4 DEF Codes

LEMMA ClickSubmitKeeps ==
    ASSUME IndInv, NEW p \in Persons, NEW x \in Texts, NEW k, ClickSubmit(p, x, k)
    PROVE  IndInv'
<1>1. StateTypes
  BY DEF IndInv
<1> DEFINE kind == SubmitKind(p)
           r == Request(p, kind, x, k)
<1>2. form[p] \in FormRecord /\ form[p].page \in PageNames \ {"home"}
  BY <1>1 DEF StateTypes, FormRecord, ClickSubmit
<1>3. /\ kind \in Kinds \ {"code"}
      /\ kind \in {"register", "login", "verify"} => kind = form[p].page
      /\ kind \in {"check", "reset"} => form[p].page = "reset"
  BY <1>2 DEF SubmitKind, PageNames, Kinds
<1>4. /\ SubmitFree(p) /\ x \in Typable(p) /\ k \in Codes(p, kind)
      /\ \/ kind = "register" /\ \E sid \in Profiles : Post([r EXCEPT !.sid = sid], x, k)
         \/ kind = "login" /\ \E v \in Chosen(p, x) : Post([r EXCEPT !.ver = v], x, k)
         \/ kind \in {"verify", "check", "reset"} /\ Post(r, x, k)
  BY DEF ClickSubmit
<1> HIDE DEF kind
<1>5. Readable(k, p) /\ k \in Int /\ Readable(None, p)
  BY <1>1, <1>4, CodesReadable, Rows DEF Readable, None, Wrong
<1>6. /\ r \in RequestRecord
      /\ r.person = p /\ r.kind = kind /\ r.page = form[p].page /\ r.me = form[p].me
      /\ r.acct = None /\ r.row = None /\ r.code \in {None, k}
      /\ r.address = IF form[p].page = "verify" /\ ~form[p].other THEN Untyped ELSE x
      /\ r.token = IF Guarded(p, kind) THEN form[p].token ELSE None
      /\ r.stage = IF Guarded(p, kind) /\ form[p].token = None THEN "token" ELSE "sent"
  BY <1>1, <1>3, <1>5, RequestFields
<1>7. Guarded(p, kind) => ~Waiting(p)
  BY <1>3, <1>4 DEF Guarded, SubmitFree
<1> HIDE DEF r
<1>8. CASE kind = "register"
  <2>1. PICK sid \in StudentIds : Post([r EXCEPT !.sid = sid], x, k)
    BY <1>4, <1>8 DEF Profiles
  <2> DEFINE q == [r EXCEPT !.sid = sid]
  <2>2. /\ q \in RequestRecord /\ q.sid = sid /\ q.person = r.person /\ q.kind = r.kind
        /\ q.page = r.page
        /\ q.me = r.me /\ q.acct = r.acct /\ q.row = r.row /\ q.code = r.code
        /\ q.address = r.address /\ q.token = r.token /\ q.stage = r.stage
    BY <1>6 DEF RequestRecord
  <2>3. q.address \in Mailboxes
    BY <1>3, <1>4, <1>6, <1>8, <2>2 DEF Typable
  <2> HIDE DEF q
  <2>4. Filled(q)
    BY <1>3, <1>6, <1>8, <2>2, <2>3 DEF Filled
  <2>5. Posted(q, p)
    BY <1>5, <1>6, <1>7, <2>2, <2>4 DEF Posted
  <2>6. Post(q, x, k)
    BY <2>1 DEF q
  <2> QED BY <1>5, <2>5, <2>6, PostKeeps
<1>9. CASE kind = "login"
  <2>1. PICK v \in Chosen(p, x) : Post([r EXCEPT !.ver = v], x, k)
    BY <1>4, <1>9
  <2>2. v \in Nat
    <3>1. PICK a \in DOMAIN accounts : v \in DOMAIN accounts[a].pws
      BY DEF Chosen
    <3>2. accounts[a].pws \in Seq(Persons)
      BY <1>1, <3>1, Rows DEF Row
    <3> QED BY <3>1, <3>2, LenProperties
  <2> DEFINE q == [r EXCEPT !.ver = v]
  <2>3. /\ q \in RequestRecord /\ q.person = r.person /\ q.kind = r.kind
        /\ q.me = r.me /\ q.acct = r.acct /\ q.row = r.row /\ q.code = r.code
        /\ q.address = r.address /\ q.token = r.token /\ q.stage = r.stage
    BY <1>6, <2>2 DEF RequestRecord
  <2> HIDE DEF q
  <2>4. Filled(q)
    BY <1>6, <1>9, <2>3 DEF Filled
  <2>5. Posted(q, p)
    BY <1>5, <1>6, <1>7, <2>3, <2>4 DEF Posted
  <2>6. Post(q, x, k)
    BY <2>1 DEF q
  <2> QED BY <1>5, <2>5, <2>6, PostKeeps
<1>10. CASE kind \in {"verify", "check", "reset"}
  <2>1. Post(r, x, k)
    BY <1>4, <1>10
  <2>2. kind = "verify" => r.address \in Mailboxes \cup {Untyped}
    BY <1>3, <1>4, <1>6 DEF Typable
  <2>3. Filled(r)
    BY <1>3, <1>6, <1>10, <2>2 DEF Filled
  <2>4. Posted(r, p)
    BY <1>5, <1>6, <1>7, <2>3 DEF Posted
  <2> QED BY <1>5, <2>1, <2>4, PostKeeps
<1> QED BY <1>4, <1>8, <1>9, <1>10

LEMMA WidgetTokenKeeps ==
    ASSUME IndInv, NEW p \in Persons, WidgetToken(p)
    PROVE  IndInv'
<1>1. StateTypes /\ FormsRefer /\ TokensHeld
  BY DEF IndInv
<1>2. form[p] \in FormRecord /\ form \in [Persons -> FormRecord] /\ tokens \in Nat
  BY <1>1, Rows DEF StateTypes
<1>3. /\ tokens' = tokens + 1 /\ tokens < scenario.clicks
      /\ UNCHANGED <<scenario, now, accounts, codes, sessions, inbox, clicks>>
  BY DEF WidgetToken, rows
<1> DEFINE token == IF Waiting(p) THEN None ELSE tokens + 1
           f == [form[p] EXCEPT !.failed = FALSE, !.token = token]
           g(r) == IF Waits(r, p) THEN [r EXCEPT !.stage = "sent", !.token = tokens + 1] ELSE r
<1>4. form' = [form EXCEPT ![p] = f]
  BY <1>2 DEF WidgetToken, FormRecord
<1>5. wire' = {g(r) : r \in wire}
  BY DEF WidgetToken
<1>6. token \in Nat
  BY <1>2 DEF None
<1>7. f \in FormRecord /\ f.me = form[p].me /\ f.code = form[p].code /\ f.token = token
  BY <1>2, <1>6 DEF FormRecord
<1>8. ASSUME NEW r \in wire
      PROVE  /\ g(r) \in RequestRecord
             /\ g(r).kind = r.kind /\ g(r).page = r.page /\ g(r).person = r.person
             /\ g(r).me = r.me /\ g(r).address = r.address /\ g(r).sid = r.sid
             /\ g(r).code = r.code /\ g(r).acct = r.acct /\ g(r).row = r.row
             /\ Waits(r, p) => g(r).stage = "sent" /\ g(r).token = tokens + 1
             /\ ~Waits(r, p) => g(r) = r
  <2>1. r \in RequestRecord
    BY <1>1 DEF StateTypes
  <2> DEFINE h == [r EXCEPT !.stage = "sent", !.token = tokens + 1]
  <2>2. /\ h \in RequestRecord
        /\ h.kind = r.kind /\ h.page = r.page /\ h.person = r.person
        /\ h.me = r.me /\ h.address = r.address /\ h.sid = r.sid
        /\ h.code = r.code /\ h.acct = r.acct /\ h.row = r.row
        /\ h.stage = "sent" /\ h.token = tokens + 1
    <3>1. tokens + 1 \in Nat /\ "sent" \in Stages
      BY <1>2 DEF Stages
    <3>2. h \in RequestRecord
      BY <2>1, <3>1 DEF RequestRecord
    <3>3. /\ h.kind = r.kind /\ h.page = r.page /\ h.person = r.person
          /\ h.me = r.me /\ h.address = r.address /\ h.sid = r.sid
          /\ h.code = r.code /\ h.acct = r.acct /\ h.row = r.row
      BY <2>1 DEF RequestRecord
    <3>4. h.stage = "sent" /\ h.token = tokens + 1
      BY <2>1 DEF RequestRecord
    <3> QED BY <3>2, <3>3, <3>4
  <2>3. CASE Waits(r, p)
    <3>1. g(r) = h
      BY <2>3
    <3> HIDE DEF h, g
    <3> QED BY <2>2, <2>3, <3>1
  <2>4. CASE ~Waits(r, p)
    <3>1. g(r) = r
      BY <2>4
    <3> HIDE DEF g
    <3> QED BY <2>1, <2>4, <3>1
  <2> QED BY <2>3, <2>4
<1> HIDE DEF f, g, token
<1>9. /\ form' \in [Persons -> FormRecord] /\ form'[p] = f
      /\ \A q \in Persons \ {p} : form'[q] = form[q]
  BY <1>2, <1>4, <1>7
<1>10. StateTypes'
  BY <1>1, <1>2, <1>3, <1>5, <1>8, <1>9, Rows DEF StateTypes
<1>11. \A j, q : Readable(j, q)' <=> Readable(j, q)
  BY <1>3 DEF Readable
<1>12. FormsRefer'
  BY <1>1, <1>3, <1>7, <1>9, <1>11 DEF FormsRefer
<1>13. RequestsRefer'
  BY <1>3, <1>5, <1>8, <1>11 DEF IndInv, RequestsRefer
<1>14. \A s \in wire' : (Filled(s) /\ Checked(s))'
  <2> SUFFICES ASSUME NEW s \in wire' PROVE Filled(s) /\ Checked(s)'
    BY DEF Filled
  <2>1. PICK r \in wire : s = g(r)
    BY <1>5
  <2>2. Filled(r) /\ Checked(r)
    BY DEF IndInv
  <2>3. CASE Waits(r, p)
    <3>1. /\ r.stage = "token" /\ s.stage = "sent" /\ s.kind = r.kind /\ s.page = r.page
          /\ s.address = r.address /\ s.sid = r.sid /\ s.row = r.row
      BY <1>8, <2>1, <2>3 DEF Waits
    <3> QED BY <2>2, <3>1 DEF Filled, Checked, Read, Found
  <2>4. CASE ~Waits(r, p)
    <3>1. s = r
      BY <1>8, <2>1, <2>4
    <3>2. \A m, a : Spared(m, a)' <=> Spared(m, a)
      BY <1>3 DEF Spared
    <3>3. Checked(r)'
      BY <1>3, <2>2, <3>2 DEF Checked, Read, Found, AddressRead
    <3> QED BY <2>2, <3>1, <3>3
  <2> QED BY <2>3, <2>4
<1>15. LockedOnce'
  <2>1. \A s \in wire' : s.stage = "checked" => s \in wire
    BY <1>5, <1>8 DEF Waits
  <2> QED BY <1>3, <2>1 DEF IndInv, LockedOnce, Holds
<1>16. TokensHeld'
  <2>1. \A q \in Persons : form[q].token <= tokens /\ form[q].token \in Nat
    BY <1>1 DEF TokensHeld, StateTypes, FormRecord
  <2>2. \A r \in wire : r.token <= tokens /\ r.token \in Nat
    BY <1>1 DEF TokensHeld, StateTypes, RequestRecord
  <2>3. form'[p].token = token /\ token \in {None, tokens + 1} /\ (Waiting(p) => token = None)
    BY <1>7, <1>9 DEF token
  <2>4. \A q \in Persons : form'[q].token <= tokens'
    BY <1>2, <1>3, <1>9, <2>1, <2>3 DEF None
  <2>5. \A q1, q2 \in Persons :
           form'[q1].token = form'[q2].token => form'[q1].token = None \/ q1 = q2
    BY <1>1, <1>2, <1>9, <2>1, <2>3 DEF TokensHeld, None
  <2>6. ASSUME NEW r \in wire
        PROVE  /\ g(r).token <= tokens'
               /\ g(r).stage = "token" => g(r).token = None
               /\ \A q \in Persons : g(r).token = form'[q].token => g(r).token = None
    <3>1. CASE Waits(r, p)
      BY <1>2, <1>3, <1>8, <1>9, <2>1, <2>3, <3>1 DEF Waiting, None
    <3>2. CASE ~Waits(r, p)
      <4>1. g(r) = r
        BY <1>8, <3>2
      <4>2. /\ r.stage = "token" => r.token = None
            /\ \A q \in Persons : r.token = form[q].token => r.token = None
        BY <1>1 DEF TokensHeld
      <4>3. r.token = form'[p].token => r.token = None
        BY <1>2, <2>2, <2>3
      <4> QED BY <1>2, <1>3, <1>9, <2>2, <4>1, <4>2, <4>3
    <3> QED BY <3>1, <3>2
  <2>7. ASSUME NEW q \in Persons, NEW r \in wire, NEW s \in wire, Waits(g(r), q), Waits(g(s), q)
        PROVE  g(r) = g(s)
    <3>1. Waits(r, q) /\ Waits(s, q)
      BY <1>8, <2>7 DEF Waits
    <3> QED BY <1>1, <3>1 DEF TokensHeld
  <2>8. ASSUME NEW r \in wire, NEW s \in wire, g(r) # g(s), g(r).token # None
        PROVE  g(r).token # g(s).token
    <3>1. CASE Waits(r, p) /\ Waits(s, p)
      BY <1>1, <2>8, <3>1 DEF TokensHeld
    <3>2. CASE Waits(r, p) /\ ~Waits(s, p)
      BY <1>2, <1>8, <2>2, <3>2
    <3>3. CASE ~Waits(r, p) /\ Waits(s, p)
      BY <1>2, <1>8, <2>2, <3>3
    <3>4. CASE ~Waits(r, p) /\ ~Waits(s, p)
      BY <1>1, <1>8, <2>8, <3>4 DEF TokensHeld, TokenSentOnce
    <3> QED BY <3>1, <3>2, <3>3, <3>4
  <2>9. TokenSentOnce'
    BY <1>5, <2>8 DEF TokenSentOnce
  <2>10. \A q \in Persons : \A r, s \in wire' : Waits(r, q) /\ Waits(s, q) => r = s
    BY <1>5, <2>7
  <2> QED BY <1>5, <2>4, <2>5, <2>6, <2>9, <2>10 DEF TokensHeld, Waits
<1>17. now \in Nat
  BY <1>1, Rows
<1> QED BY <1>3, <1>10, <1>12, <1>13, <1>14, <1>15, <1>16, <1>17, TablesKept DEF IndInv

-----------------------------------------------------------------------------
(* Steps of the server *)

\* q takes the place of the request r, whose step may append to a table, or
\* change the row that r holds.
Replaces(q, r) ==
    /\ wire' = (wire \ {r}) \cup {q}
    /\ q \in RequestRecord /\ q.person = r.person /\ q.me = r.me
    /\ q.code \in {None, r.code} /\ q.token \in {None, r.token}
    /\ q.stage \notin {"token", "sent"} /\ (q.stage = "mailing" => q.row # None)
    /\ q.acct <= Len(accounts') /\ q.row <= Len(codes')

\* Whose address changes has proven the new one.
AddressesProven ==
    \A a \in DOMAIN accounts :
        \/ /\ accounts'[a].mail = accounts[a].mail
           /\ accounts'[a].provenBy = accounts[a].provenBy
        \/ accounts'[a].provenBy = Reader[accounts'[a].mail]

\* What other requests know of the tables is still so.
TablesGrow(r) ==
    /\ accounts' \in Seq(Row) /\ Len(accounts) <= Len(accounts')
    /\ AddressesProven
    /\ codes' \in Seq(CodeRow) /\ Len(codes) <= Len(codes')
    /\ Len(codes) < Len(codes') => r.stage = "checked" /\ r.kind = "code"
    /\ \A k \in DOMAIN codes :
          /\ codes'[k].mail = codes[k].mail /\ codes'[k].at = codes[k].at
          /\ codes'[k].used = codes[k].used \/ Holds(r, k)

LEMMA SparedKept ==
    ASSUME StateTypes, codes' \in Seq(CodeRow), Len(codes') = Len(codes),
           \A k \in DOMAIN codes : codes'[k].mail = codes[k].mail /\ codes'[k].at = codes[k].at
    PROVE  \A mail, at : Spared(mail, at)' <=> Spared(mail, at)
<1> SUFFICES ASSUME NEW mail, NEW at PROVE Spared(mail, at)' <=> Spared(mail, at)
  OBVIOUS
<1>1. DOMAIN codes' = DOMAIN codes
  BY LenProperties, Rows
<1> DEFINE before == {j \in DOMAIN codes : codes[j].mail = mail}
           recent == {j \in before : codes[j].at > at - Window}
<1>2. before' = before
  BY <1>1
<1>3. recent' = recent
  BY <1>2
<1>4. (\A j \in before : at - codes[j].at >= Cooldown)'
        <=> (\A j \in before : at - codes[j].at >= Cooldown)
  BY <1>2
<1> QED BY <1>3, <1>4 DEF Spared

LEMMA ServerStep ==
    ASSUME IndInv, NEW r \in wire, NEW q,
           Replaces(q, r), TablesGrow(r), Checked(q)',
           UNCHANGED <<scenario, now, form, clicks, tokens>>,
           inbox' \subseteq DOMAIN codes', sessions' \subseteq Session,
           q.stage = "checked" /\ q.kind = "code" =>
               \A s \in wire : ~(s.stage = "checked" /\ s.kind = "code"),
           \A k \in DOMAIN codes' : Holds(q, k) => \A s \in wire : ~Holds(s, k)
    PROVE  /\ StateTypes' /\ FormsRefer' /\ RequestsRefer'
           /\ (\A s \in wire : Filled(s) /\ Checked(s))'
           /\ LockedOnce' /\ TokensHeld'
<1>1. StateTypes /\ FormsRefer /\ RequestsRefer /\ LockedOnce /\ TokensHeld
  BY DEF IndInv
<1>2. /\ Len(accounts') \in Nat /\ Len(codes') \in Nat
      /\ DOMAIN codes' = 1 .. Len(codes') /\ DOMAIN codes = 1 .. Len(codes)
      /\ Len(accounts) \in Nat /\ Len(codes) \in Nat /\ now \in Nat /\ tokens \in Nat
  BY <1>1, LenProperties, Rows DEF TablesGrow
<1>3. StateTypes'
  BY <1>1 DEF StateTypes, Replaces, TablesGrow
<1>4. ASSUME NEW k, NEW p, Readable(k, p)
      PROVE  Readable(k, p)'
  BY <1>2, <1>4 DEF Readable, TablesGrow, Wrong
<1>5. FormsRefer'
  <2>1. \A p \in Persons : form[p].me \in Nat
    BY <1>1 DEF StateTypes, FormRecord
  <2> QED BY <1>1, <1>2, <1>4, <2>1 DEF FormsRefer, TablesGrow
<1>6. RequestsRefer'
  <2>1. \A s \in wire : s \in RequestRecord
    BY <1>1 DEF StateTypes
  <2>2. \A s \in wire :
           /\ s.me \in Nat /\ s.acct \in Nat /\ s.row \in Nat
           /\ s.me <= Len(accounts) /\ s.acct <= Len(accounts) /\ s.row <= Len(codes)
           /\ s.stage = "mailing" => s.row # None
           /\ Readable(s.code, s.person)
    BY <1>1, <2>1 DEF RequestsRefer, RequestRecord
  <2>3. \A p : Readable(None, p)'
    BY <1>2 DEF Readable, None, Wrong
  <2>4. /\ q.me <= Len(accounts)' /\ q.acct <= Len(accounts)' /\ q.row <= Len(codes)'
        /\ q.stage = "mailing" => q.row # None
        /\ Readable(q.code, q.person)'
    BY <1>2, <1>4, <2>2, <2>3 DEF Replaces, TablesGrow
  <2>5. \A s \in wire :
           /\ s.me <= Len(accounts)' /\ s.acct <= Len(accounts)' /\ s.row <= Len(codes)'
           /\ s.stage = "mailing" => s.row # None
           /\ Readable(s.code, s.person)'
    BY <1>2, <1>4, <2>2 DEF TablesGrow
  <2> QED BY <2>4, <2>5 DEF RequestsRefer, Replaces
<1>7. ASSUME NEW s \in wire, s # r
      PROVE  Checked(s)'
  <2>1. Checked(s)
    BY DEF IndInv
  <2>2. s.stage = "checked" /\ s.kind = "code" => Len(codes') = Len(codes)
    <3>1. s.stage = "checked" /\ s.kind = "code" => ~(r.stage = "checked" /\ r.kind = "code")
      BY <1>1, <1>7 DEF LockedOnce
    <3>2. Len(codes') <= Len(codes) \/ (r.stage = "checked" /\ r.kind = "code")
      BY <1>2 DEF TablesGrow
    <3>3. Len(codes) <= Len(codes')
      BY DEF TablesGrow
    <3>4. Len(codes') <= Len(codes) => Len(codes') = Len(codes)
      <4>1. \A m, n \in Nat : m <= n /\ n <= m => m = n
        OBVIOUS
      <4>2. Len(codes') \in Nat /\ Len(codes) \in Nat
        BY <1>2
      <4> QED BY <3>3, <4>1, <4>2
    <3> QED BY <3>1, <3>2, <3>4
  <2>3. s.stage = "checked" /\ s.kind = "code" => (Spared(s.mail, s.at)' <=> Spared(s.mail, s.at))
    BY <1>1, <2>2, SparedKept DEF TablesGrow
  <2>4. s.stage = "checked" /\ s.kind # "code" /\ s.row # None => ~codes'[s.row].used
    <3> SUFFICES ASSUME s.stage = "checked", s.kind # "code", s.row # None
                 PROVE  ~codes'[s.row].used
      OBVIOUS
    <3>1. s.row \in DOMAIN codes
      BY <1>1, <1>2, SMTT(30) DEF RequestsRefer, StateTypes, RequestRecord, None
    <3>2. ~Holds(r, s.row)
      BY <1>1, <1>7, <3>1 DEF LockedOnce, Holds
    <3> QED BY <2>1, <3>1, <3>2 DEF Checked, Found, TablesGrow
  <2>5. s.me # None /\ AddressRead(s) => AddressRead(s)'
    <3> SUFFICES ASSUME s.me # None, AddressRead(s) PROVE AddressRead(s)'
      OBVIOUS
    <3>1. s.me \in DOMAIN accounts
      BY <1>1, <1>2 DEF RequestsRefer, StateTypes, RequestRecord, None
    <3> QED BY <3>1 DEF AddressRead, TablesGrow, AddressesProven
  <2>6. Read(s)'
    <3> SUFFICES ASSUME s.stage = "arrived" PROVE Read(s)'
      BY DEF Read
    <3>1. s.row # None => s.row \in DOMAIN codes
      BY <1>1, <1>2 DEF RequestsRefer, StateTypes, RequestRecord, None
    <3> QED BY <2>1, <2>5, <3>1 DEF Checked, Read, TablesGrow
  <2>7. Found(s)'
    BY <2>1, <2>3, <2>4, <2>5 DEF Checked, Found
  <2> QED BY <2>6, <2>7 DEF Checked
<1>8. (\A s \in wire : Filled(s) /\ Checked(s))'
  <2>1. Filled(q)
    BY DEF Filled, Replaces
  <2>2. \A s \in wire : Filled(s)
    BY DEF IndInv
  <2>3. \A s \in wire' : Filled(s)
    BY <2>1, <2>2 DEF Replaces
  <2>4. \A s \in wire' : Checked(s)'
    BY <1>7 DEF Replaces
  <2> QED BY <2>3, <2>4 DEF Filled
<1>9. LockedOnce'
  <2>1. \A s, t \in wire' :
           (/\ s.stage = "checked" /\ s.kind = "code"
            /\ t.stage = "checked" /\ t.kind = "code") => s = t
    BY <1>1 DEF LockedOnce, Replaces
  <2>2. \A k \in DOMAIN codes' : \A s, t \in wire' : Holds(s, k) /\ Holds(t, k) => s = t
    <3> SUFFICES ASSUME NEW k \in DOMAIN codes', NEW s \in wire', NEW t \in wire',
                        Holds(s, k), Holds(t, k)
                 PROVE  s = t
      OBVIOUS
    <3>1. CASE s = q \/ t = q
      BY <3>1 DEF Replaces
    <3>2. CASE s # q /\ t # q
      <4>1. s \in wire /\ t \in wire
        BY <3>2 DEF Replaces
      <4>2. k \in DOMAIN codes
        BY <1>1, <1>2, <4>1 DEF Holds, RequestsRefer, StateTypes, RequestRecord
      <4> QED BY <1>1, <4>1, <4>2 DEF LockedOnce
    <3> QED BY <3>1, <3>2
  <2> QED BY <2>1, <2>2 DEF LockedOnce, Holds
<1>10. TokensHeld'
  <2>1. TokenOf(q, r) /\ \A s \in wire : TokenOf(s, s)
    BY DEF Replaces, TokenOf
  <2>2. \A s, t \in wire' : \E s1, t1 \in wire :
           TokenOf(s, s1) /\ TokenOf(t, t1) /\ (s1 = t1 => s = t)
    <3> SUFFICES ASSUME NEW s \in wire', NEW t \in wire'
                 PROVE  \E s1, t1 \in wire :
                           TokenOf(s, s1) /\ TokenOf(t, t1) /\ (s1 = t1 => s = t)
      OBVIOUS
    <3>1. CASE s = q /\ t = q
      BY <2>1, <3>1
    <3>2. CASE s = q /\ t # q
      BY <2>1, <3>2 DEF Replaces
    <3>3. CASE s # q /\ t = q
      BY <2>1, <3>3 DEF Replaces
    <3>4. CASE s # q /\ t # q
      BY <2>1, <3>4 DEF Replaces
    <3> QED BY <3>1, <3>2, <3>3, <3>4
  <2> QED BY <1>1, <1>2, <2>2, TokensKept
<1> QED BY <1>3, <1>5, <1>6, <1>8, <1>9, <1>10

Answers == {"none", "ok", "refused", "rejected", "code"}

\* The request is answered and the tables stay as they are.
LEMMA AnswerKeeps ==
    ASSUME IndInv, NEW r \in wire, NEW result \in Answers, Answer(r, result),
           UNCHANGED <<scenario, now, accounts, codes, sessions, form, clicks, tokens>>,
           inbox' \subseteq DOMAIN codes
    PROVE  IndInv'
<1>1. StateTypes /\ RequestsRefer
  BY DEF IndInv
<1>2. r \in RequestRecord /\ r.acct \in Nat /\ r.acct <= Len(accounts)
  BY <1>1 DEF StateTypes, RequestRecord, RequestsRefer
<1> DEFINE q == Answered(r, result, r.acct)
<1>3. /\ q \in RequestRecord
      /\ q.stage = "answered" /\ q.token = None /\ q.code = None /\ q.row = None
      /\ q.acct = r.acct /\ q.me = r.me /\ q.person = r.person
  BY <1>2, AnsweredRecord DEF Answers
<1>4. wire' = (wire \ {r}) \cup {q}
  BY DEF Answer
<1> HIDE DEF q
<1>5. Replaces(q, r)
  BY <1>1, <1>2, <1>3, <1>4, Rows DEF Replaces, None
<1>6. TablesGrow(r)
  BY <1>1, Rows DEF TablesGrow, AddressesProven, StateTypes
<1>7. Checked(q)'
  BY <1>3 DEF Checked, Read, Found
<1>8. \A k \in DOMAIN codes' : Holds(q, k) => \A s \in wire : ~Holds(s, k)
  BY <1>3 DEF Holds
<1>9. sessions' \subseteq Session /\ now \in Nat
  BY <1>1, Rows DEF StateTypes
<1>10. /\ StateTypes' /\ FormsRefer' /\ RequestsRefer'
       /\ (\A s \in wire : Filled(s) /\ Checked(s))'
       /\ LockedOnce' /\ TokensHeld'
  BY <1>3, <1>5, <1>6, <1>7, <1>8, <1>9, ServerStep
<1> QED BY <1>9, <1>10, TablesKept DEF IndInv

\* The tables stay as they are and the request keeps what it found.
LEMMA HoldKeeps ==
    ASSUME IndInv, NEW r \in wire, NEW mail \in Mailboxes \cup {Untyped},
           NEW acct \in 0 .. Len(accounts), NEW row \in 0 .. Len(codes),
           Hold(r, mail, acct, row), Checked(Holding(r, mail, acct, row)),
           r.kind = "code" => CodeLockFree,
           r.kind # "code" /\ row # None => RowFree(row),
           UNCHANGED <<scenario, now, accounts, codes, sessions, inbox, form, clicks, tokens>>
    PROVE  IndInv'
<1>1. StateTypes /\ RequestsRefer
  BY DEF IndInv
<1>2. r \in RequestRecord /\ acct \in Nat /\ row \in Nat /\ now \in Nat
  BY <1>1, Rows DEF StateTypes
<1> PICK q : q = Holding(r, mail, acct, row)
  OBVIOUS
<1>3. /\ q \in RequestRecord
      /\ q.stage = "checked" /\ q.acct = acct /\ q.row = row
      /\ q.token = r.token /\ q.code = r.code /\ q.kind = r.kind
      /\ q.me = r.me /\ q.person = r.person
  BY <1>2 DEF Holding, RequestRecord, Stages
<1>4. wire' = (wire \ {r}) \cup {q}
  BY DEF Hold, Holding
<1>5. Checked(q)'
  BY DEF Checked, Read, Found, AddressRead, Spared
<1>6. Replaces(q, r)
  BY <1>1, <1>2, <1>3, <1>4, Rows DEF Replaces
<1>7. TablesGrow(r)
  BY <1>1, Rows DEF TablesGrow, AddressesProven, StateTypes
<1>8. \A k \in DOMAIN codes' : Holds(q, k) => \A s \in wire : ~Holds(s, k)
  BY <1>1, <1>3, Rows DEF Holds, RowFree, None
<1>9. sessions' \subseteq Session /\ inbox' \subseteq DOMAIN codes'
  BY <1>1 DEF StateTypes
<1>10. q.stage = "checked" /\ q.kind = "code" =>
          \A s \in wire : ~(s.stage = "checked" /\ s.kind = "code")
  BY <1>3 DEF CodeLockFree
<1>11. /\ StateTypes' /\ FormsRefer' /\ RequestsRefer'
       /\ (\A s \in wire : Filled(s) /\ Checked(s))'
       /\ LockedOnce' /\ TokensHeld'
  BY <1>3, <1>5, <1>6, <1>7, <1>8, <1>9, <1>10, ServerStep
<1> QED BY <1>2, <1>11, TablesKept DEF IndInv

\* The tables stay as they are and the request goes on to what it waits for.
LEMMA MovesKeeps ==
    ASSUME IndInv, NEW r \in wire, NEW q, Replaces(q, r), Checked(q), q.stage = "arrived",
           UNCHANGED <<scenario, now, accounts, codes, sessions, inbox, form, clicks, tokens>>
    PROVE  IndInv'
<1>1. StateTypes
  BY DEF IndInv
<1>2. TablesGrow(r)
  BY <1>1, Rows DEF TablesGrow, AddressesProven, StateTypes
<1>3. Checked(q)'
  BY DEF Checked, Read, Found, AddressRead
<1>4. \A k \in DOMAIN codes' : Holds(q, k) => \A s \in wire : ~Holds(s, k)
  BY DEF Holds
<1>5. sessions' \subseteq Session /\ inbox' \subseteq DOMAIN codes' /\ now \in Nat
  BY <1>1, Rows DEF StateTypes
<1>6. /\ StateTypes' /\ FormsRefer' /\ RequestsRefer'
      /\ (\A s \in wire : Filled(s) /\ Checked(s))'
      /\ LockedOnce' /\ TokensHeld'
  BY <1>2, <1>3, <1>4, <1>5, ServerStep
<1> QED BY <1>5, <1>6, TablesKept DEF IndInv

\* The address that a request asks for, unless it has none.
LEMMA AskedIsMailbox ==
    ASSUME IndInv, NEW r \in wire, r.stage = "sent",
           r.kind \in {"code", "register", "verify", "check", "reset"},
           r.page = "verify" => Authenticated(r), AskedMail(r) # Untyped
    PROVE  /\ AskedMail(r) \in Mailboxes /\ Account(r) \in 0 .. Len(accounts)
           /\ r.kind = "register" => r.sid \in StudentIds
           /\ r.kind = "verify" => r.me \in DOMAIN accounts /\ r.me # None
           /\ r.kind = "reset" => Account(r) # None
<1>1. StateTypes /\ Filled(r)
  BY DEF IndInv
<1>2. r.page \in {"register", "verify", "reset"}
  BY <1>1 DEF Filled
<1>3. CASE r.page = "register"
  BY <1>1, <1>3, Rows DEF Filled, AskedMail, Account, None
<1>4. CASE r.page = "verify"
  <2>1. r.me \in DOMAIN accounts
    BY <1>4 DEF Authenticated, IndInv
  <2>2. Account(r) = r.me /\ r.me \in 0 .. Len(accounts) /\ r.me # None
    BY <1>1, <1>4, <2>1, Rows DEF Account, None
  <2>3. accounts[r.me].mail \in Mailboxes
    BY <1>1, <2>1, Rows DEF Row
  <2>4. AskedMail(r) \in Mailboxes
    BY <1>1, <1>4, <2>2, <2>3 DEF AskedMail, Filled
  <2> QED BY <1>1, <1>4, <2>1, <2>2, <2>4 DEF Filled
<1>5. CASE r.page = "reset"
  <2>1. Account(r) = RowWith("sid", r.address) /\ Account(r) \in 0 .. Len(accounts)
    BY <1>1, <1>5, RowWithIsRow DEF Account
  <2>2. Account(r) # None /\ AskedMail(r) = accounts[Account(r)].mail
    BY <1>5 DEF AskedMail
  <2>3. accounts[Account(r)].mail \in Mailboxes
    BY <1>1, <2>1, <2>2, Rows DEF Row, None
  <2> QED BY <1>1, <1>5, <2>1, <2>2, <2>3 DEF Filled
<1> QED BY <1>2, <1>3, <1>4, <1>5

LEMMA ArriveKeeps ==
    ASSUME IndInv, NEW r \in wire, Arrive(r)
    PROVE  IndInv'
<1>1. StateTypes /\ RequestsRefer
  BY DEF IndInv
<1>2. /\ r.stage = "sent" /\ r.kind \in {"code", "register", "verify", "check", "reset"}
      /\ UNCHANGED <<scenario, now, accounts, codes, sessions, inbox, form, clicks, tokens>>
  BY DEF Arrive, rows
<1>3. r \in RequestRecord /\ r.row \in Nat /\ r.row <= Len(codes) /\ now \in Nat
      /\ inbox \subseteq DOMAIN codes
  BY <1>1, Rows DEF StateTypes, RequestRecord, RequestsRefer
<1>4. CASE Answer(r, "rejected") \/ Answer(r, "refused")
  BY <1>2, <1>3, <1>4, AnswerKeeps DEF Answers
<1>5. CASE /\ r.page = "verify" => Authenticated(r)
           /\ AskedMail(r) # Untyped /\ wire' = (wire \ {r}) \cup {Arrived(r)}
  <2> PICK mail : mail = AskedMail(r)
    OBVIOUS
  <2> PICK acct : acct = Account(r)
    OBVIOUS
  <2> PICK address : address = IF r.kind = "verify" /\ mail # accounts[r.me].mail
                               THEN mail ELSE Untyped
    OBVIOUS
  <2>1. /\ mail \in Mailboxes /\ acct \in 0 .. Len(accounts)
        /\ r.kind = "register" => r.sid \in StudentIds
        /\ r.kind = "verify" => r.me # None
        /\ r.kind = "reset" => acct # None
    BY <1>2, <1>5, AskedIsMailbox
  <2> PICK q : q = [r EXCEPT !.stage = "arrived", !.at = now, !.mail = mail, !.acct = acct,
                             !.address = address]
    OBVIOUS
  <2>2. acct \in Nat /\ address \in Texts /\ "arrived" \in Stages
    BY <1>1, <2>1, Rows DEF Texts, Stages
  <2>3. /\ q \in RequestRecord /\ q.stage = "arrived" /\ q.at = now /\ q.mail = mail
        /\ q.acct = acct /\ q.address = address
        /\ q.kind = r.kind /\ q.person = r.person /\ q.me = r.me /\ q.code = r.code
        /\ q.sid = r.sid /\ q.token = r.token /\ q.row = r.row
    BY <1>3, <2>1, <2>2 DEF RequestRecord
  <2>4. wire' = (wire \ {r}) \cup {q}
    BY <1>5 DEF Arrived
  <2>5. Replaces(q, r)
    BY <1>1, <1>2, <1>3, <2>1, <2>3, <2>4, Rows DEF Replaces
  <2>6. Checked(q)
    <3>1. r.row = None
      BY <1>2 DEF IndInv, Filled
    <3>2. r.kind = "verify" => AddressRead(q)
      BY <1>5, <2>3 DEF AddressRead
    <3>3. q.at <= now
      BY <1>3, <2>3
    <3> QED BY <2>1, <2>3, <3>1, <3>2, <3>3 DEF Checked, Read, Found
  <2> QED BY <1>2, <2>3, <2>5, <2>6, MovesKeeps
<1> QED BY <1>4, <1>5 DEF Arrive

LEMMA CheckCodeRequestKeeps ==
    ASSUME IndInv, NEW r \in wire, CheckCodeRequest(r)
    PROVE  IndInv'
<1>1. StateTypes /\ RequestsRefer /\ CodesCounted /\ Checked(r)
  BY DEF IndInv
<1>2. /\ r.kind = "code" /\ r.stage = "arrived" /\ CodeLockFree
      /\ UNCHANGED <<scenario, now, accounts, codes, sessions, inbox, form, clicks, tokens>>
  BY DEF CheckCodeRequest, rows
<1>3. /\ r \in RequestRecord /\ r.me \in Nat /\ r.me <= Len(accounts)
      /\ r.at \in Nat /\ inbox \subseteq DOMAIN codes
  BY <1>1 DEF StateTypes, RequestRecord, RequestsRefer
<1>4. CASE Answer(r, "refused")
  BY <1>2, <1>3, <1>4, AnswerKeeps DEF Answers
<1>5. CASE Issuable(r) /\ Hold(r, r.mail, Requester(r), None)
  <2>1. r.mail \in Mailboxes /\ r.at <= now
    BY <1>1, <1>2 DEF Checked, Read
  <2>2. Requester(r) \in 0 .. Len(accounts)
    BY <1>1, <1>3, Rows DEF Requester, None
  <2>3. Spared(r.mail, r.at)
    <3> PICK mail, at : mail = r.mail /\ at = r.at
      OBVIOUS
    <3> DEFINE before == {j \in DOMAIN codes : codes[j].mail = mail}
    <3>1. ~TooSoon(r, "mail", mail) /\ at = r.at /\ at \in Nat
      BY <1>3, <1>5 DEF Issuable
    <3>2. \A k \in DOMAIN codes : codes[k].at \in Nat
      BY <1>1, Rows DEF CodeRow
    <3>3. Recent(r, "mail", mail) = {j \in before : codes[j].at > at - Window}
      BY <3>1 DEF Recent
    <3>4. \A j \in before : at - codes[j].at >= Cooldown
      <4> SUFFICES ASSUME NEW j \in before PROVE at - codes[j].at >= Cooldown
        OBVIOUS
      <4>1. CASE codes[j].at > at - Window
        BY <3>1, <3>2, <3>3, <4>1, Numbers DEF TooSoon
      <4>2. CASE ~(codes[j].at > at - Window)
        BY <3>1, <3>2, <4>2, Numbers
      <4> QED BY <4>1, <4>2
    <3>5. ~(Cardinality(Recent(r, "mail", mail)) >= MaxCodesPerEmail)
      BY <3>1 DEF TooSoon
    <3>6. Cardinality(Recent(r, "mail", mail)) \in Nat
      <4>1. IsFiniteSet(DOMAIN codes)
        BY <1>1, Rows, FS_Interval
      <4> QED BY <4>1, FS_Subset, FS_CardinalityType DEF Recent
    <3>7. Cardinality({j \in before : codes[j].at > at - Window}) < MaxCodesPerEmail
      <4>1. \A m, n \in Nat : ~(m >= n) => m < n
        OBVIOUS
      <4>2. Cardinality(Recent(r, "mail", mail)) < MaxCodesPerEmail
        BY <3>5, <3>6, <4>1, Numbers
      <4> QED BY <3>3, <4>2
    <3>8. Spared(mail, at)
      BY <3>4, <3>7 DEF Spared
    <3> QED BY <3>8
  <2>4. None \in 0 .. Len(codes) /\ None \in Nat
    BY <1>1, Rows DEF None
  <2> PICK acct : acct = Requester(r)
    OBVIOUS
  <2>5. Checked(Holding(r, r.mail, acct, None))
    <3> PICK q : q = Holding(r, r.mail, acct, None)
      OBVIOUS
    <3>1. q.kind = "code" /\ q.mail = r.mail /\ q.at = r.at /\ q.stage = "checked"
      BY <1>2, <1>3, <2>2 DEF Holding, RequestRecord
    <3> QED BY <2>1, <2>3, <3>1 DEF Checked, Read, Found
  <2> QED BY <1>2, <1>5, <2>1, <2>2, <2>4, <2>5, HoldKeeps
<1> QED BY <1>4, <1>5 DEF CheckCodeRequest

LEMMA SendMailKeeps ==
    ASSUME IndInv, NEW r \in wire, SendMail(r)
    PROVE  IndInv'
<1>1. PICK result \in {"ok", "refused"} : Answer(r, result)
  BY DEF SendMail
<1>2. UNCHANGED <<scenario, now, accounts, codes, sessions, form, clicks, tokens>>
  BY DEF SendMail, rows
<1>3. StateTypes /\ RequestsRefer
  BY DEF IndInv
<1>4. PICK arrived \in {{}, {r.row}} : inbox' = inbox \cup arrived
  BY DEF SendMail
<1>5. r.row \in DOMAIN codes
  BY <1>3, Rows DEF SendMail, RequestsRefer, StateTypes, RequestRecord, None
<1>6. inbox' \subseteq DOMAIN codes
  BY <1>3, <1>4, <1>5 DEF StateTypes
<1> QED BY <1>1, <1>2, <1>6, AnswerKeeps DEF Answers

LEMMA LoseKeeps ==
    ASSUME IndInv, NEW r \in wire, Lose(r)
    PROVE  IndInv'
<1>1. StateTypes
  BY DEF IndInv
<1>2. UNCHANGED <<scenario, now, accounts, codes, sessions, inbox, form, clicks, tokens>>
  BY DEF Lose, rows
<1>3. Answer(r, "refused") /\ inbox' \subseteq DOMAIN codes
  BY <1>1, <1>2 DEF Lose, StateTypes
<1> QED BY <1>2, <1>3, AnswerKeeps DEF Answers

-----------------------------------------------------------------------------
(* Codes *)

\* A change of one row that leaves its mailbox and its time alone.
LEMMA RowChanges ==
    ASSUME StateTypes, CodesCounted, MailboxSpared, now' = now,
           NEW k \in DOMAIN codes, NEW row \in CodeRow,
           codes' = [codes EXCEPT ![k] = row],
           row.mail = codes[k].mail, row.at = codes[k].at,
           row.guesses = row.attempts, row.attempts <= MaxAttempts,
           row.uses = IF row.used THEN 1 ELSE 0
    PROVE  /\ codes' \in Seq(CodeRow) /\ Len(codes') = Len(codes)
           /\ DOMAIN codes' = DOMAIN codes
           /\ \A j \in DOMAIN codes : codes'[j] = IF j = k THEN row ELSE codes[j]
           /\ CodesCounted' /\ MailboxSpared'
<1>1. /\ codes' \in Seq(CodeRow) /\ Len(codes') = Len(codes)
      /\ DOMAIN codes' = DOMAIN codes
      /\ \A j \in DOMAIN codes : codes'[j] = IF j = k THEN row ELSE codes[j]
  BY Rows, Replaced DEF StateTypes
<1>2. CodesCounted'
  BY <1>1 DEF CodesCounted
<1>3. \A j \in DOMAIN codes : codes'[j].mail = codes[j].mail /\ codes'[j].at = codes[j].at
  BY <1>1
<1>4. MailboxSpared'
  <2> SUFFICES ASSUME NEW i \in DOMAIN codes
               PROVE  LET before == {j \in 1 .. i - 1 : codes'[j].mail = codes'[i].mail}
                      IN  /\ \A j \in before : codes'[i].at - codes'[j].at >= Cooldown
                          /\ Cardinality({j \in before : codes'[j].at > codes'[i].at - Window})
                                < MaxCodesPerEmail
    BY <1>1 DEF MailboxSpared
  <2> DEFINE before == {j \in 1 .. i - 1 : codes[j].mail = codes[i].mail}
             later == {j \in 1 .. i - 1 : codes'[j].mail = codes'[i].mail}
  <2>1. \A j \in 1 .. i - 1 : j \in DOMAIN codes
    BY Rows
  <2>2. later = before
    BY <1>3, <2>1
  <2>3. {j \in later : codes'[j].at > codes'[i].at - Window}
           = {j \in before : codes[j].at > codes[i].at - Window}
    BY <1>3, <2>1, <2>2
  <2>4. \A j \in later : codes'[i].at - codes'[j].at >= Cooldown
    BY <1>3, <2>1, <2>2 DEF MailboxSpared
  <2>5. Cardinality({j \in before : codes[j].at > codes[i].at - Window}) < MaxCodesPerEmail
    BY DEF MailboxSpared
  <2> QED BY <2>3, <2>4, <2>5
<1> QED BY <1>1, <1>2, <1>4

LEMMA IssueCodeKeeps ==
    ASSUME IndInv, NEW r \in wire, IssueCode(r)
    PROVE  IndInv'
<1>1. StateTypes /\ RequestsRefer /\ Checked(r) /\ CodesCounted /\ MailboxSpared
  BY DEF IndInv
<1>2. /\ r.kind = "code" /\ r.stage = "checked"
      /\ UNCHANGED <<scenario, now, accounts, sessions, inbox, form, clicks, tokens>>
  BY DEF IssueCode
<1>3. r \in RequestRecord /\ r.acct \in Nat /\ r.at \in Nat /\ None \in Nat
  BY <1>1 DEF StateTypes, RequestRecord, None
<1>4. r.mail \in Mailboxes /\ r.at <= now /\ Spared(r.mail, r.at)
  BY <1>1, <1>2 DEF Checked, Found
<1> PICK row : row = [mail |-> r.mail, purpose |-> Purpose(r),
                      by |-> r.acct, at |-> r.at, attempts |-> 0, used |-> FALSE,
                      guesses |-> 0, uses |-> 0]
  OBVIOUS
<1>5. /\ row \in CodeRow /\ row.mail = r.mail /\ row.at = r.at
      /\ row.attempts = 0 /\ row.guesses = 0 /\ row.uses = 0 /\ row.used = FALSE
  BY <1>3, <1>4 DEF CodeRow, Purpose
<1>6. codes' = Append(codes, row)
  BY DEF IssueCode
<1>7. /\ codes' \in Seq(CodeRow) /\ Len(codes') = Len(codes) + 1
      /\ \A j \in DOMAIN codes : codes'[j] = codes[j]
      /\ codes'[Len(codes) + 1] = row
      /\ DOMAIN codes = 1 .. Len(codes) /\ DOMAIN codes' = 1 .. Len(codes) + 1
      /\ Len(codes) \in Nat /\ now \in Nat
  <2>1. codes \in Seq(CodeRow)
    BY <1>1 DEF StateTypes
  <2>2. codes' \in Seq(CodeRow) /\ Len(codes') = Len(codes) + 1
        /\ (\A j \in 1 .. Len(codes) : codes'[j] = codes[j])
        /\ codes'[Len(codes) + 1] = row
    BY <1>5, <1>6, <2>1, Appended
  <2>3. DOMAIN codes' = 1 .. Len(codes) + 1
    BY <2>2, LenProperties
  <2> QED BY <1>1, <2>2, <2>3, Rows
<1> PICK w : w = Len(codes) + 1
  OBVIOUS
<1> PICK a : a = Answered(r, "none", None)
  OBVIOUS
<1> DEFINE q == [a EXCEPT !.stage = "mailing", !.row = w]
<1>8. /\ a \in RequestRecord
      /\ a.token = None /\ a.code = None /\ a.acct = None /\ a.me = r.me /\ a.person = r.person
  BY <1>3, AnsweredRecord
<1>9. /\ q \in RequestRecord /\ q.stage = "mailing" /\ q.row = w /\ q.row # None
      /\ q.token = None /\ q.code = None /\ q.acct = None /\ q.me = r.me /\ q.person = r.person
  <2>1. w \in Nat /\ w # None /\ "mailing" \in Stages
    BY <1>7 DEF None, Stages
  <2> QED BY <1>8, <2>1 DEF RequestRecord
<1>10. wire' = (wire \ {r}) \cup {q}
  BY DEF IssueCode
<1> HIDE DEF q
<1>11. Replaces(q, r)
  <2>1. q.acct <= Len(accounts') /\ q.row <= Len(codes')
    BY <1>1, <1>2, <1>7, <1>9, Rows DEF None
  <2> QED BY <1>9, <1>10, <2>1 DEF Replaces
<1>12. TablesGrow(r)
  <2>1. accounts' \in Seq(Row) /\ Len(accounts) <= Len(accounts')
    BY <1>1, <1>2, Rows DEF StateTypes
  <2>2. \A k \in DOMAIN codes : codes[k].used \in BOOLEAN
    BY <1>1, Rows DEF CodeRow
  <2>3. \A k \in DOMAIN codes : codes'[k].used = codes[k].used \/ Holds(r, k)
    BY <1>7
  <2>4. Len(codes) <= Len(codes')
    BY <1>7
  <2> QED BY <1>2, <1>7, <2>1, <2>3, <2>4 DEF TablesGrow, AddressesProven
<1>13. Checked(q)'
  BY <1>9 DEF Checked, Read, Found
<1>14. \A k \in DOMAIN codes' : Holds(q, k) => \A s \in wire : ~Holds(s, k)
  BY <1>9 DEF Holds
<1>15. inbox' \subseteq DOMAIN codes' /\ sessions' \subseteq Session
  BY <1>1, <1>2, <1>7 DEF StateTypes
<1>16. /\ StateTypes' /\ FormsRefer' /\ RequestsRefer'
       /\ (\A s \in wire : Filled(s) /\ Checked(s))'
       /\ LockedOnce' /\ TokensHeld'
  BY <1>2, <1>9, <1>11, <1>12, <1>13, <1>14, <1>15, ServerStep
<1>17. CodesCounted'
  BY <1>1, <1>2, <1>4, <1>5, <1>7, Numbers DEF CodesCounted
<1>18. MailboxSpared'
  <2> SUFFICES ASSUME NEW i \in DOMAIN codes'
               PROVE  LET before == {j \in 1 .. i - 1 : codes'[j].mail = codes'[i].mail}
                      IN  /\ \A j \in before : codes'[i].at - codes'[j].at >= Cooldown
                          /\ Cardinality({j \in before : codes'[j].at > codes'[i].at - Window})
                                < MaxCodesPerEmail
    BY DEF MailboxSpared
  <2> DEFINE before == {j \in 1 .. i - 1 : codes'[j].mail = codes'[i].mail}
             recent == {j \in before : codes'[j].at > codes'[i].at - Window}
  <2>1. \A j \in 1 .. i - 1 : j \in DOMAIN codes /\ codes'[j] = codes[j]
    BY <1>7
  <2>2. CASE i \in DOMAIN codes
    <3> DEFINE earlier == {j \in 1 .. i - 1 : codes[j].mail = codes[i].mail}
    <3>1. codes'[i] = codes[i]
      BY <1>7, <2>2
    <3>2. before = earlier /\ recent = {j \in earlier : codes[j].at > codes[i].at - Window}
      BY <2>1, <3>1
    <3>3. /\ \A j \in earlier : codes[i].at - codes[j].at >= Cooldown
          /\ Cardinality({j \in earlier : codes[j].at > codes[i].at - Window}) < MaxCodesPerEmail
      BY <1>1, <2>2 DEF MailboxSpared
    <3>4. \A j \in before : codes'[i].at - codes'[j].at >= Cooldown
      BY <2>1, <3>1, <3>2, <3>3
    <3> QED BY <3>2, <3>3, <3>4
  <2>3. CASE i \notin DOMAIN codes
    <3> DEFINE earlier == {j \in DOMAIN codes : codes[j].mail = r.mail}
    <3>1. i = Len(codes) + 1 /\ codes'[i] = row /\ 1 .. i - 1 = DOMAIN codes
      BY <1>7, <2>3
    <3>2. before = earlier /\ recent = {j \in earlier : codes[j].at > r.at - Window}
      BY <1>5, <2>1, <3>1
    <3>3. /\ \A j \in earlier : r.at - codes[j].at >= Cooldown
          /\ Cardinality({j \in earlier : codes[j].at > r.at - Window}) < MaxCodesPerEmail
      BY <1>4 DEF Spared
    <3>4. \A j \in before : codes'[i].at - codes'[j].at >= Cooldown
      BY <1>5, <2>1, <3>1, <3>2, <3>3
    <3> QED BY <3>2, <3>3, <3>4
  <2> QED BY <2>2, <2>3
<1>19. (\A s \in sessions : s.acct \in DOMAIN accounts)' /\ SessionsOfThisPassword' /\ MailboxProven'
  BY <1>2 DEF IndInv, SessionsOfThisPassword, MailboxProven
<1> QED BY <1>16, <1>17, <1>18, <1>19 DEF IndInv

\* A wrong code is counted, and nothing else is kept of the request.
LEMMA MissedKeeps ==
    ASSUME IndInv, NEW r \in wire, NEW k \in DOMAIN codes, Usable(r, k),
           codes' = [codes EXCEPT ![k] = Missed(@)], Answer(r, "code"),
           UNCHANGED <<scenario, now, accounts, sessions, inbox, form, clicks, tokens>>
    PROVE  IndInv'
<1>1. StateTypes /\ RequestsRefer /\ CodesCounted /\ MailboxSpared
  BY DEF IndInv
<1>2. r \in RequestRecord /\ r.acct \in Nat /\ r.acct <= Len(accounts)
  BY <1>1 DEF StateTypes, RequestRecord, RequestsRefer
<1>3. /\ codes[k] \in CodeRow /\ codes[k].guesses = codes[k].attempts
      /\ codes[k].attempts < MaxAttempts /\ codes[k].uses = IF codes[k].used THEN 1 ELSE 0
  BY <1>1, Rows DEF CodesCounted, Usable
<1> PICK row : row = Missed(codes[k])
  OBVIOUS
<1>4. /\ row \in CodeRow
      /\ row.attempts = codes[k].attempts + 1 /\ row.guesses = codes[k].guesses + 1
      /\ row.mail = codes[k].mail /\ row.at = codes[k].at
      /\ row.used = codes[k].used /\ row.uses = codes[k].uses
  <2> PICK code : code = codes[k]
    OBVIOUS
  <2>1. code \in CodeRow /\ row = [code EXCEPT !.attempts = code.attempts + 1, !.guesses = code.guesses + 1]
    BY <1>3 DEF Missed
  <2>2. code.attempts + 1 \in Nat /\ code.guesses + 1 \in Nat
    BY <2>1 DEF CodeRow
  <2>3. row \in CodeRow
    BY <2>1, <2>2 DEF CodeRow
  <2>4. /\ row.attempts = code.attempts + 1 /\ row.guesses = code.guesses + 1
        /\ row.mail = code.mail /\ row.at = code.at /\ row.used = code.used /\ row.uses = code.uses
    BY <2>1 DEF CodeRow
  <2> QED BY <2>3, <2>4
<1>5. row.guesses = row.attempts /\ row.attempts <= MaxAttempts
  BY <1>3, <1>4, Numbers DEF CodeRow
<1>6. codes' = [codes EXCEPT ![k] = row]
  BY Rows
<1>7. /\ codes' \in Seq(CodeRow) /\ Len(codes') = Len(codes) /\ DOMAIN codes' = DOMAIN codes
      /\ \A j \in DOMAIN codes : codes'[j] = IF j = k THEN row ELSE codes[j]
      /\ CodesCounted' /\ MailboxSpared'
  BY <1>1, <1>3, <1>4, <1>5, <1>6, RowChanges
<1> PICK q : q = Answered(r, "code", r.acct)
  OBVIOUS
<1>8. /\ q \in RequestRecord
      /\ q.stage = "answered" /\ q.token = None /\ q.code = None /\ q.row = None
      /\ q.acct = r.acct /\ q.me = r.me /\ q.person = r.person
  BY <1>2, AnsweredRecord
<1>9. wire' = (wire \ {r}) \cup {q}
  BY DEF Answer
<1>10. Replaces(q, r)
  BY <1>1, <1>2, <1>7, <1>8, <1>9, Rows DEF Replaces, None
<1>11. TablesGrow(r)
  BY <1>1, <1>4, <1>7, Rows DEF TablesGrow, AddressesProven, StateTypes
<1>12. Checked(q)'
  BY <1>8 DEF Checked, Read, Found
<1>13. \A j \in DOMAIN codes' : Holds(q, j) => \A s \in wire : ~Holds(s, j)
  BY <1>8 DEF Holds
<1>14. inbox' \subseteq DOMAIN codes' /\ sessions' \subseteq Session
  BY <1>1, <1>7 DEF StateTypes
<1>15. /\ StateTypes' /\ FormsRefer' /\ RequestsRefer'
       /\ (\A s \in wire : Filled(s) /\ Checked(s))'
       /\ LockedOnce' /\ TokensHeld'
  BY <1>8, <1>10, <1>11, <1>12, <1>13, <1>14, ServerStep
<1>16. (\A s \in sessions : s.acct \in DOMAIN accounts)' /\ SessionsOfThisPassword' /\ MailboxProven'
  BY DEF IndInv, SessionsOfThisPassword, MailboxProven
<1> QED BY <1>7, <1>15, <1>16 DEF IndInv

-----------------------------------------------------------------------------
(* Submitted forms: what the first step of a transaction finds *)

\* A request that goes on, with the lock on its code.
LEMMA FoundKeeps ==
    ASSUME IndInv, NEW r \in wire, r.kind # "code",
           NEW mail \in Mailboxes \cup {Untyped}, NEW acct \in 0 .. Len(accounts),
           NEW row \in 0 .. Len(codes), Hold(r, mail, acct, row),
           UNCHANGED <<scenario, now, accounts, codes, sessions, inbox, form, clicks, tokens>>,
           row # None => RowFree(row) /\ ~codes[row].used,
           r.kind = "register" => /\ mail \in Mailboxes /\ r.sid \in StudentIds
                                  /\ row # None => Reader[mail] = r.person,
           r.kind = "verify" => /\ r.me # None /\ mail \in Mailboxes /\ Reader[mail] = r.person
                                /\ mail = r.mail /\ AddressRead(r),
           r.kind \in {"reset", "login"} => acct # None
    PROVE  IndInv'
<1>1. StateTypes
  BY DEF IndInv
<1>2. r \in RequestRecord /\ acct \in Nat /\ row \in Nat /\ now \in Nat
  BY <1>1, Rows DEF StateTypes
<1> PICK q : q = Holding(r, mail, acct, row)
  OBVIOUS
<1>3. /\ q.stage = "checked" /\ q.mail = mail /\ q.acct = acct /\ q.row = row
      /\ q.sid = r.sid /\ q.me = r.me /\ q.person = r.person /\ q.kind = r.kind
      /\ q.address = r.address
  BY <1>2, SMTT(30) DEF Holding, RequestRecord
<1>4. Checked(q)
  BY <1>3 DEF Checked, Read, Found, AddressRead
<1> QED BY <1>4, HoldKeeps

LEMMA PickedIsOfMailbox ==
    ASSUME IndInv, NEW r \in wire, r.stage = "arrived"
    PROVE  /\ Picked(r) \in 0 .. Len(codes)
           /\ Picked(r) # None => /\ Picked(r) \in DOMAIN codes /\ Picked(r) > 0
                                  /\ codes[Picked(r)].mail = r.mail
<1>1. StateTypes /\ RequestsRefer /\ Checked(r)
  BY DEF IndInv
<1>2. r.row \in 0 .. Len(codes)
  BY <1>1, Rows DEF StateTypes, RequestsRefer, RequestRecord
<1>3. Latest(r.mail) \in 0 .. Len(codes)
      /\ (Latest(r.mail) # None => codes[Latest(r.mail)].mail = r.mail)
  BY <1>1, LatestIsOfMailbox
<1>4. r.row # None => codes[r.row].mail = r.mail
  BY <1>1 DEF Checked, Read
<1>5. Picked(r) \in 0 .. Len(codes) /\ (Picked(r) # None => codes[Picked(r)].mail = r.mail)
  BY <1>2, <1>3, <1>4 DEF Picked
<1> QED BY <1>1, <1>5, Rows DEF None

\* The right code belongs to the mailbox, and so does who enters it.
LEMMA EnteredByReader ==
    ASSUME IndInv, NEW r \in wire, r.stage = "arrived", Usable(r, Picked(r)), r.code = Picked(r)
    PROVE  Reader[r.mail] = r.person /\ ~codes[Picked(r)].used
<1>1. /\ Picked(r) \in DOMAIN codes /\ Picked(r) > 0 /\ codes[Picked(r)].mail = r.mail
      /\ ~codes[Picked(r)].used
  BY PickedIsOfMailbox DEF Usable
<1>2. Readable(r.code, r.person)
  BY DEF IndInv, RequestsRefer
<1> QED BY <1>1, <1>2 DEF Readable

\* A wrong code, or one that does not count.
LEMMA FailedKeeps ==
    ASSUME IndInv, NEW r \in wire, NEW k \in 0 .. Len(codes), Answer(r, "code"),
           codes' = IF Usable(r, k) THEN [codes EXCEPT ![k] = Missed(@)] ELSE codes,
           UNCHANGED <<scenario, now, accounts, sessions, inbox, form, clicks, tokens>>
    PROVE  IndInv'
<1>1. StateTypes
  BY DEF IndInv
<1>2. CASE Usable(r, k)
  <2>1. k \in DOMAIN codes
    BY <1>1, <1>2, Rows DEF Usable, None
  <2> QED BY <1>2, <2>1, MissedKeeps
<1>3. CASE ~Usable(r, k)
  <2>1. UNCHANGED codes /\ inbox' \subseteq DOMAIN codes
    BY <1>1, <1>3 DEF StateTypes
  <2> QED BY <2>1, AnswerKeeps DEF Answers
<1> QED BY <1>2, <1>3

\* What consume_code decides: the right code, or no code at all.
LEMMA ConsumeDecides ==
    ASSUME IndInv, NEW r \in wire, NEW then, Consume(r, then),
           UNCHANGED <<scenario, now, accounts, sessions, inbox, form, clicks, tokens>>
    PROVE  \/ IndInv'
           \/ /\ then /\ UNCHANGED codes /\ Checked(r) /\ r.stage = "arrived"
              /\ r.mail \in Mailboxes /\ Reader[r.mail] = r.person
              /\ Picked(r) \in 0 .. Len(codes)
              /\ Picked(r) # None => RowFree(Picked(r)) /\ ~codes[Picked(r)].used
<1>1. r.stage = "arrived" /\ Checked(r)
  BY DEF Consume, IndInv
<1>2. Picked(r) \in 0 .. Len(codes) /\ r.mail \in Mailboxes
  BY <1>1, PickedIsOfMailbox DEF Checked, Read
<1>3. CASE Usable(r, Picked(r)) /\ r.code = Picked(r)
  <2>1. then /\ UNCHANGED codes /\ (Picked(r) # None => RowFree(Picked(r)))
    BY <1>3 DEF Consume
  <2> QED BY <1>1, <1>2, <1>3, <2>1, EnteredByReader
<1>4. CASE ~(Usable(r, Picked(r)) /\ r.code = Picked(r))
  <2>1. /\ Answer(r, "code")
        /\ codes' = IF Usable(r, Picked(r)) THEN [codes EXCEPT ![Picked(r)] = Missed(@)] ELSE codes
    BY <1>4 DEF Consume
  <2> QED BY <1>2, <2>1, FailedKeeps
<1> QED BY <1>3, <1>4

\* A request waits for the row that it picked.
LEMMA WaitForRowKeeps ==
    ASSUME IndInv, NEW r \in wire, WaitForRow(r)
    PROVE  IndInv'
<1>1. StateTypes /\ RequestsRefer /\ Checked(r)
  BY DEF IndInv
<1>2. /\ r.stage = "arrived"
      /\ UNCHANGED <<scenario, now, accounts, codes, sessions, inbox, form, clicks, tokens>>
  BY DEF WaitForRow, rows
<1> PICK k : k = Picked(r)
  OBVIOUS
<1>3. k \in 0 .. Len(codes) /\ k \in Nat /\ k <= Len(codes) /\ (k # None => codes[k].mail = r.mail)
  BY <1>1, <1>2, PickedIsOfMailbox, Rows
<1>4. r \in RequestRecord /\ r.acct \in Nat /\ r.acct <= Len(accounts)
  BY <1>1 DEF StateTypes, RequestRecord, RequestsRefer
<1> PICK q : q = [r EXCEPT !.row = k]
  OBVIOUS
<1>5. /\ q \in RequestRecord /\ q.stage = r.stage /\ q.at = r.at /\ q.mail = r.mail
      /\ q.acct = r.acct /\ q.address = r.address
      /\ q.kind = r.kind /\ q.person = r.person /\ q.me = r.me /\ q.code = r.code
      /\ q.sid = r.sid /\ q.token = r.token /\ q.row = k
  BY <1>3, <1>4 DEF RequestRecord
<1>6. wire' = (wire \ {r}) \cup {q}
  BY DEF WaitForRow
<1>7. Replaces(q, r)
  BY <1>2, <1>3, <1>4, <1>5, <1>6 DEF Replaces
<1>8. Checked(q)
  BY <1>1, <1>2, <1>3, <1>5 DEF Checked, Read, Found, AddressRead
<1> QED BY <1>2, <1>5, <1>7, <1>8, MovesKeeps

\* A request that is answered without a change.
LEMMA GoneKeeps ==
    ASSUME IndInv, NEW r \in wire, NEW result \in Answers, Answer(r, result),
           UNCHANGED <<scenario, now, accounts, codes, sessions, inbox, form, clicks, tokens>>
    PROVE  IndInv'
<1>1. inbox' \subseteq DOMAIN codes
  BY DEF IndInv, StateTypes
<1> QED BY <1>1, AnswerKeeps

LEMMA CheckRegisterKeeps ==
    ASSUME IndInv, NEW r \in wire, CheckRegister(r),
           UNCHANGED <<scenario, now, accounts, sessions, inbox, form, clicks, tokens>>
    PROVE  IndInv'
<1>1. StateTypes /\ Filled(r)
  BY DEF IndInv
<1>2. r.kind = "register" /\ None \in 0 .. Len(accounts) /\ None \in 0 .. Len(codes)
  BY <1>1, Rows DEF CheckRegister, None
<1> DEFINE Unique(mail, row) ==
               IF Free(mail, r.sid, None) THEN Hold(r, mail, None, row) ELSE Answer(r, "refused")
<1>3. \/ Consume(r, Unique(r.mail, Picked(r)))
      \/ /\ r.stage = "sent" /\ UNCHANGED codes
         /\ Answer(r, "code") \/ Unique(r.address, None)
  BY DEF CheckRegister
<1>4. ASSUME NEW mail \in Mailboxes, NEW row \in 0 .. Len(codes), Unique(mail, row),
             UNCHANGED codes, r.sid \in StudentIds,
             row # None => RowFree(row) /\ ~codes[row].used /\ Reader[mail] = r.person
      PROVE  IndInv'
  <2>1. CASE Answer(r, "refused")
    BY <1>4, <2>1, GoneKeeps DEF Answers
  <2>2. CASE Hold(r, mail, None, row)
    BY <1>2, <1>4, <2>2, FoundKeeps
  <2> QED BY <1>4, <2>1, <2>2
<1> HIDE DEF Unique
<1>5. CASE Consume(r, Unique(r.mail, Picked(r)))
  <2>1. \/ IndInv'
        \/ /\ Unique(r.mail, Picked(r)) /\ UNCHANGED codes /\ Checked(r) /\ r.stage = "arrived"
           /\ r.mail \in Mailboxes /\ Reader[r.mail] = r.person
           /\ Picked(r) \in 0 .. Len(codes)
           /\ Picked(r) # None => RowFree(Picked(r)) /\ ~codes[Picked(r)].used
    BY <1>5, ConsumeDecides
  <2>2. Checked(r) /\ r.stage = "arrived" => r.sid \in StudentIds
    BY <1>2 DEF Checked, Read
  <2> QED BY <1>4, <2>1, <2>2
<1>6. CASE /\ r.stage = "sent" /\ UNCHANGED codes
           /\ Answer(r, "code") \/ Unique(r.address, None)
  <2>1. r.address \in Mailboxes /\ r.sid \in StudentIds
    BY <1>1, <1>2, <1>6 DEF Filled
  <2>2. CASE Answer(r, "code")
    BY <1>6, <2>2, GoneKeeps DEF Answers
  <2>3. CASE Unique(r.address, None)
    BY <1>2, <1>4, <1>6, <2>1, <2>3
  <2> QED BY <1>6, <2>2, <2>3
<1> QED BY <1>3, <1>5, <1>6

LEMMA CheckVerifyKeeps ==
    ASSUME IndInv, NEW r \in wire, CheckVerify(r),
           UNCHANGED <<scenario, now, accounts, sessions, inbox, form, clicks, tokens>>
    PROVE  IndInv'
<1>1. StateTypes /\ RequestsRefer
  BY DEF IndInv
<1> DEFINE Unique == IF Free(r.mail, Untyped, r.me) THEN Hold(r, r.mail, r.me, Picked(r))
                     ELSE Answer(r, "refused")
<1>2. r.kind = "verify" /\ Consume(r, Unique) /\ r.me \in 0 .. Len(accounts)
  BY <1>1, Rows DEF CheckVerify, StateTypes, RequestsRefer, RequestRecord
<1> HIDE DEF Unique
<1>3. \/ IndInv'
      \/ /\ Unique /\ UNCHANGED codes /\ Checked(r) /\ r.stage = "arrived"
         /\ r.mail \in Mailboxes /\ Reader[r.mail] = r.person
         /\ Picked(r) \in 0 .. Len(codes)
         /\ Picked(r) # None => RowFree(Picked(r)) /\ ~codes[Picked(r)].used
  BY <1>2, ConsumeDecides
<1>4. CASE /\ Unique /\ UNCHANGED codes /\ Checked(r) /\ r.stage = "arrived"
           /\ r.mail \in Mailboxes /\ Reader[r.mail] = r.person
           /\ Picked(r) \in 0 .. Len(codes)
           /\ Picked(r) # None => RowFree(Picked(r)) /\ ~codes[Picked(r)].used
  <2>1. r.me # None /\ AddressRead(r)
    BY <1>2, <1>4 DEF Checked, Read
  <2>2. Answer(r, "refused") \/ Hold(r, r.mail, r.me, Picked(r))
    BY <1>4 DEF Unique
  <2>3. CASE Answer(r, "refused")
    BY <1>4, <2>3, GoneKeeps DEF Answers
  <2>4. CASE Hold(r, r.mail, r.me, Picked(r))
    BY <1>2, <1>4, <2>1, <2>4, FoundKeeps
  <2> QED BY <2>2, <2>3, <2>4
<1> QED BY <1>3, <1>4

LEMMA CheckResetKeeps ==
    ASSUME IndInv, NEW r \in wire, CheckResetCode(r) \/ CheckReset(r),
           UNCHANGED <<scenario, now, accounts, sessions, inbox, form, clicks, tokens>>
    PROVE  IndInv'
<1>1. StateTypes /\ RequestsRefer
  BY DEF IndInv
<1>2. r.acct \in 0 .. Len(accounts)
  BY <1>1, Rows DEF StateTypes, RequestsRefer, RequestRecord
<1>3. CASE CheckResetCode(r)
  <2>1. Consume(r, Answer(r, "ok"))
    BY <1>3 DEF CheckResetCode
  <2>2. IndInv' \/ (Answer(r, "ok") /\ UNCHANGED codes)
    BY <2>1, ConsumeDecides
  <2> QED BY <2>2, GoneKeeps DEF Answers
<1>4. CASE CheckReset(r)
  <2>1. r.kind = "reset" /\ Consume(r, Hold(r, r.mail, r.acct, Picked(r)))
    BY <1>4 DEF CheckReset
  <2>2. \/ IndInv'
        \/ /\ Hold(r, r.mail, r.acct, Picked(r)) /\ UNCHANGED codes
           /\ Checked(r) /\ r.stage = "arrived" /\ r.mail \in Mailboxes
           /\ Picked(r) \in 0 .. Len(codes)
           /\ Picked(r) # None => RowFree(Picked(r)) /\ ~codes[Picked(r)].used
    BY <2>1, ConsumeDecides
  <2>3. Checked(r) /\ r.stage = "arrived" => r.acct # None
    BY <2>1 DEF Checked, Read
  <2> QED BY <1>2, <2>1, <2>2, <2>3, FoundKeeps
<1> QED BY <1>3, <1>4

LEMMA CheckLoginKeeps ==
    ASSUME IndInv, NEW r \in wire, CheckLogin(r),
           UNCHANGED <<scenario, now, accounts, sessions, inbox, form, clicks, tokens>>
    PROVE  IndInv'
<1>1. StateTypes
  BY DEF IndInv
<1> PICK a : a = RowWith("sid", r.address)
  OBVIOUS
<1>2. r.kind = "login" /\ UNCHANGED codes /\ None \in 0 .. Len(codes)
  BY <1>1, Rows DEF CheckLogin, None
<1>3. CASE Answer(r, "refused")
  BY <1>2, <1>3, GoneKeeps DEF Answers
<1>4. CASE Hold(r, Untyped, a, None) /\ a # None
  <2>1. a \in 0 .. Len(accounts)
    BY <1>1, RowWithIsRow
  <2> QED BY <1>2, <1>4, <2>1, FoundKeeps
<1> QED BY <1>3, <1>4 DEF CheckLogin

LEMMA CheckKeeps ==
    ASSUME IndInv, NEW r \in wire, Check(r)
    PROVE  IndInv'
BY CheckRegisterKeeps, CheckVerifyKeeps, CheckResetKeeps, CheckLoginKeeps DEF Check

-----------------------------------------------------------------------------
(* Submitted forms: what the second step commits *)

LEMMA UseCounts ==
    ASSUME IndInv, NEW r \in wire, r.stage = "checked", r.kind # "code", Use(r.row), now' = now
    PROVE  /\ codes' \in Seq(CodeRow) /\ Len(codes') = Len(codes)
           /\ \A k \in DOMAIN codes :
                 /\ codes'[k].mail = codes[k].mail /\ codes'[k].at = codes[k].at
                 /\ codes'[k].used = codes[k].used \/ Holds(r, k)
           /\ CodesCounted' /\ MailboxSpared'
<1>1. StateTypes /\ RequestsRefer /\ CodesCounted /\ MailboxSpared /\ Checked(r)
  BY DEF IndInv
<1>2. CASE r.row = None
  BY <1>1, <1>2 DEF Use, StateTypes, CodesCounted, MailboxSpared
<1>3. CASE r.row # None
  <2> PICK k : k = r.row
    OBVIOUS
  <2>1. k \in DOMAIN codes
    BY <1>1, <1>3, Rows DEF RequestsRefer, StateTypes, RequestRecord, None
  <2> PICK code : code = codes[k]
    OBVIOUS
  <2>2. code \in CodeRow /\ ~code.used /\ code.uses = 0 /\ code.guesses = code.attempts
        /\ code.attempts <= MaxAttempts
    BY <1>1, <1>3, <2>1, Rows DEF Checked, Found, CodesCounted
  <2> PICK row : row = [code EXCEPT !.used = TRUE, !.uses = 1]
    OBVIOUS
  <2>3. /\ row \in CodeRow /\ row.mail = code.mail /\ row.at = code.at
        /\ row.attempts = code.attempts /\ row.guesses = code.guesses
        /\ row.used = TRUE /\ row.uses = 1
    BY <2>2 DEF CodeRow
  <2>4. codes' = [codes EXCEPT ![k] = row]
    <3>1. codes' = [codes EXCEPT ![k] = [[codes[k] EXCEPT !.used = TRUE] EXCEPT !.uses = codes[k].uses + 1]]
      BY <1>1, <1>3, <2>1, <2>2, Rows DEF Use, CodeRow
    <3>2. [[code EXCEPT !.used = TRUE] EXCEPT !.uses = code.uses + 1] = row
      BY <2>2 DEF CodeRow
    <3> QED BY <3>1, <3>2
  <2>5. /\ codes' \in Seq(CodeRow) /\ Len(codes') = Len(codes)
        /\ \A j \in DOMAIN codes : codes'[j] = IF j = k THEN row ELSE codes[j]
        /\ CodesCounted' /\ MailboxSpared'
    <3>1. /\ row.mail = codes[k].mail /\ row.at = codes[k].at
          /\ row.guesses = row.attempts /\ row.attempts <= MaxAttempts
          /\ row.uses = IF row.used THEN 1 ELSE 0
      BY <2>2, <2>3
    <3> QED BY <1>1, <2>1, <2>3, <2>4, <3>1, RowChanges, ZenonT(40)
  <2>6. Holds(r, k)
    BY DEF Holds
  <2> QED BY <2>3, <2>5, <2>6
<1> QED BY <1>2, <1>3

\* What a commit leaves is good if the tables are.
LEMMA CommitKeeps ==
    ASSUME IndInv, NEW r \in wire, NEW result \in Answers, NEW acct \in 0 .. Len(accounts'),
           wire' = (wire \ {r}) \cup {Answered(r, result, acct)},
           UNCHANGED <<scenario, now, inbox, form, clicks, tokens>>,
           accounts' \in Seq(Row), Len(accounts) <= Len(accounts'), AddressesProven,
           codes' \in Seq(CodeRow), Len(codes') = Len(codes),
           \A k \in DOMAIN codes :
               /\ codes'[k].mail = codes[k].mail /\ codes'[k].at = codes[k].at
               /\ codes'[k].used = codes[k].used \/ Holds(r, k),
           CodesCounted', MailboxSpared',
           sessions' \subseteq Session, \A s \in sessions' : s.acct \in DOMAIN accounts',
           SessionsOfThisPassword', MailboxProven'
    PROVE  IndInv'
<1>1. StateTypes /\ RequestsRefer
  BY DEF IndInv
<1> PICK q : q = Answered(r, result, acct)
  OBVIOUS
<1>2. Len(accounts') \in Nat /\ Len(codes') \in Nat /\ DOMAIN codes' = DOMAIN codes
  BY <1>1, LenProperties, Rows
<1>3. /\ q \in RequestRecord
      /\ q.stage = "answered" /\ q.token = None /\ q.code = None /\ q.row = None
      /\ q.acct = acct /\ q.me = r.me /\ q.person = r.person
  <2>1. r \in RequestRecord /\ acct \in Nat
    BY <1>1, <1>2 DEF StateTypes
  <2> QED BY <2>1, AnsweredRecord, ZenonT(40) DEF Answers
<1>4. Replaces(q, r)
  BY <1>2, <1>3 DEF Replaces, None
<1>5. TablesGrow(r)
  BY <1>1, Rows DEF TablesGrow
<1>6. Checked(q)'
  BY <1>3 DEF Checked, Read, Found
<1>7. \A k \in DOMAIN codes' : Holds(q, k) => \A s \in wire : ~Holds(s, k)
  BY <1>3 DEF Holds
<1>8. inbox' \subseteq DOMAIN codes'
  BY <1>1, <1>2 DEF StateTypes
<1>9. /\ StateTypes' /\ FormsRefer' /\ RequestsRefer'
      /\ (\A s \in wire : Filled(s) /\ Checked(s))'
      /\ LockedOnce' /\ TokensHeld'
  BY <1>3, <1>4, <1>5, <1>6, <1>7, <1>8, ServerStep
<1> QED BY <1>9 DEF IndInv

LEMMA CommitRegisterKeeps ==
    ASSUME IndInv, NEW r \in wire, r.stage = "checked", CommitRegister(r),
           UNCHANGED <<scenario, now, inbox, form, clicks, tokens>>
    PROVE  IndInv'
<1>1. StateTypes /\ Checked(r) /\ MailboxProven /\ SessionsOfThisPassword
      /\ \A s \in sessions : s.acct \in DOMAIN accounts
  BY DEF IndInv
<1>2. r.kind = "register" /\ r \in RequestRecord /\ r.person \in Persons
  BY <1>1 DEF CommitRegister, StateTypes, RequestRecord
<1>3. CASE Answer(r, "refused") /\ UNCHANGED rows
  BY <1>3, GoneKeeps DEF rows, Answers
<1>4. CASE /\ Free(r.mail, r.sid, None) /\ Use(r.row)
           /\ accounts' = Append(accounts,
                  [mail |-> r.mail, sid |-> r.sid, via |-> IF r.row = None THEN "none" ELSE "email",
                   pws |-> <<r.person>>, provenBy |-> r.person])
           /\ sessions' = sessions \cup {Token(Len(accounts) + 1, 1, r.person)}
           /\ wire' = (wire \ {r}) \cup {Answered(r, "ok", Len(accounts) + 1)}
  <2> PICK row : row = [mail |-> r.mail, sid |-> r.sid,
                        via |-> IF r.row = None THEN "none" ELSE "email",
                        pws |-> <<r.person>>, provenBy |-> r.person]
    OBVIOUS
  <2> PICK n : n = Len(accounts) + 1
    OBVIOUS
  <2>1. /\ row \in Row /\ row.mail = r.mail /\ row.sid = r.sid /\ Len(row.pws) = 1
        /\ row.via = "email" => Reader[row.mail] = r.person
        /\ row.provenBy = r.person
    <3>1. <<r.person>> \in Seq(Persons) /\ Len(<<r.person>>) = 1
      BY <1>2
    <3>2. (IF r.row = None THEN "none" ELSE "email") \in {"none", "email", "admin"}
      OBVIOUS
    <3>3. row \in Row
      BY <1>1, <1>2, <3>1, <3>2 DEF Row, Checked, Found
    <3> QED BY <1>1, <1>2, <1>4, <3>1, <3>3 DEF Checked, Found
  <2>2. /\ accounts' \in Seq(Row) /\ Len(accounts') = n
        /\ DOMAIN accounts' = 1 .. n /\ DOMAIN accounts = 1 .. n - 1 /\ n \in Nat /\ n > 0
        /\ \A a \in DOMAIN accounts : accounts'[a] = accounts[a]
        /\ accounts'[n] = row
    <3>1. accounts \in Seq(Row) /\ accounts' = Append(accounts, row)
      BY <1>1, <1>4 DEF StateTypes
    <3>2. /\ accounts' \in Seq(Row) /\ Len(accounts') = Len(accounts) + 1
          /\ \A a \in 1 .. Len(accounts) : accounts'[a] = accounts[a]
          /\ accounts'[Len(accounts) + 1] = row
      BY <2>1, <3>1, Appended
    <3>3. DOMAIN accounts' = 1 .. Len(accounts')
      BY <3>2, LenProperties
    <3> QED BY <1>1, <3>2, <3>3, Rows
  <2>3. sessions' \subseteq Session /\ \A s \in sessions' : s.acct \in DOMAIN accounts'
    BY <1>1, <1>2, <1>4, <2>2 DEF StateTypes, Session, Token
  <2>4. SessionsOfThisPassword'
    <3>1. \A s \in sessions : s.ver = Len(accounts'[s.acct].pws)
      BY <1>1, <2>2 DEF SessionsOfThisPassword
    <3>2. Token(n, 1, r.person).ver = Len(accounts'[Token(n, 1, r.person).acct].pws)
      BY <2>1, <2>2 DEF Token
    <3> QED BY <1>4, <3>1, <3>2 DEF SessionsOfThisPassword
  <2>5. \A a \in DOMAIN accounts : accounts[a].mail # row.mail /\ accounts[a].sid # row.sid
    BY <1>4, <2>1, <2>2 DEF Free, None
  <2>6. MailboxProven'
    <3>1. \A a \in DOMAIN accounts' : a \in DOMAIN accounts \/ a = n
      BY <2>2
    <3>2. ASSUME NEW a \in DOMAIN accounts', accounts'[a].via = "email"
          PROVE  accounts'[a].provenBy = Reader[accounts'[a].mail]
      BY <1>1, <2>1, <2>2, <3>1, <3>2 DEF MailboxProven
    <3>3. ASSUME NEW a \in DOMAIN accounts', NEW b \in DOMAIN accounts' \ {a}
          PROVE  accounts'[b].mail # accounts'[a].mail /\ accounts'[b].sid # accounts'[a].sid
      <4>1. CASE a \in DOMAIN accounts /\ b \in DOMAIN accounts
        BY <1>1, <2>2, <3>3, <4>1 DEF MailboxProven
      <4>2. CASE a = n \/ b = n
        BY <2>2, <2>5, <3>1, <3>3, <4>2
      <4> QED BY <3>1, <4>1, <4>2
    <3> QED BY <3>2, <3>3 DEF MailboxProven
  <2>7. /\ codes' \in Seq(CodeRow) /\ Len(codes') = Len(codes)
        /\ \A k \in DOMAIN codes :
              /\ codes'[k].mail = codes[k].mail /\ codes'[k].at = codes[k].at
              /\ codes'[k].used = codes[k].used \/ Holds(r, k)
        /\ CodesCounted' /\ MailboxSpared'
    BY <1>2, <1>4, UseCounts
  <2>8. n \in 0 .. Len(accounts') /\ Len(accounts) <= Len(accounts')
        /\ wire' = (wire \ {r}) \cup {Answered(r, "ok", n)}
    BY <1>1, <1>4, <2>2, Rows
  <2>9. AddressesProven
    BY <2>2 DEF AddressesProven
  <2> QED BY <2>2, <2>3, <2>4, <2>6, <2>7, <2>8, <2>9, CommitKeeps DEF Answers
<1> QED BY <1>3, <1>4 DEF CommitRegister

\* One row of the accounts changes.
LEMMA AccountChanges ==
    ASSUME StateTypes, NEW a \in DOMAIN accounts, NEW row \in Row,
           accounts' = [accounts EXCEPT ![a] = row]
    PROVE  /\ accounts' \in Seq(Row) /\ Len(accounts') = Len(accounts)
           /\ DOMAIN accounts' = DOMAIN accounts
           /\ \A b \in DOMAIN accounts : accounts'[b] = IF b = a THEN row ELSE accounts[b]
BY Rows, Replaced DEF StateTypes

LEMMA CommitVerifyKeeps ==
    ASSUME IndInv, NEW r \in wire, r.stage = "checked", CommitVerify(r),
           UNCHANGED <<scenario, now, inbox, form, clicks, tokens>>
    PROVE  IndInv'
<1>1. StateTypes /\ Checked(r) /\ RequestsRefer /\ MailboxProven /\ SessionsOfThisPassword
      /\ \A s \in sessions : s.acct \in DOMAIN accounts
  BY DEF IndInv
<1>2. /\ r.kind = "verify" /\ r \in RequestRecord /\ r.person \in Persons
      /\ UNCHANGED sessions
  BY <1>1 DEF CommitVerify, StateTypes, RequestRecord
<1>3. CASE Answer(r, "refused") /\ UNCHANGED <<accounts, codes>>
  BY <1>2, <1>3, GoneKeeps DEF Answers
<1> PICK mail : mail = IF r.address = Untyped THEN accounts[r.me].mail ELSE r.address
  OBVIOUS
<1>4. CASE /\ r.address = Untyped \/ Free(mail, Untyped, r.me)
           /\ Use(r.row) /\ Answer(r, "ok")
           /\ accounts' = [accounts EXCEPT ![r.me].mail = mail, ![r.me].via = "email",
                                           ![r.me].provenBy = IF mail = r.mail THEN r.person ELSE @]
  <2> PICK a : a = r.me
    OBVIOUS
  <2>1. /\ a \in DOMAIN accounts /\ r.mail \in Mailboxes /\ Reader[r.mail] = r.person
        /\ r.acct \in 0 .. Len(accounts) /\ AddressRead(r)
    BY <1>1, <1>2, Rows DEF Checked, Found, RequestsRefer, RequestRecord, None
  <2> PICK old : old = accounts[a]
    OBVIOUS
  <2> PICK by : by = IF mail = r.mail THEN r.person ELSE old.provenBy
    OBVIOUS
  <2>2. mail \in Mailboxes /\ by \in Persons \cup {None} /\ by = Reader[mail] /\ old \in Row
    <3>1. old \in Row /\ old.mail \in Mailboxes /\ old.provenBy \in Persons \cup {None}
      BY <1>1, <2>1, Rows DEF Row
    <3>2. mail # r.mail => r.address = Untyped /\ mail = old.mail
      BY <2>1 DEF AddressRead
    <3>3. mail # r.mail => old.provenBy = Reader[mail]
      BY <2>1, <3>2 DEF AddressRead
    <3> QED BY <1>2, <2>1, <3>1, <3>2, <3>3
  <2> PICK row : row = [old EXCEPT !.mail = mail, !.via = "email", !.provenBy = by]
    OBVIOUS
  <2>3. /\ row \in Row /\ row.mail = mail /\ row.sid = old.sid /\ row.pws = old.pws
         /\ row.via = "email" /\ row.provenBy = by
    BY <2>2, ZenonT(40) DEF Row
  <2>4. accounts' = [accounts EXCEPT ![a] = row]
    <3>1. old.provenBy = accounts[a].provenBy
      OBVIOUS
    <3> QED BY <1>1, <1>4, <2>1, <2>2, Rows DEF Row
  <2>5. /\ accounts' \in Seq(Row) /\ Len(accounts') = Len(accounts)
        /\ DOMAIN accounts' = DOMAIN accounts
        /\ \A b \in DOMAIN accounts : accounts'[b] = IF b = a THEN row ELSE accounts[b]
    BY <1>1, <2>1, <2>4, <2>3, AccountChanges
  <2>6. sessions' \subseteq Session /\ \A s \in sessions' : s.acct \in DOMAIN accounts'
    BY <1>1, <1>2, <2>5 DEF StateTypes
  <2>7. SessionsOfThisPassword'
    <3>1. \A b \in DOMAIN accounts : accounts'[b].pws = accounts[b].pws
      BY <2>5, <2>3
    <3> QED BY <1>1, <1>2, <3>1 DEF SessionsOfThisPassword
  <2>8. MailboxProven'
    <3>1. \A b \in DOMAIN accounts \ {a} : accounts[b].mail # mail
      <4>1. CASE r.address = Untyped
        BY <1>1, <2>1, <4>1 DEF MailboxProven
      <4>2. CASE r.address # Untyped
        BY <1>4, <4>2 DEF Free
      <4> QED BY <4>1, <4>2
    <3>2. ASSUME NEW b \in DOMAIN accounts', accounts'[b].via = "email"
          PROVE  accounts'[b].provenBy = Reader[accounts'[b].mail]
      <4>1. CASE b = a
        BY <2>2, <2>5, <2>3, <4>1
      <4>2. CASE b # a
        <5>1. accounts'[b] = accounts[b] /\ b \in DOMAIN accounts
          BY <2>5, <4>2
        <5> QED BY <1>1, <3>2, <5>1 DEF MailboxProven
      <4> QED BY <4>1, <4>2
    <3>3. ASSUME NEW b \in DOMAIN accounts', NEW c \in DOMAIN accounts' \ {b}
          PROVE  accounts'[c].mail # accounts'[b].mail /\ accounts'[c].sid # accounts'[b].sid
      <4>1. \A i, j \in DOMAIN accounts :
               i # j => accounts[i].mail # accounts[j].mail /\ accounts[i].sid # accounts[j].sid
        BY <1>1 DEF MailboxProven
      <4>2. \A i \in DOMAIN accounts : accounts'[i].sid = accounts[i].sid
        BY <2>5, <2>3
      <4>3. \A i \in DOMAIN accounts : accounts'[i].mail = IF i = a THEN mail ELSE accounts[i].mail
        BY <2>5, <2>3
      <4>4. b \in DOMAIN accounts /\ c \in DOMAIN accounts /\ b # c
        BY <2>5
      <4> QED BY <3>1, <4>1, <4>2, <4>3, <4>4
    <3> QED BY <3>2, <3>3 DEF MailboxProven
  <2>9. /\ codes' \in Seq(CodeRow) /\ Len(codes') = Len(codes)
        /\ \A k \in DOMAIN codes :
              /\ codes'[k].mail = codes[k].mail /\ codes'[k].at = codes[k].at
              /\ codes'[k].used = codes[k].used \/ Holds(r, k)
        /\ CodesCounted' /\ MailboxSpared'
    BY <1>2, <1>4, UseCounts
  <2>10. r.acct \in 0 .. Len(accounts') /\ Len(accounts) <= Len(accounts')
        /\ wire' = (wire \ {r}) \cup {Answered(r, "ok", r.acct)}
    BY <1>1, <1>4, <2>1, <2>5, Rows DEF Answer
  <2>11. AddressesProven
    <3>1. accounts'[a].provenBy = Reader[accounts'[a].mail]
      BY <2>1, <2>2, <2>3, <2>5
    <3>2. \A b \in DOMAIN accounts \ {a} : accounts'[b] = accounts[b]
      BY <2>5
    <3> QED BY <3>1, <3>2 DEF AddressesProven
  <2> QED BY <2>5, <2>6, <2>7, <2>8, <2>9, <2>10, <2>11, CommitKeeps DEF Answers
<1> QED BY <1>3, <1>4 DEF CommitVerify

LEMMA CommitResetKeeps ==
    ASSUME IndInv, NEW r \in wire, r.stage = "checked", CommitReset(r),
           UNCHANGED <<scenario, now, inbox, form, clicks, tokens>>
    PROVE  IndInv'
<1>1. StateTypes /\ Checked(r) /\ RequestsRefer /\ MailboxProven /\ SessionsOfThisPassword
      /\ \A s \in sessions : s.acct \in DOMAIN accounts
  BY DEF IndInv
<1>2. /\ r.kind = "reset" /\ r \in RequestRecord /\ r.person \in Persons
      /\ Use(r.row) /\ Answer(r, "ok")
      /\ accounts' = [accounts EXCEPT ![r.acct].pws = Append(@, r.person)]
      /\ sessions' = {s \in sessions : s.acct # r.acct}
                       \cup {Token(r.acct, Len(accounts[r.acct].pws) + 1, r.person)}
  BY <1>1 DEF CommitReset, StateTypes, RequestRecord
<1> PICK a : a = r.acct
  OBVIOUS
<1>3. a \in DOMAIN accounts /\ a \in 0 .. Len(accounts) /\ a \in Nat
  BY <1>1, <1>2, Rows DEF Checked, Found, RequestsRefer, RequestRecord, None
<1> PICK old : old = accounts[a]
  OBVIOUS
<1> PICK pws : pws = Append(old.pws, r.person)
  OBVIOUS
<1>4. old \in Row /\ pws \in Seq(Persons) /\ Len(pws) = Len(old.pws) + 1 /\ Len(old.pws) \in Nat
  <2>1. old \in Row /\ old.pws \in Seq(Persons)
    BY <1>1, <1>3, Rows DEF Row
  <2> QED BY <1>2, <2>1, Appended, LenProperties
<1> PICK row : row = [old EXCEPT !.pws = pws]
  OBVIOUS
<1>5. /\ row \in Row /\ row.mail = old.mail /\ row.sid = old.sid /\ row.pws = pws
      /\ row.via = old.via /\ row.provenBy = old.provenBy
  BY <1>4 DEF Row
<1>6. accounts' = [accounts EXCEPT ![a] = row]
  BY <1>2, <1>3
<1>7. /\ accounts' \in Seq(Row) /\ Len(accounts') = Len(accounts)
      /\ DOMAIN accounts' = DOMAIN accounts
      /\ \A b \in DOMAIN accounts : accounts'[b] = IF b = a THEN row ELSE accounts[b]
  BY <1>1, <1>3, <1>5, <1>6, AccountChanges
<1> PICK t : t = Token(a, Len(old.pws) + 1, r.person)
  OBVIOUS
<1>8. t \in Session /\ t.acct = a /\ t.ver = Len(old.pws) + 1
  BY <1>2, <1>3, <1>4 DEF Token, Session
<1>9. sessions' = {s \in sessions : s.acct # a} \cup {t}
  BY <1>2
<1>10. sessions' \subseteq Session /\ \A s \in sessions' : s.acct \in DOMAIN accounts'
  BY <1>1, <1>3, <1>7, <1>8, <1>9 DEF StateTypes
<1>11. SessionsOfThisPassword'
  <2>1. ASSUME NEW s \in sessions, s.acct # a
        PROVE  s.ver = Len(accounts'[s.acct].pws)
    <3>1. accounts'[s.acct] = accounts[s.acct]
      BY <1>1, <1>7, <2>1
    <3> QED BY <1>1, <3>1 DEF SessionsOfThisPassword
  <2>2. t.ver = Len(accounts'[t.acct].pws)
    BY <1>3, <1>4, <1>5, <1>7, <1>8
  <2> QED BY <1>9, <2>1, <2>2 DEF SessionsOfThisPassword
<1>12. MailboxProven'
  <2>1. \A b \in DOMAIN accounts :
           /\ accounts'[b].mail = accounts[b].mail /\ accounts'[b].sid = accounts[b].sid
           /\ accounts'[b].via = accounts[b].via /\ accounts'[b].provenBy = accounts[b].provenBy
    BY <1>5, <1>7
  <2> QED BY <1>1, <1>7, <2>1 DEF MailboxProven
<1>13. /\ codes' \in Seq(CodeRow) /\ Len(codes') = Len(codes)
       /\ \A k \in DOMAIN codes :
             /\ codes'[k].mail = codes[k].mail /\ codes'[k].at = codes[k].at
             /\ codes'[k].used = codes[k].used \/ Holds(r, k)
       /\ CodesCounted' /\ MailboxSpared'
  BY <1>2, UseCounts
<1>14. a \in 0 .. Len(accounts') /\ Len(accounts) <= Len(accounts')
       /\ wire' = (wire \ {r}) \cup {Answered(r, "ok", a)}
  BY <1>1, <1>2, <1>3, <1>7, Rows DEF Answer
<1>15. AddressesProven
  BY <1>5, <1>7 DEF AddressesProven
<1> QED BY <1>7, <1>10, <1>11, <1>12, <1>13, <1>14, <1>15, CommitKeeps DEF Answers

LEMMA CommitLoginKeeps ==
    ASSUME IndInv, NEW r \in wire, r.stage = "checked", CommitLogin(r),
           UNCHANGED <<scenario, now, inbox, form, clicks, tokens>>
    PROVE  IndInv'
<1>1. StateTypes /\ Checked(r) /\ RequestsRefer /\ MailboxProven /\ SessionsOfThisPassword
      /\ CodesCounted /\ MailboxSpared /\ \A s \in sessions : s.acct \in DOMAIN accounts
  BY DEF IndInv
<1>2. /\ r.kind = "login" /\ r \in RequestRecord /\ r.person \in Persons
      /\ UNCHANGED <<accounts, codes>>
  BY <1>1 DEF CommitLogin, StateTypes, RequestRecord
<1>3. CASE Answer(r, "refused") /\ UNCHANGED sessions
  BY <1>2, <1>3, GoneKeeps DEF Answers
<1>4. CASE /\ Len(accounts[r.acct].pws) = r.ver
           /\ sessions' = sessions \cup {Token(r.acct, r.ver, r.person)} /\ Answer(r, "ok")
  <2>1. r.acct \in DOMAIN accounts /\ r.acct \in 0 .. Len(accounts) /\ r.acct \in Nat
    BY <1>1, <1>2, Rows DEF Checked, Found, RequestsRefer, RequestRecord, None
  <2> PICK t : t = Token(r.acct, r.ver, r.person)
    OBVIOUS
  <2>2. t \in Session /\ t.acct = r.acct /\ t.ver = r.ver
    BY <1>2, <2>1 DEF Token, Session, RequestRecord
  <2>3. sessions' = sessions \cup {t}
    BY <1>4
  <2>4. sessions' \subseteq Session /\ \A s \in sessions' : s.acct \in DOMAIN accounts'
    BY <1>1, <1>2, <2>1, <2>2, <2>3 DEF StateTypes
  <2>5. SessionsOfThisPassword'
    BY <1>1, <1>2, <1>4, <2>2, <2>3 DEF SessionsOfThisPassword
  <2>6. CodesCounted' /\ MailboxSpared' /\ MailboxProven'
    BY <1>1, <1>2 DEF CodesCounted, MailboxSpared, MailboxProven
  <2>7. /\ accounts' \in Seq(Row) /\ Len(accounts) <= Len(accounts')
        /\ codes' \in Seq(CodeRow) /\ Len(codes') = Len(codes)
        /\ r.acct \in 0 .. Len(accounts')
        /\ wire' = (wire \ {r}) \cup {Answered(r, "ok", r.acct)}
    BY <1>1, <1>2, <1>4, <2>1, Rows DEF StateTypes, Answer
  <2>8. \A k \in DOMAIN codes :
            /\ codes'[k].mail = codes[k].mail /\ codes'[k].at = codes[k].at
            /\ codes'[k].used = codes[k].used \/ Holds(r, k)
    BY <1>2
  <2>9. AddressesProven
    BY <1>2 DEF AddressesProven
  <2> QED BY <2>4, <2>5, <2>6, <2>7, <2>8, <2>9, CommitKeeps DEF Answers
<1> QED BY <1>3, <1>4 DEF CommitLogin

LEMMA SetVerifiedKeeps ==
    ASSUME IndInv, NEW a \in DOMAIN accounts, SetVerified(a)
    PROVE  IndInv'
<1>1. StateTypes /\ MailboxProven
  BY DEF IndInv
<1>2. /\ clicks' = clicks + 1 /\ clicks < scenario.clicks
      /\ accounts' = [accounts EXCEPT ![a].via = IF @ = "none" THEN "admin" ELSE "none"]
      /\ UNCHANGED <<scenario, now, codes, sessions, inbox, form, wire, tokens>>
  BY DEF SetVerified
<1> PICK old : old = accounts[a]
  OBVIOUS
<1> PICK via \in {"admin", "none"} : via = IF old.via = "none" THEN "admin" ELSE "none"
  OBVIOUS
<1> PICK row : row = [old EXCEPT !.via = via]
  OBVIOUS
<1>3. /\ row \in Row /\ row.mail = old.mail /\ row.sid = old.sid /\ row.pws = old.pws
      /\ row.via = via /\ row.provenBy = old.provenBy
  <2>1. old \in Row
    BY <1>1, Rows
  <2> QED BY <2>1 DEF Row
<1>4. accounts' = [accounts EXCEPT ![a] = row]
  BY <1>2
<1>5. /\ accounts' \in Seq(Row) /\ Len(accounts') = Len(accounts)
      /\ DOMAIN accounts' = DOMAIN accounts
      /\ \A b \in DOMAIN accounts : accounts'[b] = IF b = a THEN row ELSE accounts[b]
  BY <1>1, <1>3, <1>4, AccountChanges
<1>6. \A b \in DOMAIN accounts :
         /\ accounts'[b].mail = accounts[b].mail /\ accounts'[b].sid = accounts[b].sid
         /\ accounts'[b].pws = accounts[b].pws /\ accounts'[b].provenBy = accounts[b].provenBy
         /\ accounts'[b].via = "email" => accounts'[b] = accounts[b]
  BY <1>3, <1>5
<1>7. StateTypes'
  BY <1>1, <1>2, <1>5, Rows DEF StateTypes
<1>8. \A k, p : Readable(k, p)' <=> Readable(k, p)
  BY <1>2 DEF Readable
<1>9. FormsRefer' /\ RequestsRefer'
  BY <1>2, <1>5, <1>8 DEF IndInv, FormsRefer, RequestsRefer
<1>10. (\A r \in wire : Filled(r) /\ Checked(r))'
  <2>1. \A m, t : Spared(m, t)' <=> Spared(m, t)
    BY <1>2 DEF Spared
  <2>2. ASSUME NEW r \in wire PROVE Filled(r)' /\ Checked(r)'
    <3>1. Filled(r) /\ Checked(r)
      BY DEF IndInv
    <3>2. r.me # None => r.me \in DOMAIN accounts
      BY <1>1, Rows DEF IndInv, RequestsRefer, StateTypes, RequestRecord, None
    <3>3. r.me # None /\ AddressRead(r) => AddressRead(r)'
      BY <1>6, <3>2 DEF AddressRead
    <3> QED BY <1>2, <2>1, <3>1, <3>3 DEF Filled, Checked, Read, Found
  <2> QED BY <1>2, <2>2
<1>11. LockedOnce' /\ CodesCounted' /\ TokensHeld' /\ MailboxSpared'
  BY <1>2 DEF IndInv, LockedOnce, Holds, CodesCounted, TokensHeld, TokenSentOnce, Waits, MailboxSpared
<1>12. (\A s \in sessions : s.acct \in DOMAIN accounts)' /\ SessionsOfThisPassword'
  BY <1>2, <1>5, <1>6 DEF IndInv, SessionsOfThisPassword
<1>13. MailboxProven'
  <2>1. ASSUME NEW b \in DOMAIN accounts, accounts'[b].via = "email"
        PROVE  accounts'[b].provenBy = Reader[accounts'[b].mail]
    <3>1. accounts'[b] = accounts[b]
      BY <1>6, <2>1
    <3> QED BY <1>1, <2>1, <3>1 DEF MailboxProven
  <2>2. ASSUME NEW b \in DOMAIN accounts, NEW c \in DOMAIN accounts \ {b}
        PROVE  accounts'[c].mail # accounts'[b].mail /\ accounts'[c].sid # accounts'[b].sid
    BY <1>1, <1>6 DEF MailboxProven
  <2> QED BY <1>5, <2>1, <2>2 DEF MailboxProven
<1> QED BY <1>7, <1>9, <1>10, <1>11, <1>12, <1>13 DEF IndInv

-----------------------------------------------------------------------------
(* Answers at the page *)

\* The answer is gone, and the form has the same or less in hand.
LEMMA ReceivedKeeps ==
    ASSUME IndInv, NEW p \in Persons, NEW f \in FormRecord, f.me <= Len(accounts),
           f.code \in {form[p].code, None}, f.token \in {form[p].token, None},
           form' = [form EXCEPT ![p] = f], wire' \subseteq RequestRecord, Thinned,
           UNCHANGED <<scenario, now, rows, inbox, clicks, tokens>>
    PROVE  IndInv'
<1>1. StateTypes /\ FormsRefer
  BY DEF IndInv
<1>2. /\ form' \in [Persons -> FormRecord]
      /\ \A q \in Persons :
            /\ form'[q].me <= Len(accounts)
            /\ form'[q].code \in {form[q].code, None}
            /\ form'[q].token \in {form[q].token, None}
  BY <1>1, OneForm
<1>3. now \in 0 .. scenario.ticks /\ now <= now /\ clicks \in 0 .. scenario.clicks
  BY <1>1, Rows DEF StateTypes
<1> QED BY <1>2, <1>3, ViewKeeps DEF rows

LEMMA ReceiveCodeKeeps ==
    ASSUME IndInv, NEW r \in wire, ReceiveCode(r),
           UNCHANGED <<scenario, now, rows, inbox, clicks, tokens>>
    PROVE  IndInv'
<1>1. StateTypes /\ FormsRefer
  BY DEF IndInv
<1> PICK p : p = r.person
  OBVIOUS
<1>2. p \in Persons /\ form[p] \in FormRecord /\ form \in [Persons -> FormRecord]
      /\ r.hook \in BOOLEAN
  BY <1>1 DEF StateTypes, RequestRecord
<1> DEFINE sending == form[p].sending /\ ~r.hook
           resend == form[p].resend \/ (r.hook /\ r.result = "ok")
           code == IF EmptiesCode(r) THEN None ELSE form[p].code
<1>3. sending \in BOOLEAN /\ resend \in BOOLEAN
  BY <1>2 DEF FormRecord
<1>4. code \in Int /\ code \in {form[p].code, None}
  BY <1>2 DEF FormRecord, None
<1>5. form' = [form EXCEPT ![p] =
                 [form[p] EXCEPT !.sending = sending, !.resend = resend, !.code = code]]
  BY <1>2 DEF ReceiveCode, FormRecord
<1> HIDE DEF sending, resend, code
<1> DEFINE f == [form[p] EXCEPT !.sending = sending, !.resend = resend, !.code = code]
<1>6. f \in FormRecord /\ f.me = form[p].me /\ f.code = code /\ f.token = form[p].token
  BY <1>2, <1>3, <1>4 DEF FormRecord
<1>7. form' = [form EXCEPT ![p] = f]
  BY <1>5
<1>8. wire' \subseteq RequestRecord /\ Thinned
  BY <1>1, SubsetThins DEF ReceiveCode
<1> HIDE DEF f
<1>9. f.me <= Len(accounts) /\ f.code \in {form[p].code, None} /\ f.token \in {form[p].token, None}
  BY <1>1, <1>2, <1>4, <1>6 DEF FormsRefer
<1> QED BY <1>2, <1>6, <1>7, <1>8, <1>9, ReceivedKeeps

LEMMA LeaveKeeps ==
    ASSUME IndInv, NEW r \in wire, NEW page \in PageNames, NEW me \in 0 .. Len(accounts),
           Leave(r.person, page, me, r), UNCHANGED <<scenario, now, rows, inbox, clicks, tokens>>
    PROVE  IndInv'
<1>1. StateTypes
  BY DEF IndInv
<1> PICK p : p = r.person
  OBVIOUS
<1>2. p \in Persons /\ me \in Nat /\ me <= Len(accounts)
  BY <1>1, Rows DEF StateTypes, RequestRecord
<1> PICK f : f = Fresh(page, me)
  OBVIOUS
<1>3. f \in FormRecord /\ f.me = me /\ f.code = None /\ f.token = None
  BY <1>2, FreshForm
<1>4. form' = [form EXCEPT ![p] = f]
  BY DEF Leave
<1>5. wire' \subseteq RequestRecord /\ Thinned
  BY <1>1, UnmountedThins DEF Leave
<1> QED BY <1>2, <1>3, <1>4, <1>5, ReceivedKeeps

LEMMA ReceiveConfirmedKeeps ==
    ASSUME IndInv, NEW r \in wire, ReceiveConfirmed(r),
           UNCHANGED <<scenario, now, rows, inbox, clicks, tokens>>
    PROVE  IndInv'
<1>1. StateTypes /\ FormsRefer
  BY DEF IndInv
<1> PICK p : p = r.person
  OBVIOUS
<1>2. p \in Persons /\ form[p] \in FormRecord /\ form[p].me <= Len(accounts)
      /\ form \in [Persons -> FormRecord]
  BY <1>1 DEF StateTypes, RequestRecord, FormsRefer
<1>3. CASE r.mounted
  <2> PICK f : f = [form[p] EXCEPT !.step = "password", !.submitting = FALSE, !.token = None]
    OBVIOUS
  <2>1. Lesser(f, p)
    BY <1>1, <1>2, FormChanges
  <2> PICK g : g = Unrequested(f)
    OBVIOUS
  <2>2. g \in FormRecord /\ g.me <= Len(accounts)
        /\ g.code \in {form[p].code, None} /\ g.token \in {form[p].token, None}
    BY <1>2, <2>1, UnrequestedForm DEF Lesser
  <2>3. form' = [form EXCEPT ![p] = g]
    BY <1>3 DEF ReceiveConfirmed
  <2>4. wire' = Unhooked(p, {w \in wire \ {r} : ~Waits(w, p)})
    BY <1>3 DEF ReceiveConfirmed
  <2>5. wire' \subseteq RequestRecord /\ Thinned
    BY <1>1, <2>4, UnhookedThins
  <2> QED BY <1>2, <2>2, <2>3, <2>5, ReceivedKeeps
<1>4. CASE ~r.mounted
  <2>1. form' = [form EXCEPT ![p] = form[p]]
    BY <1>2, <1>4 DEF ReceiveConfirmed
  <2>2. wire' \subseteq RequestRecord /\ Thinned
    BY <1>1, <1>4, SubsetThins DEF ReceiveConfirmed
  <2> QED BY <1>2, <2>1, <2>2, ReceivedKeeps
<1> QED BY <1>3, <1>4

LEMMA ReceiveErrorKeeps ==
    ASSUME IndInv, NEW r \in wire, ReceiveError(r),
           UNCHANGED <<scenario, now, rows, inbox, clicks, tokens>>
    PROVE  IndInv'
<1>1. StateTypes /\ FormsRefer
  BY DEF IndInv
<1> PICK p : p = r.person
  OBVIOUS
<1>2. p \in Persons /\ form[p] \in FormRecord /\ form[p].me <= Len(accounts)
      /\ form \in [Persons -> FormRecord]
  BY <1>1 DEF StateTypes, RequestRecord, FormsRefer
<1>3. wire' \subseteq RequestRecord /\ Thinned
  BY <1>1, SubsetThins DEF ReceiveError
<1>4. CASE r.mounted
  <2> DEFINE again == r.kind = "reset" /\ r.result = "code"
             step == IF again THEN "code" ELSE form[p].step
             code == IF again THEN None ELSE form[p].code
  <2>1. step \in {"code", "password"} /\ code \in Int /\ code \in {form[p].code, None}
    BY <1>2 DEF FormRecord, None
  <2>2. form' = [form EXCEPT ![p] =
                   [form[p] EXCEPT !.submitting = FALSE, !.step = step, !.code = code]]
    BY <1>2, <1>4 DEF ReceiveError, FormRecord
  <2> HIDE DEF step, code
  <2> DEFINE f == [form[p] EXCEPT !.submitting = FALSE, !.step = step, !.code = code]
  <2>3. f \in FormRecord /\ f.me = form[p].me /\ f.code = code /\ f.token = form[p].token
    BY <1>2, <2>1 DEF FormRecord
  <2>4. form' = [form EXCEPT ![p] = f]
    BY <2>2
  <2> HIDE DEF f
  <2> QED BY <1>2, <1>3, <2>1, <2>3, <2>4, ReceivedKeeps
<1>5. CASE ~r.mounted
  <2>1. form' = [form EXCEPT ![p] = form[p]]
    BY <1>2, <1>5 DEF ReceiveError
  <2> QED BY <1>2, <1>3, <2>1, ReceivedKeeps
<1> QED BY <1>4, <1>5

LEMMA ReceiveKeeps ==
    ASSUME IndInv, NEW r \in wire, Receive(r)
    PROVE  IndInv'
<1>1. UNCHANGED <<scenario, now, rows, inbox, clicks, tokens>>
  BY DEF Receive
<1>2. r.acct \in 0 .. Len(accounts) /\ None \in 0 .. Len(accounts)
      /\ form[r.person].me \in 0 .. Len(accounts)
  BY Rows DEF IndInv, StateTypes, RequestsRefer, RequestRecord, FormsRefer, FormRecord, None
<1>3. "home" \in PageNames /\ "login" \in PageNames
  BY DEF PageNames
<1>4. CASE ReceiveCode(r)
  BY <1>1, <1>4, ReceiveCodeKeeps
<1>5. CASE ReceiveDone(r)
  BY <1>1, <1>2, <1>3, <1>5, LeaveKeeps DEF ReceiveDone
<1>6. CASE ReceiveConfirmed(r)
  BY <1>1, <1>6, ReceiveConfirmedKeeps
<1>7. CASE ReceiveRejected(r)
  BY <1>1, <1>2, <1>3, <1>7, LeaveKeeps DEF ReceiveRejected
<1>8. CASE ReceiveError(r)
  BY <1>1, <1>8, ReceiveErrorKeeps
<1> QED BY <1>4, <1>5, <1>6, <1>7, <1>8 DEF Receive

-----------------------------------------------------------------------------
(* Theorems *)

LEMMA InitIsGood == Init => IndInv
<1> SUFFICES ASSUME Init PROVE IndInv
  OBVIOUS
<1>1. /\ scenario.clicks \in Nat /\ scenario.ticks \in Nat /\ accounts \in Seq(Row)
      /\ \A a \in DOMAIN accounts :
            /\ Len(accounts[a].pws) = 1
            /\ accounts[a].via = "email" => accounts[a].provenBy = Reader[accounts[a].mail]
            /\ \A b \in DOMAIN accounts \ {a} :
                  /\ accounts[a].mail # accounts[b].mail
                  /\ accounts[a].sid # accounts[b].sid
      /\ scenario.me \in [Persons -> 0 .. Len(accounts)]
      /\ scenario.start \in [Persons -> PageNames]
  BY ScenarioAssumption DEF Init, PageNames
<1>2. Len(accounts) \in Nat /\ DOMAIN accounts = 1 .. Len(accounts)
  BY <1>1, LenProperties
<1>3. \A p \in Persons :
         /\ form[p] \in FormRecord /\ form[p].me <= Len(accounts)
         /\ form[p].code = None /\ form[p].token = None
  <2> SUFFICES ASSUME NEW p \in Persons
               PROVE  /\ form[p] \in FormRecord /\ form[p].me <= Len(accounts)
                      /\ form[p].code = None /\ form[p].token = None
    OBVIOUS
  <2>1. form[p] = Fresh(scenario.start[p], scenario.me[p])
    BY DEF Init
  <2>2. scenario.start[p] \in PageNames /\ scenario.me[p] \in Nat
        /\ scenario.me[p] <= Len(accounts)
    BY <1>1, <1>2
  <2> QED BY <2>1, <2>2, FreshForm
<1>4. \A s \in sessions :
         /\ s \in Session /\ s.acct \in DOMAIN accounts /\ s.ver = 1
  <2> SUFFICES ASSUME NEW s \in sessions
               PROVE  s \in Session /\ s.acct \in DOMAIN accounts /\ s.ver = 1
    OBVIOUS
  <2>1. PICK p \in Persons : scenario.me[p] # None /\ s = Token(scenario.me[p], 1, p)
    BY DEF Init
  <2>2. scenario.me[p] \in Nat /\ scenario.me[p] \in DOMAIN accounts
    BY <1>1, <1>2, <2>1 DEF None
  <2> QED BY <2>1, <2>2 DEF Token, Session
<1>5. codes = <<>> /\ codes \in Seq(CodeRow) /\ Len(codes) = 0 /\ DOMAIN codes = {}
  <2>1. codes = <<>> /\ codes \in Seq(CodeRow) /\ Len(codes) = 0
    BY DEF Init
  <2> QED BY <2>1, LenProperties
<1>6. inbox = {} /\ wire = {} /\ now = 0 /\ clicks = 0 /\ tokens = 0 /\ scenario \in Scenarios
  BY DEF Init
<1>7. StateTypes
  <2>1. form \in [Persons -> FormRecord]
    BY <1>3 DEF Init
  <2>2. now \in 0 .. scenario.ticks /\ clicks \in 0 .. scenario.clicks /\ tokens \in 0 .. scenario.clicks
    BY <1>1, <1>6, Numbers
  <2> QED BY <1>1, <1>4, <1>5, <1>6, <2>1, <2>2 DEF StateTypes
<1>8. FormsRefer
  BY <1>3, <1>5 DEF FormsRefer, Readable, Wrong, None
<1>9. RequestsRefer /\ (\A r \in wire : Filled(r) /\ Checked(r)) /\ LockedOnce
  BY <1>6 DEF RequestsRefer, LockedOnce
<1>10. CodesCounted /\ MailboxSpared
  BY <1>5 DEF CodesCounted, MailboxSpared
<1>11. TokensHeld
  BY <1>3, <1>6 DEF TokensHeld, TokenSentOnce, None
<1>12. SessionsOfThisPassword
  BY <1>1, <1>4 DEF SessionsOfThisPassword
<1>13. MailboxProven
  BY <1>1 DEF MailboxProven
<1> QED BY <1>4, <1>7, <1>8, <1>9, <1>10, <1>11, <1>12, <1>13 DEF IndInv

LEMMA StepKeeps == IndInv /\ [Next]_vars => IndInv'
<1> SUFFICES ASSUME IndInv, [Next]_vars PROVE IndInv'
  OBVIOUS
<1>1. ASSUME NEW p \in Persons, NEW page \in scenario.pages, Visit(p, page)
      PROVE  IndInv'
  BY <1>1, VisitKeeps
<1>2. ASSUME NEW p \in Persons, NEW x \in Texts,
             \/ TypeAddress(p, x) \/ ClickCode(p, x)
             \/ \E k \in {Wrong, None} \cup DOMAIN codes : ClickSubmit(p, x, k)
      PROVE  IndInv'
  BY <1>2, TypeAddressKeeps, ClickCodeKeeps, ClickSubmitKeeps DEF Texts
<1>3. ASSUME NEW p \in Persons,
             \/ LoadEvent(p) \/ ToggleAddress(p) \/ Restart(p)
             \/ WidgetToken(p) \/ WidgetExpired(p) \/ WidgetError(p)
      PROVE  IndInv'
  BY <1>3, LoadEventKeeps, ToggleAddressKeeps, WidgetTokenKeeps, WidgetErrorKeeps
<1>4. ASSUME NEW r \in wire,
             \/ Arrive(r) \/ WaitForRow(r)
             \/ CheckCodeRequest(r) \/ IssueCode(r) \/ SendMail(r) \/ Lose(r)
      PROVE  IndInv'
  BY <1>4, ArriveKeeps, WaitForRowKeeps, CheckCodeRequestKeeps, IssueCodeKeeps, SendMailKeeps, LoseKeeps
<1>5. ASSUME NEW r \in wire, Check(r)
      PROVE  IndInv'
  BY <1>5, CheckKeeps
<1>6. ASSUME NEW r \in wire, Commit(r)
      PROVE  IndInv'
  BY <1>6, CommitRegisterKeeps, CommitVerifyKeeps, CommitResetKeeps, CommitLoginKeeps DEF Commit
<1>7. ASSUME NEW r \in wire, Receive(r)
      PROVE  IndInv'
  BY <1>7, ReceiveKeeps
<1>8. ASSUME NEW a \in DOMAIN accounts, SetVerified(a)
      PROVE  IndInv'
  BY <1>8, SetVerifiedKeeps
<1>9. CASE Tick
  BY <1>9, TickKeeps
<1>10. CASE UNCHANGED vars
  <2>1. UNCHANGED <<scenario, now, accounts, codes, sessions, inbox, form, wire, clicks, tokens>>
    BY <1>10 DEF vars, rows
  <2>2. StateTypes /\ FormsRefer
    BY DEF IndInv
  <2>3. wire' \subseteq RequestRecord /\ Thinned
    BY <2>1, <2>2, SubsetThins
  <2>4. now \in 0 .. scenario.ticks /\ now <= now /\ clicks \in 0 .. scenario.clicks
        /\ form \in [Persons -> FormRecord]
    BY <2>2, Rows DEF StateTypes
  <2> QED BY <2>1, <2>2, <2>3, <2>4, ViewKeeps DEF FormsRefer
<1> QED BY <1>1, <1>2, <1>3, <1>4, <1>5, <1>6, <1>7, <1>8, <1>9, <1>10 DEF Next, Texts

\* Whatever is clicked, sent, lost, mailed and answered, in any order.
THEOREM EnrolmentInductive == Spec => []IndInv
BY InitIsGood, StepKeeps, PTL DEF Spec

\* Rows, requests and forms refer to rows that exist, and nobody has more
\* attempts than MAX_ATTEMPTS.
THEOREM EnrolmentTypeCorrect == Spec => []TypeOK
<1>1. IndInv => TypeOK
  <2> SUFFICES ASSUME IndInv PROVE TypeOK
    OBVIOUS
  <2>1. StateTypes
    BY DEF IndInv
  <2>2. \A a \in DOMAIN accounts : accounts[a] \in Row
    BY <2>1, Rows
  <2>3. \A k \in DOMAIN codes : codes[k].mail \in Mailboxes /\ codes[k].attempts \in 0 .. MaxAttempts
    BY <2>1, Rows, Numbers DEF IndInv, CodesCounted, CodeRow
  <2>4. \A p \in Persons : form[p].me \in 0 .. Len(accounts) /\ form[p].code \in Wrong .. Len(codes)
    BY <2>1, Rows DEF IndInv, FormsRefer, Readable, StateTypes, FormRecord
  <2> QED BY <2>1, <2>2, <2>3, <2>4 DEF IndInv, StateTypes, TypeOK
<1> QED BY <1>1, EnrolmentInductive, PTL

\* No login outlives the password it was made with (auth.py:316-318).
THEOREM SessionsAreOfThisPassword == Spec => []SessionsOfThisPassword
<1>1. IndInv => SessionsOfThisPassword
  BY DEF IndInv
<1> QED BY <1>1, EnrolmentInductive, PTL

\* Wrong codes are counted though each is an error, and a code serves one
\* request (email_codes.py:24-25).
THEOREM CodesAlwaysHold == Spec => []CodesHold
<1>1. IndInv => CodesHold
  <2> SUFFICES ASSUME IndInv, NEW k \in DOMAIN codes
               PROVE  codes[k].guesses <= MaxAttempts /\ codes[k].uses <= 1
    BY DEF CodesHold
  <2>1. codes[k] \in CodeRow
    BY Rows DEF IndInv
  <2> QED BY <2>1, Numbers DEF IndInv, CodesCounted, CodeRow
<1> QED BY <1>1, EnrolmentInductive, PTL

\* The advisory lock spares every mailbox, whoever asks for codes
\* (email_verification.py:140-142).
THEOREM MailboxesAreSpared == Spec => []MailboxSpared
<1>1. IndInv => MailboxSpared
  BY DEF IndInv
<1> QED BY <1>1, EnrolmentInductive, PTL

\* A verified address is the mailbox of who verified it, and of nobody else.
THEOREM MailboxesAreProven == Spec => []MailboxProven
<1>1. IndInv => MailboxProven
  BY DEF IndInv
<1> QED BY <1>1, EnrolmentInductive, PTL

\* No captcha token goes out twice (turnstile.tsx:59).
THEOREM TokensAreSentOnce == Spec => []TokenSentOnce
<1>1. IndInv => TokenSentOnce
  BY DEF IndInv, TokensHeld
<1> QED BY <1>1, EnrolmentInductive, PTL
=============================================================================
