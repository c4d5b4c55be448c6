---------------------------- MODULE Certification ----------------------------
(***************************************************************************)
(* Study certifications, from the page a participant uploads a photo with  *)
(* to the tab an administrator reviews it in: the transactions of          *)
(* services/certification.py, step by step where two of them can overlap,  *)
(* and the two views that start them.  How a view polls is the business of *)
(* PageData; here a poll is one step that shows what the server has then.  *)
(***************************************************************************)
EXTENDS Integers, FiniteSets

CONSTANTS
    Participants,
    Pages,          \* open certification pages: tabs or devices
    PageOwner,      \* [Pages -> Participants]
    Reviewers,      \* open review tabs of administrators
    Barred,         \* disqualified participants (Ledger has the change of standing)
    LastDay,        \* operating days are 1..LastDay
    MaxCerts,       \* bound: values of study_certifications.id
    ForcedAt        \* bound: half days in which a purge may be forced

ASSUME CertificationAssumption ==
    /\ PageOwner \in [Pages -> Participants]
    /\ LastDay \in Nat \ {0}
    /\ MaxCerts \in Nat

Days == 1 .. LastDay
Certs == 1 .. MaxCerts

NoRow == [owner |-> "nobody"]
None == [stage |-> "none"]
NoPurge == [stage |-> "none", records |-> {}, left |-> {}]

VARIABLES
    time,       \* half days: 2d-2 is day d up to the cutoff, 2d-1 after it
    rows,       \* [Certs -> committed row or NoRow]
    nextId,     \* the sequence of ids; a rollback does not give one back
    files,      \* photos in the upload directory, by the row they were made for
    crashed,    \* a process has died, the server's or the purge's (bound: once)
    opened,     \* the last day that was opened with rewards to pay, or 0
    opening,    \* the opening under way: its day and the rows it selected
    forced,     \* a purge was forced before its time (bound: once)
    purge,      \* the purge under way: the rows it selected and what it deletes
    strays,     \* photos a purge deleted, or dropped, without a row to say so
    upload,     \* [Pages -> the POST under way]
    page,       \* [Pages -> what the certification page holds]
    review,     \* [Reviewers -> the review request under way]
    modal       \* [Reviewers -> the row in the review dialog, or 0]

purgeVars == <<forced, purge, strays>>
serverVars == <<time, rows, nextId, files, crashed, opened, opening, purgeVars>>
vars == <<serverVars, upload, page, review, modal>>

Statuses == {"pending", "approved", "rejected"}
CertRow ==
    [owner : Participants, date : Nat, status : Statuses, image : BOOLEAN,
     paid : BOOLEAN]

DayAt(t) == t \div 2 + 1
\* Mutant: a row takes the date of the target without asking whether it is one
\* of the event's days.
OutsideNever(d) == FALSE

Outside(d) == d \notin Days

\* Up to the cutoff a photo counts for the day, after it for the next.
Target(t) == (t + 1) \div 2 + 1
Ended == DayAt(time) > LastDay

Stored == {c \in Certs : rows[c] # NoRow}
Live(c) == rows[c].status # "rejected"
Of(p, d) == {c \in Stored : rows[c].owner = p /\ rows[c].date = d}
Latest(S) == CHOOSE c \in S : \A e \in S : e <= c

-----------------------------------------------------------------------------
(* Submitting *)

\* What submission_status answers for the participant at this moment.
Verdict(p) ==
    LET target == Target(time)
        mine == Of(p, target)
    IN  IF p \in Barred THEN "DISQUALIFIED"
        ELSE IF Outside(target) THEN "OUTSIDE_EVENT"
        ELSE IF mine # {} /\ Live(Latest(mine)) THEN "ALREADY_CERTIFIED"
        ELSE "can_submit"

\* The card "certify today": the form is there only while the status the page
\* has allows it; every other answer, and a failed one, puts a notice in its place.
FormShown(answer) == answer = "can_submit"

\* The page asks for the status every minute and after every upload.  (A poll
\* during an upload changes nothing: the answer of the upload asks again.)
Poll(g) ==
    /\ upload[g] = None
    /\ \E answer \in {Verdict(PageOwner[g]), "failed"} :
          /\ FormShown(answer) # page[g].form
          /\ page' = [page EXCEPT ![g].form = FormShown(answer)]
    /\ UNCHANGED <<serverVars, upload, review, modal>>

\* The dropzone takes a file of a listed type and size; another leaves what it had.
PickFile(g) ==
    /\ page[g].form /\ ~page[g].chosen
    /\ page' = [page EXCEPT ![g].chosen = TRUE]
    /\ UNCHANGED <<serverVars, upload, review, modal>>

RemoveFile(g) ==
    /\ page[g].form /\ page[g].chosen /\ upload[g] = None
    /\ page' = [page EXCEPT ![g].chosen = FALSE]
    /\ UNCHANGED <<serverVars, upload, review, modal>>

\* The answer to an upload: success empties the dropzone; an error, or an
\* answer lost on the way, leaves the photo where it is.
Answered(g, stored, statusThen) ==
    \E heard \in BOOLEAN :
        page' = [page EXCEPT ![g] = [chosen |-> ~(stored /\ heard),
                                     form |-> FormShown(statusThen)]]

\* The photo is sent and the server makes its checks: the status, then size and
\* content.  The dropzone goes by the name of a file, the server by its first
\* bytes: they may differ.  (A request that is late to arrive is a late click.)
Upload(g) ==
    /\ page[g].form /\ page[g].chosen /\ upload[g] = None
    /\ \/ /\ Verdict(PageOwner[g]) = "can_submit"
          /\ upload' = [upload EXCEPT ![g] =
                          [stage |-> "checked", date |-> Target(time), cert |-> 0,
                           late |-> FALSE]]
          /\ UNCHANGED page
       \/ UNCHANGED upload /\ Answered(g, FALSE, Verdict(PageOwner[g]))
    /\ UNCHANGED <<serverVars, review, modal>>

Inserting == {g \in Pages : upload[g].stage = "inserted"}

\* Mutant: the table has no such index.
IndexHoldsAlways(p, d) == TRUE

\* The partial unique index: one row that is not rejected per participant and day.
IndexHolds(p, d) == \A c \in Of(p, d) : ~Live(c)

FileName(c) == c

\* Insert under a savepoint, then the file.  An uncommitted row of the same day
\* makes the index wait for that transaction to end.
InsertUpload(g) ==
    LET p == PageOwner[g]
        d == upload[g].date
    IN  /\ upload[g].stage = "checked"
        /\ \A h \in Inserting : <<PageOwner[h], upload[h].date>> # <<p, d>>
        /\ nextId \in Certs
        /\ nextId' = nextId + 1
        /\ \/ /\ IndexHolds(p, d)
              /\ upload' = [upload EXCEPT ![g] =
                              [@ EXCEPT !.stage = "inserted", !.cert = nextId]]
              /\ files' = files \cup {FileName(nextId)}
              /\ UNCHANGED page
           \/ /\ ~IndexHolds(p, d)
              /\ upload' = [upload EXCEPT ![g] = None]
              /\ Answered(g, FALSE, Verdict(p))
              /\ UNCHANGED files
        /\ UNCHANGED <<time, rows, crashed, opened, opening, purgeVars, review, modal>>

CommitUpload(g) ==
    LET p == PageOwner[g]
        d == upload[g].date
    IN  /\ upload[g].stage = "inserted"
        /\ rows' = [rows EXCEPT ![upload[g].cert] =
                      [owner |-> p, date |-> d, status |-> "pending",
                       image |-> TRUE, paid |-> FALSE]]
        /\ upload' = [upload EXCEPT ![g] = None]
        /\ Answered(g, TRUE, IF d = Target(time) THEN "ALREADY_CERTIFIED"
                             ELSE Verdict(p))
        /\ UNCHANGED <<time, nextId, files, crashed, opened, opening, purgeVars,
                       review, modal>>

\* track_new_file: what a rolled back transaction wrote is deleted again.
RemovedOnRollback(c) == {FileName(c)}

RollbackUpload(g) ==
    /\ upload[g].stage = "inserted"
    /\ files' = files \ RemovedOnRollback(upload[g].cert)
    /\ upload' = [upload EXCEPT ![g] = None]
    /\ Answered(g, FALSE, Verdict(PageOwner[g]))
    /\ UNCHANGED <<time, rows, nextId, crashed, opened, opening, purgeVars, review, modal>>

-----------------------------------------------------------------------------
(* Reviewing *)

\* Photos are shown with the row that has one; of a row whose photo is deleted
\* both views say so.
Offered(c) == c \in Stored /\ rows[c].image

\* A pending row of the list is picked; the dialog goes on showing it as pending
\* whatever becomes of it.  (Any other row is only shown, without buttons.  A
\* row picked from a list that is no longer true is one picked earlier.)
Pick(r, c) ==
    /\ modal[r] = 0
    /\ c \in Stored /\ rows[c].status = "pending"
    /\ modal' = [modal EXCEPT ![r] = c]
    /\ UNCHANGED <<serverVars, upload, page, review>>

\* Escape, the backdrop, the cross and the button close the dialog, also while
\* its review is under way.
Close(r) ==
    /\ modal[r] # 0
    /\ modal' = [modal EXCEPT ![r] = 0]
    /\ UNCHANGED <<serverVars, upload, page, review>>

\* The answer to a review.  Success and ALREADY_REVIEWED close whatever is open
\* by then; another error, or a broken connection, leaves the dialog as it is.
ReviewAnswered(r, closes) ==
    \/ closes /\ modal' = [modal EXCEPT ![r] = 0]
    \/ UNCHANGED modal

\* The request reaches the server, which reads the row without a lock: PENDING,
\* or ALREADY_REVIEWED.
SendReview(r, approve) ==
    LET c == modal[r]
    IN  /\ c # 0 /\ review[r] = None
        /\ \/ /\ rows[c].status = "pending"
              /\ review' = [review EXCEPT ![r] =
                              [stage |-> "read", cert |-> c, approve |-> approve, late |-> FALSE]]
              /\ UNCHANGED modal
           \/ /\ rows[c].status # "pending"
              /\ ReviewAnswered(r, TRUE)
              /\ UNCHANGED review
        /\ UNCHANGED <<serverVars, upload, page>>

\* The update by primary key overwrites whatever the row has become.  Approving
\* a row that was rejected meanwhile meets the unique index, which waits for an
\* insert under way and fails if the day has another row.
CommitReview(r) ==
    LET v == review[r]
        c == v.cert
        p == rows[c].owner
        d == rows[c].date
        reenters == v.approve /\ ~Live(c)
    IN  /\ v.stage = "read"
        /\ review' = [review EXCEPT ![r] = None]
        /\ reenters => \A h \in Inserting : <<PageOwner[h], upload[h].date>> # <<p, d>>
        /\ \/ /\ reenters => IndexHolds(p, d)
              /\ rows' = [rows EXCEPT ![c] =
                            [@ EXCEPT !.status = IF v.approve THEN "approved"
                                                 ELSE "rejected"]]
              /\ ReviewAnswered(r, TRUE)
           \/ /\ reenters /\ ~IndexHolds(p, d)
              /\ UNCHANGED <<rows, modal>>
        /\ UNCHANGED <<time, nextId, files, crashed, opened, opening, purgeVars,
                       upload, page>>

-----------------------------------------------------------------------------
(* Rewards, purge, time and crashes *)

\* A request that began half a day ago is still under way.  Bound: none is at an
\* opening, which is at 09:00 at the earliest.
SomeLate ==
    \/ \E g \in Pages : upload[g] # None /\ upload[g].late
    \/ \E r \in Reviewers : review[r] # None /\ review[r].late

\* Approved, not yet paid, of an earlier day, and not of somebody barred.
Owed(d) ==
    {c \in Stored : /\ rows[c].status = "approved" /\ ~rows[c].paid
                    /\ rows[c].date < d
                    /\ rows[c].owner \notin Barred}

\* An opening that has nobody to pay changes nothing here and is left out.
StartOpening(d) ==
    /\ opening = None /\ ~SomeLate
    /\ d = DayAt(time) /\ d \in Days /\ d > opened
    /\ Owed(d) # {}
    /\ opening' = [stage |-> "selected", day |-> d, owed |-> Owed(d)]
    /\ UNCHANGED <<time, rows, nextId, files, crashed, opened, purgeVars,
                   upload, page, review, modal>>

CommitOpening ==
    /\ opening # None
    /\ rows' = [c \in Certs |-> IF c \in opening.owed
                                THEN [rows[c] EXCEPT !.paid = TRUE] ELSE rows[c]]
    /\ opened' = opening.day
    /\ opening' = None
    /\ UNCHANGED <<time, nextId, files, crashed, purgeVars, upload, page,
                   review, modal>>

Purging == purge.stage # "none"

MayPurge(force) == force \/ Ended

\* The command, a process of its own, selects the rows that have a photo ...
StartPurge(force) ==
    /\ ~Purging /\ MayPurge(force)
    /\ force => ~forced /\ ~Ended /\ time \in ForcedAt
    /\ forced' = (forced \/ force)
    /\ purge' = [stage |-> "selected", records |-> {c \in Stored : rows[c].image}, left |-> {}]
    /\ UNCHANGED <<time, rows, nextId, files, crashed, opened, opening, strays,
                   upload, page, review, modal>>

\* ... lists the upload directory, whether or not a row knows a photo ...
ListPhotos ==
    /\ purge.stage = "selected"
    /\ purge' = [purge EXCEPT !.stage = "listed", !.left = files]
    /\ UNCHANGED <<time, rows, nextId, files, crashed, opened, opening, forced,
                   strays, upload, page, review, modal>>

\* ... deletes one photo after the other, also one that an upload under way has
\* written (one that is gone already is no error) ...
DeletePhoto(f) ==
    /\ f \in purge.left \cap files
    /\ files' = files \ {f}
    /\ purge' = [purge EXCEPT !.left = @ \ {f}]
    /\ strays' = strays \cup ({f} \ purge.records)
    /\ UNCHANGED <<time, rows, nextId, crashed, opened, opening, forced, upload,
                   page, review, modal>>

\* Mutant: the rows are selected only when the photos are gone.
PurgedNow == {c \in Stored : rows[c].image}

PurgedRows == purge.records

\* ... and commits that the rows it selected have none.
CommitPurge ==
    /\ purge.stage = "listed" /\ purge.left \cap files = {}
    /\ rows' = [c \in Certs |-> IF c \in PurgedRows
                                THEN [rows[c] EXCEPT !.image = FALSE] ELSE rows[c]]
    /\ strays' = strays \ PurgedRows
    /\ purge' = NoPurge
    /\ UNCHANGED <<time, nextId, files, crashed, opened, opening, forced, upload,
                   page, review, modal>>

\* The purge dies or breaks: its rows are rolled back, what it deleted is gone.
PurgeDies ==
    /\ ~crashed /\ Purging
    /\ crashed' = TRUE
    /\ strays' = strays \cup (purge.records \ files)
    /\ purge' = NoPurge
    /\ UNCHANGED <<time, rows, nextId, files, opened, opening, forced, upload,
                   page, review, modal>>

\* The server process dies: what was not committed is gone, what was written to
\* the upload directory is not.  The views see their connections break.
Crash ==
    /\ ~crashed
    /\ Inserting # {} \/ opening # None
    /\ crashed' = TRUE
    /\ upload' = [g \in Pages |-> None]
    /\ review' = [r \in Reviewers |-> None]
    /\ opening' = None
    /\ UNCHANGED <<time, rows, nextId, files, opened, purgeVars, page, modal>>

Delayed(request) == IF request = None THEN None ELSE [request EXCEPT !.late = TRUE]

\* Half a day passes.  Bound: no request outlives the half day after the one it
\* began in, nor an opening or a purge the half day it runs in.
Tick ==
    /\ time < 2 * LastDay
    /\ ~SomeLate /\ opening = None /\ ~Purging
    /\ time' = time + 1
    /\ upload' = [g \in Pages |-> Delayed(upload[g])]
    /\ review' = [r \in Reviewers |-> Delayed(review[r])]
    /\ UNCHANGED <<rows, nextId, files, crashed, opened, opening, purgeVars, page, modal>>

Init ==
    /\ time = 0
    /\ rows = [c \in Certs |-> NoRow]
    /\ nextId = 1
    /\ files = {}
    /\ crashed = FALSE
    /\ opened = 0
    /\ opening = None
    /\ forced = FALSE
    /\ purge = NoPurge
    /\ strays = {}
    /\ upload = [g \in Pages |-> None]
    /\ page = [g \in Pages |-> [form |-> FALSE, chosen |-> FALSE]]
    /\ review = [r \in Reviewers |-> None]
    /\ modal = [r \in Reviewers |-> 0]

PageStep(g) ==
    \/ Poll(g) \/ PickFile(g) \/ RemoveFile(g) \/ Upload(g)
    \/ InsertUpload(g) \/ CommitUpload(g) \/ RollbackUpload(g)

ReviewStep(r) ==
    \/ \E c \in Certs : Pick(r, c)
    \/ Close(r)
    \/ \E approve \in BOOLEAN : SendReview(r, approve)
    \/ CommitReview(r)

Next ==
    \/ \E g \in Pages : PageStep(g)
    \/ \E r \in Reviewers : ReviewStep(r)
    \/ \E d \in Days : StartOpening(d)
    \/ CommitOpening
    \/ \E force \in BOOLEAN : StartPurge(force)
    \/ ListPhotos
    \/ \E f \in files : DeletePhoto(f)
    \/ CommitPurge \/ PurgeDies \/ Crash \/ Tick

Spec == Init /\ [][Next]_vars

-----------------------------------------------------------------------------
\* The rows, files and view states have their types; a row is known to the
\* sequence of ids and belongs to an operating day.
TypeOK ==
    /\ time \in 0 .. 2 * LastDay /\ nextId \in 1 .. MaxCerts + 1
    /\ opened \in 0 .. LastDay /\ crashed \in BOOLEAN
    /\ \A c \in Stored : rows[c] \in CertRow /\ rows[c].date \in Days /\ c < nextId
    /\ files \subseteq Certs /\ strays \subseteq Certs /\ forced \in BOOLEAN
    /\ purge \in [stage : {"none", "selected", "listed"}, records : SUBSET Certs,
                  left : SUBSET Certs]
    /\ \A g \in Pages :
          /\ upload[g].stage \in {"none", "checked", "inserted"}
          /\ page[g] \in [form : BOOLEAN, chosen : BOOLEAN]
    /\ \A r \in Reviewers : review[r].stage \in {"none", "read"}

\* One certification a day: however two devices of a participant submit, two
\* administrators review and an opening pays side by side, a day never has two
\* certifications that count, nor two rewards.
OneRewardPerDay ==
    \A p \in Participants, d \in Days :
        /\ Cardinality({c \in Of(p, d) : Live(c)}) <= 1
        /\ Cardinality({c \in Of(p, d) : rows[c].paid}) <= 1

\* Photos and rows agree, whatever a purge meets in the directory.  No photo is
\* kept that nothing accounts for: it belongs to a row that says so or to a
\* transaction still under way, unless a process died before its commit (the
\* purge finds that one too).  A row that says it has a photo has it, unless a
\* purge under way will say otherwise, or one deleted it beneath the upload or
\* died half-way.  And no photo is lost before the event is over unless a purge
\* is forced.
PhotosAccounted ==
    /\ \A f \in files :
          \/ f \in Stored /\ rows[f].image
          \/ f \in purge.records
          \/ \E g \in Inserting : FileName(upload[g].cert) = f
          \/ crashed
    /\ \A c \in Stored : Offered(c) => FileName(c) \in files \cup purge.records \cup strays
    /\ \A c \in Stored : ~Ended /\ ~forced => Offered(c) /\ FileName(c) \in files
=============================================================================
