------------------------ MODULE CertificationProofs ------------------------
(* What submissions, reviews, openings and the purge keep, for any number of *)
(* participants, pages, administrators and days: one certification a day    *)
(* that counts, one that is paid, and no photo unaccounted for.             *)
EXTENDS Certification, FiniteSetTheorems, TLAPS

-----------------------------------------------------------------------------
(* The inductive invariant *)

UploadRecord ==
    [stage : {"checked", "inserted"}, date : Days, cert : 0 .. MaxCerts, late : BOOLEAN]
ReviewRecord == [stage : {"read"}, cert : Certs, approve : BOOLEAN, late : BOOLEAN]
OpeningRecord == [stage : {"selected"}, day : Days, owed : SUBSET Certs]

\* The types TypeOK leaves open.
RequestTypes ==
    /\ rows \in [Certs -> CertRow \cup {NoRow}]
    /\ upload \in [Pages -> UploadRecord \cup {None}]
    /\ page \in [Pages -> [form : BOOLEAN, chosen : BOOLEAN]]
    /\ review \in [Reviewers -> ReviewRecord \cup {None}]
    /\ modal \in [Reviewers -> 0 .. MaxCerts]
    /\ opening \in OpeningRecord \cup {None}

\* An id under way is nobody's yet, and what others refer to is a row.
IdsKept ==
    /\ \A g \in Inserting :
          /\ upload[g].cert \in Certs \ Stored /\ upload[g].cert < nextId
          /\ \A h \in Inserting : upload[g].cert = upload[h].cert => g = h
    /\ \A r \in Reviewers :
          /\ modal[r] # 0 => modal[r] \in Stored
          /\ review[r] # None => review[r].cert \in Stored
    /\ opening # None => opening.owed \subseteq Stored
    /\ purge.records \subseteq Stored

SameDay(c, e) == rows[c].owner = rows[e].owner /\ rows[c].date = rows[e].date

\* The index, over committed rows and over those under way.
IndexKept ==
    /\ \A c, e \in Stored : SameDay(c, e) /\ Live(c) /\ Live(e) => c = e
    /\ \A g \in Inserting :
          /\ IndexHolds(PageOwner[g], upload[g].date)
          /\ \A h \in Inserting :
                <<PageOwner[g], upload[g].date>> = <<PageOwner[h], upload[h].date>> => g = h

\* A day gets no row any more once the next one has begun.
UploadsTimely ==
    \A g \in Pages : upload[g] # None =>
        /\ time < 2 * upload[g].date
        /\ ~upload[g].late => time < 2 * upload[g].date - 1

Past(c) == rows[c].date < DayAt(time)
UnderReview(c) == \E r \in Reviewers : review[r] # None /\ review[r].cert = c
Waits(c) ==
    \/ rows[c].status = "pending"
    \/ \E r \in Reviewers : review[r] # None /\ review[r].cert = c /\ ~review[r].late

\* Of the rows of a past day one at most can still be approved by a request of
\* this half day.
OneWaits ==
    \A c, e \in Stored : SameDay(c, e) /\ Past(c) /\ Waits(c) /\ Waits(e) => c = e

\* Paid, or selected by the opening under way.
Chosen(c) == rows[c].paid \/ (opening # None /\ c \in opening.owed)

\* A row that is chosen is the only one of its day that counts or is paid, and
\* stays the only one: either nothing can reject it, or nothing approves another.
ChosenAlone ==
    \A c \in Stored : Chosen(c) =>
        /\ Past(c) /\ rows[c].status # "pending"
        /\ \A e \in Stored : e # c /\ SameDay(c, e) =>
              /\ ~Live(e) /\ ~Chosen(e)
              /\ (Live(c) /\ ~UnderReview(c)) \/ ~UnderReview(e)

\* What a purge under way selected it also lists, and what it will not say of a
\* row is kept among the strays, of an upload under way too.
PhotosKept ==
    /\ PhotosAccounted
    /\ \A g \in Inserting :
          /\ FileName(upload[g].cert) \in files \cup strays
          /\ ~Ended /\ ~forced => FileName(upload[g].cert) \in files
    /\ Purging => Ended \/ forced
    /\ ~Purging => purge = NoPurge
    /\ purge.stage = "listed" => purge.records \cap files \subseteq purge.left

IndInv ==
    /\ TypeOK /\ RequestTypes /\ IdsKept
    /\ IndexKept /\ UploadsTimely /\ OneWaits /\ ChosenAlone
    /\ PhotosKept

-----------------------------------------------------------------------------
(* Facts about the records *)

LEMMA RowIsReal == \A x \in CertRow : x # NoRow
<1> SUFFICES ASSUME NEW x \in CertRow, x = NoRow PROVE FALSE
  OBVIOUS
<1>1. "date" \in DOMAIN x
  BY DEF CertRow
<1>2. DOMAIN NoRow = {"owner"}
  BY DEF NoRow
<1> QED BY <1>1, <1>2

LEMMA RequestIsReal ==
    /\ \A x \in UploadRecord : x # None
    /\ \A x \in ReviewRecord : x # None
    /\ \A x \in OpeningRecord : x # None
BY DEF UploadRecord, ReviewRecord, OpeningRecord, None

LEMMA StoredRows ==
    ASSUME RequestTypes
    PROVE  /\ Stored \subseteq Certs
           /\ \A c \in Stored : rows[c] \in CertRow
           /\ \A c \in Certs : rows[c] \in CertRow => c \in Stored
BY RowIsReal DEF RequestTypes, Stored

LEMMA UploadsUnderWay ==
    ASSUME RequestTypes
    PROVE  /\ Inserting \subseteq Pages
           /\ \A g \in Pages : upload[g].stage = "none" <=> upload[g] = None
           /\ \A g \in Pages : upload[g] # None => upload[g] \in UploadRecord
           /\ \A g \in Inserting : upload[g] # None
BY RequestIsReal DEF RequestTypes, Inserting, UploadRecord, None

\* The bounds and the calendar are numbers.
LEMMA Numbers ==
    /\ LastDay \in Nat \ {0} /\ MaxCerts \in Nat
    /\ Days \subseteq Nat /\ Certs \subseteq Nat /\ 0 \notin Certs
    /\ \A t \in Nat : DayAt(t) \in Nat /\ Target(t) \in Nat
    /\ \A t \in Nat : 2 * Target(t) - 2 = t \/ 2 * Target(t) - 3 = t
BY CertificationAssumption DEF Days, Certs, DayAt, Target

LEMMA IndInvInit == Init => IndInv
<1> SUFFICES ASSUME Init PROVE IndInv
  OBVIOUS
<1>1. Stored = {} /\ Inserting = {}
  BY DEF Init, Stored, Inserting, None
<1>2. TypeOK
  <2>1. 0 \in 0 .. 2 * LastDay /\ 1 \in 1 .. MaxCerts + 1 /\ 0 \in 0 .. LastDay
    BY CertificationAssumption
  <2>2. NoPurge \in [stage : {"none", "selected", "listed"}, records : SUBSET Certs,
                    left : SUBSET Certs]
    BY DEF NoPurge
  <2> QED BY <1>1, <2>1, <2>2 DEF Init, TypeOK, None
<1>3. RequestTypes
  BY Numbers DEF Init, RequestTypes
<1>4. IdsKept /\ IndexKept /\ UploadsTimely /\ OneWaits /\ ChosenAlone
  BY <1>1 DEF Init, NoPurge, IdsKept, IndexKept, UploadsTimely, OneWaits, ChosenAlone
<1>5. PhotosKept
  BY <1>1 DEF Init, NoPurge, PhotosKept, PhotosAccounted, Purging
<1> QED BY <1>2, <1>3, <1>4, <1>5 DEF IndInv

\* What every step starts from.
LEMMA Before ==
    ASSUME IndInv
    PROVE  /\ time \in Nat /\ nextId \in Nat /\ opened \in Nat
           /\ Stored \subseteq Certs /\ Inserting \subseteq Pages
           /\ \A c \in Stored : rows[c] \in CertRow /\ rows[c].date \in Days /\ c < nextId
           /\ \A g \in Pages : upload[g] # None => upload[g] \in UploadRecord
           /\ \A g \in Inserting : upload[g] # None /\ upload[g].stage = "inserted"
           /\ \A r \in Reviewers : review[r] # None => review[r] \in ReviewRecord
           /\ opening # None => opening \in OpeningRecord
BY StoredRows, UploadsUnderWay, CertificationAssumption DEF IndInv, TypeOK, RequestTypes, Inserting

\* A step of a view that no request follows.
LEMMA ViewStep ==
    ASSUME IndInv, UNCHANGED <<serverVars, upload, review>>,
           page' \in [Pages -> [form : BOOLEAN, chosen : BOOLEAN]],
           modal' \in [Reviewers -> 0 .. MaxCerts],
           \A r \in Reviewers : modal'[r] # 0 => modal'[r] \in Stored
    PROVE  IndInv'
<1> USE DEF IndInv, serverVars, purgeVars
<1>0. Stored' = Stored /\ Inserting' = Inserting
  BY DEF Stored, Inserting
<1>1. TypeOK' /\ RequestTypes'
  BY <1>0 DEF TypeOK, RequestTypes
<1>2. IdsKept'
  BY <1>0 DEF IdsKept
<1>3. IndexKept'
  BY <1>0 DEF IndexKept, SameDay, Live, IndexHolds, Of
<1>4. UploadsTimely'
  BY DEF UploadsTimely
<1>5. OneWaits' /\ ChosenAlone'
  BY <1>0 DEF OneWaits, ChosenAlone, SameDay, Past, Waits, Chosen, Live, UnderReview
<1>6. PhotosKept'
  BY <1>0 DEF PhotosKept, PhotosAccounted, Purging, Offered, Ended
<1> QED BY <1>1, <1>2, <1>3, <1>4, <1>5, <1>6

LEMMA PageTypes ==
    ASSUME RequestTypes, NEW g \in Pages, NEW stored \in BOOLEAN, NEW verdict,
           Answered(g, stored, verdict)
    PROVE  page' \in [Pages -> [form : BOOLEAN, chosen : BOOLEAN]]
BY DEF RequestTypes, Answered, FormShown

\* What a page does by itself.
LEMMA PageViewsKeep ==
    ASSUME IndInv, NEW g \in Pages, Poll(g) \/ PickFile(g) \/ RemoveFile(g)
    PROVE  IndInv'
<1> USE DEF IndInv, purgeVars
<1>1. page' \in [Pages -> [form : BOOLEAN, chosen : BOOLEAN]]
  <2> DEFINE States == [form : BOOLEAN, chosen : BOOLEAN]
  <2>1. page \in [Pages -> States] /\ page[g] \in States
    BY DEF RequestTypes
  <2>2. \A b \in BOOLEAN : /\ [page[g] EXCEPT !.form = b] \in States
                           /\ [page[g] EXCEPT !.chosen = b] \in States
    BY <2>1
  <2>3. \E b \in BOOLEAN : \/ page' = [page EXCEPT ![g] = [page[g] EXCEPT !.form = b]]
                           \/ page' = [page EXCEPT ![g] = [page[g] EXCEPT !.chosen = b]]
    BY <2>1 DEF Poll, PickFile, RemoveFile, FormShown
  <2> HIDE DEF States
  <2>4. page' \in [Pages -> States]
    BY <2>1, <2>2, <2>3
  <2> QED BY <2>4 DEF States
<1>2. UNCHANGED <<serverVars, upload, review, modal>>
  BY DEF Poll, PickFile, RemoveFile
<1> QED BY <1>1, <1>2, ViewStep DEF RequestTypes, IdsKept

\* A row is picked, or the dialog is closed.
LEMMA DialogsKeep ==
    ASSUME IndInv, NEW r \in Reviewers, (\E c \in Certs : Pick(r, c)) \/ Close(r)
    PROVE  IndInv'
<1> USE DEF IndInv, purgeVars
<1>1. UNCHANGED <<serverVars, upload, page, review>>
  BY DEF Pick, Close
<1>2. modal' \in [Reviewers -> 0 .. MaxCerts]
      /\ \A q \in Reviewers : modal'[q] # 0 => modal'[q] \in Stored
  <2>1. \E m \in Stored \cup {0} : modal' = [modal EXCEPT ![r] = m]
    BY DEF Pick, Close
  <2>2. \A m \in Stored \cup {0} : m \in 0 .. MaxCerts
    BY Numbers DEF Stored, Certs
  <2> QED BY <2>1, <2>2 DEF RequestTypes, IdsKept
<1> QED BY <1>1, <1>2, ViewStep DEF RequestTypes

-----------------------------------------------------------------------------
(* Uploads *)

\* A step that leaves the rows, the reviews and the opening alone keeps what is
\* said of them.
LEMMA RowsAlone ==
    ASSUME IndInv, UNCHANGED <<time, rows, opening, review>>
    PROVE  OneWaits' /\ ChosenAlone'
BY DEF IndInv, OneWaits, ChosenAlone, SameDay, Past, Waits, Chosen, Live, UnderReview, Stored

\* One that leaves the photos, and what the rows say of them, does so too.
LEMMA PhotosUntouched ==
    ASSUME IndInv, UNCHANGED <<time, files, crashed, purgeVars, upload>>,
           Stored' = Stored, Inserting' = Inserting,
           \A c \in Stored : rows'[c].image <=> rows[c].image
    PROVE  PhotosKept'
<1>1. \A c \in Stored : Offered(c)' <=> Offered(c)
  BY DEF Offered
<1>2. PhotosAccounted'
  BY <1>1 DEF IndInv, purgeVars, PhotosKept, PhotosAccounted, Ended
<1> QED BY <1>2 DEF IndInv, purgeVars, PhotosKept, Purging, Ended

LEMMA UploadKeeps ==
    ASSUME IndInv, NEW g \in Pages, Upload(g)
    PROVE  IndInv'
<1> USE DEF IndInv, purgeVars
<1>a. CASE UNCHANGED upload
  <2>1. page' \in [Pages -> [form : BOOLEAN, chosen : BOOLEAN]]
    BY <1>a, PageTypes, RequestIsReal, Before DEF Upload, RequestTypes
  <2>2. UNCHANGED <<serverVars, review, modal>>
    BY DEF Upload
  <2> QED BY <1>a, <2>1, <2>2, ViewStep DEF RequestTypes, IdsKept
<1>b. CASE upload' # upload
  <2> DEFINE request == [stage |-> "checked", date |-> Target(time), cert |-> 0, late |-> FALSE]
  <2>1. /\ upload[g] = None /\ upload' = [upload EXCEPT ![g] = request]
        /\ Verdict(PageOwner[g]) = "can_submit"
        /\ UNCHANGED <<serverVars, page, review, modal>>
    BY <1>b DEF Upload
  <2>2. Target(time) \in Days
    BY <2>1 DEF Verdict, Outside
  <2>3. request \in UploadRecord
    BY <2>2, Numbers DEF UploadRecord
  <2>4. Stored' = Stored /\ Inserting' = Inserting
    BY <2>1 DEF Stored, Inserting, serverVars, None, RequestTypes
  <2>5. \A h \in Inserting : upload'[h] = upload[h]
    BY <2>1 DEF Inserting, None, RequestTypes
  <2>6. TypeOK' /\ RequestTypes'
    BY <2>1, <2>3, <2>4 DEF TypeOK, RequestTypes, serverVars
  <2>7. IdsKept' /\ IndexKept'
    BY <2>1, <2>4, <2>5 DEF IdsKept, IndexKept, serverVars, SameDay, Live, IndexHolds, Of
  <2>8. UploadsTimely'
    BY <2>1, <2>2, Before, Numbers DEF UploadsTimely, serverVars, RequestTypes
  <2>9. OneWaits' /\ ChosenAlone'
    BY <2>1, RowsAlone DEF serverVars
  <2>10. PhotosKept'
    BY <2>1, <2>4, <2>5 DEF PhotosKept, PhotosAccounted, Purging, Offered, Ended, serverVars
  <2> QED BY <2>6, <2>7, <2>8, <2>9, <2>10
<1> QED BY <1>a, <1>b

LEMMA InsertUploadKeeps ==
    ASSUME IndInv, NEW g \in Pages, InsertUpload(g)
    PROVE  IndInv'
<1> USE DEF IndInv, purgeVars
<1>0. /\ upload[g].stage = "checked" /\ nextId \in Certs /\ nextId' = nextId + 1
      /\ UNCHANGED <<time, rows, crashed, opened, opening, purgeVars, review, modal>>
      /\ upload[g] # None
  BY DEF InsertUpload, None
<1>1. page' \in [Pages -> [form : BOOLEAN, chosen : BOOLEAN]]
  BY PageTypes DEF InsertUpload, RequestTypes
<1>2. nextId + 1 \in 1 .. MaxCerts + 1
  BY <1>0, Numbers DEF Certs
<1>3. Stored' = Stored /\ nextId \notin Stored
  BY <1>0, Before, Numbers DEF Stored
<1>4. \A c \in Stored : c < nextId'
  <2>1. nextId \in Nat /\ \A c \in Stored : c \in Nat /\ c < nextId
    BY Before, Numbers
  <2> QED BY <1>0, <2>1
<1>5. OneWaits' /\ ChosenAlone'
  BY <1>0, RowsAlone
<1>a. CASE ~IndexHolds(PageOwner[g], upload[g].date)
  <2>1. upload' = [upload EXCEPT ![g] = None] /\ UNCHANGED files
    BY <1>a DEF InsertUpload
  <2>2. Inserting' = Inserting /\ \A h \in Inserting : upload'[h] = upload[h]
    BY <1>0, <2>1 DEF Inserting, None, RequestTypes
  <2>3. TypeOK' /\ RequestTypes'
    BY <1>0, <1>1, <1>2, <1>3, <1>4, <2>1 DEF TypeOK, RequestTypes, None
  <2>4. IdsKept' /\ IndexKept'
    <3>1. IndexKept'
      BY <1>0, <1>3, <2>2 DEF IndexKept, SameDay, Live, IndexHolds, Of
    <3>2. \A h \in Inserting : upload[h].cert < nextId'
      <4>1. \A h \in Inserting : upload[h].cert \in Certs /\ upload[h].cert < nextId
        BY DEF IdsKept
      <4> QED BY <1>0, <4>1, Before, Numbers
    <3> QED BY <1>0, <1>3, <2>2, <3>1, <3>2 DEF IdsKept
  <2>5. UploadsTimely'
    BY <1>0, <2>1 DEF UploadsTimely, RequestTypes
  <2>6. PhotosKept'
    BY <1>0, <1>3, <2>1, <2>2 DEF PhotosKept, PhotosAccounted, Purging, Offered, Ended
  <2> QED BY <1>5, <2>3, <2>4, <2>5, <2>6
<1>b. CASE IndexHolds(PageOwner[g], upload[g].date)
  <2> DEFINE request == [upload[g] EXCEPT !.stage = "inserted", !.cert = nextId]
  <2>1. upload' = [upload EXCEPT ![g] = request] /\ files' = files \cup {FileName(nextId)}
    BY <1>b DEF InsertUpload
  <2>2. request \in UploadRecord
    <3>1. nextId \in 0 .. MaxCerts
      BY <1>0, Numbers DEF Certs
    <3> QED BY <1>0, <3>1, Before DEF UploadRecord
  <2>3. /\ Inserting' = Inserting \cup {g} /\ g \notin Inserting
        /\ upload'[g] = request /\ \A h \in Inserting : upload'[h] = upload[h]
    <3>1. upload'[g] = request /\ \A h \in Pages \ {g} : upload'[h] = upload[h]
      BY <2>1 DEF RequestTypes
    <3>2. request.stage = "inserted"
      BY <1>0, Before DEF UploadRecord
    <3> HIDE DEF request
    <3> QED BY <1>0, <3>1, <3>2 DEF Inserting
  <2>4. /\ request.date = upload[g].date /\ request.cert = nextId
        /\ request.late = upload[g].late
    BY <1>0, Before DEF UploadRecord
  <2> HIDE DEF request
  <2>5. TypeOK' /\ RequestTypes'
    BY <1>0, <1>1, <1>2, <1>3, <1>4, <2>1, <2>2 DEF TypeOK, RequestTypes, FileName, UploadRecord
  <2>6. IdsKept'
    <3>1. \A h \in Inserting : upload[h].cert \in Certs \ Stored /\ upload[h].cert < nextId
      BY DEF IdsKept
    <3>2. nextId < nextId' /\ \A h \in Inserting : upload[h].cert < nextId' /\ upload[h].cert # nextId
      <4>1. \A h \in Inserting : upload[h].cert \in Nat
        BY <3>1, Numbers
      <4> QED BY <1>0, <3>1, <4>1, Before
    <3> QED BY <1>0, <1>3, <2>3, <2>4, <3>1, <3>2 DEF IdsKept
  <2>7. IndexKept'
    <3>1. \A h \in Inserting : <<PageOwner[h], upload[h].date>> # <<PageOwner[g], upload[g].date>>
      BY DEF InsertUpload
    <3>2. \A p, d : IndexHolds(p, d)' <=> IndexHolds(p, d)
      BY <1>0 DEF IndexHolds, Of, Live, Stored
    <3>3. \A c, e \in Stored' : (SameDay(c, e) /\ Live(c) /\ Live(e))' => c = e
      BY <1>0, <1>3 DEF IndexKept, SameDay, Live
    <3> QED BY <1>b, <2>3, <2>4, <3>1, <3>2, <3>3 DEF IndexKept
  <2>8. UploadsTimely'
    BY <1>0, <2>1, <2>4 DEF UploadsTimely, RequestTypes
  <2>9. PhotosKept'
    <3>0. files' = files \cup {nextId} /\ (Ended' <=> Ended) /\ (Purging' <=> Purging)
      BY <1>0, <2>1 DEF FileName, Ended, Purging
    <3>1. \A h \in Inserting' : \/ h = g /\ upload'[h].cert = nextId
                                \/ h \in Inserting /\ upload'[h].cert = upload[h].cert
      BY <2>3, <2>4
    <3>2. g \in Inserting' /\ upload'[g].cert = nextId
          /\ \A h \in Inserting : h \in Inserting' /\ upload'[h].cert = upload[h].cert
      BY <2>3, <2>4
    <3>3. PhotosAccounted'
      <4>1. \A f \in files' : \/ f \in Stored' /\ rows'[f].image
                              \/ f \in purge.records
                              \/ \E h \in Inserting' : FileName(upload'[h].cert) = f
                              \/ crashed
        BY <1>0, <1>3, <3>0, <3>2 DEF PhotosKept, PhotosAccounted, FileName
      <4>2. \A c \in Stored : Offered(c)' <=> Offered(c)
        BY <1>0, <1>3 DEF Offered
      <4> QED BY <1>0, <1>3, <3>0, <4>1, <4>2 DEF PhotosKept, PhotosAccounted, FileName
    <3>4. nextId \notin purge.records
      BY <1>3 DEF IdsKept
    <3> QED BY <1>0, <3>0, <3>1, <3>3, <3>4 DEF PhotosKept, FileName
  <2> QED BY <1>5, <2>5, <2>6, <2>7, <2>8, <2>9
<1> QED BY <1>a, <1>b

\* The id and the day of an upload that has its row.
LEMMA RowUnderWay ==
    ASSUME IndInv, NEW g \in Inserting
    PROVE  /\ g \in Pages /\ upload[g] \in UploadRecord /\ upload[g].stage = "inserted"
           /\ upload[g].cert \in Certs /\ upload[g].cert \notin Stored
           /\ upload[g].cert < nextId
           /\ upload[g].date \in Days /\ time < 2 * upload[g].date
BY Before DEF IndInv, IdsKept, UploadsTimely, UploadRecord

LEMMA PastDays ==
    ASSUME NEW d \in Nat, NEW t \in Nat
    PROVE  d < DayAt(t) <=> 2 * d <= t
BY DEF DayAt

LEMMA CommitUploadKeeps ==
    ASSUME IndInv, NEW g \in Pages, CommitUpload(g)
    PROVE  IndInv'
<1> USE DEF IndInv, purgeVars
<1>u. g \in Inserting
  BY DEF CommitUpload, Inserting
<1>n. PICK n \in Certs, d \in Days : n = upload[g].cert /\ d = upload[g].date
  BY <1>u, RowUnderWay
<1> DEFINE p == PageOwner[g]
           row == [owner |-> p, date |-> d, status |-> "pending", image |-> TRUE, paid |-> FALSE]
<1>0. /\ g \in Inserting /\ n = upload[g].cert /\ d = upload[g].date
      /\ rows' = [rows EXCEPT ![n] = row]
      /\ upload' = [upload EXCEPT ![g] = None]
      /\ UNCHANGED <<time, nextId, files, crashed, opened, opening, purgeVars, review, modal>>
  BY <1>u, <1>n DEF CommitUpload
<1>1. /\ n \in Certs /\ n \notin Stored /\ n < nextId /\ d \in Days /\ time < 2 * d
      /\ p \in Participants
  BY <1>0, RowUnderWay, CertificationAssumption
<1>2. row \in CertRow /\ d \in Nat
  BY <1>1, Numbers DEF CertRow, Statuses
<1>3. /\ row.owner = p /\ row.date = d /\ row.status = "pending"
      /\ row.image = TRUE /\ row.paid = FALSE
  OBVIOUS
<1>4. page' \in [Pages -> [form : BOOLEAN, chosen : BOOLEAN]]
  BY PageTypes DEF CommitUpload, RequestTypes
<1> HIDE DEF row
<1>5. rows' \in [Certs -> CertRow \cup {NoRow}]
  BY <1>0, <1>2 DEF RequestTypes
<1>6. /\ rows'[n] = row /\ \A c \in Certs : c # n => rows'[c] = rows[c]
  BY <1>0, <1>1 DEF RequestTypes
<1>7. Stored' = Stored \cup {n}
  BY <1>1, <1>2, <1>6, RowIsReal DEF Stored
<1>8. /\ Inserting' = Inserting \ {g}
      /\ \A h \in Pages : h # g => upload'[h] = upload[h]
  BY <1>0 DEF Inserting, None, RequestTypes
<1>9. /\ \A c \in Stored : c \in Certs /\ c # n /\ rows'[c] = rows[c]
  BY <1>1, <1>6, Before
<1>10. Live(n)' /\ \A c \in Stored : Live(c)' <=> Live(c)
  BY <1>3, <1>6, <1>9 DEF Live
<1>11. /\ \A c, e \in Stored : SameDay(c, e)' <=> SameDay(c, e)
       /\ \A c \in Stored : SameDay(c, n)' <=> rows[c].owner = p /\ rows[c].date = d
       /\ \A c \in Stored : SameDay(n, c)' <=> rows[c].owner = p /\ rows[c].date = d
  BY <1>3, <1>6, <1>9 DEF SameDay
<1>12. ~Past(n)' /\ \A c \in Stored : Past(c)' <=> Past(c)
  BY <1>0, <1>1, <1>2, <1>3, <1>6, <1>9, PastDays, Before DEF Past
<1>13. TypeOK'
  <2>1. \A c \in Stored' : (rows[c] \in CertRow /\ rows[c].date \in Days /\ c < nextId)'
    BY <1>0, <1>1, <1>2, <1>3, <1>6, <1>7, <1>9, Before
  <2>2. \A h \in Pages : upload'[h].stage \in {"none", "checked", "inserted"}
    BY <1>0 DEF TypeOK, RequestTypes, None
  <2> QED BY <1>0, <1>4, <2>1, <2>2 DEF TypeOK
<1>14. RequestTypes'
  BY <1>0, <1>4, <1>5 DEF RequestTypes
<1>15. IdsKept'
  <2>1. \A h \in Inserting : h # g => upload[h].cert # n
    BY <1>0 DEF IdsKept
  <2> QED BY <1>0, <1>7, <1>8, <2>1, Before DEF IdsKept
<1>16. IndexKept'
  <2>1. \A c \in Stored : rows[c].owner = p /\ rows[c].date = d => ~Live(c)
    BY <1>0 DEF IndexKept, IndexHolds, Of
  <2>2. \A c, e \in Stored' : (SameDay(c, e) /\ Live(c) /\ Live(e))' => c = e
    BY <1>7, <1>10, <1>11, <2>1 DEF IndexKept
  <2>3. ASSUME NEW h \in Inserting, h # g
        PROVE  IndexHolds(PageOwner[h], upload[h].date)'
    <3>1. \A c \in Stored : rows[c].owner = PageOwner[h] /\ rows[c].date = upload[h].date => ~Live(c)
      BY DEF IndexKept, IndexHolds, Of
    <3>2. ~(PageOwner[h] = p /\ upload[h].date = d)
      BY <1>0, <2>3 DEF IndexKept
    <3>3. upload'[h] = upload[h]
      BY <1>8, <2>3, Before
    <3> QED BY <1>3, <1>6, <1>7, <1>9, <1>10, <3>1, <3>2, <3>3 DEF IndexHolds, Of
  <2> QED BY <1>8, <2>2, <2>3, Before DEF IndexKept
<1>17. UploadsTimely'
  BY <1>0 DEF UploadsTimely, RequestTypes
<1>18. OneWaits'
  <2>1. \A c \in Stored : Waits(c)' <=> Waits(c)
    BY <1>0, <1>9 DEF Waits
  <2>2. \A c \in Stored : SameDay(c, n)' => ~Past(c)'
    BY <1>3, <1>6, <1>12 DEF SameDay, Past
  <2> QED BY <1>7, <1>11, <1>12, <2>1, <2>2 DEF OneWaits
<1>19. ChosenAlone'
  <2>1. ~Chosen(n)' /\ \A c \in Stored : Chosen(c)' <=> Chosen(c)
    BY <1>0, <1>1, <1>3, <1>6, <1>9 DEF Chosen, IdsKept
  <2>2. \A c \in Stored : SameDay(c, n)' => ~Past(c)'
    BY <1>3, <1>6, <1>12 DEF SameDay, Past
  <2>3. \A c \in Stored : (UnderReview(c)' <=> UnderReview(c)) /\ rows'[c].status = rows[c].status
    BY <1>0, <1>9 DEF UnderReview
  <2> QED BY <1>7, <1>10, <1>11, <1>12, <2>1, <2>2, <2>3 DEF ChosenAlone
<1>20. PhotosKept'
  <2>1. n \in files \cup strays /\ (~Ended /\ ~forced => n \in files)
    BY <1>0 DEF PhotosKept, FileName
  <2>2. (Ended' <=> Ended) /\ (Purging' <=> Purging)
    BY <1>0 DEF Ended, Purging
  <2>3. ASSUME NEW f \in files
        PROVE  \/ f \in Stored' /\ rows'[f].image
               \/ f \in purge.records
               \/ \E h \in Inserting' : FileName(upload'[h].cert) = f
               \/ crashed
    BY <1>0, <1>3, <1>6, <1>7, <1>8, <1>9, Before DEF PhotosKept, PhotosAccounted, FileName
  <2>4. \A c \in Stored' : Offered(c)' => FileName(c) \in files \cup purge.records \cup strays
    BY <1>6, <1>7, <1>9, <2>1 DEF PhotosKept, PhotosAccounted, FileName, Offered
  <2>5. \A c \in Stored' : ~Ended /\ ~forced => Offered(c)' /\ FileName(c) \in files
    BY <1>3, <1>6, <1>7, <1>9, <2>1 DEF PhotosKept, PhotosAccounted, FileName, Offered
  <2>6. \A h \in Inserting' : /\ FileName(upload'[h].cert) \in files \cup strays
                              /\ ~Ended /\ ~forced => FileName(upload'[h].cert) \in files
    BY <1>8, Before DEF PhotosKept, FileName
  <2>7. PhotosAccounted'
    BY <1>0, <2>2, <2>3, <2>4, <2>5 DEF PhotosAccounted, FileName
  <2> QED BY <1>0, <2>2, <2>6, <2>7 DEF PhotosKept, FileName
<1> QED BY <1>13, <1>14, <1>15, <1>16, <1>17, <1>18, <1>19, <1>20

LEMMA RollbackUploadKeeps ==
    ASSUME IndInv, NEW g \in Pages, RollbackUpload(g)
    PROVE  IndInv'
<1> USE DEF IndInv, purgeVars
<1>0. /\ g \in Inserting
      /\ files' = files \ {upload[g].cert}
      /\ upload' = [upload EXCEPT ![g] = None]
      /\ UNCHANGED <<time, rows, nextId, crashed, opened, opening, purgeVars, review, modal>>
  BY DEF RollbackUpload, Inserting, RemovedOnRollback, FileName
<1>1. page' \in [Pages -> [form : BOOLEAN, chosen : BOOLEAN]]
  BY PageTypes DEF RollbackUpload, RequestTypes
<1>2. Stored' = Stored
  BY <1>0 DEF Stored
<1>3. /\ Inserting' = Inserting \ {g}
      /\ \A h \in Inserting' : upload'[h] = upload[h]
  BY <1>0 DEF Inserting, None, RequestTypes
<1>4. TypeOK' /\ RequestTypes'
  BY <1>0, <1>1, <1>2 DEF TypeOK, RequestTypes, None
<1>5. IdsKept' /\ IndexKept'
  BY <1>0, <1>2, <1>3 DEF IdsKept, IndexKept, SameDay, Live, IndexHolds, Of
<1>6. UploadsTimely'
  BY <1>0 DEF UploadsTimely, RequestTypes
<1>7. OneWaits' /\ ChosenAlone'
  BY <1>0, RowsAlone
<1>8. PhotosKept'
  <2>1. upload[g].cert \notin Stored
    BY <1>0, RowUnderWay
  <2>2. \A h \in Inserting' : upload[h].cert # upload[g].cert
    BY <1>0, <1>3 DEF IdsKept
  <2> QED BY <1>0, <1>2, <1>3, <2>1, <2>2 DEF PhotosKept, PhotosAccounted, Purging, Offered, Ended, FileName
<1> QED BY <1>4, <1>5, <1>6, <1>7, <1>8

-----------------------------------------------------------------------------
(* Reviews *)

LEMMA SendReviewKeeps ==
    ASSUME IndInv, NEW r \in Reviewers, NEW approve \in BOOLEAN, SendReview(r, approve)
    PROVE  IndInv'
<1> USE DEF IndInv, purgeVars
<1> DEFINE c == modal[r]
           request == [stage |-> "read", cert |-> c, approve |-> approve, late |-> FALSE]
<1>0. c \in Stored /\ c \in Certs /\ review[r] = None /\ UNCHANGED <<serverVars, upload, page>>
  BY Before DEF SendReview, IdsKept
<1>a. CASE rows[c].status # "pending"
  <2>1. UNCHANGED review
    BY <1>a DEF SendReview
  <2>2. modal' \in [Reviewers -> 0 .. MaxCerts]
        /\ \A q \in Reviewers : modal'[q] # 0 => modal'[q] \in Stored
    BY <1>a, Numbers DEF SendReview, ReviewAnswered, RequestTypes, IdsKept
  <2> QED BY <1>0, <2>1, <2>2, ViewStep DEF RequestTypes
<1>b. CASE rows[c].status = "pending"
  <2>1. review' = [review EXCEPT ![r] = request] /\ UNCHANGED modal
    BY <1>b DEF SendReview
  <2>2. request \in ReviewRecord /\ request # None
    BY <1>0, RequestIsReal DEF ReviewRecord
  <2>3. request.cert = c /\ request.stage = "read"
    OBVIOUS
  <2> HIDE DEF request
  <2>4. review'[r] = request /\ \A q \in Reviewers : q # r => review'[q] = review[q]
    BY <2>1 DEF RequestTypes
  <2>5. Stored' = Stored /\ Inserting' = Inserting
    BY <1>0 DEF Stored, Inserting, serverVars
  <2>6. TypeOK' /\ RequestTypes'
    BY <1>0, <2>1, <2>2, <2>3, <2>5 DEF TypeOK, RequestTypes, serverVars
  <2>7. IdsKept' /\ IndexKept'
    BY <1>0, <2>1, <2>3, <2>4, <2>5 DEF IdsKept, IndexKept, serverVars, SameDay, Live, IndexHolds, Of
  <2>8. UploadsTimely'
    BY <1>0 DEF UploadsTimely, serverVars
  <2>9. OneWaits'
    <3>1. \A e \in Stored : Waits(e)' => Waits(e)
      BY <1>0, <1>b, <2>3, <2>4 DEF Waits, serverVars
    <3> QED BY <1>0, <2>5, <3>1 DEF OneWaits, SameDay, Past, serverVars
  <2>10. ChosenAlone'
    <3>1. ~Live(c) <=> FALSE
      BY <1>b DEF Live
    <3>2. \A e \in Stored : UnderReview(e)' => UnderReview(e) \/ e = c
      BY <2>3, <2>4 DEF UnderReview
    <3>3. \A e \in Stored : Chosen(e) => e # c
      BY <1>b DEF ChosenAlone
    <3> QED BY <1>0, <2>5, <3>1, <3>2, <3>3 DEF ChosenAlone, SameDay, Past, Chosen, Live, serverVars
  <2>11. PhotosKept'
    BY <1>0, <2>5 DEF PhotosKept, PhotosAccounted, Purging, Offered, Ended, serverVars
  <2> QED BY <2>6, <2>7, <2>8, <2>9, <2>10, <2>11
<1> QED BY <1>a, <1>b

LEMMA CommitReviewKeeps ==
    ASSUME IndInv, NEW r \in Reviewers, CommitReview(r)
    PROVE  IndInv'
<1> USE DEF IndInv, purgeVars
<1>u. review[r] # None /\ review[r].cert \in Stored
  BY DEF CommitReview, None, IdsKept
<1>n. PICK c \in Stored : c = review[r].cert
  BY <1>u
<1>s. PICK s \in {"approved", "rejected"} : s = IF review[r].approve THEN "approved" ELSE "rejected"
  OBVIOUS
<1> DEFINE again == s = "approved" /\ ~Live(c)
<1>0. /\ review' = [review EXCEPT ![r] = None]
      /\ UNCHANGED <<time, nextId, files, crashed, opened, opening, purgeVars, upload, page>>
      /\ again => \A h \in Inserting :
                     <<PageOwner[h], upload[h].date>> # <<rows[c].owner, rows[c].date>>
      /\ \/ /\ rows' = [rows EXCEPT ![c] = [@ EXCEPT !.status = s]]
            /\ again => IndexHolds(rows[c].owner, rows[c].date)
         \/ UNCHANGED rows
  BY <1>n, <1>s DEF CommitReview
<1>1. modal' \in [Reviewers -> 0 .. MaxCerts]
      /\ \A q \in Reviewers : modal'[q] # 0 => modal'[q] \in Stored
  BY Numbers DEF CommitReview, ReviewAnswered, RequestTypes, IdsKept
<1>2. c \in Certs /\ rows[c] \in CertRow
  BY Before
<1>3. /\ rows' \in [Certs -> CertRow \cup {NoRow}] /\ rows'[c] \in CertRow
      /\ \A e \in Certs : e # c => rows'[e] = rows[e]
      /\ rows'[c].owner = rows[c].owner /\ rows'[c].date = rows[c].date
      /\ rows'[c].image = rows[c].image /\ rows'[c].paid = rows[c].paid
      /\ \/ rows'[c].status = rows[c].status
         \/ rows'[c].status = s /\ (again => IndexHolds(rows[c].owner, rows[c].date))
  <2>1. CASE UNCHANGED rows
    BY <2>1, <1>2 DEF RequestTypes
  <2>2. CASE /\ rows' = [rows EXCEPT ![c] = [rows[c] EXCEPT !.status = s]]
             /\ again => IndexHolds(rows[c].owner, rows[c].date)
    <3> DEFINE row == [rows[c] EXCEPT !.status = s]
    <3>1. /\ row \in CertRow /\ row.owner = rows[c].owner /\ row.date = rows[c].date
          /\ row.image = rows[c].image /\ row.paid = rows[c].paid /\ row.status = s
      BY <1>2 DEF CertRow, Statuses
    <3>2. rows' = [rows EXCEPT ![c] = row]
      BY <2>2
    <3> HIDE DEF row, again
    <3> QED BY <1>2, <2>2, <3>1, <3>2 DEF RequestTypes
  <2> HIDE DEF again
  <2> QED BY <1>0, <2>1, <2>2
<1>4. Stored' = Stored
  BY <1>2, <1>3, RowIsReal DEF Stored
<1>5. Inserting' = Inserting
  BY <1>0 DEF Inserting
<1>6. review'[r] = None /\ \A q \in Reviewers : q # r => review'[q] = review[q]
  BY <1>0 DEF RequestTypes
<1>7. \A e \in Stored : e \in Certs /\ rows'[e].owner = rows[e].owner /\ rows'[e].date = rows[e].date
  BY <1>3, Before
<1>8. \A e, f \in Stored : SameDay(e, f)' <=> SameDay(e, f)
  BY <1>7 DEF SameDay
<1>9. \A e \in Stored : (Past(e)' <=> Past(e)) /\ (Chosen(e)' <=> Chosen(e))
  BY <1>0, <1>3, <1>7 DEF Past, Chosen
<1>10. \A e \in Stored : /\ UnderReview(e)' => UnderReview(e)
                         /\ Waits(e)' => Waits(e)
                         /\ rows'[e].status = "pending" => rows[e].status = "pending"
  BY <1>3, <1>6, <1>7 DEF UnderReview, Waits
<1>11. UnderReview(c)
  BY <1>n, <1>u DEF UnderReview
<1>12. \A e \in Stored : /\ e # c => (Live(e)' <=> Live(e))
                         /\ Live(e)' /\ ~Live(e) =>
                              again /\ IndexHolds(rows[c].owner, rows[c].date)
  BY <1>3, <1>7 DEF Live
<1>13. TypeOK' /\ RequestTypes'
  <2>1. \A e \in Stored' : (rows[e] \in CertRow /\ rows[e].date \in Days /\ e < nextId)'
    BY <1>0, <1>3, <1>4, <1>7, Before
  <2>2. review' \in [Reviewers -> ReviewRecord \cup {None}]
    BY <1>0 DEF RequestTypes
  <2>3. TypeOK'
    BY <1>0, <2>1 DEF TypeOK, RequestTypes, None
  <2> QED BY <1>0, <1>1, <1>3, <2>2, <2>3 DEF RequestTypes
<1>14. IdsKept'
  BY <1>0, <1>1, <1>4, <1>5, <1>6 DEF IdsKept
<1>15. IndexKept'
  <2>1. ASSUME NEW e \in Stored, NEW f \in Stored, SameDay(e, f), Live(e)', Live(f)', e # f
        PROVE  FALSE
    <3>1. CASE Live(e) /\ Live(f)
      BY <2>1, <3>1 DEF IndexKept
    <3>2. ASSUME NEW x \in Stored, NEW y \in Stored, x # y, SameDay(x, y), Live(x)', ~Live(x), Live(y)'
          PROVE  FALSE
      <4>1. x = c /\ IndexHolds(rows[c].owner, rows[c].date) /\ Live(y)
        BY <1>12, <3>2
      <4> QED BY <3>2, <4>1 DEF IndexHolds, Of, SameDay
    <3>3. SameDay(f, e)
      BY <2>1 DEF SameDay
    <3> QED BY <2>1, <3>1, <3>2, <3>3
  <2>2. ASSUME NEW h \in Inserting PROVE IndexHolds(PageOwner[h], upload[h].date)'
    <3>1. ASSUME NEW e \in Stored, rows[e].owner = PageOwner[h], rows[e].date = upload[h].date
          PROVE  ~Live(e)'
      <4>1. ~Live(e)
        BY <3>1 DEF IndexKept, IndexHolds, Of
      <4>2. CASE Live(e)'
        BY <1>0, <1>12, <3>1, <4>1, <4>2
      <4> QED BY <4>2
    <3> QED BY <1>0, <1>4, <1>7, <3>1 DEF IndexHolds, Of
  <2> QED BY <1>0, <1>4, <1>5, <1>8, <2>1, <2>2 DEF IndexKept
<1>16. UploadsTimely'
  BY <1>0 DEF UploadsTimely
<1>17. OneWaits'
  BY <1>4, <1>8, <1>9, <1>10 DEF OneWaits
<1>18. ChosenAlone'
  <2>1. ASSUME NEW x \in Stored, Chosen(x), NEW e \in Stored, e # x, SameDay(x, e)
        PROVE  /\ ~Live(e)' /\ ~Chosen(e)'
               /\ (Live(x)' /\ ~UnderReview(x)') \/ ~UnderReview(e)'
    <3>1. /\ ~Live(e) /\ ~Chosen(e)
          /\ (Live(x) /\ ~UnderReview(x)) \/ ~UnderReview(e)
      BY <2>1 DEF ChosenAlone
    <3>2. ~Live(e)'
      <4>1. CASE e # c
        BY <1>12, <3>1, <4>1
      <4>2. CASE e = c
        <5>1. Live(x)
          BY <1>11, <3>1, <4>2
        <5>2. ~IndexHolds(rows[c].owner, rows[c].date)
          BY <2>1, <4>2, <5>1 DEF IndexHolds, Of, SameDay
        <5> QED BY <1>12, <3>1, <5>2
      <4> QED BY <4>1, <4>2
    <3>3. CASE Live(x) /\ ~UnderReview(x)
      BY <1>9, <1>10, <1>11, <1>12, <3>1, <3>2, <3>3
    <3>4. CASE ~UnderReview(e)
      BY <1>9, <1>10, <3>1, <3>2, <3>4
    <3> QED BY <3>1, <3>3, <3>4
  <2>2. \A x \in Stored : Chosen(x) => Past(x) /\ rows'[x].status # "pending"
    BY <1>10 DEF ChosenAlone
  <2> HIDE DEF again
  <2> QED BY <1>4, <1>8, <1>9, <2>1, <2>2 DEF ChosenAlone
<1>19. PhotosKept'
  <2>1. \A e \in Stored : Offered(e)' <=> Offered(e)
    BY <1>3, <1>4, <1>7 DEF Offered
  <2>2. \A e \in Stored : rows'[e].image <=> rows[e].image
    BY <2>1, <1>4 DEF Offered
  <2> QED BY <1>0, <1>4, <1>5, <2>1, <2>2, PhotosUntouched
<1> QED BY <1>13, <1>14, <1>15, <1>16, <1>17, <1>18, <1>19

-----------------------------------------------------------------------------
(* Openings *)

LEMMA StartOpeningKeeps ==
    ASSUME IndInv, NEW d \in Days, StartOpening(d)
    PROVE  IndInv'
<1> USE DEF IndInv, purgeVars
<1>0. /\ opening = None /\ ~SomeLate /\ d = DayAt(time)
      /\ opening' = [stage |-> "selected", day |-> d, owed |-> Owed(d)]
      /\ UNCHANGED <<time, rows, nextId, files, crashed, opened, purgeVars, upload, page, review, modal>>
  BY DEF StartOpening
<1>1. Stored' = Stored /\ Inserting' = Inserting
  BY <1>0 DEF Stored, Inserting
<1>2. opening' \in OpeningRecord /\ opening'.owed = Owed(d) /\ Owed(d) \subseteq Stored
  BY <1>0, Before DEF OpeningRecord, Owed
<1>3. TypeOK' /\ RequestTypes'
  BY <1>0, <1>1, <1>2 DEF TypeOK, RequestTypes
<1>4. IdsKept' /\ IndexKept'
  BY <1>0, <1>1, <1>2 DEF IdsKept, IndexKept, SameDay, Live, IndexHolds, Of
<1>5. UploadsTimely' /\ OneWaits'
  BY <1>0, <1>1 DEF UploadsTimely, OneWaits, SameDay, Past, Waits
<1>6. ChosenAlone'
  <2>1. opening' # None
    BY <1>2, RequestIsReal
  <2>2. \A c \in Stored : Chosen(c)' <=> Chosen(c) \/ c \in Owed(d)
    BY <1>0, <1>2, <2>1 DEF Chosen
  <2>3. \A c \in Owed(d) : /\ c \in Stored /\ Past(c) /\ Live(c) /\ rows[c].status = "approved"
                           /\ ~Chosen(c)
    BY <1>0 DEF Owed, Past, Live, Chosen
  <2>4. ASSUME NEW c \in Stored, UnderReview(c) PROVE Waits(c)
    <3>1. PICK r \in Reviewers : review[r] # None /\ review[r].cert = c
      BY <2>4 DEF UnderReview
    <3>2. ~review[r].late
      BY <1>0, <3>1 DEF SomeLate
    <3> QED BY <3>1, <3>2 DEF Waits
  <2>5. ASSUME NEW c \in Stored, Chosen(c)', NEW e \in Stored, e # c, SameDay(c, e)
        PROVE  /\ ~Live(e) /\ ~Chosen(e)'
               /\ (Live(c) /\ ~UnderReview(c)) \/ ~UnderReview(e)
    <3>1. CASE c \in Owed(d)
      <4>1. ~Live(e)
        BY <2>3, <2>5, <3>1 DEF IndexKept
      <4>2. ~Chosen(e)
        <5>1. SameDay(e, c)
          BY <2>5 DEF SameDay
        <5> QED BY <2>3, <2>5, <3>1, <5>1 DEF ChosenAlone
      <4>3. ~UnderReview(c) \/ ~UnderReview(e)
        BY <2>3, <2>4, <2>5, <3>1 DEF OneWaits
      <4> QED BY <2>2, <2>3, <3>1, <4>1, <4>2, <4>3
    <3>2. CASE Chosen(c)
      BY <2>2, <2>3, <2>5, <3>2 DEF ChosenAlone
    <3> QED BY <2>2, <2>5, <3>1, <3>2
  <2>6. \A c \in Stored : Chosen(c)' => Past(c) /\ rows[c].status # "pending"
    BY <2>2, <2>3 DEF ChosenAlone
  <2>7. \A c, e \in Stored : /\ SameDay(c, e)' <=> SameDay(c, e)
                             /\ (Live(c)' <=> Live(c)) /\ (Past(c)' <=> Past(c))
                             /\ UnderReview(c)' <=> UnderReview(c)
    BY <1>0 DEF SameDay, Live, Past, UnderReview
  <2> QED BY <1>0, <1>1, <2>5, <2>6, <2>7 DEF ChosenAlone
<1>7. PhotosKept'
  BY <1>0, <1>1 DEF PhotosKept, PhotosAccounted, Purging, Offered, Ended
<1> QED BY <1>3, <1>4, <1>5, <1>6, <1>7

\* A step that only marks rows as paid or as without a photo.
LEMMA RowsMarked ==
    ASSUME IndInv, UNCHANGED <<upload, review>>,
           rows' \in [Certs -> CertRow \cup {NoRow}],
           \A c \in Certs : c \notin Stored => rows'[c] = rows[c],
           \A c \in Stored : /\ rows'[c] \in CertRow
                             /\ rows'[c].owner = rows[c].owner /\ rows'[c].date = rows[c].date
                             /\ rows'[c].status = rows[c].status
    PROVE  /\ Stored' = Stored /\ Inserting' = Inserting
           /\ \A c, e \in Stored : /\ SameDay(c, e)' <=> SameDay(c, e)
                                   /\ Live(c)' <=> Live(c)
                                   /\ UnderReview(c)' <=> UnderReview(c)
                                   /\ Waits(c)' <=> Waits(c)
           /\ IndexKept'
<1> USE DEF IndInv, purgeVars
<1>1. Stored' = Stored
  BY RowIsReal, Before DEF Stored
<1>2. Inserting' = Inserting
  BY DEF Inserting
<1>3. \A c, e \in Stored : /\ SameDay(c, e)' <=> SameDay(c, e)
                           /\ Live(c)' <=> Live(c)
                           /\ UnderReview(c)' <=> UnderReview(c)
                           /\ Waits(c)' <=> Waits(c)
  BY DEF SameDay, Live, UnderReview, Waits
<1>4. \A p, d : IndexHolds(p, d)' <=> IndexHolds(p, d)
  BY <1>1, <1>3 DEF IndexHolds, Of
<1> QED BY <1>1, <1>2, <1>3, <1>4 DEF IndexKept

LEMMA CommitOpeningKeeps ==
    ASSUME IndInv, CommitOpening
    PROVE  IndInv'
<1> USE DEF IndInv, purgeVars
<1>0. /\ opening # None /\ opening \in OpeningRecord /\ opening.owed \subseteq Stored
      /\ rows' = [c \in Certs |-> IF c \in opening.owed
                                  THEN [rows[c] EXCEPT !.paid = TRUE] ELSE rows[c]]
      /\ opened' = opening.day /\ opening' = None
      /\ UNCHANGED <<time, nextId, files, crashed, purgeVars, upload, page, review, modal>>
  BY Before DEF CommitOpening, IdsKept
<1>1. ASSUME NEW c \in Stored
      PROVE  /\ rows'[c] \in CertRow
             /\ rows'[c].owner = rows[c].owner /\ rows'[c].date = rows[c].date
             /\ rows'[c].status = rows[c].status /\ rows'[c].image = rows[c].image
             /\ rows'[c].paid <=> rows[c].paid \/ c \in opening.owed
  <2>1. c \in Certs /\ rows[c] \in CertRow
    BY Before
  <2> QED BY <1>0, <2>1 DEF CertRow
<1>2. rows' \in [Certs -> CertRow \cup {NoRow}]
      /\ \A c \in Certs : c \notin Stored => rows'[c] = rows[c]
  BY <1>0, <1>1 DEF Stored
<1>3. /\ Stored' = Stored /\ Inserting' = Inserting
      /\ \A c, e \in Stored : /\ SameDay(c, e)' <=> SameDay(c, e)
                              /\ Live(c)' <=> Live(c)
                              /\ UnderReview(c)' <=> UnderReview(c)
                              /\ Waits(c)' <=> Waits(c)
      /\ IndexKept'
  BY <1>0, <1>1, <1>2, RowsMarked
<1>4. TypeOK' /\ RequestTypes'
  <2>1. opened' \in 0 .. LastDay
    BY <1>0, CertificationAssumption DEF OpeningRecord, Days
  <2>2. \A c \in Stored : (rows[c] \in CertRow /\ rows[c].date \in Days /\ c < nextId)'
    BY <1>0, <1>1, Before
  <2> QED BY <1>0, <1>2, <1>3, <2>1, <2>2 DEF TypeOK, RequestTypes
<1>5. IdsKept'
  BY <1>0, <1>3 DEF IdsKept
<1>6. UploadsTimely'
  BY <1>0 DEF UploadsTimely
<1>7. \A c \in Stored : (Past(c)' <=> Past(c)) /\ (Chosen(c)' <=> Chosen(c))
  BY <1>0, <1>1 DEF Past, Chosen
<1>8. OneWaits'
  BY <1>3, <1>7 DEF OneWaits
<1>9. ChosenAlone'
  BY <1>1, <1>3, <1>7 DEF ChosenAlone
<1>10. PhotosKept'
  <2>1. \A c \in Stored : Offered(c)' <=> Offered(c)
    BY <1>1, <1>3 DEF Offered
  <2> QED BY <1>0, <1>1, <1>3, <2>1, PhotosUntouched
<1> QED BY <1>3, <1>4, <1>5, <1>6, <1>8, <1>9, <1>10

-----------------------------------------------------------------------------
(* The purge, a crash, and time *)

\* A step of the purge that leaves the rows alone and keeps the photos.
LEMMA PurgeStep ==
    ASSUME IndInv, PhotosKept', files' \subseteq files, crashed' \in BOOLEAN,
           forced' \in BOOLEAN, strays' \subseteq Certs,
           purge' \in [stage : {"none", "selected", "listed"}, records : SUBSET Certs,
                       left : SUBSET Certs],
           purge'.records \subseteq Stored,
           UNCHANGED <<time, rows, nextId, opened, opening, upload, page, review, modal>>
    PROVE  IndInv'
<1> USE DEF IndInv
<1>1. Stored' = Stored /\ Inserting' = Inserting
  BY DEF Stored, Inserting
<1>2. TypeOK' /\ RequestTypes'
  BY <1>1, Before DEF TypeOK, RequestTypes
<1>3. IdsKept' /\ IndexKept'
  BY <1>1 DEF IdsKept, IndexKept, SameDay, Live, IndexHolds, Of
<1>4. UploadsTimely' /\ OneWaits' /\ ChosenAlone'
  BY RowsAlone DEF UploadsTimely
<1> QED BY <1>2, <1>3, <1>4

LEMMA StartPurgeKeeps ==
    ASSUME IndInv, NEW force \in BOOLEAN, StartPurge(force)
    PROVE  IndInv'
<1> USE DEF IndInv
<1> DEFINE chosen == {c \in Stored : rows[c].image}
<1>0. /\ (Ended \/ forced') /\ forced' \in BOOLEAN /\ (forced => forced')
      /\ purge = NoPurge /\ purge' = [stage |-> "selected", records |-> chosen, left |-> {}]
      /\ UNCHANGED <<time, rows, nextId, files, crashed, opened, opening, strays,
                     upload, page, review, modal>>
  BY DEF StartPurge, MayPurge, PhotosKept, TypeOK
<1>1. chosen \subseteq Stored /\ chosen \in SUBSET Certs
  BY Before
<1>2. Stored' = Stored /\ Inserting' = Inserting /\ purge.records = {}
  BY <1>0 DEF Stored, Inserting, NoPurge
<1>3. purge'.stage = "selected" /\ purge'.records = chosen
  BY <1>0
<1> HIDE DEF chosen
<1>4. PhotosAccounted'
  BY <1>0, <1>2, <1>3 DEF PhotosKept, PhotosAccounted, Offered, Ended
<1>5. PhotosKept'
  BY <1>0, <1>2, <1>3, <1>4 DEF PhotosKept, Purging, Ended
<1> QED BY <1>0, <1>1, <1>5, PurgeStep DEF TypeOK

LEMMA ListPhotosKeeps ==
    ASSUME IndInv, ListPhotos
    PROVE  IndInv'
<1> USE DEF IndInv
<1>0. /\ purge.stage = "selected"
      /\ purge' = [purge EXCEPT !.stage = "listed", !.left = files]
      /\ UNCHANGED <<time, rows, nextId, files, crashed, opened, opening, forced, strays,
                     upload, page, review, modal>>
  BY DEF ListPhotos
<1>1. /\ purge' \in [stage : {"none", "selected", "listed"}, records : SUBSET Certs,
                     left : SUBSET Certs]
      /\ purge'.stage = "listed" /\ purge'.records = purge.records /\ purge'.left = files
  BY <1>0 DEF TypeOK
<1>2. Stored' = Stored /\ Inserting' = Inserting
  BY <1>0 DEF Stored, Inserting
<1>3. PhotosKept'
  BY <1>0, <1>1, <1>2 DEF PhotosKept, PhotosAccounted, Purging, Offered, Ended
<1> QED BY <1>0, <1>1, <1>3, PurgeStep DEF TypeOK, IdsKept

LEMMA DeletePhotoKeeps ==
    ASSUME IndInv, NEW f \in files, DeletePhoto(f)
    PROVE  IndInv'
<1> USE DEF IndInv
<1>0. /\ f \in purge.left /\ files' = files \ {f}
      /\ purge' = [purge EXCEPT !.left = purge.left \ {f}]
      /\ strays' = strays \cup ({f} \ purge.records)
      /\ UNCHANGED <<time, rows, nextId, crashed, opened, opening, forced, upload, page,
                     review, modal>>
  BY DEF DeletePhoto
<1>1. /\ purge' \in [stage : {"none", "selected", "listed"}, records : SUBSET Certs,
                     left : SUBSET Certs]
      /\ purge'.stage = purge.stage /\ purge'.records = purge.records
      /\ purge'.left = purge.left \ {f} /\ f \in Certs
  BY <1>0 DEF TypeOK
<1>2. Stored' = Stored /\ Inserting' = Inserting
  BY <1>0 DEF Stored, Inserting
<1>3. Purging /\ (Ended \/ forced)
  BY <1>0 DEF PhotosKept, NoPurge
<1>4. PhotosAccounted'
  BY <1>0, <1>1, <1>2, <1>3 DEF PhotosKept, PhotosAccounted, Offered, Ended
<1>5. PhotosKept'
  <2>1. (Purging' <=> Purging) /\ (Ended' <=> Ended)
    BY <1>0, <1>1 DEF Purging, Ended
  <2>2. \A g \in Inserting : FileName(upload[g].cert) \in files' \cup strays'
    <3>1. \A g \in Inserting : upload[g].cert \notin purge.records
      BY DEF IdsKept
    <3> QED BY <1>0, <3>1 DEF PhotosKept, FileName
  <2>3. purge'.stage = "listed" => purge'.records \cap files' \subseteq purge'.left
    BY <1>0, <1>1 DEF PhotosKept
  <2> QED BY <1>0, <1>2, <1>3, <1>4, <2>1, <2>2, <2>3 DEF PhotosKept
<1>6. strays' \subseteq Certs
  BY <1>0, <1>1 DEF TypeOK
<1> QED BY <1>0, <1>1, <1>5, <1>6, PurgeStep DEF TypeOK, IdsKept

LEMMA PurgeDiesKeeps ==
    ASSUME IndInv, PurgeDies
    PROVE  IndInv'
<1> USE DEF IndInv
<1>0. /\ crashed' = TRUE /\ purge' = NoPurge
      /\ strays' = strays \cup (purge.records \ files)
      /\ UNCHANGED <<time, rows, nextId, files, opened, opening, forced, upload, page,
                     review, modal>>
  BY DEF PurgeDies
<1>1. /\ NoPurge \in [stage : {"none", "selected", "listed"}, records : SUBSET Certs,
                      left : SUBSET Certs]
      /\ NoPurge.records = {} /\ NoPurge.stage = "none"
  BY DEF NoPurge
<1>2. Stored' = Stored /\ Inserting' = Inserting
  BY <1>0 DEF Stored, Inserting
<1>3. PhotosAccounted'
  BY <1>0, <1>1, <1>2 DEF PhotosKept, PhotosAccounted, Offered, Ended, FileName
<1>4. PhotosKept'
  BY <1>0, <1>1, <1>2, <1>3 DEF PhotosKept, Purging, Ended
<1>5. strays' \subseteq Certs
  BY <1>0 DEF TypeOK
<1> QED BY <1>0, <1>1, <1>4, <1>5, PurgeStep DEF TypeOK

LEMMA CommitPurgeKeeps ==
    ASSUME IndInv, CommitPurge
    PROVE  IndInv'
<1> USE DEF IndInv, purgeVars
<1>0. /\ purge.stage = "listed" /\ purge.left \cap files = {}
      /\ rows' = [c \in Certs |-> IF c \in purge.records
                                  THEN [rows[c] EXCEPT !.image = FALSE] ELSE rows[c]]
      /\ strays' = strays \ purge.records
      /\ purge.records \subseteq Stored /\ purge' = NoPurge
      /\ UNCHANGED <<time, nextId, files, crashed, opened, opening, forced, upload, page,
                     review, modal>>
  BY DEF CommitPurge, PurgedRows, IdsKept
<1>p. /\ NoPurge \in [stage : {"none", "selected", "listed"}, records : SUBSET Certs,
                      left : SUBSET Certs]
      /\ NoPurge.records = {} /\ NoPurge.stage = "none"
  BY DEF NoPurge
<1>1. ASSUME NEW c \in Stored
      PROVE  /\ rows'[c] \in CertRow
             /\ rows'[c].owner = rows[c].owner /\ rows'[c].date = rows[c].date
             /\ rows'[c].status = rows[c].status /\ rows'[c].paid = rows[c].paid
             /\ rows'[c].image <=> rows[c].image /\ c \notin purge.records
  <2>1. c \in Certs /\ rows[c] \in CertRow
    BY Before
  <2> QED BY <1>0, <2>1 DEF CertRow
<1>2. rows' \in [Certs -> CertRow \cup {NoRow}]
      /\ \A c \in Certs : c \notin Stored => rows'[c] = rows[c]
  BY <1>0, <1>1 DEF Stored
<1>3. /\ Stored' = Stored /\ Inserting' = Inserting
      /\ \A c, e \in Stored : /\ SameDay(c, e)' <=> SameDay(c, e)
                              /\ Live(c)' <=> Live(c)
                              /\ UnderReview(c)' <=> UnderReview(c)
                              /\ Waits(c)' <=> Waits(c)
      /\ IndexKept'
  BY <1>0, <1>1, <1>2, RowsMarked
<1>4. TypeOK' /\ RequestTypes'
  <2>1. \A c \in Stored : (rows[c] \in CertRow /\ rows[c].date \in Days /\ c < nextId)'
    BY <1>0, <1>1, Before
  <2> QED BY <1>0, <1>p, <1>2, <1>3, <2>1 DEF TypeOK, RequestTypes
<1>5. IdsKept'
  BY <1>0, <1>p, <1>3 DEF IdsKept
<1>6. UploadsTimely'
  BY <1>0 DEF UploadsTimely
<1>7. \A c \in Stored : (Past(c)' <=> Past(c)) /\ (Chosen(c)' <=> Chosen(c))
  BY <1>0, <1>1 DEF Past, Chosen
<1>8. OneWaits'
  BY <1>3, <1>7 DEF OneWaits
<1>9. ChosenAlone'
  BY <1>1, <1>3, <1>7 DEF ChosenAlone
<1>10. PhotosKept'
  <2>1. Purging /\ (Ended \/ forced) /\ (Ended' <=> Ended) /\ ~Purging'
    BY <1>0, <1>p DEF PhotosKept, Purging, Ended
  <2>2. \A f \in files : f \notin purge.records
    BY <1>0 DEF PhotosKept
  <2>3. \A f \in files : \/ f \in Stored' /\ rows'[f].image
                         \/ \E g \in Inserting' : FileName(upload'[g].cert) = f
                         \/ crashed
    BY <1>0, <1>1, <1>3, <2>2 DEF PhotosKept, PhotosAccounted
  <2>4. \A c \in Stored : Offered(c)' => FileName(c) \in files \cup strays'
    BY <1>0, <1>1, <1>3 DEF PhotosKept, PhotosAccounted, Offered, FileName
  <2>5. PhotosAccounted'
    BY <1>0, <1>3, <2>1, <2>3, <2>4 DEF PhotosAccounted
  <2>6. \A g \in Inserting : FileName(upload[g].cert) \in files \cup strays'
    BY <1>0 DEF PhotosKept, IdsKept, FileName
  <2> QED BY <1>0, <1>p, <1>3, <2>1, <2>5, <2>6 DEF PhotosKept
<1> QED BY <1>3, <1>4, <1>5, <1>6, <1>8, <1>9, <1>10

LEMMA CrashKeeps ==
    ASSUME IndInv, Crash
    PROVE  IndInv'
<1> USE DEF IndInv, purgeVars
<1>0. /\ crashed' = TRUE /\ opening' = None
      /\ upload' = [g \in Pages |-> None] /\ review' = [r \in Reviewers |-> None]
      /\ UNCHANGED <<time, rows, nextId, files, opened, purgeVars, page, modal>>
  BY DEF Crash
<1>1. Stored' = Stored /\ Inserting' = {}
  BY <1>0 DEF Stored, Inserting, None
<1>2. TypeOK' /\ RequestTypes'
  BY <1>0, <1>1 DEF TypeOK, RequestTypes, None
<1>3. IdsKept' /\ IndexKept' /\ UploadsTimely'
  BY <1>0, <1>1 DEF IdsKept, IndexKept, UploadsTimely, SameDay, Live, IndexHolds, Of
<1>4. \A c \in Stored : /\ ~UnderReview(c)' /\ (Waits(c)' => Waits(c))
                        /\ Chosen(c)' => Chosen(c)
                        /\ Past(c)' <=> Past(c)
                        /\ Live(c)' <=> Live(c)
  BY <1>0 DEF UnderReview, Waits, Chosen, Past, Live
<1>5. OneWaits'
  BY <1>0, <1>1, <1>4 DEF OneWaits, SameDay
<1>6. ChosenAlone'
  BY <1>0, <1>1, <1>4 DEF ChosenAlone, SameDay
<1>7. PhotosKept'
  BY <1>0, <1>1 DEF PhotosKept, PhotosAccounted, Purging, Offered, Ended
<1> QED BY <1>2, <1>3, <1>5, <1>6, <1>7

LEMMA DelayedRecord ==
    /\ Delayed(None) = None
    /\ \A x \in UploadRecord :
          /\ Delayed(x) \in UploadRecord /\ Delayed(x) # None /\ Delayed(x).late
          /\ Delayed(x).stage = x.stage /\ Delayed(x).date = x.date /\ Delayed(x).cert = x.cert
    /\ \A x \in ReviewRecord :
          /\ Delayed(x) \in ReviewRecord /\ Delayed(x) # None /\ Delayed(x).late
          /\ Delayed(x).cert = x.cert
<1>1. Delayed(None) = None
  BY DEF Delayed
<1>2. ASSUME NEW x \in UploadRecord
      PROVE  /\ Delayed(x) \in UploadRecord /\ Delayed(x) # None /\ Delayed(x).late
             /\ Delayed(x).stage = x.stage /\ Delayed(x).date = x.date /\ Delayed(x).cert = x.cert
  <2>1. Delayed(x) = [x EXCEPT !.late = TRUE]
    BY RequestIsReal DEF Delayed
  <2>2. Delayed(x) \in UploadRecord
    BY <2>1 DEF UploadRecord
  <2> QED BY <2>1, <2>2, RequestIsReal DEF UploadRecord
<1>3. ASSUME NEW x \in ReviewRecord
      PROVE  /\ Delayed(x) \in ReviewRecord /\ Delayed(x) # None /\ Delayed(x).late
             /\ Delayed(x).cert = x.cert
  <2>1. Delayed(x) = [x EXCEPT !.late = TRUE]
    BY RequestIsReal DEF Delayed
  <2>2. Delayed(x) \in ReviewRecord
    BY <2>1 DEF ReviewRecord
  <2> QED BY <2>1, <2>2, RequestIsReal DEF ReviewRecord
<1> QED BY <1>1, <1>2, <1>3

LEMMA TickKeeps ==
    ASSUME IndInv, Tick
    PROVE  IndInv'
<1> USE DEF IndInv, purgeVars
<1>0. /\ time < 2 * LastDay /\ ~SomeLate /\ opening = None /\ ~Purging /\ time' = time + 1
      /\ upload' = [g \in Pages |-> Delayed(upload[g])]
      /\ review' = [r \in Reviewers |-> Delayed(review[r])]
      /\ UNCHANGED <<rows, nextId, files, crashed, opened, opening, purgeVars, page, modal>>
  BY DEF Tick
<1>1. Stored' = Stored
  BY <1>0 DEF Stored
<1>2. \A g \in Pages :
         /\ upload[g] = None => upload'[g] = None
         /\ upload[g] # None =>
              /\ upload'[g] \in UploadRecord /\ upload'[g].late
              /\ upload'[g].stage = upload[g].stage /\ upload'[g].date = upload[g].date
              /\ upload'[g].cert = upload[g].cert
  BY <1>0, Before, DelayedRecord
<1>3. \A r \in Reviewers :
         /\ review[r] = None => review'[r] = None
         /\ review[r] # None =>
              review'[r] \in ReviewRecord /\ review'[r].late /\ review'[r].cert = review[r].cert
  BY <1>0, Before, DelayedRecord
<1>4. Inserting' = Inserting
  BY <1>2, UploadsUnderWay DEF Inserting, None
<1>5. \A g \in Inserting : upload'[g].cert = upload[g].cert /\ upload'[g].date = upload[g].date
  BY <1>2, Before
<1>6. time \in Nat /\ time' \in Nat /\ time' \in 0 .. 2 * LastDay
  BY <1>0, Before, CertificationAssumption
<1>7. RequestTypes'
  <2>1. upload' \in [Pages -> UploadRecord \cup {None}]
    BY <1>0, <1>2
  <2>2. review' \in [Reviewers -> ReviewRecord \cup {None}]
    BY <1>0, <1>3
  <2> QED BY <1>0, <2>1, <2>2 DEF RequestTypes
<1>8. TypeOK'
  <2>1. \A g \in Pages : upload'[g].stage \in {"none", "checked", "inserted"}
    BY <1>7 DEF RequestTypes, UploadRecord, None
  <2>2. \A r \in Reviewers : review'[r].stage \in {"none", "read"}
    BY <1>7 DEF RequestTypes, ReviewRecord, None
  <2> QED BY <1>0, <1>1, <1>6, <2>1, <2>2 DEF TypeOK
<1>9. IdsKept'
  <2>1. \A r \in Reviewers : review'[r] # None => review'[r].cert \in Stored'
    BY <1>1, <1>3 DEF IdsKept
  <2> QED BY <1>0, <1>1, <1>4, <1>5, <2>1 DEF IdsKept
<1>10. IndexKept'
  <2>1. \A p, d : IndexHolds(p, d)' <=> IndexHolds(p, d)
    BY <1>0, <1>1 DEF IndexHolds, Of, Live
  <2>2. \A c, e \in Stored : (SameDay(c, e) /\ Live(c) /\ Live(e))' => c = e
    BY <1>0 DEF IndexKept, SameDay, Live
  <2> QED BY <1>1, <1>4, <1>5, <2>1, <2>2 DEF IndexKept
<1>11. UploadsTimely'
  <2> SUFFICES ASSUME NEW g \in Pages, upload'[g] # None
               PROVE  time' < 2 * upload'[g].date /\ upload'[g].late
    BY DEF UploadsTimely
  <2>1. upload[g] # None /\ upload'[g].late /\ upload'[g].date = upload[g].date
    BY <1>2
  <2>2. ~upload[g].late /\ upload[g].date \in Nat
    BY <1>0, <2>1, Before, Numbers DEF SomeLate, UploadRecord
  <2>3. time < 2 * upload[g].date - 1
    BY <2>1, <2>2 DEF UploadsTimely
  <2> QED BY <1>0, <1>6, <2>1, <2>2, <2>3
<1>12. /\ \A c \in Stored : rows'[c] = rows[c] /\ (Live(c)' <=> Live(c))
       /\ \A c \in Stored : UnderReview(c)' <=> UnderReview(c)
       /\ \A c \in Stored : Chosen(c)' <=> Chosen(c)
       /\ \A c \in Stored : Waits(c)' => rows[c].status = "pending"
  <2>1. \A r \in Reviewers : review'[r] # None <=> review[r] # None
    BY <1>3, RequestIsReal
  <2>2. \A c \in Stored : UnderReview(c)' <=> UnderReview(c)
    BY <1>3, <2>1 DEF UnderReview
  <2>3. \A c \in Stored : Waits(c)' => rows[c].status = "pending"
    BY <1>0, <1>3 DEF Waits
  <2>4. \A c \in Stored : Chosen(c)' <=> Chosen(c)
    BY <1>0 DEF Chosen
  <2>5. \A c \in Stored : rows'[c] = rows[c] /\ (Live(c)' <=> Live(c))
    BY <1>0 DEF Live
  <2> QED BY <2>2, <2>3, <2>4, <2>5
<1>13. OneWaits'
  <2>1. \A c \in Stored : rows[c].status = "pending" => Live(c)
    BY DEF Live
  <2> QED BY <1>0, <1>1, <1>12, <2>1 DEF OneWaits, IndexKept, SameDay
<1>14. ChosenAlone'
  <2>1. \A c \in Stored : Past(c) => Past(c)'
    <3>1. \A c \in Stored : rows[c].date \in Nat
      BY Before, Numbers
    <3>2. \A c \in Stored : Past(c) => 2 * rows[c].date <= time
      BY <1>6, <3>1, PastDays DEF Past
    <3>3. \A c \in Stored : Past(c) => rows[c].date < DayAt(time')
      BY <1>0, <1>6, <3>1, <3>2, PastDays
    <3> QED BY <1>12, <3>3 DEF Past
  <2> QED BY <1>0, <1>1, <1>12, <2>1 DEF ChosenAlone, SameDay
<1>15. PhotosKept'
  <2>1. Ended => Ended'
    BY <1>0, <1>6, CertificationAssumption DEF Ended, DayAt
  <2>2. \A f \in files : (\E g \in Inserting : FileName(upload[g].cert) = f)'
                            <=> \E g \in Inserting : FileName(upload[g].cert) = f
    BY <1>4, <1>5 DEF FileName
  <2>3. \A c \in Stored : Offered(c)' <=> Offered(c)
    BY <1>0, <1>1 DEF Offered
  <2>4. PhotosAccounted'
    BY <1>0, <1>1, <2>1, <2>2, <2>3 DEF PhotosKept, PhotosAccounted, FileName
  <2>5. \A g \in Inserting : /\ FileName(upload'[g].cert) \in files \cup strays
                             /\ ~Ended' /\ ~forced => FileName(upload'[g].cert) \in files
    BY <1>5, <2>1 DEF PhotosKept, FileName
  <2>6. ~Purging' /\ purge' = NoPurge /\ purge.stage # "listed"
    BY <1>0 DEF PhotosKept, Purging
  <2> QED BY <1>0, <1>4, <2>4, <2>5, <2>6 DEF PhotosKept
<1> QED BY <1>7, <1>8, <1>9, <1>10, <1>11, <1>13, <1>14, <1>15

-----------------------------------------------------------------------------
(* The invariant, and what follows from it *)

LEMMA IndInvStep == IndInv /\ [Next]_vars => IndInv'
<1> SUFFICES ASSUME IndInv, [Next]_vars PROVE IndInv'
  OBVIOUS
<1>1. ASSUME NEW g \in Pages, PageStep(g) PROVE IndInv'
  <2>1. CASE Poll(g) \/ PickFile(g) \/ RemoveFile(g)
    BY <2>1, PageViewsKeep
  <2> QED BY <1>1, <2>1, UploadKeeps, InsertUploadKeeps, CommitUploadKeeps, RollbackUploadKeeps
          DEF PageStep
<1>2. ASSUME NEW r \in Reviewers, ReviewStep(r) PROVE IndInv'
  BY <1>2, DialogsKeep, SendReviewKeeps, CommitReviewKeeps DEF ReviewStep
<1>3. ASSUME NEW d \in Days, StartOpening(d) PROVE IndInv'
  BY <1>3, StartOpeningKeeps
<1>4. CASE CommitOpening
  BY <1>4, CommitOpeningKeeps
<1>5. ASSUME NEW force \in BOOLEAN, StartPurge(force) PROVE IndInv'
  BY <1>5, StartPurgeKeeps
<1>10. CASE ListPhotos \/ PurgeDies
  BY <1>10, ListPhotosKeeps, PurgeDiesKeeps
<1>11. ASSUME NEW f \in files, DeletePhoto(f) PROVE IndInv'
  BY <1>11, DeletePhotoKeeps
<1>6. CASE CommitPurge
  BY <1>6, CommitPurgeKeeps
<1>7. CASE Crash
  BY <1>7, CrashKeeps
<1>8. CASE Tick
  BY <1>8, TickKeeps
<1>9. CASE UNCHANGED vars
  BY <1>9, ViewStep DEF vars, IndInv, RequestTypes, IdsKept
<1> QED BY <1>1, <1>2, <1>3, <1>4, <1>5, <1>6, <1>7, <1>8, <1>9, <1>10, <1>11 DEF Next

\* What the steps of the four transactions keep (services/certification.py).
THEOREM CertificationInductive == Spec => []IndInv
<1>1. Init => IndInv
  BY IndInvInit
<1>2. IndInv /\ [Next]_vars => IndInv'
  BY IndInvStep
<1> QED BY <1>1, <1>2, PTL DEF Spec

\* Rows, files and requests have their types, and a row is of an operating day.
THEOREM CertificationTypeCorrect == Spec => []TypeOK
<1>1. IndInv => TypeOK
  BY DEF IndInv
<1> QED BY <1>1, CertificationInductive, PTL

LEMMA AtMostOne ==
    ASSUME NEW S \in SUBSET Certs, \A c, e \in S : c = e
    PROVE  Cardinality(S) <= 1
<1>1. CASE S = {}
  BY <1>1, FS_EmptySet
<1>2. CASE S # {}
  <2>1. PICK c \in S : S = {c}
    BY <1>2
  <2> QED BY <2>1, FS_Singleton
<1> QED BY <1>1, <1>2

\* No day of a participant has two certifications that count or two that were
\* paid, for any number of devices, administrators and days, as long as no
\* request outlives the half day after the one it began in (services/
\* certification.py:155, 187, 217).
THEOREM DaysAreRewardedOnce == Spec => []OneRewardPerDay
<1>1. IndInv => OneRewardPerDay
  <2> SUFFICES ASSUME IndInv, NEW p \in Participants, NEW d \in Days
               PROVE  /\ Cardinality({c \in Of(p, d) : Live(c)}) <= 1
                      /\ Cardinality({c \in Of(p, d) : rows[c].paid}) <= 1
    BY DEF OneRewardPerDay
  <2> USE DEF IndInv
  <2>1. \A c, e \in Of(p, d) : c \in Stored /\ e \in Stored /\ SameDay(c, e)
    BY DEF Of, SameDay
  <2>2. \A c, e \in {x \in Of(p, d) : Live(x)} : c = e
    BY <2>1 DEF IndexKept
  <2>3. \A c, e \in {x \in Of(p, d) : rows[x].paid} : c = e
    BY <2>1 DEF ChosenAlone, Chosen
  <2>4. Of(p, d) \subseteq Certs
    BY Before DEF Of
  <2> QED BY <2>2, <2>3, <2>4, AtMostOne
<1> QED BY <1>1, CertificationInductive, PTL

\* No photo is left behind by a rollback or a purge, forced or not, no row says
\* it has one that is gone but those of uploads a purge met half-way or of a purge
\* that died, and none is lost before the event is over without force
\* (submit, purge_images; track_new_file of db.py).
THEOREM PhotosAreAccountedFor == Spec => []PhotosAccounted
<1>1. IndInv => PhotosAccounted
  BY DEF IndInv, PhotosKept
<1> QED BY <1>1, CertificationInductive, PTL
=============================================================================
