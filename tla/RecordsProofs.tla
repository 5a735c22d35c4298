--------------------------- MODULE RecordsProofs ---------------------------
(***************************************************************************)
(* Theorems about what is kept of sources, reports, incidents and answers: *)
(* the properties of MCRecords for every value of its constants.  Each     *)
(* component comes with its inductive invariant, once for calls R that     *)
(* overlap and once, stronger, for calls that run one at a time.           *)
(***************************************************************************)
EXTENDS MCRecords, FiniteSetTheorems, SequenceTheorems, TLAPS

\* the calls in Req do not overlap
OneAtATime == \A r, q \in Req : r = q

-----------------------------------------------------------------------------
(* Uploads and scans.  A document whose upload is in flight has no other    *)
(* call and no loss behind it, and no row unless the answer to its commit   *)
(* was lost; its object is there once it is stored.                         *)

Uploading == [call: {"upload", "stored", "undoing"}, doc: Documents, content: Contents]
Scanning  == [call: {"scan"}, doc: Documents]
NoUpload  == [call |-> "none"]

Documented == {d \in Documents : document[d].scan # "absent"}

UploadType(R) ==
  /\ document \in [Documents -> [content: Contents \union {nobody},
                                 review: {"absent", "draft", "in_review", "rejected"},
                                 version: {"absent", "uploaded", "scanned_clean", "rejected"},
                                 scan: {"absent", "pending", "clean", "infected"}]]
  /\ \A d \in Documents : document[d].scan = "absent" =>
       document[d] = [content |-> nobody, review |-> "absent", version |-> "absent",
                      scan |-> "absent"]
  /\ objects \subseteq Documents /\ parsed \subseteq Documented
  /\ uploads \in [R -> {NoUpload} \union Uploading \union Scanning]

UploadPending(t) ==
  /\ t \in Uploading => t.doc \notin lost
  /\ t \in Uploading /\ t.doc \in Documented => t.call = "undoing" /\ t.doc \in unanswered
  /\ t \in Uploading /\ t.call = "stored" => t.doc \in objects
  /\ t \in Scanning => t.doc \in Documented

OwnDocument(R) ==
  \A r, q \in R : uploads[r] \in Uploading /\ uploads[q] \in Uploading
                    /\ uploads[r].doc = uploads[q].doc => r = q

Verdicts ==
  \A d \in Documented :
    /\ document[d].scan = "clean" => document[d].content \notin Infected
    /\ document[d].version = "scanned_clean" => document[d].scan = "clean"
    /\ document[d].review = "in_review" => document[d].scan = "clean"
    /\ d \in parsed => document[d].scan = "clean"

UploadInv(R) ==
  /\ UploadType(R)
  /\ \A r \in R : UploadPending(uploads[r])
  /\ OwnDocument(R)
  /\ Verdicts
  /\ Documented \subseteq objects \union unanswered
  /\ \A d \in objects : d \in Documented \/ d \in lost
                          \/ \E r \in R : uploads[r] \in Uploading /\ uploads[r].doc = d

LEMMA UploadKinds ==
  /\ NoUpload.call = "none"
  /\ \A t \in Uploading : t.call \in {"upload", "stored", "undoing"}
  /\ \A t \in Scanning : t.call = "scan"
  /\ NoUpload \notin Uploading /\ NoUpload \notin Scanning
  /\ \A t \in Uploading : t \notin Scanning
BY DEF NoUpload, Uploading, Scanning

LEMMA RowsAreDocumented ==
  ASSUME NEW R, UploadType(R)
  PROVE  Upload(R)!Rows = Documented
<1>1. \A d \in Documents :
        document[d] = Upload(R)!NoDocument <=> document[d].scan = "absent"
  BY DEF Upload!NoDocument, UploadType
<1>. QED BY <1>1 DEF Upload!Rows, Documented

LEMMA InFlightIsUploading ==
  ASSUME NEW R, UploadType(R), NEW d
  PROVE  Upload(R)!InFlight(d) <=> \E r \in R : uploads[r] \in Uploading /\ uploads[r].doc = d
BY UploadKinds DEF UploadType, Upload!InFlight

LEMMA UploadInit ==
  ASSUME NEW R, Upload(R)!Init
  PROVE  UploadInv(R)
<1>1. UploadType(R) /\ Documented = {} /\ objects = {} /\ \A r \in R : uploads[r] = NoUpload
  BY DEF Upload!Init, UploadType, Documented, Upload!Idle, NoUpload, Upload!NoDocument
<1>. QED BY <1>1, UploadKinds DEF UploadInv, UploadPending, OwnDocument, Verdicts

\* A step that starts, moves or ends a call and changes no document.
LEMMA CallKeeps ==
  ASSUME NEW R, UploadInv(R), NEW r \in R,
         NEW call \in {NoUpload} \union Uploading \union Scanning,
         uploads' = [uploads EXCEPT ![r] = call], UNCHANGED <<document, unanswered, parsed>>,
         objects' \subseteq Documents, Documented \subseteq objects' \union unanswered,
         lost \subseteq lost',
         \A q \in R \ {r} : uploads[q] \in Uploading =>
            uploads[q].doc \notin lost' /\ (uploads[q].doc \in objects => uploads[q].doc \in objects'),
         UploadPending(call)',
         call \in Uploading => \A q \in R \ {r} : uploads[q] \in Uploading =>
            uploads[q].doc # call.doc,
         \A d \in objects' : \/ d \in objects /\ ~ (uploads[r] \in Uploading /\ uploads[r].doc = d)
                             \/ d \in lost'
                             \/ call \in Uploading /\ call.doc = d
  PROVE  UploadInv(R)'
<1>1. Documented' = Documented
  BY DEF Documented
<1>2. UploadType(R)'
  BY <1>1 DEF UploadInv, UploadType
<1>3. /\ uploads'[r] = call
      /\ \A q \in R \ {r} : uploads'[q] = uploads[q]
  BY DEF UploadInv, UploadType
<1>4. ASSUME NEW q \in R PROVE UploadPending(uploads[q])'
  <2>1. CASE q = r
    BY <1>3, <2>1 
  <2>2. CASE q # r
    BY <1>1, <1>3, <2>2 DEF UploadInv, UploadPending
  <2>. QED BY <2>1, <2>2
<1>5. OwnDocument(R)'
  BY <1>3 DEF UploadInv, OwnDocument
<1>6. Verdicts'
  BY <1>1 DEF UploadInv, Verdicts
<1>7. ASSUME NEW d \in objects'
      PROVE  d \in Documented' \/ d \in lost'
               \/ \E q \in R : uploads'[q] \in Uploading /\ uploads'[q].doc = d
  <2>1. CASE d \in objects /\ ~ (uploads[r] \in Uploading /\ uploads[r].doc = d)
    <3>1. CASE d \in Documented \/ d \in lost
      BY <1>1, <3>1
    <3>2. ASSUME NEW q \in R, uploads[q] \in Uploading, uploads[q].doc = d
          PROVE  \E p \in R : uploads'[p] \in Uploading /\ uploads'[p].doc = d
      BY <1>3, <2>1, <3>2
    <3>. QED BY <2>1, <3>1, <3>2 DEF UploadInv
  <2>2. CASE d \in lost' \/ (call \in Uploading /\ call.doc = d)
    BY <1>3, <2>2
  <2>. QED BY <2>1, <2>2
<1>. QED BY <1>1, <1>2, <1>4, <1>5, <1>6, <1>7 DEF UploadInv

LEMMA StartUploadKeeps ==
  ASSUME NEW R, UploadInv(R), NEW r \in R, NEW s, NEW l, NEW d \in Documents, NEW c \in Contents,
         Upload(R)!StartUpload(r, s, l, d, c)
  PROVE  UploadInv(R)'
<1>1. PICK call \in Uploading : call = [call |-> "upload", doc |-> d, content |-> c]
  BY DEF Uploading
<1>2. /\ uploads' = [uploads EXCEPT ![r] = call]
      /\ UNCHANGED <<document, parsed, objects, lost, unanswered>>
      /\ uploads[r] = NoUpload
  BY <1>1 DEF Upload!StartUpload, Upload!Free, Upload!Idle, NoUpload
<1>3. /\ d \notin Documented /\ d \notin lost
      /\ ~ \E q \in R : uploads[q] \in Uploading /\ uploads[q].doc = d
  BY RowsAreDocumented, InFlightIsUploading DEF Upload!StartUpload, UploadInv
<1>4. call.doc = d /\ call.call = "upload"
  BY <1>1
<1>5. UploadPending(call)'
  BY <1>1, <1>2, <1>3, <1>4, UploadKinds DEF UploadPending, Documented
<1>6. \A q \in R : uploads[q] \in Uploading => uploads[q].doc \notin lost
  BY DEF UploadInv, UploadPending
<1>7. uploads[r] \notin Uploading
  BY <1>2, UploadKinds
<1>8. objects \subseteq Documents /\ Documented \subseteq objects \union unanswered
  BY DEF UploadInv, UploadType
<1>. QED BY <1>1, <1>2, <1>3, <1>4, <1>5, <1>6, <1>7, <1>8, CallKeeps

LEMMA EndOfUpload ==
  ASSUME NEW R, UploadInv(R), NEW r \in R, uploads[r] \in Uploading,
         uploads' = [uploads EXCEPT ![r] = NoUpload], UNCHANGED <<document, unanswered, parsed>>,
         \/ objects' \in {objects, objects \union {uploads[r].doc}} /\ lost' = lost \union {uploads[r].doc}
         \/ objects' = objects \ {uploads[r].doc} /\ lost' = lost /\ uploads[r].call = "undoing"
  PROVE  UploadInv(R)'
<1>. DEFINE d == uploads[r].doc
<1>1. /\ d \in Documents /\ (d \in Documented => d \in unanswered)
      /\ objects \subseteq Documents /\ Documented \subseteq objects \union unanswered
  BY DEF UploadInv, UploadType, UploadPending, Uploading
<1>2. \A q \in R \ {r} : uploads[q] \in Uploading => uploads[q].doc # d /\ uploads[q].doc \notin lost
  BY DEF UploadInv, OwnDocument, UploadPending
<1>3. UploadPending(NoUpload)'
  BY UploadKinds DEF UploadPending
<1>4. /\ objects' \subseteq Documents /\ Documented \subseteq objects' \union unanswered /\ lost \subseteq lost'
      /\ \A q \in R \ {r} : uploads[q] \in Uploading =>
            uploads[q].doc \notin lost' /\ (uploads[q].doc \in objects => uploads[q].doc \in objects')
      /\ \A e \in objects' : (e \in objects /\ e # d) \/ e \in lost'
  BY <1>1, <1>2
<1>. QED BY <1>3, <1>4, UploadKinds, CallKeeps

LEMMA PutObjectKeeps ==
  ASSUME NEW R, UploadInv(R), NEW r \in R, Upload(R)!PutObject(r)
  PROVE  UploadInv(R)'
<1>1. uploads[r] \in Uploading
  BY UploadKinds DEF Upload!PutObject, UploadInv, UploadType
<1>2. PICK call : call = [uploads[r] EXCEPT !.call = "stored"]
  OBVIOUS
<1>3. call \in Uploading /\ call.doc = uploads[r].doc /\ call.call = "stored"
  BY <1>1, <1>2 DEF Uploading
<1>4. /\ uploads' = [uploads EXCEPT ![r] = call]
      /\ objects' = objects \union {call.doc} /\ UNCHANGED <<document, parsed, lost, unanswered>>
      /\ uploads[r].call = "upload"
  BY <1>2, <1>3 DEF Upload!PutObject
<1>5. /\ call.doc \in Documents /\ call.doc \notin Documented /\ call.doc \notin lost
      /\ objects \subseteq Documents /\ Documented \subseteq objects \union unanswered
  BY <1>1, <1>3, <1>4 DEF UploadInv, UploadType, UploadPending, Uploading
<1>6. \A q \in R \ {r} : uploads[q] \in Uploading =>
        uploads[q].doc # call.doc /\ uploads[q].doc \notin lost
  BY <1>1, <1>3 DEF UploadInv, OwnDocument, UploadPending
<1>7. UploadPending(call)'
  BY <1>3, <1>4, <1>5, UploadKinds DEF UploadPending, Documented
<1>. QED BY <1>1, <1>3, <1>4, <1>5, <1>6, <1>7, CallKeeps

\* The row is written when its object is there, and the call ends or, without
\* the answer to its commit, goes on to undo its put.
LEMMA RowWritten ==
  ASSUME NEW R, UploadInv(R), NEW r \in R, NEW t \in Uploading, t = uploads[r], t.call = "stored",
         NEW call \in {NoUpload} \union Uploading,
         document' = [document EXCEPT ![t.doc] = Upload(R)!Registered(t.content)],
         uploads' = [uploads EXCEPT ![r] = call], UNCHANGED <<objects, lost, parsed>>,
         unanswered \subseteq unanswered',
         call \in Uploading =>
           call.call = "undoing" /\ call.doc = t.doc /\ t.doc \in unanswered'
  PROVE  UploadInv(R)'
<1>2. PICK row : row = [content |-> t.content, review |-> "draft", version |-> "uploaded",
                        scan |-> "pending"]
  OBVIOUS
<1>3. /\ document' = [document EXCEPT ![t.doc] = row]
      /\ uploads' = [uploads EXCEPT ![r] = call] /\ UNCHANGED <<objects, lost, parsed>>
  BY <1>2 DEF Upload!Registered
<1>4. /\ t.doc \in Documents /\ t.doc \notin Documented /\ t.doc \notin lost /\ t.doc \in objects
      /\ t.content \in Contents
  BY DEF UploadInv, UploadPending, Uploading
<1>5. /\ Documented' = Documented \union {t.doc}
      /\ document'[t.doc] = row /\ \A d \in Documents : d # t.doc => document'[d] = document[d]
  <2>1. row.scan = "pending"
    BY <1>2
  <2>2. document'[t.doc] = row /\ \A d \in Documents : d # t.doc => document'[d] = document[d]
    BY <1>3, <1>4 DEF UploadInv, UploadType
  <2>. QED BY <1>4, <2>1, <2>2 DEF Documented
<1>6. /\ uploads'[r] = call
      /\ \A q \in R : q # r => uploads'[q] = uploads[q]
  BY <1>3 DEF UploadInv, UploadType
<1>7. UploadType(R)'
  <2>1. /\ row \in [content: Contents \union {nobody},
                    review: {"absent", "draft", "in_review", "rejected"},
                    version: {"absent", "uploaded", "scanned_clean", "rejected"},
                    scan: {"absent", "pending", "clean", "infected"}]
        /\ row.scan # "absent"
    BY <1>2, <1>4
  <2>2. document' \in [Documents -> [content: Contents \union {nobody},
                    review: {"absent", "draft", "in_review", "rejected"},
                    version: {"absent", "uploaded", "scanned_clean", "rejected"},
                    scan: {"absent", "pending", "clean", "infected"}]]
    BY <1>3, <2>1 DEF UploadInv, UploadType
  <2>3. \A d \in Documents : document'[d].scan = "absent" =>
          document'[d] = [content |-> nobody, review |-> "absent", version |-> "absent",
                          scan |-> "absent"]
    BY <1>5, <2>1 DEF UploadInv, UploadType
  <2>4. uploads' \in [R -> {NoUpload} \union Uploading \union Scanning]
    BY <1>3 DEF UploadInv, UploadType
  <2>. QED BY <1>3, <1>5, <2>2, <2>3, <2>4 DEF UploadInv, UploadType
<1>8. ASSUME NEW q \in R PROVE UploadPending(uploads[q])'
  <2>1. CASE q = r
    BY <1>3, <1>4, <1>6, <2>1, UploadKinds DEF UploadPending
  <2>2. CASE q # r
    <3>1. uploads[q] \in Uploading => uploads[q].doc # t.doc
      BY <2>2 DEF UploadInv, OwnDocument
    <3>. QED BY <1>3, <1>5, <1>6, <2>2, <3>1, UploadKinds DEF UploadInv, UploadPending
  <2>. QED BY <2>1, <2>2
<1>9. OwnDocument(R)'
  <2>1. \A q \in R : uploads'[q] \in Uploading =>
          uploads[q] \in Uploading /\ uploads'[q].doc = uploads[q].doc
    BY <1>6, UploadKinds
  <2>. QED BY <2>1 DEF UploadInv, OwnDocument
<1>10. Verdicts'
  <2>1. t.doc \notin parsed
    BY <1>4 DEF UploadInv, UploadType
  <2>. QED BY <1>2, <1>3, <1>4, <1>5, <2>1 DEF UploadInv, Verdicts, Documented
<1>11. Documented' \subseteq objects' \union unanswered'
  BY <1>3, <1>4, <1>5 DEF UploadInv
<1>12. ASSUME NEW d \in objects'
       PROVE  d \in Documented' \/ d \in lost'
                \/ \E q \in R : uploads'[q] \in Uploading /\ uploads'[q].doc = d
  BY <1>3, <1>5, <1>6 DEF UploadInv
<1>. QED BY <1>7, <1>8, <1>9, <1>10, <1>11, <1>12 DEF UploadInv

LEMMA CommitUploadKeeps ==
  ASSUME NEW R, UploadInv(R), NEW r \in R, Upload(R)!CommitUpload(r)
  PROVE  UploadInv(R)'
<1>1. PICK t \in Uploading : t = uploads[r] /\ t.call = "stored"
  BY UploadKinds DEF Upload!CommitUpload, UploadInv, UploadType
<1>2. /\ document' = [document EXCEPT ![t.doc] = Upload(R)!Registered(t.content)]
      /\ uploads' = [uploads EXCEPT ![r] = NoUpload]
      /\ UNCHANGED <<objects, lost, unanswered, parsed>>
  BY <1>1 DEF Upload!CommitUpload, Upload!Idle, NoUpload
<1>. QED BY <1>1, <1>2, UploadKinds, RowWritten

\* Whether the row is there or not, the object stays until the put is undone.
LEMMA CommitFailsKeeps ==
  ASSUME NEW R, UploadInv(R), NEW r \in R, Upload(R)!CommitFails(r)
  PROVE  UploadInv(R)'
<1>1. PICK t \in Uploading : t = uploads[r] /\ t.call = "stored"
  BY UploadKinds DEF Upload!CommitFails, UploadInv, UploadType
<1>2. PICK call : call = [t EXCEPT !.call = "undoing"]
  OBVIOUS
<1>3. call \in Uploading /\ call.call = "undoing" /\ call.doc = t.doc
  BY <1>2 DEF Uploading
<1>4. uploads' = [uploads EXCEPT ![r] = call] /\ UNCHANGED <<objects, lost, parsed>>
  BY <1>1, <1>2 DEF Upload!CommitFails
<1>5. CASE UNCHANGED <<document, unanswered>>
  <2>1. /\ t.doc \notin lost /\ t.doc \notin Documented
        /\ objects \subseteq Documents /\ Documented \subseteq objects \union unanswered
        /\ \A q \in R \ {r} : uploads[q] \in Uploading =>
              uploads[q].doc # t.doc /\ uploads[q].doc \notin lost
    BY <1>1 DEF UploadInv, UploadType, UploadPending, OwnDocument
  <2>2. UploadPending(call)'
    BY <1>3, <1>4, <1>5, <2>1, UploadKinds DEF UploadPending, Documented
  <2>. QED BY <1>1, <1>3, <1>4, <1>5, <2>1, <2>2, CallKeeps
<1>6. CASE /\ document' = [document EXCEPT ![t.doc] = Upload(R)!Registered(t.content)]
           /\ unanswered' = unanswered \union {t.doc}
  BY <1>1, <1>3, <1>4, <1>6, RowWritten
<1>. QED BY <1>1, <1>5, <1>6 DEF Upload!CommitFails

\* A change of the verdict or of the review of a document.
LEMMA VerdictKeeps ==
  ASSUME NEW R, UploadInv(R), NEW d \in Documented,
         NEW row \in [content: {document[d].content},
                      review: {"absent", "draft", "in_review", "rejected"},
                      version: {"absent", "uploaded", "scanned_clean", "rejected"},
                      scan: {"pending", "clean", "infected"}],
         row.scan = "clean" => row.content \notin Infected,
         row.version = "scanned_clean" \/ row.review = "in_review" \/ d \in parsed =>
           row.scan = "clean",
         document' = [document EXCEPT ![d] = row],
         UNCHANGED <<objects, lost, unanswered, parsed>>,
         \/ UNCHANGED uploads
         \/ \E r \in R : uploads[r] \in Scanning /\ uploads' = [uploads EXCEPT ![r] = NoUpload]
  PROVE  UploadInv(R)'
<1>1. d \in Documents /\ document[d].content \in Contents \union {nobody}
  BY DEF UploadInv, UploadType, Documented
<1>2. /\ document'[d] = row /\ \A e \in Documents : e # d => document'[e] = document[e]
      /\ Documented' = Documented
  <2>1. document'[d] = row /\ \A e \in Documents : e # d => document'[e] = document[e]
    BY <1>1 DEF UploadInv, UploadType
  <2>. QED BY <2>1 DEF Documented
<1>3. \A q \in R : uploads'[q] = uploads[q] \/ (uploads'[q] = NoUpload /\ uploads[q] \in Scanning)
  <2>1. ASSUME NEW r \in R, uploads[r] \in Scanning, uploads' = [uploads EXCEPT ![r] = NoUpload]
        PROVE  \A q \in R : uploads'[q] = uploads[q]
                               \/ (uploads'[q] = NoUpload /\ uploads[q] \in Scanning)
    <3>1. \A q \in R : uploads'[q] = IF q = r THEN NoUpload ELSE uploads[q]
      BY <2>1 DEF UploadInv, UploadType
    <3>. QED BY <2>1, <3>1
  <2>2. CASE UNCHANGED uploads
    BY <2>2
  <2>3. CASE \E r \in R : uploads[r] \in Scanning /\ uploads' = [uploads EXCEPT ![r] = NoUpload]
    BY <2>1, <2>3
  <2>. QED BY <2>2, <2>3
<1>4. UploadType(R)'
  <2>1. /\ row \in [content: Contents \union {nobody},
                    review: {"absent", "draft", "in_review", "rejected"},
                    version: {"absent", "uploaded", "scanned_clean", "rejected"},
                    scan: {"absent", "pending", "clean", "infected"}]
        /\ row.scan # "absent"
    BY <1>1
  <2>2. document' \in [Documents -> [content: Contents \union {nobody},
                    review: {"absent", "draft", "in_review", "rejected"},
                    version: {"absent", "uploaded", "scanned_clean", "rejected"},
                    scan: {"absent", "pending", "clean", "infected"}]]
    BY <2>1 DEF UploadInv, UploadType
  <2>3. \A e \in Documents : document'[e].scan = "absent" =>
          document'[e] = [content |-> nobody, review |-> "absent", version |-> "absent",
                          scan |-> "absent"]
    BY <1>2, <2>1 DEF UploadInv, UploadType
  <2>4. uploads' \in [R -> {NoUpload} \union Uploading \union Scanning]
    BY DEF UploadInv, UploadType
  <2>. QED BY <1>2, <2>2, <2>3, <2>4 DEF UploadInv, UploadType
<1>5. ASSUME NEW q \in R PROVE UploadPending(uploads[q])'
  <2>1. CASE uploads'[q] = NoUpload
    BY <2>1, UploadKinds DEF UploadPending
  <2>2. CASE uploads'[q] = uploads[q]
    BY <1>2, <2>2 DEF UploadInv, UploadPending
  <2>. QED BY <1>3, <2>1, <2>2
<1>6. OwnDocument(R)'
  BY <1>3, UploadKinds DEF UploadInv, OwnDocument
<1>7. Verdicts'
  BY <1>2 DEF UploadInv, Verdicts, Documented
<1>8. ASSUME NEW e \in objects'
      PROVE  e \in Documented' \/ e \in lost'
               \/ \E q \in R : uploads'[q] \in Uploading /\ uploads'[q].doc = e
  <2>1. \A q \in R : uploads[q] \in Uploading => uploads'[q] = uploads[q]
    BY <1>3, UploadKinds
  <2>. QED BY <1>2, <2>1 DEF UploadInv
<1>. QED BY <1>2, <1>4, <1>5, <1>6, <1>7, <1>8 DEF UploadInv

LEMMA ScanKeeps ==
  ASSUME NEW R, UploadInv(R), NEW r \in R, Upload(R)!CleanScan(r) \/ Upload(R)!InfectedScan(r)
  PROVE  UploadInv(R)'
<1>1. PICK t \in Scanning : t = uploads[r]
  BY UploadKinds DEF Upload!CleanScan, Upload!InfectedScan, UploadInv, UploadType
<1>2. /\ t.doc \in Documented /\ uploads' = [uploads EXCEPT ![r] = NoUpload]
      /\ UNCHANGED <<objects, lost, unanswered, parsed>>
  BY <1>1 DEF Upload!CleanScan, Upload!InfectedScan, UploadInv, UploadPending, Upload!Idle, NoUpload
<1>3. PICK old : old = document[t.doc]
  OBVIOUS
<1>4. /\ old \in [content: {old.content}, review: {"absent", "draft", "in_review", "rejected"},
                  version: {"absent", "uploaded", "scanned_clean", "rejected"},
                  scan: {"pending", "clean", "infected"}]
      /\ old.scan = "clean" => old.content \notin Infected
      /\ old.version = "scanned_clean" \/ old.review = "in_review" \/ t.doc \in parsed =>
           old.scan = "clean"
  BY <1>2, <1>3 DEF UploadInv, UploadType, Documented, Verdicts
<1>5. CASE Upload(R)!CleanScan(r)
  <2>1. PICK new : new = [old EXCEPT !.scan = "clean", !.version = "scanned_clean"]
    OBVIOUS
  <2>2. document' = [document EXCEPT ![t.doc] = new] /\ old.content \notin Infected
    <3>1. document' = [document EXCEPT ![t.doc].scan = "clean", ![t.doc].version = "scanned_clean"]
      BY <1>1, <1>5 DEF Upload!CleanScan
    <3>2. document' = [document EXCEPT ![t.doc] = [@ EXCEPT !.scan = "clean", !.version = "scanned_clean"]]
      BY <1>2, <3>1 DEF UploadInv, UploadType, Documented
    <3>. QED BY <1>1, <1>3, <1>5, <2>1, <3>2 DEF Upload!CleanScan
  <2>3. /\ new \in [content: {old.content}, review: {"absent", "draft", "in_review", "rejected"},
                    version: {"absent", "uploaded", "scanned_clean", "rejected"},
                    scan: {"pending", "clean", "infected"}]
        /\ new.content = old.content /\ new.scan = "clean"
    BY <1>4, <2>1
  <2>. QED BY <1>1, <1>2, <1>3, <2>2, <2>3, VerdictKeeps
<1>6. CASE Upload(R)!InfectedScan(r)
  <2>1. CASE UNCHANGED document
    <3>1. UploadPending(NoUpload)' /\ uploads[r] \notin Uploading
      BY <1>1, UploadKinds DEF UploadPending
    <3>2. objects \subseteq Documents /\ Documented \subseteq objects \union unanswered
      BY DEF UploadInv, UploadType
    <3>3. \A q \in R : uploads[q] \in Uploading => uploads[q].doc \notin lost
      BY DEF UploadInv, UploadPending
    <3>. QED BY <1>2, <2>1, <3>1, <3>2, <3>3, UploadKinds, CallKeeps
  <2>2. CASE ~ UNCHANGED document
    <3>1. PICK new : new = [old EXCEPT !.scan = "infected", !.version = "rejected",
                                       !.review = "rejected"]
      OBVIOUS
    <3>2. document' = [document EXCEPT ![t.doc].scan = "infected", ![t.doc].version = "rejected",
                                       ![t.doc].review = "rejected"]
          /\ old.content \in Infected
      BY <1>1, <1>3, <1>6, <2>2 DEF Upload!InfectedScan
    <3>3. document' = [document EXCEPT ![t.doc] = new]
      <4>1. document' = [document EXCEPT ![t.doc] =
                 [@ EXCEPT !.scan = "infected", !.version = "rejected", !.review = "rejected"]]
        BY <3>2, <1>2 DEF UploadInv, UploadType, Documented
      <4>. QED BY <1>3, <3>1, <4>1
    <3>4. /\ new \in [content: {old.content}, review: {"absent", "draft", "in_review", "rejected"},
                      version: {"absent", "uploaded", "scanned_clean", "rejected"},
                      scan: {"pending", "clean", "infected"}]
          /\ new.content = old.content /\ new.scan = "infected" /\ new.version = "rejected"
          /\ new.review = "rejected"
      BY <1>4, <3>1
    <3>5. t.doc \notin parsed
      BY <1>4, <3>2
    <3>. QED BY <1>1, <1>2, <1>3, <3>3, <3>4, <3>5, VerdictKeeps
  <2>. QED BY <2>1, <2>2
<1>. QED BY <1>5, <1>6

\* What the calls do besides: parsing, review, and calls that end.
LEMMA UploadStep ==
  ASSUME NEW R, UploadInv(R), Upload(R)!Next
  PROVE  UploadInv(R)'
<1>1. CASE Upload(R)!Administration
  <2>1. UNCHANGED <<document, objects, lost, unanswered, parsed, uploads>>
    BY <1>1 DEF Upload!Administration, Upload!SuspendSource, Upload!CreateSource, Upload!CreateLicence,
                Upload!ReplaceLicence, Upload!LicenceEnds
  <2>. QED BY <2>1 DEF UploadInv, UploadType, UploadPending, OwnDocument, Verdicts, Documented
<1>2. ASSUME NEW r \in R, NEW s, NEW l, NEW d \in Documents, NEW c \in Contents,
             Upload(R)!StartUpload(r, s, l, d, c)
      PROVE  UploadInv(R)'
  BY <1>2, StartUploadKeeps
<1>3. ASSUME NEW r \in R, Upload(R)!PutObject(r) PROVE UploadInv(R)'
  BY <1>3, PutObjectKeeps
<1>4. ASSUME NEW r \in R, Upload(R)!CommitUpload(r) PROVE UploadInv(R)'
  BY <1>4, CommitUploadKeeps
<1>5. ASSUME NEW r \in R, Upload(R)!PutFails(r) \/ Upload(R)!UndoPut(r)
      PROVE  UploadInv(R)'
  <2>1. uploads[r] \in Uploading
    BY <1>5, UploadKinds DEF Upload!PutFails, Upload!UndoPut, UploadInv, UploadType
  <2>2. /\ uploads' = [uploads EXCEPT ![r] = NoUpload] /\ UNCHANGED <<document, unanswered, parsed>>
        /\ \/ objects' \in {objects, objects \union {uploads[r].doc}} /\ lost' = lost \union {uploads[r].doc}
           \/ objects' = objects \ {uploads[r].doc} /\ lost' = lost
                /\ uploads[r].call = "undoing"
    BY <1>5 DEF Upload!PutFails, Upload!UndoPut, Upload!Idle, NoUpload
  <2>. QED BY <2>1, <2>2, EndOfUpload
<1>6. ASSUME NEW r \in R, NEW d \in Documents, Upload(R)!StartScan(r, d)
      PROVE  UploadInv(R)'
  <2>1. PICK call \in Scanning : call = [call |-> "scan", doc |-> d]
    BY DEF Scanning
  <2>2. /\ uploads' = [uploads EXCEPT ![r] = call] /\ uploads[r] = NoUpload
        /\ UNCHANGED <<document, objects, lost, unanswered, parsed>> /\ call.doc = d
    BY <1>6, <2>1 DEF Upload!StartScan, Upload!Free, Upload!Idle, NoUpload
  <2>3. d \in Documented
    BY <1>6, RowsAreDocumented DEF Upload!StartScan, UploadInv
  <2>4. UploadPending(call)' /\ call \notin Uploading /\ uploads[r] \notin Uploading
    BY <2>1, <2>2, <2>3, UploadKinds DEF UploadPending, Documented
  <2>. QED BY <2>1, <2>2, <2>4, CallKeeps DEF UploadInv, UploadType, UploadPending
<1>7. ASSUME NEW r \in R, Upload(R)!CleanScan(r) \/ Upload(R)!InfectedScan(r) PROVE UploadInv(R)'
  BY <1>7, ScanKeeps
<1>8. ASSUME NEW r \in R, Upload(R)!Crash(r) PROVE UploadInv(R)'
  <2>1. uploads' = [uploads EXCEPT ![r] = NoUpload] /\ UNCHANGED <<document, unanswered, parsed>>
    BY <1>8 DEF Upload!Crash, Upload!Idle, NoUpload
  <2>2. CASE uploads[r] \in Uploading
    BY <1>8, <2>1, <2>2, UploadKinds, EndOfUpload DEF Upload!Crash
  <2>3. CASE uploads[r] \notin Uploading
    <3>1. uploads[r].call = "scan" /\ UNCHANGED <<objects, lost>>
      BY <1>8, <2>3, UploadKinds DEF Upload!Crash, Upload!Free, Upload!Idle, NoUpload,
         UploadInv, UploadType
    <3>2. UploadPending(NoUpload)'
      BY UploadKinds DEF UploadPending
    <3>. QED BY <2>1, <2>3, <3>1, <3>2, CallKeeps, UploadKinds DEF UploadInv, UploadType, UploadPending
  <2>. QED BY <2>2, <2>3
<1>9. ASSUME NEW d \in Documents, Upload(R)!Parse(d) PROVE UploadInv(R)'
  <2>1. /\ d \in Documented /\ document[d].scan = "clean" /\ parsed' = parsed \union {d}
        /\ UNCHANGED <<document, objects, lost, unanswered, uploads>>
    BY <1>9, RowsAreDocumented DEF Upload!Parse, Upload!ParserAllowed, UploadInv
  <2>. QED BY <2>1 DEF UploadInv, UploadType, UploadPending, OwnDocument, Verdicts, Documented
<1>10. ASSUME NEW d \in Documents, Upload(R)!StartReview(d) PROVE UploadInv(R)'
  <2>1. /\ document[d].version = "scanned_clean" /\ UNCHANGED <<objects, lost, unanswered, parsed, uploads>>
        /\ document' = [document EXCEPT ![d].review = "in_review"]
    BY <1>10 DEF Upload!StartReview, UploadInv, UploadType
  <2>2. PICK old : old = document[d]
    OBVIOUS
  <2>3. PICK new : new = [old EXCEPT !.review = "in_review"]
    OBVIOUS
  <2>4. d \in Documented
    BY <2>1 DEF UploadInv, UploadType, Documented
  <2>5. old.scan = "clean" /\ old.content \notin Infected
    BY <2>1, <2>2, <2>4 DEF UploadInv, Verdicts
  <2>6. old \in [content: {old.content}, review: {"absent", "draft", "in_review", "rejected"},
                 version: {"absent", "uploaded", "scanned_clean", "rejected"},
                 scan: {"pending", "clean", "infected"}]
    BY <2>2, <2>4 DEF UploadInv, UploadType, Documented
  <2>7. /\ new \in [content: {old.content}, review: {"absent", "draft", "in_review", "rejected"},
                    version: {"absent", "uploaded", "scanned_clean", "rejected"},
                    scan: {"pending", "clean", "infected"}]
        /\ new.content = old.content /\ new.scan = "clean"
    BY <2>3, <2>5, <2>6
  <2>8. document' = [document EXCEPT ![d] = new]
    <3>1. document' = [document EXCEPT ![d] = [@ EXCEPT !.review = "in_review"]]
      BY <2>1 DEF UploadInv, UploadType
    <3>. QED BY <2>2, <2>3, <3>1
  <2>. QED BY <2>1, <2>2, <2>4, <2>5, <2>7, <2>8, VerdictKeeps
<1>11. ASSUME NEW r \in R, Upload(R)!CommitFails(r) PROVE UploadInv(R)'
  BY <1>11, CommitFailsKeeps
<1>. QED BY <1>1, <1>2, <1>3, <1>4, <1>5, <1>6, <1>7, <1>8, <1>9, <1>10, <1>11
         DEF Upload!Next, Upload!Upload

LEMMA UploadsOk ==
  ASSUME NEW R, UploadInv(R)
  PROVE  /\ Upload(R)!VersionsHaveObjects
         /\ Upload(R)!OrphansAreLost
         /\ Upload(R)!ReviewedIsClean
<1>1. Upload(R)!Rows = Documented
  BY RowsAreDocumented DEF UploadInv
<1>2. \A d : Upload(R)!InFlight(d) <=> \E r \in R : uploads[r] \in Uploading /\ uploads[r].doc = d
  BY InFlightIsUploading DEF UploadInv
<1>3. Upload(R)!ReviewedIsClean
  BY <1>1 DEF UploadInv, Verdicts, Upload!ReviewedIsClean
<1>. QED BY <1>1, <1>2, <1>3 DEF UploadInv, Upload!VersionsHaveObjects, Upload!OrphansAreLost

-----------------------------------------------------------------------------
(* One upload at a time: nobody registers the content a call looked for.   *)

UploadOnce(R) ==
  /\ \A d, e \in Documented : document[d].content = document[e].content => d = e
  /\ \A r \in R : uploads[r] \in Uploading /\ uploads[r].call # "undoing" =>
       \A d \in Documented : document[d].content # uploads[r].content

LEMMA UploadOnceStep ==
  ASSUME NEW R, \A r, q \in R : r = q, UploadInv(R), UploadOnce(R), Upload(R)!Next
  PROVE  UploadOnce(R)'
<1>1. UploadInv(R)'
  BY UploadStep
<1>2. ASSUME Documented' = Documented, \A d \in Documented : document'[d].content = document[d].content,
             \A r \in R : uploads'[r] \in Uploading /\ uploads'[r].call # "undoing" =>
                /\ uploads[r] \in Uploading /\ uploads[r].call # "undoing"
                /\ uploads'[r].content = uploads[r].content
      PROVE  UploadOnce(R)'
  BY <1>2 DEF UploadOnce
<1>3. ASSUME UNCHANGED <<document, uploads>>
      PROVE  UploadOnce(R)'
  BY <1>3 DEF UploadOnce, Documented
<1>4. CASE Upload(R)!Administration \/ \E d \in Documents : Upload(R)!Parse(d)
  <2>1. UNCHANGED <<document, uploads>>
    BY <1>4 DEF Upload!Administration, Upload!SuspendSource, Upload!CreateSource,
         Upload!CreateLicence, Upload!ReplaceLicence, Upload!LicenceEnds, Upload!Parse
  <2>. QED BY <1>3, <2>1
<1>5. ASSUME NEW r \in R, NEW s, NEW l, NEW d \in Documents, NEW c \in Contents,
             Upload(R)!StartUpload(r, s, l, d, c)
      PROVE  UploadOnce(R)'
  <2>1. /\ uploads'[r] = [call |-> "upload", doc |-> d, content |-> c] /\ UNCHANGED document
        /\ \A e \in Documented : document[e].content # c
    BY <1>5, RowsAreDocumented DEF Upload!StartUpload, Upload!NotUploaded, UploadInv, UploadType
  <2>. QED BY <2>1 DEF UploadOnce, Documented
<1>6. ASSUME NEW r \in R, Upload(R)!PutObject(r) PROVE UploadOnce(R)'
  <2>1. uploads[r] \in Uploading
    BY <1>6, UploadKinds DEF Upload!PutObject, UploadInv, UploadType
  <2>2. uploads'[r].content = uploads[r].content /\ UNCHANGED document /\ uploads[r].call = "upload"
    BY <1>6, <2>1 DEF Upload!PutObject, UploadInv, UploadType, Uploading
  <2>. QED BY <2>1, <2>2 DEF UploadOnce, Documented
<1>7. ASSUME NEW r \in R, \/ Upload(R)!CommitUpload(r)
                          \/ Upload(R)!CommitFails(r) /\ ~ UNCHANGED document
      PROVE  UploadOnce(R)'
  <2>1. PICK t \in Uploading : t = uploads[r] /\ t.call = "stored"
    BY <1>7, UploadKinds DEF Upload!CommitUpload, Upload!CommitFails, UploadInv, UploadType
  <2>2. PICK row : row = [content |-> t.content, review |-> "draft", version |-> "uploaded",
                          scan |-> "pending"]
    OBVIOUS
  <2>3. /\ document' = [document EXCEPT ![t.doc] = row] /\ uploads'[r].call \in {"none", "undoing"}
        /\ t.doc \in Documents /\ t.doc \notin Documented
    BY <1>7, <2>1, <2>2 DEF Upload!CommitUpload, Upload!CommitFails, Upload!Registered, Upload!Idle, NoUpload,
         UploadInv, UploadType, UploadPending, Uploading
  <2>4. /\ document'[t.doc] = row /\ \A d \in Documents : d # t.doc => document'[d] = document[d]
    BY <2>3 DEF UploadInv, UploadType
  <2>5. row.content = t.content /\ \A d \in Documented : document[d].content # t.content
    BY <2>1, <2>2 DEF UploadOnce
  <2>6. \A d \in Documented' : d = t.doc \/ d \in Documented
    BY <2>4 DEF Documented
  <2>7. \A d \in Documented : d \in Documents /\ d # t.doc
    BY <2>3 DEF Documented
  <2>8. \A d, e \in Documented' : document'[d].content = document'[e].content => d = e
    BY <2>4, <2>5, <2>6, <2>7 DEF UploadOnce
  <2>9. \A q \in R : uploads'[q] \in Uploading => uploads'[q].call = "undoing"
    BY <2>3, UploadKinds
  <2>. QED BY <2>8, <2>9 DEF UploadOnce
<1>8. ASSUME NEW r \in R, uploads'[r] \in Uploading => uploads'[r].call = "undoing", Documented' = Documented,
             \A d \in Documented : document'[d].content = document[d].content
      PROVE  UploadOnce(R)'
  BY <1>2, <1>8
<1>9. ASSUME NEW r \in R, \/ Upload(R)!CommitFails(r) /\ UNCHANGED document
                          \/ Upload(R)!PutFails(r) \/ Upload(R)!UndoPut(r) \/ Upload(R)!Crash(r)
                          \/ \E d \in Documents : Upload(R)!StartScan(r, d)
      PROVE  UploadOnce(R)'
  <2>1. UNCHANGED document /\ Documented' = Documented
    BY <1>9 DEF Upload!PutFails, Upload!UndoPut, Upload!Crash, Upload!StartScan, Documented
  <2>2. uploads'[r].call \in {"none", "scan", "undoing"}
    <3>1. CASE Upload(R)!CommitFails(r)
      <4>1. uploads[r] \in Uploading
        BY <3>1, UploadKinds DEF Upload!CommitFails, UploadInv, UploadType
      <4>. QED BY <3>1, <4>1 DEF Upload!CommitFails, UploadInv, UploadType, Uploading
    <3>. QED BY <1>9, <3>1 DEF Upload!PutFails, Upload!UndoPut, Upload!Crash, Upload!StartScan,
           Upload!Idle, UploadInv, UploadType
  <2>. QED BY <1>8, <2>1, <2>2, UploadKinds
<1>10. ASSUME NEW r \in R, Upload(R)!CleanScan(r) \/ Upload(R)!InfectedScan(r)
       PROVE  UploadOnce(R)'
  <2>1. uploads'[r] = NoUpload
    BY <1>10 DEF Upload!CleanScan, Upload!InfectedScan, Upload!Idle, NoUpload, UploadInv, UploadType
  <2>2. PICK d \in Documented : d = uploads[r].doc
    BY <1>10, UploadKinds DEF Upload!CleanScan, Upload!InfectedScan, UploadInv, UploadType, UploadPending
  <2>3. /\ \A e \in Documents : document'[e].content = document[e].content
        /\ \A e \in Documents : e # d => document'[e] = document[e]
        /\ document'[d].scan # "absent"
    BY <1>10, <2>2 DEF Upload!CleanScan, Upload!InfectedScan, UploadInv, UploadType, Documented
  <2>4. Documented' = Documented
    BY <2>2, <2>3 DEF Documented
  <2>. QED BY <1>8, <2>1, <2>3, <2>4, UploadKinds DEF Documented
<1>11. ASSUME NEW d \in Documents, Upload(R)!StartReview(d) PROVE UploadOnce(R)'
  <2>1. /\ \A e \in Documents : /\ document'[e].content = document[e].content
                                /\ document'[e].scan = document[e].scan
        /\ UNCHANGED uploads
    BY <1>11 DEF Upload!StartReview, UploadInv, UploadType
  <2>. QED BY <1>2, <2>1 DEF Documented
<1>. QED BY <1>4, <1>5, <1>6, <1>7, <1>9, <1>10, <1>11 DEF Upload!Next, Upload!Upload

-----------------------------------------------------------------------------
LEMMA IngestionSteps ==
  ASSUME [RecordsNext]_recordsVars
  PROVE  UNCHANGED subject /\ (IngestionNext \/ UNCHANGED ingestionVars)
BY DEF RecordsNext, recordsVars, Others

UploadsFollow ==
  /\ subject = "upload"         => UploadInv(Req) /\ UploadOnce(Req)
  /\ subject = "racing uploads" => UploadInv(Calls)

\* Whatever fails between the object store and the database and however uploads,
\* scans and crashes overlap: a committed version's object is in the store unless
\* the answer to its commit was lost, only what the program could not finish
\* leaves an object without a row, and nothing infected or unscanned reaches a
\* parser or a reviewer; one upload at a time, a content is registered once
\* (documents.py, register_upload).
THEOREM UploadsKept ==
  ASSUME OneAtATime
  PROVE  RecordsSpec => []UploadsAreKept
<1>1. RecordsInit => UploadsFollow
  <2>. SUFFICES ASSUME RecordsInit PROVE UploadsFollow
    OBVIOUS
  <2>1. CASE subject = "upload"
    <3>1. Upload(Req)!Init
      BY <2>1 DEF RecordsInit
    <3>2. \A r \in Req : uploads[r] = NoUpload
      BY <3>1 DEF Upload!Init, Upload!Idle, NoUpload
    <3>3. Documented = {}
      BY <3>1 DEF Upload!Init, Upload!NoDocument, Documented
    <3>. QED BY <2>1, <3>1, <3>2, <3>3, UploadInit, UploadKinds DEF UploadsFollow, UploadOnce
  <2>2. CASE subject = "racing uploads"
    <3>1. Upload(Calls)!Init
      BY <2>2 DEF RecordsInit
    <3>. QED BY <2>2, <3>1, UploadInit DEF UploadsFollow
  <2>. QED BY <2>1, <2>2 DEF UploadsFollow
<1>2. UploadsFollow /\ [RecordsNext]_recordsVars => UploadsFollow'
  <2>. SUFFICES ASSUME UploadsFollow, [RecordsNext]_recordsVars PROVE UploadsFollow'
    OBVIOUS
  <2>1. UNCHANGED subject /\ (IngestionNext \/ UNCHANGED ingestionVars)
    BY IngestionSteps
  <2>2. CASE UNCHANGED ingestionVars
    BY <2>1, <2>2 DEF UploadsFollow, ingestionVars, UploadInv, UploadOnce, UploadType, UploadPending,
         OwnDocument, Verdicts, Documented
  <2>3. CASE subject = "upload" /\ Upload(Req)!Next
    BY <2>1, <2>3, UploadStep, UploadOnceStep DEF UploadsFollow, OneAtATime
  <2>4. CASE subject = "racing uploads" /\ Upload(Calls)!Next
    BY <2>1, <2>4, UploadStep DEF UploadsFollow
  <2>. QED BY <2>1, <2>2, <2>3, <2>4 DEF IngestionNext
<1>3. UploadsFollow => UploadsAreKept
  <2>1. ASSUME NEW R, UploadInv(R), UploadOnce(R) PROVE Upload(R)!OneRowPerContent
    BY <2>1, RowsAreDocumented DEF UploadInv, UploadOnce, Upload!OneRowPerContent
  <2>. QED BY <2>1, UploadsOk DEF UploadsFollow, UploadsAreKept
<1>. QED BY <1>1, <1>2, <1>3, PTL DEF RecordsSpec

-----------------------------------------------------------------------------
(* The audit log.  Every open transaction sees its own records on top of   *)
(* the committed ones, and among what it sees there is a latest record.    *)

AuditRecords == [id: Nat \ {0}, previous: Nat]

Linked(records, in) ==
  \A x \in records : x.previous # 0 => x.previous < x.id /\ \E y \in in : y.id = x.previous

IsLatest(x, records) == x \in records /\ \A y \in records : y.id <= x.id

HasLatest(records) == records # {} => \E x \in records : IsLatest(x, records)

AuditInv(R) ==
  /\ clock \in Nat
  /\ log \subseteq AuditRecords
  /\ pending \in [R -> SUBSET AuditRecords]
  /\ \A x \in log : x.id <= clock
  /\ \A r \in R : \A x \in pending[r] : x.id <= clock
  /\ Linked(log, log) /\ HasLatest(log)
  /\ \A r \in R : Linked(pending[r], log \union pending[r]) /\ HasLatest(log \union pending[r])

LEMMA AuditInit ==
  ASSUME NEW R, NEW n, Audit(R, n)!Init
  PROVE  AuditInv(R)
BY DEF Audit!Init, AuditInv, Linked, HasLatest

\* what is flushed continues from the latest record in sight
LEMMA PreviousIsLatest ==
  ASSUME NEW R, NEW n, NEW r \in R, AuditInv(R)
  PROVE  \/ log \union pending[r] = {} /\ Audit(R, n)!Previous(r) = 0
         \/ \E x : IsLatest(x, log \union pending[r]) /\ x.id = Audit(R, n)!Previous(r)
<1>. DEFINE V == log \union pending[r]
            c == CHOOSE x \in V : \A y \in V : y.id <= x.id
<1>1. CASE V = {}
  BY <1>1 DEF Audit!Previous, Audit!Visible
<1>2. CASE V # {}
  <2>1. \E x \in V : \A y \in V : y.id <= x.id
    BY <1>2 DEF AuditInv, HasLatest, IsLatest
  <2>2. IsLatest(c, V)
    BY <2>1 DEF IsLatest
  <2>3. Audit(R, n)!Previous(r) = c.id
    BY <1>2 DEF Audit!Previous, Audit!Visible
  <2>. QED BY <2>2, <2>3
<1>. QED BY <1>1, <1>2

LEMMA LatestOfUnion ==
  ASSUME NEW A \in SUBSET AuditRecords, NEW B \in SUBSET AuditRecords, HasLatest(A), HasLatest(B)
  PROVE  HasLatest(A \union B)
<1>1. CASE A = {}
  BY <1>1
<1>2. CASE B = {}
  BY <1>2
<1>3. CASE A # {} /\ B # {}
  <2>1. PICK a \in A : \A y \in A : y.id <= a.id
    BY <1>3 DEF HasLatest, IsLatest
  <2>2. PICK b \in B : \A y \in B : y.id <= b.id
    BY <1>3 DEF HasLatest, IsLatest
  <2>3. CASE a.id <= b.id
    <3>1. \A y \in A \union B : y.id <= b.id
      BY <2>1, <2>2, <2>3 DEF AuditRecords
    <3>. QED BY <3>1 DEF HasLatest, IsLatest
  <2>4. CASE b.id <= a.id
    <3>1. \A y \in A \union B : y.id <= a.id
      BY <2>1, <2>2, <2>4 DEF AuditRecords
    <3>. QED BY <3>1 DEF HasLatest, IsLatest
  <2>. QED BY <2>3, <2>4 DEF AuditRecords
<1>. QED BY <1>1, <1>2, <1>3

LEMMA FlushKeeps ==
  ASSUME NEW R, NEW n, NEW r \in R, NEW m \in Nat \ {0}, AuditInv(R), Audit(R, n)!Flush(r, m)
  PROVE  AuditInv(R)'
<1>. DEFINE prev == Audit(R, n)!Previous(r)
            new  == {[id |-> i, previous |-> prev] : i \in clock + 1 .. clock + m}
            V    == log \union pending[r]
<1>1. /\ pending' = [pending EXCEPT ![r] = @ \union new]
      /\ clock' = clock + m /\ log' = log
  BY DEF Audit!Flush
<1>2. /\ V \subseteq AuditRecords /\ \A x \in V : x.id <= clock
      /\ clock \in Nat
  BY DEF AuditInv
<1>3. /\ prev \in Nat /\ prev <= clock
      /\ prev # 0 => \E x \in V : x.id = prev
  <2>1. CASE V = {} /\ prev = 0
    BY <1>2, <2>1
  <2>2. ASSUME NEW x, IsLatest(x, V), x.id = prev
        PROVE  prev \in Nat /\ prev <= clock /\ \E y \in V : y.id = prev
    BY <1>2, <2>2 DEF IsLatest, AuditRecords
  <2>. QED BY <2>1, <2>2, PreviousIsLatest
<1>4. new \subseteq AuditRecords /\ \A x \in new : x.id > clock /\ x.id <= clock + m /\ x.previous = prev
  BY <1>2, <1>3 DEF AuditRecords
<1>5. /\ clock' \in Nat /\ clock <= clock'
      /\ pending' \in [R -> SUBSET AuditRecords]
  BY <1>1, <1>2, <1>4 DEF AuditInv
<1>6. \A x \in log' : x.id <= clock'
  BY <1>1, <1>2, <1>5 DEF AuditRecords
<1>7. /\ pending'[r] = pending[r] \union new
      /\ \A q \in R : q # r => pending'[q] = pending[q]
  BY <1>1 DEF AuditInv
<1>8. \A q \in R : \A x \in pending'[q] : x.id <= clock'
  <2>1. \A q \in R : \A x \in pending[q] : x.id \in Nat /\ x.id <= clock
    BY DEF AuditInv, AuditRecords
  <2>2. \A x \in new : x.id <= clock'
    BY <1>1, <1>4
  <2>3. \A q \in R : \A x \in pending[q] : x.id <= clock'
    BY <1>2, <1>5, <2>1
  <2>. QED BY <1>7, <2>2, <2>3
<1>9. ASSUME NEW q \in R
      PROVE  Linked(pending'[q], log \union pending'[q]) /\ HasLatest(log \union pending'[q])
  <2>1. CASE q # r
    BY <1>7, <2>1 DEF AuditInv
  <2>2. CASE q = r
    <3>1. Linked(pending'[r], log \union pending'[r])
      <4>1. \A x \in new : x.previous # 0 =>
              x.previous < x.id /\ \E y \in log \union pending'[r] : y.id = x.previous
        BY <1>2, <1>3, <1>4, <1>7 DEF AuditRecords
      <4>2. \A x \in pending[r] : x.previous # 0 =>
              x.previous < x.id /\ \E y \in log \union pending'[r] : y.id = x.previous
        BY <1>7 DEF AuditInv, Linked
      <4>. QED BY <1>7, <4>1, <4>2 DEF Linked
    <3>2. HasLatest(log \union pending'[r])
      <4>1. [id |-> clock + m, previous |-> prev] \in new
        BY <1>2
      <4>2. PICK x \in new : x.id = clock + m
        BY <4>1
      <4>3. \A y \in log \union pending'[r] : y.id <= x.id
        BY <1>1, <1>6, <1>8, <4>2
      <4>. QED BY <1>7, <4>2, <4>3 DEF HasLatest, IsLatest
    <3>. QED BY <2>2, <3>1, <3>2
  <2>. QED BY <2>1, <2>2
<1>. QED BY <1>1, <1>5, <1>6, <1>8, <1>9 DEF AuditInv

LEMMA CommitAuditKeeps ==
  ASSUME NEW R, NEW n, NEW r \in R, AuditInv(R), Audit(R, n)!Commit(r)
  PROVE  AuditInv(R)'
<1>1. /\ log' = log \union pending[r] /\ clock' = clock
      /\ pending' = [pending EXCEPT ![r] = {}]
  BY DEF Audit!Commit
<1>2. /\ pending'[r] = {}
      /\ \A q \in R : q # r => pending'[q] = pending[q]
  BY <1>1 DEF AuditInv
<1>3. /\ clock' \in Nat /\ log' \subseteq AuditRecords
      /\ pending' \in [R -> SUBSET AuditRecords]
      /\ \A x \in log' : x.id <= clock'
      /\ \A q \in R : \A x \in pending'[q] : x.id <= clock'
  BY <1>1, <1>2 DEF AuditInv
<1>4. Linked(log', log') /\ HasLatest(log')
  BY <1>1 DEF AuditInv, Linked
<1>5. ASSUME NEW q \in R
      PROVE  Linked(pending'[q], log' \union pending'[q]) /\ HasLatest(log' \union pending'[q])
  <2>1. CASE q = r
    BY <1>2, <1>4, <2>1 DEF Linked
  <2>2. CASE q # r
    <3>1. Linked(pending'[q], log' \union pending'[q])
      <4>1. Linked(pending[q], log \union pending[q])
        BY DEF AuditInv
      <4>2. pending'[q] = pending[q] /\ log \union pending[q] \subseteq log' \union pending'[q]
        BY <1>1, <1>2, <2>2
      <4>. QED BY <4>1, <4>2, Zenon DEF Linked
    <3>2. HasLatest((log \union pending[r]) \union (log \union pending[q]))
      BY LatestOfUnion DEF AuditInv
    <3>3. (log \union pending[r]) \union (log \union pending[q]) = log' \union pending'[q]
      BY <1>1, <1>2, <2>2
    <3>. QED BY <3>1, <3>2, <3>3
  <2>. QED BY <2>1, <2>2
<1>. QED BY <1>3, <1>4, <1>5 DEF AuditInv

LEMMA AuditStep ==
  ASSUME NEW R, NEW n \in Nat, AuditInv(R), Audit(R, n)!Next
  PROVE  AuditInv(R)'
<1>1. ASSUME NEW r \in R, NEW m \in 1..n, Audit(R, n)!Flush(r, m) PROVE AuditInv(R)'
  BY <1>1, FlushKeeps
<1>2. ASSUME NEW r \in R, Audit(R, n)!Commit(r) PROVE AuditInv(R)'
  BY <1>2, CommitAuditKeeps
<1>3. ASSUME NEW r \in R, Audit(R, n)!Rollback(r) PROVE AuditInv(R)'
  BY <1>3 DEF Audit!Rollback, AuditInv, Linked
<1>. QED BY <1>1, <1>2, <1>3 DEF Audit!Next

-----------------------------------------------------------------------------
(* One record at a time.                                                   *)

\* every record but the latest is continued, and each by one
IsLine(records) ==
  /\ \A x, y \in records : x.id = y.id => x = y
  /\ \A x, y \in records : x.previous = y.previous => x = y
  /\ \A x \in records : (\E y \in records : y.previous = x.id) \/ IsLatest(x, records)

AuditLine(R) == IsLine(log) /\ \A r \in R : IsLine(log \union pending[r])

\* a record that continues from the latest one, or is the first
LEMMA LineGrows ==
  ASSUME NEW A \in SUBSET AuditRecords, IsLine(A), Linked(A, A), NEW e \in AuditRecords,
         \A x \in A : x.id < e.id,
         \/ A = {} /\ e.previous = 0
         \/ \E x : IsLatest(x, A) /\ x.id = e.previous
  PROVE  IsLine(A \union {e})
<1>1. CASE A = {}
  BY <1>1 DEF IsLine, IsLatest, AuditRecords
<1>2. ASSUME NEW z, IsLatest(z, A), z.id = e.previous
      PROVE  IsLine(A \union {e})
  <2>1. z \in A /\ z.id # 0 /\ \A y \in A : y.id <= z.id
    BY <1>2 DEF IsLatest, AuditRecords
  <2>2. \A x \in A : x.previous # e.previous
    <3>. SUFFICES ASSUME NEW x \in A, x.previous = e.previous PROVE FALSE
      OBVIOUS
    <3>1. x.previous = z.id /\ z.id < x.id
      BY <1>2, <2>1 DEF Linked
    <3>. QED BY <2>1, <3>1 DEF AuditRecords
  <2>3. \A x, y \in A \union {e} : x.id = y.id => x = y
    BY DEF IsLine, AuditRecords
  <2>4. \A x, y \in A \union {e} : x.previous = y.previous => x = y
    BY <2>2 DEF IsLine
  <2>5. \A x \in A : \E y \in A \union {e} : y.previous = x.id
    <3>. SUFFICES ASSUME NEW x \in A PROVE \E y \in A \union {e} : y.previous = x.id
      OBVIOUS
    <3>1. CASE \E y \in A : y.previous = x.id
      BY <3>1
    <3>2. CASE IsLatest(x, A)
      <4>1. x.id = z.id
        BY <2>1, <3>2 DEF IsLatest, AuditRecords
      <4>. QED BY <1>2, <4>1
    <3>. QED BY <3>1, <3>2 DEF IsLine
  <2>6. IsLatest(e, A \union {e})
    BY DEF IsLatest, AuditRecords
  <2>. QED BY <2>3, <2>4, <2>5, <2>6 DEF IsLine
<1>. QED BY <1>1, <1>2

LEMMA AuditLineStep ==
  ASSUME NEW R, \A r, q \in R : r = q, AuditInv(R), AuditLine(R), Audit(R, 1)!Next
  PROVE  AuditLine(R)'
<1>1. ASSUME NEW r \in R, Audit(R, 1)!Flush(r, 1)
      PROVE  AuditLine(R)'
  <2>. DEFINE V == log \union pending[r]
              e == [id |-> clock + 1, previous |-> Audit(R, 1)!Previous(r)]
  <2>1. /\ log' = log /\ clock \in Nat
        /\ pending'[r] = pending[r] \union {e}
    <3>1. clock + 1 .. clock + 1 = {clock + 1} /\ clock \in Nat
      BY DEF AuditInv
    <3>2. pending' = [pending EXCEPT ![r] = @ \union {e}] /\ log' = log
      BY <1>1, <3>1 DEF Audit!Flush
    <3>. QED BY <3>1, <3>2 DEF AuditInv
  <2>2. V \in SUBSET AuditRecords /\ \A x \in V : x.id < clock + 1
    <3>1. \A x \in V : x \in AuditRecords /\ x.id <= clock
      BY DEF AuditInv
    <3>. QED BY <2>1, <3>1 DEF AuditRecords
  <2>3. Linked(V, V)
    BY DEF AuditInv, Linked
  <2>4. \/ V = {} /\ e.previous = 0
        \/ \E x : IsLatest(x, V) /\ x.id = e.previous
    BY PreviousIsLatest
  <2>5. e \in AuditRecords /\ \A x \in V : x.id < e.id
    <3>1. e.previous \in Nat
      BY <2>2, <2>4 DEF IsLatest, AuditRecords
    <3>. QED BY <2>1, <2>2, <3>1 DEF AuditRecords
  <2>6. PICK f \in AuditRecords : f = e
    BY <2>5
  <2>7. IsLine(V \union {f})
    <3>1. IsLine(V)
      BY DEF AuditLine
    <3>. QED BY <2>2, <2>3, <2>4, <2>5, <2>6, <3>1, LineGrows
  <2>8. log' \union pending'[r] = V \union {f}
    BY <2>1, <2>6
  <2>. QED BY <2>1, <2>7, <2>8 DEF AuditLine
<1>2. ASSUME NEW r \in R, Audit(R, 1)!Commit(r) \/ Audit(R, 1)!Rollback(r)
      PROVE  AuditLine(R)'
  <2>1. pending'[r] = {} /\ log' \in {log, log \union pending[r]}
    BY <1>2 DEF Audit!Commit, Audit!Rollback, AuditInv
  <2>2. IsLine(log') /\ log' \union pending'[r] = log'
    BY <2>1 DEF AuditLine
  <2>. QED BY <2>2 DEF AuditLine
<1>. QED BY <1>1, <1>2 DEF Audit!Next

LEMMA LineIsOne ==
  ASSUME NEW R, AuditInv(R), AuditLine(R)
  PROVE  Audit(R, 1)!OneLine
<1>. DEFINE last == {x \in log : \A y \in log : y.previous # x.id}
<1>1. \A x, y \in log : x.previous = y.previous => x = y
  BY DEF AuditLine, IsLine
<1>2. \A x, y \in last : x = y
  <2>. SUFFICES ASSUME NEW x \in last, NEW y \in last PROVE x = y
    OBVIOUS
  <2>1. IsLatest(x, log) /\ IsLatest(y, log)
    BY DEF AuditLine, IsLine
  <2>2. x.id = y.id
    BY <2>1 DEF IsLatest, AuditInv, AuditRecords
  <2>. QED BY <2>2 DEF AuditLine, IsLine
<1>3. \A S : (\A x, y \in S : x = y) => Cardinality(S) <= 1
  <2>. SUFFICES ASSUME NEW S, \A x, y \in S : x = y PROVE Cardinality(S) <= 1
    OBVIOUS
  <2>1. CASE S = {}
    BY <2>1, FS_EmptySet
  <2>2. ASSUME NEW x \in S PROVE Cardinality(S) <= 1
    <3>1. S = {x}
      BY <2>2
    <3>2. Cardinality({x}) = 1
      BY FS_Singleton
    <3>. QED BY <3>1, <3>2
  <2>. QED BY <2>1, <2>2
<1>4. Audit(R, 1)!Cardinality(last) <= 1
  <2>1. Audit(R, 1)!Cardinality(last) = Cardinality(last)
    BY DEF Audit!Cardinality, Cardinality
  <2>. QED BY <1>2, <1>3, <2>1
<1>. QED BY <1>1, <1>4 DEF Audit!OneLine

-----------------------------------------------------------------------------
\* every step is one of the audit log, or leaves it as it is
LEMMA AuditSteps ==
  ASSUME [RecordsNext]_recordsVars
  PROVE  UNCHANGED subject /\ (AuditNext \/ UNCHANGED auditVars)
BY DEF RecordsNext, recordsVars, Others

AuditOk ==
  /\ subject = "audit"        => AuditInv(Req) /\ AuditLine(Req)
  /\ subject = "racing audit" => AuditInv(Calls)

\* However many transactions overlap and fail and however many records they
\* flush together, the hash a record continues from is that of an earlier
\* committed one; one transaction and one record at a time, the log is one line
\* (audit.py, _set_audit_hash).
THEOREM AuditLinked ==
  ASSUME OneAtATime
  PROVE  RecordsSpec => []AuditIsLinked
<1>1. RecordsInit => AuditOk
  <2>. SUFFICES ASSUME RecordsInit PROVE AuditOk
    OBVIOUS
  <2>1. CASE subject = "audit"
    <3>0. Audit(Req, 1)!Init
      BY <2>1 DEF RecordsInit
    <3>1. AuditInv(Req)
      BY <3>0, AuditInit
    <3>2. log = {} /\ \A r \in Req : pending[r] = {}
      BY <3>0 DEF Audit!Init
    <3>3. AuditLine(Req)
      BY <3>2 DEF AuditLine, IsLine
    <3>. QED BY <2>1, <3>1, <3>3 DEF AuditOk
  <2>2. CASE subject = "racing audit"
    BY <2>2, AuditInit DEF RecordsInit, AuditOk
  <2>. QED BY <2>1, <2>2 DEF AuditOk
<1>2. AuditOk /\ [RecordsNext]_recordsVars => AuditOk'
  <2>. SUFFICES ASSUME AuditOk, [RecordsNext]_recordsVars PROVE AuditOk'
    OBVIOUS
  <2>1. UNCHANGED subject /\ (AuditNext \/ UNCHANGED auditVars)
    BY AuditSteps
  <2>2. CASE UNCHANGED auditVars
    <3>1. \A R : AuditInv(R) => AuditInv(R)'
      BY <2>2 DEF auditVars, AuditInv, Linked, HasLatest
    <3>2. AuditLine(Req) => AuditLine(Req)'
      BY <2>2 DEF auditVars, AuditLine, IsLine
    <3>. QED BY <2>1, <3>1, <3>2 DEF AuditOk
  <2>3. CASE subject = "audit" /\ Audit(Req, 1)!Next
    BY <2>1, <2>3, AuditStep, AuditLineStep DEF AuditOk, OneAtATime
  <2>4. CASE subject = "racing audit" /\ Audit(Calls, MaxFlush)!Next
    <3>1. MaxFlush \in Nat
      BY RecordsAssumption
    <3>. QED BY <2>1, <2>4, <3>1, AuditStep DEF AuditOk
  <2>. QED BY <2>1, <2>2, <2>3, <2>4 DEF AuditNext
<1>3. AuditOk => AuditIsLinked
  <2>1. \A R, n : AuditInv(R) => Audit(R, n)!NoDanglingLink
    BY DEF AuditInv, Linked, Audit!NoDanglingLink
  <2>. QED BY <2>1, LineIsOne DEF AuditOk, AuditIsLinked
<1>. QED BY <1>1, <1>2, <1>3, PTL DEF RecordsSpec

-----------------------------------------------------------------------------
(* The licence policy, for any dates.                                      *)

LicenceTerms ==
  [status: Policy!Statuses, validFrom: Int, validUntil: Int, storage: Policy!Permissions,
   embedding: Policy!Permissions, commercial: Policy!Permissions,
   redistribution: Policy!Permissions, attributionRequired: BOOLEAN,
   attributionTemplate: BOOLEAN]

ValidOn(l, today) ==
  /\ l.validFrom = Policy!NoDate \/ today >= l.validFrom
  /\ l.validUntil = Policy!NoDate \/ today <= l.validUntil

Unblocking == {"review_required", "ephemeral_cache_only", "persistent_private",
               "persistent_redistributable"}

LEMMA BlockedOrValid ==
  ASSUME NEW l \in LicenceTerms, NEW today \in Int
  PROVE  Policy!Blocked(l, today) <=> ~ (l.status \in Unblocking /\ ValidOn(l, today))
BY DEF LicenceTerms, Policy!Blocked, Policy!Statuses, Policy!NoDate, ValidOn, Unblocking

\* what a workflow asks of a licence on the days of its validity
Grants(l, w) ==
  /\ l.attributionRequired => l.attributionTemplate
  /\ \/ /\ w = "ingestion" /\ l.status \in Policy!Persistent /\ l.storage \in Policy!Allowing
     \/ /\ w = "retrieval" /\ l.status \in Policy!Persistent /\ l.storage \in Policy!Allowing
        /\ l.embedding \in Policy!Allowing
     \/ /\ w = "export" /\ l.status = "persistent_redistributable"
        /\ l.redistribution \in Policy!Allowing /\ l.commercial \in Policy!Allowing

LEMMA WorkflowGrants ==
  ASSUME NEW l \in LicenceTerms, NEW today \in Int,
         NEW w \in {"ingestion", "retrieval", "export", "anything else"}
  PROVE  Policy!WorkflowAllowed(l, w, today) <=> (Grants(l, w) /\ ValidOn(l, today))
<1>1. /\ Policy!Allows(l, "persistent_storage", today) <=> Policy!PersistentStorage(l, today)
      /\ Policy!Allows(l, "embedding", today) <=> Policy!Embedding(l, today)
      /\ Policy!Allows(l, "commercial_use", today) <=> Policy!CommercialUse(l, today)
      /\ Policy!Allows(l, "redistribution", today) <=> Policy!Redistribution(l, today)
      /\ Policy!Allows(l, "attribution", today) <=> Policy!Attribution(l)
  BY DEF Policy!Allows
<1>2. /\ Policy!Persistent = {"persistent_private", "persistent_redistributable"}
      /\ Policy!Persistent \subseteq Unblocking
  BY DEF Policy!Persistent, Unblocking
<1>3. CASE w = "ingestion"
  <2>1. Policy!RequiredActions(w) = {"persistent_storage", "attribution"}
    BY <1>3 DEF Policy!RequiredActions
  <2>2. Policy!WorkflowAllowed(l, w, today) <=>
          Policy!PersistentStorage(l, today) /\ Policy!Attribution(l)
    BY <1>1, <2>1 DEF Policy!WorkflowAllowed
  <2>. QED BY <1>2, <1>3, <2>2, BlockedOrValid DEF Policy!PersistentStorage, Policy!Attribution, Grants
<1>4. CASE w = "retrieval"
  <2>1. Policy!RequiredActions(w) = {"persistent_storage", "embedding", "attribution"}
    BY <1>4 DEF Policy!RequiredActions
  <2>2. Policy!WorkflowAllowed(l, w, today) <=>
          Policy!PersistentStorage(l, today) /\ Policy!Embedding(l, today) /\ Policy!Attribution(l)
    BY <1>1, <2>1 DEF Policy!WorkflowAllowed
  <2>. QED BY <1>2, <1>4, <2>2, BlockedOrValid
           DEF Policy!PersistentStorage, Policy!Embedding, Policy!Attribution, Grants
<1>5. CASE w = "export"
  <2>1. Policy!RequiredActions(w) = {"redistribution", "commercial_use", "attribution"}
    BY <1>5 DEF Policy!RequiredActions
  <2>2. Policy!WorkflowAllowed(l, w, today) <=>
          Policy!Redistribution(l, today) /\ Policy!CommercialUse(l, today) /\ Policy!Attribution(l)
    BY <1>1, <2>1 DEF Policy!WorkflowAllowed
  <2>. QED BY <1>2, <1>5, <2>2, BlockedOrValid
           DEF Policy!Redistribution, Policy!CommercialUse, Policy!Attribution, Grants
<1>6. CASE w = "anything else"
  <2>1. Policy!RequiredActions(w) = {}
    BY <1>6 DEF Policy!RequiredActions
  <2>. QED BY <1>6, <2>1 DEF Policy!WorkflowAllowed, Grants
<1>. QED BY <1>3, <1>4, <1>5, <1>6

LEMMA PolicyAgrees ==
  ASSUME NEW l \in LicenceTerms, NEW days \in Nat
  PROVE  /\ Policy!RetrievalNeedsIngestion(l, days)
         /\ Policy!AllowedWhileValid(l, days)
         /\ Policy!StatusCaps(l, days)
         /\ Policy!CacheFollowsStorage(l, days)
<1>0. \A w \in {"ingestion", "retrieval", "export", "anything else"}, today \in 0..days :
        Policy!WorkflowAllowed(l, w, today) <=> (Grants(l, w) /\ ValidOn(l, today))
  <2>1. \A today \in 0..days : today \in Int
    OBVIOUS
  <2>. QED BY <2>1, WorkflowGrants
<1>1. Policy!RetrievalNeedsIngestion(l, days)
  <2>1. Grants(l, "retrieval") => Grants(l, "ingestion")
    BY DEF Grants
  <2>. QED BY <1>0, <2>1 DEF Policy!RetrievalNeedsIngestion
<1>2. Policy!AllowedWhileValid(l, days)
  <2>. SUFFICES ASSUME NEW w \in {"ingestion", "retrieval", "export"}
                PROVE  {today \in 0..days : Policy!WorkflowAllowed(l, w, today)}
                         \in {{}, {today \in 0..days :
                                     /\ l.validFrom = Policy!NoDate \/ today >= l.validFrom
                                     /\ l.validUntil = Policy!NoDate \/ today <= l.validUntil}}
    BY DEF Policy!AllowedWhileValid
  <2>1. \A today \in 0..days : Policy!WorkflowAllowed(l, w, today) <=> (Grants(l, w) /\ ValidOn(l, today))
    BY <1>0
  <2>2. CASE Grants(l, w)
    BY <2>1, <2>2 DEF ValidOn
  <2>3. CASE ~ Grants(l, w)
    BY <2>1, <2>3
  <2>. QED BY <2>2, <2>3
<1>3. Policy!StatusCaps(l, days)
  <2>1. /\ l.status = "persistent_private" => ~ Grants(l, "export")
        /\ l.status \notin Policy!Persistent =>
             \A w \in {"ingestion", "retrieval", "export", "anything else"} : ~ Grants(l, w)
    BY DEF Grants, Policy!Persistent
  <2>. QED BY <1>0, <2>1 DEF Policy!StatusCaps
<1>4. Policy!CacheFollowsStorage(l, days)
  <2>. SUFFICES ASSUME NEW today \in 0..days
                PROVE  /\ Policy!PersistentStorage(l, today) =>
                            Policy!CacheTtl(l, today) = Policy!PersistentTtl
                       /\ l.status \notin Policy!Persistent =>
                            Policy!CacheTtl(l, today) \in {0, Policy!EphemeralTtl}
                       /\ Policy!CacheTtl(l, today) > 0 =>
                            l.validUntil = Policy!NoDate \/ today <= l.validUntil
    BY DEF Policy!CacheFollowsStorage
  <2>1. Policy!PersistentStorage(l, today) => Policy!Cache(l, today) /\ l.status \in Policy!Persistent
    BY DEF Policy!PersistentStorage, Policy!Cache
  <2>2. Policy!Cache(l, today) => ValidOn(l, today)
    BY BlockedOrValid DEF Policy!Cache
  <2>. QED BY <2>1, <2>2 DEF Policy!CacheTtl, ValidOn
<1>. QED BY <1>1, <1>2, <1>3, <1>4

\* For all terms the policy may be asked about: what may be retrieved may be
\* ingested, a workflow is allowed on all days of the validity or on none, the
\* status caps the permissions, and the cache keeps a document as long as the
\* licence lets one store it (license_policy.py, evaluate_license_policy).
THEOREM LicencesAgree ==
  RecordsSpec => []LicenceDecisionsAgree
<1>. DEFINE Ok == subject = "licence" => terms \in LicenceTerms
<1>1. RecordsInit => Ok
  <2>1. Terms \subseteq LicenceTerms
    <3>1. Dates \subseteq Int
      BY DEF Dates, Policy!NoDate
    <3>. QED BY <3>1 DEF Terms, LicenceTerms, Policy!Permissions
  <2>. QED BY <2>1 DEF RecordsInit
<1>2. Ok /\ [RecordsNext]_recordsVars => Ok'
  BY DEF RecordsNext, recordsVars
<1>3. Ok => LicenceDecisionsAgree
  BY PolicyAgrees, RecordsAssumption DEF LicenceDecisionsAgree
<1>. QED BY <1>1, <1>2, <1>3, PTL DEF RecordsSpec

-----------------------------------------------------------------------------
(* Reports.  What a call will write is fixed when it begins: a reviewer,   *)
(* with the status that goes with it or alone, or an outcome with its      *)
(* resolution.                                                             *)

ReportRow == [status: {"absent", "open", "in_review", "resolved", "dismissed"},
              reviewer: Reviewers \union {nobody},
              resolution: {"none", "resolved", "dismissed"}]

Reviewing == [id: Reports, columns: [reviewer: Reviewers \union {nobody}]]
Routing    == [id: Reports, columns: [reviewer: Reviewers \union {nobody},
                                     status: {"open", "in_review"}]]
Closing   == {t \in [id: Reports, columns: [status: {"resolved", "dismissed"},
                                            resolution: {"resolved", "dismissed"}]] :
                t.columns.status = t.columns.resolution}
NoReview  == [id |-> "none", columns |-> [none |-> "none"]]

ClosedRow(row) == row.status \in {"resolved", "dismissed"} => row.resolution = row.status

QueueRow(row) ==
  /\ row.status = "open" => row.reviewer = nobody
  /\ row.status = "in_review" => row.reviewer # nobody
  /\ row.status \in {"open", "in_review"} => row.resolution = "none"

NoRow == [status |-> "absent", reviewer |-> nobody, resolution |-> "none"]

FeedbackInv(R) ==
  /\ report \in [Reports -> ReportRow]
  /\ reviews \in [R -> {NoReview} \union Reviewing \union Routing \union Closing]
  /\ \A f \in Reports : ClosedRow(report[f]) /\ (report[f].status = "absent" => report[f] = NoRow)
  /\ \A r \in R : reviews[r] # NoReview => report[reviews[r].id].status # "absent"

\* what a row is after the columns were written
LEMMA WrittenReviewer ==
  ASSUME NEW R, NEW row \in ReportRow, NEW t \in Reviewing
  PROVE  LET new == Report(R)!Written(row, t.columns)
         IN  /\ new \in ReportRow
             /\ new.reviewer = t.columns.reviewer
             /\ new.status = row.status /\ new.resolution = row.resolution
<1>1. /\ t.columns.reviewer \in Reviewers \union {nobody} /\ DOMAIN t.columns = {"reviewer"}
      /\ DOMAIN row = {"status", "reviewer", "resolution"}
  BY DEF Reviewing, ReportRow
<1>2. Report(R)!Written(row, t.columns) =
         [c \in {"status", "reviewer", "resolution"} |->
            IF c = "reviewer" THEN t.columns.reviewer ELSE row[c]]
  BY <1>1 DEF Report!Written
<1>3. Report(R)!Written(row, t.columns) = [row EXCEPT !.reviewer = t.columns.reviewer]
  BY <1>1, <1>2 DEF ReportRow
<1>. QED BY <1>1, <1>3 DEF ReportRow

LEMMA WrittenMove ==
  ASSUME NEW R, NEW row \in ReportRow, NEW t \in Routing
  PROVE  LET new == Report(R)!Written(row, t.columns)
         IN  /\ new \in ReportRow
             /\ new.reviewer = t.columns.reviewer
             /\ new.status = t.columns.status /\ new.status \in {"open", "in_review"}
             /\ new.resolution = row.resolution
<1>1. /\ t.columns.reviewer \in Reviewers \union {nobody}
      /\ t.columns.status \in {"open", "in_review"}
      /\ DOMAIN t.columns = {"reviewer", "status"}
      /\ DOMAIN row = {"status", "reviewer", "resolution"}
  BY DEF Routing, ReportRow
<1>2. Report(R)!Written(row, t.columns) =
         [c \in {"status", "reviewer", "resolution"} |->
            IF c = "reviewer" THEN t.columns.reviewer
            ELSE IF c = "status" THEN t.columns.status ELSE row[c]]
  BY <1>1 DEF Report!Written
<1>3. Report(R)!Written(row, t.columns) = [row EXCEPT !.reviewer = t.columns.reviewer, !.status = t.columns.status]
  BY <1>1, <1>2 DEF ReportRow
<1>. QED BY <1>1, <1>3 DEF ReportRow

LEMMA WrittenOutcome ==
  ASSUME NEW R, NEW row \in ReportRow, NEW t \in Closing
  PROVE  LET new == Report(R)!Written(row, t.columns)
         IN  /\ new \in ReportRow
             /\ new.status = t.columns.status /\ new.status \in {"resolved", "dismissed"}
             /\ new.resolution = new.status /\ new.reviewer = row.reviewer
<1>1. /\ t.columns.status \in {"resolved", "dismissed"}
      /\ t.columns.resolution = t.columns.status
      /\ DOMAIN t.columns = {"status", "resolution"}
      /\ DOMAIN row = {"status", "reviewer", "resolution"}
  BY DEF Closing, ReportRow
<1>2. Report(R)!Written(row, t.columns) =
         [c \in {"status", "reviewer", "resolution"} |->
            IF c \in {"status", "resolution"} THEN t.columns.status ELSE row[c]]
  BY <1>1 DEF Report!Written
<1>3. Report(R)!Written(row, t.columns) = [row EXCEPT !.status = t.columns.status, !.resolution = t.columns.status]
  BY <1>1, <1>2 DEF ReportRow
<1>. QED BY <1>1, <1>3 DEF ReportRow

LEMMA ReviewId ==
  \A t \in Reviewing \union Routing \union Closing : t.id \in Reports
BY DEF Reviewing, Routing, Closing

LEMMA NoReviewIsNone ==
  NoReview \notin Reviewing /\ NoReview \notin Routing /\ NoReview \notin Closing
<1>1. DOMAIN NoReview.columns = {"none"}
  BY DEF NoReview
<1>2. \A t \in Reviewing : DOMAIN t.columns = {"reviewer"}
  BY DEF Reviewing
<1>3. \A t \in Routing : DOMAIN t.columns = {"reviewer", "status"}
  BY DEF Routing
<1>4. \A t \in Closing : DOMAIN t.columns = {"status", "resolution"}
  BY DEF Closing
<1>. QED BY <1>1, <1>2, <1>3, <1>4

\* a call that begins fits the row it has read
LEMMA ReviewBegins ==
  ASSUME NEW R, FeedbackInv(R), NEW r \in R, NEW f \in Reports,
         \/ \E to \in Reviewers \union {nobody} : Report(R)!Assign(r, f, to)
         \/ \E dismissed \in BOOLEAN : Report(R)!Resolve(r, f, dismissed)
  PROVE  /\ report[f].status \in {"open", "in_review"} /\ UNCHANGED report
         /\ \E t \in Reviewing \union Routing \union Closing :
              /\ reviews' = [reviews EXCEPT ![r] = t] /\ t.id = f
              /\ QueueRow(report[f]) => QueueRow(Report(R)!Written(report[f], t.columns))
<1>1. /\ report[f] \in ReportRow /\ report[f].status \in {"open", "in_review"} /\ UNCHANGED report
  BY DEF Report!Assign, Report!Resolve, Report!NotTerminal, Report!Terminal, Report!NoReport, NoRow,
         FeedbackInv, ReportRow
<1>2. PICK row \in ReportRow : row = report[f]
  BY <1>1
<1>3. ASSUME NEW to \in Reviewers \union {nobody}, Report(R)!Assign(r, f, to)
      PROVE  \E t \in Reviewing \union Routing \union Closing :
              /\ reviews' = [reviews EXCEPT ![r] = t] /\ t.id = f
              /\ QueueRow(row) => QueueRow(Report(R)!Written(row, t.columns))
  <2>. DEFINE next == Report(R)!StatusAfterAssign(row.status, to)
  <2>1. CASE next # row.status
    <3>1. /\ next \in {"open", "in_review"}
          /\ next = "open" => to = nobody
          /\ next = "in_review" => to # nobody
      BY <1>1, <1>2, <2>1 DEF Report!StatusAfterAssign
    <3>2. PICK t \in Routing : t = [id |-> f, columns |-> [reviewer |-> to, status |-> next]]
      BY <3>1 DEF Routing
    <3>3. reviews' = [reviews EXCEPT ![r] = t] /\ t.id = f
      BY <1>2, <1>3, <2>1, <3>2 DEF Report!Assign, Report!Writes
    <3>4. PICK new : new = Report(R)!Written(row, t.columns)
      OBVIOUS
    <3>5. t.columns.reviewer = to /\ t.columns.status = next
      BY <3>2
    <3>6. new.reviewer = to /\ new.status = next /\ new.resolution = row.resolution
      BY <3>4, <3>5, WrittenMove
    <3>7. QueueRow(row) => QueueRow(new)
      BY <1>1, <1>2, <3>1, <3>6 DEF QueueRow
    <3>. QED BY <3>2, <3>3, <3>4, <3>7
  <2>2. CASE next = row.status
    <3>1. /\ row.status = "open" => to = nobody
          /\ row.status = "in_review" => to # nobody
      BY <2>2 DEF Report!StatusAfterAssign
    <3>2. PICK t \in Reviewing : t = [id |-> f, columns |-> [reviewer |-> to]]
      BY DEF Reviewing
    <3>3. reviews' = [reviews EXCEPT ![r] = t] /\ t.id = f
      BY <1>2, <1>3, <2>2, <3>2 DEF Report!Assign, Report!Writes
    <3>4. PICK new : new = Report(R)!Written(row, t.columns)
      OBVIOUS
    <3>5. t.columns.reviewer = to
      BY <3>2
    <3>6. new.reviewer = to /\ new.status = row.status /\ new.resolution = row.resolution
      BY <3>4, <3>5, WrittenReviewer
    <3>7. QueueRow(row) => QueueRow(new)
      BY <1>1, <1>2, <3>1, <3>6 DEF QueueRow
    <3>. QED BY <3>2, <3>3, <3>4, <3>7
  <2>. QED BY <2>1, <2>2
<1>4. ASSUME NEW dismissed \in BOOLEAN, Report(R)!Resolve(r, f, dismissed)
      PROVE  \E t \in Reviewing \union Routing \union Closing :
              /\ reviews' = [reviews EXCEPT ![r] = t] /\ t.id = f
              /\ QueueRow(row) => QueueRow(Report(R)!Written(row, t.columns))
  <2>1. PICK outcome \in {"resolved", "dismissed"} :
          outcome = IF dismissed THEN "dismissed" ELSE "resolved"
    OBVIOUS
  <2>2. PICK t \in Closing :
          t = [id |-> f, columns |-> [status |-> outcome, resolution |-> outcome]]
    BY DEF Closing
  <2>3. reviews' = [reviews EXCEPT ![r] = t] /\ t.id = f
    BY <1>4, <2>1, <2>2 DEF Report!Resolve, Report!Writes
  <2>4. PICK new : new = Report(R)!Written(row, t.columns)
    OBVIOUS
  <2>5. t.columns.status = outcome
    BY <2>2
  <2>6. new.status = outcome
    BY <2>4, <2>5, WrittenOutcome
  <2>7. QueueRow(new)
    BY <2>6 DEF QueueRow
  <2>. QED BY <2>2, <2>3, <2>4, <2>7
<1>. QED BY <1>1, <1>2, <1>3, <1>4

\* whatever was read before, a commit leaves a row whose resolution is its own
LEMMA ReviewCommits ==
  ASSUME NEW R, FeedbackInv(R), NEW r \in R, Report(R)!Commit(r)
  PROVE  \E t \in Reviewing \union Routing \union Closing, new \in ReportRow :
           /\ t = reviews[r] /\ new = Report(R)!Written(report[t.id], t.columns)
           /\ report' = [report EXCEPT ![t.id] = new] /\ reviews' = [reviews EXCEPT ![r] = NoReview]
           /\ ClosedRow(new) /\ new.status # "absent"
<1>1. PICK t \in Reviewing \union Routing \union Closing : t = reviews[r]
  BY DEF Report!Commit, Report!Free, Report!Idle, FeedbackInv, NoReview
<1>2. t.id \in Reports
  BY ReviewId
<1>3. PICK row \in ReportRow : row = report[t.id]
  BY <1>2 DEF FeedbackInv
<1>4. ClosedRow(row) /\ row.status # "absent"
  BY <1>1, <1>2, <1>3, NoReviewIsNone DEF FeedbackInv
<1>5. PICK new : new = Report(R)!Written(row, t.columns)
  OBVIOUS
<1>6. report' = [report EXCEPT ![t.id] = new] /\ reviews' = [reviews EXCEPT ![r] = NoReview]
  BY <1>1, <1>2, <1>3, <1>5 DEF Report!Commit, Report!Idle, NoReview, FeedbackInv
<1>7. new \in ReportRow /\ ClosedRow(new) /\ new.status # "absent"
  <2>1. CASE t \in Reviewing
    BY <1>4, <1>5, <2>1, WrittenReviewer DEF ClosedRow
  <2>2. CASE t \in Routing
    BY <1>5, <2>2, WrittenMove DEF ClosedRow
  <2>3. CASE t \in Closing
    BY <1>5, <2>3, WrittenOutcome DEF ClosedRow
  <2>. QED BY <2>1, <2>2, <2>3
<1>. QED BY <1>1, <1>3, <1>5, <1>6, <1>7

LEMMA FeedbackStep ==
  ASSUME NEW R, FeedbackInv(R), Report(R)!Next
  PROVE  FeedbackInv(R)'
<1>1. ASSUME NEW f \in Reports, Report(R)!SubmitFeedback(f)
      PROVE  FeedbackInv(R)'
  <2>1. PICK row : row = [NoRow EXCEPT !.status = "open"]
    OBVIOUS
  <2>2. row \in ReportRow /\ row.status = "open"
    BY <2>1 DEF NoRow, ReportRow
  <2>3. report' = [report EXCEPT ![f] = row] /\ UNCHANGED reviews
    <3>1. report' = [report EXCEPT ![f] = [@ EXCEPT !.status = "open"]] /\ UNCHANGED reviews
          /\ report[f] = NoRow
      BY <1>1 DEF Report!SubmitFeedback, Report!NoReport, NoRow, FeedbackInv
    <3>. QED BY <2>1, <3>1
  <2>4. /\ report'[f] = row /\ \A g \in Reports : g # f => report'[g] = report[g]
        /\ report' \in [Reports -> ReportRow]
    BY <2>2, <2>3 DEF FeedbackInv
  <2>5. \A g \in Reports : ClosedRow(report'[g]) /\ (report'[g].status = "absent" => report'[g] = NoRow)
    BY <2>2, <2>4 DEF FeedbackInv, ClosedRow
  <2>6. \A q \in R : reviews[q] # NoReview => reviews[q].id \in Reports
    BY ReviewId DEF FeedbackInv
  <2>. QED BY <2>2, <2>3, <2>4, <2>5, <2>6 DEF FeedbackInv
<1>2. ASSUME NEW r \in R, NEW f \in Reports,
             \/ \E to \in Reviewers \union {nobody} : Report(R)!Assign(r, f, to)
             \/ \E dismissed \in BOOLEAN : Report(R)!Resolve(r, f, dismissed)
      PROVE  FeedbackInv(R)'
  <2>1. PICK t \in Reviewing \union Routing \union Closing :
          reviews' = [reviews EXCEPT ![r] = t] /\ t.id = f
    BY <1>2, ReviewBegins
  <2>2. report[f].status \in {"open", "in_review"} /\ UNCHANGED report
    BY <1>2, ReviewBegins
  <2>. QED BY <2>1, <2>2 DEF FeedbackInv
<1>3. ASSUME NEW r \in R, Report(R)!Commit(r)
      PROVE  FeedbackInv(R)'
  <2>1. PICK t \in Reviewing \union Routing \union Closing, new \in ReportRow :
          /\ report' = [report EXCEPT ![t.id] = new] /\ reviews' = [reviews EXCEPT ![r] = NoReview]
          /\ ClosedRow(new) /\ new.status # "absent" /\ t.id \in Reports
    BY <1>3, ReviewCommits, ReviewId
  <2>2. /\ report'[t.id] = new /\ \A g \in Reports : g # t.id => report'[g] = report[g]
        /\ report' \in [Reports -> ReportRow]
    BY <2>1 DEF FeedbackInv
  <2>3. \A g \in Reports : ClosedRow(report'[g]) /\ (report'[g].status = "absent" => report'[g] = NoRow)
    BY <2>1, <2>2 DEF FeedbackInv
  <2>4. \A q \in R : reviews'[q] # NoReview => reviews'[q] = reviews[q] /\ reviews[q].id \in Reports
    BY <2>1, ReviewId DEF FeedbackInv
  <2>. QED BY <2>1, <2>2, <2>3, <2>4 DEF FeedbackInv
<1>4. ASSUME NEW r \in R, Report(R)!Abort(r)
      PROVE  FeedbackInv(R)'
  BY <1>4 DEF Report!Abort, Report!Idle, NoReview, FeedbackInv
<1>. QED BY <1>1, <1>2, <1>3, <1>4 DEF Report!Next

\* one call at a time, a call still fits the row it has read when it commits
Fitting(R) ==
  /\ \A f \in Reports : QueueRow(report[f])
  /\ \A r \in R : reviews[r] # NoReview =>
       QueueRow(Report(R)!Written(report[reviews[r].id], reviews[r].columns))

LEMMA FittingStep ==
  ASSUME NEW R, \A r, q \in R : r = q, FeedbackInv(R), Fitting(R), Report(R)!Next
  PROVE  Fitting(R)'
<1>1. ASSUME NEW f \in Reports, Report(R)!SubmitFeedback(f)
      PROVE  Fitting(R)'
  <2>1. /\ report[f] = NoRow /\ report' = [report EXCEPT ![f].status = "open"] /\ UNCHANGED reviews
    BY <1>1 DEF Report!SubmitFeedback, Report!NoReport, NoRow
  <2>2. \A r \in R : reviews[r] # NoReview =>
          reviews[r].id \in Reports /\ report[reviews[r].id].status # "absent"
    BY ReviewId DEF FeedbackInv
  <2>3. \A r \in R : reviews[r] # NoReview => report'[reviews[r].id] = report[reviews[r].id]
    BY <2>1, <2>2 DEF FeedbackInv, NoRow
  <2>4. QueueRow(report'[f]) /\ \A g \in Reports : g # f => report'[g] = report[g]
    BY <2>1 DEF QueueRow, FeedbackInv, NoRow
  <2>5. ASSUME NEW r \in R, reviews[r] # NoReview
        PROVE  QueueRow(Report(R)!Written(report'[reviews[r].id], reviews[r].columns))
    BY <2>3, <2>5 DEF Fitting
  <2>. QED BY <2>1, <2>4, <2>5 DEF Fitting, Report!Written
<1>2. ASSUME NEW r \in R, NEW f \in Reports,
             \/ \E to \in Reviewers \union {nobody} : Report(R)!Assign(r, f, to)
             \/ \E dismissed \in BOOLEAN : Report(R)!Resolve(r, f, dismissed)
      PROVE  Fitting(R)'
  <2>1. PICK t \in Reviewing \union Routing \union Closing :
          /\ reviews' = [reviews EXCEPT ![r] = t] /\ t.id = f
          /\ QueueRow(report[f]) => QueueRow(Report(R)!Written(report[f], t.columns))
    BY <1>2, ReviewBegins
  <2>2. UNCHANGED report /\ reviews'[r] = t
    BY <1>2, <2>1, ReviewBegins DEF FeedbackInv
  <2>. QED BY <2>1, <2>2 DEF Fitting, Report!Written
<1>3. ASSUME NEW r \in R, Report(R)!Commit(r)
      PROVE  Fitting(R)'
  <2>1. PICK t \in Reviewing \union Routing \union Closing, new \in ReportRow :
          /\ t = reviews[r] /\ new = Report(R)!Written(report[t.id], t.columns)
          /\ report' = [report EXCEPT ![t.id] = new] /\ reviews' = [reviews EXCEPT ![r] = NoReview]
          /\ t.id \in Reports
    BY <1>3, ReviewCommits, ReviewId
  <2>2. QueueRow(new)
    BY <2>1, NoReviewIsNone DEF Fitting
  <2>3. reviews'[r] = NoReview /\ \A g \in Reports : report'[g] \in {new, report[g]}
    BY <2>1 DEF FeedbackInv
  <2>. QED BY <2>2, <2>3 DEF Fitting
<1>4. ASSUME NEW r \in R, Report(R)!Abort(r)
      PROVE  Fitting(R)'
  BY <1>4 DEF Report!Abort, Report!Idle, NoReview, FeedbackInv, Fitting
<1>. QED BY <1>1, <1>2, <1>3, <1>4 DEF Report!Next

-----------------------------------------------------------------------------
LEMMA FeedbackSteps ==
  ASSUME [RecordsNext]_recordsVars
  PROVE  UNCHANGED subject /\ (FeedbackNext \/ UNCHANGED feedbackVars)
BY DEF RecordsNext, recordsVars, Others

ReportsFollow ==
  /\ subject = "report"         => FeedbackInv(Req) /\ Fitting(Req)
  /\ subject = "racing reports" => FeedbackInv(Calls)

\* However many assignments and resolutions of a report overlap, a closed report
\* carries the resolution of the call that closed it; one call at a time, the
\* reports in review are those with a reviewer (feedback_review.py).
THEOREM ReportsClosed ==
  ASSUME OneAtATime
  PROVE  RecordsSpec => []ReportsAreClosed
<1>0. ASSUME NEW R, Report(R)!Init
      PROVE  FeedbackInv(R) /\ Fitting(R)
  <2>1. /\ report = [f \in Reports |-> NoRow] /\ reviews = [r \in R |-> NoReview]
    BY <1>0 DEF Report!Init, Report!NoReport, Report!Idle, NoRow, NoReview
  <2>2. NoRow \in ReportRow /\ ClosedRow(NoRow) /\ QueueRow(NoRow)
    BY DEF NoRow, ReportRow, ClosedRow, QueueRow
  <2>. QED BY <2>1, <2>2 DEF FeedbackInv, Fitting
<1>1. RecordsInit => ReportsFollow
  <2>. SUFFICES ASSUME RecordsInit PROVE ReportsFollow
    OBVIOUS
  <2>1. CASE subject = "report"
    <3>1. Report(Req)!Init
      BY <2>1 DEF RecordsInit
    <3>. QED BY <1>0, <2>1, <3>1 DEF ReportsFollow
  <2>2. CASE subject = "racing reports"
    <3>1. Report(Calls)!Init
      BY <2>2 DEF RecordsInit
    <3>. QED BY <1>0, <2>2, <3>1 DEF ReportsFollow
  <2>. QED BY <2>1, <2>2 DEF ReportsFollow
<1>2. ReportsFollow /\ [RecordsNext]_recordsVars => ReportsFollow'
  <2>. SUFFICES ASSUME ReportsFollow, [RecordsNext]_recordsVars PROVE ReportsFollow'
    OBVIOUS
  <2>1. UNCHANGED subject /\ (FeedbackNext \/ UNCHANGED feedbackVars)
    BY FeedbackSteps
  <2>2. CASE UNCHANGED feedbackVars
    BY <2>1, <2>2 DEF ReportsFollow, feedbackVars, FeedbackInv, Fitting, Report!Written
  <2>3. CASE subject = "report" /\ Report(Req)!Next
    BY <2>1, <2>3, FeedbackStep, FittingStep DEF ReportsFollow, OneAtATime
  <2>4. CASE subject = "racing reports" /\ Report(Calls)!Next
    BY <2>1, <2>4, FeedbackStep DEF ReportsFollow
  <2>. QED BY <2>1, <2>2, <2>3, <2>4 DEF FeedbackNext
<1>3. ReportsFollow => ReportsAreClosed
  BY DEF ReportsFollow, ReportsAreClosed, FeedbackInv, Fitting, ClosedRow, QueueRow,
     Report!ClosedByItsResolution, Report!QueueFollowsReviewer, Report!Terminal, Report!Active
<1>. QED BY <1>1, <1>2, <1>3, PTL DEF RecordsSpec

-----------------------------------------------------------------------------
(* Incidents.  A timeline only grows, so a status a call has read, and     *)
(* that the incident then had, stays one that its timeline led to.         *)

IncidentStatuses == {"open", "triaged", "mitigated", "resolved", "closed"}

IncidentRow == [status: IncidentStatuses \union {"absent"}, urgent: BOOLEAN,
                owner: Owners \union {nobody}, row: Nat]
NoCase      == [status |-> "absent", urgent |-> FALSE, owner |-> nobody, row |-> 0]

Happening == [kind: {"created", "status_changed", "assigned", "regression_case"},
              from: IncidentStatuses \union {"absent", "none"},
              to: IncidentStatuses \union {"absent", "none"}]

NotHandling == [call |-> "none"]
Opening     == [call: {"announce", "insert"}, key: Incidents, urgent: BOOLEAN]
Moving      == [call: {"update"}, key: Incidents,
                columns: [status: IncidentStatuses, row: Nat],
                event: [kind: {"status_changed"}, from: IncidentStatuses, to: IncidentStatuses]]
Assigning   == [call: {"update"}, key: Incidents, columns: [owner: Owners, row: Nat],
                event: [kind: {"assigned"}, from: {"none"}, to: {"none"}]]
CaseMaking  == [call: {"case"}, key: Incidents]

Handling == {NotHandling} \union Opening \union Moving \union Assigning \union CaseMaking

IsStep(e) == e.kind \in {"created", "status_changed"}

Reached(k, s) == \E j \in 1..Len(event[k]) : IsStep(event[k][j]) /\ event[k][j].to = s

Confirmed(k) == \E j \in 1..Len(event[k]) : event[k][j].to \in {"resolved", "closed"}

Stored(k) == case[k].status # "absent"

IncidentType(R) ==
  /\ case \in [Incidents -> IncidentRow]
  /\ event \in [Incidents -> Seq(Happening)]
  /\ cases \subseteq Incidents /\ alerted \subseteq Incidents
  /\ handling \in [R -> Handling]

HandlingOk(R, t) ==
  /\ t \in Opening => (t.urgent => t.call = "announce" \/ t.key \in alerted)
  /\ t \in Moving => /\ Stored(t.key) /\ t.columns.status = t.event.to
                     /\ <<t.event.from, t.event.to>> \in Incident(R)!Transitions
                     /\ Reached(t.key, t.event.from)
  /\ t \in Assigning => Stored(t.key)
  /\ t \in CaseMaking => Confirmed(t.key)

IncidentInv(R) ==
  /\ IncidentType(R)
  /\ \A k \in Incidents :
       /\ ~ Stored(k) => case[k] = NoCase /\ event[k] = << >>
       /\ Stored(k) => Reached(k, case[k].status)
       /\ Stored(k) /\ case[k].urgent => k \in alerted
  /\ Incident(R)!TimelineStepsAreMoves
  /\ \A k \in cases : Confirmed(k)
  /\ \A r \in R : HandlingOk(R, handling[r])

LEMMA HandlingKinds ==
  /\ NotHandling.call = "none"
  /\ \A t \in Opening : t.call \in {"announce", "insert"}
  /\ \A t \in Moving : t.call = "update" /\ t.event.kind = "status_changed"
  /\ \A t \in Assigning : t.call = "update" /\ t.event.kind = "assigned"
  /\ \A t \in CaseMaking : t.call = "case"
BY DEF NotHandling, Opening, Moving, Assigning, CaseMaking

LEMMA HandlingApart ==
  /\ NotHandling \notin Opening \union Moving \union Assigning \union CaseMaking
  /\ Opening \intersect (Moving \union Assigning \union CaseMaking) = {}
  /\ Moving \intersect (Assigning \union CaseMaking) = {}
  /\ Assigning \intersect CaseMaking = {}
BY HandlingKinds

\* a call that reads, announces or ends: nothing is stored
LEMMA ReadingKeeps ==
  ASSUME NEW R, IncidentInv(R), NEW r \in R, NEW call \in Handling,
         UNCHANGED <<case, event, cases>>, alerted \subseteq alerted', alerted' \subseteq Incidents,
         handling' = [handling EXCEPT ![r] = call], HandlingOk(R, call)'
  PROVE  IncidentInv(R)'
<1>1. IncidentType(R)'
  BY DEF IncidentInv, IncidentType
<1>2. \A q \in R : q # r => handling'[q] = handling[q]
  BY DEF IncidentInv, IncidentType
<1>3. \A t \in Handling : HandlingOk(R, t) => HandlingOk(R, t)'
  BY DEF HandlingOk, Stored, Reached, Confirmed, Incident!Transitions
<1>4. ASSUME NEW q \in R PROVE HandlingOk(R, handling[q])'
  <2>1. CASE q = r
    BY <2>1 DEF IncidentInv, IncidentType
  <2>2. CASE q # r
    BY <1>2, <1>3, <2>2 DEF IncidentInv, IncidentType
  <2>. QED BY <2>1, <2>2
<1>5. Incident(R)!TimelineStepsAreMoves'
  BY DEF IncidentInv, Incident!TimelineStepsAreMoves, Incident!IsMove, Incident!Transitions
<1>. QED BY <1>1, <1>4, <1>5 DEF IncidentInv, Stored, Reached, Confirmed

LEMMA Appended ==
  ASSUME NEW s \in Seq(Happening), NEW e \in Happening
  PROVE  /\ Append(s, e) \in Seq(Happening) /\ Len(s) \in Nat
         /\ Len(Append(s, e)) = Len(s) + 1
         /\ \A i \in 1..Len(s) : Append(s, e)[i] = s[i]
         /\ Append(s, e)[Len(s) + 1] = e
OBVIOUS

\* an event that is added to a timeline
LEMMA TimelineGrows ==
  ASSUME NEW R, IncidentInv(R), NEW k \in Incidents, NEW e \in Happening,
         event' = [event EXCEPT ![k] = Append(@, e)],
         IsStep(e) => \/ event[k] = << >>
                      \/ /\ <<e.from, e.to>> \in Incident(R)!Transitions
                         /\ Reached(k, e.from)
  PROVE  /\ event' \in [Incidents -> Seq(Happening)]
         /\ \A s : \A i \in Incidents : Reached(i, s) => Reached(i, s)'
         /\ \A i \in Incidents : Confirmed(i) => Confirmed(i)'
         /\ IsStep(e) => Reached(k, e.to)'
         /\ Incident(R)!TimelineStepsAreMoves'
<1>. DEFINE s == event[k]
            n == Len(event[k])
<1>1. /\ s \in Seq(Happening) /\ n \in Nat
      /\ event'[k] = Append(s, e) /\ event' \in [Incidents -> Seq(Happening)]
      /\ \A i \in Incidents : i # k => event'[i] = event[i]
  BY DEF IncidentInv, IncidentType
<1>2. /\ Len(event'[k]) = n + 1 /\ event'[k][n + 1] = e
      /\ \A i \in 1..n : event'[k][i] = event[k][i]
  BY <1>1, Appended
<1>3. 1..n \subseteq 1..n + 1 /\ n + 1 \in 1..n + 1
  BY <1>1
<1>4. ASSUME NEW i \in Incidents, NEW z, Reached(i, z) PROVE Reached(i, z)'
  BY <1>1, <1>2, <1>3, <1>4 DEF Reached
<1>5. ASSUME NEW i \in Incidents, Confirmed(i) PROVE Confirmed(i)'
  BY <1>1, <1>2, <1>3, <1>5 DEF Confirmed
<1>6. IsStep(e) => Reached(k, e.to)'
  BY <1>2, <1>3 DEF Reached
<1>7. ASSUME NEW i \in 2..n + 1, Incident(R)!IsMove(event'[k][i])
      PROVE  /\ <<event'[k][i].from, event'[k][i].to>> \in Incident(R)!Transitions
             /\ \E j \in 1..i - 1 : Incident(R)!IsMove(event'[k][j]) /\ event'[k][j].to = event'[k][i].from
  <2>1. CASE i \in 2..n
    <3>1. event'[k][i] = event[k][i] /\ \A j \in 1..i - 1 : event'[k][j] = event[k][j]
      BY <1>1, <1>2, <2>1
    <3>2. Incident(R)!TimelineStepsAreMoves
      BY DEF IncidentInv
    <3>. QED BY <1>7, <2>1, <3>1, <3>2 DEF Incident!TimelineStepsAreMoves
  <2>2. CASE i = n + 1
    <3>1. IsStep(e)
      BY <1>2, <1>7, <2>2 DEF IsStep, Incident!IsMove
    <3>0. event[k] # << >>
      BY <2>2
    <3>2. PICK j \in 1..n : IsStep(event[k][j]) /\ event[k][j].to = e.from
      BY <3>0, <3>1 DEF Reached
    <3>3. event'[k][i] = e /\ event'[k][j] = event[k][j] /\ j \in 1..i - 1
      BY <1>1, <1>2, <2>2
    <3>4. <<e.from, e.to>> \in Incident(R)!Transitions
      BY <3>0, <3>1
    <3>5. Incident(R)!IsMove(event'[k][j]) /\ event'[k][j].to = event'[k][i].from
      BY <3>2, <3>3 DEF IsStep, Incident!IsMove
    <3>. QED BY <3>3, <3>4, <3>5
  <2>3. n \in Nat
    BY <1>1
  <2>4. i \in 2..n \/ i = n + 1
    BY <2>3
  <2>. QED BY <2>1, <2>2, <2>4
<1>8. Incident(R)!TimelineStepsAreMoves'
  <2>1. Incident(R)!TimelineStepsAreMoves /\ Len(event'[k]) = n + 1
    BY <1>2 DEF IncidentInv
  <2>2. \A i \in Incidents : i # k => event'[i] = event[i]
    BY <1>1
  <2>. QED BY <1>7, <2>1, <2>2 DEF Incident!TimelineStepsAreMoves, Incident!IsMove, Incident!Transitions
<1>. QED BY <1>1, <1>4, <1>5, <1>6, <1>8

\* The first event of an incident.
LEMMA InsertKeeps ==
  ASSUME NEW R, IncidentInv(R), NEW r \in R, Incident(R)!Insert(r)
  PROVE  IncidentInv(R)'
<1>1. PICK t \in Opening : t = handling[r] /\ t.call = "insert" /\ HandlingOk(R, t)
  BY HandlingKinds DEF Incident!Insert, IncidentInv, IncidentType, Handling
<1>2. t.key \in Incidents /\ t.urgent \in BOOLEAN /\ (t.urgent => t.key \in alerted)
  BY <1>1 DEF Opening, HandlingOk
<1>3. handling' = [handling EXCEPT ![r] = NotHandling] /\ UNCHANGED <<cases, alerted>>
  BY DEF Incident!Insert, Incident!Proceed, Incident!Idle, NotHandling
<1>4. NotHandling \in Handling /\ HandlingOk(R, NotHandling)'
  BY HandlingApart DEF Handling, HandlingOk
<1>5. CASE Stored(t.key)
  <2>1. UNCHANGED <<case, event>>
    BY <1>1, <1>5 DEF Incident!Insert, Incident!NoIncident, Stored
  <2>. QED BY <1>3, <1>4, <2>1, ReadingKeeps DEF IncidentInv, IncidentType
<1>6. CASE ~ Stored(t.key)
  <2>. DEFINE k == t.key
  <2>1. case[k] = NoCase /\ event[k] = << >>
    BY <1>2, <1>6 DEF IncidentInv
  <2>2. PICK row : row = [status |-> "open", urgent |-> t.urgent, owner |-> nobody, row |-> 1]
    OBVIOUS
  <2>3. PICK e \in Happening : e = [kind |-> "created", from |-> "absent", to |-> "open"]
    BY DEF Happening, IncidentStatuses
  <2>4. /\ case' = [case EXCEPT ![k] = row]
        /\ event' = [event EXCEPT ![k] = <<e>>]
    BY <1>1, <2>1, <2>2, <2>3 DEF Incident!Insert, Incident!NoIncident, NoCase
  <2>5. event' = [event EXCEPT ![k] = Append(@, e)]
    BY <2>1, <2>4
  <2>6. /\ event' \in [Incidents -> Seq(Happening)]
        /\ \A s : \A i \in Incidents : Reached(i, s) => Reached(i, s)'
        /\ \A i \in Incidents : Confirmed(i) => Confirmed(i)'
        /\ Reached(k, "open")'
        /\ Incident(R)!TimelineStepsAreMoves'
    BY <1>2, <2>1, <2>3, <2>5, TimelineGrows DEF IsStep
  <2>7. row \in IncidentRow /\ row.status = "open" /\ row.urgent = t.urgent
    BY <1>2, <2>2 DEF IncidentRow, IncidentStatuses
  <2>8. /\ case'[k] = row /\ \A i \in Incidents : i # k => case'[i] = case[i] /\ event'[i] = event[i]
        /\ case' \in [Incidents -> IncidentRow]
    BY <1>2, <2>4, <2>7 DEF IncidentInv, IncidentType
  <2>9. IncidentType(R)'
    BY <1>3, <1>4, <2>6, <2>8 DEF IncidentInv, IncidentType
  <2>10. \A i \in Incidents : Stored(i) => Stored(i)'
    BY <2>7, <2>8 DEF Stored
  <2>11. ASSUME NEW i \in Incidents
         PROVE  /\ ~ Stored(i)' => case'[i] = NoCase /\ event'[i] = << >>
                /\ Stored(i)' => Reached(i, case[i].status)'
                /\ Stored(i)' /\ case'[i].urgent => i \in alerted'
    <3>1. CASE i = k
      BY <1>2, <1>3, <2>6, <2>7, <2>8, <3>1 DEF Stored
    <3>2. CASE i # k
      BY <1>3, <2>6, <2>8, <3>2 DEF Stored, IncidentInv
    <3>. QED BY <3>1, <3>2
  <2>12. ASSUME NEW q \in R PROVE HandlingOk(R, handling[q])'
    <3>1. CASE q = r
      BY <1>3, <1>4, <3>1 DEF IncidentInv, IncidentType
    <3>2. CASE q # r
      <4>1. handling'[q] = handling[q] /\ handling[q] \in Handling /\ HandlingOk(R, handling[q])
        BY <1>3, <3>2 DEF IncidentInv, IncidentType
      <4>2. \A u \in Opening \union Moving \union Assigning \union CaseMaking : u.key \in Incidents
        BY DEF Opening, Moving, Assigning, CaseMaking
      <4>. QED BY <1>3, <2>6, <2>10, <4>1, <4>2 DEF HandlingOk, Incident!Transitions
    <3>. QED BY <3>1, <3>2
  <2>13. \A i \in cases' : Confirmed(i)'
    BY <1>3, <2>6 DEF IncidentInv, IncidentType
  <2>. QED BY <2>6, <2>9, <2>11, <2>12, <2>13 DEF IncidentInv
<1>. QED BY <1>5, <1>6

\* A commit of a call in flight that adds an event.
LEMMA EventKeeps ==
  ASSUME NEW R, IncidentInv(R), NEW r \in R, NEW k \in Incidents, Stored(k), NEW e \in Happening,
         event' = [event EXCEPT ![k] = Append(@, e)],
         IsStep(e) => <<e.from, e.to>> \in Incident(R)!Transitions /\ Reached(k, e.from),
         NEW row \in IncidentRow, case' = [case EXCEPT ![k] = row],
         row.status # "absent", row.urgent = case[k].urgent,
         row.status = IF IsStep(e) THEN e.to ELSE case[k].status,
         cases \subseteq cases', cases' \subseteq cases \union {k},
         k \in cases' => k \in cases \/ Confirmed(k),
         UNCHANGED alerted, handling' = [handling EXCEPT ![r] = NotHandling]
  PROVE  IncidentInv(R)'
<1>1. /\ event' \in [Incidents -> Seq(Happening)]
      /\ \A s : \A i \in Incidents : Reached(i, s) => Reached(i, s)'
      /\ \A i \in Incidents : Confirmed(i) => Confirmed(i)'
      /\ IsStep(e) => Reached(k, e.to)'
      /\ Incident(R)!TimelineStepsAreMoves'
  BY TimelineGrows
<1>2. /\ case'[k] = row /\ \A i \in Incidents : i # k => case'[i] = case[i] /\ event'[i] = event[i]
      /\ case' \in [Incidents -> IncidentRow]
  BY DEF IncidentInv, IncidentType
<1>3. NotHandling \in Handling /\ HandlingOk(R, NotHandling)'
  BY HandlingApart DEF Handling, HandlingOk
<1>4. IncidentType(R)'
  BY <1>1, <1>2, <1>3 DEF IncidentInv, IncidentType
<1>5. \A i \in Incidents : Stored(i) => Stored(i)'
  BY <1>2 DEF Stored
<1>6. ASSUME NEW i \in Incidents
      PROVE  /\ ~ Stored(i)' => case'[i] = NoCase /\ event'[i] = << >>
             /\ Stored(i)' => Reached(i, case[i].status)'
             /\ Stored(i)' /\ case'[i].urgent => i \in alerted'
  <2>1. CASE i = k
    <3>1. Reached(k, row.status)'
      BY <1>1 DEF IncidentInv
    <3>. QED BY <1>2, <1>5, <2>1, <3>1 DEF IncidentInv
  <2>2. CASE i # k
    BY <1>1, <1>2, <2>2 DEF Stored, IncidentInv
  <2>. QED BY <2>1, <2>2
<1>7. ASSUME NEW q \in R PROVE HandlingOk(R, handling[q])'
  <2>1. CASE q = r
    BY <1>3, <2>1 DEF IncidentInv, IncidentType
  <2>2. CASE q # r
    <3>1. handling'[q] = handling[q] /\ handling[q] \in Handling /\ HandlingOk(R, handling[q])
      BY <2>2 DEF IncidentInv, IncidentType
    <3>2. \A u \in Opening \union Moving \union Assigning \union CaseMaking : u.key \in Incidents
      BY DEF Opening, Moving, Assigning, CaseMaking
    <3>. QED BY <1>1, <1>5, <3>1, <3>2 DEF HandlingOk, Incident!Transitions
  <2>. QED BY <2>1, <2>2
<1>8. \A i \in cases' : Confirmed(i)'
  BY <1>1 DEF IncidentInv, IncidentType
<1>9. cases' \subseteq Incidents
  BY DEF IncidentInv, IncidentType
<1>. QED BY <1>1, <1>4, <1>6, <1>7, <1>8 DEF IncidentInv

\* what a row is after an update
LEMMA UpdatedRow ==
  ASSUME NEW old \in IncidentRow, NEW t \in Moving \union Assigning
  PROVE  LET new == [c \in DOMAIN old |-> IF c \in DOMAIN t.columns THEN t.columns[c] ELSE old[c]]
         IN  /\ new \in IncidentRow
             /\ new.urgent = old.urgent /\ new.row = t.columns.row
             /\ t \in Moving => new.status = t.columns.status
             /\ t \in Assigning => new.status = old.status
<1>1. DOMAIN old = {"status", "urgent", "owner", "row"}
  BY DEF IncidentRow
<1>2. CASE t \in Moving
  <2>1. /\ DOMAIN t.columns = {"status", "row"} /\ t.columns.status \in IncidentStatuses
        /\ t.columns.row \in Nat
    BY <1>2 DEF Moving
  <2>2. [c \in DOMAIN old |-> IF c \in DOMAIN t.columns THEN t.columns[c] ELSE old[c]]
          = [old EXCEPT !.status = t.columns.status, !.row = t.columns.row]
    BY <1>1, <2>1 DEF IncidentRow
  <2>. QED BY <1>2, <2>1, <2>2, HandlingApart DEF IncidentRow
<1>3. CASE t \in Assigning
  <2>1. /\ DOMAIN t.columns = {"owner", "row"} /\ t.columns.owner \in Owners
        /\ t.columns.row \in Nat
    BY <1>3 DEF Assigning
  <2>2. [c \in DOMAIN old |-> IF c \in DOMAIN t.columns THEN t.columns[c] ELSE old[c]]
          = [old EXCEPT !.owner = t.columns.owner, !.row = t.columns.row]
    BY <1>1, <2>1 DEF IncidentRow
  <2>. QED BY <1>3, <2>1, <2>2, HandlingApart DEF IncidentRow
<1>. QED BY <1>2, <1>3

LEMMA UpdateKeeps ==
  ASSUME NEW R, IncidentInv(R), NEW r \in R, Incident(R)!Update(r)
  PROVE  IncidentInv(R)'
<1>1. PICK t \in Moving \union Assigning : t = handling[r] /\ HandlingOk(R, t)
  BY HandlingKinds DEF Incident!Update, IncidentInv, IncidentType, Handling
<1>2. PICK k \in Incidents : k = t.key
  BY DEF Moving, Assigning
<1>3. PICK e \in Happening : e = t.event
  BY DEF Moving, Assigning, Happening
<1>4. PICK old \in IncidentRow : old = case[k]
  BY DEF IncidentInv, IncidentType
<1>5. PICK row : row = [c \in DOMAIN old |-> IF c \in DOMAIN t.columns THEN t.columns[c] ELSE old[c]]
  OBVIOUS
<1>6. /\ row \in IncidentRow /\ row.urgent = old.urgent
      /\ t \in Moving => row.status = t.columns.status
      /\ t \in Assigning => row.status = old.status
  BY <1>5, UpdatedRow
<1>7. /\ case' = [case EXCEPT ![k] = row] /\ event' = [event EXCEPT ![k] = Append(@, e)]
      /\ handling' = [handling EXCEPT ![r] = NotHandling] /\ UNCHANGED <<cases, alerted>>
  BY <1>1, <1>2, <1>3, <1>4, <1>5 DEF Incident!Update, Incident!Proceed, Incident!Idle, NotHandling,
     IncidentInv, IncidentType
<1>8. CASE t \in Moving
  <2>1. /\ Stored(k) /\ row.status = e.to /\ IsStep(e) /\ e.to \in IncidentStatuses
        /\ <<e.from, e.to>> \in Incident(R)!Transitions /\ Reached(k, e.from)
    BY <1>1, <1>2, <1>3, <1>6, <1>8, HandlingKinds DEF HandlingOk, IsStep, Moving
  <2>2. row.status # "absent"
    BY <2>1 DEF IncidentStatuses
  <2>. QED BY <1>4, <1>6, <1>7, <2>1, <2>2, EventKeeps
<1>9. CASE t \in Assigning
  <2>1. Stored(k) /\ row.status = old.status /\ ~ IsStep(e)
    BY <1>1, <1>2, <1>3, <1>6, <1>9, HandlingKinds DEF HandlingOk, IsStep
  <2>2. row.status # "absent"
    BY <1>4, <2>1 DEF Stored
  <2>. QED BY <1>4, <1>6, <1>7, <2>1, <2>2, EventKeeps
<1>. QED BY <1>8, <1>9

LEMMA InsertCaseKeeps ==
  ASSUME NEW R, IncidentInv(R), NEW r \in R, Incident(R)!InsertCase(r)
  PROVE  IncidentInv(R)'
<1>1. PICK t \in CaseMaking : t = handling[r] /\ HandlingOk(R, t)
  BY HandlingKinds DEF Incident!InsertCase, IncidentInv, IncidentType, Handling
<1>2. PICK k \in Incidents : k = t.key /\ Confirmed(k)
  BY <1>1 DEF CaseMaking, HandlingOk
<1>3. handling' = [handling EXCEPT ![r] = NotHandling] /\ UNCHANGED <<case, alerted>>
  BY DEF Incident!InsertCase, Incident!Proceed, Incident!Idle, NotHandling
<1>4. CASE k \in cases
  <2>1. UNCHANGED <<cases, event>>
    BY <1>1, <1>2, <1>4 DEF Incident!InsertCase
  <2>2. NotHandling \in Handling /\ HandlingOk(R, NotHandling)'
    BY HandlingApart DEF Handling, HandlingOk
  <2>. QED BY <1>3, <2>1, <2>2, ReadingKeeps DEF IncidentInv, IncidentType
<1>5. CASE k \notin cases
  <2>1. PICK e \in Happening : e = [kind |-> "regression_case", from |-> "none", to |-> "none"]
    BY DEF Happening
  <2>2. cases' = cases \union {k} /\ event' = [event EXCEPT ![k] = Append(@, e)]
    BY <1>1, <1>2, <1>5, <2>1 DEF Incident!InsertCase
  <2>3. PICK row \in IncidentRow : row = case[k]
    BY DEF IncidentInv, IncidentType
  <2>4. case' = [case EXCEPT ![k] = row]
    BY <1>3, <2>3 DEF IncidentInv, IncidentType
  <2>5. Stored(k)
    <3>1. event[k] # << >>
      BY <1>2 DEF Confirmed
    <3>. QED BY <3>1 DEF IncidentInv
  <2>6. ~ IsStep(e)
    BY <2>1 DEF IsStep
  <2>7. row.status # "absent"
    BY <2>3, <2>5 DEF Stored
  <2>. QED BY <1>2, <1>3, <2>2, <2>3, <2>4, <2>5, <2>6, <2>7, EventKeeps
<1>. QED BY <1>4, <1>5

LEMMA IncidentStep ==
  ASSUME NEW R, IncidentInv(R), Incident(R)!Next
  PROVE  IncidentInv(R)'
<1>0. alerted \subseteq Incidents /\ handling \in [R -> Handling] /\ event \in [Incidents -> Seq(Happening)]
      /\ case \in [Incidents -> IncidentRow]
  BY DEF IncidentInv, IncidentType
<1>1. ASSUME NEW r \in R, NEW k \in Incidents, NEW urgent \in BOOLEAN, Incident(R)!Create(r, k, urgent)
      PROVE  IncidentInv(R)'
  <2>1. PICK call \in Opening :
          call = [call |-> IF urgent THEN "announce" ELSE "insert", key |-> k, urgent |-> urgent]
    BY DEF Opening
  <2>2. /\ handling' = [handling EXCEPT ![r] = call]
        /\ UNCHANGED <<case, event, cases, alerted>>
    BY <1>1, <2>1 DEF Incident!Create, Incident!Proceed
  <2>3. HandlingOk(R, call)'
    BY <2>1, HandlingApart DEF HandlingOk
  <2>. QED BY <1>0, <2>1, <2>2, <2>3, ReadingKeeps DEF Handling
<1>2. ASSUME NEW r \in R, Incident(R)!SendAlert(r)
      PROVE  IncidentInv(R)'
  <2>1. PICK t \in Opening : t = handling[r]
    BY <1>0, <1>2, HandlingKinds DEF Incident!SendAlert, Handling
  <2>2. PICK call : call = [t EXCEPT !.call = "insert"]
    OBVIOUS
  <2>3. call \in Opening /\ call.key = t.key /\ t.key \in Incidents
    BY <2>2 DEF Opening
  <2>4. /\ handling' = [handling EXCEPT ![r] = call] /\ alerted' = alerted \union {t.key}
        /\ UNCHANGED <<case, event, cases>>
    BY <1>2, <2>1, <2>2 DEF Incident!SendAlert, Incident!Proceed
  <2>5. HandlingOk(R, call)'
    BY <2>3, <2>4, HandlingApart DEF HandlingOk
  <2>. QED BY <1>0, <2>3, <2>4, <2>5, ReadingKeeps DEF Handling
<1>3. ASSUME NEW r \in R, NEW k \in Incidents, NEW to \in Incident(R)!Statuses, NEW base \in 1..MaxEvents,
             Incident(R)!Transition(r, k, to, base)
      PROVE  IncidentInv(R)'
  <2>. DEFINE from == case[k].status
  <2>1. /\ to \in IncidentStatuses /\ base + 1 \in Nat
        /\ <<from, to>> \in Incident(R)!Transitions /\ Stored(k)
        /\ from \in IncidentStatuses
    <3>1. /\ to \in IncidentStatuses /\ base + 1 \in Nat /\ <<from, to>> \in Incident(R)!Transitions
      BY <1>3 DEF Incident!Transition, Incident!Statuses, IncidentStatuses
    <3>2. from \in IncidentStatuses
      BY <3>1 DEF Incident!Transitions, IncidentStatuses
    <3>. QED BY <3>1, <3>2 DEF Stored, IncidentStatuses
  <2>2. PICK call \in Moving :
          call = [call |-> "update", key |-> k, columns |-> [status |-> to, row |-> base + 1],
                  event |-> [kind |-> "status_changed", from |-> from, to |-> to]]
    BY <2>1 DEF Moving
  <2>3. /\ handling' = [handling EXCEPT ![r] = call]
        /\ UNCHANGED <<case, event, cases, alerted>>
    BY <1>3, <2>2 DEF Incident!Transition, Incident!Proceed
  <2>4. HandlingOk(R, call)
    <3>1. Reached(k, from)
      BY <2>1 DEF IncidentInv
    <3>. QED BY <2>1, <2>2, <3>1, HandlingApart DEF HandlingOk
  <2>5. HandlingOk(R, call)'
    BY <2>3, <2>4 DEF HandlingOk, Stored, Reached, Confirmed, Incident!Transitions
  <2>. QED BY <1>0, <2>2, <2>3, <2>5, ReadingKeeps DEF Handling
<1>4. ASSUME NEW r \in R, NEW k \in Incidents, NEW owner \in Owners, Incident(R)!Assign(r, k, owner)
      PROVE  IncidentInv(R)'
  <2>1. case[k].row + 1 \in Nat /\ Stored(k)
    <3>1. case[k] # NoCase /\ case[k].row \in Nat
      BY <1>0, <1>4 DEF Incident!Assign, Incident!NoIncident, NoCase, IncidentRow
    <3>. QED BY <3>1 DEF IncidentInv
  <2>2. PICK call \in Assigning :
          call = [call |-> "update", key |-> k, columns |-> [owner |-> owner, row |-> case[k].row + 1],
                  event |-> [kind |-> "assigned", from |-> "none", to |-> "none"]]
    BY <2>1 DEF Assigning
  <2>3. /\ handling' = [handling EXCEPT ![r] = call]
        /\ UNCHANGED <<case, event, cases, alerted>>
    BY <1>4, <2>2 DEF Incident!Assign, Incident!Proceed
  <2>4. HandlingOk(R, call)'
    BY <2>1, <2>2, <2>3, HandlingApart DEF HandlingOk, Stored
  <2>. QED BY <1>0, <2>2, <2>3, <2>4, ReadingKeeps DEF Handling
<1>5. ASSUME NEW r \in R, NEW k \in Incidents, Incident(R)!StartCase(r, k)
      PROVE  IncidentInv(R)'
  <2>1. Confirmed(k)
    <3>1. case[k].status \in {"resolved", "closed"}
      BY <1>5 DEF Incident!StartCase
    <3>2. Reached(k, case[k].status)
      BY <3>1 DEF IncidentInv, Stored
    <3>. QED BY <3>1, <3>2 DEF Reached, Confirmed
  <2>2. PICK call \in CaseMaking : call = [call |-> "case", key |-> k]
    BY DEF CaseMaking
  <2>3. /\ handling' = [handling EXCEPT ![r] = call]
        /\ UNCHANGED <<case, event, cases, alerted>>
    BY <1>5, <2>2 DEF Incident!StartCase, Incident!Proceed
  <2>4. HandlingOk(R, call)'
    BY <2>1, <2>2, <2>3, HandlingApart DEF HandlingOk, Confirmed
  <2>. QED BY <1>0, <2>2, <2>3, <2>4, ReadingKeeps DEF Handling
<1>6. ASSUME NEW r \in R, Incident(R)!Abort(r)
      PROVE  IncidentInv(R)'
  <2>1. /\ handling' = [handling EXCEPT ![r] = NotHandling]
        /\ UNCHANGED <<case, event, cases, alerted>>
    BY <1>6 DEF Incident!Abort, Incident!Proceed, Incident!Idle, NotHandling
  <2>2. NotHandling \in Handling /\ HandlingOk(R, NotHandling)'
    BY HandlingApart DEF Handling, HandlingOk
  <2>. QED BY <1>0, <2>1, <2>2, ReadingKeeps
<1>. QED BY <1>1, <1>2, <1>3, <1>4, <1>5, <1>6, InsertKeeps, UpdateKeeps, InsertCaseKeeps DEF Incident!Next

-----------------------------------------------------------------------------
(* One call at a time, the timeline of an incident is the history of its   *)
(* row: a call in flight still knows the row as it is.                     *)

\* among the first n events of a timeline, the last move led to s
Led(t, n, s) ==
  \E j \in 1..n : /\ IsStep(t[j]) /\ t[j].to = s
                 /\ \A l \in j + 1..n : ~ IsStep(t[l])

Chained(t) == \A i \in 2..Len(t) : IsStep(t[i]) => Led(t, i - 1, t[i].from)

Counted(t) == {i \in 1..Len(t) : t[i].kind # "regression_case"}

History(row, t) ==
  /\ Chained(t)
  /\ row.status # "absent" => Led(t, Len(t), row.status)
  /\ row.row = Cardinality(Counted(t))

KnowsTheRow(t) ==
  /\ t \in Moving => t.event.from = case[t.key].status
  /\ t \in Moving \union Assigning => t.columns.row = case[t.key].row + 1

IncidentHistory ==
  /\ \A k \in Incidents : History(case[k], event[k])
  /\ \A r \in Req : KnowsTheRow(handling[r])

LEMMA TimelineContinues ==
  ASSUME NEW t \in Seq(Happening), NEW e \in Happening, Chained(t),
         IsStep(e) => t = << >> \/ Led(t, Len(t), e.from)
  PROVE  /\ Chained(Append(t, e))
         /\ IsStep(e) => Led(Append(t, e), Len(t) + 1, e.to)
         /\ \A s : ~ IsStep(e) /\ Led(t, Len(t), s) => Led(Append(t, e), Len(t) + 1, s)
         /\ Cardinality(Counted(Append(t, e))) =
              Cardinality(Counted(t)) + (IF e.kind = "regression_case" THEN 0 ELSE 1)
<1>. DEFINE n == Len(t)
            u == Append(t, e)
<1>1. /\ n \in Nat /\ Len(u) = n + 1 /\ u[n + 1] = e
      /\ \A i \in 1..n : u[i] = t[i]
  BY Appended
<1>. HIDE DEF n, u
<1>2. ASSUME NEW m \in 0..n, NEW s, Led(t, m, s) PROVE Led(u, m, s)
  <2>1. PICK j \in 1..m : /\ IsStep(t[j]) /\ t[j].to = s
                          /\ \A l \in j + 1..m : ~ IsStep(t[l])
    BY <1>2 DEF Led
  <2>2. m \in Int /\ 1..m \subseteq 1..n /\ j + 1..m \subseteq 1..n
    BY <1>1, <2>1
  <2>. QED BY <1>1, <2>1, <2>2 DEF Led
<1>3. ASSUME NEW i \in 2..n + 1, IsStep(u[i]) PROVE Led(u, i - 1, u[i].from)
  <2>1. CASE i \in 2..n
    <3>1. u[i] = t[i] /\ i - 1 \in 0..n
      BY <1>1, <2>1
    <3>. QED BY <1>2, <1>3, <2>1, <3>1 DEF Chained, n
  <2>2. CASE i = n + 1
    <3>1. u[i] = e /\ i - 1 = n /\ n \in 0..n /\ n # 0
      BY <1>1, <2>2
    <3>2. Led(t, n, e.from)
      BY <1>3, <3>1 DEF n
    <3>. QED BY <1>2, <3>1, <3>2
  <2>3. i \in 2..n \/ i = n + 1
    BY <1>1
  <2>. QED BY <2>1, <2>2, <2>3
<1>4. ASSUME IsStep(e) PROVE Led(u, n + 1, e.to)
  <2>1. n + 1 \in 1..n + 1 /\ (n + 1) + 1..n + 1 = {}
    BY <1>1
  <2>. QED BY <1>1, <1>4, <2>1 DEF Led
<1>5. ASSUME NEW s, ~ IsStep(e), Led(t, n, s) PROVE Led(u, n + 1, s)
  <2>1. PICK j \in 1..n : /\ IsStep(u[j]) /\ u[j].to = s
                          /\ \A l \in j + 1..n : ~ IsStep(u[l])
    <3>1. n \in 0..n
      BY <1>1
    <3>. QED BY <1>2, <1>5, <3>1 DEF Led
  <2>2. j \in 1..n + 1 /\ \A l \in j + 1..n + 1 : l \in j + 1..n \/ l = n + 1
    BY <1>1
  <2>. QED BY <1>1, <1>5, <2>1, <2>2 DEF Led
<1>6. Cardinality(Counted(u)) = Cardinality(Counted(t)) + (IF e.kind = "regression_case" THEN 0 ELSE 1)
  <2>1. Counted(u) = IF e.kind = "regression_case" THEN Counted(t) ELSE Counted(t) \union {n + 1}
    BY <1>1 DEF Counted, n
  <2>2. n + 1 \notin Counted(t) /\ Counted(t) \subseteq 1..n
    BY <1>1 DEF Counted, n
  <2>3. IsFiniteSet(Counted(t))
    BY <1>1, <2>2, FS_Interval, FS_Subset
  <2>4. Cardinality(Counted(t)) \in Nat
    BY <2>3, FS_CardinalityType
  <2>5. Cardinality(Counted(t) \union {n + 1}) = Cardinality(Counted(t)) + 1
    BY <2>2, <2>3, FS_AddElement
  <2>. QED BY <2>1, <2>4, <2>5
<1>7. Chained(u)
  BY <1>1, <1>3 DEF Chained
<1>. QED BY <1>4, <1>5, <1>6, <1>7 DEF n, u

\* nothing is stored
LEMMA ReadingKeepsHistory ==
  ASSUME OneAtATime, IncidentInv(Req), IncidentHistory, NEW r \in Req, NEW call,
         UNCHANGED <<case, event>>,
         handling' = [handling EXCEPT ![r] = call], KnowsTheRow(call)
  PROVE  IncidentHistory'
<1>1. \A q \in Req : handling'[q] = call
  BY DEF OneAtATime, IncidentInv, IncidentType
<1>2. \A q \in Req : KnowsTheRow(handling[q])'
  BY <1>1 DEF KnowsTheRow
<1>. QED BY <1>2 DEF IncidentHistory

\* an event is stored, and the call ends
LEMMA EventKeepsHistory ==
  ASSUME OneAtATime, IncidentInv(Req), IncidentHistory, NEW r \in Req, NEW k \in Incidents,
         NEW e \in Happening, event' = [event EXCEPT ![k] = Append(@, e)],
         IsStep(e) => event[k] = << >> \/ Led(event[k], Len(event[k]), e.from),
         NEW row, case' = [case EXCEPT ![k] = row],
         IF IsStep(e) THEN row.status = e.to ELSE Stored(k) /\ row.status = case[k].status,
         row.row = case[k].row + (IF e.kind = "regression_case" THEN 0 ELSE 1),
         handling' = [handling EXCEPT ![r] = NotHandling]
  PROVE  IncidentHistory'
<1>1. \A q \in Req : handling'[q] = NotHandling
  BY DEF OneAtATime, IncidentInv, IncidentType
<1>2. /\ case'[k] = row /\ event'[k] = Append(event[k], e) /\ event[k] \in Seq(Happening)
      /\ \A i \in Incidents : i # k => case'[i] = case[i] /\ event'[i] = event[i]
  BY DEF IncidentInv, IncidentType
<1>3. History(case[k], event[k])
  BY DEF IncidentHistory
<1>. DEFINE t == event[k]
            u == Append(event[k], e)
<1>4. /\ Chained(u)
      /\ IsStep(e) => Led(u, Len(t) + 1, e.to)
      /\ \A s : ~ IsStep(e) /\ Led(t, Len(t), s) => Led(u, Len(t) + 1, s)
      /\ Cardinality(Counted(u)) =
           Cardinality(Counted(t)) + (IF e.kind = "regression_case" THEN 0 ELSE 1)
      /\ Len(u) = Len(t) + 1
  BY <1>2, <1>3, TimelineContinues, Appended DEF History
<1>5. History(row, u)
  BY <1>3, <1>4 DEF History, Stored
<1>6. \A i \in Incidents : History(case'[i], event'[i])
  BY <1>2, <1>5 DEF IncidentHistory
<1>7. KnowsTheRow(NotHandling)'
  BY HandlingApart DEF KnowsTheRow
<1>. QED BY <1>1, <1>6, <1>7 DEF IncidentHistory

LEMMA HistoryStep ==
  ASSUME OneAtATime, IncidentInv(Req), IncidentHistory, Incident(Req)!Next
  PROVE  IncidentHistory'
<1>0. /\ handling \in [Req -> Handling] /\ event \in [Incidents -> Seq(Happening)]
      /\ case \in [Incidents -> IncidentRow]
  BY DEF IncidentInv, IncidentType
<1>1. ASSUME NEW r \in Req, NEW k \in Incidents, NEW urgent \in BOOLEAN, Incident(Req)!Create(r, k, urgent)
      PROVE  IncidentHistory'
  <2>1. PICK call \in Opening :
          call = [call |-> IF urgent THEN "announce" ELSE "insert", key |-> k, urgent |-> urgent]
    BY DEF Opening
  <2>2. handling' = [handling EXCEPT ![r] = call] /\ UNCHANGED <<case, event>>
    BY <1>1, <2>1 DEF Incident!Create, Incident!Proceed
  <2>3. KnowsTheRow(call)
    BY <2>1, HandlingApart DEF KnowsTheRow
  <2>. QED BY <2>2, <2>3, ReadingKeepsHistory
<1>2. ASSUME NEW r \in Req, Incident(Req)!SendAlert(r)
      PROVE  IncidentHistory'
  <2>1. PICK t \in Opening : t = handling[r]
    BY <1>0, <1>2, HandlingKinds DEF Incident!SendAlert, Handling
  <2>2. PICK call : call = [t EXCEPT !.call = "insert"]
    OBVIOUS
  <2>3. call \in Opening
    BY <2>2 DEF Opening
  <2>4. handling' = [handling EXCEPT ![r] = call] /\ UNCHANGED <<case, event>>
    BY <1>2, <2>1, <2>2 DEF Incident!SendAlert, Incident!Proceed
  <2>5. KnowsTheRow(call)
    BY <2>3, HandlingApart DEF KnowsTheRow
  <2>. QED BY <2>4, <2>5, ReadingKeepsHistory
<1>3. ASSUME NEW r \in Req, NEW k \in Incidents, NEW to \in Incident(Req)!Statuses, NEW base \in 1..MaxEvents,
             Incident(Req)!Transition(r, k, to, base)
      PROVE  IncidentHistory'
  <2>1. PICK call :
          call = [call |-> "update", key |-> k, columns |-> [status |-> to, row |-> base + 1],
                  event |-> [kind |-> "status_changed", from |-> case[k].status, to |-> to]]
    OBVIOUS
  <2>2. /\ handling' = [handling EXCEPT ![r] = call] /\ UNCHANGED <<case, event>>
        /\ case[k].row = base
    BY <1>3, <2>1 DEF Incident!Transition, Incident!Proceed
  <2>3. KnowsTheRow(call)
    BY <2>1, <2>2 DEF KnowsTheRow
  <2>. QED BY <2>2, <2>3, ReadingKeepsHistory
<1>4. ASSUME NEW r \in Req, NEW k \in Incidents, NEW owner \in Owners, Incident(Req)!Assign(r, k, owner)
      PROVE  IncidentHistory'
  <2>1. PICK call :
          call = [call |-> "update", key |-> k, columns |-> [owner |-> owner, row |-> case[k].row + 1],
                  event |-> [kind |-> "assigned", from |-> "none", to |-> "none"]]
    OBVIOUS
  <2>2. handling' = [handling EXCEPT ![r] = call] /\ UNCHANGED <<case, event>>
    BY <1>4, <2>1 DEF Incident!Assign, Incident!Proceed
  <2>3. call \notin Moving
    BY <2>1, HandlingKinds
  <2>4. KnowsTheRow(call)
    BY <2>1, <2>3 DEF KnowsTheRow
  <2>. QED BY <2>2, <2>4, ReadingKeepsHistory
<1>5. ASSUME NEW r \in Req, NEW k \in Incidents, Incident(Req)!StartCase(r, k)
      PROVE  IncidentHistory'
  <2>1. PICK call \in CaseMaking : call = [call |-> "case", key |-> k]
    BY DEF CaseMaking
  <2>2. handling' = [handling EXCEPT ![r] = call] /\ UNCHANGED <<case, event>>
    BY <1>5, <2>1 DEF Incident!StartCase, Incident!Proceed
  <2>3. KnowsTheRow(call)
    BY <2>1, HandlingApart DEF KnowsTheRow
  <2>. QED BY <2>2, <2>3, ReadingKeepsHistory
<1>6. ASSUME NEW r \in Req, handling' = [handling EXCEPT ![r] = NotHandling], UNCHANGED <<case, event>>
      PROVE  IncidentHistory'
  <2>1. KnowsTheRow(NotHandling)
    BY HandlingApart DEF KnowsTheRow
  <2>. QED BY <1>6, <2>1, ReadingKeepsHistory
<1>7. ASSUME NEW r \in Req, Incident(Req)!Insert(r)
      PROVE  IncidentHistory'
  <2>1. PICK t \in Opening : t = handling[r] /\ t.key \in Incidents
    BY <1>0, <1>7, HandlingKinds DEF Incident!Insert, Handling, Opening
  <2>2. handling' = [handling EXCEPT ![r] = NotHandling]
    BY <1>7 DEF Incident!Insert, Incident!Proceed, Incident!Idle, NotHandling
  <2>3. CASE case[t.key] # NoCase
    BY <1>6, <1>7, <2>1, <2>2, <2>3 DEF Incident!Insert, Incident!NoIncident, NoCase
  <2>4. CASE case[t.key] = NoCase
    <3>. DEFINE k == t.key
    <3>1. PICK e \in Happening : e = [kind |-> "created", from |-> "absent", to |-> "open"]
      BY DEF Happening, IncidentStatuses
    <3>2. PICK row : row = [status |-> "open", urgent |-> t.urgent, owner |-> nobody, row |-> 1]
      OBVIOUS
    <3>3. event[k] = << >> /\ case[k].row = 0
      BY <2>1, <2>4 DEF IncidentInv, Stored, NoCase
    <3>4. case' = [case EXCEPT ![k] = row] /\ event' = [event EXCEPT ![k] = <<e>>]
      BY <1>7, <2>1, <2>4, <3>1, <3>2 DEF Incident!Insert, Incident!NoIncident, NoCase
    <3>5. event' = [event EXCEPT ![k] = Append(@, e)]
      BY <3>3, <3>4
    <3>6. row.row = case[k].row + 1
      BY <3>2, <3>3
    <3>7. IsStep(e) /\ row.status = e.to /\ e.kind # "regression_case"
      BY <3>1, <3>2 DEF IsStep
    <3>. QED BY <2>1, <2>2, <3>3, <3>4, <3>5, <3>6, <3>7, EventKeepsHistory
  <2>. QED BY <2>3, <2>4
<1>8. ASSUME NEW r \in Req, Incident(Req)!Update(r)
      PROVE  IncidentHistory'
  <2>1. PICK t \in Moving \union Assigning : t = handling[r] /\ HandlingOk(Req, t)
    BY <1>8, HandlingKinds DEF Incident!Update, IncidentInv, IncidentType, Handling
  <2>2. PICK k \in Incidents : k = t.key
    BY DEF Moving, Assigning
  <2>3. PICK e \in Happening : e = t.event
    BY DEF Moving, Assigning, Happening
  <2>4. PICK row : row = [c \in DOMAIN case[k] |-> IF c \in DOMAIN t.columns THEN t.columns[c] ELSE case[k][c]]
    OBVIOUS
  <2>5. /\ row.row = t.columns.row
        /\ t \in Moving => row.status = t.columns.status
        /\ t \in Assigning => row.status = case[k].status
    BY <1>0, <2>4, UpdatedRow
  <2>6. /\ case' = [case EXCEPT ![k] = row] /\ event' = [event EXCEPT ![k] = Append(@, e)]
        /\ handling' = [handling EXCEPT ![r] = NotHandling]
    BY <1>0, <1>8, <2>1, <2>2, <2>3, <2>4
    DEF Incident!Update, Incident!Proceed, Incident!Idle, NotHandling
  <2>7. row.row = case[k].row + 1 /\ History(case[k], event[k])
    BY <2>1, <2>2, <2>5 DEF IncidentHistory, KnowsTheRow
  <2>8. CASE t \in Moving
    <3>1. /\ IsStep(e) /\ e.kind # "regression_case" /\ row.status = e.to
      BY <2>1, <2>3, <2>5, <2>8, HandlingKinds DEF HandlingOk, IsStep
    <3>2. e.from = case[k].status /\ Stored(k)
      BY <2>1, <2>2, <2>3, <2>8 DEF HandlingOk, IncidentHistory, KnowsTheRow
    <3>3. Led(event[k], Len(event[k]), e.from)
      BY <2>7, <3>2 DEF History, Stored
    <3>. QED BY <2>6, <2>7, <3>1, <3>3, EventKeepsHistory
  <2>9. CASE t \in Assigning
    <3>1. e.kind = "assigned"
      BY <2>3, <2>9, HandlingKinds
    <3>2. ~ IsStep(e) /\ e.kind # "regression_case" /\ Stored(k) /\ row.status = case[k].status
      BY <2>1, <2>2, <2>5, <2>9, <3>1 DEF HandlingOk, IsStep
    <3>. QED BY <2>6, <2>7, <3>2, EventKeepsHistory
  <2>. QED BY <2>8, <2>9
<1>9. ASSUME NEW r \in Req, Incident(Req)!InsertCase(r)
      PROVE  IncidentHistory'
  <2>1. PICK t \in CaseMaking : t = handling[r] /\ HandlingOk(Req, t)
    BY <1>9, HandlingKinds DEF Incident!InsertCase, IncidentInv, IncidentType, Handling
  <2>2. PICK k \in Incidents : k = t.key /\ Confirmed(k)
    BY <2>1 DEF CaseMaking, HandlingOk
  <2>3. handling' = [handling EXCEPT ![r] = NotHandling] /\ UNCHANGED case
    BY <1>9 DEF Incident!InsertCase, Incident!Proceed, Incident!Idle, NotHandling
  <2>4. CASE k \in cases
    BY <1>6, <1>9, <2>1, <2>2, <2>3, <2>4 DEF Incident!InsertCase
  <2>5. CASE k \notin cases
    <3>1. PICK e \in Happening : e = [kind |-> "regression_case", from |-> "none", to |-> "none"]
      BY DEF Happening
    <3>2. event' = [event EXCEPT ![k] = Append(@, e)]
      BY <1>9, <2>1, <2>2, <2>5, <3>1 DEF Incident!InsertCase
    <3>3. PICK row \in IncidentRow : row = case[k]
      BY <1>0
    <3>4. case' = [case EXCEPT ![k] = row]
      BY <1>0, <2>3, <3>3
    <3>5. Stored(k)
      <4>1. event[k] # << >>
        BY <2>2 DEF Confirmed
      <4>. QED BY <4>1 DEF IncidentInv
    <3>6. ~ IsStep(e) /\ e.kind = "regression_case"
      BY <3>1 DEF IsStep
    <3>7. row.row = case[k].row + 0
      BY <3>3 DEF IncidentRow
    <3>. QED BY <2>3, <3>2, <3>3, <3>4, <3>5, <3>6, <3>7, EventKeepsHistory
  <2>. QED BY <2>4, <2>5
<1>10. ASSUME NEW r \in Req, Incident(Req)!Abort(r)
      PROVE  IncidentHistory'
  BY <1>6, <1>10 DEF Incident!Abort, Incident!Proceed, Incident!Idle, NotHandling
<1>. QED BY <1>1, <1>2, <1>3, <1>4, <1>5, <1>7, <1>8, <1>9, <1>10 DEF Incident!Next

LEMMA IncidentStarts ==
  ASSUME NEW R, Incident(R)!Init
  PROVE  /\ IncidentInv(R)
         /\ R = Req => IncidentHistory
<1>1. /\ case = [k \in Incidents |-> NoCase] /\ event = [k \in Incidents |-> << >>]
      /\ cases = {} /\ alerted = {} /\ handling = [r \in R |-> NotHandling]
  BY DEF Incident!Init, Incident!NoIncident, Incident!Idle, NoCase, NotHandling
<1>2. NoCase \in IncidentRow /\ NoCase.status = "absent" /\ NoCase.row = 0
  BY DEF NoCase, IncidentRow
<1>3. NotHandling \in Handling /\ HandlingOk(R, NotHandling) /\ KnowsTheRow(NotHandling)
  BY HandlingApart DEF Handling, HandlingOk, KnowsTheRow
<1>4. Incident(R)!TimelineStepsAreMoves
  <2>1. \A k \in Incidents : 2..Len(event[k]) = {}
    BY <1>1
  <2>. QED BY <2>1 DEF Incident!TimelineStepsAreMoves
<1>5. History(NoCase, << >>)
  <2>1. Counted(<< >>) = {} /\ Chained(<< >>)
    BY DEF Counted, Chained
  <2>. QED BY <1>2, <2>1, FS_EmptySet DEF History
<1>. QED BY <1>1, <1>2, <1>3, <1>4, <1>5 DEF IncidentInv, IncidentType, IncidentHistory, Stored

LEMMA HistoryIsTimeline ==
  ASSUME IncidentInv(Req), IncidentHistory
  PROVE  Incident(Req)!TimelineIsHistory
<1>. SUFFICES ASSUME NEW k \in Incidents, Stored(k)
              PROVE  /\ \A i \in 2..Len(event[k]) :
                          Incident(Req)!IsMove(event[k][i]) => Incident(Req)!LedTo(k, i - 1, event[k][i].from)
                     /\ Incident(Req)!LedTo(k, Len(event[k]), case[k].status)
                     /\ case[k].row = Incident(Req)!Cardinality(
                          {i \in 1..Len(event[k]) : event[k][i].kind # "regression_case"})
  BY DEF Incident!TimelineIsHistory, Incident!NoIncident, IncidentInv, NoCase
<1>1. History(case[k], event[k]) /\ case[k].status # "absent"
  BY DEF IncidentHistory, Stored
<1>2. \A S : Incident(Req)!Cardinality(S) = Cardinality(S)
  BY DEF Incident!Cardinality, Cardinality
<1>3. \A n, s : Led(event[k], n, s) => Incident(Req)!LedTo(k, n, s)
  BY DEF Led, IsStep, Incident!LedTo, Incident!IsMove
<1>4. case[k].row = Incident(Req)!Cardinality(Counted(event[k]))
  BY <1>1, <1>2 DEF History
<1>. QED BY <1>1, <1>3, <1>4 DEF History, Chained, Counted, IsStep, Incident!IsMove

LEMMA IncidentSteps ==
  ASSUME [RecordsNext]_recordsVars
  PROVE  UNCHANGED subject /\ (IncidentNext \/ UNCHANGED incidentVars)
BY DEF RecordsNext, recordsVars, Others

IncidentFollow ==
  /\ subject = "incident" => IncidentInv(Req) /\ IncidentHistory
  /\ subject = "racing incidents" => IncidentInv(Calls)

\* However calls overlap and fail, a stored urgent incident was announced, the
\* steps of every timeline are edges of the machine from a status the incident
\* had, and cases come from confirmed incidents; one call at a time the timeline
\* is the history of the row and row_version counts it (incident_management.py).
THEOREM IncidentsTraced ==
  ASSUME OneAtATime
  PROVE  RecordsSpec => []IncidentsAreTraced
<1>1. RecordsInit => IncidentFollow
  <2>. SUFFICES ASSUME RecordsInit PROVE IncidentFollow
    OBVIOUS
  <2>1. CASE subject = "incident"
    <3>1. Incident(Req)!Init
      BY <2>1 DEF RecordsInit
    <3>. QED BY <2>1, <3>1, IncidentStarts DEF IncidentFollow
  <2>2. CASE subject = "racing incidents"
    <3>1. Incident(Calls)!Init
      BY <2>2 DEF RecordsInit
    <3>. QED BY <2>2, <3>1, IncidentStarts DEF IncidentFollow
  <2>. QED BY <2>1, <2>2 DEF IncidentFollow
<1>2. IncidentFollow /\ [RecordsNext]_recordsVars => IncidentFollow'
  <2>. SUFFICES ASSUME IncidentFollow, [RecordsNext]_recordsVars PROVE IncidentFollow'
    OBVIOUS
  <2>1. UNCHANGED subject /\ (IncidentNext \/ UNCHANGED incidentVars)
    BY IncidentSteps
  <2>2. CASE UNCHANGED incidentVars
    <3>1. \A R : IncidentInv(R) => IncidentInv(R)'
      BY <2>2 DEF incidentVars, IncidentInv, IncidentType, HandlingOk, Stored, Reached, Confirmed,
                  Incident!TimelineStepsAreMoves, Incident!IsMove, Incident!Transitions
    <3>2. IncidentHistory => IncidentHistory'
      BY <2>2 DEF incidentVars, IncidentHistory, KnowsTheRow
    <3>. QED BY <2>1, <3>1, <3>2 DEF IncidentFollow
  <2>3. CASE subject = "incident" /\ Incident(Req)!Next
    BY <2>1, <2>3, IncidentStep, HistoryStep DEF IncidentFollow
  <2>4. CASE subject = "racing incidents" /\ Incident(Calls)!Next
    BY <2>1, <2>4, IncidentStep DEF IncidentFollow
  <2>. QED BY <2>1, <2>2, <2>3, <2>4 DEF IncidentNext
<1>3. IncidentFollow => IncidentsAreTraced
  <2>1. ASSUME NEW R, IncidentInv(R)
        PROVE  /\ Incident(R)!StoredIsAnnounced /\ Incident(R)!TimelineStepsAreMoves
               /\ Incident(R)!CasesAreConfirmed
    <3>1. Incident(R)!StoredIsAnnounced
      BY <2>1 DEF IncidentInv, Incident!StoredIsAnnounced, Incident!NoIncident, NoCase
    <3>2. Incident(R)!CasesAreConfirmed
      BY <2>1 DEF IncidentInv, Incident!CasesAreConfirmed, Confirmed
    <3>. QED BY <2>1, <3>1, <3>2 DEF IncidentInv
  <2>. QED BY <2>1, HistoryIsTimeline DEF IncidentFollow, IncidentsAreTraced
<1>. QED BY <1>1, <1>2, <1>3, PTL DEF RecordsSpec

-----------------------------------------------------------------------------
(* Invalidated answers.  A call in flight has read warnings that had their  *)
(* reasons, and reasons stay: what it writes back has them still, whatever  *)
(* was written meanwhile.  And as long as no call wrote an answer that      *)
(* another had read, everyone has read it as it is now.                     *)

NotRepeating == [call |-> "none"]

AnswerRows == [at: Nat, warnings: SUBSET (Keys \union Withdrawals)]

Repeating == [call: {"notify", "record", "withdraw"}, reason: Keys \union Withdrawals,
              time: Nat \ {0}, seen: [Answers -> AnswerRows]]

WithdrawalType ==
  /\ answer \in [Answers -> AnswerRows]
  /\ record \subseteq Keys /\ withdrawn \subseteq Withdrawals /\ crossed \subseteq Answers
  /\ notices \in [Keys -> Nat]
  /\ now \in Nat
  /\ repeats \in [Calls -> {NotRepeating} \union Repeating]

RepeatOk(t) ==
  /\ t.call # "withdraw" => t.reason \in Keys
  /\ t.call = "withdraw" => t.reason \in Withdrawals
  /\ t.call = "record" => notices[t.reason] > 0
  /\ \A a \in Answers : /\ t.seen[a].warnings \subseteq Withdrawal!ReasonsFor(a)
                        /\ t.seen[a].at # 0 => Withdrawal!ReasonsFor(a) # {}

SeesNow(t) == \A a \in Withdrawal!Touched(t.reason) : a \notin crossed => t.seen[a] = answer[a]

WithdrawalInv ==
  /\ WithdrawalType
  /\ Withdrawal!InvalidationHasReason
  /\ Withdrawal!EveryReasonWarns
  /\ \A r \in Calls : repeats[r] \in Repeating => RepeatOk(repeats[r]) /\ SeesNow(repeats[r])

WithdrawalTimesStay ==
  \A a \in Answers \ crossed' : answer[a].at # 0 => answer'[a].at = answer[a].at

-----------------------------------------------------------------------------
LEMMA RepeatingKinds == NotRepeating \notin Repeating /\ \A t \in Repeating : t # NotRepeating
BY DEF NotRepeating, Repeating

LEMMA TouchedAnswers ==
  ASSUME NEW reason \in Keys \union Withdrawals
  PROVE  Withdrawal!Touched(reason) \subseteq Answers
BY RecordsAssumption DEF Withdrawal!Touched

\* A call begins, goes on or ends, and no answer is written.
LEMMA RepeatKeeps ==
  ASSUME WithdrawalInv, NEW r \in Calls, NEW call \in {NotRepeating} \union Repeating,
         UNCHANGED <<answer, record, withdrawn, crossed>>, now' \in Nat, notices' \in [Keys -> Nat],
         \A k \in Keys : notices'[k] >= notices[k],
         repeats' = [repeats EXCEPT ![r] = call],
         call \in Repeating => RepeatOk(call)' /\ SeesNow(call)
  PROVE  WithdrawalInv' /\ WithdrawalTimesStay
<1>1. WithdrawalType'
  BY DEF WithdrawalInv, WithdrawalType
<1>2. \A a : Withdrawal!ReasonsFor(a)' = Withdrawal!ReasonsFor(a)
  BY DEF Withdrawal!ReasonsFor, Withdrawal!Touched
<1>3. Withdrawal!InvalidationHasReason' /\ Withdrawal!EveryReasonWarns'
  <2>1. \A k \in record : notices'[k] > 0
    BY DEF WithdrawalInv, WithdrawalType, Withdrawal!InvalidationHasReason
  <2>. QED BY <1>2, <2>1 DEF WithdrawalInv, Withdrawal!InvalidationHasReason, Withdrawal!EveryReasonWarns
<1>4. \A t : SeesNow(t)' <=> SeesNow(t)
  BY DEF SeesNow, Withdrawal!Touched
<1>5. ASSUME NEW q \in Calls, repeats'[q] \in Repeating
      PROVE  RepeatOk(repeats[q])' /\ SeesNow(repeats[q])'
  <2>1. CASE q = r
    BY <1>4, <1>5, <2>1 DEF WithdrawalInv, WithdrawalType
  <2>2. CASE q # r
    <3>1. /\ repeats'[q] = repeats[q] /\ repeats[q] \in Repeating
          /\ RepeatOk(repeats[q]) /\ SeesNow(repeats[q])
      BY <1>5, <2>2 DEF WithdrawalInv, WithdrawalType
    <3>2. PICK t \in Repeating : t = repeats[q]
      BY <3>1
    <3>3. t.reason \in Keys /\ notices[t.reason] > 0 => notices'[t.reason] > 0
      BY DEF WithdrawalInv, WithdrawalType
    <3>4. RepeatOk(t)'
      BY <1>2, <3>1, <3>2, <3>3 DEF RepeatOk
    <3>. QED BY <1>4, <3>1, <3>2, <3>4
  <2>. QED BY <2>1, <2>2
<1>. QED BY <1>1, <1>3, <1>5 DEF WithdrawalInv, WithdrawalTimesStay

LEMMA BeginKeeps ==
  ASSUME WithdrawalInv, NEW r \in Calls, NEW call \in {"notify", "withdraw"},
         NEW reason \in Keys \union Withdrawals, Withdrawal!Begin(r, call, reason),
         call = "notify" => reason \in Keys, call = "withdraw" => reason \in Withdrawals
  PROVE  WithdrawalInv' /\ WithdrawalTimesStay
<1>1. PICK t : t = [call |-> call, reason |-> reason, time |-> now + 1, seen |-> answer]
  OBVIOUS
<1>2. /\ repeats' = [repeats EXCEPT ![r] = t] /\ now' = now + 1
      /\ UNCHANGED <<answer, record, notices, withdrawn, crossed>>
  BY <1>1 DEF Withdrawal!Begin
<1>3. t \in Repeating /\ now' \in Nat
  BY <1>1, <1>2 DEF WithdrawalInv, WithdrawalType, Repeating
<1>4. t.call = call /\ t.reason = reason /\ t.seen = answer
  BY <1>1
<1>5. RepeatOk(t)'
  <2>1. \A a \in Answers : /\ answer[a].warnings \subseteq Withdrawal!ReasonsFor(a)
                           /\ answer[a].at # 0 => Withdrawal!ReasonsFor(a) # {}
    BY DEF WithdrawalInv, Withdrawal!InvalidationHasReason
  <2>2. \A a \in Answers : Withdrawal!ReasonsFor(a)' = Withdrawal!ReasonsFor(a)
    BY <1>2 DEF Withdrawal!ReasonsFor, Withdrawal!Touched
  <2>. QED BY <1>4, <2>1, <2>2 DEF RepeatOk
<1>6. SeesNow(t)
  BY <1>4 DEF SeesNow
<1>7. notices' \in [Keys -> Nat] /\ \A k \in Keys : notices'[k] >= notices[k]
  BY <1>2 DEF WithdrawalInv, WithdrawalType
<1>. QED BY <1>2, <1>3, <1>5, <1>6, <1>7, RepeatKeeps

LEMMA NotifyKeeps ==
  ASSUME WithdrawalInv, NEW r \in Calls, Withdrawal!Notify(r)
  PROVE  WithdrawalInv' /\ WithdrawalTimesStay
<1>1. PICK t \in Repeating : t = repeats[r] /\ RepeatOk(t) /\ SeesNow(t) /\ t.call = "notify"
  BY DEF Withdrawal!Notify, WithdrawalInv, WithdrawalType, NotRepeating
<1>2. PICK c : c = [t EXCEPT !.call = "record"]
  OBVIOUS
<1>3. c \in Repeating /\ c.call = "record" /\ c.reason = t.reason /\ c.seen = t.seen
  BY <1>2 DEF Repeating
<1>4. /\ notices' = [notices EXCEPT ![t.reason] = @ + 1]
      /\ repeats' = [repeats EXCEPT ![r] = c]
      /\ UNCHANGED <<answer, record, withdrawn, crossed, now>>
  BY <1>1, <1>2 DEF Withdrawal!Notify
<1>5. t.reason \in Keys
  BY <1>1 DEF RepeatOk
<1>6. /\ notices' \in [Keys -> Nat] /\ notices'[t.reason] > 0
      /\ \A k \in Keys : notices'[k] >= notices[k]
  BY <1>4, <1>5 DEF WithdrawalInv, WithdrawalType
<1>7. RepeatOk(c)'
  <2>1. \A a \in Answers : Withdrawal!ReasonsFor(a)' = Withdrawal!ReasonsFor(a)
    BY <1>4 DEF Withdrawal!ReasonsFor, Withdrawal!Touched
  <2>. QED BY <1>1, <1>3, <1>5, <1>6, <2>1 DEF RepeatOk
<1>8. SeesNow(c) /\ now' \in Nat
  BY <1>1, <1>3, <1>4 DEF SeesNow, WithdrawalInv, WithdrawalType
<1>. QED BY <1>3, <1>4, <1>6, <1>7, <1>8, RepeatKeeps

-----------------------------------------------------------------------------
(* A commit: the answers of its reason carry it, the others are as before.  *)

Committing(t) ==
  /\ record' = IF t.call = "record" THEN record \union {t.reason} ELSE record
  /\ withdrawn' = IF t.call = "record" THEN withdrawn ELSE withdrawn \union {t.reason}

LEMMA ReasonsAfter ==
  ASSUME NEW t, Committing(t)
  PROVE  \A a : Withdrawal!ReasonsFor(a)' =
                  IF a \in Withdrawal!Touched(t.reason) THEN Withdrawal!ReasonsFor(a) \union {t.reason}
                  ELSE Withdrawal!ReasonsFor(a)
<1>1. record' \union withdrawn' = (record \union withdrawn) \union {t.reason}
  BY DEF Committing
<1>2. \A a : Withdrawal!ReasonsFor(a)' =
        {reason \in record' \union withdrawn' : a \in Withdrawal!Touched(reason)}
  BY DEF Withdrawal!ReasonsFor, Withdrawal!Touched
<1>. QED BY <1>1, <1>2 DEF Withdrawal!ReasonsFor

\* What is written of an answer that was not read before another's write.
LEMMA AnswerWritten ==
  ASSUME WithdrawalInv, NEW r \in Calls, NEW t \in Repeating, t = repeats[r], Withdrawal!Write(r),
         NEW a \in Answers
  PROVE  /\ a \notin Withdrawal!Touched(t.reason) => answer'[a] = answer[a]
         /\ a \in Withdrawal!Touched(t.reason) =>
              /\ answer'[a] \in AnswerRows /\ answer'[a].at # 0
              /\ answer'[a].warnings = t.seen[a].warnings \union {t.reason}
              /\ t.seen[a].at # 0 => answer'[a].at = answer[a].at
<1>1. /\ answer[a] \in AnswerRows /\ t.seen[a] \in AnswerRows
      /\ t.time \in Nat \ {0} /\ t.reason \in Keys \union Withdrawals
  BY DEF WithdrawalInv, WithdrawalType, Repeating
<1>2. t.seen[a].at # 0 => answer[a].at # 0
  <2>1. RepeatOk(t)
    BY DEF WithdrawalInv
  <2>. QED BY <2>1 DEF RepeatOk, WithdrawalInv, Withdrawal!InvalidationHasReason
<1>3. answer'[a] = IF a \notin Withdrawal!Touched(t.reason) THEN answer[a]
                   ELSE [at |-> Withdrawal!InvalidatedAt(a, t),
                         warnings |-> t.seen[a].warnings \union {t.reason}]
  BY DEF Withdrawal!Write
<1>4. PICK at : at = Withdrawal!InvalidatedAt(a, t)
  OBVIOUS
<1>5. at \in Nat /\ at # 0 /\ (t.seen[a].at # 0 => at = answer[a].at)
  BY <1>1, <1>2, <1>4 DEF Withdrawal!InvalidatedAt, AnswerRows
<1>. QED BY <1>1, <1>3, <1>4, <1>5 DEF AnswerRows

LEMMA CommitKeeps ==
  ASSUME WithdrawalInv, NEW r \in Calls, Withdrawal!Commit(r)
  PROVE  WithdrawalInv' /\ WithdrawalTimesStay
<1>1. PICK t \in Repeating : t = repeats[r] /\ RepeatOk(t) /\ SeesNow(t) /\ t.call # "notify"
  BY DEF Withdrawal!Commit, WithdrawalInv, WithdrawalType, NotRepeating
<1>2. /\ Committing(t) /\ Withdrawal!Write(r)
      /\ repeats' = [repeats EXCEPT ![r] = NotRepeating] /\ UNCHANGED <<notices, now>>
  BY <1>1 DEF Withdrawal!Commit, Withdrawal!Idle, NotRepeating, Committing
<1>3. /\ t.reason \in Keys \union Withdrawals /\ Withdrawal!Touched(t.reason) \subseteq Answers
      /\ t.call = "record" => t.reason \in Keys /\ notices[t.reason] > 0
      /\ t.call # "record" => t.reason \in Withdrawals
  BY <1>1, TouchedAnswers DEF Repeating, RepeatOk
<1>4. /\ crossed \subseteq crossed' /\ crossed' \subseteq Answers
      /\ \A a \in Withdrawal!Touched(t.reason), q \in Calls \ {r} :
           repeats[q] \in Repeating /\ a \in Withdrawal!Touched(repeats[q].reason) => a \in crossed'
  <2>1. crossed' = crossed \union {a \in Withdrawal!Touched(t.reason) : Withdrawal!ReadBy(a, r) # {}}
    BY <1>1, <1>2 DEF Withdrawal!Write
  <2>2. ASSUME NEW a, NEW q \in Calls \ {r}, repeats[q] \in Repeating,
               a \in Withdrawal!Touched(repeats[q].reason)
        PROVE  Withdrawal!ReadBy(a, r) # {}
    BY <2>2, RepeatingKinds DEF Withdrawal!ReadBy, Withdrawal!Free, Withdrawal!Idle, NotRepeating
  <2>. QED BY <1>3, <2>1, <2>2 DEF WithdrawalInv, WithdrawalType
<1>5. WithdrawalType'
  <2>1. answer' \in [Answers -> AnswerRows]
    <3>1. answer' = [a \in Answers |-> answer'[a]]
      BY <1>2 DEF Withdrawal!Write
    <3>2. \A a \in Answers : answer'[a] \in AnswerRows
      BY <1>1, <1>2, AnswerWritten DEF WithdrawalInv, WithdrawalType
    <3>. QED BY <3>1, <3>2
  <2>2. record' \subseteq Keys /\ withdrawn' \subseteq Withdrawals
    BY <1>2, <1>3 DEF Committing, WithdrawalInv, WithdrawalType
  <2>. QED BY <1>2, <1>4, <2>1, <2>2 DEF WithdrawalInv, WithdrawalType
<1>6. ASSUME NEW a \in Answers
      PROVE  /\ answer'[a].at # 0 <=> Withdrawal!ReasonsFor(a)' # {}
             /\ answer'[a].warnings # {} <=> Withdrawal!ReasonsFor(a)' # {}
             /\ answer'[a].warnings \subseteq Withdrawal!ReasonsFor(a)'
             /\ a \notin crossed' => answer'[a].warnings = Withdrawal!ReasonsFor(a)'
             /\ a \notin crossed' /\ answer[a].at # 0 => answer'[a].at = answer[a].at
  <2>1. CASE a \in Withdrawal!Touched(t.reason)
    <3>1. Withdrawal!ReasonsFor(a)' = Withdrawal!ReasonsFor(a) \union {t.reason}
      BY <1>2, <2>1, ReasonsAfter
    <3>2. /\ answer'[a].at # 0 /\ answer'[a].warnings = t.seen[a].warnings \union {t.reason}
          /\ t.seen[a].at # 0 => answer'[a].at = answer[a].at
      BY <1>1, <1>2, <2>1, AnswerWritten
    <3>3. t.seen[a].warnings \subseteq Withdrawal!ReasonsFor(a)
      BY <1>1 DEF RepeatOk
    <3>4. a \notin crossed' => t.seen[a] = answer[a] /\ answer[a].warnings = Withdrawal!ReasonsFor(a)
      BY <1>1, <1>4, <2>1 DEF SeesNow, WithdrawalInv, Withdrawal!EveryReasonWarns
    <3>. QED BY <3>1, <3>2, <3>3, <3>4
  <2>2. CASE a \notin Withdrawal!Touched(t.reason)
    <3>1. Withdrawal!ReasonsFor(a)' = Withdrawal!ReasonsFor(a) /\ answer'[a] = answer[a]
      BY <1>1, <1>2, <2>2, ReasonsAfter, AnswerWritten
    <3>2. /\ answer[a].at # 0 <=> Withdrawal!ReasonsFor(a) # {}
          /\ answer[a].warnings # {} <=> Withdrawal!ReasonsFor(a) # {}
          /\ answer[a].warnings \subseteq Withdrawal!ReasonsFor(a)
          /\ a \notin crossed => answer[a].warnings = Withdrawal!ReasonsFor(a)
      BY DEF WithdrawalInv, Withdrawal!InvalidationHasReason, Withdrawal!EveryReasonWarns
    <3>. QED BY <1>4, <3>1, <3>2
  <2>. QED BY <2>1, <2>2
<1>7. Withdrawal!InvalidationHasReason' /\ Withdrawal!EveryReasonWarns' /\ WithdrawalTimesStay
  <2>1. \A k \in record' : notices'[k] > 0
    BY <1>2, <1>3 DEF Committing, WithdrawalInv, Withdrawal!InvalidationHasReason
  <2>. QED BY <1>6, <2>1
       DEF Withdrawal!InvalidationHasReason, Withdrawal!EveryReasonWarns, WithdrawalTimesStay
<1>8. ASSUME NEW q \in Calls, repeats'[q] \in Repeating
      PROVE  RepeatOk(repeats[q])' /\ SeesNow(repeats[q])'
  <2>1. /\ q # r /\ repeats'[q] = repeats[q] /\ repeats[q] \in Repeating
        /\ RepeatOk(repeats[q]) /\ SeesNow(repeats[q])
    BY <1>2, <1>8, RepeatingKinds DEF WithdrawalInv, WithdrawalType
  <2>2. PICK s \in Repeating : s = repeats[q]
    BY <2>1
  <2>3. RepeatOk(s)'
    <3>1. \A a \in Answers : Withdrawal!ReasonsFor(a) \subseteq Withdrawal!ReasonsFor(a)'
      BY <1>2, ReasonsAfter
    <3>. QED BY <1>2, <2>1, <2>2, <3>1 DEF RepeatOk
  <2>4. SeesNow(s)'
    <3>1. SUFFICES ASSUME NEW a \in Withdrawal!Touched(s.reason), a \notin crossed'
                   PROVE  s.seen[a] = answer'[a]
      BY DEF SeesNow, Withdrawal!Touched
    <3>2. a \notin Withdrawal!Touched(t.reason) /\ a \notin crossed
      BY <1>4, <2>1, <2>2, <3>1
    <3>3. a \in Answers
      BY TouchedAnswers DEF Repeating
    <3>4. answer'[a] = answer[a]
      BY <1>1, <1>2, <3>2, <3>3, AnswerWritten
    <3>. QED BY <2>1, <2>2, <3>1, <3>2, <3>4 DEF SeesNow
  <2>. QED BY <2>1, <2>2, <2>3, <2>4
<1>. QED BY <1>5, <1>7, <1>8 DEF WithdrawalInv

LEMMA WithdrawalStep ==
  ASSUME WithdrawalInv, Withdrawal!Next
  PROVE  WithdrawalInv' /\ WithdrawalTimesStay
<1>1. ASSUME NEW r \in Calls, NEW k \in Keys, Withdrawal!Invalidate(r, k)
      PROVE  WithdrawalInv' /\ WithdrawalTimesStay
  BY <1>1, BeginKeeps DEF Withdrawal!Invalidate
<1>2. ASSUME NEW r \in Calls, NEW w \in Withdrawals, Withdrawal!Withdraw(r, w)
      PROVE  WithdrawalInv' /\ WithdrawalTimesStay
  BY <1>2, BeginKeeps DEF Withdrawal!Withdraw
<1>3. ASSUME NEW r \in Calls, Withdrawal!Abort(r) PROVE WithdrawalInv' /\ WithdrawalTimesStay
  <2>1. /\ repeats' = [repeats EXCEPT ![r] = NotRepeating]
        /\ UNCHANGED <<answer, record, notices, withdrawn, crossed, now>>
    BY <1>3 DEF Withdrawal!Abort, Withdrawal!Idle, NotRepeating
  <2>2. notices' \in [Keys -> Nat] /\ now' \in Nat /\ \A k \in Keys : notices'[k] >= notices[k]
    BY <2>1 DEF WithdrawalInv, WithdrawalType
  <2>. QED BY <2>1, <2>2, RepeatingKinds, RepeatKeeps
<1>. QED BY <1>1, <1>2, <1>3, NotifyKeeps, CommitKeeps DEF Withdrawal!Next

LEMMA WithdrawalStarts ==
  ASSUME Withdrawal!Init
  PROVE  WithdrawalInv
<1>1. /\ answer = [a \in Answers |-> [at |-> 0, warnings |-> {}]]
      /\ record = {} /\ withdrawn = {} /\ crossed = {}
      /\ notices = [k \in Keys |-> 0] /\ now = 0 /\ repeats = [r \in Calls |-> NotRepeating]
  BY DEF Withdrawal!Init, Withdrawal!Idle, NotRepeating
<1>2. WithdrawalType
  BY <1>1 DEF WithdrawalType, AnswerRows
<1>3. \A a \in Answers : Withdrawal!ReasonsFor(a) = {} /\ answer[a].at = 0 /\ answer[a].warnings = {}
  BY <1>1 DEF Withdrawal!ReasonsFor
<1>4. Withdrawal!InvalidationHasReason /\ Withdrawal!EveryReasonWarns
  BY <1>1, <1>3 DEF Withdrawal!InvalidationHasReason, Withdrawal!EveryReasonWarns
<1>5. \A r \in Calls : repeats[r] \notin Repeating
  BY <1>1, RepeatingKinds
<1>. QED BY <1>2, <1>4, <1>5 DEF WithdrawalInv

-----------------------------------------------------------------------------
(* Saved answers.  A conversation keeps its owner and a row its user and   *)
(* answer, so a save that looked the owner up before is right when it      *)
(* commits; that no other row is active is looked up by the index.  One    *)
(* call at a time, what a call has read is still so when it commits.       *)

NotClicking    == [call |-> "none"]
NoBookmark     == [user |-> nobody, answer |-> nobody, deleted |-> FALSE]
NoConversation == [owner |-> nobody, deleted |-> FALSE, readable |-> FALSE]

Saving(U)   == [call: {"save"}, row: SavedRows, user: U, answer: Conversations]
Unsaving == [call: {"unsave"}, row: SavedRows]
Deleting(U) == [call: {"delete"}, user: U, threads: SUBSET Conversations, all: BOOLEAN]

BookmarkType(R, U) ==
  /\ thread \in [Conversations -> [owner: U \union {nobody}, deleted: BOOLEAN,
                                   readable: BOOLEAN]]
  /\ saved \in [SavedRows -> {NoBookmark} \union [user: U, answer: Conversations, deleted: BOOLEAN]]
  /\ clicks \in [R -> {NotClicking} \union Saving(U) \union Unsaving \union Deleting(U)]

ClickOk(t) ==
  /\ t.call = "save"   => thread[t.answer].owner = t.user
  /\ t.call = "unsave" => saved[t.row] # NoBookmark

OnceByOwner ==
  \A i, j \in SavedRows :
    /\ saved[i] # NoBookmark => thread[saved[i].answer].owner = saved[i].user
    /\ saved[i] # NoBookmark /\ saved[i] = saved[j] /\ ~ saved[i].deleted => i = j

BookmarkInv(R, U) == BookmarkType(R, U) /\ OnceByOwner /\ \A r \in R : ClickOk(clicks[r])

-----------------------------------------------------------------------------
LEMMA ClickKinds ==
  /\ NotClicking.call = "none"
  /\ \A U : \A t \in Saving(U) : t.call = "save"
  /\ \A t \in Unsaving : t.call = "unsave"
  /\ \A U : \A t \in Deleting(U) : t.call = "delete"
BY DEF NotClicking, Saving, Unsaving, Deleting

\* A step of a call that writes no saved answer and changes no owner.
LEMMA ClickKeeps ==
  ASSUME NEW R, NEW U, BookmarkInv(R, U), NEW r \in R,
         NEW call \in {NotClicking} \union Saving(U) \union Unsaving \union Deleting(U), ClickOk(call),
         clicks' = [clicks EXCEPT ![r] = call], UNCHANGED saved,
         thread' \in [Conversations -> [owner: U \union {nobody}, deleted: BOOLEAN,
                                        readable: BOOLEAN]],
         \A c \in Conversations : thread'[c].owner = thread[c].owner
  PROVE  BookmarkInv(R, U)'
<1>1. BookmarkType(R, U)'
  BY DEF BookmarkInv, BookmarkType
<1>2. OnceByOwner'
  <2>1. \A i \in SavedRows : saved[i] # NoBookmark => saved[i].answer \in Conversations
    BY DEF BookmarkInv, BookmarkType
  <2>. QED BY <2>1 DEF BookmarkInv, OnceByOwner
<1>3. \A t \in {NotClicking} \union Saving(U) \union Unsaving \union Deleting(U) : ClickOk(t) => ClickOk(t)'
  BY ClickKinds DEF ClickOk, Saving
<1>4. \A q \in R : ClickOk(clicks[q])'
  BY <1>3 DEF BookmarkInv, BookmarkType
<1>. QED BY <1>1, <1>2, <1>4 DEF BookmarkInv

\* A conversation begins with its owner; nothing refers to it before.
LEMMA ChatKeeps ==
  ASSUME NEW R, NEW U, nobody \notin U, BookmarkInv(R, U), NEW r \in R, NEW u \in U, NEW c \in Conversations,
         NEW history \in BOOLEAN, Bookmark(R, U)!Chat(r, u, c, history)
  PROVE  BookmarkInv(R, U)'
<1>1. /\ UNCHANGED <<saved, clicks>>
      /\ thread[c].owner \in {nobody, u}
      /\ thread' = [thread EXCEPT ![c] = [owner |-> u, deleted |-> FALSE,
                                          readable |-> @.readable \/ history]]
  BY DEF Bookmark!Chat, NoConversation, Bookmark!Owned, Bookmark!Idle, NotClicking, Bookmark!NoThread
<1>2. thread' \in [Conversations -> [owner: U \union {nobody}, deleted: BOOLEAN,
                                     readable: BOOLEAN]]
  <2>1. thread[c] \in [owner: U \union {nobody}, deleted: BOOLEAN, readable: BOOLEAN]
    BY DEF BookmarkInv, BookmarkType
  <2>2. (thread[c].readable \/ history) \in BOOLEAN
    OBVIOUS
  <2>3. [owner |-> u, deleted |-> FALSE, readable |-> thread[c].readable \/ history]
          \in [owner: U \union {nobody}, deleted: BOOLEAN, readable: BOOLEAN]
    BY <2>2
  <2>. QED BY <1>1, <2>3, Zenon DEF BookmarkInv, BookmarkType
<1>3. \A d \in Conversations, v \in U : thread[d].owner = v => thread'[d].owner = v
  BY <1>1 DEF BookmarkInv, BookmarkType
<1>4. BookmarkType(R, U)'
  BY <1>1, <1>2 DEF BookmarkInv, BookmarkType
<1>5. OnceByOwner'
  <2>1. \A i \in SavedRows : saved[i] # NoBookmark => saved[i].answer \in Conversations /\ saved[i].user \in U
    BY DEF BookmarkInv, BookmarkType
  <2>. QED BY <1>1, <1>3, <2>1 DEF BookmarkInv, OnceByOwner
<1>6. \A t \in {NotClicking} \union Saving(U) \union Unsaving \union Deleting(U) : ClickOk(t) => ClickOk(t)'
  BY <1>1, <1>3, ClickKinds DEF ClickOk, Saving
<1>7. \A q \in R : ClickOk(clicks[q])'
  BY <1>1, <1>6 DEF BookmarkInv, BookmarkType
<1>. QED BY <1>4, <1>5, <1>7 DEF BookmarkInv

\* A row that is written is no unused row afterwards.
LEMMA RowKeeps ==
  ASSUME NEW R, NEW U, BookmarkInv(R, U), NEW r \in R, NEW row \in SavedRows,
         NEW new \in [user: U, answer: Conversations, deleted: BOOLEAN],
         UNCHANGED thread, clicks' = [clicks EXCEPT ![r] = NotClicking],
         saved' = [saved EXCEPT ![row] = new], new # NoBookmark,
         thread[new.answer].owner = new.user,
         ~ new.deleted => \A i \in SavedRows : saved[i] = new => i = row
  PROVE  BookmarkInv(R, U)'
<1>1. BookmarkType(R, U)'
  BY DEF BookmarkInv, BookmarkType
<1>2. OnceByOwner'
  BY DEF BookmarkInv, BookmarkType, OnceByOwner
<1>3. \A t \in {NotClicking} \union Saving(U) \union Unsaving \union Deleting(U) : ClickOk(t) => ClickOk(t)'
  BY ClickKinds DEF BookmarkInv, BookmarkType, ClickOk, Unsaving
<1>4. \A q \in R : clicks'[q] = NotClicking \/ clicks'[q] = clicks[q]
  BY DEF BookmarkInv, BookmarkType
<1>5. ClickOk(NotClicking)'
  BY ClickKinds DEF ClickOk
<1>6. \A q \in R : ClickOk(clicks[q])'
  BY <1>3, <1>4, <1>5 DEF BookmarkInv, BookmarkType
<1>. QED BY <1>1, <1>2, <1>6 DEF BookmarkInv

LEMMA CommitSaveKeeps ==
  ASSUME NEW R, NEW U, nobody \notin U, BookmarkInv(R, U), NEW r \in R, Bookmark(R, U)!CommitSave(r)
  PROVE  BookmarkInv(R, U)'
<1>1. PICK t \in Saving(U) : t = clicks[r] /\ ClickOk(t)
  BY ClickKinds DEF Bookmark!CommitSave, BookmarkInv, BookmarkType, Bookmark!Idle, NotClicking
<1>2. t.row \in SavedRows /\ t.user \in U /\ t.answer \in Conversations /\ t.call = "save"
  BY DEF Saving
<1>3. UNCHANGED thread /\ clicks' = [clicks EXCEPT ![r] = NotClicking]
  BY DEF Bookmark!CommitSave, Bookmark!Idle, NotClicking
<1>4. CASE Bookmark(R, U)!IndexAllows(t.user, t.answer, t.row)
  <2>1. PICK new : new = [user |-> t.user, answer |-> t.answer, deleted |-> FALSE]
    OBVIOUS
  <2>2. saved' = [saved EXCEPT ![t.row] = new]
    BY <1>1, <1>4, <2>1 DEF Bookmark!CommitSave, Bookmark!Idle, NotClicking
  <2>3. /\ new \in [user: U, answer: Conversations, deleted: BOOLEAN]
        /\ new.user = t.user /\ new.answer = t.answer
    BY <1>2, <2>1
  <2>4. new # NoBookmark
    BY <1>2, <2>3 DEF NoBookmark
  <2>5. \A i \in SavedRows : saved[i] = new => i = t.row
    BY <1>4, <2>1 DEF Bookmark!IndexAllows, Bookmark!Active
  <2>6. thread[new.answer].owner = new.user
    BY <1>1, <1>2, <2>3 DEF ClickOk
  <2>. QED BY <1>2, <1>3, <2>2, <2>3, <2>4, <2>5, <2>6, RowKeeps
<1>5. CASE ~ Bookmark(R, U)!IndexAllows(t.user, t.answer, t.row)
  <2>1. UNCHANGED saved
    BY <1>1, <1>5 DEF Bookmark!CommitSave, Bookmark!Idle, NotClicking
  <2>2. ClickOk(NotClicking)
    BY ClickKinds DEF ClickOk
  <2>. QED BY <1>3, <2>1, <2>2, ClickKeeps DEF BookmarkInv, BookmarkType
<1>. QED BY <1>4, <1>5

LEMMA CommitUnsaveKeeps ==
  ASSUME NEW R, NEW U, BookmarkInv(R, U), NEW r \in R, Bookmark(R, U)!CommitUnsave(r)
  PROVE  BookmarkInv(R, U)'
<1>1. PICK t \in Unsaving : t = clicks[r] /\ ClickOk(t)
  BY ClickKinds DEF Bookmark!CommitUnsave, BookmarkInv, BookmarkType, Bookmark!Idle, NotClicking
<1>2. t.row \in SavedRows /\ t.call = "unsave"
  BY DEF Unsaving
<1>3. PICK old \in [user: U, answer: Conversations, deleted: BOOLEAN] :
        old = saved[t.row] /\ old # NoBookmark
  BY <1>1, <1>2 DEF BookmarkInv, BookmarkType, ClickOk
<1>4. PICK new : new = [old EXCEPT !.deleted = TRUE]
  OBVIOUS
<1>5. saved' = [saved EXCEPT ![t.row] = new] /\ UNCHANGED thread /\ clicks' = [clicks EXCEPT ![r] = NotClicking]
  BY <1>1, <1>3, <1>4 DEF Bookmark!CommitUnsave, Bookmark!Idle, NotClicking
<1>6. /\ new \in [user: U, answer: Conversations, deleted: BOOLEAN]
      /\ new.user = old.user /\ new.answer = old.answer /\ new.deleted = TRUE
  BY <1>4
<1>7. new # NoBookmark
  BY <1>6 DEF NoBookmark
<1>8. thread[new.answer].owner = new.user
  BY <1>2, <1>3, <1>6 DEF BookmarkInv, OnceByOwner
<1>. QED BY <1>2, <1>5, <1>6, <1>7, <1>8, RowKeeps

LEMMA BookmarkStep ==
  ASSUME NEW R, NEW U, nobody \notin U, BookmarkInv(R, U), Bookmark(R, U)!Next
  PROVE  BookmarkInv(R, U)'
<1>0. /\ ClickOk(NotClicking)
      /\ thread \in [Conversations -> [owner: U \union {nobody}, deleted: BOOLEAN,
                                       readable: BOOLEAN]]
  BY ClickKinds DEF ClickOk, BookmarkInv, BookmarkType
<1>2. ASSUME NEW r \in R, NEW u \in U, NEW c \in Conversations, NEW history \in BOOLEAN,
             Bookmark(R, U)!Chat(r, u, c, history)
      PROVE  BookmarkInv(R, U)'
  BY <1>2, ChatKeeps
<1>3. ASSUME NEW r \in R, NEW u \in U, NEW c \in Conversations, Bookmark(R, U)!Save(r, u, c)
      PROVE  BookmarkInv(R, U)'
  <2>1. PICK i \in SavedRows : clicks' = [clicks EXCEPT ![r] = [call |-> "save", row |-> i, user |-> u,
                                                     answer |-> c]]
    BY <1>3 DEF Bookmark!Save, Bookmark!RowToSave, Bookmark!Deleted, Bookmark!Unused, Bookmark!Idle, NotClicking
  <2>2. PICK call \in Saving(U) : call = [call |-> "save", row |-> i, user |-> u, answer |-> c]
    BY DEF Saving
  <2>3. ClickOk(call)
    BY <1>3, <2>2 DEF Bookmark!Save, Bookmark!Owned, ClickOk, Bookmark!Idle, NotClicking
  <2>. QED BY <1>0, <1>3, <2>1, <2>2, <2>3, ClickKeeps DEF Bookmark!Save, Bookmark!Idle, NotClicking
<1>4. ASSUME NEW r \in R, NEW u \in U, NEW c \in Conversations, Bookmark(R, U)!DeleteConversation(r, u, c)
      PROVE  BookmarkInv(R, U)'
  <2>1. PICK call \in Deleting(U) :
          call = [call |-> "delete", user |-> u, threads |-> {c}, all |-> FALSE]
    BY DEF Deleting
  <2>2. ClickOk(call)
    BY <2>1 DEF ClickOk
  <2>. QED BY <1>0, <1>4, <2>1, <2>2, ClickKeeps DEF Bookmark!DeleteConversation, Bookmark!Idle, NotClicking
<1>5. ASSUME NEW r \in R, NEW u \in U, NEW i \in SavedRows, Bookmark(R, U)!Unsave(r, u, i)
      PROVE  BookmarkInv(R, U)'
  <2>1. PICK call \in Unsaving : call = [call |-> "unsave", row |-> i]
    BY DEF Unsaving
  <2>2. saved[i].user = u /\ u # nobody
    BY <1>5 DEF Bookmark!Unsave, Bookmark!Idle, NotClicking
  <2>3. ClickOk(call)
    BY <2>1, <2>2 DEF ClickOk, NoBookmark
  <2>. QED BY <1>0, <1>5, <2>1, <2>3, ClickKeeps DEF Bookmark!Unsave, Bookmark!Idle, NotClicking
<1>6. ASSUME NEW r \in R, NEW u \in U, Bookmark(R, U)!DeleteAll(r, u)
      PROVE  BookmarkInv(R, U)'
  <2>1. PICK call \in Deleting(U) :
          call = [call |-> "delete", user |-> u, threads |-> Bookmark(R, U)!History(u), all |-> TRUE]
    BY DEF Deleting, Bookmark!History
  <2>2. ClickOk(call)
    BY <2>1 DEF ClickOk
  <2>. QED BY <1>0, <1>6, <2>1, <2>2, ClickKeeps DEF Bookmark!DeleteAll, Bookmark!Idle, NotClicking
<1>7. ASSUME NEW r \in R, Bookmark(R, U)!CommitSave(r) PROVE BookmarkInv(R, U)'
  BY <1>7, CommitSaveKeeps
<1>8. ASSUME NEW r \in R, Bookmark(R, U)!CommitUnsave(r) PROVE BookmarkInv(R, U)'
  BY <1>8, CommitUnsaveKeeps
<1>9. ASSUME NEW r \in R, Bookmark(R, U)!CommitDelete(r) PROVE BookmarkInv(R, U)'
  <2>1. /\ thread' = [c \in Conversations |-> IF c \in clicks[r].threads
                        THEN [thread[c] EXCEPT !.deleted = TRUE] ELSE thread[c]]
        /\ UNCHANGED saved /\ clicks' = [clicks EXCEPT ![r] = NotClicking]
    BY <1>9 DEF Bookmark!CommitDelete, Bookmark!Idle, NotClicking
  <2>2. thread' \in [Conversations -> [owner: U \union {nobody}, deleted: BOOLEAN,
                                       readable: BOOLEAN]]
    BY <2>1 DEF BookmarkInv, BookmarkType
  <2>3. \A c \in Conversations : thread'[c].owner = thread[c].owner
    BY <2>1 DEF BookmarkInv, BookmarkType
  <2>. QED BY <1>0, <2>1, <2>2, <2>3, ClickKeeps
<1>10. ASSUME NEW r \in R, Bookmark(R, U)!Abort(r) PROVE BookmarkInv(R, U)'
  BY <1>0, <1>10, ClickKeeps DEF Bookmark!Abort, Bookmark!Idle, NotClicking
<1>. QED BY <1>2, <1>3, <1>4, <1>5, <1>6, <1>7, <1>8, <1>9, <1>10 DEF Bookmark!Next

HistoryOf(u) == {c \in Conversations : thread[c].owner = u /\ ~ thread[c].deleted /\ thread[c].readable}

Bookmarked(i, u, c) == saved[i] # NoBookmark /\ saved[i].user = u /\ saved[i].answer = c

ReadsNow(t) ==
  /\ t \in Saving(Users) => \A i \in SavedRows : Bookmarked(i, t.user, t.answer) => i = t.row
  /\ t \in Deleting(Users) => (t.all => HistoryOf(t.user) \subseteq t.threads)

SerialBookmarks ==
  /\ \A u, c : \A i, j \in SavedRows : Bookmarked(i, u, c) /\ Bookmarked(j, u, c) => i = j
  /\ \A u \in cleared : HistoryOf(u) = {}
  /\ \A r \in Req : ReadsNow(clicks[r])

\* a call begins or is given up
LEMMA ClickReads ==
  ASSUME OneAtATime, BookmarkInv(Req, Users), SerialBookmarks, NEW r \in Req, NEW call,
         clicks' = [clicks EXCEPT ![r] = call], UNCHANGED <<thread, saved, cleared>>,
         ReadsNow(call)
  PROVE  SerialBookmarks'
<1>1. \A q \in Req : clicks'[q] = call
  BY DEF OneAtATime, BookmarkInv, BookmarkType
<1>2. /\ \A i, u, c : Bookmarked(i, u, c)' = Bookmarked(i, u, c)
      /\ \A u : HistoryOf(u)' = HistoryOf(u)
  BY DEF Bookmarked, HistoryOf
<1>. QED BY <1>1, <1>2 DEF SerialBookmarks, ReadsNow

\* a row is written
LEMMA RowIsRead ==
  ASSUME OneAtATime, BookmarkInv(Req, Users), SerialBookmarks, NEW r \in Req, NEW row \in SavedRows,
         NEW new, saved' = [saved EXCEPT ![row] = new],
         \A i \in SavedRows : Bookmarked(i, new.user, new.answer) => i = row,
         UNCHANGED <<thread, cleared>>, clicks' = [clicks EXCEPT ![r] = NotClicking]
  PROVE  SerialBookmarks'
<1>1. /\ \A q \in Req : clicks'[q] = NotClicking
      /\ saved'[row] = new /\ \A i \in SavedRows : i # row => saved'[i] = saved[i]
  BY DEF OneAtATime, BookmarkInv, BookmarkType
<1>2. \A u, c : \A i, j \in SavedRows : Bookmarked(i, u, c)' /\ Bookmarked(j, u, c)' => i = j
  BY <1>1 DEF Bookmarked, SerialBookmarks
<1>3. \A u : HistoryOf(u)' = HistoryOf(u)
  BY DEF HistoryOf
<1>4. ReadsNow(NotClicking)'
  BY ClickKinds DEF ReadsNow
<1>. QED BY <1>1, <1>2, <1>3, <1>4 DEF SerialBookmarks

LEMMA SerialBookmarksStep ==
  ASSUME OneAtATime, nobody \notin Users, BookmarkInv(Req, Users), SerialBookmarks, Bookmark(Req, Users)!Next
  PROVE  SerialBookmarks'
<1>0. /\ clicks \in [Req -> {NotClicking} \union Saving(Users) \union Unsaving \union Deleting(Users)]
      /\ saved \in [SavedRows -> {NoBookmark} \union [user: Users, answer: Conversations, deleted: BOOLEAN]]
      /\ thread \in [Conversations -> [owner: Users \union {nobody}, deleted: BOOLEAN, readable: BOOLEAN]]
      /\ ReadsNow(NotClicking) /\ ReadsNow(NotClicking)'
  BY ClickKinds DEF BookmarkInv, BookmarkType, ReadsNow
<1>1. ASSUME NEW r \in Req, NEW u \in Users, NEW c \in Conversations, NEW history \in BOOLEAN,
             Bookmark(Req, Users)!Chat(r, u, c, history)
      PROVE  SerialBookmarks'
  <2>1. /\ UNCHANGED <<saved, clicks>> /\ clicks[r] = NotClicking
        /\ thread[c] = NoConversation \/ (thread[c].owner = u /\ ~ thread[c].deleted)
        /\ thread' = [thread EXCEPT ![c] = [owner |-> u, deleted |-> FALSE,
                                            readable |-> @.readable \/ history]]
        /\ cleared' = IF history THEN cleared \ {u} ELSE cleared
    BY <1>1 DEF Bookmark!Chat, Bookmark!Free, Bookmark!Idle, NotClicking, Bookmark!NoThread,
                NoConversation, Bookmark!Owned
  <2>2. \A q \in Req : clicks'[q] = NotClicking
    BY <2>1 DEF OneAtATime
  <2>3. /\ thread'[c].owner = u /\ thread'[c].readable = (thread[c].readable \/ history)
        /\ \A d \in Conversations : d # c => thread'[d] = thread[d]
    BY <1>0, <2>1
  <2>4. \A v \in cleared' : HistoryOf(v)' \subseteq HistoryOf(v)
    <3>. SUFFICES ASSUME NEW v \in cleared', NEW d \in HistoryOf(v)' PROVE d \in HistoryOf(v)
      OBVIOUS
    <3>1. d \in Conversations /\ thread'[d].owner = v /\ ~ thread'[d].deleted /\ thread'[d].readable
      BY DEF HistoryOf
    <3>2. CASE d # c
      BY <2>3, <3>1, <3>2 DEF HistoryOf
    <3>3. CASE d = c
      <4>1. v = u /\ ~ history
        BY <2>1, <2>3, <3>1, <3>3
      <4>2. thread[c].readable
        BY <2>3, <3>1, <3>3, <4>1
      <4>. QED BY <2>1, <3>1, <3>3, <4>1, <4>2 DEF HistoryOf, NoConversation
    <3>. QED BY <3>2, <3>3
  <2>5. \A i, w, d : Bookmarked(i, w, d)' = Bookmarked(i, w, d)
    BY <2>1 DEF Bookmarked
  <2>. QED BY <1>0, <2>1, <2>2, <2>4, <2>5 DEF SerialBookmarks
<1>2. ASSUME NEW r \in Req, NEW u \in Users, NEW c \in Conversations, Bookmark(Req, Users)!Save(r, u, c)
      PROVE  SerialBookmarks'
  <2>1. PICK row \in Bookmark(Req, Users)!RowToSave(u, c) :
          clicks' = [clicks EXCEPT ![r] = [call |-> "save", row |-> row, user |-> u, answer |-> c]]
    BY <1>2 DEF Bookmark!Save
  <2>2. PICK call : call = [call |-> "save", row |-> row, user |-> u, answer |-> c]
    OBVIOUS
  <2>3. ASSUME NEW i \in SavedRows, Bookmarked(i, u, c) PROVE i = row
    <3>1. saved[i] \in {[user |-> u, answer |-> c, deleted |-> FALSE],
                        [user |-> u, answer |-> c, deleted |-> TRUE]}
      BY <1>0, <2>3 DEF Bookmarked
    <3>2. i \in Bookmark(Req, Users)!Deleted(u, c)
      BY <1>2, <3>1 DEF Bookmark!Save, Bookmark!Active, Bookmark!Deleted
    <3>3. row \in Bookmark(Req, Users)!Deleted(u, c)
      BY <3>2 DEF Bookmark!RowToSave
    <3>4. row \in SavedRows /\ saved[row] = [user |-> u, answer |-> c, deleted |-> TRUE]
      BY <3>3 DEF Bookmark!Deleted
    <3>5. Bookmarked(row, u, c)
      BY <3>4 DEF Bookmarked, NoBookmark
    <3>. QED BY <2>3, <3>4, <3>5 DEF SerialBookmarks
  <2>4. ReadsNow(call)
    BY <2>2, <2>3, ClickKinds DEF ReadsNow
  <2>. QED BY <1>2, <2>1, <2>2, <2>4, ClickReads DEF Bookmark!Save
<1>3. ASSUME NEW r \in Req, NEW u \in Users, NEW i \in SavedRows, Bookmark(Req, Users)!Unsave(r, u, i)
      PROVE  SerialBookmarks'
  <2>1. PICK call \in Unsaving : call = [call |-> "unsave", row |-> i]
    BY DEF Unsaving
  <2>2. ReadsNow(call)
    BY <2>1, ClickKinds DEF ReadsNow
  <2>. QED BY <1>3, <2>1, <2>2, ClickReads DEF Bookmark!Unsave
<1>4. ASSUME NEW r \in Req, NEW u \in Users, NEW c \in Conversations,
             Bookmark(Req, Users)!DeleteConversation(r, u, c)
      PROVE  SerialBookmarks'
  <2>1. PICK call : call = [call |-> "delete", user |-> u, threads |-> {c}, all |-> FALSE]
    OBVIOUS
  <2>2. ReadsNow(call)
    BY <2>1, ClickKinds DEF ReadsNow
  <2>. QED BY <1>4, <2>1, <2>2, ClickReads DEF Bookmark!DeleteConversation
<1>5. ASSUME NEW r \in Req, NEW u \in Users, Bookmark(Req, Users)!DeleteAll(r, u)
      PROVE  SerialBookmarks'
  <2>1. PICK call : call = [call |-> "delete", user |-> u,
                            threads |-> Bookmark(Req, Users)!History(u), all |-> TRUE]
    OBVIOUS
  <2>2. Bookmark(Req, Users)!History(u) = HistoryOf(u)
    BY DEF Bookmark!History, Bookmark!Owned, HistoryOf
  <2>3. ReadsNow(call)
    BY <2>1, <2>2, ClickKinds DEF ReadsNow
  <2>. QED BY <1>5, <2>1, <2>3, ClickReads DEF Bookmark!DeleteAll
<1>6. ASSUME NEW r \in Req, clicks' = [clicks EXCEPT ![r] = NotClicking],
             UNCHANGED <<thread, saved, cleared>>
      PROVE  SerialBookmarks'
  BY <1>0, <1>6, ClickReads
<1>7. ASSUME NEW r \in Req, Bookmark(Req, Users)!CommitSave(r) PROVE SerialBookmarks'
  <2>1. PICK t \in Saving(Users) : t = clicks[r] /\ ReadsNow(t)
    BY <1>0, <1>7, ClickKinds DEF Bookmark!CommitSave, SerialBookmarks
  <2>2. UNCHANGED <<thread, cleared>> /\ clicks' = [clicks EXCEPT ![r] = NotClicking] /\ t.row \in SavedRows
    BY <1>7, <2>1 DEF Bookmark!CommitSave, Bookmark!Idle, NotClicking, Saving
  <2>3. PICK new : new = [user |-> t.user, answer |-> t.answer, deleted |-> FALSE]
    OBVIOUS
  <2>4. CASE UNCHANGED saved
    BY <1>6, <2>2, <2>4
  <2>5. CASE saved' = [saved EXCEPT ![t.row] = new]
    <3>1. \A i \in SavedRows : Bookmarked(i, new.user, new.answer) => i = t.row
      BY <2>1, <2>3 DEF ReadsNow
    <3>. QED BY <2>2, <2>5, <3>1, RowIsRead
  <2>. QED BY <1>7, <2>1, <2>3, <2>4, <2>5 DEF Bookmark!CommitSave
<1>8. ASSUME NEW r \in Req, Bookmark(Req, Users)!CommitUnsave(r) PROVE SerialBookmarks'
  <2>1. PICK t \in Unsaving : t = clicks[r] /\ ClickOk(t)
    BY <1>0, <1>8, ClickKinds DEF Bookmark!CommitUnsave, BookmarkInv
  <2>2. t.row \in SavedRows /\ saved[t.row] # NoBookmark
    BY <2>1, ClickKinds DEF ClickOk, Unsaving
  <2>3. PICK old \in [user: Users, answer: Conversations, deleted: BOOLEAN] : old = saved[t.row]
    BY <1>0, <2>2
  <2>4. PICK new : new = [old EXCEPT !.deleted = TRUE]
    OBVIOUS
  <2>5. new.user = old.user /\ new.answer = old.answer
    BY <2>4
  <2>6. /\ UNCHANGED <<thread, cleared>> /\ clicks' = [clicks EXCEPT ![r] = NotClicking]
        /\ saved' = [saved EXCEPT ![t.row] = new]
    BY <1>8, <2>1, <2>3, <2>4 DEF Bookmark!CommitUnsave, Bookmark!Idle, NotClicking
  <2>7. \A i \in SavedRows : Bookmarked(i, new.user, new.answer) => i = t.row
    <3>1. Bookmarked(t.row, new.user, new.answer)
      BY <2>2, <2>3, <2>5 DEF Bookmarked
    <3>. QED BY <2>2, <3>1 DEF SerialBookmarks
  <2>. QED BY <2>2, <2>6, <2>7, RowIsRead
<1>9. ASSUME NEW r \in Req, Bookmark(Req, Users)!CommitDelete(r) PROVE SerialBookmarks'
  <2>1. PICK t \in Deleting(Users) : t = clicks[r] /\ ReadsNow(t)
    BY <1>0, <1>9, ClickKinds DEF Bookmark!CommitDelete, SerialBookmarks
  <2>2. /\ thread' = [c \in Conversations |->
                        IF c \in t.threads THEN [thread[c] EXCEPT !.deleted = TRUE] ELSE thread[c]]
        /\ cleared' = IF t.all THEN cleared \union {t.user} ELSE cleared
        /\ clicks' = [clicks EXCEPT ![r] = NotClicking] /\ UNCHANGED saved
    BY <1>9, <2>1 DEF Bookmark!CommitDelete, Bookmark!Idle, NotClicking
  <2>3. \A q \in Req : clicks'[q] = NotClicking
    BY <1>0, <2>2 DEF OneAtATime
  <2>4. \A c \in Conversations : IF c \in t.threads THEN thread'[c].deleted ELSE thread'[c] = thread[c]
    BY <1>0, <2>2
  <2>5. \A u : HistoryOf(u)' \subseteq HistoryOf(u) \ t.threads
    BY <2>4 DEF HistoryOf
  <2>6. \A u \in cleared' : HistoryOf(u)' = {}
    <3>1. t.all => HistoryOf(t.user) \subseteq t.threads
      BY <2>1 DEF ReadsNow
    <3>. QED BY <2>2, <2>5, <3>1 DEF SerialBookmarks
  <2>7. \A i, w, d : Bookmarked(i, w, d)' = Bookmarked(i, w, d)
    BY <2>2 DEF Bookmarked
  <2>. QED BY <1>0, <2>3, <2>6, <2>7 DEF SerialBookmarks
<1>10. ASSUME NEW r \in Req, Bookmark(Req, Users)!Abort(r) PROVE SerialBookmarks'
  BY <1>6, <1>10 DEF Bookmark!Abort, Bookmark!Idle, NotClicking
<1>. QED BY <1>1, <1>2, <1>3, <1>4, <1>5, <1>7, <1>8, <1>9, <1>10 DEF Bookmark!Next

LEMMA BookmarkStarts ==
  ASSUME NEW R, NEW U, Bookmark(R, U)!Init
  PROVE  BookmarkInv(R, U) /\ (R = Req => SerialBookmarks)
<1>1. /\ thread = [c \in Conversations |-> NoConversation] /\ saved = [i \in SavedRows |-> NoBookmark]
      /\ clicks = [r \in R |-> NotClicking] /\ cleared = {}
  BY DEF Bookmark!Init, Bookmark!NoThread, Bookmark!NoSaved, Bookmark!Idle,
         NoConversation, NoBookmark, NotClicking
<1>2. BookmarkType(R, U)
  BY <1>1 DEF BookmarkType, NoConversation
<1>3. OnceByOwner
  BY <1>1 DEF OnceByOwner
<1>4. ClickOk(NotClicking) /\ ReadsNow(NotClicking)
  BY ClickKinds DEF ClickOk, ReadsNow
<1>. QED BY <1>1, <1>2, <1>3, <1>4 DEF BookmarkInv, SerialBookmarks, Bookmarked

LEMMA BookmarksHold ==
  /\ \A R, U : BookmarkInv(R, U) => Bookmark(R, U)!SavedOnceByOwner
  /\ BookmarkInv(Req, Users) /\ SerialBookmarks /\ nobody \notin Users =>
       Bookmark(Req, Users)!RowIsTakenBack /\ Bookmark(Req, Users)!HistoryIsCleared
<1>1. ASSUME NEW R, NEW U, BookmarkInv(R, U) PROVE Bookmark(R, U)!SavedOnceByOwner
  BY <1>1 DEF BookmarkInv, OnceByOwner, Bookmark!SavedOnceByOwner, Bookmark!NoSaved, NoBookmark
<1>2. ASSUME BookmarkInv(Req, Users), SerialBookmarks, nobody \notin Users
      PROVE  Bookmark(Req, Users)!RowIsTakenBack /\ Bookmark(Req, Users)!HistoryIsCleared
  <2>1. ASSUME NEW i \in SavedRows, NEW j \in SavedRows, saved[i] # NoBookmark,
               saved[i].user = saved[j].user, saved[i].answer = saved[j].answer
        PROVE  i = j
    <3>1. saved[i].user \in Users
      BY <1>2, <2>1 DEF BookmarkInv, BookmarkType
    <3>2. saved[j] # NoBookmark
      BY <1>2, <2>1, <3>1 DEF NoBookmark
    <3>. QED BY <1>2, <2>1, <3>2 DEF SerialBookmarks, Bookmarked
  <2>2. \A u : Bookmark(Req, Users)!History(u) = HistoryOf(u)
    BY DEF Bookmark!History, Bookmark!Owned, HistoryOf
  <2>. QED BY <1>2, <2>1, <2>2
       DEF SerialBookmarks, Bookmark!RowIsTakenBack, Bookmark!HistoryIsCleared, Bookmark!NoSaved, NoBookmark
<1>. QED BY <1>1, <1>2

-----------------------------------------------------------------------------
(* Answers: what is withdrawn and what is saved.                           *)

AnswersFollow ==
  /\ subject = "withdrawals" => WithdrawalInv
  /\ subject = "bookmark" => BookmarkInv(Req, Users) /\ SerialBookmarks
  /\ subject = "racing bookmarks" => BookmarkInv(Calls, Savers)

LEMMA AnswerSteps ==
  ASSUME [RecordsNext]_recordsVars
  PROVE  /\ UNCHANGED subject
         /\ (subject = "withdrawals" /\ Withdrawal!Next) \/ UNCHANGED invalidationVars
         /\ SavedNext \/ UNCHANGED savedVars
BY DEF RecordsNext, recordsVars, Others

LEMMA AnswersStart == RecordsInit => AnswersFollow
<1>. SUFFICES ASSUME RecordsInit PROVE AnswersFollow
  OBVIOUS
<1>1. WithdrawalInv
  BY WithdrawalStarts DEF RecordsInit
<1>2. CASE subject = "bookmark"
  <2>1. Bookmark(Req, Users)!Init
    BY <1>2 DEF RecordsInit
  <2>. QED BY <1>2, <2>1, BookmarkStarts DEF AnswersFollow
<1>3. CASE subject = "racing bookmarks"
  <2>1. Bookmark(Calls, Savers)!Init
    BY <1>3 DEF RecordsInit
  <2>. QED BY <1>3, <2>1, BookmarkStarts DEF AnswersFollow
<1>. QED BY <1>1, <1>2, <1>3 DEF AnswersFollow

LEMMA AnswersStep ==
  ASSUME OneAtATime, AnswersFollow, [RecordsNext]_recordsVars
  PROVE  /\ AnswersFollow'
         /\ subject = "withdrawals" => WithdrawalTimesStay \/ UNCHANGED answer
<1>1. /\ UNCHANGED subject
      /\ (subject = "withdrawals" /\ Withdrawal!Next) \/ UNCHANGED invalidationVars
      /\ SavedNext \/ UNCHANGED savedVars
  BY AnswerSteps
<1>2. nobody \notin Users /\ nobody \notin Savers
  BY RecordsAssumption
<1>3. ASSUME subject = "withdrawals"
      PROVE  /\ WithdrawalInv'
             /\ WithdrawalTimesStay \/ UNCHANGED answer
  <2>1. WithdrawalInv
    BY <1>3 DEF AnswersFollow
  <2>2. CASE Withdrawal!Next
    BY <2>1, <2>2, WithdrawalStep
  <2>3. CASE UNCHANGED invalidationVars
    BY <2>1, <2>3 DEF invalidationVars, WithdrawalInv, WithdrawalType, RepeatOk, SeesNow,
       Withdrawal!InvalidationHasReason, Withdrawal!EveryReasonWarns, Withdrawal!ReasonsFor,
       Withdrawal!Touched
  <2>. QED BY <1>1, <2>2, <2>3
<1>5. ASSUME subject = "bookmark" PROVE BookmarkInv(Req, Users)' /\ SerialBookmarks'
  <2>1. BookmarkInv(Req, Users) /\ SerialBookmarks
    BY <1>5 DEF AnswersFollow
  <2>2. CASE Bookmark(Req, Users)!Next
    BY <1>2, <2>1, <2>2, BookmarkStep, SerialBookmarksStep
  <2>3. CASE UNCHANGED savedVars
    BY <2>1, <2>3 DEF savedVars, BookmarkInv, BookmarkType, OnceByOwner, ClickOk,
       SerialBookmarks, ReadsNow, Bookmarked, HistoryOf
  <2>. QED BY <1>1, <1>5, <2>2, <2>3 DEF SavedNext
<1>6. ASSUME subject = "racing bookmarks" PROVE BookmarkInv(Calls, Savers)'
  <2>1. BookmarkInv(Calls, Savers)
    BY <1>6 DEF AnswersFollow
  <2>2. CASE Bookmark(Calls, Savers)!Next
    BY <1>2, <2>1, <2>2, BookmarkStep
  <2>3. CASE UNCHANGED savedVars
    BY <2>1, <2>3 DEF savedVars, BookmarkInv, BookmarkType, OnceByOwner, ClickOk
  <2>. QED BY <1>1, <1>6, <2>2, <2>3 DEF SavedNext
<1>. QED BY <1>1, <1>3, <1>5, <1>6 DEF AnswersFollow

\* However calls overlap, fail and are repeated, an answer is invalidated and
\* warns exactly when a record says so or content it was built on was withdrawn;
\* no reason is lost and the time of the first invalidation stays, unless a call
\* wrote the answer while another had read it; and it is saved once, by the owner
\* of its conversation, where one call at a time saving again takes the same row
\* back and deleting all empties the history (answer_invalidation.py,
\* document_lifecycle.py, citation_registry.py, saved_answers.py).
THEOREM AnswersAccountedFor ==
  ASSUME OneAtATime
  PROVE  RecordsSpec => AnswersAreAccountedFor
<1>1. AnswersFollow /\ [RecordsNext]_recordsVars => AnswersFollow'
  BY AnswersStep
<1>2. AnswersFollow => AnswersAgree
  <2>1. WithdrawalInv => Withdrawal!InvalidationHasReason /\ Withdrawal!EveryReasonWarns
    BY DEF WithdrawalInv
  <2>3. nobody \notin Users
    BY RecordsAssumption
  <2>. QED BY <2>1, <2>3, BookmarksHold DEF AnswersFollow, AnswersAgree
<1>3. AnswersFollow /\ [RecordsNext]_recordsVars =>
        [subject = "withdrawals" => Withdrawal!TimesStay]_answer
  <2>1. WithdrawalTimesStay => Withdrawal!TimesStay
    BY DEF WithdrawalTimesStay, Withdrawal!TimesStay
  <2>. QED BY <2>1, AnswersStep
<1>. QED BY AnswersStart, <1>1, <1>2, <1>3, PTL DEF RecordsSpec, AnswersAreAccountedFor

-----------------------------------------------------------------------------
(* The prompt.  Every approved version is one that a call selected or       *)
(* activated, and no two were left by the same call: Owned says so, and     *)
(* bounds them.  Latest is what the choice of the active one rests on.      *)

PromptRow == [status: {"absent", "draft", "approved", "deprecated"}, updated: Nat]
NoPrompt  == [status |-> "absent", updated |-> 0]

ChatSteps == {"none", "loaded", "selected", "resolve", "policy", "prompt", "approve", "route",
              "again", "build", "answer"}

ChatCall == [at: ChatSteps, who: {"nobody", "manager", "chat"}, seeding: BOOLEAN,
             ver: Prompts \union {nobody}, was: {"absent", "draft", "approved", "deprecated"},
             others: SUBSET Prompts, start: Nat, first: Prompts \union {nobody}]

NotChatting == [at |-> "none", who |-> "nobody", seeding |-> FALSE, ver |-> nobody,
                was |-> "absent", others |-> {}, start |-> 0, first |-> nobody]

ApprovedPrompts == {v \in Prompts : prompt[v].status = "approved"}

Latest ==
  \A T \in SUBSET ApprovedPrompts : T # {} =>
    \E v \in T : \A w \in T : prompt[w].updated <= prompt[v].updated

Activated(v) == v \in Prompts /\ prompt[v].status \in {"approved", "deprecated"}

ChatOk(t) ==
  /\ t.at \in {"loaded", "selected"} => t.ver \in Prompts
  /\ t.at = "selected" => t.ver \notin t.others
  /\ t.at \in {"build", "answer"} => Activated(t.first)
  /\ t.at = "answer" => Activated(t.ver)

\* f names, for each approved version, a call that would replace it
OwnedBy(R, f) ==
  /\ f \in [ApprovedPrompts -> R]
  /\ \A v, w \in ApprovedPrompts : f[v] = f[w] => v = w
  /\ \A v \in ApprovedPrompts :
       chats[f[v]].at = "selected" => v \in chats[f[v]].others \union {chats[f[v]].ver}

Owned(R) == \E f : OwnedBy(R, f)

PromptInv(R) ==
  /\ prompt \in [Prompts -> PromptRow]
  /\ \A v \in Prompts : prompt[v].status = "absent" => prompt[v] = NoPrompt
  /\ policy \in BOOLEAN
  /\ begun \in Nat
  /\ chats \in [R -> ChatCall]
  /\ \A r \in R : ChatOk(chats[r])
  /\ Latest
  /\ Owned(R)

LEMMA PromptStarts ==
  ASSUME NEW R, Prompt(R)!Init
  PROVE  PromptInv(R)
<1>1. /\ prompt = [v \in Prompts |-> NoPrompt] /\ policy = FALSE /\ begun = 0
      /\ chats = [r \in R |-> NotChatting]
  BY DEF Prompt!Init, Prompt!Absent, Prompt!Idle, NoPrompt, NotChatting
<1>2. NoPrompt \in PromptRow /\ NoPrompt.status = "absent"
  BY DEF NoPrompt, PromptRow
<1>3. NotChatting \in ChatCall /\ NotChatting.at = "none"
  BY DEF NotChatting, ChatCall, ChatSteps
<1>4. ApprovedPrompts = {}
  BY <1>1, <1>2 DEF ApprovedPrompts
<1>5. OwnedBy(R, [v \in {} |-> v])
  BY <1>4 DEF OwnedBy
<1>6. Latest
  BY <1>4 DEF Latest
<1>7. ChatOk(NotChatting)
  BY <1>3 DEF ChatOk
<1>. QED BY <1>1, <1>2, <1>3, <1>5, <1>6, <1>7 DEF PromptInv, Owned

LEMMA ActiveIsApproved ==
  ASSUME NEW R, Latest, ApprovedPrompts # {}
  PROVE  Prompt(R)!Active \in ApprovedPrompts
<1>1. Prompt(R)!Approved = ApprovedPrompts
  BY DEF Prompt!Approved, ApprovedPrompts
<1>2. \E v \in ApprovedPrompts : \A w \in ApprovedPrompts : prompt[w].updated <= prompt[v].updated
  BY DEF Latest
<1>. QED BY <1>1, <1>2 DEF Prompt!Active

LEMMA NothingActive ==
  ASSUME NEW R, Prompt(R)!Active # nobody
  PROVE  ApprovedPrompts # {}
<1>1. Prompt(R)!Approved = ApprovedPrompts
  BY DEF Prompt!Approved, ApprovedPrompts
<1>. QED BY <1>1 DEF Prompt!Active

\* A step that moves calls, and at most creates a draft.
LEMMA DraftsOnly ==
  ASSUME NEW R, PromptInv(R), chats' \in [R -> ChatCall],
         \A q \in R : \/ chats'[q] = chats[q]
                      \/ /\ ChatOk(chats[q])'
                         /\ chats'[q].at = "selected" =>
                              ApprovedPrompts \subseteq chats'[q].others \union {chats'[q].ver},
         \/ UNCHANGED prompt
         \/ \E v \in Prompts, row \in PromptRow :
              /\ prompt[v].status = "absent" /\ row.status = "draft"
              /\ prompt' = [prompt EXCEPT ![v] = row],
         policy' \in BOOLEAN, begun' \in Nat
  PROVE  PromptInv(R)'
<1>0. prompt \in [Prompts -> PromptRow] /\ chats \in [R -> ChatCall]
  BY DEF PromptInv
<1>1. /\ prompt' \in [Prompts -> PromptRow]
      /\ \A v \in Prompts : prompt'[v].status = "absent" => prompt'[v] = NoPrompt
      /\ \A v \in Prompts : prompt[v].status # "absent" => prompt'[v] = prompt[v]
      /\ \A v \in Prompts : prompt'[v].status = "approved" => prompt[v].status = "approved"
  <2>1. CASE UNCHANGED prompt
    BY <2>1 DEF PromptInv
  <2>2. ASSUME NEW v \in Prompts, NEW row \in PromptRow,
               prompt[v].status = "absent", row.status = "draft",
               prompt' = [prompt EXCEPT ![v] = row]
        PROVE  /\ prompt' \in [Prompts -> PromptRow]
               /\ \A w \in Prompts : prompt'[w].status = "absent" => prompt'[w] = NoPrompt
               /\ \A w \in Prompts : prompt[w].status # "absent" => prompt'[w] = prompt[w]
               /\ \A w \in Prompts : prompt'[w].status = "approved" => prompt[w].status = "approved"
    <3>1. \A w \in Prompts : prompt'[w] = IF w = v THEN row ELSE prompt[w]
      BY <1>0, <2>2
    <3>. QED BY <1>0, <2>2, <3>1 DEF PromptInv
  <2>. QED BY <2>1, <2>2
<1>2. ApprovedPrompts' = ApprovedPrompts
  BY <1>1 DEF ApprovedPrompts
<1>3. \A v \in ApprovedPrompts : prompt'[v] = prompt[v]
  BY <1>1 DEF ApprovedPrompts
<1>4. Latest'
  <2>. SUFFICES ASSUME NEW T \in SUBSET ApprovedPrompts, T # {}
                PROVE  \E v \in T : \A w \in T : prompt'[w].updated <= prompt'[v].updated
    BY <1>2 DEF Latest
  <2>1. PICK v \in T : \A w \in T : prompt[w].updated <= prompt[v].updated
    BY DEF PromptInv, Latest
  <2>. QED BY <1>3, <2>1
<1>6. Owned(R)'
  <2>1. PICK f : OwnedBy(R, f)
    BY DEF PromptInv, Owned
  <2>2. OwnedBy(R, f)'
    <3>1. ASSUME NEW v \in ApprovedPrompts, chats'[f[v]].at = "selected"
          PROVE  v \in chats'[f[v]].others \union {chats'[f[v]].ver}
      BY <2>1, <3>1 DEF OwnedBy
    <3>. QED BY <1>2, <2>1, <3>1 DEF OwnedBy
  <2>. QED BY <2>2 DEF Owned
<1>7. ASSUME NEW q \in R PROVE ChatOk(chats[q])'
  <2>1. ChatOk(chats[q])
    BY DEF PromptInv
  <2>2. \A v : Activated(v) => Activated(v)'
    BY <1>1 DEF Activated
  <2>3. CASE chats'[q] = chats[q]
    BY <2>1, <2>2, <2>3 DEF ChatOk
  <2>. QED BY <2>3
<1>. QED BY <1>1, <1>4, <1>6, <1>7 DEF PromptInv

LEMMA ChatMoves ==
  ASSUME NEW R, PromptInv(R), NEW r \in R, NEW call \in ChatCall,
         chats' = [chats EXCEPT ![r] = call],
         \/ UNCHANGED prompt
         \/ \E v \in Prompts, row \in PromptRow :
              /\ prompt[v].status = "absent" /\ row.status = "draft"
              /\ prompt' = [prompt EXCEPT ![v] = row],
         policy' \in BOOLEAN, begun' \in Nat,
         ChatOk(call)',
         call.at = "selected" => ApprovedPrompts \subseteq call.others \union {call.ver}
  PROVE  PromptInv(R)'
<1>1. chats' \in [R -> ChatCall] /\ chats'[r] = call /\ \A q \in R : q # r => chats'[q] = chats[q]
  BY DEF PromptInv
<1>2. ASSUME NEW q \in R
      PROVE  \/ chats'[q] = chats[q]
             \/ /\ ChatOk(chats[q])'
                /\ chats'[q].at = "selected" =>
                     ApprovedPrompts \subseteq chats'[q].others \union {chats'[q].ver}
  <2>1. CASE q = r
    <3>1. ChatOk(chats[q])'
      BY <1>1, <2>1
    <3>. QED BY <1>1, <2>1, <3>1
  <2>. QED BY <1>1, <2>1
<1>. QED BY <1>1, <1>2, DraftsOnly

GoneTo(t, at) == [t EXCEPT !.at = at]
Building(t, v) == [t EXCEPT !.at = "build", !.first = v]

LEMMA CallAt ==
  ASSUME NEW t \in ChatCall, NEW at \in ChatSteps, NEW v \in Prompts
  PROVE  /\ GoneTo(t, at) \in ChatCall /\ GoneTo(t, at).at = at
         /\ Building(t, v) \in ChatCall
         /\ Building(t, v).at = "build" /\ Building(t, v).first = v
<1>1. GoneTo(t, at) \in ChatCall /\ GoneTo(t, at).at = at
  BY DEF ChatCall, GoneTo
<1>2. "build" \in ChatSteps
  BY DEF ChatSteps
<1>3. Building(t, v) \in ChatCall
  BY <1>2 DEF ChatCall, Building
<1>4. Building(t, v).at = "build" /\ Building(t, v).first = v
  BY DEF ChatCall, Building
<1>. QED BY <1>1, <1>3, <1>4

LEMMA IdleChat ==
  /\ NotChatting \in ChatCall
  /\ NotChatting.at = "none" /\ NotChatting.seeding = FALSE
BY DEF NotChatting, ChatCall, ChatSteps

\* A call that only moves on to a step with nothing to remember.
LEMMA ChatPasses ==
  ASSUME NEW R, PromptInv(R), NEW r \in R, NEW call \in ChatCall,
         chats' = [chats EXCEPT ![r] = call],
         call.at \in ChatSteps \ {"loaded", "selected", "build", "answer"},
         UNCHANGED prompt, policy' \in BOOLEAN, UNCHANGED begun
  PROVE  PromptInv(R)'
<1>1. ChatOk(call)'
  BY DEF ChatOk
<1>2. begun' \in Nat
  BY DEF PromptInv
<1>. QED BY <1>1, <1>2, ChatMoves

\* What a transaction is after it loaded its row.
LoadedCall(v, who, seeding, start) ==
  [NotChatting EXCEPT !.at = "loaded", !.who = who, !.seeding = seeding, !.ver = v,
                      !.was = prompt[v].status, !.start = start]

LEMMA LoadKeeps ==
  ASSUME NEW R, PromptInv(R), NEW r \in R, NEW v \in Prompts,
         NEW who \in {"nobody", "manager", "chat"}, NEW seeding \in BOOLEAN,
         Prompt(R)!Load(r, v, who, seeding)
  PROVE  /\ PromptInv(R)'
         /\ chats'[r].at = "loaded" /\ chats'[r].ver = v /\ chats'[r].seeding = seeding
         /\ chats'[r].was = prompt[v].status
         /\ UNCHANGED <<prompt, policy>>
<1>1. PICK call : call = LoadedCall(v, who, seeding, begun + 1)
  OBVIOUS
<1>2. begun + 1 \in Nat /\ prompt[v] \in PromptRow
  BY DEF PromptInv
<1>3. /\ call \in ChatCall /\ call.at = "loaded" /\ call.ver = v
      /\ call.seeding = seeding /\ call.was = prompt[v].status
  BY <1>1, <1>2 DEF LoadedCall, NotChatting, ChatCall, ChatSteps, PromptRow
<1>0. Prompt(R)!Idle = NotChatting
  BY DEF Prompt!Idle, NotChatting
<1>4. chats' = [chats EXCEPT ![r] = call] /\ UNCHANGED <<prompt, policy>> /\ begun' = begun + 1
  BY <1>0, <1>1 DEF Prompt!Load, LoadedCall
<1>5. ChatOk(call)'
  BY <1>3 DEF ChatOk
<1>6. policy' \in BOOLEAN
  BY <1>4 DEF PromptInv
<1>7. PromptInv(R)'
  BY <1>2, <1>3, <1>4, <1>5, <1>6, ChatMoves
<1>8. chats'[r] = call
  BY <1>4 DEF PromptInv
<1>. QED BY <1>3, <1>4, <1>7, <1>8

LEMMA SelectKeeps ==
  ASSUME NEW R, PromptInv(R), NEW r \in R, Prompt(R)!SelectOthers(r)
  PROVE  PromptInv(R)'
<1>1. chats[r] \in ChatCall /\ ChatOk(chats[r])
  BY DEF PromptInv
<1>2. PICK call : call = [chats[r] EXCEPT !.at = "selected", !.others = ApprovedPrompts \ {chats[r].ver}]
  OBVIOUS
<1>3. /\ call \in ChatCall /\ call.at = "selected" /\ call.ver = chats[r].ver
      /\ call.others = ApprovedPrompts \ {call.ver}
  BY <1>1, <1>2 DEF ChatCall, ChatSteps, ApprovedPrompts
<1>4. Prompt(R)!Approved = ApprovedPrompts
  BY DEF Prompt!Approved, ApprovedPrompts
<1>5. chats' = [chats EXCEPT ![r] = call] /\ UNCHANGED <<prompt, policy, begun>>
  BY <1>1, <1>2, <1>4 DEF Prompt!SelectOthers, PromptInv
<1>6. ChatOk(call)'
  BY <1>1, <1>3 DEF ChatOk, Prompt!SelectOthers
<1>7. policy' \in BOOLEAN /\ begun' \in Nat
  BY <1>5 DEF PromptInv
<1>. QED BY <1>3, <1>5, <1>6, <1>7, ChatMoves

\* The rows after a commit of t: nothing is written to a row that is already as
\* it should be.
LEMMA CommittedRows ==
  ASSUME NEW R, NEW t \in ChatCall, prompt \in [Prompts -> PromptRow]
  PROVE  /\ Prompt(R)!Committed(t) \in [Prompts -> PromptRow]
         /\ t.ver \in Prompts /\ t.was # "approved" =>
              /\ Prompt(R)!Committed(t)[t.ver].status = "approved"
         /\ \A v \in Prompts : (v # t.ver \/ t.was = "approved") /\ v \in t.others =>
              Prompt(R)!Committed(t)[v].status = "deprecated"
         /\ \A v \in Prompts : (v # t.ver \/ t.was = "approved") /\ v \notin t.others =>
              Prompt(R)!Committed(t)[v] = prompt[v]
<1>1. \A v \in Prompts : prompt[v] \in PromptRow
  OBVIOUS
<1>2. /\ [status |-> "approved", updated |-> t.start] \in PromptRow
      /\ [status |-> "deprecated", updated |-> t.start] \in PromptRow
  BY DEF PromptRow, ChatCall
<1>. QED BY <1>1, <1>2 DEF Prompt!Committed

LEMMA CommitApprovalKeeps ==
  ASSUME NEW R, PromptInv(R), NEW r \in R, Prompt(R)!CommitApproval(r)
  PROVE  PromptInv(R)'
<1>0. prompt \in [Prompts -> PromptRow] /\ chats \in [R -> ChatCall]
  BY DEF PromptInv
<1>1. PICK t \in ChatCall : t = chats[r] /\ t.at = "selected" /\ t.ver \in Prompts /\ t.ver \notin t.others
  BY <1>0 DEF PromptInv, ChatOk, Prompt!CommitApproval
<1>2. /\ prompt' = Prompt(R)!Committed(t) /\ UNCHANGED <<policy, begun>>
      /\ chats' = [chats EXCEPT ![r] = IF t.seeding THEN [NotChatting EXCEPT !.at = "route", !.who = t.who]
                                       ELSE NotChatting]
  BY <1>1 DEF Prompt!CommitApproval, Prompt!Idle, NotChatting
<1>3. PICK call \in ChatCall : /\ chats' = [chats EXCEPT ![r] = call]
                               /\ call.at \in {"none", "route"}
  <2>1. [NotChatting EXCEPT !.at = "route", !.who = t.who] \in ChatCall
    BY DEF NotChatting, ChatCall, ChatSteps
  <2>2. [NotChatting EXCEPT !.at = "route", !.who = t.who].at = "route"
    BY DEF NotChatting
  <2>. QED BY <1>2, <2>1, <2>2, IdleChat
<1>4. chats' \in [R -> ChatCall] /\ chats'[r] = call /\ \A q \in R : q # r => chats'[q] = chats[q]
  BY <1>0, <1>3
<1>5. /\ prompt' \in [Prompts -> PromptRow]
      /\ t.was # "approved" => prompt'[t.ver].status = "approved"
      /\ t.was = "approved" => prompt'[t.ver] = prompt[t.ver]
      /\ \A v \in Prompts : v \in t.others => prompt'[v].status = "deprecated"
      /\ \A v \in Prompts : v # t.ver /\ v \notin t.others => prompt'[v] = prompt[v]
  BY <1>0, <1>1, <1>2, CommittedRows
<1>6. /\ \A v \in ApprovedPrompts' : v # t.ver \/ t.was = "approved" =>
           v \in ApprovedPrompts /\ v \notin t.others /\ prompt'[v] = prompt[v]
      /\ ApprovedPrompts' \subseteq Prompts
  BY <1>5 DEF ApprovedPrompts
<1>7. \A v \in Prompts : prompt'[v].status = "absent" => prompt'[v] = NoPrompt
  BY <1>1, <1>5 DEF PromptInv
<1>8. \A v : Activated(v) => Activated(v)'
  BY <1>1, <1>5 DEF Activated
<1>9. ASSUME NEW q \in R PROVE ChatOk(chats[q])'
  <2>1. CASE q = r
    BY <1>3, <1>4, <2>1 DEF ChatOk
  <2>2. CASE q # r
    <3>1. ChatOk(chats[q])
      BY DEF PromptInv
    <3>. QED BY <1>4, <1>8, <2>2, <3>1 DEF ChatOk
  <2>. QED BY <2>1, <2>2
<1>10. Latest'
  <2>. SUFFICES ASSUME NEW T \in SUBSET ApprovedPrompts', T # {}
                PROVE  \E v \in T : \A w \in T : prompt'[w].updated <= prompt'[v].updated
    BY DEF Latest
  <2>. DEFINE Kept == {v \in T : v # t.ver \/ t.was = "approved"}
  <2>1. Kept \subseteq ApprovedPrompts /\ \A v \in Kept : prompt'[v] = prompt[v]
    BY <1>6
  <2>2. \A v \in T : prompt'[v].updated \in Nat
    BY <1>5, <1>6 DEF PromptRow
  <2>3. CASE Kept = {}
    <3>1. \A v \in T : v = t.ver
      BY <2>3
    <3>. QED BY <2>2, <3>1
  <2>4. CASE Kept # {}
    <3>1. PICK m \in Kept : \A w \in Kept : prompt[w].updated <= prompt[m].updated
      BY <2>1, <2>4 DEF PromptInv, Latest
    <3>2. \A w \in Kept : prompt'[w].updated <= prompt'[m].updated
      BY <2>1, <3>1
    <3>3. \A w \in T : w \in Kept \/ w = t.ver
      OBVIOUS
    <3>4. CASE t.ver \notin T
      BY <3>2, <3>3, <3>4
    <3>5. CASE t.ver \in T /\ prompt'[t.ver].updated <= prompt'[m].updated
      BY <3>2, <3>3, <3>5
    <3>6. CASE t.ver \in T /\ ~ (prompt'[t.ver].updated <= prompt'[m].updated)
      <4>1. \A w \in T : prompt'[w].updated <= prompt'[t.ver].updated
        BY <2>2, <3>2, <3>3, <3>6
      <4>. QED BY <3>6, <4>1
    <3>. QED BY <3>4, <3>5, <3>6
  <2>. QED BY <2>3, <2>4
<1>11. Owned(R)'
  <2>1. PICK f : OwnedBy(R, f)
    BY DEF PromptInv, Owned
  <2>2. PICK g : g = [v \in ApprovedPrompts' |-> IF v = t.ver /\ t.was # "approved" THEN r ELSE f[v]]
    OBVIOUS
  <2>3. ASSUME NEW v \in ApprovedPrompts', v # t.ver \/ t.was = "approved"
        PROVE  f[v] \in R /\ g[v] = f[v] /\ (f[v] = r => v = t.ver)
    <3>1. v \in ApprovedPrompts /\ v \notin t.others
      BY <1>6, <2>3
    <3>2. f[v] \in R /\ g[v] = f[v]
      BY <2>1, <2>2, <2>3, <3>1 DEF OwnedBy
    <3>3. f[v] = r => v \in t.others \union {t.ver}
      BY <1>1, <2>1, <3>1 DEF OwnedBy
    <3>. QED BY <3>1, <3>2, <3>3
  <2>4. t.ver \in ApprovedPrompts' /\ t.was # "approved" => g[t.ver] = r
    BY <2>2
  <2>5. \A v \in ApprovedPrompts' : (v = t.ver /\ t.was # "approved") \/ v # t.ver \/ t.was = "approved"
    OBVIOUS
  <2>6. g \in [ApprovedPrompts' -> R]
    BY <2>2, <2>3, <2>4, <2>5
  <2>7. ASSUME NEW v \in ApprovedPrompts', NEW w \in ApprovedPrompts', g[v] = g[w]
        PROVE  v = w
    <3>1. CASE (v # t.ver \/ t.was = "approved") /\ (w # t.ver \/ t.was = "approved")
      <4>1. v \in ApprovedPrompts /\ w \in ApprovedPrompts
        BY <1>6, <3>1
      <4>. QED BY <2>1, <2>3, <2>7, <3>1, <4>1 DEF OwnedBy
    <3>2. CASE t.was # "approved"
      BY <2>1, <2>3, <2>4, <2>7, <3>1, <3>2
    <3>. QED BY <3>1, <3>2
  <2>8. ASSUME NEW v \in ApprovedPrompts', chats'[g[v]].at = "selected"
        PROVE  v \in chats'[g[v]].others \union {chats'[g[v]].ver}
    <3>1. g[v] # r /\ g[v] \in R
      BY <1>3, <1>4, <2>6, <2>8
    <3>2. v # t.ver \/ t.was = "approved"
      BY <2>4, <3>1
    <3>3. v \in ApprovedPrompts /\ g[v] = f[v] /\ chats'[g[v]] = chats[g[v]]
      BY <1>4, <1>6, <2>3, <3>1, <3>2
    <3>. QED BY <2>1, <2>8, <3>3 DEF OwnedBy
  <2>9. OwnedBy(R, g)'
    BY <2>6, <2>7, <2>8 DEF OwnedBy
  <2>. QED BY <2>9 DEF Owned
<1>. QED BY <1>2, <1>4, <1>5, <1>7, <1>9, <1>10, <1>11 DEF PromptInv

LEMMA AbsentPrompt ==
  ASSUME NEW R, PromptInv(R), NEW v \in Prompts
  PROVE  prompt[v] = Prompt(R)!Absent <=> prompt[v].status = "absent"
BY DEF PromptInv, Prompt!Absent, NoPrompt

LEMMA NewDraft ==
  ASSUME NEW R
  PROVE  \E row \in PromptRow : row.status = "draft" /\ row = [Prompt(R)!Absent EXCEPT !.status = "draft"]
BY DEF Prompt!Absent, PromptRow

LEMMA PromptStep ==
  ASSUME NEW R, PromptInv(R), Prompt(R)!Next
  PROVE  PromptInv(R)'
<1>0. /\ Prompt(R)!Idle = NotChatting
      /\ policy \in BOOLEAN /\ begun \in Nat /\ chats \in [R -> ChatCall]
      /\ \A r \in R : chats[r] \in ChatCall /\ ChatOk(chats[r])
      /\ DefaultPrompt \in Prompts
  BY RecordsAssumption DEF Prompt!Idle, NotChatting, PromptInv
<1>1. ASSUME NEW v \in Prompts, Prompt(R)!CreatePrompt(v) PROVE PromptInv(R)'
  <2>1. PICK row \in PromptRow : row.status = "draft" /\ prompt' = [prompt EXCEPT ![v] = row]
    BY <1>1, NewDraft DEF Prompt!CreatePrompt
  <2>2. prompt[v].status = "absent" /\ UNCHANGED <<chats, policy, begun>>
    BY <1>1, AbsentPrompt DEF Prompt!CreatePrompt
  <2>. QED BY <1>0, <2>1, <2>2, DraftsOnly
<1>2. ASSUME NEW on \in BOOLEAN, Prompt(R)!ChangeRoute(on) PROVE PromptInv(R)'
  <2>1. UNCHANGED <<prompt, policy, chats, begun>>
    BY <1>2 DEF Prompt!ChangeRoute
  <2>. QED BY <1>0, <2>1, DraftsOnly
<1>3. ASSUME NEW r \in R, NEW v \in Prompts,
             Prompt(R)!ApprovePrompt(r, v) \/ Prompt(R)!RollbackPrompt(r, v)
      PROVE  PromptInv(R)'
  BY <1>3, LoadKeeps DEF Prompt!ApprovePrompt, Prompt!RollbackPrompt
<1>4. ASSUME NEW r \in R, Prompt(R)!StartBootstrap(r) \/ Prompt(R)!StartChat(r) PROVE PromptInv(R)'
  <2>1. PICK at \in {"policy", "resolve"}, who \in {"manager", "chat"} :
          chats' = [chats EXCEPT ![r] = [NotChatting EXCEPT !.at = at, !.who = who]]
    BY <1>0, <1>4 DEF Prompt!StartBootstrap, Prompt!StartChat
  <2>2. PICK call \in ChatCall : call.at = at /\ call = [NotChatting EXCEPT !.at = at, !.who = who]
    BY DEF NotChatting, ChatCall, ChatSteps
  <2>3. UNCHANGED <<prompt, policy, begun>>
    BY <1>4 DEF Prompt!StartBootstrap, Prompt!StartChat
  <2>. QED BY <1>0, <2>1, <2>2, <2>3, ChatPasses DEF ChatSteps
<1>5. ASSUME NEW r \in R, NEW at \in ChatSteps \ {"loaded", "selected", "build", "answer"},
             Prompt(R)!Goto(r, at), UNCHANGED prompt, policy' \in BOOLEAN, UNCHANGED begun
      PROVE  PromptInv(R)'
  <2>1. PICK call \in ChatCall : call.at = at /\ call = GoneTo(chats[r], at)
    <3>1. at \in ChatSteps /\ DefaultPrompt \in Prompts /\ chats[r] \in ChatCall
      BY <1>0
    <3>. QED BY <3>1, CallAt
  <2>2. chats' = [chats EXCEPT ![r] = call]
    BY <1>0, <1>5, <2>1 DEF Prompt!Goto, GoneTo
  <2>. QED BY <1>5, <2>1, <2>2, ChatPasses
<1>6. ASSUME NEW r \in R, chats' = [chats EXCEPT ![r] = NotChatting],
             UNCHANGED <<prompt, policy, begun>>
      PROVE  PromptInv(R)'
  <2>1. NotChatting.at \in ChatSteps \ {"loaded", "selected", "build", "answer"}
    BY IdleChat DEF ChatSteps
  <2>. QED BY <1>0, <1>6, <2>1, IdleChat, ChatPasses
<1>7. ASSUME NEW r \in R, Prompt(R)!Resolve(r) PROVE PromptInv(R)'
  <2>0. UNCHANGED <<prompt, policy, begun>>
    BY <1>7 DEF Prompt!Resolve
  <2>1. CASE Prompt(R)!Goto(r, "policy")
    <3>1. "policy" \in ChatSteps \ {"loaded", "selected", "build", "answer"}
      BY DEF ChatSteps
    <3>. QED BY <1>0, <1>5, <2>0, <2>1, <3>1
  <2>2. CASE chats' = [chats EXCEPT ![r] = Prompt(R)!Idle]
    BY <1>0, <1>6, <2>0, <2>2
  <2>3. CASE /\ Prompt(R)!Resolvable
             /\ chats' = [chats EXCEPT ![r].at = "build", ![r].first = Prompt(R)!Active]
    <3>1. PICK v \in ApprovedPrompts : v = Prompt(R)!Active
      BY <2>3, ActiveIsApproved, NothingActive DEF Prompt!Resolvable, PromptInv
    <3>2. v \in Prompts /\ Activated(v)
      BY DEF ApprovedPrompts, Activated
    <3>3. "build" \in ChatSteps /\ chats[r] \in ChatCall
      BY <1>0 DEF ChatSteps
    <3>4. PICK call \in ChatCall :
            call = Building(chats[r], v) /\ call.at = "build" /\ call.first = v
      BY <3>2, <3>3, CallAt
    <3>5. chats' = [chats EXCEPT ![r] = call]
      BY <1>0, <2>3, <3>1, <3>4 DEF Building
    <3>6. Activated(v)'
      BY <2>0, <3>2 DEF Activated
    <3>7. ChatOk(call)'
      BY <3>4, <3>6 DEF ChatOk
    <3>. QED BY <1>0, <2>0, <3>4, <3>5, <3>7, ChatMoves
  <2>. QED BY <1>7, <2>1, <2>2, <2>3 DEF Prompt!Resolve
<1>8. ASSUME NEW r \in R, Prompt(R)!SeedPolicy(r) PROVE PromptInv(R)'
  <2>1. "prompt" \in ChatSteps \ {"loaded", "selected", "build", "answer"}
    BY DEF ChatSteps
  <2>. QED BY <1>5, <1>8, <2>1 DEF Prompt!SeedPolicy
<1>9. ASSUME NEW r \in R, Prompt(R)!SeedPrompt(r) PROVE PromptInv(R)'
  <2>1. PICK row \in PromptRow : row.status = "draft" /\ prompt' = [prompt EXCEPT ![DefaultPrompt] = row]
    BY <1>9, NewDraft DEF Prompt!SeedPrompt
  <2>2. prompt[DefaultPrompt].status = "absent" /\ UNCHANGED <<policy, begun>>
    BY <1>0, <1>9, AbsentPrompt DEF Prompt!SeedPrompt
  <2>3. PICK call \in ChatCall : call.at = "approve" /\ call = GoneTo(chats[r], "approve")
    <3>1. "approve" \in ChatSteps /\ DefaultPrompt \in Prompts /\ chats[r] \in ChatCall
      BY <1>0 DEF ChatSteps
    <3>. QED BY <3>1, CallAt
  <2>4. chats' = [chats EXCEPT ![r] = call]
    BY <1>0, <1>9, <2>3 DEF Prompt!SeedPrompt, Prompt!Goto, GoneTo
  <2>5. ChatOk(call)'
    BY <2>3 DEF ChatOk
  <2>. QED BY <1>0, <2>1, <2>2, <2>3, <2>4, <2>5, ChatMoves
<1>10. ASSUME NEW r \in R, Prompt(R)!SeedApproval(r) PROVE PromptInv(R)'
  <2>1. CASE Prompt(R)!Goto(r, "route") /\ UNCHANGED <<prompt, policy, route, begun, chosen>>
    <3>1. "route" \in ChatSteps \ {"loaded", "selected", "build", "answer"}
      BY DEF ChatSteps
    <3>. QED BY <1>0, <1>5, <2>1, <3>1
  <2>2. CASE Prompt(R)!Load(r, DefaultPrompt, chats[r].who, TRUE)
    <3>1. chats[r].who \in {"nobody", "manager", "chat"}
      BY <1>0 DEF ChatCall
    <3>. QED BY <1>0, <2>2, <3>1, LoadKeeps
  <2>. QED BY <1>10, <2>1, <2>2 DEF Prompt!SeedApproval
<1>11. ASSUME NEW r \in R, Prompt(R)!SeedRoute(r) PROVE PromptInv(R)'
  <2>0. UNCHANGED <<prompt, policy, begun>>
    BY <1>11 DEF Prompt!SeedRoute
  <2>1. CASE chats' = [chats EXCEPT ![r] = Prompt(R)!Idle]
    BY <1>0, <1>6, <2>0, <2>1
  <2>2. CASE chats' = [chats EXCEPT ![r] = [@ EXCEPT !.at = "again"]]
    <3>1. "again" \in ChatSteps \ {"loaded", "selected", "build", "answer"}
      BY DEF ChatSteps
    <3>2. Prompt(R)!Goto(r, "again")
      BY <2>2 DEF Prompt!Goto
    <3>. QED BY <1>0, <1>5, <2>0, <3>1, <3>2
  <2>. QED BY <1>11, <2>1, <2>2 DEF Prompt!SeedRoute
<1>12. ASSUME NEW r \in R, Prompt(R)!BuildOrchestrator(r) PROVE PromptInv(R)'
  <2>0. UNCHANGED <<prompt, policy, begun>>
    BY <1>12 DEF Prompt!BuildOrchestrator
  <2>1. CASE chats' = [chats EXCEPT ![r] = Prompt(R)!Idle]
    BY <1>0, <1>6, <2>0, <2>1
  <2>2. CASE /\ Prompt(R)!Resolvable /\ chats[r].at = "build"
             /\ chats' = [chats EXCEPT ![r] = [@ EXCEPT !.at = "answer", !.ver = Prompt(R)!Active]]
    <3>1. PICK v \in ApprovedPrompts : v = Prompt(R)!Active
      BY <2>2, ActiveIsApproved, NothingActive DEF Prompt!Resolvable, PromptInv
    <3>2. v \in Prompts /\ Activated(v) /\ Activated(chats[r].first)
      BY <1>0, <2>2 DEF ApprovedPrompts, Activated, ChatOk
    <3>3. PICK call : call = [chats[r] EXCEPT !.at = "answer", !.ver = v]
      OBVIOUS
    <3>4. call \in ChatCall /\ call.at = "answer" /\ call.ver = v /\ call.first = chats[r].first
      BY <1>0, <3>2, <3>3 DEF ChatCall, ChatSteps
    <3>5. chats' = [chats EXCEPT ![r] = call]
      BY <1>0, <2>2, <3>1, <3>3
    <3>6. Activated(v)' /\ Activated(call.first)'
      BY <2>0, <3>2, <3>4 DEF Activated
    <3>7. ChatOk(call)'
      BY <3>4, <3>6 DEF ChatOk
    <3>. QED BY <1>0, <2>0, <3>4, <3>5, <3>7, ChatMoves
  <2>. QED BY <1>12, <2>1, <2>2 DEF Prompt!BuildOrchestrator
<1>13. ASSUME NEW r \in R, Prompt(R)!Answered(r) \/ Prompt(R)!Abort(r) PROVE PromptInv(R)'
  BY <1>0, <1>6, <1>13 DEF Prompt!Answered, Prompt!Abort
<1>14. ASSUME NEW r \in R, Prompt(R)!SelectOthers(r) \/ Prompt(R)!CommitApproval(r)
       PROVE  PromptInv(R)'
  BY <1>14, SelectKeeps, CommitApprovalKeeps
<1>. QED BY <1>1, <1>2, <1>3, <1>4, <1>7, <1>8, <1>9, <1>10, <1>11, <1>12, <1>13, <1>14
     DEF Prompt!Next, Prompt!Manage, Prompt!Chat, Prompt!Seed

LEMMA PromptsHold ==
  ASSUME NEW R, PromptInv(R), IsFiniteSet(R)
  PROVE  Prompt(R)!ApprovedBounded /\ Prompt(R)!DraftsAreNotUsed
<1>1. Prompt(R)!ApprovedBounded
  <2>1. PICK f : OwnedBy(R, f)
    BY DEF PromptInv, Owned
  <2>2. f \in Injection(ApprovedPrompts, R)
    BY <2>1 DEF OwnedBy, Injection, IsInjective
  <2>3. Cardinality(ApprovedPrompts) <= Cardinality(R)
    BY <2>2, FS_Injection
  <2>4. Prompt(R)!Approved = ApprovedPrompts
    BY DEF Prompt!Approved, ApprovedPrompts
  <2>5. \A S : Prompt(R)!Cardinality(S) = Cardinality(S)
    BY DEF Prompt!Cardinality, Cardinality
  <2>. QED BY <2>3, <2>4, <2>5 DEF Prompt!ApprovedBounded
<1>2. Prompt(R)!DraftsAreNotUsed
  BY DEF PromptInv, ChatOk, Activated, Prompt!DraftsAreNotUsed
<1>. QED BY <1>1, <1>2

\* One call at a time: what a transaction has read is still so, and seeding
\* goes on where it left off.
OnePrompt ==
  /\ \A v, w \in ApprovedPrompts : v = w
  /\ (\E v \in Prompts : prompt[v].status = "deprecated") => ApprovedPrompts # {}

Seeding(t) ==
  t.at \in {"prompt", "approve", "route", "again"}
    \/ (t.at \in {"loaded", "selected"} /\ t.seeding = TRUE)

ChatGoesOn(t) ==
  /\ t.at = "approve" => prompt[DefaultPrompt].status # "absent"
  /\ t.at \in {"loaded", "selected"} => t.was = prompt[t.ver].status /\ t.was # "absent"
  /\ t.at = "selected" => t.others = ApprovedPrompts \ {t.ver}
  /\ Seeding(t) => policy = TRUE
  /\ t.at \in {"route", "again"} => ApprovedPrompts # {}

SerialPrompts == OnePrompt /\ \A r \in Req : ChatGoesOn(chats[r])

\* A step of the only call, or of a manager beside it, that approves nothing.
LEMMA SerialChatMoves ==
  ASSUME OneAtATime, PromptInv(Req), SerialPrompts,
         \/ UNCHANGED prompt
         \/ \E v \in Prompts, row \in PromptRow :
              /\ prompt[v].status = "absent" /\ row.status = "draft"
              /\ prompt' = [prompt EXCEPT ![v] = row],
         policy' = policy \/ policy' = TRUE,
         \/ UNCHANGED chats
         \/ \E r \in Req : \E call \in ChatCall :
              chats' = [chats EXCEPT ![r] = call] /\ ChatGoesOn(call)'
  PROVE  SerialPrompts'
<1>0. prompt \in [Prompts -> PromptRow] /\ chats \in [Req -> ChatCall]
  BY DEF PromptInv
<1>1. /\ \A v \in Prompts : prompt[v].status # "absent" => prompt'[v] = prompt[v]
      /\ \A v \in Prompts : prompt'[v].status \in {"approved", "deprecated"} =>
           prompt'[v] = prompt[v]
  <2>1. CASE UNCHANGED prompt
    BY <2>1
  <2>2. ASSUME NEW v \in Prompts, NEW row \in PromptRow,
               prompt[v].status = "absent", row.status = "draft",
               prompt' = [prompt EXCEPT ![v] = row]
        PROVE  /\ \A w \in Prompts : prompt[w].status # "absent" => prompt'[w] = prompt[w]
               /\ \A w \in Prompts : prompt'[w].status \in {"approved", "deprecated"} =>
                    prompt'[w] = prompt[w]
    <3>1. \A w \in Prompts : prompt'[w] = IF w = v THEN row ELSE prompt[w]
      BY <1>0, <2>2
    <3>. QED BY <2>2, <3>1
  <2>. QED BY <2>1, <2>2
<1>2. ApprovedPrompts' = ApprovedPrompts
  BY <1>1 DEF ApprovedPrompts
<1>3. OnePrompt'
  BY <1>1, <1>2 DEF SerialPrompts, OnePrompt
<1>4. CASE UNCHANGED chats
  <2>. SUFFICES ASSUME NEW r \in Req PROVE ChatGoesOn(chats[r])'
    BY <1>3 DEF SerialPrompts
  <2>1. ChatGoesOn(chats[r]) /\ ChatOk(chats[r])
    BY DEF SerialPrompts, PromptInv
  <2>2. DefaultPrompt \in Prompts
    BY RecordsAssumption
  <2>. QED BY <1>1, <1>2, <1>4, <2>1, <2>2 DEF ChatGoesOn, ChatOk, Seeding
<1>5. ASSUME NEW r \in Req, NEW call \in ChatCall,
             chats' = [chats EXCEPT ![r] = call], ChatGoesOn(call)'
      PROVE  SerialPrompts'
  <2>1. \A q \in Req : chats'[q] = call
    BY <1>0, <1>5 DEF OneAtATime
  <2>. QED BY <1>3, <1>5, <2>1 DEF SerialPrompts, ChatGoesOn
<1>. QED BY <1>4, <1>5

\* The approved row the commit leaves is the only one.
LEMMA SerialCommit ==
  ASSUME OneAtATime, PromptInv(Req), SerialPrompts, NEW r \in Req, Prompt(Req)!CommitApproval(r)
  PROVE  SerialPrompts'
<1>0. prompt \in [Prompts -> PromptRow] /\ chats \in [Req -> ChatCall]
  BY DEF PromptInv
<1>1. PICK t \in ChatCall : t = chats[r] /\ t.at = "selected" /\ t.ver \in Prompts /\ t.ver \notin t.others
  BY <1>0 DEF PromptInv, ChatOk, Prompt!CommitApproval
<1>2. t.was = prompt[t.ver].status /\ t.others = ApprovedPrompts \ {t.ver}
      /\ (t.seeding = TRUE => policy = TRUE)
  BY <1>1 DEF SerialPrompts, ChatGoesOn, Seeding
<1>3. /\ prompt' = Prompt(Req)!Committed(t) /\ UNCHANGED policy
      /\ chats' = [chats EXCEPT ![r] = IF t.seeding THEN [NotChatting EXCEPT !.at = "route", !.who = t.who]
                                       ELSE NotChatting]
  BY <1>1 DEF Prompt!CommitApproval, Prompt!Idle, NotChatting
<1>4. /\ prompt' \in [Prompts -> PromptRow]
      /\ t.was # "approved" => prompt'[t.ver].status = "approved"
      /\ t.was = "approved" => prompt'[t.ver] = prompt[t.ver]
      /\ \A v \in Prompts : v \in t.others => prompt'[v].status = "deprecated"
      /\ \A v \in Prompts : v # t.ver /\ v \notin t.others => prompt'[v] = prompt[v]
  BY <1>0, <1>1, <1>3, CommittedRows
<1>5. ApprovedPrompts' = {t.ver}
  <2>1. prompt'[t.ver].status = "approved"
    BY <1>2, <1>4
  <2>2. \A v \in Prompts : v # t.ver => prompt'[v].status # "approved"
    BY <1>2, <1>4 DEF ApprovedPrompts
  <2>. QED BY <1>1, <2>1, <2>2 DEF ApprovedPrompts
<1>6. \A q \in Req : q = r
  BY DEF OneAtATime
<1>7. ChatGoesOn(chats[r])'
  <2>1. CASE t.seeding = TRUE
    <3>1. PICK call : call = [NotChatting EXCEPT !.at = "route", !.who = t.who]
      OBVIOUS
    <3>2. call.at = "route"
      BY <3>1 DEF NotChatting
    <3>3. chats'[r] = call
      BY <1>0, <1>3, <2>1, <3>1
    <3>. QED BY <1>2, <1>3, <1>5, <2>1, <3>2, <3>3 DEF ChatGoesOn
  <2>2. CASE t.seeding = FALSE
    <3>1. chats'[r] = NotChatting
      BY <1>0, <1>3, <2>2
    <3>. QED BY <3>1, IdleChat DEF ChatGoesOn, Seeding
  <2>3. t.seeding \in BOOLEAN
    BY DEF ChatCall
  <2>. QED BY <2>1, <2>2, <2>3
<1>. QED BY <1>5, <1>6, <1>7 DEF SerialPrompts, OnePrompt

LEMMA SerialPromptStep ==
  ASSUME OneAtATime, PromptInv(Req), SerialPrompts, Prompt(Req)!Next
  PROVE  SerialPrompts'
<1>0. /\ Prompt(Req)!Idle = NotChatting
      /\ policy \in BOOLEAN /\ chats \in [Req -> ChatCall]
      /\ \A r \in Req : chats[r] \in ChatCall /\ ChatOk(chats[r]) /\ ChatGoesOn(chats[r])
      /\ DefaultPrompt \in Prompts
  BY RecordsAssumption DEF Prompt!Idle, NotChatting, PromptInv, SerialPrompts
<1>1. ASSUME NEW v \in Prompts, Prompt(Req)!CreatePrompt(v) PROVE SerialPrompts'
  <2>1. PICK row \in PromptRow : row.status = "draft" /\ prompt' = [prompt EXCEPT ![v] = row]
    BY <1>1, NewDraft DEF Prompt!CreatePrompt
  <2>2. prompt[v].status = "absent" /\ UNCHANGED <<chats, policy>>
    BY <1>1, AbsentPrompt DEF Prompt!CreatePrompt
  <2>. QED BY <2>1, <2>2, SerialChatMoves
<1>2. ASSUME NEW on \in BOOLEAN, Prompt(Req)!ChangeRoute(on) PROVE SerialPrompts'
  <2>1. UNCHANGED <<prompt, policy, chats>>
    BY <1>2 DEF Prompt!ChangeRoute
  <2>. QED BY <2>1, SerialChatMoves
<1>3. ASSUME NEW r \in Req, NEW v \in Prompts, NEW who \in {"nobody", "manager", "chat"},
             NEW seeding \in BOOLEAN, Prompt(Req)!Load(r, v, who, seeding),
             prompt[v].status # "absent", seeding = TRUE => policy = TRUE
      PROVE  SerialPrompts'
  <2>1. /\ chats'[r].at = "loaded" /\ chats'[r].ver = v /\ chats'[r].seeding = seeding
        /\ chats'[r].was = prompt[v].status
        /\ UNCHANGED <<prompt, policy>>
    BY <1>3, LoadKeeps
  <2>2. ChatGoesOn(chats[r])'
    BY <1>3, <2>1 DEF ChatGoesOn, Seeding
  <2>3. \A q \in Req : q = r
    BY DEF OneAtATime
  <2>4. OnePrompt'
    BY <2>1 DEF SerialPrompts, OnePrompt, ApprovedPrompts
  <2>. QED BY <2>2, <2>3, <2>4 DEF SerialPrompts
<1>4. ASSUME NEW r \in Req, NEW v \in Prompts,
             Prompt(Req)!ApprovePrompt(r, v) \/ Prompt(Req)!RollbackPrompt(r, v)
      PROVE  SerialPrompts'
  BY <1>3, <1>4 DEF Prompt!ApprovePrompt, Prompt!RollbackPrompt
<1>5. ASSUME NEW r \in Req, Prompt(Req)!StartBootstrap(r) \/ Prompt(Req)!StartChat(r)
      PROVE  SerialPrompts'
  <2>1. PICK at \in {"policy", "resolve"}, who \in {"manager", "chat"} :
          chats' = [chats EXCEPT ![r] = [NotChatting EXCEPT !.at = at, !.who = who]]
    BY <1>0, <1>5 DEF Prompt!StartBootstrap, Prompt!StartChat
  <2>2. PICK call \in ChatCall : call.at = at /\ call = [NotChatting EXCEPT !.at = at, !.who = who]
    BY DEF NotChatting, ChatCall, ChatSteps
  <2>3. UNCHANGED <<prompt, policy>>
    BY <1>5 DEF Prompt!StartBootstrap, Prompt!StartChat
  <2>4. ChatGoesOn(call)'
    BY <2>2 DEF ChatGoesOn, Seeding
  <2>. QED BY <2>1, <2>2, <2>3, <2>4, SerialChatMoves
<1>6. ASSUME NEW r \in Req, NEW at \in ChatSteps \ {"loaded", "selected"},
             Prompt(Req)!Goto(r, at), UNCHANGED prompt, policy' = policy \/ policy' = TRUE,
             at = "approve" => prompt[DefaultPrompt].status # "absent",
             at \in {"prompt", "approve", "route", "again"} => policy' = TRUE,
             at \in {"route", "again"} => ApprovedPrompts # {}
      PROVE  SerialPrompts'
  <2>1. PICK call \in ChatCall : call.at = at /\ call = GoneTo(chats[r], at)
    <3>1. at \in ChatSteps /\ DefaultPrompt \in Prompts /\ chats[r] \in ChatCall
      BY <1>0
    <3>. QED BY <3>1, CallAt
  <2>2. chats' = [chats EXCEPT ![r] = call]
    BY <1>0, <1>6, <2>1 DEF Prompt!Goto, GoneTo
  <2>3. ApprovedPrompts' = ApprovedPrompts
    BY <1>6 DEF ApprovedPrompts
  <2>4. ChatGoesOn(call)'
    BY <1>6, <2>1, <2>3 DEF ChatGoesOn, Seeding
  <2>. QED BY <1>6, <2>2, <2>4, SerialChatMoves
<1>7. ASSUME NEW r \in Req, chats' = [chats EXCEPT ![r] = NotChatting], UNCHANGED <<prompt, policy>>
      PROVE  SerialPrompts'
  <2>1. ChatGoesOn(NotChatting)'
    BY IdleChat DEF ChatGoesOn, Seeding
  <2>. QED BY <1>7, <2>1, IdleChat, SerialChatMoves
<1>8. ASSUME NEW r \in Req, NEW call \in ChatCall, chats' = [chats EXCEPT ![r] = call],
             call.at \in {"build", "answer"}, UNCHANGED <<prompt, policy>>
      PROVE  SerialPrompts'
  <2>1. ChatGoesOn(call)'
    BY <1>8 DEF ChatGoesOn, Seeding
  <2>. QED BY <1>8, <2>1, SerialChatMoves
<1>9. ASSUME NEW r \in Req, Prompt(Req)!Resolve(r) PROVE SerialPrompts'
  <2>0. UNCHANGED <<prompt, policy>>
    BY <1>9 DEF Prompt!Resolve
  <2>1. CASE Prompt(Req)!Goto(r, "policy")
    <3>1. "policy" \in ChatSteps \ {"loaded", "selected"}
      BY DEF ChatSteps
    <3>. QED BY <1>6, <2>0, <2>1, <3>1
  <2>2. CASE chats' = [chats EXCEPT ![r] = Prompt(Req)!Idle]
    BY <1>0, <1>7, <2>0, <2>2
  <2>3. CASE /\ Prompt(Req)!Resolvable
             /\ chats' = [chats EXCEPT ![r].at = "build", ![r].first = Prompt(Req)!Active]
    <3>1. PICK v \in ApprovedPrompts : v = Prompt(Req)!Active
      BY <2>3, ActiveIsApproved, NothingActive DEF Prompt!Resolvable, PromptInv
    <3>2. "build" \in ChatSteps /\ v \in Prompts /\ chats[r] \in ChatCall
      BY <1>0 DEF ChatSteps, ApprovedPrompts
    <3>3. PICK call \in ChatCall : call = Building(chats[r], v) /\ call.at = "build"
      BY <3>2, CallAt
    <3>4. chats' = [chats EXCEPT ![r] = call]
      BY <1>0, <2>3, <3>1, <3>3 DEF Building
    <3>. QED BY <1>8, <2>0, <3>3, <3>4
  <2>. QED BY <1>9, <2>1, <2>2, <2>3 DEF Prompt!Resolve
<1>10. ASSUME NEW r \in Req, Prompt(Req)!SeedPolicy(r) PROVE SerialPrompts'
  <2>1. "prompt" \in ChatSteps \ {"loaded", "selected"}
    BY DEF ChatSteps
  <2>. QED BY <1>6, <1>10, <2>1 DEF Prompt!SeedPolicy
<1>11. ASSUME NEW r \in Req, Prompt(Req)!SeedPrompt(r) PROVE SerialPrompts'
  <2>1. PICK row \in PromptRow : row.status = "draft" /\ prompt' = [prompt EXCEPT ![DefaultPrompt] = row]
    BY <1>11, NewDraft DEF Prompt!SeedPrompt
  <2>2. prompt[DefaultPrompt].status = "absent" /\ UNCHANGED policy /\ policy = TRUE
    BY <1>0, <1>11, AbsentPrompt DEF Prompt!SeedPrompt, ChatGoesOn, Seeding
  <2>3. PICK call \in ChatCall : call.at = "approve" /\ call = GoneTo(chats[r], "approve")
    <3>1. "approve" \in ChatSteps /\ DefaultPrompt \in Prompts /\ chats[r] \in ChatCall
      BY <1>0 DEF ChatSteps
    <3>. QED BY <3>1, CallAt
  <2>4. chats' = [chats EXCEPT ![r] = call]
    BY <1>0, <1>11, <2>3 DEF Prompt!SeedPrompt, Prompt!Goto, GoneTo
  <2>5. prompt'[DefaultPrompt].status # "absent"
    BY <1>0, <2>1 DEF PromptInv
  <2>6. ChatGoesOn(call)'
    BY <2>2, <2>3, <2>5 DEF ChatGoesOn, Seeding
  <2>. QED BY <1>0, <2>1, <2>2, <2>4, <2>6, SerialChatMoves
<1>12. ASSUME NEW r \in Req, Prompt(Req)!SeedApproval(r) PROVE SerialPrompts'
  <2>0. policy = TRUE /\ prompt[DefaultPrompt].status # "absent"
    BY <1>0, <1>12, AbsentPrompt DEF Prompt!SeedApproval, ChatGoesOn, Seeding
  <2>1. CASE /\ Prompt(Req)!Goto(r, "route") /\ UNCHANGED <<prompt, policy, route, begun, chosen>>
             /\ prompt[DefaultPrompt].status = "approved"
    <3>1. "route" \in ChatSteps \ {"loaded", "selected"}
      BY DEF ChatSteps
    <3>2. ApprovedPrompts # {}
      BY <1>0, <2>1 DEF ApprovedPrompts
    <3>. QED BY <1>6, <2>0, <2>1, <3>1, <3>2
  <2>2. CASE Prompt(Req)!Load(r, DefaultPrompt, chats[r].who, TRUE)
    <3>1. chats[r].who \in {"nobody", "manager", "chat"}
      BY <1>0 DEF ChatCall
    <3>. QED BY <1>0, <1>3, <2>0, <2>2, <3>1
  <2>. QED BY <1>12, <2>1, <2>2 DEF Prompt!SeedApproval
<1>13. ASSUME NEW r \in Req, Prompt(Req)!SeedRoute(r) PROVE SerialPrompts'
  <2>0. UNCHANGED <<prompt, policy>> /\ policy = TRUE /\ ApprovedPrompts # {}
    BY <1>0, <1>13 DEF Prompt!SeedRoute, ChatGoesOn, Seeding
  <2>1. CASE chats' = [chats EXCEPT ![r] = Prompt(Req)!Idle]
    BY <1>0, <1>7, <2>0, <2>1
  <2>2. CASE chats' = [chats EXCEPT ![r] = [@ EXCEPT !.at = "again"]]
    <3>1. "again" \in ChatSteps \ {"loaded", "selected"}
      BY DEF ChatSteps
    <3>2. Prompt(Req)!Goto(r, "again")
      BY <2>2 DEF Prompt!Goto
    <3>. QED BY <1>6, <2>0, <3>1, <3>2
  <2>. QED BY <1>13, <2>1, <2>2 DEF Prompt!SeedRoute
<1>14. ASSUME NEW r \in Req, Prompt(Req)!BuildOrchestrator(r) PROVE SerialPrompts'
  <2>0. UNCHANGED <<prompt, policy>>
    BY <1>14 DEF Prompt!BuildOrchestrator
  <2>1. CASE chats' = [chats EXCEPT ![r] = Prompt(Req)!Idle]
    BY <1>0, <1>7, <2>0, <2>1
  <2>2. CASE /\ Prompt(Req)!Resolvable
             /\ chats' = [chats EXCEPT ![r] = [@ EXCEPT !.at = "answer", !.ver = Prompt(Req)!Active]]
    <3>1. PICK v \in ApprovedPrompts : v = Prompt(Req)!Active
      BY <2>2, ActiveIsApproved, NothingActive DEF Prompt!Resolvable, PromptInv
    <3>2. PICK call : call = [chats[r] EXCEPT !.at = "answer", !.ver = v]
      OBVIOUS
    <3>3. call \in ChatCall /\ call.at = "answer"
      BY <1>0, <3>2 DEF ChatCall, ChatSteps, ApprovedPrompts
    <3>4. chats' = [chats EXCEPT ![r] = call]
      BY <1>0, <2>2, <3>1, <3>2
    <3>. QED BY <1>8, <2>0, <3>3, <3>4
  <2>. QED BY <1>14, <2>1, <2>2 DEF Prompt!BuildOrchestrator
<1>15. ASSUME NEW r \in Req, Prompt(Req)!Answered(r) \/ Prompt(Req)!Abort(r) PROVE SerialPrompts'
  BY <1>0, <1>7, <1>15 DEF Prompt!Answered, Prompt!Abort
<1>16. ASSUME NEW r \in Req, Prompt(Req)!SelectOthers(r) PROVE SerialPrompts'
  <2>1. PICK call : call = [chats[r] EXCEPT !.at = "selected", !.others = ApprovedPrompts \ {chats[r].ver}]
    OBVIOUS
  <2>2. /\ call \in ChatCall /\ call.at = "selected" /\ call.ver = chats[r].ver
        /\ call.others = ApprovedPrompts \ {call.ver} /\ call.was = chats[r].was
        /\ call.seeding = chats[r].seeding
    BY <1>0, <2>1 DEF ChatCall, ChatSteps, ApprovedPrompts
  <2>3. Prompt(Req)!Approved = ApprovedPrompts
    BY DEF Prompt!Approved, ApprovedPrompts
  <2>4. chats' = [chats EXCEPT ![r] = call] /\ UNCHANGED <<prompt, policy>> /\ chats[r].at = "loaded"
    BY <1>0, <1>16, <2>1, <2>3 DEF Prompt!SelectOthers
  <2>5. ApprovedPrompts' = ApprovedPrompts
    BY <2>4 DEF ApprovedPrompts
  <2>6. ChatGoesOn(call)'
    BY <1>0, <2>2, <2>4, <2>5 DEF ChatGoesOn, Seeding
  <2>. QED BY <2>2, <2>4, <2>6, SerialChatMoves
<1>17. ASSUME NEW r \in Req, Prompt(Req)!CommitApproval(r) PROVE SerialPrompts'
  BY <1>17, SerialCommit
<1>. QED BY <1>1, <1>2, <1>4, <1>5, <1>9, <1>10, <1>11, <1>12, <1>13, <1>14, <1>15, <1>16, <1>17
     DEF Prompt!Next, Prompt!Manage, Prompt!Chat, Prompt!Seed

LEMMA SerialPromptsStart ==
  ASSUME Prompt(Req)!Init
  PROVE  SerialPrompts
<1>1. /\ prompt = [v \in Prompts |-> NoPrompt] /\ chats = [r \in Req |-> NotChatting]
  BY DEF Prompt!Init, Prompt!Absent, Prompt!Idle, NoPrompt, NotChatting
<1>2. NoPrompt.status = "absent"
  BY DEF NoPrompt
<1>3. ChatGoesOn(NotChatting)
  BY IdleChat DEF ChatGoesOn, Seeding
<1>. QED BY <1>1, <1>2, <1>3 DEF SerialPrompts, OnePrompt, ApprovedPrompts

LEMMA SerialPromptsHold ==
  ASSUME PromptInv(Req), SerialPrompts
  PROVE  Prompt(Req)!OneActive /\ Prompt(Req)!SeedingSuffices
<1>1. Prompt(Req)!Approved = ApprovedPrompts
  BY DEF Prompt!Approved, ApprovedPrompts
<1>2. Cardinality(ApprovedPrompts) <= 1
  <2>1. ApprovedPrompts = {} \/ \E v : ApprovedPrompts = {v}
    <3>1. \A v \in ApprovedPrompts : ApprovedPrompts = {v}
      BY DEF SerialPrompts, OnePrompt
    <3>. QED BY <3>1
  <2>2. Cardinality({}) = 0 /\ \A v : Cardinality({v}) = 1
    BY FS_EmptySet, FS_Singleton
  <2>3. Cardinality(ApprovedPrompts) = 0 \/ Cardinality(ApprovedPrompts) = 1
    BY <2>1, <2>2
  <2>. QED BY <2>3
<1>3. \A S : Prompt(Req)!Cardinality(S) = Cardinality(S)
  BY DEF Prompt!Cardinality, Cardinality
<1>4. Prompt(Req)!OneActive
  BY <1>1, <1>2, <1>3 DEF Prompt!OneActive, SerialPrompts, OnePrompt
<1>5. Prompt(Req)!SeedingSuffices
  <2>. SUFFICES ASSUME NEW r \in Req, chats[r].at = "again"
                PROVE  Prompt(Req)!Active # nobody /\ policy
    BY DEF Prompt!SeedingSuffices
  <2>1. ApprovedPrompts # {} /\ policy = TRUE
    BY DEF SerialPrompts, ChatGoesOn, Seeding
  <2>2. Prompt(Req)!Active \in ApprovedPrompts
    BY <2>1, ActiveIsApproved DEF PromptInv
  <2>3. nobody \notin Prompts
    BY RecordsAssumption
  <2>. QED BY <2>1, <2>2, <2>3 DEF ApprovedPrompts
<1>. QED BY <1>4, <1>5

-----------------------------------------------------------------------------
(* Providers.  A call writes the columns it worked out; while it is the     *)
(* only one, the rows it leaves are known before it writes them.            *)

ModelColumns == {"provider", "status", "default", "fallback"}

ModelRow   == [provider: Providers \union {"none"}, status: {"absent", "enabled", "degraded"},
               default: BOOLEAN, fallback: Models \union {nobody}]
NoModelRow == [provider |-> "none", status |-> "absent", default |-> FALSE, fallback |-> nobody]

\* the models M, when the types in G have a default
Routed(M, G) ==
  /\ \A m \in Models : M[m].fallback # nobody =>
       /\ M[m].fallback \in Models /\ M[m].fallback # m
       /\ M[M[m].fallback].status # "absent" /\ TypeOf[M[m].fallback] = TypeOf[m]
  /\ \A m \in Models : M[m].default = TRUE => M[m].status = "enabled" /\ TypeOf[m] \in G
  /\ \A m, n \in Models :
       M[m].default = TRUE /\ M[n].default = TRUE /\ TypeOf[m] = TypeOf[n] => m = n
  /\ \A t \in G : \E m \in Models : M[m].default = TRUE /\ TypeOf[m] = t

ModelRows(M) ==
  /\ M \in [Models -> ModelRow]
  /\ \A m \in Models : M[m].status = "absent" => M[m] = NoModelRow

WrittenRows(sets) == [m \in Models |-> Providing!Written(m, sets)]

ProvidingInv ==
  /\ ModelRows(model) /\ Routed(model, routed)
  /\ updates = [r \in Req |-> updates[r]]
  /\ \A r \in Req : updates[r].open =>
       /\ ModelRows(WrittenRows(updates[r].sets))
       /\ Routed(WrittenRows(updates[r].sets), (routed \ updates[r].clears) \union updates[r].routes)

LEMMA ModelRowFields ==
  /\ \A x \in ModelRow : DOMAIN x = ModelColumns /\ x = [c \in ModelColumns |-> x[c]]
  /\ \A x : /\ x = [c \in ModelColumns |-> x[c]]
            /\ x.provider \in Providers \union {"none"} /\ x.status \in {"absent", "enabled", "degraded"}
            /\ x.default \in BOOLEAN /\ x.fallback \in Models \union {nobody}
            => x \in ModelRow
<1>1. \A x \in ModelRow : DOMAIN x = ModelColumns /\ x = [c \in ModelColumns |-> x[c]]
  BY DEF ModelRow, ModelColumns
<1>2. ASSUME NEW x, x = [c \in ModelColumns |-> x[c]],
             x.provider \in Providers \union {"none"}, x.status \in {"absent", "enabled", "degraded"},
             x.default \in BOOLEAN, x.fallback \in Models \union {nobody}
      PROVE  x \in ModelRow
  <2>1. x = [provider |-> x.provider, status |-> x.status, default |-> x.default,
             fallback |-> x.fallback]
    BY <1>2 DEF ModelColumns
  <2>. QED BY <1>2, <2>1 DEF ModelRow
<1>. QED BY <1>1, <1>2

Defaulted(E, b) == {<<d, "default", b>> : d \in E}

\* m has row in M, the models in E have the default b, and all else is as it was
Replaced(M, m, row, E, b) ==
  /\ M \in [Models -> ModelRow]
  /\ \A c \in ModelColumns : M[m][c] = row[c]
  /\ \A d \in Models \ {m} : \A c \in ModelColumns :
       M[d][c] = IF d \in E /\ c = "default" THEN b ELSE model[d][c]

\* The rows that Columns(m, row), and the default b for the models in E, leave.
LEMMA RowsWritten ==
  ASSUME model \in [Models -> ModelRow], NEW m \in Models, NEW row \in ModelRow,
         NEW E \in SUBSET (Models \ {m}), NEW b \in BOOLEAN,
         NEW S, S = Providing!Columns(m, row) \union Defaulted(E, b)
  PROVE  Replaced(WrittenRows(S), m, row, E, b)
<1>1. \A d \in Models : model[d] \in ModelRow /\ DOMAIN model[d] = ModelColumns
  BY ModelRowFields
<1>2. DOMAIN row = ModelColumns
  BY ModelRowFields
<1>3. \A w : w \in Providing!Columns(m, row) <=>
        \E c \in ModelColumns : row[c] # model[m][c] /\ w = <<m, c, row[c]>>
  BY <1>2 DEF Providing!Columns
<1>0. \A w : w \in S <=> w \in Providing!Columns(m, row) \/ \E e \in E : w = <<e, "default", b>>
  BY DEF Defaulted
<1>4. ASSUME NEW c \in ModelColumns
      PROVE  /\ (\E w \in S : w[1] = m /\ w[2] = c) <=> row[c] # model[m][c]
             /\ \A w \in S : w[1] = m /\ w[2] = c => w[3] = row[c]
  <2>1. ASSUME NEW w \in S, w[1] = m, w[2] = c
        PROVE  row[c] # model[m][c] /\ w[3] = row[c]
    <3>1. w \in Providing!Columns(m, row)
      BY <1>0, <2>1
    <3>. QED BY <1>3, <2>1, <3>1
  <2>2. ASSUME row[c] # model[m][c] PROVE \E w \in S : w[1] = m /\ w[2] = c
    <3>1. <<m, c, row[c]>> \in S
      BY <1>0, <1>3, <2>2
    <3>. QED BY <3>1
  <2>. QED BY <2>1, <2>2
<1>5. ASSUME NEW c \in ModelColumns PROVE Providing!Written(m, S)[c] = row[c]
  <2>1. Providing!Written(m, S)[c] =
          IF \E w \in S : w[1] = m /\ w[2] = c
          THEN (CHOOSE w \in S : w[1] = m /\ w[2] = c)[3] ELSE model[m][c]
    BY <1>1 DEF Providing!Written
  <2>. QED BY <1>4, <2>1
<1>6. ASSUME NEW d \in Models \ {m}, NEW c \in ModelColumns
      PROVE  /\ (\E w \in S : w[1] = d /\ w[2] = c) <=> d \in E /\ c = "default"
             /\ \A w \in S : w[1] = d /\ w[2] = c => w[3] = b
  <2>1. ASSUME NEW w \in S, w[1] = d, w[2] = c
        PROVE  d \in E /\ c = "default" /\ w[3] = b
    <3>1. w \notin Providing!Columns(m, row)
      BY <1>3, <2>1
    <3>2. PICK e \in E : w = <<e, "default", b>>
      BY <1>0, <3>1
    <3>. QED BY <2>1, <3>2
  <2>2. ASSUME d \in E, c = "default" PROVE \E w \in S : w[1] = d /\ w[2] = c
    <3>1. <<d, "default", b>> \in S
      BY <1>0, <2>2
    <3>. QED BY <2>2, <3>1
  <2>. QED BY <2>1, <2>2
<1>7. ASSUME NEW d \in Models \ {m}, NEW c \in ModelColumns
      PROVE  Providing!Written(d, S)[c] = IF d \in E /\ c = "default" THEN b ELSE model[d][c]
  <2>1. Providing!Written(d, S)[c] =
          IF \E w \in S : w[1] = d /\ w[2] = c
          THEN (CHOOSE w \in S : w[1] = d /\ w[2] = c)[3] ELSE model[d][c]
    BY <1>1 DEF Providing!Written
  <2>. QED BY <1>6, <2>1
<1>8. \A d \in Models : WrittenRows(S)[d] = Providing!Written(d, S)
  BY DEF WrittenRows
<1>9. ASSUME NEW d \in Models PROVE Providing!Written(d, S) \in ModelRow
  <2>0. PICK x : x = Providing!Written(d, S)
    OBVIOUS
  <2>1. x = [c \in ModelColumns |-> x[c]]
    BY <1>1, <2>0 DEF Providing!Written
  <2>2. "provider" \in ModelColumns /\ "status" \in ModelColumns /\ "default" \in ModelColumns
        /\ "fallback" \in ModelColumns
    BY DEF ModelColumns
  <2>3. \A y \in ModelRow :
          /\ y.provider \in Providers \union {"none"} /\ y.status \in {"absent", "enabled", "degraded"}
          /\ y.default \in BOOLEAN /\ y.fallback \in Models \union {nobody}
    BY DEF ModelRow
  <2>4. CASE d = m
    <3>1. x.provider = row.provider /\ x.status = row.status /\ x.default = row.default
          /\ x.fallback = row.fallback
      BY <1>5, <2>0, <2>2, <2>4
    <3>2. x \in ModelRow
      BY <2>1, <2>3, <3>1, ModelRowFields
    <3>. QED BY <2>0, <3>2
  <2>5. CASE d # m
    <3>1. /\ x.provider = model[d].provider /\ x.status = model[d].status
          /\ x.fallback = model[d].fallback /\ x.default \in {b, model[d].default}
      BY <1>7, <2>0, <2>2, <2>5
    <3>2. x \in ModelRow
      BY <1>1, <2>1, <2>3, <3>1, ModelRowFields
    <3>. QED BY <2>0, <3>2
  <2>. QED BY <2>4, <2>5
<1>10. WrittenRows(S) \in [Models -> ModelRow]
  BY <1>9 DEF WrittenRows
<1>. QED BY <1>5, <1>7, <1>8, <1>10 DEF Replaced

ReplacedFields(M, m, row, E, b) ==
  /\ M[m].status = row.status /\ M[m].default = row.default /\ M[m].fallback = row.fallback
  /\ \A d \in Models \ {m} :
       /\ M[d].status = model[d].status /\ M[d].fallback = model[d].fallback
       /\ M[d].default = IF d \in E THEN b ELSE model[d].default

\* The same by field, for rows that are there or stay as they were.
LEMMA FieldsWritten ==
  ASSUME ModelRows(model), NEW m \in Models, NEW row \in ModelRow, row.status # "absent",
         NEW E \in SUBSET (Models \ {m}), NEW b \in BOOLEAN,
         \A d \in E : model[d].status # "absent",
         NEW S, S = Providing!Columns(m, row) \union Defaulted(E, b)
  PROVE  /\ ModelRows(WrittenRows(S))
         /\ ReplacedFields(WrittenRows(S), m, row, E, b)
<1>1. PICK M : M = WrittenRows(S)
  OBVIOUS
<1>0. model \in [Models -> ModelRow]
  BY DEF ModelRows
<1>2. /\ M \in [Models -> ModelRow]
      /\ \A c \in ModelColumns : M[m][c] = row[c]
      /\ \A d \in Models \ {m} : \A c \in ModelColumns :
           M[d][c] = IF d \in E /\ c = "default" THEN b ELSE model[d][c]
  <2>1. Replaced(WrittenRows(S), m, row, E, b)
    BY <1>0, RowsWritten
  <2>. QED BY <1>1, <2>1 DEF Replaced
<1>3. /\ "status" \in ModelColumns /\ "default" \in ModelColumns /\ "fallback" \in ModelColumns
      /\ "provider" \in ModelColumns
  BY DEF ModelColumns
<1>4. /\ M[m].status = row.status /\ M[m].default = row.default /\ M[m].fallback = row.fallback
      /\ \A d \in Models \ {m} :
           /\ M[d].status = model[d].status /\ M[d].fallback = model[d].fallback
           /\ M[d].default = IF d \in E THEN b ELSE model[d].default
  BY <1>2, <1>3
<1>5. ASSUME NEW d \in Models, M[d].status = "absent" PROVE M[d] = NoModelRow
  <2>1. d # m /\ d \notin E /\ model[d].status = "absent"
    BY <1>4, <1>5
  <2>2. model[d] = NoModelRow
    BY <2>1 DEF ModelRows
  <2>3. \A c \in ModelColumns : M[d][c] = model[d][c]
    BY <1>2, <2>1
  <2>4. M[d] \in ModelRow /\ model[d] \in ModelRow
    BY <1>2 DEF ModelRows
  <2>5. M[d] = [c \in ModelColumns |-> M[d][c]] /\ model[d] = [c \in ModelColumns |-> model[d][c]]
    BY <2>4, ModelRowFields
  <2>. QED BY <2>2, <2>3, <2>5
<1>. QED BY <1>1, <1>2, <1>4, <1>5 DEF ModelRows, ReplacedFields

\* m takes row and the models in E the default b: which types then have one
HandsOver(m, row, E, b, G) ==
  \* m becomes the default of its type, and every other gives way
  \/ /\ row.default = TRUE /\ row.status = "enabled" /\ b = FALSE
     /\ E = {d \in Models \ {m} : model[d].default = TRUE /\ TypeOf[d] = TypeOf[m]}
     /\ G = routed \union {TypeOf[m]}
  \* m is none, or is no longer
  \/ /\ row.default = FALSE /\ E = {}
     /\ G = IF model[m].default = TRUE THEN routed \ {TypeOf[m]} ELSE routed
  \* another one takes over from m
  \/ /\ row.default = FALSE /\ model[m].default = TRUE /\ b = TRUE /\ G = routed
     /\ \E a \in Models \ {m} :
          E = {a} /\ TypeOf[a] = TypeOf[m] /\ model[a].status = "enabled"

FallsBack(m, row) ==
  row.fallback # nobody =>
    /\ row.fallback \in Models /\ row.fallback # m
    /\ model[row.fallback].status # "absent" /\ TypeOf[row.fallback] = TypeOf[m]

\* The rows that replace M, when m takes row and the models in E take b.
LEMMA RoutedAfter ==
  ASSUME ModelRows(model), Routed(model, routed), NEW m \in Models, NEW row \in ModelRow,
         row.status # "absent",
         FallsBack(m, row),
         NEW E \in SUBSET (Models \ {m}), NEW b \in BOOLEAN,
         NEW M, NEW G,
         ReplacedFields(M, m, row, E, b),
         HandsOver(m, row, E, b, G)
  PROVE  Routed(M, G)
<1>0. /\ \A d \in Models : model[d].default \in BOOLEAN
      /\ M[m].status = row.status /\ M[m].default = row.default /\ M[m].fallback = row.fallback
      /\ \A d \in Models \ {m} :
           /\ M[d].status = model[d].status /\ M[d].fallback = model[d].fallback
           /\ M[d].default = IF d \in E THEN b ELSE model[d].default
  BY DEF ModelRows, ModelRow, ReplacedFields
<1>1. ASSUME NEW n \in Models, M[n].fallback # nobody
      PROVE  /\ M[n].fallback \in Models /\ M[n].fallback # n
             /\ M[M[n].fallback].status # "absent" /\ TypeOf[M[n].fallback] = TypeOf[n]
  <2>1. /\ M[n].fallback \in Models /\ M[n].fallback # n
        /\ model[M[n].fallback].status # "absent" /\ TypeOf[M[n].fallback] = TypeOf[n]
    <3>1. CASE n = m
      BY <1>0, <1>1, <3>1 DEF FallsBack
    <3>2. CASE n # m
      BY <1>0, <1>1, <3>2 DEF Routed
    <3>. QED BY <3>1, <3>2
  <2>2. M[M[n].fallback].status # "absent"
    BY <1>0, <2>1
  <2>. QED BY <2>1, <2>2
<1>2. CASE /\ row.default = TRUE /\ row.status = "enabled" /\ b = FALSE
           /\ E = {d \in Models \ {m} : model[d].default = TRUE /\ TypeOf[d] = TypeOf[m]}
           /\ G = routed \union {TypeOf[m]}
  <2>1. \A d \in Models : M[d].default = TRUE <=>
          d = m \/ (model[d].default = TRUE /\ TypeOf[d] # TypeOf[m])
    BY <1>0, <1>2
  <2>2. \A d \in Models : M[d].default = TRUE => M[d].status = "enabled" /\ TypeOf[d] \in G
    BY <1>0, <1>2, <2>1 DEF Routed
  <2>3. \A d, e \in Models :
          M[d].default = TRUE /\ M[e].default = TRUE /\ TypeOf[d] = TypeOf[e] => d = e
    BY <2>1 DEF Routed
  <2>4. ASSUME NEW t \in G PROVE \E d \in Models : M[d].default = TRUE /\ TypeOf[d] = t
    <3>1. CASE t = TypeOf[m]
      BY <2>1, <3>1
    <3>2. CASE t # TypeOf[m]
      <4>1. PICK d \in Models : model[d].default = TRUE /\ TypeOf[d] = t
        BY <1>2, <3>2 DEF Routed
      <4>. QED BY <2>1, <3>2, <4>1
    <3>. QED BY <3>1, <3>2
  <2>. QED BY <1>1, <2>2, <2>3, <2>4 DEF Routed
<1>3. CASE /\ row.default = FALSE /\ E = {}
           /\ G = IF model[m].default = TRUE THEN routed \ {TypeOf[m]} ELSE routed
  <2>1. \A d \in Models : M[d].default = TRUE <=> d # m /\ model[d].default = TRUE
    BY <1>0, <1>3
  <2>2. ASSUME NEW d \in Models, M[d].default = TRUE
        PROVE  M[d].status = "enabled" /\ TypeOf[d] \in G
    <3>1. d # m /\ model[d].default = TRUE /\ model[d].status = "enabled" /\ TypeOf[d] \in routed
      BY <1>0, <2>1, <2>2 DEF Routed
    <3>2. model[m].default = TRUE => TypeOf[d] # TypeOf[m]
      BY <3>1 DEF Routed
    <3>. QED BY <1>0, <1>3, <3>1, <3>2
  <2>3. \A d, e \in Models :
          M[d].default = TRUE /\ M[e].default = TRUE /\ TypeOf[d] = TypeOf[e] => d = e
    BY <2>1 DEF Routed
  <2>4. ASSUME NEW t \in G PROVE \E d \in Models : M[d].default = TRUE /\ TypeOf[d] = t
    <3>1. t \in routed /\ (model[m].default = TRUE => t # TypeOf[m])
      BY <1>3
    <3>2. PICK d \in Models : model[d].default = TRUE /\ TypeOf[d] = t
      BY <3>1 DEF Routed
    <3>. QED BY <2>1, <3>1, <3>2
  <2>. QED BY <1>1, <2>2, <2>3, <2>4 DEF Routed
<1>4. ASSUME row.default = FALSE, model[m].default = TRUE, b = TRUE, G = routed,
             NEW a \in Models \ {m}, E = {a}, TypeOf[a] = TypeOf[m], model[a].status = "enabled"
      PROVE  Routed(M, G)
  <2>1. \A d \in Models : M[d].default = TRUE <=> d = a \/ (d # m /\ model[d].default = TRUE)
    BY <1>0, <1>4
  <2>2. \A d \in Models : d # m /\ model[d].default = TRUE => TypeOf[d] # TypeOf[m]
    BY <1>4 DEF Routed
  <2>3. ASSUME NEW d \in Models, M[d].default = TRUE
        PROVE  M[d].status = "enabled" /\ TypeOf[d] \in G
    <3>1. CASE d = a
      <4>1. TypeOf[m] \in routed
        BY <1>4 DEF Routed
      <4>. QED BY <1>0, <1>4, <3>1, <4>1
    <3>2. CASE d # a
      <4>1. d # m /\ model[d].default = TRUE /\ M[d].status = model[d].status
        BY <1>0, <1>4, <2>1, <2>3, <3>2
      <4>. QED BY <1>4, <4>1 DEF Routed
    <3>. QED BY <3>1, <3>2
  <2>4. \A d, e \in Models :
          M[d].default = TRUE /\ M[e].default = TRUE /\ TypeOf[d] = TypeOf[e] => d = e
    BY <1>4, <2>1, <2>2 DEF Routed
  <2>5. ASSUME NEW t \in G PROVE \E d \in Models : M[d].default = TRUE /\ TypeOf[d] = t
    <3>1. PICK d \in Models : model[d].default = TRUE /\ TypeOf[d] = t
      BY <1>4 DEF Routed
    <3>. QED BY <1>4, <2>1, <3>1
  <2>. QED BY <1>1, <2>3, <2>4, <2>5 DEF Routed
<1>. QED BY <1>2, <1>3, <1>4 DEF HandsOver

LEMMA ModelFacts ==
  ASSUME ModelRows(model)
  PROVE  /\ \A m \in Models : model[m] \in ModelRow
         /\ \A m \in Models : model[m] = Providing!NoRow <=> model[m].status = "absent"
         /\ \A t : Providing!Rows(t) = {m \in Models : model[m].status # "absent" /\ TypeOf[m] = t}
<1>1. Providing!NoRow = NoModelRow
  BY DEF Providing!NoRow, NoModelRow
<1>2. \A m \in Models : model[m] = NoModelRow <=> model[m].status = "absent"
  BY DEF ModelRows, NoModelRow
<1>. QED BY <1>1, <1>2 DEF ModelRows, Providing!Rows

\* A call works out the columns that replace the rows as RoutedAfter says.
LEMMA WritingKeeps ==
  ASSUME OneAtATime, ProvidingInv, NEW r \in Req, NEW S, NEW clears, NEW routes,
         Providing!Writing(r, S, clears, routes), UNCHANGED <<model, routed>>,
         ModelRows(WrittenRows(S)),
         Routed(WrittenRows(S), (routed \ clears) \union routes)
  PROVE  ProvidingInv'
<1>1. PICK t : t = [open |-> TRUE, sets |-> S, clears |-> clears, routes |-> routes]
  OBVIOUS
<1>2. updates' = [updates EXCEPT ![r] = t]
  BY <1>1 DEF Providing!Writing
<1>3. updates' = [q \in Req |-> updates'[q]] /\ \A q \in Req : updates'[q] = t
  <2>1. \A q \in Req : q = r
    BY DEF OneAtATime
  <2>2. updates = [q \in Req |-> updates[q]]
    BY DEF ProvidingInv
  <2>. QED BY <1>2, <2>1, <2>2
<1>4. t.sets = S /\ t.clears = clears /\ t.routes = routes
  BY <1>1
<1>5. WrittenRows(S)' = WrittenRows(S)
  BY DEF WrittenRows, Providing!Written
<1>6. ModelRows(model)' /\ Routed(model, routed)'
  BY DEF ProvidingInv, ModelRows, Routed
<1>7. ASSUME NEW q \in Req
      PROVE  /\ ModelRows(WrittenRows(updates[q].sets))'
             /\ Routed(WrittenRows(updates[q].sets), (routed \ updates[q].clears) \union updates[q].routes)'
  <2>1. WrittenRows(updates[q].sets)' = WrittenRows(S)
    BY <1>3, <1>4, <1>5
  <2>2. ((routed \ updates[q].clears) \union updates[q].routes)' = (routed \ clears) \union routes
    BY <1>3, <1>4
  <2>. QED BY <2>1, <2>2 DEF ModelRows, Routed
<1>. QED BY <1>3, <1>6, <1>7 DEF ProvidingInv

LEMMA ReplacedFits ==
  ASSUME ProvidingInv, NEW m \in Models, NEW row \in ModelRow, row.status # "absent",
         FallsBack(m, row), NEW E \in SUBSET (Models \ {m}), NEW b \in BOOLEAN, NEW G,
         \A d \in E : model[d].status # "absent", HandsOver(m, row, E, b, G),
         NEW S, S = Providing!Columns(m, row) \union Defaulted(E, b)
  PROVE  ModelRows(WrittenRows(S)) /\ Routed(WrittenRows(S), G)
<1>1. ModelRows(model) /\ Routed(model, routed)
  BY DEF ProvidingInv
<1>2. PICK M : M = WrittenRows(S)
  OBVIOUS
<1>3. ModelRows(M) /\ ReplacedFields(M, m, row, E, b)
  BY <1>1, <1>2, FieldsWritten
<1>4. Routed(M, G)
  BY <1>1, <1>3, RoutedAfter
<1>. QED BY <1>2, <1>3, <1>4

\* The columns of a new or changed row, when none other takes over.
LEMMA RowReplaced ==
  ASSUME ProvidingInv, NEW m \in Models, NEW row \in ModelRow, row.status # "absent",
         FallsBack(m, row), row.default = TRUE => row.status = "enabled",
         NEW G, G = IF row.default = TRUE THEN routed \union {TypeOf[m]}
                    ELSE IF model[m].default = TRUE THEN routed \ {TypeOf[m]} ELSE routed,
         NEW S, S = Providing!Columns(m, row) \union Providing!Cleared(m, row)
  PROVE  ModelRows(WrittenRows(S)) /\ Routed(WrittenRows(S), G)
<1>0. ModelRows(model) /\ row.default \in BOOLEAN
  BY DEF ProvidingInv, ModelRow
<1>1. CASE row.default = TRUE
  <2>1. PICK E \in SUBSET (Models \ {m}) :
          E = {d \in Models \ {m} : model[d].default = TRUE /\ TypeOf[d] = TypeOf[m]}
    OBVIOUS
  <2>2. Providing!Defaults(TypeOf[m]) \ {m} = E
    <3>1. \A d \in Models : model[d].default = TRUE => model[d].status # "absent"
      BY DEF ProvidingInv, Routed
    <3>2. \A d \in Models : model[d].default \in BOOLEAN
      BY <1>0 DEF ModelRows, ModelRow
    <3>. QED BY <1>0, <2>1, <3>1, <3>2, ModelFacts DEF Providing!Defaults
  <2>3. Providing!Cleared(m, row) = Defaulted(E, FALSE)
    BY <1>1, <2>2 DEF Providing!Cleared, Defaulted
  <2>4. \A d \in E : model[d].status # "absent"
    BY <2>1 DEF ProvidingInv, Routed
  <2>5. HandsOver(m, row, E, FALSE, G)
    BY <1>1, <2>1 DEF HandsOver
  <2>6. FALSE \in BOOLEAN
    OBVIOUS
  <2>7. S = Providing!Columns(m, row) \union Defaulted(E, FALSE)
    BY <2>3
  <2>. QED BY <2>4, <2>5, <2>6, <2>7, ReplacedFits
<1>2. CASE row.default = FALSE
  <2>1. Providing!Cleared(m, row) = {} /\ Defaulted({}, FALSE) = {}
    BY <1>2 DEF Providing!Cleared, Defaulted
  <2>2. HandsOver(m, row, {}, FALSE, G)
    BY <1>2 DEF HandsOver
  <2>3. S = Providing!Columns(m, row) \union Defaulted({}, FALSE)
    BY <2>1
  <2>. QED BY <2>2, <2>3, ReplacedFits
<1>. QED BY <1>0, <1>1, <1>2

LEMMA FallbackIsValid ==
  ASSUME ProvidingInv, NEW m \in Models, NEW row \in ModelRow,
         Providing!ValidFallback(m, row.fallback)
  PROVE  FallsBack(m, row)
<1>1. row.fallback \in Models \union {nobody} /\ ModelRows(model)
  BY DEF ModelRow, ProvidingInv
<1>. QED BY <1>1, ModelFacts DEF Providing!ValidFallback, FallsBack

LEMMA CreateModelKeeps ==
  ASSUME OneAtATime, ProvidingInv, NEW r \in Req, NEW m \in Models, NEW row \in ModelRow,
         row.status # "absent", Providing!CreateModel(r, m, row)
  PROVE  ProvidingInv'
<1>0. model[m].default = FALSE /\ row.default \in BOOLEAN
  BY DEF Providing!CreateModel, Providing!NoRow, ModelRow
<1>1. FallsBack(m, row) /\ (row.default = TRUE => row.status = "enabled")
  BY FallbackIsValid DEF Providing!CreateModel, Providing!MayBeDefault
<1>2. PICK S : S = Providing!Columns(m, row) \union Providing!Cleared(m, row)
  OBVIOUS
<1>3. PICK routes : routes = IF row.default THEN {TypeOf[m]} ELSE {}
  OBVIOUS
<1>4. (routed \ {}) \union routes =
        IF row.default = TRUE THEN routed \union {TypeOf[m]}
        ELSE IF model[m].default = TRUE THEN routed \ {TypeOf[m]} ELSE routed
  BY <1>0, <1>3
<1>5. ModelRows(WrittenRows(S)) /\ Routed(WrittenRows(S), (routed \ {}) \union routes)
  BY <1>1, <1>2, <1>4, RowReplaced
<1>6. Providing!Writing(r, S, {}, routes) /\ UNCHANGED <<model, routed>>
  BY <1>2, <1>3 DEF Providing!CreateModel
<1>. QED BY <1>5, <1>6, WritingKeeps

LEMMA ChangeModelKeeps ==
  ASSUME OneAtATime, ProvidingInv, NEW r \in Req, NEW m \in Models, NEW row \in ModelRow,
         row.status # "absent", Providing!ChangeModel(r, m, row), UNCHANGED <<model, routed>>
  PROVE  ProvidingInv'
<1>0. model[m].default \in BOOLEAN /\ row.default \in BOOLEAN
  BY DEF ProvidingInv, ModelRows, ModelRow
<1>1. FallsBack(m, row) /\ (row.default = TRUE => row.status = "enabled")
  BY FallbackIsValid DEF Providing!ChangeModel, Providing!MayBeDefault
<1>2. PICK S : S = Providing!Columns(m, row) \union Providing!Cleared(m, row)
  OBVIOUS
<1>3. PICK routes : routes = IF row.default THEN {TypeOf[m]} ELSE {}
  OBVIOUS
<1>4. PICK clears : clears = IF model[m].default /\ ~ row.default THEN {TypeOf[m]} ELSE {}
  OBVIOUS
<1>5. (routed \ clears) \union routes =
        IF row.default = TRUE THEN routed \union {TypeOf[m]}
        ELSE IF model[m].default = TRUE THEN routed \ {TypeOf[m]} ELSE routed
  BY <1>0, <1>3, <1>4
<1>6. ModelRows(WrittenRows(S)) /\ Routed(WrittenRows(S), (routed \ clears) \union routes)
  BY <1>1, <1>2, <1>5, RowReplaced
<1>7. Providing!Writing(r, S, clears, routes)
  BY <1>2, <1>3, <1>4 DEF Providing!ChangeModel
<1>. QED BY <1>6, <1>7, WritingKeeps

\* Whoever takes over is another enabled model of the type.
LEMMA DisableDefaultKeeps ==
  ASSUME OneAtATime, ProvidingInv, NEW r \in Req, NEW m \in Models, NEW row \in ModelRow,
         row.status # "absent", Providing!DisableDefault(r, m, row), UNCHANGED <<model, routed>>
  PROVE  ProvidingInv'
<1>0. model[m].default = TRUE /\ row.default = FALSE /\ ModelRows(model)
  BY DEF ProvidingInv, ModelRows, ModelRow, Providing!DisableDefault
<1>1. FallsBack(m, row)
  BY FallbackIsValid DEF Providing!DisableDefault
<1>2. PICK a \in Providing!Alternatives(m) :
        Providing!Writing(r, Providing!Columns(m, row) \union {<<a, "default", TRUE>>}, {}, {})
  BY DEF Providing!DisableDefault
<1>3. a \in Models \ {m} /\ TypeOf[a] = TypeOf[m] /\ model[a].status = "enabled"
  <2>1. CASE model[m].fallback # nobody /\ Providing!Usable(model[m].fallback)
    <3>1. a = model[m].fallback
      BY <1>2, <2>1 DEF Providing!Alternatives
    <3>. QED BY <2>1, <3>1 DEF ProvidingInv, Routed, Providing!Usable
  <2>2. CASE ~ (model[m].fallback # nobody /\ Providing!Usable(model[m].fallback))
    <3>1. a \in Providing!Rows(TypeOf[m]) \ {m} /\ Providing!Usable(a)
      BY <1>2, <2>2 DEF Providing!Alternatives
    <3>. QED BY <1>0, <3>1, ModelFacts DEF Providing!Usable
  <2>. QED BY <2>1, <2>2
<1>4. PICK S : S = Providing!Columns(m, row) \union {<<a, "default", TRUE>>}
  OBVIOUS
<1>5. S = Providing!Columns(m, row) \union Defaulted({a}, TRUE)
  BY <1>4 DEF Defaulted
<1>6. HandsOver(m, row, {a}, TRUE, routed)
  BY <1>0, <1>3 DEF HandsOver
<1>7. {a} \in SUBSET (Models \ {m}) /\ TRUE \in BOOLEAN /\ \A d \in {a} : model[d].status # "absent"
  BY <1>3
<1>8. ModelRows(WrittenRows(S)) /\ Routed(WrittenRows(S), routed)
  BY <1>1, <1>5, <1>6, <1>7, ReplacedFits
<1>9. (routed \ {}) \union {} = routed
  OBVIOUS
<1>10. ModelRows(WrittenRows(S)) /\ Routed(WrittenRows(S), (routed \ {}) \union {})
  BY <1>8, <1>9
<1>11. Providing!Writing(r, S, {}, {})
  BY <1>2, <1>4
<1>. QED BY <1>10, <1>11, WritingKeeps

LEMMA ProvidingStarts ==
  ASSUME Providing!Init
  PROVE  ProvidingInv
<1>1. /\ model = [m \in Models |-> NoModelRow] /\ routed = {}
      /\ updates = [r \in Req |-> Providing!Idle]
  BY DEF Providing!Init, Providing!NoRow, NoModelRow
<1>2. NoModelRow \in ModelRow /\ NoModelRow.default = FALSE /\ NoModelRow.fallback = nobody
  BY DEF NoModelRow, ModelRow
<1>3. ModelRows(model) /\ Routed(model, routed)
  BY <1>1, <1>2 DEF ModelRows, Routed
<1>4. Providing!Idle.open = FALSE
  BY DEF Providing!Idle
<1>. QED BY <1>1, <1>3, <1>4 DEF ProvidingInv

LEMMA ProvidingUnchanged ==
  ASSUME ProvidingInv, UNCHANGED <<model, updates, routed>>
  PROVE  ProvidingInv'
<1>0. /\ ModelRows(model) /\ Routed(model, routed)
      /\ updates = [q \in Req |-> updates[q]]
  BY DEF ProvidingInv
<1>1. UNCHANGED <<model, updates, routed>>
  OBVIOUS
<1>2. \A sets : WrittenRows(sets)' = WrittenRows(sets)
  BY <1>1 DEF WrittenRows, Providing!Written
<1>3. ModelRows(model)' /\ Routed(model, routed)'
  BY <1>0, <1>1 DEF ModelRows, Routed
<1>4. ASSUME NEW r \in Req, updates'[r].open
      PROVE  /\ ModelRows(WrittenRows(updates[r].sets))'
             /\ Routed(WrittenRows(updates[r].sets), (routed \ updates[r].clears) \union updates[r].routes)'
  <2>1. updates'[r] = updates[r]
    BY <1>1
  <2>2. /\ ModelRows(WrittenRows(updates[r].sets))
        /\ Routed(WrittenRows(updates[r].sets), (routed \ updates[r].clears) \union updates[r].routes)
    BY <1>4, <2>1 DEF ProvidingInv
  <2>3. PICK S : S = updates[r].sets /\ WrittenRows(updates[r].sets)' = WrittenRows(S)
    BY <1>2, <2>1
  <2>4. ((routed \ updates[r].clears) \union updates[r].routes)' =
          (routed \ updates[r].clears) \union updates[r].routes
    BY <1>1
  <2>5. ModelRows(WrittenRows(updates[r].sets))'
    BY <2>2, <2>3 DEF ModelRows
  <2>6. Routed(WrittenRows(updates[r].sets), (routed \ updates[r].clears) \union updates[r].routes)'
    BY <2>2, <2>3, <2>4 DEF Routed
  <2>. QED BY <2>5, <2>6
<1>. QED BY <1>0, <1>1, <1>3, <1>4 DEF ProvidingInv

LEMMA ProvidingStep ==
  ASSUME OneAtATime, ProvidingInv, Providing!Next
  PROVE  ProvidingInv'
<1>0. /\ ModelRows(model) /\ Routed(model, routed)
      /\ updates = [q \in Req |-> updates[q]]
  BY DEF ProvidingInv
<1>1. ASSUME NEW p \in Providers, NEW status \in Providing!ProviderStatuses,
             Providing!SetProvider(p, status)
      PROVE  ProvidingInv'
  <2>1. UNCHANGED <<model, updates, routed>>
    BY <1>1 DEF Providing!SetProvider
  <2>. QED BY <2>1, ProvidingUnchanged
<1>2. ASSUME NEW r \in Req, NEW m \in Models, NEW p \in Providers,
             NEW status \in Providing!ProviderStatuses, NEW on \in BOOLEAN,
             NEW f \in Models \union {nobody}, NEW row,
             row = [provider |-> p, status |-> status, default |-> on, fallback |-> f],
             Providing!CreateModel(r, m, row) \/ Providing!UpdateModel(r, m, row)
      PROVE  ProvidingInv'
  <2>1. row \in ModelRow /\ row.status # "absent"
    BY <1>2 DEF ModelRow, Providing!ProviderStatuses
  <2>2. CASE Providing!CreateModel(r, m, row)
    BY <2>1, <2>2, CreateModelKeeps
  <2>3. CASE Providing!UpdateModel(r, m, row)
    <3>1. UNCHANGED <<model, routed>>
      BY <2>3 DEF Providing!UpdateModel
    <3>. QED BY <2>1, <2>3, <3>1, ChangeModelKeeps, DisableDefaultKeeps DEF Providing!UpdateModel
  <2>. QED BY <1>2, <2>2, <2>3
<1>3. ASSUME NEW r \in Req, updates' = [updates EXCEPT ![r] = Providing!Idle],
             ModelRows(model)', Routed(model, routed)'
      PROVE  ProvidingInv'
  <2>1. Providing!Idle.open = FALSE
    BY DEF Providing!Idle
  <2>2. updates' = [q \in Req |-> updates'[q]] /\ \A q \in Req : ~ updates'[q].open
    <3>1. \A q \in Req : q = r
      BY DEF OneAtATime
    <3>2. updates'[r] = Providing!Idle
      BY <1>0, <1>3
    <3>. QED BY <1>0, <1>3, <2>1, <3>1, <3>2
  <2>. QED BY <1>3, <2>2 DEF ProvidingInv
<1>4. ASSUME NEW r \in Req, Providing!Commit(r) PROVE ProvidingInv'
  <2>1. /\ ModelRows(WrittenRows(updates[r].sets))
        /\ Routed(WrittenRows(updates[r].sets), (routed \ updates[r].clears) \union updates[r].routes)
    BY <1>4 DEF ProvidingInv, Providing!Commit
  <2>2. /\ model' = WrittenRows(updates[r].sets)
        /\ routed' = (routed \ updates[r].clears) \union updates[r].routes
        /\ updates' = [updates EXCEPT ![r] = Providing!Idle]
    BY <1>4 DEF Providing!Commit, WrittenRows
  <2>3. ModelRows(model)' /\ Routed(model, routed)'
    BY <2>1, <2>2 DEF ModelRows, Routed
  <2>. QED BY <1>3, <2>2, <2>3
<1>5. ASSUME NEW r \in Req, Providing!Abort(r) PROVE ProvidingInv'
  <2>1. updates' = [updates EXCEPT ![r] = Providing!Idle] /\ UNCHANGED <<model, routed>>
    BY <1>5 DEF Providing!Abort
  <2>2. ModelRows(model)' /\ Routed(model, routed)'
    BY <1>0, <2>1 DEF ModelRows, Routed
  <2>. QED BY <1>3, <2>1, <2>2
<1>. QED BY <1>1, <1>2, <1>4, <1>5 DEF Providing!Next

LEMMA ProvidingHolds ==
  ASSUME ProvidingInv
  PROVE  Providing!RouteKept /\ Providing!FallbackFits
<1>0. ModelRows(model) /\ Routed(model, routed)
  BY DEF ProvidingInv
<1>1. \A t : Providing!Defaults(t) = {m \in Models : model[m].default = TRUE /\ TypeOf[m] = t}
  <2>1. \A m \in Models : model[m].default \in BOOLEAN
    BY <1>0 DEF ModelRows, ModelRow
  <2>. QED BY <1>0, <2>1, ModelFacts DEF Providing!Defaults, Routed
<1>2. \A S : Providing!Cardinality(S) = Cardinality(S)
  BY DEF Providing!Cardinality, Cardinality
<1>3. Providing!RouteKept
  <2>. SUFFICES ASSUME NEW t \in Providing!Types
                PROVE  /\ Providing!Cardinality(Providing!Defaults(t)) = IF t \in routed THEN 1 ELSE 0
                       /\ \A m \in Providing!Defaults(t) : model[m].status = "enabled"
    BY DEF Providing!RouteKept
  <2>1. CASE t \in routed
    <3>1. PICK m \in Models : model[m].default = TRUE /\ TypeOf[m] = t
      BY <1>0, <2>1 DEF Routed
    <3>2. Providing!Defaults(t) = {m}
      BY <1>0, <1>1, <3>1 DEF Routed
    <3>3. Cardinality({m}) = 1
      BY FS_Singleton
    <3>. QED BY <1>0, <1>1, <1>2, <2>1, <3>2, <3>3 DEF Routed
  <2>2. CASE t \notin routed
    <3>1. Providing!Defaults(t) = {}
      BY <1>0, <1>1, <2>2 DEF Routed
    <3>. QED BY <1>2, <2>2, <3>1, FS_EmptySet
  <2>. QED BY <2>1, <2>2
<1>4. Providing!FallbackFits
  BY <1>0, ModelFacts DEF Routed, Providing!FallbackFits
<1>. QED BY <1>3, <1>4

-----------------------------------------------------------------------------
(* What a chat needs: the prompt and the default models.                   *)

ChatFollows ==
  /\ subject = "prompt"         => PromptInv(Req) /\ SerialPrompts
  /\ subject = "racing prompts" => PromptInv(Calls)
  /\ subject = "providers"      => ProvidingInv

LEMMA ConfigurationSteps ==
  ASSUME [RecordsNext]_recordsVars
  PROVE  /\ UNCHANGED subject
         /\ PromptNext \/ UNCHANGED promptVars
         /\ (subject = "providers" /\ Providing!Next) \/ UNCHANGED providerVars
BY DEF RecordsNext, recordsVars, Others

LEMMA ChatStarts == RecordsInit => ChatFollows
<1>. SUFFICES ASSUME RecordsInit PROVE ChatFollows
  OBVIOUS
<1>1. CASE subject = "prompt"
  <2>1. Prompt(Req)!Init
    BY <1>1 DEF RecordsInit
  <2>. QED BY <1>1, <2>1, PromptStarts, SerialPromptsStart DEF ChatFollows
<1>2. CASE subject = "racing prompts"
  <2>1. Prompt(Calls)!Init
    BY <1>2 DEF RecordsInit
  <2>. QED BY <1>2, <2>1, PromptStarts DEF ChatFollows
<1>3. ProvidingInv
  BY ProvidingStarts DEF RecordsInit
<1>. QED BY <1>1, <1>2, <1>3 DEF ChatFollows

LEMMA PromptUnchanged ==
  ASSUME UNCHANGED promptVars
  PROVE  /\ \A R : PromptInv(R) => PromptInv(R)'
         /\ SerialPrompts => SerialPrompts'
<1>1. /\ UNCHANGED <<prompt, policy, begun, chats>>
      /\ ApprovedPrompts' = ApprovedPrompts
  BY DEF promptVars, ApprovedPrompts
<1>2. ASSUME NEW R, PromptInv(R) PROVE PromptInv(R)'
  <2>1. policy' \in BOOLEAN /\ begun' \in Nat /\ chats' \in [R -> ChatCall]
    BY <1>1, <1>2 DEF PromptInv
  <2>. QED BY <1>1, <1>2, <2>1, DraftsOnly
<1>3. SerialPrompts => SerialPrompts'
  BY <1>1 DEF SerialPrompts, OnePrompt, ChatGoesOn, Seeding
<1>. QED BY <1>2, <1>3

LEMMA ChatStep ==
  ASSUME OneAtATime, ChatFollows, [RecordsNext]_recordsVars
  PROVE  ChatFollows'
<1>1. /\ UNCHANGED subject
      /\ PromptNext \/ UNCHANGED promptVars
      /\ (subject = "providers" /\ Providing!Next) \/ UNCHANGED providerVars
  BY ConfigurationSteps
<1>2. ASSUME subject = "prompt" PROVE PromptInv(Req)' /\ SerialPrompts'
  <2>1. PromptInv(Req) /\ SerialPrompts
    BY <1>2 DEF ChatFollows
  <2>2. CASE Prompt(Req)!Next
    BY <2>1, <2>2, PromptStep, SerialPromptStep
  <2>3. CASE UNCHANGED promptVars
    BY <2>1, <2>3, PromptUnchanged
  <2>. QED BY <1>1, <1>2, <2>2, <2>3 DEF PromptNext
<1>3. ASSUME subject = "racing prompts" PROVE PromptInv(Calls)'
  <2>1. PromptInv(Calls)
    BY <1>3 DEF ChatFollows
  <2>2. CASE Prompt(Calls)!Next
    BY <2>1, <2>2, PromptStep
  <2>3. CASE UNCHANGED promptVars
    BY <2>1, <2>3, PromptUnchanged
  <2>. QED BY <1>1, <1>3, <2>2, <2>3 DEF PromptNext
<1>4. ASSUME subject = "providers" PROVE ProvidingInv'
  <2>1. ProvidingInv
    BY <1>4 DEF ChatFollows
  <2>2. CASE Providing!Next
    BY <2>1, <2>2, ProvidingStep
  <2>3. CASE UNCHANGED providerVars
    BY <2>1, <2>3, ProvidingUnchanged DEF providerVars
  <2>. QED BY <1>1, <2>2, <2>3
<1>. QED BY <1>1, <1>2, <1>3, <1>4 DEF ChatFollows

\* However approvals, rollbacks and seeding overlap, no answer is built on a
\* draft of the prompt, and no more versions are approved than calls overlapped;
\* one call at a time there is one, seeding provides what a chat needs, a type
\* that was given a default model keeps one, and a fallback is another model of
\* its type (prompt_registry.py, provider_admin.py).
THEOREM ChatConfigured ==
  ASSUME OneAtATime
  PROVE  RecordsSpec => []ChatStaysConfigured
<1>1. ChatFollows /\ [RecordsNext]_recordsVars => ChatFollows'
  BY ChatStep
<1>2. ChatFollows => ChatStaysConfigured
  <2>1. IsFiniteSet(Req) /\ IsFiniteSet(Calls)
    BY RecordsAssumption
  <2>. QED BY <2>1, PromptsHold, SerialPromptsHold, ProvidingHolds
       DEF ChatFollows, ChatStaysConfigured
<1>. QED BY ChatStarts, <1>1, <1>2, PTL DEF RecordsSpec

=============================================================================
