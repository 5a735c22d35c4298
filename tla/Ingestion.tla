----------------------------- MODULE Ingestion -----------------------------
(***************************************************************************)
(* The way of a file into the corpus: sources and licences (sources.py,    *)
(* licenses.py), the upload of an object and its row, the malware scan and *)
(* the gates behind it (documents.py, storage.py, malware_scanning.py).    *)
(* A call reads in its first step; the object store is not part of its     *)
(* transaction.  A content is infected or not once and for all.            *)
(***************************************************************************)
EXTENDS Integers, FiniteSets

CONSTANTS
  Req,        \* the calls that may be in flight at the same time
  Sources, Licences, Documents,  \* the ids the tables may get (bounds)
  Contents,   \* the files that are uploaded
  Infected,   \* those that contain a signature
  NoSource, NoContent

VARIABLES
  source,    \* sources: is_active
  licence,   \* source_licenses: its source, and whether it allows ingestion
  document,  \* documents, each with its one version
  objects,   \* the keys in the object store, named by their document
  incident,  \* the documents an incident names
  found,     \* history: documents the scanner found infected
  lost,      \* history: documents whose upload the program could not finish
  unanswered,  \* history: documents whose commit took effect and raised
  parsed,    \* history: documents whose bytes were handed to a parser
  txn        \* the calls in flight

vars == <<source, licence, document, objects, incident, found, lost, unanswered, parsed, txn>>

-----------------------------------------------------------------------------
NoLicence  == [source |-> NoSource, allows |-> FALSE]
NoDocument == [content |-> NoContent, review |-> "absent", version |-> "absent",
               scan |-> "absent"]

Registered(c) ==
  [content |-> c, review |-> "draft", version |-> "uploaded", scan |-> "pending"]

Idle == [call |-> "none"]

Free(r) == txn[r] = Idle

Rows == {d \in Documents : document[d] # NoDocument}

InFlight(d) == \E r \in Req : txn[r].call \in {"upload", "stored", "undoing"} /\ txn[r].doc = d

-----------------------------------------------------------------------------
(* Sources and licences.  Nothing activates a suspended source again, and  *)
(* a replacement leaves the licence it replaces as it is.                  *)

CreateSource(s, active) ==
  /\ source[s] = "absent"
  /\ source' = [source EXCEPT ![s] = IF active THEN "active" ELSE "suspended"]
  /\ UNCHANGED <<licence, document, objects, incident, found, lost, unanswered, parsed, txn>>

SuspendSource(s) ==
  /\ source[s] = "active"
  /\ source' = [source EXCEPT ![s] = "suspended"]
  /\ UNCHANGED <<licence, document, objects, incident, found, lost, unanswered, parsed, txn>>

CreateLicence(l, s, allows) ==
  /\ source[s] # "absent"
  /\ licence[l] = NoLicence
  /\ licence' = [licence EXCEPT ![l] = [source |-> s, allows |-> allows]]
  /\ UNCHANGED <<source, document, objects, incident, found, lost, unanswered, parsed, txn>>

ReplaceLicence(old, l, allows) ==
  /\ licence[old] # NoLicence /\ licence[l] = NoLicence
  /\ licence' = [licence EXCEPT ![l] = [source |-> licence[old].source, allows |-> allows]]
  /\ UNCHANGED <<source, document, objects, incident, found, lost, unanswered, parsed, txn>>

\* today passes valid_until
LicenceEnds(l) ==
  /\ licence[l].allows
  /\ licence' = [licence EXCEPT ![l].allows = FALSE]
  /\ UNCHANGED <<source, document, objects, incident, found, lost, unanswered, parsed, txn>>

-----------------------------------------------------------------------------
(* register_upload                                                         *)

NotUploaded(c) == \A d \in Rows : document[d].content # c

StartUpload(r, s, l, d, c) ==
  /\ Free(r)
  /\ source[s] = "active"
  /\ licence[l].source = s /\ licence[l].allows
  /\ NotUploaded(c)
  /\ d \notin Rows /\ d \notin lost /\ ~ InFlight(d)
  /\ txn' = [txn EXCEPT ![r] = [call |-> "upload", doc |-> d, content |-> c]]
  /\ UNCHANGED <<source, licence, document, objects, incident, found, lost, unanswered, parsed>>

PutObject(r) ==
  /\ txn[r].call = "upload"
  /\ objects' = objects \union {txn[r].doc}
  /\ txn' = [txn EXCEPT ![r].call = "stored"]
  /\ UNCHANGED <<source, licence, document, incident, found, lost, unanswered, parsed>>

\* the answer of the store is an error: the object may be there or not
PutFails(r) ==
  /\ txn[r].call = "upload"
  /\ \/ UNCHANGED objects
     \/ objects' = objects \union {txn[r].doc}
  /\ lost' = lost \union {txn[r].doc}
  /\ txn' = [txn EXCEPT ![r] = Idle]
  /\ UNCHANGED <<source, licence, document, incident, found, unanswered, parsed>>

\* seeded fault: the row does not wait for the object
CommitUploadFirst(r) ==
  /\ txn[r].call \in {"upload", "stored"}
  /\ document' = [document EXCEPT ![txn[r].doc] = Registered(txn[r].content)]
  /\ txn' = [txn EXCEPT ![r] = Idle]
  /\ UNCHANGED <<source, licence, objects, incident, found, lost, unanswered, parsed>>

CommitUpload(r) ==
  /\ txn[r].call = "stored"
  /\ document' = [document EXCEPT ![txn[r].doc] = Registered(txn[r].content)]
  /\ txn' = [txn EXCEPT ![r] = Idle]
  /\ UNCHANGED <<source, licence, objects, incident, found, lost, unanswered, parsed>>

\* an exception of commit() does not tell whether the row is there: the answer
\* of the database may be what was lost
CommitFails(r) ==
  LET d == txn[r].doc
  IN  /\ txn[r].call = "stored"
      /\ \/ UNCHANGED <<document, unanswered>>
         \/ /\ document' = [document EXCEPT ![d] = Registered(txn[r].content)]
            /\ unanswered' = unanswered \union {d}
      /\ txn' = [txn EXCEPT ![r].call = "undoing"]
      /\ UNCHANGED <<source, licence, objects, incident, found, lost, parsed>>

\* either way the object is deleted, unless that fails too
UndoPut(r) ==
  /\ txn[r].call = "undoing"
  /\ \/ objects' = objects \ {txn[r].doc} /\ UNCHANGED lost
     \/ lost' = lost \union {txn[r].doc} /\ UNCHANGED objects
  /\ txn' = [txn EXCEPT ![r] = Idle]
  /\ UNCHANGED <<source, licence, document, incident, found, unanswered, parsed>>

\* the process ends: the transaction is rolled back, the object is left
Crash(r) ==
  /\ ~ Free(r)
  /\ IF txn[r].call = "scan" THEN UNCHANGED <<objects, lost>>
     ELSE /\ objects' \in {objects, objects \union {txn[r].doc}}
          /\ lost' = lost \union {txn[r].doc}
  /\ txn' = [txn EXCEPT ![r] = Idle]
  /\ UNCHANGED <<source, licence, document, incident, found, unanswered, parsed>>

-----------------------------------------------------------------------------
(* scan_document_version and the gates that ask for its verdict.  While    *)
(* the scanner is unavailable the call only writes an audit record.        *)

NotScanned(d) == document[d].scan = "pending"

StartScan(r, d) ==
  /\ Free(r)
  /\ d \in Rows /\ NotScanned(d)
  /\ d \in objects
  /\ txn' = [txn EXCEPT ![r] = [call |-> "scan", doc |-> d]]
  /\ UNCHANGED <<source, licence, document, objects, incident, found, lost, unanswered, parsed>>

\* the columns of incidents that may not be null and have no default, and
\* those the call gives a value
IncidentNotNull == {"severity", "summary", "opened_by", "idempotency_key", "policy_version"}
IncidentGiven   == {"severity", "summary", "opened_by"}

CleanScan(r) ==
  /\ txn[r].call = "scan" /\ document[txn[r].doc].content \notin Infected
  /\ document' = [document EXCEPT ![txn[r].doc].scan = "clean",
                                  ![txn[r].doc].version = "scanned_clean"]
  /\ txn' = [txn EXCEPT ![r] = Idle]
  /\ UNCHANGED <<source, licence, objects, incident, found, lost, unanswered, parsed>>

\* one transaction opens the incident and rejects the document: when the
\* database refuses the incident, nothing of it is kept
InfectedScan(r) ==
  LET d == txn[r].doc
  IN  /\ txn[r].call = "scan" /\ document[d].content \in Infected
      /\ IF IncidentNotNull \subseteq IncidentGiven
         THEN /\ document' = [document EXCEPT ![d].scan = "infected", ![d].version = "rejected",
                                              ![d].review = "rejected"]
              /\ incident' = incident \union {d}
         ELSE UNCHANGED <<document, incident>>
      /\ found' = found \union {d}
      /\ txn' = [txn EXCEPT ![r] = Idle]
      /\ UNCHANGED <<source, licence, objects, lost, unanswered, parsed>>

ParserAllowed(d) == document[d].scan = "clean"

\* the endpoint reads the bytes in a second transaction
Parse(d) ==
  /\ d \in Rows /\ ParserAllowed(d)
  /\ d \in objects
  /\ parsed' = parsed \union {d}
  /\ UNCHANGED <<source, licence, document, objects, incident, found, lost, unanswered, txn>>

\* review_tasks.py: what may come before a reviewer
StartReview(d) ==
  /\ document[d].version \in {"scanned_clean", "parsed"}
  /\ document[d].review \in {"draft", "revision_requested"}
  /\ document' = [document EXCEPT ![d].review = "in_review"]
  /\ UNCHANGED <<source, licence, objects, incident, found, lost, unanswered, parsed, txn>>

-----------------------------------------------------------------------------
Init ==
  /\ source = [s \in Sources |-> "absent"]
  /\ licence = [l \in Licences |-> NoLicence]
  /\ document = [d \in Documents |-> NoDocument]
  /\ objects = {} /\ lost = {} /\ unanswered = {} /\ parsed = {}
  /\ incident = {} /\ found = {}
  /\ txn = [r \in Req |-> Idle]

Administration ==
  \/ \E s \in Sources : SuspendSource(s) \/ \E on \in BOOLEAN : CreateSource(s, on)
  \/ \E l \in Licences, allows \in BOOLEAN :
       \/ \E s \in Sources : CreateLicence(l, s, allows)
       \/ \E old \in Licences : ReplaceLicence(old, l, allows)
  \/ \E l \in Licences : LicenceEnds(l)

Upload(r) ==
  \/ \E s \in Sources, l \in Licences, d \in Documents, c \in Contents :
       StartUpload(r, s, l, d, c)
  \/ PutObject(r) \/ PutFails(r) \/ CommitUpload(r) \/ CommitFails(r)
  \/ UndoPut(r)
  \/ \E d \in Documents : StartScan(r, d)
  \/ CleanScan(r) \/ InfectedScan(r)
  \/ Crash(r)

Next ==
  \/ Administration
  \/ \E r \in Req : Upload(r)
  \/ \E d \in Documents : Parse(d) \/ StartReview(d)

Spec == Init /\ [][Next]_vars

-----------------------------------------------------------------------------
(* Properties.                                                             *)

\* Whatever fails between the store and the database, a committed version can
\* be read back, unless the answer to its commit was lost: register_upload takes
\* any exception of commit() for a failure and deletes the object.
VersionsHaveObjects == Rows \subseteq objects \union unanswered

\* An object that no row and no upload in flight names is the remainder of a
\* crash, of a failed deletion or of an error answered for a put: an ordinary
\* failed commit leaves none behind.
OrphansAreLost ==
  \A d \in objects : d \in Rows \/ InFlight(d) \/ d \in lost

\* Nothing infected or unscanned reaches a parser or a reviewer, whatever
\* scans overlap.
ReviewedIsClean ==
  \A d \in Rows : d \in parsed \/ document[d].review = "in_review" =>
    document[d].scan = "clean" /\ document[d].content \notin Infected

\* test_infected_scan_creates_incident_and_blocks_parser: an infection that was
\* found is reported by an incident, and its document rejected.
InfectionsAreReported ==
  \A d \in found : d \in incident /\ document[d].scan = "infected"

\* While uploads do not overlap, a content is registered once.
OneRowPerContent ==
  \A d, e \in Rows : document[d].content = document[e].content => d = e

=============================================================================
