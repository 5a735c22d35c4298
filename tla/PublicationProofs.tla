------------------------- MODULE PublicationProofs -------------------------
(***************************************************************************)
(* Proofs about Publication, however calls overlap: what holds while the   *)
(* document has one version, and what only a call that was overtaken can   *)
(* break when it has several.                                              *)
(***************************************************************************)
EXTENDS Publication, TLAPS

-----------------------------------------------------------------------------
(* What a call carries of a row, and what it leaves of one.                *)

LEMMA DocAssigned ==
  ASSUME NEW old \in DocRow, NEW new \in DocRow
  PROVE  /\ Changed(old, new) \in SUBSET {"status", "published"}
         /\ Assigned(old, new, BlankDoc) \in DocRow
         /\ new.status # old.status =>
              "status" \in Changed(old, new) /\ Assigned(old, new, BlankDoc).status = new.status
         /\ new.published # old.published =>
              /\ "published" \in Changed(old, new)
              /\ Assigned(old, new, BlankDoc).published = new.published
         /\ "status" \in Changed(old, new) => new.status # old.status
         /\ "published" \in Changed(old, new) => new.published # old.published
<1>1. Changed(old, new) \in SUBSET {"status", "published"}
  BY DEF Changed, DocRow
<1>2. Assigned(old, new, BlankDoc) \in DocRow
  BY DEF Assigned, DocRow, BlankDoc, DocStatuses
<1>. QED BY <1>1, <1>2 DEF Changed, Assigned, DocRow

LEMMA DocFlushed ==
  ASSUME NEW row \in DocRow, NEW changed \in SUBSET {"status", "published"}, NEW new \in DocRow
  PROVE  /\ Flush(row, changed, new) \in DocRow
         /\ Flush(row, changed, new).status =
              IF "status" \in changed THEN new.status ELSE row.status
         /\ Flush(row, changed, new).published =
              IF "published" \in changed THEN new.published ELSE row.published
<1>1. Flush(row, changed, new) \in DocRow
  BY DEF Flush, DocRow
<1>. QED BY <1>1 DEF Flush, DocRow

Columns == {"status", "frozen", "risk", "chunks", "citation"}

LEMMA VerAssigned ==
  ASSUME NEW old \in VerRow, NEW new \in VerRow
  PROVE  /\ Changed(old, new) \in SUBSET Columns
         /\ Assigned(old, new, BlankVer) \in VerRow
         /\ \A c \in Columns : c \in Changed(old, new) <=> new[c] # old[c]
         /\ \A c \in Changed(old, new) : Assigned(old, new, BlankVer)[c] = new[c]
<1>1. DOMAIN old = Columns /\ DOMAIN new = Columns
  BY DEF VerRow, Columns
<1>2. /\ \A c \in Columns : c \in Changed(old, new) <=> new[c] # old[c]
      /\ \A c \in Changed(old, new) : Assigned(old, new, BlankVer)[c] = new[c]
      /\ \A c \in Columns : Assigned(old, new, BlankVer)[c] \in {new[c], BlankVer[c]}
  BY <1>1 DEF Changed, Assigned
<1>3. Assigned(old, new, BlankVer) \in VerRow
  <2>. DEFINE row == Assigned(old, new, BlankVer)
  <2>1. /\ row["status"] \in DocStatuses \union {"parsed"}
        /\ row["risk"] \in Risks \union {"none"}
        /\ row["chunks"] \in {"none", "hidden", "visible"}
        /\ row["citation"] \in {"none", "active", "invalid"}
    BY <1>2 DEF VerRow, BlankVer, Columns
  <2>2. row["frozen"] \in BOOLEAN
    <3>1. new["frozen"] \in BOOLEAN
      BY DEF VerRow
    <3>2. BlankVer["frozen"] = FALSE
      BY DEF BlankVer
    <3>3. row["frozen"] \in {new["frozen"], BlankVer["frozen"]}
      BY <1>2 DEF Columns
    <3>. QED BY <3>1, <3>2, <3>3, Zenon
  <2>3. row = [c \in Columns |-> row[c]]
    BY <1>1 DEF Assigned
  <2>. HIDE DEF row
  <2>4. row = [status |-> row["status"], frozen |-> row["frozen"], risk |-> row["risk"],
               chunks |-> row["chunks"], citation |-> row["citation"]]
    BY <2>3 DEF Columns
  <2>. QED BY <2>1, <2>2, <2>4 DEF VerRow, row
<1>. QED BY <1>1, <1>2, <1>3 DEF Changed

LEMMA VerFlushed ==
  ASSUME NEW row \in VerRow, NEW changed \in SUBSET Columns, NEW new \in VerRow
  PROVE  /\ Flush(row, changed, new) \in VerRow
         /\ \A c \in Columns : Flush(row, changed, new)[c] = IF c \in changed THEN new[c] ELSE row[c]
<1>1. DOMAIN row = Columns
  BY DEF VerRow, Columns
<1>2. Flush(row, changed, new) \in VerRow
  BY DEF Flush, VerRow, Columns
<1>. QED BY <1>1, <1>2 DEF Flush

LEMMA VerFields ==
  ASSUME NEW row \in VerRow
  PROVE  /\ row.status \in DocStatuses \union {"parsed"}
         /\ row.frozen \in BOOLEAN
         /\ row.risk \in Risks \union {"none"}
         /\ row.chunks \in {"none", "hidden", "visible"}
         /\ row.citation \in {"none", "active", "invalid"}
         /\ row["status"] = row.status /\ row["frozen"] = row.frozen
         /\ row["chunks"] = row.chunks
BY DEF VerRow

-----------------------------------------------------------------------------
(* What the operations set out to do.                                      *)

\* what an operation that begins now is going to leave, and the versions whose
\* chunks it replaces
Effect(newDoc, newVer, replaces) ==
  \/ \E v \in Versions, risk \in Risks :
       /\ CanPublish(v, risk)
       /\ newDoc = [status |-> "published", published |-> v]
       /\ newVer = [ver EXCEPT ![v] = PublishedRow(@, risk)]
       /\ replaces = IF ver[v].chunks = "none" THEN {} ELSE {v}
  \/ /\ doc.status = "published" /\ doc.published # NoVersion
     /\ newDoc = [doc EXCEPT !.status = "suspended"]
     /\ newVer = Retired(doc.published, "suspended")
     /\ replaces = {}
  \/ /\ doc.status \in {"published", "suspended"}
     /\ newDoc = [status |-> "archived", published |-> NoVersion]
     /\ newVer = Retired(doc.published, "archived")
     /\ replaces = {}
  \/ \E v \in Versions :
       /\ CanRollback(v)
       /\ newDoc = [status |-> "published", published |-> v]
       /\ newVer = [Retired(doc.published, "suspended") EXCEPT
                      ![v] = [@ EXCEPT !.chunks = "visible", !.status = "published",
                                       !.frozen = TRUE]]
       /\ replaces = {}
  \/ \E v \in Versions, citation \in {"active", "invalid"} :
       /\ newDoc = doc
       /\ newVer = [ver EXCEPT ![v].citation = citation]
       /\ replaces = {}

LEMMA RowsChange ==
  ASSUME NEW row \in VerRow, NEW risk \in Risks, NEW status \in DocStatuses,
         NEW citation \in {"active", "invalid"}
  PROVE  /\ PublishedRow(row, risk) \in VerRow
         /\ [Hide(row) EXCEPT !.status = status] \in VerRow
         /\ [row EXCEPT !.chunks = "visible", !.status = "published", !.frozen = TRUE] \in VerRow
         /\ [row EXCEPT !.citation = citation] \in VerRow
<1>1. PublishedRow(row, risk) \in VerRow
  BY DEF VerRow, PublishedRow, DocStatuses
<1>2. [Hide(row) EXCEPT !.status = status] \in VerRow
  <2>1. Hide(row) \in VerRow
    BY DEF VerRow, Hide
  <2>. HIDE DEF Hide
  <2>. QED BY <2>1 DEF VerRow
<1>3. [row EXCEPT !.chunks = "visible", !.status = "published", !.frozen = TRUE] \in VerRow
  BY DEF VerRow, DocStatuses
<1>4. [row EXCEPT !.citation = citation] \in VerRow
  BY DEF VerRow
<1>. QED BY <1>1, <1>2, <1>3, <1>4

LEMMA RetiredType ==
  ASSUME TypeOK, NEW p \in Versions \union {NoVersion}, NEW status \in DocStatuses
  PROVE  Retired(p, status) \in [Versions -> VerRow]
BY RowsChange, RiskAssumption DEF TypeOK, Retired

LEMMA EffectType ==
  ASSUME TypeOK, NEW newDoc, NEW newVer, NEW replaces, Effect(newDoc, newVer, replaces)
  PROVE  /\ newDoc \in DocRow
         /\ newVer \in [Versions -> VerRow]
         /\ replaces \in SUBSET Versions
<1>. USE DEF TypeOK
<1>1. doc.published \in Versions \union {NoVersion}
  BY DEF DocRow
<1>2. CASE \E v \in Versions, risk \in Risks :
             /\ newDoc = [status |-> "published", published |-> v]
             /\ newVer = [ver EXCEPT ![v] = PublishedRow(@, risk)]
             /\ replaces = IF ver[v].chunks = "none" THEN {} ELSE {v}
  <2>1. PICK v \in Versions, risk \in Risks :
             /\ newDoc = [status |-> "published", published |-> v]
             /\ newVer = [ver EXCEPT ![v] = PublishedRow(@, risk)]
             /\ replaces = IF ver[v].chunks = "none" THEN {} ELSE {v}
    BY <1>2
  <2>2. PublishedRow(ver[v], risk) \in VerRow
    BY RowsChange DEF DocStatuses
  <2>3. newDoc \in DocRow
    BY <2>1 DEF DocRow, DocStatuses
  <2>. QED BY <2>1, <2>2, <2>3
<1>3. CASE /\ newDoc = [doc EXCEPT !.status = "suspended"]
           /\ newVer = Retired(doc.published, "suspended")
           /\ replaces = {}
  BY <1>1, <1>3, RetiredType DEF DocRow, DocStatuses
<1>4. CASE /\ newDoc = [status |-> "archived", published |-> NoVersion]
           /\ newVer = Retired(doc.published, "archived")
           /\ replaces = {}
  BY <1>1, <1>4, RetiredType DEF DocRow, DocStatuses
<1>5. CASE \E v \in Versions :
             /\ newDoc = [status |-> "published", published |-> v]
             /\ newVer = [Retired(doc.published, "suspended") EXCEPT
                            ![v] = [@ EXCEPT !.chunks = "visible", !.status = "published",
                                             !.frozen = TRUE]]
             /\ replaces = {}
  <2>1. PICK v \in Versions :
             /\ newDoc = [status |-> "published", published |-> v]
             /\ newVer = [Retired(doc.published, "suspended") EXCEPT
                            ![v] = [@ EXCEPT !.chunks = "visible", !.status = "published",
                                             !.frozen = TRUE]]
             /\ replaces = {}
    BY <1>5
  <2>. DEFINE retired == Retired(doc.published, "suspended")
              row == [retired[v] EXCEPT !.chunks = "visible", !.status = "published",
                                        !.frozen = TRUE]
  <2>2. retired \in [Versions -> VerRow]
    BY <1>1, RetiredType DEF DocStatuses
  <2>3. newDoc \in DocRow
    BY <2>1 DEF DocRow, DocStatuses
  <2>4. newVer = [retired EXCEPT ![v] = row]
    BY <2>1
  <2>5. retired[v] \in VerRow
    BY <2>2
  <2>. HIDE DEF retired
  <2>6. row \in VerRow
    BY <2>5, RowsChange, RiskAssumption DEF DocStatuses
  <2>. HIDE DEF row
  <2>. QED BY <2>1, <2>2, <2>3, <2>4, <2>6
<1>6. CASE \E v \in Versions, citation \in {"active", "invalid"} :
             /\ newDoc = doc
             /\ newVer = [ver EXCEPT ![v].citation = citation]
             /\ replaces = {}
  <2>1. PICK v \in Versions, citation \in {"active", "invalid"} :
             /\ newDoc = doc
             /\ newVer = [ver EXCEPT ![v].citation = citation]
             /\ replaces = {}
    BY <1>6
  <2>2. [ver[v] EXCEPT !.citation = citation] \in VerRow
    BY RowsChange, RiskAssumption DEF DocStatuses
  <2>. QED BY <2>1, <2>2
<1>. QED BY <1>2, <1>3, <1>4, <1>5, <1>6 DEF Effect

LEMMA OperationCalls ==
  ASSUME TypeOK, NEW r \in Req, Operation(r)
  PROVE  \E newDoc, newVer :
           \E inserts \in SUBSET (Versions \X {"chunks", "citation"}) :
             \E replaces, holds \in SUBSET Versions :
               /\ Effect(newDoc, newVer, replaces)
               /\ Free(r)
               /\ Begin(r, Call(newDoc, newVer, inserts, replaces, holds))
<1>1. doc.published \in Versions \union {NoVersion}
  BY DEF TypeOK, DocRow
<1>2. CASE \E v \in Versions, risk \in Risks : Publish(r, v, risk)
  <2>1. PICK v \in Versions, risk \in Risks : Publish(r, v, risk)
    BY <1>2
  <2>. DEFINE fresh == ver[v].chunks = "none"
              newDoc == [status |-> "published", published |-> v]
              newVer == [ver EXCEPT ![v] = PublishedRow(@, risk)]
              inserts == IF fresh THEN {<<v, "chunks">>} ELSE {}
              replaces == IF fresh THEN {} ELSE {v}
  <2>2. /\ CanPublish(v, risk) /\ Free(r)
        /\ Begin(r, Call(newDoc, newVer, inserts, replaces, {}))
    BY <2>1 DEF Publish
  <2>3. Effect(newDoc, newVer, replaces)
    BY <2>2 DEF Effect
  <2>4. /\ inserts \in SUBSET (Versions \X {"chunks", "citation"})
        /\ replaces \in SUBSET Versions
    OBVIOUS
  <2>. HIDE DEF newDoc, newVer, inserts, replaces
  <2>. QED BY <2>2, <2>3, <2>4
<1>3. CASE Suspend(r)
  <2>. DEFINE newDoc == [doc EXCEPT !.status = "suspended"]
              newVer == Retired(doc.published, "suspended")
  <2>1. Effect(newDoc, newVer, {})
    BY <1>3 DEF Suspend, Effect
  <2>2. Free(r) /\ Begin(r, Call(newDoc, newVer, {}, {}, {doc.published}))
    BY <1>3 DEF Suspend
  <2>3. {doc.published} \in SUBSET Versions
    BY <1>1, <1>3 DEF Suspend
  <2>. HIDE DEF newDoc, newVer
  <2>. QED BY <2>1, <2>2, <2>3
<1>4. CASE Archive(r)
  <2>. DEFINE newDoc == [status |-> "archived", published |-> NoVersion]
              newVer == Retired(doc.published, "archived")
  <2>1. Effect(newDoc, newVer, {})
    BY <1>4 DEF Archive, Effect
  <2>2. Free(r) /\ Begin(r, Call(newDoc, newVer, {}, {}, {doc.published} \ {NoVersion}))
    BY <1>4 DEF Archive
  <2>3. {doc.published} \ {NoVersion} \in SUBSET Versions
    BY <1>1
  <2>. HIDE DEF newDoc, newVer
  <2>. QED BY <2>1, <2>2, <2>3
<1>5. CASE \E v \in Versions : Rollback(r, v)
  <2>1. PICK v \in Versions : Rollback(r, v)
    BY <1>5
  <2>. DEFINE newDoc == [status |-> "published", published |-> v]
              newVer == [Retired(doc.published, "suspended") EXCEPT
                           ![v] = [@ EXCEPT !.chunks = "visible", !.status = "published",
                                            !.frozen = TRUE]]
  <2>2. Effect(newDoc, newVer, {})
    BY <2>1 DEF Rollback, Effect
  <2>3. Free(r) /\ Begin(r, Call(newDoc, newVer, {}, {}, {doc.published, v} \ {NoVersion}))
    BY <2>1 DEF Rollback
  <2>4. {doc.published, v} \ {NoVersion} \in SUBSET Versions
    BY <1>1
  <2>. HIDE DEF newDoc, newVer
  <2>. QED BY <2>2, <2>3, <2>4
<1>6. CASE \E v \in Versions : RegisterCitation(r, v) \/ InvalidateCitation(r, v)
  <2>1. PICK v \in Versions : RegisterCitation(r, v) \/ InvalidateCitation(r, v)
    BY <1>6
  <2>2. CASE RegisterCitation(r, v)
    <3>. DEFINE newVer == [ver EXCEPT ![v].citation = "active"]
    <3>1. Free(r) /\ Begin(r, Call(doc, newVer, {<<v, "citation">>}, {}, {v}))
      BY <2>2 DEF RegisterCitation
    <3>2. Effect(doc, newVer, {})
      BY DEF Effect
    <3>3. {<<v, "citation">>} \in SUBSET (Versions \X {"chunks", "citation"})
      OBVIOUS
    <3>. HIDE DEF newVer
    <3>. QED BY <3>1, <3>2, <3>3
  <2>3. CASE InvalidateCitation(r, v)
    <3>. DEFINE newVer == [ver EXCEPT ![v].citation = "invalid"]
    <3>1. Free(r) /\ Begin(r, Call(doc, newVer, {}, {}, {}))
      BY <2>3 DEF InvalidateCitation
    <3>2. Effect(doc, newVer, {})
      BY DEF Effect
    <3>. HIDE DEF newVer
    <3>. QED BY <3>1, <3>2
  <2>. QED BY <2>1, <2>2, <2>3
<1>. QED BY <1>2, <1>3, <1>4, <1>5, <1>6 DEF Operation

-----------------------------------------------------------------------------
(* Types.                                                                  *)

Loaded(replaces) ==
  [v \in Versions |-> IF v \in replaces THEN [ver[v] EXCEPT !.chunks = "none"] ELSE ver[v]]

LEMMA LoadedType ==
  ASSUME TypeOK, NEW replaces \in SUBSET Versions
  PROVE  Loaded(replaces) \in [Versions -> VerRow]
<1>1. ASSUME NEW row \in VerRow
      PROVE  [row EXCEPT !.chunks = "none"] \in VerRow
  BY DEF VerRow
<1>. QED BY <1>1 DEF TypeOK, Loaded

LEMMA CallFields ==
  ASSUME TypeOK, NEW newDoc \in DocRow, NEW newVer \in [Versions -> VerRow],
         NEW inserts \in SUBSET (Versions \X {"chunks", "citation"}),
         NEW replaces \in SUBSET Versions, NEW holds \in SUBSET Versions,
         NEW c, c = Call(newDoc, newVer, inserts, replaces, holds)
  PROVE  /\ c \in Write /\ c # Idle
         /\ c.docChanged = Changed(doc, newDoc)
         /\ c.docNew = Assigned(doc, newDoc, BlankDoc)
         /\ \A v \in Versions :
              /\ c.verChanged[v] = Changed(Loaded(replaces)[v], newVer[v])
              /\ c.verNew[v] = Assigned(Loaded(replaces)[v], newVer[v], BlankVer)
<1>. DEFINE loaded == Loaded(replaces)
            changed == [v \in Versions |-> Changed(loaded[v], newVer[v])]
            new == [v \in Versions |-> Assigned(loaded[v], newVer[v], BlankVer)]
<1>1. c = [op |-> "write", docChanged |-> Changed(doc, newDoc),
           docNew |-> Assigned(doc, newDoc, BlankDoc), verChanged |-> changed, verNew |-> new,
           inserts |-> inserts, replaces |-> replaces, holds |-> holds]
  BY DEF Call, Loaded
<1>2. loaded \in [Versions -> VerRow]
  BY LoadedType
<1>. HIDE DEF loaded
<1>3. changed \in [Versions -> SUBSET Columns] /\ new \in [Versions -> VerRow]
  BY <1>2, VerAssigned
<1>4. /\ Changed(doc, newDoc) \in SUBSET {"status", "published"}
      /\ Assigned(doc, newDoc, BlankDoc) \in DocRow
  BY DocAssigned DEF TypeOK
<1>5. /\ c.docChanged = Changed(doc, newDoc) /\ c.docNew = Assigned(doc, newDoc, BlankDoc)
      /\ c.verChanged = changed /\ c.verNew = new /\ c # Idle
  BY <1>1 DEF Idle
<1>6. c \in Write
  <2>. HIDE DEF changed, new
  <2>. QED BY <1>1, <1>3, <1>4 DEF Write, Columns
<1>. QED BY <1>5, <1>6 DEF loaded

\* What a commit leaves is a row again.
LEMMA CommitRows ==
  ASSUME TypeOK, NEW r \in Req, Commit(r)
  PROVE  /\ txn[r] \in Write
         /\ doc' = Flush(doc, txn[r].docChanged, txn[r].docNew)
         /\ \A v \in Versions :
              ver'[v] = Flush(ver[v], txn[r].verChanged[v], txn[r].verNew[v])
         /\ TypeOK'
<1>1. txn[r] \in Write
  BY DEF Commit, TypeOK
<1>2. /\ doc' = Flush(doc, txn[r].docChanged, txn[r].docNew)
      /\ ver' = [v \in Versions |-> Flush(ver[v], txn[r].verChanged[v], txn[r].verNew[v])]
      /\ approved' = approved
  BY DEF Commit
<1>3. doc' \in DocRow
  BY <1>1, <1>2, DocFlushed DEF TypeOK, Write
<1>4. ver' \in [Versions -> VerRow]
  <2>1. ASSUME NEW v \in Versions
        PROVE  Flush(ver[v], txn[r].verChanged[v], txn[r].verNew[v]) \in VerRow
    <3>1. /\ ver[v] \in VerRow
          /\ txn[r].verChanged[v] \in SUBSET Columns
          /\ txn[r].verNew[v] \in VerRow
      BY <1>1 DEF TypeOK, Write, Columns
    <3>2. \A row, new \in VerRow : \A changed \in SUBSET Columns :
            Flush(row, changed, new) \in VerRow
      BY VerFlushed
    <3>. QED BY <3>1, <3>2
  <2>. QED BY <1>2, <2>1
<1>5. txn' \in [Req -> {Idle} \union Write]
  BY DEF Commit, TypeOK
<1>6. stale' \in SUBSET Req
  BY DEF Commit, Overtaken
<1>7. crossed' \in BOOLEAN
  BY Zenon DEF Commit
<1>. QED BY <1>1, <1>2, <1>3, <1>4, <1>5, <1>6, <1>7, Zenon DEF TypeOK

LEMMA InitType == Init => TypeOK
<1>1. ASSUME NEW s \in {"parsed", "scholar_approved"}, NEW c \in {"none", "hidden"}
      PROVE  [BlankVer EXCEPT !.status = s, !.chunks = c] \in VerRow
  BY DEF BlankVer, VerRow, DocStatuses
<1>2. ASSUME Init
      PROVE  /\ doc \in DocRow /\ ver \in [Versions -> VerRow]
             /\ approved \in [Versions -> SUBSET Levels]
             /\ txn \in [Req -> {Idle} \union Write]
             /\ stale \in SUBSET Req
  BY <1>1, <1>2 DEF Init, DocRow, DocStatuses
<1>3. ASSUME Init
      PROVE  crossed \in BOOLEAN
  <2>1. crossed = FALSE
    BY <1>3, Zenon DEF Init
  <2>. QED BY <2>1
<1>. QED BY <1>2, <1>3, Zenon DEF TypeOK

LEMMA StepType ==
  ASSUME TypeOK, [Next]_vars
  PROVE  TypeOK'
<1>1. CASE UNCHANGED vars
  BY <1>1 DEF vars, TypeOK
<1>2. ASSUME NEW r \in Req, Operation(r)
      PROVE  TypeOK'
  <2>1. PICK newDoc, newVer :
           \E inserts \in SUBSET (Versions \X {"chunks", "citation"}) :
             \E replaces, holds \in SUBSET Versions :
               /\ Effect(newDoc, newVer, replaces)
               /\ Free(r)
               /\ Begin(r, Call(newDoc, newVer, inserts, replaces, holds))
    BY <1>2, OperationCalls
  <2>2. PICK inserts \in SUBSET (Versions \X {"chunks", "citation"}),
             replaces \in SUBSET Versions, holds \in SUBSET Versions :
               /\ Effect(newDoc, newVer, replaces)
               /\ Begin(r, Call(newDoc, newVer, inserts, replaces, holds))
    BY <2>1
  <2>3. Call(newDoc, newVer, inserts, replaces, holds) \in Write
    BY <2>2, EffectType, CallFields
  <2>. QED BY <2>2, <2>3 DEF TypeOK, Begin
<1>3. ASSUME NEW r \in Req, Abort(r)
      PROVE  TypeOK'
  BY <1>3 DEF Abort, TypeOK
<1>4. ASSUME NEW r \in Req, Elsewhere(r)
      PROVE  TypeOK'
  <2>1. ASSUME NEW choice \in DocStatuses, Decide(r, choice)
        PROVE  TypeOK'
    <3>1. doc' \in DocRow
      BY <2>1 DEF Decide, TypeOK, DocRow
    <3>2. stale' \in SUBSET Req
      BY <2>1 DEF Decide, Overtaken
    <3>. QED BY <2>1, <3>1, <3>2, Zenon DEF Decide, TypeOK
  <2>2. ASSUME NEW v \in Versions, NEW level \in Levels, Approve(r, v, level) \/ Revoke(r, v, level)
        PROVE  TypeOK'
    <3>1. approved' \in [Versions -> SUBSET Levels]
      BY <2>2 DEF Approve, Revoke, TypeOK
    <3>2. stale' \in SUBSET Req
      BY <2>2 DEF Approve, Revoke, Overtaken
    <3>. QED BY <2>2, <3>1, <3>2, Zenon DEF Approve, Revoke, TypeOK
  <2>. QED BY <1>4, <2>1, <2>2 DEF Elsewhere
<1>. QED BY <1>1, <1>2, <1>3, <1>4, CommitRows DEF Next

\* Every row and every call in flight stays well formed, however calls overlap and
\* however many versions the document has.
THEOREM TypeCorrect == Spec => []TypeOK
<1>. QED BY InitType, StepType, PTL DEF Spec

-----------------------------------------------------------------------------
(* One version, any overlap.                                               *)

\* what the rows of a document with the one version v say: once it was published
\* its content is there, and it is not approved a second time
OneRow(v) ==
  /\ doc.status = "published" =>
       /\ doc.published = v
       /\ ver[v].chunks = "visible" /\ ver[v].status = "published" /\ ver[v].frozen
  /\ doc.status \in {"scholar_review", "scholar_approved"} =>
       doc.published = NoVersion /\ ~ ver[v].frozen
  /\ doc.status = "suspended" => ver[v].status = "suspended"

\* which columns a call in flight is going to write; there is no other version to
\* roll back to
Publishes(c, v) ==
  /\ {"status", "published"} \subseteq c.docChanged
  /\ c.docNew.status = "published" /\ c.docNew.published = v
  /\ {"status", "frozen", "chunks"} \subseteq c.verChanged[v]
  /\ c.verNew[v]["status"] = "published" /\ c.verNew[v]["frozen"]
  /\ c.verNew[v]["chunks"] = "visible"

Suspends(c, v) ==
  /\ "status" \in c.docChanged /\ c.docNew.status = "suspended"
  /\ "status" \in c.verChanged[v] /\ c.verNew[v]["status"] = "suspended"

Archives(c) == "status" \in c.docChanged /\ c.docNew.status = "archived"

Cites(c, v) == c.docChanged = {} /\ c.verChanged[v] \subseteq {"citation"}

OneFits(c, v) ==
  c # Idle => Publishes(c, v) \/ Suspends(c, v) \/ Archives(c) \/ Cites(c, v)

OneInv(v) == TypeOK /\ OneRow(v) /\ \A r \in Req : OneFits(txn[r], v)

LEMMA OneCall ==
  ASSUME NEW v, Versions = {v}, OneInv(v), NEW newDoc, NEW newVer,
         NEW inserts \in SUBSET (Versions \X {"chunks", "citation"}),
         NEW replaces \in SUBSET Versions, NEW holds \in SUBSET Versions,
         Effect(newDoc, newVer, replaces)
  PROVE  OneFits(Call(newDoc, newVer, inserts, replaces, holds), v)
<1>. DEFINE c == Call(newDoc, newVer, inserts, replaces, holds)
            old == Loaded(replaces)[v]
<1>1. newDoc \in DocRow /\ newVer \in [Versions -> VerRow] /\ v \in Versions
  BY EffectType DEF OneInv
<1>2. /\ c.docChanged = Changed(doc, newDoc)
      /\ c.docNew = Assigned(doc, newDoc, BlankDoc)
      /\ c.verChanged[v] = Changed(old, newVer[v])
      /\ c.verNew[v] = Assigned(old, newVer[v], BlankVer)
  BY <1>1, CallFields DEF OneInv
<1>3. doc \in DocRow /\ ver[v] \in VerRow /\ old \in VerRow /\ newVer[v] \in VerRow
  BY <1>1, LoadedType DEF OneInv, TypeOK
<1>4. old = IF v \in replaces THEN [ver[v] EXCEPT !.chunks = "none"] ELSE ver[v]
  BY <1>1 DEF Loaded
<1>. HIDE DEF c, old
<1>5. ASSUME NEW k \in Columns, newVer[v][k] # old[k]
      PROVE  k \in c.verChanged[v] /\ c.verNew[v][k] = newVer[v][k]
  BY <1>2, <1>3, <1>5, VerAssigned
<1>6. CASE \E w \in Versions, risk \in Risks :
             /\ CanPublish(w, risk)
             /\ newDoc = [status |-> "published", published |-> w]
             /\ newVer = [ver EXCEPT ![w] = PublishedRow(@, risk)]
             /\ replaces = IF ver[w].chunks = "none" THEN {} ELSE {w}
  <2>1. PICK risk \in Risks :
             /\ CanPublish(v, risk)
             /\ newDoc = [status |-> "published", published |-> v]
             /\ newVer[v] = PublishedRow(ver[v], risk)
             /\ replaces = IF ver[v].chunks = "none" THEN {} ELSE {v}
    BY <1>1, <1>6 DEF OneInv, TypeOK
  <2>2. /\ doc.status = "scholar_approved"
        /\ doc.published = NoVersion
        /\ ver[v].status \in {"scholar_approved", "parsed"}
        /\ ~ ver[v].frozen
    BY <1>1, <1>3, <2>1 DEF CanPublish, StatusAllowsPublish, AlreadyPublished, OneInv, OneRow, DocRow
  <2>3. /\ newVer[v]["status"] = "published" /\ newVer[v]["frozen"] = TRUE
        /\ newVer[v]["chunks"] = "visible"
    BY <1>3, <2>1 DEF PublishedRow, VerRow
  <2>4. old["status"] # "published" /\ old["frozen"] = FALSE /\ old["chunks"] = "none"
    BY <1>3, <1>4, <2>1, <2>2 DEF VerRow
  <2>5. newDoc.status # doc.status /\ newDoc.published # doc.published
    BY <1>1, <2>1, <2>2, VersionAssumption
  <2>6. Publishes(c, v)
    <3>1. /\ {"status", "published"} \subseteq c.docChanged
          /\ c.docNew.status = "published" /\ c.docNew.published = v
      BY <1>1, <1>2, <1>3, <2>1, <2>5, DocAssigned
    <3>2. "status" \in c.verChanged[v] /\ c.verNew[v]["status"] = "published"
      BY <1>5, <2>3, <2>4 DEF Columns
    <3>3. "frozen" \in c.verChanged[v] /\ c.verNew[v]["frozen"]
      BY <1>5, <2>3, <2>4 DEF Columns
    <3>4. "chunks" \in c.verChanged[v] /\ c.verNew[v]["chunks"] = "visible"
      BY <1>5, <2>3, <2>4 DEF Columns
    <3>. QED BY <3>1, <3>2, <3>3, <3>4 DEF Publishes
  <2>. QED BY <2>6 DEF OneFits, c
<1>7. CASE /\ doc.status = "published"
           /\ newDoc = [doc EXCEPT !.status = "suspended"]
           /\ newVer = Retired(doc.published, "suspended")
           /\ replaces = {}
  <2>1. doc.published = v /\ ver[v].status = "published"
    BY <1>7 DEF OneInv, OneRow
  <2>2. newVer[v] = [Hide(ver[v]) EXCEPT !.status = "suspended"]
    BY <1>1, <1>7, <2>1, VersionAssumption DEF Retired, OneInv, TypeOK
  <2>3. newVer[v]["status"] = "suspended" /\ old["status"] = "published"
    BY <1>3, <1>4, <1>7, <2>1, <2>2 DEF Hide, VerRow
  <2>4. "status" \in c.verChanged[v] /\ c.verNew[v]["status"] = "suspended"
    BY <1>5, <2>3 DEF Columns
  <2>5. newDoc.status = "suspended" /\ newDoc.status # doc.status
    BY <1>3, <1>7 DEF DocRow
  <2>6. "status" \in c.docChanged /\ c.docNew.status = "suspended"
    BY <1>1, <1>2, <1>3, <2>5, DocAssigned
  <2>. QED BY <2>4, <2>6 DEF OneFits, Suspends, c
<1>8. CASE /\ doc.status \in {"published", "suspended"}
           /\ newDoc = [status |-> "archived", published |-> NoVersion]
  <2>1. "status" \in c.docChanged /\ c.docNew.status = "archived"
    BY <1>1, <1>2, <1>3, <1>8, DocAssigned
  <2>. QED BY <2>1 DEF OneFits, Archives, c
<1>9. CASE \E w \in Versions : CanRollback(w)
  BY <1>9 DEF CanRollback, OneInv, OneRow
<1>10. CASE \E w \in Versions, citation \in {"active", "invalid"} :
             /\ newDoc = doc
             /\ newVer = [ver EXCEPT ![w].citation = citation]
             /\ replaces = {}
  <2>1. PICK citation \in {"active", "invalid"} :
             /\ newDoc = doc
             /\ newVer[v] = [ver[v] EXCEPT !.citation = citation]
             /\ old = ver[v]
    BY <1>1, <1>4, <1>10 DEF OneInv, TypeOK
  <2>2. c.docChanged = {}
    BY <1>2, <2>1 DEF Changed
  <2>3. c.verChanged[v] \subseteq {"citation"}
    BY <1>2, <1>3, <2>1 DEF Changed, VerRow
  <2>. QED BY <2>2, <2>3 DEF OneFits, Cites, c
<1>. QED BY <1>6, <1>7, <1>8, <1>9, <1>10 DEF Effect

LEMMA OneCommit ==
  ASSUME NEW v, Versions = {v}, OneInv(v), NEW r \in Req, Commit(r)
  PROVE  OneInv(v)'
<1>. DEFINE c == txn[r]
<1>1. /\ c \in Write /\ v \in Versions
      /\ doc' = Flush(doc, c.docChanged, c.docNew)
      /\ ver'[v] = Flush(ver[v], c.verChanged[v], c.verNew[v])
      /\ TypeOK'
  BY CommitRows DEF OneInv
<1>2. Publishes(c, v) \/ Suspends(c, v) \/ Archives(c) \/ Cites(c, v)
  BY DEF OneInv, OneFits, Commit
<1>3. \A q \in Req : txn'[q] \in {Idle, txn[q]}
  BY DEF Commit, OneInv, TypeOK
<1>4. \A q \in Req : OneFits(txn'[q], v)
  BY <1>3 DEF OneInv, OneFits
<1>5. /\ ver[v] \in VerRow /\ c.verChanged[v] \in SUBSET Columns /\ c.verNew[v] \in VerRow
      /\ c.docChanged \in SUBSET {"status", "published"} /\ c.docNew \in DocRow
      /\ doc \in DocRow /\ ver'[v] \in VerRow
  BY <1>1 DEF OneInv, TypeOK, Write, Columns
<1>. HIDE DEF c
<1>6. \A k \in Columns : ver'[v][k] = IF k \in c.verChanged[v] THEN c.verNew[v][k] ELSE ver[v][k]
  BY <1>1, <1>5, VerFlushed
<1>7. /\ doc'.status = IF "status" \in c.docChanged THEN c.docNew.status ELSE doc.status
      /\ doc'.published = IF "published" \in c.docChanged THEN c.docNew.published ELSE doc.published
  BY <1>1, <1>5, DocFlushed
<1>8. /\ ver'[v].status = IF "status" \in c.verChanged[v] THEN c.verNew[v]["status"] ELSE ver[v].status
      /\ ver'[v].frozen = IF "frozen" \in c.verChanged[v] THEN c.verNew[v]["frozen"] ELSE ver[v].frozen
      /\ ver'[v].chunks = IF "chunks" \in c.verChanged[v] THEN c.verNew[v]["chunks"] ELSE ver[v].chunks
  BY <1>5, <1>6, VerFields DEF Columns
<1>9. OneRow(v)'
  <2>1. CASE Publishes(c, v)
    <3>1. doc'.status = "published" /\ doc'.published = v
      BY <1>7, <2>1 DEF Publishes
    <3>2. ver'[v].status = "published" /\ ver'[v].chunks = "visible"
      BY <1>8, <2>1 DEF Publishes
    <3>3. ver'[v].frozen
      BY <1>8, <2>1, Zenon DEF Publishes
    <3>. QED BY <3>1, <3>2, <3>3 DEF OneRow
  <2>2. CASE Suspends(c, v)
    <3>1. doc'.status = "suspended" /\ ver'[v].status = "suspended"
      BY <1>7, <1>8, <2>2 DEF Suspends
    <3>. QED BY <3>1 DEF OneRow
  <2>3. CASE Archives(c)
    <3>1. doc'.status = "archived"
      BY <1>7, <2>3 DEF Archives
    <3>. QED BY <3>1 DEF OneRow
  <2>4. CASE Cites(c, v)
    <3>1. /\ doc'.status = doc.status /\ doc'.published = doc.published
          /\ ver'[v].status = ver[v].status /\ ver'[v].chunks = ver[v].chunks
      BY <1>7, <1>8, <2>4 DEF Cites
    <3>2. "frozen" \notin c.verChanged[v]
      BY <2>4 DEF Cites
    <3>3. ver'[v].frozen = ver[v].frozen
      BY <1>8, <3>2, Zenon
    <3>. QED BY <3>1, <3>3 DEF OneRow, OneInv
  <2>. QED BY <1>2, <2>1, <2>2, <2>3, <2>4
<1>. QED BY <1>1, <1>4, <1>9 DEF OneInv

LEMMA OneStep ==
  ASSUME NEW v, Versions = {v}, OneInv(v), [Next]_vars
  PROVE  OneInv(v)'
<1>1. TypeOK'
  BY StepType DEF OneInv
<1>2. CASE UNCHANGED vars
  BY <1>1, <1>2 DEF vars, OneInv, OneRow
<1>3. ASSUME NEW r \in Req, Operation(r)
      PROVE  OneInv(v)'
  <2>1. PICK newDoc, newVer :
           \E inserts \in SUBSET (Versions \X {"chunks", "citation"}) :
             \E replaces, holds \in SUBSET Versions :
               /\ Effect(newDoc, newVer, replaces)
               /\ Free(r)
               /\ Begin(r, Call(newDoc, newVer, inserts, replaces, holds))
    BY <1>3, OperationCalls DEF OneInv
  <2>2. PICK inserts \in SUBSET (Versions \X {"chunks", "citation"}),
             replaces \in SUBSET Versions, holds \in SUBSET Versions :
               /\ Effect(newDoc, newVer, replaces)
               /\ Begin(r, Call(newDoc, newVer, inserts, replaces, holds))
    BY <2>1
  <2>3. OneFits(Call(newDoc, newVer, inserts, replaces, holds), v)
    BY <2>2, OneCall
  <2>4. \A q \in Req : OneFits(txn'[q], v)
    BY <2>2, <2>3 DEF Begin, OneInv, TypeOK
  <2>. QED BY <1>1, <2>2, <2>4 DEF Begin, OneInv, OneRow
<1>4. ASSUME NEW r \in Req, Abort(r)
      PROVE  OneInv(v)'
  <2>1. \A q \in Req : OneFits(txn'[q], v)
    BY <1>4 DEF Abort, OneInv, TypeOK, OneFits
  <2>. QED BY <1>1, <1>4, <2>1 DEF Abort, OneInv, OneRow
<1>5. ASSUME NEW r \in Req, Elsewhere(r)
      PROVE  OneInv(v)'
  <2>1. ASSUME NEW choice \in DocStatuses, Decide(r, choice)
        PROVE  OneInv(v)'
    <3>1. /\ doc'.status = choice /\ doc'.published = doc.published
          /\ ver' = ver /\ txn' = txn
      BY <2>1 DEF Decide, OneInv, TypeOK, DocRow
    <3>2. choice \in {"scholar_approved", "rejected"}
      BY <2>1 DEF Decide
    <3>3. choice = "scholar_approved" => doc.status = "scholar_review"
      BY <2>1 DEF Decide, CanMoveDoc, DocTransitions
    <3>. QED BY <1>1, <3>1, <3>2, <3>3 DEF OneInv, OneRow
  <2>2. ASSUME NEW w \in Versions, NEW level \in Levels,
               Approve(r, w, level) \/ Revoke(r, w, level)
        PROVE  OneInv(v)'
    BY <1>1, <2>2 DEF Approve, Revoke, OneInv, OneRow
  <2>. QED BY <1>5, <2>1, <2>2 DEF Elsewhere
<1>. QED BY <1>2, <1>3, <1>4, <1>5, OneCommit DEF Next

\* However many calls overlap on a document with one version, which is what the
\* services create, retrieval serves that version exactly while the document is
\* published.
THEOREM ServesOneVersion ==
  ASSUME NEW v, Versions = {v}
  PROVE  Spec => []ServedIsPublishedVersion
<1>1. Init => OneInv(v)
  <2>1. ASSUME Init
        PROVE  OneRow(v)
    <3>1. /\ doc.status = "scholar_review" /\ doc.published = NoVersion
          /\ ver[v] \in {[BlankVer EXCEPT !.status = s, !.chunks = c] :
                           s \in {"parsed", "scholar_approved"}, c \in {"none", "hidden"}}
      BY <2>1 DEF Init
    <3>2. PICK s \in {"parsed", "scholar_approved"}, c \in {"none", "hidden"} :
            ver[v] = [BlankVer EXCEPT !.status = s, !.chunks = c]
      BY <3>1
    <3>3. ver[v].frozen = FALSE
      BY <3>2 DEF BlankVer
    <3>. QED BY <3>1, <3>3 DEF OneRow
  <2>2. Init => \A r \in Req : OneFits(txn[r], v)
    BY DEF Init, OneFits
  <2>. QED BY <2>1, <2>2, InitType DEF OneInv
<1>2. OneInv(v) /\ [Next]_vars => OneInv(v)'
  BY OneStep
<1>3. OneInv(v) => ServedIsPublishedVersion
  BY DEF OneInv, OneRow, ServedIsPublishedVersion, Served
<1>. QED BY <1>1, <1>2, <1>3, PTL DEF Spec

-----------------------------------------------------------------------------
(* Any number of versions: what holds until an overtaken call commits.     *)

\* content is visible in the published version only, and there it is
VisibleIsPublished ==
  /\ \A v \in Versions : ver[v].chunks = "visible" =>
       doc.status = "published" /\ doc.published = v
  /\ doc.status = "published" =>
       /\ doc.published \in Versions
       /\ ver[doc.published].chunks = "visible" /\ ver[doc.published].status = "published"
       /\ ver[doc.published].frozen

\* what a call in flight read is what the rows still say
Ready(c) ==
  c # Idle =>
    \E newDoc, newVer :
      \E inserts \in SUBSET (Versions \X {"chunks", "citation"}) :
        \E replaces, holds \in SUBSET Versions :
          /\ Effect(newDoc, newVer, replaces)
          /\ c = Call(newDoc, newVer, inserts, replaces, holds)

OverlapInv ==
  /\ TypeOK
  /\ ~ crossed => VisibleIsPublished
  /\ \A r \in Req : r \in stale \/ Ready(txn[r])

\* Nothing is lost between reading and writing: a commit leaves the rows as the
\* operation meant to.
LEMMA WritesEffect ==
  ASSUME TypeOK, NEW newDoc, NEW newVer,
         NEW inserts \in SUBSET (Versions \X {"chunks", "citation"}),
         NEW replaces \in SUBSET Versions, NEW holds \in SUBSET Versions,
         Effect(newDoc, newVer, replaces),
         NEW c, c = Call(newDoc, newVer, inserts, replaces, holds)
  PROVE  /\ Flush(doc, c.docChanged, c.docNew) = newDoc
         /\ \A v \in Versions : Flush(ver[v], c.verChanged[v], c.verNew[v]) = newVer[v]
<1>1. newDoc \in DocRow /\ newVer \in [Versions -> VerRow]
  BY EffectType
<1>2. /\ c.docChanged = Changed(doc, newDoc)
      /\ c.docNew = Assigned(doc, newDoc, BlankDoc)
      /\ \A v \in Versions :
           /\ c.verChanged[v] = Changed(Loaded(replaces)[v], newVer[v])
           /\ c.verNew[v] = Assigned(Loaded(replaces)[v], newVer[v], BlankVer)
  BY <1>1, CallFields
<1>3. \A v \in replaces : newVer[v]["chunks"] = "visible"
  <2>1. ASSUME NEW v \in replaces
        PROVE  newVer[v]["chunks"] = "visible"
    <3>1. PICK w \in Versions, risk \in Risks :
            /\ newVer = [ver EXCEPT ![w] = PublishedRow(@, risk)]
            /\ replaces = IF ver[w].chunks = "none" THEN {} ELSE {w}
      BY DEF Effect
    <3>2. v = w /\ newVer[v] = PublishedRow(ver[v], risk)
      BY <3>1 DEF TypeOK
    <3>. QED BY <3>2 DEF TypeOK, PublishedRow, VerRow
  <2>. QED BY <2>1
<1>4. Flush(doc, c.docChanged, c.docNew) = newDoc
  BY <1>1, <1>2 DEF Flush, Changed, Assigned, DocRow, TypeOK
<1>5. ASSUME NEW v \in Versions
      PROVE  Flush(ver[v], c.verChanged[v], c.verNew[v]) = newVer[v]
  <2>. DEFINE old == Loaded(replaces)[v]
              row == Flush(ver[v], c.verChanged[v], c.verNew[v])
  <2>1. ver[v] \in VerRow /\ newVer[v] \in VerRow /\ old \in VerRow
    BY <1>1, LoadedType DEF TypeOK
  <2>2. old = IF v \in replaces THEN [ver[v] EXCEPT !.chunks = "none"] ELSE ver[v]
    BY DEF Loaded
  <2>3. /\ c.verChanged[v] = Changed(old, newVer[v])
        /\ c.verNew[v] = Assigned(old, newVer[v], BlankVer)
    BY <1>2
  <2>. HIDE DEF old
  <2>4. \A k \in Columns : row[k] = IF newVer[v][k] # old[k] THEN newVer[v][k] ELSE ver[v][k]
    <3>1. /\ \A k \in Columns : k \in c.verChanged[v] <=> newVer[v][k] # old[k]
          /\ \A k \in c.verChanged[v] : c.verNew[v][k] = newVer[v][k]
      BY <2>1, <2>3, VerAssigned
    <3>2. \A k \in Columns : row[k] = IF k \in c.verChanged[v] THEN c.verNew[v][k] ELSE ver[v][k]
      BY <2>1 DEF Flush, VerRow, Columns
    <3>. QED BY <3>1, <3>2
  <2>5. \A k \in Columns : old[k] # ver[v][k] => k = "chunks" /\ v \in replaces /\ old[k] = "none"
    BY <2>1, <2>2 DEF VerRow, Columns
  <2>6. \A k \in Columns : row[k] = newVer[v][k]
    BY <1>3, <2>4, <2>5
  <2>7. row = [k \in Columns |-> row[k]]
    BY <2>1 DEF Flush, VerRow, Columns
  <2>8. newVer[v] = [k \in Columns |-> newVer[v][k]]
    BY <2>1 DEF VerRow, Columns
  <2>. HIDE DEF row
  <2>9. row = newVer[v]
    BY <2>6, <2>7, <2>8
  <2>. QED BY <2>9 DEF row
<1>. QED BY <1>4, <1>5

LEMMA HiddenRow ==
  ASSUME NEW row \in VerRow, NEW status \in DocStatuses
  PROVE  LET hidden == [Hide(row) EXCEPT !.status = status]
         IN  /\ hidden.chunks # "visible" /\ hidden.citation # "active"
             /\ hidden.risk = row.risk
BY DEF Hide, VerRow

\* what retiring a version does to the versions
LEMMA RetiredRows ==
  ASSUME TypeOK, NEW status \in DocStatuses, NEW v \in Versions
  PROVE  LET row == Retired(doc.published, status)[v]
         IN  /\ row \in VerRow
             /\ row.risk = ver[v].risk
             /\ v = doc.published => row.citation # "active"
             /\ VisibleIsPublished => row.chunks # "visible"
<1>1. doc.published \in Versions \union {NoVersion} /\ ver[v] \in VerRow
  BY DEF TypeOK, DocRow
<1>2. CASE doc.published = v
  <2>1. Retired(doc.published, status)[v] = [Hide(ver[v]) EXCEPT !.status = status]
    BY <1>1, <1>2, VersionAssumption DEF Retired, TypeOK
  <2>2. Retired(doc.published, status)[v] \in VerRow
    BY <1>1, RetiredType
  <2>. QED BY <1>1, <2>1, <2>2, HiddenRow
<1>3. CASE doc.published # v
  <2>1. Retired(doc.published, status)[v] = ver[v]
    BY <1>1, <1>3 DEF Retired, TypeOK
  <2>. QED BY <1>1, <1>3, <2>1 DEF VisibleIsPublished
<1>. QED BY <1>2, <1>3

\* What a call that was not overtaken does to the document.
Orderly ==
  /\ VisibleIsPublished => VisibleIsPublished'
  /\ doc.status = "archived" => doc'.status = "archived"
  /\ doc'.status # doc.status => CanMoveDoc(doc.status, doc'.status)
  /\ doc.published \in Served /\ doc.published \notin Served' =>
       ver'[doc.published].citation # "active"
  /\ \A v \in Versions : ver[v].risk = "none" /\ ver'[v].risk # "none" =>
       RequiredLevels(ver'[v].risk) \subseteq approved[v]

LEMMA EffectIsOrderly ==
  ASSUME TypeOK, NEW newVer, NEW replaces,
         Effect(doc', newVer, replaces), \A v \in Versions : ver'[v] = newVer[v]
  PROVE  Orderly
<1>1. newVer \in [Versions -> VerRow] /\ doc' \in DocRow
  BY EffectType
<1>2. doc.published \in Versions \union {NoVersion} /\ doc.status \in DocStatuses
  BY DEF TypeOK, DocRow
<1>3. \A v \in Served : v \in Versions /\ doc.status = "published"
  BY DEF Served
<1>4. CASE \E v \in Versions, risk \in Risks :
             /\ CanPublish(v, risk)
             /\ doc' = [status |-> "published", published |-> v]
             /\ newVer = [ver EXCEPT ![v] = PublishedRow(@, risk)]
  <2>1. PICK v \in Versions, risk \in Risks :
             /\ CanPublish(v, risk)
             /\ doc' = [status |-> "published", published |-> v]
             /\ newVer = [ver EXCEPT ![v] = PublishedRow(@, risk)]
    BY <1>4
  <2>2. /\ ver'[v] = PublishedRow(ver[v], risk)
        /\ \A w \in Versions \ {v} : ver'[w] = ver[w]
    BY <2>1 DEF TypeOK
  <2>3. /\ ver'[v].chunks = "visible" /\ ver'[v].status = "published"
        /\ ver'[v].risk = risk /\ ver'[v].frozen = TRUE
    BY <2>2 DEF PublishedRow, VerRow, TypeOK
  <2>4. /\ doc.status \in {"published", "scholar_approved"}
        /\ doc.status = "published" => doc.published = v
        /\ doc.status = "scholar_approved" => CanMoveDoc(doc.status, "published")
        /\ RequiredLevels(risk) \subseteq approved[v]
    BY <2>1 DEF CanPublish, StatusAllowsPublish, ApprovalsReady
  <2>5. doc'.status = "published" /\ doc'.published = v
    BY <2>1
  <2>6. VisibleIsPublished => VisibleIsPublished'
    BY <2>2, <2>3, <2>4, <2>5 DEF VisibleIsPublished
  <2>7. v \in Served'
    BY <2>3, <2>5 DEF Served
  <2>8. doc.published \in Served => doc.published \in Served'
    BY <1>3, <2>4, <2>7
  <2>9. \A w \in Versions : ver[w].risk = "none" /\ ver'[w].risk # "none" =>
          RequiredLevels(ver'[w].risk) \subseteq approved[w]
    BY <2>2, <2>3, <2>4
  <2>. QED BY <2>4, <2>5, <2>6, <2>8, <2>9 DEF Orderly
<1>5. ASSUME NEW status \in {"suspended", "archived"},
             doc.status \in {"published", "suspended"},
             CanMoveDoc(doc.status, status), doc'.status = status,
             newVer = Retired(doc.published, status)
      PROVE  Orderly
  <2>1. \A v \in Versions : /\ ver'[v].risk = ver[v].risk
                            /\ v = doc.published => ver'[v].citation # "active"
                            /\ VisibleIsPublished => ver'[v].chunks # "visible"
    BY <1>5, RetiredRows DEF DocStatuses
  <2>2. VisibleIsPublished => VisibleIsPublished'
    BY <1>5, <2>1 DEF VisibleIsPublished
  <2>. QED BY <1>3, <1>5, <2>1, <2>2 DEF Orderly
<1>6. CASE /\ doc.status = "published"
           /\ doc' = [doc EXCEPT !.status = "suspended"]
           /\ newVer = Retired(doc.published, "suspended")
  <2>1. doc'.status = "suspended"
    BY <1>6 DEF TypeOK, DocRow
  <2>. QED BY <1>5, <1>6, <2>1 DEF CanMoveDoc, DocTransitions
<1>7. CASE /\ doc.status \in {"published", "suspended"}
           /\ doc' = [status |-> "archived", published |-> NoVersion]
           /\ newVer = Retired(doc.published, "archived")
  BY <1>5, <1>7 DEF CanMoveDoc, DocTransitions
<1>8. CASE \E v \in Versions :
             /\ CanRollback(v)
             /\ doc' = [status |-> "published", published |-> v]
             /\ newVer = [Retired(doc.published, "suspended") EXCEPT
                            ![v] = [@ EXCEPT !.chunks = "visible", !.status = "published",
                                             !.frozen = TRUE]]
  <2>1. PICK v \in Versions :
             /\ CanRollback(v)
             /\ doc' = [status |-> "published", published |-> v]
             /\ newVer = [Retired(doc.published, "suspended") EXCEPT
                            ![v] = [@ EXCEPT !.chunks = "visible", !.status = "published",
                                             !.frozen = TRUE]]
    BY <1>8
  <2>. DEFINE retired == Retired(doc.published, "suspended")
  <2>2. retired \in [Versions -> VerRow]
    BY <1>2, RetiredType DEF DocStatuses
  <2>3. \A w \in Versions : /\ retired[w].risk = ver[w].risk
                            /\ w = doc.published => retired[w].citation # "active"
                            /\ VisibleIsPublished => retired[w].chunks # "visible"
    BY RetiredRows DEF DocStatuses
  <2>4. newVer = [retired EXCEPT ![v] = [retired[v] EXCEPT !.chunks = "visible",
                                           !.status = "published", !.frozen = TRUE]]
    BY <2>1
  <2>. HIDE DEF retired
  <2>5. /\ ver'[v] = [retired[v] EXCEPT !.chunks = "visible", !.status = "published",
                                        !.frozen = TRUE]
        /\ \A w \in Versions \ {v} : ver'[w] = retired[w]
    BY <2>2, <2>4
  <2>6. /\ ver'[v].chunks = "visible" /\ ver'[v].status = "published"
        /\ ver'[v].frozen = TRUE /\ ver'[v].risk = retired[v].risk
    BY <2>2, <2>5 DEF VerRow
  <2>7. doc'.status = "published" /\ doc'.published = v
    BY <2>1
  <2>8. /\ doc.status \in {"published", "suspended"} /\ v # doc.published
        /\ doc.status = "suspended" => CanMoveDoc(doc.status, "published")
    BY <2>1 DEF CanRollback, CanMoveDoc, DocTransitions
  <2>9. ASSUME VisibleIsPublished
        PROVE  VisibleIsPublished'
    <3>1. \A w \in Versions : ver'[w].chunks = "visible" => w = v
      BY <2>3, <2>5, <2>9
    <3>2. ver'[v].frozen
      BY <2>6
    <3>. QED BY <2>6, <2>7, <3>1, <3>2 DEF VisibleIsPublished
  <2>10. \A w \in Versions : /\ ver'[w].risk = ver[w].risk
                             /\ w = doc.published => ver'[w].citation # "active"
    BY <2>3, <2>5, <2>6, <2>8
  <2>. QED BY <1>3, <2>7, <2>8, <2>9, <2>10 DEF Orderly
<1>9. CASE \E v \in Versions, citation \in {"active", "invalid"} :
             doc' = doc /\ newVer = [ver EXCEPT ![v].citation = citation]
  <2>1. PICK v \in Versions, citation \in {"active", "invalid"} :
             doc' = doc /\ newVer = [ver EXCEPT ![v] = [ver[v] EXCEPT !.citation = citation]]
    BY <1>9 DEF TypeOK
  <2>2. /\ ver'[v] = [ver[v] EXCEPT !.citation = citation]
        /\ \A w \in Versions \ {v} : ver'[w] = ver[w]
    BY <2>1 DEF TypeOK
  <2>3. \A w \in Versions : /\ ver'[w].chunks = ver[w].chunks /\ ver'[w].status = ver[w].status
                            /\ ver'[w].frozen = ver[w].frozen /\ ver'[w].risk = ver[w].risk
    BY <2>2 DEF TypeOK, VerRow
  <2>4. (VisibleIsPublished => VisibleIsPublished') /\ Served' = Served
    BY <2>1, <2>3 DEF VisibleIsPublished, Served
  <2>. QED BY <2>1, <2>3, <2>4 DEF Orderly
<1>. QED BY <1>4, <1>6, <1>7, <1>8, <1>9 DEF Effect

\* Ready speaks of the rows only: it stays while they do.
LEMMA StaysReady ==
  ASSUME NEW c, Ready(c), UNCHANGED <<doc, ver, approved>>
  PROVE  Ready(c)'
<1>1. SUFFICES ASSUME c # Idle PROVE Ready(c)'
  BY DEF Ready, Idle
<1>2. PICK newDoc, newVer :
        \E inserts \in SUBSET (Versions \X {"chunks", "citation"}) :
          \E replaces, holds \in SUBSET Versions :
            /\ Effect(newDoc, newVer, replaces)
            /\ c = Call(newDoc, newVer, inserts, replaces, holds)
  BY <1>1 DEF Ready
<1>3. PICK inserts \in SUBSET (Versions \X {"chunks", "citation"}),
           replaces \in SUBSET Versions, holds \in SUBSET Versions :
             /\ Effect(newDoc, newVer, replaces)
             /\ c = Call(newDoc, newVer, inserts, replaces, holds)
  BY <1>2
<1>4. /\ Effect(newDoc, newVer, replaces)'
      /\ c = Call(newDoc, newVer, inserts, replaces, holds)'
  BY <1>3 DEF Effect, Call, CanPublish, StatusAllowsPublish, AlreadyPublished,
              ApprovalsReady, Retired, CanRollback
<1>. QED BY <1>4 DEF Ready

\* Every step keeps the invariant, and every step but the commit of an overtaken
\* call leaves the document in order.
LEMMA OverlapStep ==
  ASSUME OverlapInv, [Next]_vars
  PROVE  /\ OverlapInv'
         /\ UNCHANGED vars \/ StaleCommit \/ Orderly
<1>1. TypeOK'
  BY StepType DEF OverlapInv
<1>2. ASSUME UNCHANGED <<doc, ver>>
      PROVE  Orderly
  BY <1>2 DEF VisibleIsPublished, Served, Orderly
<1>3. CASE UNCHANGED vars
  <2>1. \A r \in Req : r \in stale' \/ Ready(txn[r])'
    BY <1>3, StaysReady DEF vars, OverlapInv, Ready, Idle
  <2>2. ~ crossed' => VisibleIsPublished'
    BY <1>3 DEF vars, OverlapInv, VisibleIsPublished
  <2>. QED BY <1>1, <1>3, <2>1, <2>2 DEF OverlapInv
<1>4. ASSUME NEW r \in Req, Commit(r)
      PROVE  OverlapInv' /\ (StaleCommit \/ Orderly)
  <2>1. \A q \in Req : q \in stale' \/ Ready(txn[q])'
    BY <1>4 DEF Commit, Overtaken, Ready, Idle
  <2>2. r \notin stale => Orderly
    <3>. SUFFICES ASSUME r \notin stale PROVE Orderly
      OBVIOUS
    <3>1. Ready(txn[r]) /\ txn[r] # Idle
      BY <1>4 DEF Commit, OverlapInv
    <3>2. PICK newDoc, newVer :
            \E inserts \in SUBSET (Versions \X {"chunks", "citation"}) :
              \E replaces, holds \in SUBSET Versions :
                /\ Effect(newDoc, newVer, replaces)
                /\ txn[r] = Call(newDoc, newVer, inserts, replaces, holds)
      BY <3>1 DEF Ready
    <3>3. PICK inserts \in SUBSET (Versions \X {"chunks", "citation"}),
               replaces \in SUBSET Versions, holds \in SUBSET Versions :
                 /\ Effect(newDoc, newVer, replaces)
                 /\ txn[r] = Call(newDoc, newVer, inserts, replaces, holds)
      BY <3>2
    <3>4. doc' = newDoc /\ \A v \in Versions : ver'[v] = newVer[v]
      BY <1>4, <3>3, CommitRows, WritesEffect DEF OverlapInv
    <3>. QED BY <3>3, <3>4, EffectIsOrderly DEF OverlapInv
  <2>3. r \in stale => StaleCommit
    BY <1>4 DEF StaleCommit
  <2>4. ~ crossed' => ~ crossed /\ r \notin stale
    BY <1>4, Zenon DEF Commit
  <2>5. ~ crossed' => VisibleIsPublished'
    BY <2>2, <2>4 DEF OverlapInv, Orderly
  <2>. QED BY <1>1, <2>1, <2>2, <2>3, <2>5 DEF OverlapInv
<1>5. ASSUME NEW r \in Req, Abort(r)
      PROVE  OverlapInv' /\ Orderly
  <2>1. UNCHANGED <<doc, ver, approved>> /\ crossed' = crossed
    BY <1>5 DEF Abort
  <2>2. ASSUME NEW q \in Req, q \notin stale'
        PROVE  Ready(txn[q])'
    <3>1. txn'[q] = Idle \/ (txn'[q] = txn[q] /\ q \notin stale)
      BY <1>5, <2>2 DEF Abort, OverlapInv, TypeOK
    <3>2. CASE txn'[q] = Idle
      BY <3>2 DEF Ready, Idle
    <3>3. CASE txn'[q] = txn[q] /\ q \notin stale
      <4>1. Ready(txn[q])
        BY <3>3 DEF OverlapInv
      <4>2. PICK c : c = txn[q]
        OBVIOUS
      <4>3. Ready(c)'
        BY <2>1, <4>1, <4>2, StaysReady
      <4>. QED BY <3>3, <4>2, <4>3 DEF Ready, Idle
    <3>. QED BY <3>1, <3>2, <3>3
  <2>3. ~ crossed' => VisibleIsPublished'
    BY <2>1 DEF OverlapInv, VisibleIsPublished
  <2>. QED BY <1>1, <1>2, <2>1, <2>2, <2>3 DEF OverlapInv
<1>6. ASSUME NEW r \in Req, Operation(r)
      PROVE  OverlapInv' /\ Orderly
  <2>1. PICK newDoc, newVer :
           \E inserts \in SUBSET (Versions \X {"chunks", "citation"}) :
             \E replaces, holds \in SUBSET Versions :
               /\ Effect(newDoc, newVer, replaces)
               /\ Free(r)
               /\ Begin(r, Call(newDoc, newVer, inserts, replaces, holds))
    BY <1>6, OperationCalls DEF OverlapInv
  <2>2. PICK inserts \in SUBSET (Versions \X {"chunks", "citation"}),
             replaces \in SUBSET Versions, holds \in SUBSET Versions :
               /\ Effect(newDoc, newVer, replaces)
               /\ Begin(r, Call(newDoc, newVer, inserts, replaces, holds))
    BY <2>1
  <2>3. UNCHANGED <<doc, ver, approved>> /\ stale' = stale /\ crossed' = crossed
    BY <2>2 DEF Begin
  <2>4. PICK c : c = Call(newDoc, newVer, inserts, replaces, holds)
    OBVIOUS
  <2>5. Ready(c)
    BY <2>2, <2>4 DEF Ready
  <2>6. txn'[r] = c /\ \A q \in Req \ {r} : txn'[q] = txn[q]
    BY <2>2, <2>4 DEF Begin, OverlapInv, TypeOK
  <2>7. ASSUME NEW q \in Req, q \notin stale'
        PROVE  Ready(txn[q])'
    <3>1. PICK d : d = txn'[q]
      OBVIOUS
    <3>2. Ready(d)
      BY <2>3, <2>5, <2>6, <2>7, <3>1 DEF OverlapInv
    <3>3. Ready(d)'
      BY <2>3, <3>2, StaysReady
    <3>. QED BY <3>1, <3>3 DEF Ready, Idle
  <2>8. ~ crossed' => VisibleIsPublished'
    BY <2>3 DEF OverlapInv, VisibleIsPublished
  <2>. QED BY <1>1, <1>2, <2>3, <2>7, <2>8 DEF OverlapInv
<1>7. ASSUME NEW r \in Req, Elsewhere(r)
      PROVE  OverlapInv' /\ Orderly
  <2>1. /\ \A q \in Req : q \in stale' \/ txn'[q] = Idle
        /\ crossed' = crossed
    BY <1>7 DEF Elsewhere, Decide, Approve, Revoke, Overtaken
  <2>2. \A q \in Req : q \in stale' \/ Ready(txn[q])'
    BY <2>1 DEF Ready, Idle
  <2>3. ASSUME NEW choice \in DocStatuses, Decide(r, choice)
        PROVE  Orderly
    <3>1. /\ doc'.status = choice /\ doc'.published = doc.published /\ ver' = ver
          /\ doc.status # "published" /\ doc.status # "archived" /\ choice # "published"
          /\ CanMoveDoc(doc.status, choice)
      BY <2>3 DEF Decide, CanMoveDoc, DocTransitions, OverlapInv, TypeOK, DocRow
    <3>2. VisibleIsPublished => VisibleIsPublished'
      BY <3>1 DEF VisibleIsPublished
    <3>. QED BY <3>1, <3>2 DEF Orderly, Served
  <2>4. ASSUME NEW v \in Versions, NEW level \in Levels, Approve(r, v, level) \/ Revoke(r, v, level)
        PROVE  Orderly
    BY <1>2, <2>4 DEF Approve, Revoke
  <2>5. Orderly
    BY <1>7, <2>3, <2>4 DEF Elsewhere
  <2>6. ~ crossed' => VisibleIsPublished'
    BY <2>1, <2>5 DEF OverlapInv, Orderly
  <2>. QED BY <1>1, <2>2, <2>5, <2>6 DEF OverlapInv
<1>. QED BY <1>3, <1>4, <1>5, <1>6, <1>7 DEF Next

LEMMA OverlapInvariance == Spec => []OverlapInv
<1>1. Init => OverlapInv
  <2>1. ASSUME Init
        PROVE  VisibleIsPublished /\ \A r \in Req : Ready(txn[r])
    <3>1. doc.status = "scholar_review"
      BY <2>1 DEF Init
    <3>2. ASSUME NEW v \in Versions
          PROVE  ver[v].chunks # "visible"
      <4>1. PICK s \in {"parsed", "scholar_approved"}, c \in {"none", "hidden"} :
              ver[v] = [BlankVer EXCEPT !.status = s, !.chunks = c]
        BY <2>1 DEF Init
      <4>. QED BY <4>1 DEF BlankVer
    <3>3. \A r \in Req : Ready(txn[r])
      BY <2>1 DEF Init, Ready
    <3>. QED BY <3>1, <3>2, <3>3 DEF VisibleIsPublished
  <2>. QED BY <2>1, InitType DEF OverlapInv
<1>2. OverlapInv /\ [Next]_vars => OverlapInv'
  BY OverlapStep
<1>. QED BY <1>1, <1>2, PTL DEF Spec

\* With any number of versions and calls, and however they overlap, retrieval
\* serves the published version of a published document and nothing else, until
\* a call commits what another has written under.
THEOREM ServesUntilCrossed == Spec => []ServedUntilCrossed
<1>1. OverlapInv => ServedUntilCrossed
  BY DEF OverlapInv, VisibleIsPublished, ServedUntilCrossed, ServedIsPublishedVersion, Served
<1>. QED BY <1>1, OverlapInvariance, PTL

\* However calls overlap, and whatever an overtaken call has done before, a step
\* that no overtaken call takes publishes with the approvals in force, hides
\* content together with its citation and moves the status along the edges of its
\* machine, so that an archived document stays retired.
THEOREM OnlyStaleBreaks ==
  Spec => OnlyStalePublishesUnapproved /\ HidingInvalidates /\ StatusFollowsMachine
<1>1. OverlapInv /\ [Next]_vars =>
        [StaleCommit \/ \A v \in Versions :
           ver[v].risk = "none" /\ ver'[v].risk # "none" =>
             RequiredLevels(ver'[v].risk) \subseteq approved[v]]_vars
  BY OverlapStep DEF Orderly
<1>2. OverlapInv /\ [Next]_vars =>
        [StaleCommit \/ (doc.published \in Served \ Served' =>
           ver'[doc.published].citation # "active")]_vars
  BY OverlapStep DEF Orderly
<1>3. OverlapInv /\ [Next]_vars => [StaleCommit \/ Machine!Next]_(doc.status)
  <2>1. OverlapInv /\ UNCHANGED vars => UNCHANGED doc.status
    BY DEF vars
  <2>2. ASSUME OverlapInv, [Next]_vars, Orderly, doc'.status # doc.status
        PROVE  Machine!Next
    <3>1. doc'.status \in DocStatuses
      BY <2>2, StepType DEF OverlapInv, TypeOK, DocRow
    <3>2. CanMoveDoc(doc.status, doc'.status)
      BY <2>2 DEF Orderly
    <3>. QED BY <3>1, <3>2 DEF Machine!Next, Machine!DocStatuses, Machine!CanMoveDoc,
                               Machine!DocTransitions, DocStatuses, CanMoveDoc, DocTransitions
  <2>. QED BY <2>1, <2>2, OverlapStep
<1>. QED BY <1>1, <1>2, <1>3, OverlapInvariance, PTL
         DEF Spec, OnlyStalePublishesUnapproved, HidingInvalidates, StatusFollowsMachine

=============================================================================
