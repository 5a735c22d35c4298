----------------------------- MODULE Embeddings -----------------------------
(***************************************************************************)
(* EmbeddingService.embed_documents over an OpenAI-compatible provider     *)
(* (embeddings.py): the texts that are not blank are sent in batches, a    *)
(* batch is posted again after a failure that may pass, and the rows of an *)
(* answer are put in their places by the index they claim.  A vector is    *)
(* written as the text it was made of.                                     *)
(***************************************************************************)
EXTENDS Integers, Sequences, SequencesExt

CONSTANTS
  Inputs,     \* the sequences of texts a caller may give
  Blank,      \* a text of white space
  BatchSize, MaxRetries,
  Missing     \* the place of a row that has not come

VARIABLES
  texts,      \* what the caller gave
  stage,      \* "new", "post", "returned", or the error it ended with
  vectors,    \* of the batches that are done
  attempt,
  posts,      \* how often the provider was called
  honest      \* whether every row so far claimed the place of its text

vars == <<texts, stage, vectors, attempt, posts, honest>>

Errors == {"EMPTY_INPUT", "TIMEOUT", "UNAVAILABLE", "AUTH_FAILED", "RESPONSE_INVALID",
           "DIMENSION_MISMATCH", "IndexError"}

\* the texts the service sends on: those with anything in them, in their order
Sent ==
  LET sent[i \in 0..Len(texts)] ==
        IF i = 0 THEN <<>>
        ELSE IF texts[i] = Blank THEN sent[i - 1] ELSE Append(sent[i - 1], texts[i])
  IN  sent[Len(texts)]

Batch == SubSeq(Sent, Len(vectors) + 1,
                IF Len(vectors) + BatchSize < Len(Sent) THEN Len(vectors) + BatchSize
                                                         ELSE Len(Sent))

End(error) == stage' = error /\ UNCHANGED <<texts, vectors, attempt, honest>>

EmbedDocuments ==
  /\ stage = "new"
  /\ UNCHANGED posts
  /\ IF Sent = <<>> THEN End("EMPTY_INPUT")
     ELSE stage' = "post" /\ UNCHANGED <<texts, vectors, attempt, honest>>

\* the failures _post_with_retry tries again after: a timeout, no connection,
\* 429 and 5xx, while attempts are left
Retries(error) == error \in {"TIMEOUT", "UNAVAILABLE"} /\ attempt < MaxRetries

PostFails ==
  /\ stage = "post"
  /\ posts' = posts + 1
  /\ \E error \in {"TIMEOUT", "UNAVAILABLE", "AUTH_FAILED", "RESPONSE_INVALID"} :
       IF Retries(error)
       THEN attempt' = attempt + 1 /\ UNCHANGED <<texts, stage, vectors, honest>>
       ELSE End(error)

\* seeded fault: the rows are taken in the order they come
InOrderOfArrival(rows, n) == [place \in 1..n |-> rows[place].text]

\* ordered[index] = vector: an index below zero counts from the end, and the
\* last of two rows for one place stays
Placed(rows, n) ==
  [place \in 1..n |->
     LET claims == {i \in 1..n : rows[i].index \in {place - 1, place - 1 - n}}
     IN  IF claims = {} THEN Missing
         ELSE rows[CHOOSE i \in claims : \A j \in claims : j <= i].text]

\* the provider answers with as many rows as it was sent texts, in any order
Answer ==
  /\ stage = "post"
  /\ posts' = posts + 1
  /\ LET n == Len(Batch)
     IN  \E order \in SetToSeqs(1..n) : \E index \in [1..n -> (-n)..n] :
           LET rows   == [i \in 1..n |-> [index |-> index[i], text |-> Batch[order[i]]]]
               placed == Placed(rows, n)
           IN  IF \E i \in 1..n : index[i] = n
               THEN End("IndexError")
               ELSE IF Missing \in ToSet(placed)
               THEN End("RESPONSE_INVALID")
               ELSE /\ vectors' = vectors \o placed
                    /\ stage' = IF Len(vectors') = Len(Sent) THEN "returned" ELSE "post"
                    /\ attempt' = 0
                    /\ honest' = (honest /\ \A i \in 1..n : index[i] = order[i] - 1)
                    /\ UNCHANGED texts

\* other rows than texts, no JSON, or vectors of another dimension
BadAnswer ==
  /\ stage = "post"
  /\ posts' = posts + 1
  /\ \E error \in {"RESPONSE_INVALID", "DIMENSION_MISMATCH"} : End(error)

Init ==
  /\ texts \in Inputs
  /\ stage = "new"
  /\ vectors = <<>>
  /\ attempt = 0
  /\ posts = 0
  /\ honest = TRUE

Next == EmbedDocuments \/ PostFails \/ Answer \/ BadAnswer

Spec == Init /\ [][Next]_vars

-----------------------------------------------------------------------------
\* Over all batches and retries the vector of a place is that of its text, as
\* long as the rows tell their places truly, in whatever order they come; and
\* whatever places they tell, no place is left without a vector.
VectorsFitTexts ==
  /\ honest => vectors = SubSeq(Sent, 1, Len(vectors))
  /\ stage = "returned" => Len(vectors) = Len(Sent)
  /\ Missing \notin ToSet(vectors)

\* The provider is called at most once more per batch for every retry, although
\* the batches share one call of the service.
PostsBounded ==
  posts <= (1 + Len(vectors) \div BatchSize) * (MaxRetries + 1)

=============================================================================
